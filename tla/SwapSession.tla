----------------------------- MODULE SwapSession -----------------------------
(***************************************************************************)
(* The application called by Exchange (src/swap): no home screen and no    *)
(* review.  The library call names one command; signing is a loop over     *)
(* APDUs that ends by handing a result back to Exchange.  Parameters and   *)
(* APDUs come from outside and are arbitrary.                              *)
(***************************************************************************)
EXTENDS AppContext, Instructions, SwapValidation, Decimals, PrintableAmount

CONSTANTS
  Header,         \* APDU headers the host sends
  Data,           \* APDU data fields the host sends
  Params,         \* parameters Exchange may call with
  TxOf,           \* the transactions: a function on the payloads that parse
  AddressOf,      \* the address of each path's key
  PermittedPaths  \* paths the operating system derives keys for

\* The two crates name the same number of places, each in a constant of its own.
ASSUME PlacesAgree == DECIMAL_PLACES = STELLAR_NATIVE_DECIMAL_PLACES

ASSUME SwapAssumption ==
  /\ Header \subseteq [ins: Nat, p1: Nat, p2: Nat]
  /\ Data \subseteq Seq(Symbol) \cup {Malformed}
  /\ PermittedPaths \subseteq Path
  /\ DOMAIN AddressOf = Path
  \* the arrays and lengths of CreateTxParams and PrintableAmountParams
  /\ \A p \in Params : p.command \in {"sign_transaction", "get_printable_amount"} =>
       p.amount \in Seq(0..(BASE - 1))
  /\ \A p \in Params : p.command = "sign_transaction" =>
       /\ p.amount_len \in Nat
       /\ p.fee_amount \in Seq(0..(BASE - 1)) /\ p.fee_amount_len \in Nat

VARIABLES
  params,   \* what Exchange called with
  ctx,      \* the receive context
  phase,    \* "called", "next_command", "returning", "ended" or "crashed"
  reply,    \* the answer to the last APDU: status word, signed request or none
  result,   \* the result handed, or about to be handed, to Exchange
  printed,  \* the text handed to Exchange for an amount
  streamed  \* history: the data received since the last accepted first chunk

vars == <<params, ctx, phase, reply, result, printed, streamed>>

NoSignature == [none |-> TRUE]
Signed(p, d) == [path |-> p, payload |-> d]
NoResult == -1
NoText == << >>

Init ==
  /\ params \in Params
  /\ ctx = EmptyContext
  /\ phase = "called"
  /\ reply = [sw |-> "Ok", signature |-> NoSignature]
  /\ result = NoResult
  /\ printed = NoText
  /\ streamed = << >>

\* swap_main with handle_check_address_command: answered without any APDU.
CheckAddress ==
  /\ phase = "called" /\ params.command = "check_address"
  /\ phase' = "returning"
  /\ \/ result' = 0 /\ ~ValidAddress(params, AddressOf[params.path])
     \/ result' = 0  \* the key cannot be derived
     \/ /\ params.path \in PermittedPaths
        /\ ValidAddress(params, AddressOf[params.path])
        /\ result' = 1
  /\ UNCHANGED <<params, ctx, reply, printed, streamed>>

\* swap_main with handle_printable_amount_command.  The code expects no error
\* and answers "0" if there is one.
PrintableAmountCommand ==
  /\ phase = "called" /\ params.command = "get_printable_amount"
  /\ phase' = "returning"
  /\ printed' = LET w == FormatPrintableAmount(FromBigEndian(params.amount))
                IN  IF w.ok THEN w.written ELSE <<"0">>
  /\ UNCHANGED <<params, ctx, reply, result, streamed>>

\* handle_sign_transaction_command enters its loop.
StartSigning ==
  /\ phase = "called" /\ params.command = "sign_transaction"
  /\ phase' = "next_command"
  /\ UNCHANGED <<params, ctx, reply, result, printed, streamed>>

\* swap_reply, and the loop goes on.
Answer(sw) ==
  /\ reply' = [sw |-> sw, signature |-> NoSignature]
  /\ UNCHANGED <<params, phase, result, printed>>

\* A faulty session that goes on after an error.
AnswerAndReturnOnSuccess(sw, signature, res) ==
  /\ reply' = [sw |-> sw, signature |-> signature]
  /\ result' = res
  /\ phase' = IF res = 1 THEN "returning" ELSE "next_command"
  /\ UNCHANGED <<params, printed>>

\* A faulty session that goes on after a signature.
AnswerAndReturnOnError(sw, signature, res) ==
  /\ reply' = [sw |-> sw, signature |-> signature]
  /\ result' = res
  /\ phase' = IF res = 0 THEN "returning" ELSE "next_command"
  /\ UNCHANGED <<params, printed>>

\* A faulty session that reports success once the transaction is validated.
AnswerAndReturnEarlySuccess(sw, signature, res) ==
  /\ reply' = [sw |-> sw, signature |-> signature]
  /\ result' = IF sw \in {"Ok", "DataHashFail", "DataSignFail"} THEN 1 ELSE 0
  /\ phase' = "returning"
  /\ UNCHANGED <<params, printed>>

\* swap_reply, with swap_return to follow: no further APDU is taken.
AnswerAndReturn(sw, signature, res) ==
  /\ reply' = [sw |-> sw, signature |-> signature]
  /\ result' = res
  /\ phase' = "returning"
  /\ UNCHANGED <<params, printed>>

\* The rest of handle_swap_sign_tx once the last chunk is stored.
ValidateAndSign(c) ==
  LET valid == /\ c.raw_data \in DOMAIN TxOf
               /\ ValidSwap(TxOf[c.raw_data], params, AddressOf[c.path])
  IN  \/ AnswerAndReturn("KeyDeriveFail", NoSignature, 0)
      \/ /\ c.path \in PermittedPaths /\ ~valid
         /\ AnswerAndReturn("SwapCheckFail", NoSignature, 0)
      \/ /\ c.path \in PermittedPaths /\ valid
         /\ \/ AnswerAndReturn("DataHashFail", NoSignature, 0)
            \/ AnswerAndReturn("DataSignFail", NoSignature, 0)
            \/ AnswerAndReturn("Ok", Signed(c.path, c.raw_data), 1)

\* The SignTx arm of handle_swap_apdu, with handle_swap_sign_tx.
SwapSignTx(h, d) ==
  LET r == HandleChunk(ctx, First(h), d)
  IN  /\ phase = "next_command" /\ Accepted(h) /\ h.ins = INS_SIGN_TX
      /\ ctx' = r.ctx
      /\ streamed' = IF d = Malformed THEN streamed
                     ELSE IF ~First(h) THEN streamed \o d
                     ELSE IF HasPath(d) THEN Tail(d) ELSE << >>
      /\ \/ r.sw # "Ok" /\ AnswerAndReturn(r.sw, NoSignature, 0)
         \/ r.sw = "Ok" /\ More(h) /\ Answer("Ok")
         \/ r.sw = "Ok" /\ ~More(h) /\ ValidateAndSign(r.ctx)

\* The GetPubkey arm: its errors do not end the session.
SwapGetPubkey(h, d) ==
  /\ phase = "next_command" /\ Accepted(h) /\ h.ins = INS_GET_PK
  /\ \/ Display(h) /\ Answer("InsNotSupported")
     \/ ~Display(h) /\ ~HasPath(d) /\ Answer("WrongApduLength")
     \/ ~Display(h) /\ HasPath(d) /\ Answer("KeyDeriveFail")
     \/ /\ ~Display(h) /\ HasPath(d) /\ Head(d) \in PermittedPaths
        /\ Answer("Ok")
  /\ UNCHANGED <<ctx, streamed>>

\* Every other command, and every header that is not accepted.
SwapRefuse(h) ==
  /\ phase = "next_command"
  /\ \/ Accepted(h) /\ h.ins \notin {INS_SIGN_TX, INS_GET_PK}
        /\ Answer("InsNotSupported")
     \/ ~Accepted(h) /\ Answer(HeaderError(h))
  /\ UNCHANGED <<ctx, streamed>>

\* swap_return: control goes back to Exchange and the application is gone.
SwapReturn ==
  /\ phase = "returning"
  /\ phase' = "ended"
  /\ UNCHANGED <<params, ctx, reply, result, printed, streamed>>

\* Power is lost or the application panics: Exchange gets no result.
Crash ==
  /\ phase \notin {"ended", "crashed"}
  /\ phase' = "crashed"
  /\ UNCHANGED <<params, ctx, reply, result, printed, streamed>>

Next ==
  \/ CheckAddress
  \/ PrintableAmountCommand
  \/ StartSigning
  \/ \E h \in Header :
       \/ SwapRefuse(h)
       \/ \E d \in Data : SwapSignTx(h, d) \/ SwapGetPubkey(h, d)
  \/ SwapReturn
  \/ Crash

Spec == Init /\ [][Next]_vars /\ WF_vars(SwapReturn)

-----------------------------------------------------------------------------
(* What Exchange relies on, stated without the application's checks. *)

\* The number the last len bytes of an array denote: the sum of the digits,
\* from the lowest on, each times the value of its place.
Denotes(bytes, len) ==
  LET place[k \in 0..len] == IF k = 0 THEN 1 ELSE place[k - 1] * BASE
      low[k \in 0..len] ==
        IF k = 0 THEN 0 ELSE low[k - 1] + bytes[Len(bytes) - k + 1] * place[k - 1]
  IN  low[len]

\* The account an operation acts for on the network.
ActsFor(op, tx) == IF op.source = "absent" THEN tx.source ELSE op.source

\* What the network will do with the transaction is what the parameters say:
\* one native payment of that amount to that address, made by the signer's
\* account on the public network, for that fee.
Agreed(tx, p, signer) ==
  /\ tx.network = "public" /\ tx.envelope = "tx"
  /\ tx.op_count = 1
  /\ tx.source = signer
  /\ tx.fee = Denotes(p.fee_amount, p.fee_amount_len)
  /\ LET op == tx.ops[1] IN
       /\ op.body = "payment" /\ op.asset = "native"
       /\ ActsFor(op, tx) = signer
       /\ op.destination = p.dest_address
       /\ op.amount = Denotes(p.amount, p.amount_len)

SignatureSent == reply.signature # NoSignature

-----------------------------------------------------------------------------
(* Properties. *)

\* Type invariant.
SwapTypeOK ==
  /\ params \in Params
  /\ ctx \in Context /\ Len(ctx.raw_data) <= MAX /\ ~ctx.review_finished
  /\ phase \in {"called", "next_command", "returning", "ended", "crashed"}
  /\ reply.sw \in {"Ok", "KeyDeriveFail", "RequestDataTooLarge", "DataHashFail",
                   "DataSignFail", "SwapCheckFail", "WrongApduLength",
                   "WrongP1P2", "InsNotSupported"}
  /\ result \in {NoResult, 0, 1}
  /\ printed # NoText => params.command = "get_printable_amount"
  /\ streamed \in Seq(Symbol)

\* A signature is released only for a transaction that does what Exchange
\* asked, by the key whose account pays: nobody reviews it on the device.
SignedIsAgreed ==
  SignatureSent =>
    Agreed(TxOf[reply.signature.payload], params, AddressOf[reply.signature.path])

\* The signature covers everything received since the first chunk: a refused
\* chunk ends the session, so no part of a stream can be skipped over.
SignedIsWholeStream ==
  SignatureSent => reply.signature.payload = streamed

\* Exchange is told 1 by the signing command exactly when a signature went out,
\* whatever was asked before and however the session ended.
ResultIsTruthful ==
  phase \in {"returning", "ended"} /\ params.command = "sign_transaction"
    => (result = 1 <=> SignatureSent)

\* One call of Exchange gets at most one signature: once one went out, no
\* APDU is answered any more.
AtMostOneSignature == [][SignatureSent => UNCHANGED reply]_vars

\* What Exchange shows for an amount is that amount in XLM, read back digit by
\* digit, written without zeros that say nothing; only an amount no account can
\* hold becomes the bare "0" of the error path.
PrintedDenotes ==
  printed # NoText =>
    LET amount == Denotes(params.amount, Len(params.amount))
        number == SubSeq(printed, 1, Len(printed) - 4)
    IN  IF amount > I64_MAX THEN printed = <<"0">>
        ELSE /\ printed = number \o <<" ", "X", "L", "M">>
             /\ Reads(number, DECIMAL_PLACES) = amount
             /\ IsShort(number)

\* The two implementations of the conversion agree: Exchange shows what a review
\* on the device would show for the same amount, but for the separators.
PrintedAsReviewed ==
  printed # NoText /\ Len(printed) > 4 =>
    WithoutCommas(FormatNativeAmount(Denotes(params.amount, Len(params.amount))))
      = SubSeq(printed, 1, Len(printed) - 4)

\* src/swap/validation.rs, of validate_swap_transaction: "Memo matches the
\* extra ID".
MemoMatchesExtraId ==
  SignatureSent => TxOf[reply.signature.payload].memo.text = params.extra_id.text
=============================================================================
