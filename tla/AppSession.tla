----------------------------- MODULE AppSession -----------------------------
(***************************************************************************)
(* The normal-mode application (src/main.rs, src/handlers, src/app_ui):    *)
(* one loop that takes an APDU, runs its handler, replies, and shows a     *)
(* status or the home screen.  A handler stops at most once, while the     *)
(* user looks at a review; the steps between two stops are one action.     *)
(*                                                                         *)
(* The host is arbitrary: it may send any header with any data whenever    *)
(* the loop waits, so chunks may be missing, repeated, of the wrong        *)
(* instruction, or continue a request that was already decided.            *)
(***************************************************************************)
EXTENDS AppContext, Instructions

CONSTANTS
  Header,         \* APDU headers [ins, p1, p2] the host sends
  Data,           \* APDU data fields the host sends
  PermittedPaths, \* paths the operating system derives keys for (Cargo.toml)
  TxParses,       \* payloads the transaction and operation parsers accept
  TxFormats,      \* payloads every field of which can be formatted
  TxSoroban,      \* payloads with an InvokeHostFunction operation
  AuthParses,     \* payloads that parse as a Soroban authorization preimage
  Hashes,         \* payloads of exactly HASH_SIZE bytes
  NoRequest       \* no request is on the screen, or on the handler's stack

ASSUME SessionAssumption ==
  /\ Header \subseteq [ins: Nat, p1: Nat, p2: Nat]
  /\ Data \subseteq Seq(Symbol) \cup {Malformed}
  /\ PermittedPaths \subseteq Path
  /\ Hashes \subseteq Seq(Symbol)

VARIABLES
  ctx,            \* the receive context of AppContext
  blind_signing,  \* the BlindSigning setting, in non-volatile memory
  phase,          \* where the loop of sample_main stands
  ins,            \* header of the last command taken
  local,          \* values on the handler's stack across the review
  shown,          \* what the review screen was built from
  reply,          \* what the last command answered
  screen          \* what the display was last told to draw

vars == <<ctx, blind_signing, phase, ins, local, shown, reply, screen>>

-----------------------------------------------------------------------------
(* Values. *)

StatusWord == {"Ok", "Deny", "KeyDeriveFail", "RequestDataTooLarge",
               "DataParsingFail", "DataHashFail", "DataSignFail",
               "DataFormattingFail", "WrongApduLength", "WrongP1P2",
               "InsNotSupported", "BlindSigningModeNotEnabled"}
CryptoFailure == {"KeyDeriveFail", "DataHashFail", "DataSignFail"}

\* What a key is asked to sign: the instruction selects how the payload is
\* digested (raw, prefixed message, or a hash taken as it is).
Request == [ins: KnownIns, path: Path \cup {DefaultPath}, payload: Seq(Symbol)]
Req(i, p, d) == [ins |-> i, path |-> p, payload |-> d]

ASSUME NoRequestAssumption == NoRequest \notin Request

Nothing   == [type |-> "none"]
PublicKey(p) == [type |-> "pubkey", path |-> p, len |-> 32]
Signature(r) == [type |-> "signature", req |-> r, len |-> 64]
\* handler_get_configuration: the flag, three version bytes and the two bytes
\* of the buffer size; only the flag varies at run time.
Configuration(b) == [type |-> "config", blind |-> b, len |-> 6]

RData == {Nothing} \cup {PublicKey(p) : p \in Path}
         \cup {Configuration(b) : b \in BOOLEAN}
         \cup [type: {"signature"}, req: Request, len: {64}]

NoReply == [sw |-> "Ok", rdata |-> Nothing, sent |-> FALSE]
Reply(sw, rdata) == [sw |-> sw, rdata |-> rdata, sent |-> TRUE]
HasSignature == reply.rdata.type = "signature"

-----------------------------------------------------------------------------
Init ==
  /\ ctx = EmptyContext
  /\ blind_signing \in BOOLEAN
  /\ phase = "next_command"
  /\ ins = [ins |-> INS_GET_CONF, p1 |-> 0, p2 |-> 0]
  /\ local = NoRequest
  /\ shown = NoRequest
  /\ reply = NoReply
  /\ screen = "home"

\* A faulty variant that does not ask whether the review is over.
ShowsStatusTooSoon(h, sw, c) ==
  sw \in {"Deny", "Ok"} /\ (h.ins = INS_GET_PK => Display(h))

\* show_status_and_home_if_needed: whether a status screen follows the reply.
\* A chunked command asks the context, not the command, whether it finished.
ShowsStatus(h, sw, c) ==
  /\ sw \in {"Deny", "Ok"}
  /\ \/ h.ins = INS_GET_PK /\ Display(h)
     \/ h.ins = INS_SIGN_HASH
     \/ h.ins \in Chunked /\ c.review_finished

\* The reply of the main loop and the screen that follows it.
Finish(h, sw, rdata, c) ==
  /\ reply' = Reply(sw, rdata)
  /\ phase' = IF sw = "BlindSigningModeNotEnabled" THEN "choice"
              ELSE IF ShowsStatus(h, sw, c) THEN "status" ELSE "next_command"
  /\ shown' = NoRequest
  /\ local' = NoRequest
  /\ UNCHANGED <<blind_signing, screen>>

\* The handler's call to review.show: nothing is replied until the user decides.
Show(r, stack) ==
  /\ phase' = "review"
  /\ screen' = "review"
  /\ shown' = r
  /\ local' = stack
  /\ reply' = NoReply
  /\ UNCHANGED blind_signing

-----------------------------------------------------------------------------
(* Commands. *)

\* Comm::next_command answers a header Instruction::try_from refuses, without
\* waking the loop.
RejectHeader(h) ==
  /\ phase = "next_command"
  /\ ~Accepted(h)
  /\ reply' = Reply(HeaderError(h), Nothing)
  /\ UNCHANGED <<ctx, blind_signing, phase, ins, local, shown, screen>>

Take(h) == phase = "next_command" /\ Accepted(h) /\ ins' = h

GetConfiguration(h) ==
  /\ Take(h) /\ h.ins = INS_GET_CONF
  /\ Finish(h, "Ok", Configuration(blind_signing), ctx)
  /\ UNCHANGED ctx

GetPublicKey(h, d) ==
  /\ Take(h) /\ h.ins = INS_GET_PK
  /\ UNCHANGED ctx
  /\ \/ ~HasPath(d) /\ Finish(h, "WrongApduLength", Nothing, ctx)
     \/ HasPath(d) /\ Finish(h, "KeyDeriveFail", Nothing, ctx)
     \/ /\ HasPath(d) /\ Head(d) \in PermittedPaths
        /\ IF Display(h)
           THEN LET r == Req(h.ins, Head(d), << >>) IN Show(r, r)
           ELSE Finish(h, "Ok", PublicKey(Head(d)), ctx)

\* Everything up to the review is checked against the command's own data, and
\* the context is reset first, even for a command that is then refused.
SignHash(h, d) ==
  /\ Take(h) /\ h.ins = INS_SIGN_HASH
  /\ ctx' = Reset(ctx)
  /\ \/ /\ HasPath(d) => Tail(d) \notin Hashes
        /\ Finish(h, "WrongApduLength", Nothing, ctx')
     \/ /\ HasPath(d) /\ Tail(d) \in Hashes
        /\ IF blind_signing
           THEN LET r == Req(h.ins, Head(d), Tail(d)) IN Show(r, r)
           ELSE Finish(h, "BlindSigningModeNotEnabled", Nothing, ctx')

\* A faulty ui_sign_tx that does not look for InvokeHostFunction.
TxVerdictNoBlindCheck(p) ==
  CASE p \notin TxParses -> "DataParsingFail"
    [] p \in TxParses \ TxFormats -> "DataFormattingFail"
    [] OTHER -> "Ok"

\* How ui_sign_tx ends before its review is shown.
TxVerdict(p) ==
  CASE p \notin TxParses  -> "DataParsingFail"
    [] p \in TxParses \ TxFormats -> "DataFormattingFail"
    [] /\ p \in TxParses \cap TxFormats
       /\ p \in TxSoroban /\ ~blind_signing -> "BlindSigningModeNotEnabled"
    [] OTHER -> "Ok"

\* How ui_sign_soroban_auth ends before its review is shown.
AuthVerdict(p) ==
  CASE ~blind_signing -> "BlindSigningModeNotEnabled"
    [] blind_signing /\ p \notin AuthParses -> "DataParsingFail"
    [] OTHER -> "Ok"

\* The status words with which the code between the last chunk and the review
\* may end; "Ok" reaches the review.  Key derivation and hashing may fail.
Outcomes(i, c) ==
  CASE i = INS_SIGN_TX ->
         {"KeyDeriveFail"} \cup
         (IF c.path \in PermittedPaths THEN {TxVerdict(c.raw_data)} ELSE {})
    [] i = INS_SIGN_SOROBAN_AUTH -> {AuthVerdict(c.raw_data)}
    [] i = INS_SIGN_MESSAGE -> {"DataHashFail", "Ok"}

\* handler_sign_tx, handler_sign_soroban_auth and handler_sign_message up to
\* the review: the chunk is stored; unless more follow, the context is marked
\* finished and the review is prepared from the whole buffer.  Only the message
\* handler digests the buffer before the review.
SignChunk(h, d) ==
  LET r == HandleChunk(ctx, First(h), d)
      c == [r.ctx EXCEPT !.review_finished = TRUE]
  IN  /\ Take(h) /\ h.ins \in Chunked
      /\ \/ /\ r.sw # "Ok" \/ More(h)
            /\ ctx' = r.ctx
            /\ Finish(h, r.sw, Nothing, r.ctx)
         \/ /\ r.sw = "Ok" /\ ~More(h)
            /\ ctx' = c
            /\ \E sw \in Outcomes(h.ins, c) :
                 IF sw = "Ok"
                 THEN LET q == Req(h.ins, c.path, c.raw_data) IN
                      Show(q, IF h.ins = INS_SIGN_MESSAGE THEN q ELSE NoRequest)
                 ELSE Finish(h, sw, Nothing, c)

-----------------------------------------------------------------------------
(* The user. *)

Approve ==
  /\ phase = "review"
  /\ phase' = "sign"
  /\ UNCHANGED <<ctx, blind_signing, ins, local, shown, reply, screen>>

Reject ==
  /\ phase = "review"
  /\ Finish(ins, "Deny", Nothing, ctx)
  /\ UNCHANGED <<ctx, ins>>

\* The home screen and its settings page are live only while the loop waits.
ToggleBlindSigning ==
  /\ phase = "next_command" /\ screen = "home"
  /\ blind_signing' = ~blind_signing
  /\ UNCHANGED <<ctx, phase, ins, local, shown, reply, screen>>

\* A faulty return to the loop that leaves the last screen in place.
DismissKeepsScreen ==
  /\ phase \in {"status", "choice"}
  /\ phase' = "next_command"
  /\ UNCHANGED <<ctx, blind_signing, ins, local, shown, reply, screen>>

\* A faulty loop that never comes back from the settings question.
DismissStatusOnly ==
  /\ phase = "status"
  /\ phase' = "next_command"
  /\ screen' = "home"
  /\ UNCHANGED <<ctx, blind_signing, ins, local, shown, reply>>

\* Leaving the status screen, or either answer to "Go to settings": the home
\* screen is drawn again and the loop waits for the next command.
Dismiss ==
  /\ phase \in {"status", "choice"}
  /\ phase' = "next_command"
  /\ screen' = "home"
  /\ UNCHANGED <<ctx, blind_signing, ins, local, shown, reply>>

-----------------------------------------------------------------------------
\* A faulty SignHash that takes its key from the context, which it has reset.
ToSignFromContext ==
  IF ins.ins = INS_SIGN_MESSAGE \/ ins.ins = INS_SIGN_HASH
  THEN Req(ins.ins, ctx.path, local.payload)
  ELSE Req(ins.ins, ctx.path, ctx.raw_data)

\* What the handler signs once the review is approved.  Each handler takes its
\* payload and its key from where the code takes them: the context is read
\* again after the review, the stack holds what was computed before it.
ToSign ==
  CASE ins.ins \in {INS_SIGN_TX, INS_SIGN_SOROBAN_AUTH} ->
         Req(ins.ins, ctx.path, ctx.raw_data)
    [] ins.ins = INS_SIGN_MESSAGE -> Req(ins.ins, ctx.path, local.payload)
    [] OTHER -> local

\* A faulty handler that does not look at what review.show returned.
CompleteUnasked ==
  /\ phase \in {"review", "sign"}
  /\ ins.ins \in Signing
  /\ UNCHANGED <<ctx, ins>>
  /\ Finish(ins, "Ok", Signature(ToSign), ctx)

\* The rest of a handler after an approved review.  A failure of the
\* cryptographic calls is replied without any further screen.
Complete ==
  /\ phase = "sign"
  /\ UNCHANGED <<ctx, ins>>
  /\ IF ins.ins = INS_GET_PK
     THEN Finish(ins, "Ok", PublicKey(local.path), ctx)
     ELSE \/ /\ ins.ins \in {INS_SIGN_TX, INS_SIGN_SOROBAN_AUTH}
             /\ Finish(ins, "DataHashFail", Nothing, ctx)
          \/ Finish(ins, "DataSignFail", Nothing, ctx)
          \/ /\ ToSign.path \in PermittedPaths
             /\ Finish(ins, "Ok", Signature(ToSign), ctx)

\* The application exits (the user quits it, power is lost, or a panic ends it)
\* and is started again: memory is lost, settings are kept, no reply is sent.
Restart ==
  /\ ctx' = EmptyContext
  /\ phase' = "next_command"
  /\ local' = NoRequest
  /\ shown' = NoRequest
  /\ reply' = NoReply
  /\ screen' = "home"
  /\ UNCHANGED <<blind_signing, ins>>

Command ==
  \E h \in Header :
    \/ RejectHeader(h)
    \/ GetConfiguration(h)
    \/ \E d \in Data : GetPublicKey(h, d) \/ SignHash(h, d) \/ SignChunk(h, d)

User == Approve \/ Reject \/ Dismiss \/ ToggleBlindSigning

Next == Command \/ User \/ Complete \/ Restart

Spec == Init /\ [][Next]_vars

-----------------------------------------------------------------------------
(* Properties. *)

\* Type invariant: the buffer stays within its capacity, and the screen, the
\* handler's stack and the reply hold what their readers expect.
TypeOK ==
  /\ ctx \in Context
  /\ Len(ctx.raw_data) <= MAX
  /\ blind_signing \in BOOLEAN
  /\ phase \in {"next_command", "review", "sign", "status", "choice"}
  /\ ins \in [ins: Nat, p1: Nat, p2: Nat]
  /\ Accepted(ins)
  /\ local \in Request \cup {NoRequest}
  /\ shown \in Request \cup {NoRequest}
  /\ reply \in [sw: StatusWord, rdata: RData, sent: BOOLEAN]
  /\ screen \in {"home", "review"}

InReview == phase \in {"review", "sign"}

\* Whether a request is reviewed with NbglReview::blind.
BlindRequest ==
  {r \in Request : \/ r.ins \in {INS_SIGN_HASH, INS_SIGN_SOROBAN_AUTH}
                   \/ r.ins = INS_SIGN_TX /\ r.payload \in TxSoroban}

\* While a signing request is on the screen, and until it is signed, what the
\* handler is going to sign, read again from the context or from its stack, is
\* what the review was built from, key included.
ReviewedIsSigned ==
  InReview /\ ins.ins \in Signing => shown = ToSign

\* A request that is not shown in clear is on the screen, or about to be
\* signed, only while the blind signing setting is on: the setting checked
\* before the review cannot have changed since.
BlindOnlyWhenEnabled == InReview /\ shown \in BlindRequest => blind_signing

\* A success status is shown for a command that answered with a signature or
\* an address, with one exception the code has: a chunk of which more follow
\* never signs anything, but when it continues (P1 = 0x80) a context whose
\* review is over it is shown as a success all the same.
SuccessIsEarned ==
  phase = "status" /\ reply.sw = "Ok" =>
    \/ reply.rdata # Nothing
    \/ ins.ins \in Chunked /\ More(ins) /\ ~First(ins) /\ ctx.review_finished

\* A command that took the display gives it back: when the loop waits again the
\* home screen is drawn, unless a cryptographic call failed, after which the
\* code replies without drawing anything.
HomeRestored ==
  [][ phase # "next_command" /\ phase' = "next_command"
      => screen' = "home" \/ reply'.sw \in CryptoFailure ]_vars

\* The application implements SigningPromise.  The request on the screen is
\* the one being reviewed or signed; showing an address asks for no signature.
ImplementsPromise ==
  INSTANCE SigningPromise WITH
    prompt   <- IF InReview /\ ins.ins \in Signing THEN shown ELSE NoRequest,
    consent  <- phase = "sign" /\ ins.ins \in Signing,
    released <- IF HasSignature THEN reply.rdata.req ELSE NoRequest,
    blind    <- blind_signing

KeepsPromise == ImplementsPromise!Spec

\* docs/COMMANDS.md, GET_APP_CONFIGURATION: "Response length (bytes)" is 4.
ConfigurationLengthAsDocumented ==
  reply.rdata.type = "config" => reply.rdata.len = 4
=============================================================================
