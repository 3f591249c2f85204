--------------------------- MODULE SwapValidation ---------------------------
(***************************************************************************)
(* The checks the swap application makes before it signs without a review  *)
(* (src/swap/validation.rs): the transaction against the parameters the    *)
(* Exchange application has shown to the user.  The reason of a refusal is *)
(* only logged, so the checks are one predicate.                           *)
(*                                                                         *)
(* Numbers arrive as big-endian bytes, right-aligned in an array.  BASE,   *)
(* U64_BYTES and U32_BYTES scale the arithmetic down: 256, 8 and 4 in the  *)
(* code.                                                                   *)
(***************************************************************************)
EXTENDS Integers, Sequences

CONSTANTS BASE, U64_BYTES, U32_BYTES

ASSUME NumberAssumption ==
  /\ BASE \in Nat /\ BASE > 1
  /\ U32_BYTES \in Nat \ {0}
  /\ U64_BYTES \in Nat /\ U64_BYTES > U32_BYTES

Invalid == -1

\* u64::from_be_bytes.
FromBigEndian(digits) ==
  LET value[i \in 0..Len(digits)] ==
        IF i = 0 THEN 0 ELSE value[i - 1] * BASE + digits[i]
  IN  value[Len(digits)]

\* bytes_to_u64_be: the last len bytes of the array, right-aligned in a word.
BytesToU64(bytes, len) ==
  IF len = 0 \/ len > U64_BYTES \/ len > Len(bytes)
  THEN Invalid
  ELSE FromBigEndian([i \in 1..U64_BYTES |->
         IF i <= U64_BYTES - len THEN 0
         ELSE bytes[Len(bytes) - U64_BYTES + i]])

\* The escaping of StringM's Display: a byte that is not printable becomes a
\* backslash and a code, and a backslash is doubled.
Escape(text) ==
  LET piece(ch) == CASE ch = "byte80" -> <<"\\", "x80">>
                     [] ch = "\\"     -> <<"\\", "\\">>
                     [] OTHER         -> <<ch>>
      prefix[i \in 0..Len(text)] ==
        IF i = 0 THEN << >> ELSE prefix[i - 1] \o piece(text[i])
  IN  prefix[Len(text)]

\* validate_memo: the escaped memo text equals the extra id, which must be
\* valid UTF-8; any other type of memo is refused, also for an empty extra id.
ValidMemo(memo, p) ==
  /\ memo.type = "text"
  /\ p.extra_id.utf8
  /\ Escape(memo.text) = p.extra_id.text

\* validate_amount: the signed on-chain amount as an unsigned word.
ValidAmount(amount, p) ==
  LET expected == BytesToU64(p.amount, p.amount_len)
  IN  expected # Invalid /\ amount >= 0 /\ amount = expected

\* validate_fee: the expected fee must fit the 32-bit field of a transaction.
ValidFee(fee, p) ==
  LET expected == BytesToU64(p.fee_amount, p.fee_amount_len)
  IN  expected # Invalid /\ expected < BASE ^ U32_BYTES /\ fee = expected

\* A faulty check that ignores the operation's own source account.
ValidPaymentAnySource(op, p, signer) ==
  /\ op.body = "payment"
  /\ op.asset = "native"
  /\ ValidAmount(op.amount, p)
  /\ op.destination = p.dest_address

\* validate_payment_operation, with validate_destination.
ValidPayment(op, p, signer) ==
  /\ op.source \in {"absent", signer}
  /\ op.body = "payment"
  /\ op.asset = "native"
  /\ ValidAmount(op.amount, p)
  /\ op.destination = p.dest_address

\* validate_swap_transaction.  Only the first operation is ever parsed: it may
\* fail to, whatever the operation count says.
ValidSwap(tx, p, signer) ==
  /\ tx.network = "public"
  /\ tx.envelope = "tx"
  /\ tx.source = signer
  /\ ValidMemo(tx.memo, p)
  /\ tx.op_count = 1
  /\ tx.ops # << >>
  /\ ValidPayment(Head(tx.ops), p, signer)
  /\ ValidFee(tx.fee, p)

\* check_address, for the address the given path leads to.
ValidAddress(p, address) ==
  /\ p.dpath_len = 3
  /\ p.ref_address = address
=============================================================================
