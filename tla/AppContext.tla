----------------------------- MODULE AppContext -----------------------------
(***************************************************************************)
(* The receive context shared by every chunked command (src/context.rs):   *)
(* the derivation path, the accumulated raw data and the "review finished" *)
(* flag.  The same code serves the normal application (a buffer of 4 or 8  *)
(* KiB) and the swap application (1 KiB): MAX is the buffer's capacity.    *)
(*                                                                         *)
(* Data is a sequence of symbols.  One symbol of Path stands for the 13    *)
(* bytes of a well-formed serialized BIP32 path, one symbol of Block for a *)
(* run of any other bytes.  What a symbol means depends on where it stands,*)
(* as in the code: a path is read only at the head of a first chunk, and a *)
(* path sent in a later chunk is payload like everything else.             *)
(***************************************************************************)
EXTENDS Naturals, Sequences

CONSTANTS
  Path,         \* well-formed derivation paths (three segments)
  Block,        \* payload bytes, by the run
  DefaultPath,  \* the all-zero path of a context that was never given one
  Malformed,    \* an APDU whose data field the transport refuses to return
  MAX           \* capacity of the raw data buffer, in symbols

Symbol == Path \cup Block

ASSUME ContextAssumption ==
  /\ DefaultPath \notin Symbol
  /\ Malformed \notin Seq(Symbol)
  /\ MAX \in Nat

Context == [path: Path \cup {DefaultPath},
            raw_data: Seq(Symbol),
            review_finished: BOOLEAN]

EmptyContext == [path |-> DefaultPath, raw_data |-> << >>,
                 review_finished |-> FALSE]

\* A faulty reset that forgets the raw data.
ResetKeepsData(c) == [EmptyContext EXCEPT !.raw_data = c.raw_data]

\* AppContext::reset: nothing of the previous request survives.
Reset(c) == EmptyContext

\* Bip32Path::try_from succeeds on this data.
HasPath(d) == d # Malformed /\ d # << >> /\ Head(d) \in Path

\* A faulty capacity check, off by one.
FitsOffByOne(c, s) == Len(c.raw_data) + Len(s) <= MAX + 1

\* The capacity check of RawDataBuffer::extend_from_slice.  Empty data is
\* accepted even when the buffer is full.
Fits(c, s) == Len(c.raw_data) + Len(s) <= MAX

\* A faulty buffer that drops what does not fit and reports success.
ExtendDrops(c, s) ==
  [ctx |-> IF Fits(c, s) THEN [c EXCEPT !.raw_data = @ \o s] ELSE c, sw |-> "Ok"]

\* RawDataBuffer::extend_from_slice: a slice that does not fit is refused as a
\* whole and leaves the context as it was.
Extend(c, s) ==
  IF Fits(c, s) THEN [ctx |-> [c EXCEPT !.raw_data = @ \o s], sw |-> "Ok"]
                ELSE [ctx |-> c, sw |-> "RequestDataTooLarge"]

\* AppContext::handle_chunk.  A first chunk resets the context before it looks
\* at the path, so a refused first chunk still discards the previous request;
\* a later chunk is appended to whatever the context holds.
HandleChunk(c, first, d) ==
  IF d = Malformed
  THEN [ctx |-> c, sw |-> "WrongApduLength"]
  ELSE IF ~first
  THEN Extend(c, d)
  ELSE IF ~HasPath(d)
  THEN [ctx |-> Reset(c), sw |-> "WrongApduLength"]
  ELSE Extend([Reset(c) EXCEPT !.path = Head(d)], Tail(d))
=============================================================================
