---------------------------- MODULE MCAppSession ----------------------------
(* Values for the constants of AppSession: two keys, one block, a buffer of *)
(* two symbols, so that the third symbol of a request is refused.           *)
EXTENDS AppSession

CONSTANTS p1, p2, a

MCPath  == {p1, p2}
MCBlock == {a}

\* Every header the instruction table accepts, two per instruction with a
\* wrong P1 or P2 that the real checks tell apart, and an unknown instruction.
MCHeader ==
  {[ins |-> i, p1 |-> x, p2 |-> y] :
     i \in Chunked, x \in {P1_FIRST_APDU, P1_MORE_APDU},
     y \in {P2_LAST_APDU, P2_MORE_APDU}}
  \cup {[ins |-> i, p1 |-> 0, p2 |-> y] :
     i \in {INS_GET_PK, INS_GET_CONF, INS_SIGN_HASH, INS_SIGN_TX, 3},
     y \in {0, 1}}

SeqUpTo(n) == UNION {[1..k -> Symbol] : k \in 0..n}
MCData == SeqUpTo(2) \cup {Malformed}

MCTxParses   == {<<a>>, <<a, a>>, <<p1, a>>}
MCTxFormats  == {<<a>>, <<a, a>>}
MCTxSoroban  == {<<a, a>>}
MCAuthParses == {<<a>>, <<p1, a>>}
MCHashes     == {<<a>>}
=============================================================================
