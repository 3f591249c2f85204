-------------------------- MODULE MCChunkedTransfer --------------------------
(* Jobs that fit the buffer in one piece, fit it in two, and overflow it    *)
(* before their last piece, for each chunked instruction.                   *)
EXTENDS ChunkedTransfer

CONSTANTS p1, p2, a, b

MCPath  == {p1, p2}
MCBlock == {a, b}

MCJob == [ins: Chunked, path: {p1, p2},
          chunks: {<< <<a>> >>, << <<a>>, <<b>> >>, << <<a, b>>, <<b>>, <<a>> >>}]

MCBystander ==
  {[ins |-> i, p1 |-> 0, p2 |-> y] :
     i \in {INS_GET_PK, INS_GET_CONF, INS_SIGN_HASH}, y \in {0, 1}}

MCData == {<<p1>>, <<p1, a>>, <<p2, b>>, <<a>>, << >>, Malformed}

\* Any tail of a transaction or authorization may happen to parse by itself.
MCSeq == UNION {[1..k -> MCPath \cup MCBlock] : k \in 0..2}
MCTxSoroban  == {<<a, b>>}
MCHashes     == {<<a>>, <<b>>}

MCNoBystander == {}
MCFewJobs == [ins: {INS_SIGN_TX, INS_SIGN_MESSAGE}, path: {p1},
              chunks: {<< <<a>>, <<b>> >>, << <<a, b>>, <<b>>, <<a>> >>}]
=============================================================================
