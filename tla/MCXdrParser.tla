---------------------------- MODULE MCXdrParser -----------------------------
(***************************************************************************)
(* An instance of XdrParser for TLC: the whole grammar, a small budget, a   *)
(* narrower usize, and the lengths that matter.                            *)
(***************************************************************************)
EXTENDS XdrGrammar, FiniteSetsExt

\* The longest chain of calls from a type that costs no level.  TLC could not
\* evaluate it if there were a cycle of types that costs none.
RankFunction[t \in DOMAIN StellarGrammar] ==
  LET uses == UNION {Range(StellarGrammar[t].arms[a]) :
                        a \in DOMAIN StellarGrammar[t].arms}
  IN IF StellarGrammar[t].counted \/ uses = {} THEN 0
     ELSE 1 + Max({RankFunction[u] : u \in uses})

MCRank == RankFunction

\* Parsing a t reads something: a tag or a length, a byte, or a field that does.
ReadsSomething[t \in DOMAIN StellarGrammar] ==
  CASE StellarGrammar[t].kind = "bytes"  -> StellarGrammar[t].size > 0
    [] StellarGrammar[t].kind = "struct" ->
         \E u \in Range(StellarGrammar[t].arms[0]) : ReadsSomething[u]
    [] OTHER -> StellarGrammar[t].kind # "repeat"

MCReading == {t \in DOMAIN StellarGrammar : ReadsSomething[t]}

\* What the handlers parse.  The last is Operation::parse as the loop of
\* ui_sign_tx and validate_swap_transaction call it: the header leaves no level
\* spent, and the data are counted from where it ends.
MCRoots == {"SignTx", "SignSorobanAuth", "Operation"}
MCLengths == {20, 112}
\* No item, two items, a length no sum may wrap on, one no padding may wrap on.
MCWords == {0, 2, 65532, 65534}
=============================================================================
