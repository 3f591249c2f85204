----------------------------- MODULE XdrParser ------------------------------
(***************************************************************************)
(* The XDR parser (stellarlib/src/parser.rs) as a machine: a cursor over   *)
(* the data, the recursion budget, and the calls of T::parse that are under *)
(* way.  What each type reads is a table, Grammar; the machine is what the  *)
(* types share.                                                            *)
(*                                                                         *)
(* The parser reads each byte once, from left to right, so the content of  *)
(* the data is chosen as it is read.  Every error ends the parse and every  *)
(* caller maps it to one status word, so the errors are one outcome.       *)
(***************************************************************************)
EXTENDS Integers, Sequences

CONSTANTS
  Grammar,          \* what T::parse does, for each type T
  Roots,            \* the types the handlers parse
  Lengths,          \* lengths of the data, in bytes
  Words,            \* values of a length or count read from the data
  MAX_PARSE_DEPTH,
  U32_MAX,          \* the largest u32, which is the largest usize of the device
  HEAP,             \* the most items the heap has room for
  Rank, CHAIN,      \* see ChainAssumption
  Reading           \* see PassAssumption

(***************************************************************************)
(* The production of a type.  A "struct" parses the fields of its only arm *)
(* and a "union" those of the arm its tag chooses.  A "vec" reads a length  *)
(* of at most size and parses its arm that many times; "repeat" takes the   *)
(* number from the "count" read before.  "bytes" and "opaque" are leaves.   *)
(* A counted type costs one level of the recursion budget.                 *)
(***************************************************************************)
Kinds == {"bytes", "opaque", "count", "struct", "union", "vec", "repeat"}

Fields(t) == Grammar[t].arms[0]

\* The types that parsing a t may call for.
Uses(t) == UNION {{Grammar[t].arms[a][i] : i \in DOMAIN Grammar[t].arms[a]} :
                      a \in DOMAIN Grammar[t].arms}

ASSUME SizeAssumption ==
  /\ MAX_PARSE_DEPTH \in Nat
  /\ U32_MAX \in Nat /\ HEAP \in Nat
  /\ Words \subseteq 0..U32_MAX
  \* a Rust slice is at most isize::MAX bytes long
  /\ \A n \in Lengths : n \in Nat /\ 2 * n < U32_MAX

ASSUME GrammarAssumption ==
  /\ Roots \subseteq DOMAIN Grammar
  /\ \A t \in DOMAIN Grammar :
       /\ Grammar[t].kind \in Kinds
       /\ Grammar[t].size \in 0..U32_MAX
       /\ Grammar[t].counted \in BOOLEAN
       /\ Grammar[t].counted => Grammar[t].kind \in {"union", "vec"}
       /\ \A a \in DOMAIN Grammar[t].arms : Grammar[t].arms[a] \in Seq(DOMAIN Grammar)
       /\ Grammar[t].kind \in {"struct", "vec", "repeat"} => 0 \in DOMAIN Grammar[t].arms
  /\ \A t \in Roots : Grammar[t].kind = "struct"

(***************************************************************************)
(* No type is reached again from itself but through one that costs a level *)
(* of the budget: Rank falls from a type to the types it uses, unless it is *)
(* counted.  CHAIN is then the longest chain of calls between two levels.   *)
(***************************************************************************)
ASSUME ChainAssumption ==
  /\ CHAIN \in Nat \ {0}
  /\ \A t \in DOMAIN Grammar :
       /\ Rank[t] \in 0..(CHAIN - 1)
       /\ ~Grammar[t].counted => \A u \in Uses(t) : Rank[u] < Rank[t]

(***************************************************************************)
(* Parsing a type of Reading reads at least one byte, and each loop has one *)
(* in its arm.  The loop over the operations is the handler's own code:     *)
(* only what a handler parses has it, and no type does.                     *)
(***************************************************************************)
ASSUME PassAssumption ==
  /\ Reading \subseteq DOMAIN Grammar
  /\ \A t \in Reading :
       /\ Grammar[t].kind # "repeat"
       /\ Grammar[t].kind = "bytes" => Grammar[t].size > 0
  /\ \A t \in DOMAIN Grammar :
       (\/ t \in Reading /\ Grammar[t].kind = "struct"
        \/ Grammar[t].kind \in {"vec", "repeat"})
          => \E i \in 1..Len(Fields(t)) : Fields(t)[i] \in Reading
  /\ \A t \in DOMAIN Grammar : \A u \in Uses(t) :
       Grammar[u].kind = "repeat" => \A v \in DOMAIN Grammar : t \notin Uses(v)

VARIABLES
  len,      \* the length of the data
  offset,   \* Parser::offset
  depth,    \* Parser::depth
  stack,    \* the calls of T::parse under way, the innermost last
  count,    \* op_count of the transaction parsed
  outcome,  \* what the handler gets
  reach,    \* history: where the last slice handed out ends
  fresh     \* history: the cursor has moved since a loop last began a pass

vars == <<len, offset, depth, stack, count, outcome, reach, fresh>>

\* A call: the type, the fields it has yet to parse, the passes of its loop
\* to come, and (history) the depth when it was called.
Frame == [of: DOMAIN Grammar, todo: Seq(DOMAIN Grammar), left: 0..U32_MAX,
          at: 0..MAX_PARSE_DEPTH]

TypeOK ==
  /\ len \in Lengths
  /\ offset \in Nat
  /\ depth \in 0..MAX_PARSE_DEPTH
  /\ stack \in Seq(Frame)
  /\ count \in 0..U32_MAX
  /\ outcome \in {"parsing", "accepted", "refused", "aborted"}
  /\ (outcome = "parsing") = (stack # << >>)
  /\ reach \in Nat
  /\ fresh \in BOOLEAN

-----------------------------------------------------------------------------
(* The cursor. *)

SaturatingAdd(a, b) == IF a + b <= U32_MAX THEN a + b ELSE U32_MAX

\* A faulty can_read whose sum wraps.
CanReadWraps(at, n) == (at + n) % (U32_MAX + 1) <= len

\* Parser::can_read, from the offset at.
CanRead(at, n) == SaturatingAdd(at, n) <= len

\* A faulty aligned_size whose sum wraps.
AlignedWraps(n) == IF n % 4 = 0 THEN n ELSE (n + (4 - (n % 4))) % (U32_MAX + 1)

\* Parser::aligned_size, which fails above U32_MAX.
AlignedSize(n) == IF n % 4 = 0 THEN n ELSE n + (4 - (n % 4))

\* parse_var_opaque can hand out n bytes after their length.
CanReadOpaque(n) ==
  /\ AlignedSize(n) <= U32_MAX
  /\ CanRead(offset + 4, AlignedSize(n))

\* A faulty read_bytes that leaves the cursor where it is.
TakeInPlace(n) ==
  /\ offset' = offset
  /\ reach' = offset + n
  /\ fresh' = (fresh \/ offset' > offset)

\* Parser::read_bytes for n bytes that are there.
Take(n) ==
  /\ offset' = offset + n
  /\ reach' = offset + n
  /\ fresh' = (fresh \/ offset' > offset)

-----------------------------------------------------------------------------
(* The recursion budget. *)

\* A faulty guard that lets one level too many in.
MayEnterOneMore(t) == Grammar[t].counted => depth <= MAX_PARSE_DEPTH

\* enter_recursion succeeds, or the type does not call it.
MayEnter(t) == Grammar[t].counted => depth < MAX_PARSE_DEPTH

\* A faulty type that forgets enter_recursion.
EnterUncounted(t) == depth

Enter(t) == IF Grammar[t].counted THEN depth + 1 ELSE depth

\* A faulty type that forgets exit_recursion.
ExitForgotten(t) == depth

Exit(t) == IF Grammar[t].counted /\ depth > 0 THEN depth - 1 ELSE depth

-----------------------------------------------------------------------------
(* The calls. *)

Top == stack[Len(stack)]

\* The type to parse next.
Wanted == Head(Top.todo)

Parsing(kind) ==
  /\ outcome = "parsing"
  /\ Top.todo # << >>
  /\ Grammar[Wanted].kind = kind

\* The stack once the caller has the value it wanted.
Resume == [stack EXCEPT ![Len(stack)].todo = Tail(@)]

Call(todo, left) ==
  Append(Resume, [of |-> Wanted, todo |-> todo, left |-> left, at |-> depth])

\* Parser::new, and the handler's call.
Init ==
  /\ offset = 0 /\ depth = 0 /\ count = 0 /\ reach = 0 /\ fresh = TRUE
  /\ len \in Lengths
  /\ outcome = "parsing"
  /\ \E t \in Roots :
       stack = <<[of |-> t, todo |-> Fields(t), left |-> 0, at |-> 0]>>

\* read_array and what is built on it: integers, keys, hashes, asset codes.
ReadBytes ==
  /\ Parsing("bytes")
  /\ CanRead(offset, Grammar[Wanted].size)
  /\ Take(Grammar[Wanted].size)
  /\ stack' = Resume
  /\ UNCHANGED <<len, depth, count, outcome>>

\* parse_var_opaque: a length, the bytes, and the padding, which is zero.
ReadOpaque ==
  /\ Parsing("opaque")
  /\ CanRead(offset, 4)
  /\ \E n \in Words :
       /\ n <= Grammar[Wanted].size
       /\ CanReadOpaque(n)
       /\ offset' = offset + 4 + AlignedSize(n)
       /\ reach' = offset + 4 + n
  /\ fresh' = TRUE
  /\ stack' = Resume
  /\ UNCHANGED <<len, depth, count, outcome>>

\* The op_count that ends a transaction's header.
ReadCount ==
  /\ Parsing("count")
  /\ CanRead(offset, 4)
  /\ Take(4)
  /\ count' \in Words
  /\ stack' = Resume
  /\ UNCHANGED <<len, depth, outcome>>

EnterStruct ==
  /\ Parsing("struct")
  /\ stack' = Call(Fields(Wanted), 0)
  /\ UNCHANGED <<len, offset, depth, count, outcome, reach, fresh>>

\* A tag and the match on it.  ClaimPredicate enters a level first.
EnterUnion ==
  /\ Parsing("union")
  /\ MayEnter(Wanted)
  /\ CanRead(offset, 4)
  /\ Take(4)
  /\ \E tag \in DOMAIN Grammar[Wanted].arms :
       stack' = Call(Grammar[Wanted].arms[tag], 0)
  /\ depth' = Enter(Wanted)
  /\ UNCHANGED <<len, count, outcome>>

\* VecM::parse up to its loop.  It reserves room for all its items before it
\* reads the first one.  (The path of a path payment is read the same way, but
\* neither counted nor kept.)
EnterVec ==
  /\ Parsing("vec")
  /\ CanRead(offset, 4)
  /\ Take(4)
  /\ MayEnter(Wanted)
  /\ \E n \in Words :
       /\ n <= Grammar[Wanted].size
       /\ Grammar[Wanted].counted => n <= HEAP
       /\ stack' = Call(<< >>, n)
  /\ depth' = Enter(Wanted)
  /\ UNCHANGED <<len, count, outcome>>

\* The allocation fails and the application ends.
Abort ==
  /\ Parsing("vec")
  /\ CanRead(offset, 4)
  /\ Grammar[Wanted].counted
  /\ MayEnter(Wanted)
  /\ \E n \in Words : 0 < n /\ n <= Grammar[Wanted].size
  /\ outcome' = "aborted"
  /\ stack' = << >>
  /\ UNCHANGED <<len, offset, depth, count, reach, fresh>>

\* for i in 0..op_count, in ui_sign_tx.
EnterRepeat ==
  /\ Parsing("repeat")
  /\ stack' = Call(<< >>, count)
  /\ UNCHANGED <<len, offset, depth, count, outcome, reach, fresh>>

\* The next pass of a loop.
NextItem ==
  /\ outcome = "parsing"
  /\ Top.todo = << >>
  /\ Top.left > 0
  /\ stack' = [stack EXCEPT ![Len(stack)].todo = Fields(Top.of),
                            ![Len(stack)].left = @ - 1]
  /\ fresh' = FALSE
  /\ UNCHANGED <<len, offset, depth, count, outcome, reach>>

\* Ok(...): the value goes to the caller, the last one to the handler.
Return ==
  /\ outcome = "parsing"
  /\ Top.todo = << >>
  /\ Top.left = 0
  /\ depth' = Exit(Top.of)
  /\ stack' = SubSeq(stack, 1, Len(stack) - 1)
  /\ outcome' = IF Len(stack) = 1 THEN "accepted" ELSE "parsing"
  /\ UNCHANGED <<len, offset, count, reach, fresh>>

\* Why a parse of t may fail where it stands: the data ends, the budget is
\* spent, a tag has no arm, a length is too great, a padding is not zero.
Refusable(t) ==
  LET need == IF Grammar[t].kind = "bytes" THEN Grammar[t].size ELSE 4 IN
  \/ Grammar[t].kind \notin {"struct", "repeat"} /\ ~CanRead(offset, need)
  \/ ~MayEnter(t)
  \/ Grammar[t].kind = "union"
  \/ Grammar[t].kind = "vec" /\ \E n \in Words : n > Grammar[t].size
  \/ Grammar[t].kind = "opaque" /\ \E n \in Words :
       n > Grammar[t].size \/ ~CanReadOpaque(n) \/ n % 4 # 0

\* Err(...), passed up by every caller.  The parser is dropped.
Refuse ==
  /\ outcome = "parsing"
  /\ Top.todo # << >>
  /\ Refusable(Wanted)
  /\ outcome' = "refused"
  /\ stack' = << >>
  /\ UNCHANGED <<len, offset, depth, count, reach, fresh>>

\* The next request has a new parser.
Finished == outcome # "parsing" /\ UNCHANGED vars

Next ==
  \/ ReadBytes \/ ReadOpaque \/ ReadCount
  \/ EnterStruct \/ EnterUnion \/ EnterVec \/ EnterRepeat
  \/ NextItem \/ Return
  \/ Refuse \/ Abort \/ Finished

Spec == Init /\ [][Next]_vars

-----------------------------------------------------------------------------
(* Properties. *)

\* Nothing is read, and nothing is handed out, beyond the end of the data,
\* whatever lengths the data states.
ReadsInside == offset <= len /\ reach <= len

LevelsOf(f) == IF Grammar[f.of].counted THEN 1 ELSE 0

\* The budget spent is the number of counted calls under way: no way through a
\* type leaks a level, which would refuse a later operation of a long legal
\* transaction, or gives one back twice, which would lift the limit.
DepthIsNesting ==
  /\ \A i \in 1..(Len(stack) - 1) : stack[i + 1].at = stack[i].at + LevelsOf(stack[i])
  /\ stack # << >> => stack[1].at = 0 /\ depth = Top.at + LevelsOf(Top)
  /\ outcome = "accepted" => depth = 0

\* The calls nest no deeper than the levels spent pay for, CHAIN calls a level,
\* whatever the data: with TypeOK, the limit on the native stack that
\* MAX_PARSE_DEPTH is there for.
StackBounded == Len(stack) <= (depth + 1) * CHAIN

\* A loop reads something in each of its passes, so the data bound the number
\* of passes, although a length or an op_count may be as large as U32_MAX.
EveryPassReads == (stack # << >> /\ Top.todo = << >> /\
                   Grammar[Top.of].kind \in {"vec", "repeat"}) => fresh

=============================================================================
