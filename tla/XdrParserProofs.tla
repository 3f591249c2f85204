-------------------------- MODULE XdrParserProofs ---------------------------
(***************************************************************************)
(* The safety of the XDR parser, for every grammar, data and limit.        *)
(***************************************************************************)
EXTENDS XdrParser, SequenceTheorems, TLAPS

\* What a call f has left to parse is of types that its type uses, and only a
\* type that has an arm to repeat is in a loop.
LegalCall(f) ==
  /\ \A j \in 1..Len(f.todo) : f.todo[j] \in Uses(f.of)
  /\ f.left > 0 => 0 \in DOMAIN Grammar[f.of].arms

\* A stack s whose calls have spent d levels: each call was made at the depth
\* its callers account for, has only legal fields left, and is no deeper in the
\* stack than that depth and its rank allow.
Shape(s, d) ==
  /\ s \in Seq(Frame)
  /\ s # << >> => s[1].at = 0 /\ d = s[Len(s)].at + LevelsOf(s[Len(s)])
  /\ \A i \in 1..(Len(s) - 1) : s[i + 1].at = s[i].at + LevelsOf(s[i])
  /\ \A i \in 1..Len(s) : LegalCall(s[i])
  /\ \A i \in 1..Len(s) : i + Rank[s[i].of] <= (s[i].at + 1) * CHAIN

IInv ==
  /\ TypeOK
  /\ ReadsInside
  /\ Shape(stack, depth)
  /\ outcome = "accepted" => depth = 0

-----------------------------------------------------------------------------
(* The cursor. *)

\* What can_read allows ends inside the data: the sum cannot saturate, as the
\* data are shorter than half the address space.
LEMMA CanReadInside ==
  ASSUME NEW at \in Nat, NEW n \in Nat, len \in Lengths, CanRead(at, n)
  PROVE  at + n <= len
BY SizeAssumption DEF CanRead, SaturatingAdd

\* Padding makes a run no shorter.
LEMMA AlignedSizeGrows ==
  ASSUME NEW n \in Nat
  PROVE  AlignedSize(n) \in Nat /\ n <= AlignedSize(n)
<1>1. n % 4 \in 0..3
  OBVIOUS
<1> QED
  BY <1>1 DEF AlignedSize

-----------------------------------------------------------------------------
(* The stack. *)

\* One more level pays for CHAIN more calls.
LEMMA OneMoreLevel ==
  ASSUME NEW a \in Nat
  PROVE  (a + 2) * CHAIN = (a + 1) * CHAIN + CHAIN /\ (a + 1) * CHAIN >= 0
BY ChainAssumption

LEMMA LevelsType ==
  ASSUME NEW f \in Frame
  PROVE  LevelsOf(f) \in {0, 1}
BY SMTT(40) DEF LevelsOf

\* A change of what the innermost call has left to do keeps the shape.
LEMMA ReplaceTop ==
  ASSUME NEW s, NEW d, Shape(s, d), s # << >>,
         NEW e \in Frame, e.of = s[Len(s)].of, e.at = s[Len(s)].at, LegalCall(e)
  PROVE  Shape([s EXCEPT ![Len(s)] = e], d)
<1> DEFINE n == Len(s)
           r == [s EXCEPT ![n] = e]
<1>1. s \in Seq(Frame) /\ n \in Nat \ {0}
  BY EmptySeq, LenProperties DEF Shape
<1>2. r \in Seq(Frame) /\ Len(r) = n /\ \A i \in 1..n : r[i] = IF i = n THEN e ELSE s[i]
  <2>0. n \in 1..Len(s)
    BY <1>1, SMTT(40)
  <2>1. r \in Seq(Frame) /\ Len(r) = Len(s)
    BY <1>1, <2>0, ExceptSeq, SMTT(40)
  <2> QED
    BY <1>1, <2>1, LenProperties
<1>3. \A i \in 1..n : r[i].of = s[i].of /\ r[i].at = s[i].at
  BY <1>2
<1>4. \A i \in 1..n : LevelsOf(r[i]) = LevelsOf(s[i])
  BY <1>3, SMTT(40) DEF LevelsOf
<1>5. \A i \in 1..n : LegalCall(r[i])
  BY <1>2 DEF Shape
<1> HIDE DEF r
<1>6. 1 \in 1..n /\ n \in 1..n /\ \A i \in 1..(n - 1) : i \in 1..n /\ i + 1 \in 1..n
  BY <1>1
<1>7. /\ r[1].at = 0 /\ d = r[n].at + LevelsOf(r[n])
      /\ \A i \in 1..(n - 1) : r[i + 1].at = r[i].at + LevelsOf(r[i])
  BY <1>3, <1>4, <1>6 DEF Shape
<1>8. \A i \in 1..n : i + Rank[r[i].of] <= (r[i].at + 1) * CHAIN
  BY <1>3 DEF Shape
<1> QED
  BY <1>2, <1>5, <1>7, <1>8 DEF Shape, r

\* A call of a type that the innermost one uses keeps the shape.
LEMMA PushCall ==
  ASSUME NEW s, NEW d \in Nat, Shape(s, d), s # << >>,
         NEW f \in Frame, f.of \in Uses(s[Len(s)].of), f.at = d, LegalCall(f)
  PROVE  Shape(Append(s, f), d + LevelsOf(f))
<1> DEFINE n == Len(s)
           r == Append(s, f)
           c == s[n]
<1>1. s \in Seq(Frame) /\ n \in Nat \ {0}
  BY EmptySeq, LenProperties DEF Shape
<1>2. /\ r \in Seq(Frame) /\ Len(r) = n + 1 /\ r[n + 1] = f
      /\ \A i \in 1..n : r[i] = s[i]
  BY <1>1, AppendProperties
<1>3. c \in Frame /\ c.of \in DOMAIN Grammar /\ f.of \in DOMAIN Grammar /\ c.at \in Nat
  <2>1. c \in Frame
    BY <1>1, ElementOfSeq, n \in 1..Len(s)
  <2> HIDE DEF c
  <2> QED
    BY <2>1 DEF Frame
<1>4. d = c.at + LevelsOf(c) /\ n + Rank[c.of] <= (c.at + 1) * CHAIN
  BY <1>1 DEF Shape
<1>5. n + 1 + Rank[f.of] <= (d + 1) * CHAIN
  <2>1. Rank[f.of] \in 0..(CHAIN - 1) /\ Rank[c.of] \in 0..(CHAIN - 1) /\ CHAIN \in Nat
    BY <1>3, ChainAssumption
  <2>2. CASE Grammar[c.of].counted
    <3>1. d = c.at + 1
      BY <1>4, <2>2 DEF LevelsOf
    <3>2. (d + 1) * CHAIN = (c.at + 1) * CHAIN + CHAIN
      BY <3>1, <1>3, OneMoreLevel
    <3> DEFINE paid == (c.at + 1) * CHAIN
               rank == Rank[c.of]
    <3>3. paid \in Nat /\ n + rank <= paid /\ (d + 1) * CHAIN = paid + CHAIN
      BY <1>3, <1>4, <2>1, <3>2, SMTT(40)
    <3>4. n \in Nat /\ rank \in Nat /\ Rank[f.of] + 1 <= CHAIN /\ Rank[f.of] \in Nat
      BY <1>1, <2>1
    <3> HIDE DEF paid, rank, n
    <3> QED
      BY <3>3, <3>4, <2>1
  <2>3. CASE ~Grammar[c.of].counted
    <3>1. d = c.at
      BY <1>3, <1>4, <2>3 DEF LevelsOf
    <3>2. Rank[f.of] < Rank[c.of]
      BY <1>3, <2>3, ChainAssumption
    <3> DEFINE paid == (c.at + 1) * CHAIN
               rank == Rank[c.of]
    <3>3. paid \in Nat /\ n + rank <= paid /\ (d + 1) * CHAIN = paid
      BY <1>3, <1>4, <2>1, <3>1
    <3>4. n \in Nat /\ rank \in Nat /\ Rank[f.of] + 1 <= rank /\ Rank[f.of] \in Nat
      BY <1>1, <2>1, <3>2
    <3> HIDE DEF paid, rank, n
    <3> QED
      BY <3>3, <3>4
  <2> QED
    BY <2>2, <2>3
<1> HIDE DEF r
<1>6. /\ r[1].at = 0
      /\ \A i \in 1..n : r[i + 1].at = r[i].at + LevelsOf(r[i])
  <2>1. ASSUME NEW i \in 1..n PROVE r[i + 1].at = r[i].at + LevelsOf(r[i])
    <3>1. CASE i = n
      BY <3>1, <1>2, <1>4
    <3>2. CASE i # n
      <4>1. i \in 1..(n - 1) /\ i + 1 \in 1..n
        BY <3>2, <1>1
      <4> QED
        BY <4>1, <1>2 DEF Shape
    <3> QED
      BY <3>1, <3>2
  <2>2. r[1].at = 0
    BY <1>1, <1>2, 1 \in 1..n DEF Shape
  <2> QED
    BY <2>1, <2>2
<1>7. \A i \in 1..(n + 1) : LegalCall(r[i]) /\ i + Rank[r[i].of] <= (r[i].at + 1) * CHAIN
  <2> SUFFICES ASSUME NEW i \in 1..(n + 1)
               PROVE  LegalCall(r[i]) /\ i + Rank[r[i].of] <= (r[i].at + 1) * CHAIN
    OBVIOUS
  <2>1. CASE i = n + 1
    BY <2>1, <1>2, <1>5
  <2>2. CASE i # n + 1
    BY <2>2, <1>1, <1>2, i \in 1..n DEF Shape
  <2> QED
    BY <2>1, <2>2
<1> QED
  BY <1>1, <1>2, <1>6, <1>7 DEF Shape, r

\* The return of the innermost call gives back the levels it took.
LEMMA PopCall ==
  ASSUME NEW s, NEW d, Shape(s, d), s # << >>
  PROVE  Shape(SubSeq(s, 1, Len(s) - 1), s[Len(s)].at)
<1> DEFINE n == Len(s)
           r == SubSeq(s, 1, n - 1)
<1>1. s \in Seq(Frame) /\ n \in Nat \ {0}
  BY EmptySeq, LenProperties DEF Shape
<1>2. r \in Seq(Frame) /\ Len(r) = n - 1 /\ \A i \in 1..(n - 1) : r[i] = s[i]
  <2>1. \A i \in 1..(n - 1) : s[i] \in Frame
    BY <1>1, ElementOfSeq, \A i \in 1..(n - 1) : i \in 1..Len(s)
  <2> HIDE DEF n
  <2>2. 1 \in Int /\ n - 1 \in Int
    BY <1>1
  <2>3. /\ SubSeq(s, 1, n - 1) \in Seq(Frame)
        /\ Len(SubSeq(s, 1, n - 1)) = IF 1 <= n - 1 THEN (n - 1) - 1 + 1 ELSE 0
        /\ \A i \in 1..((n - 1) - 1 + 1) : SubSeq(s, 1, n - 1)[i] = s[1 + i - 1]
    BY <2>1, <2>2, SubSeqProperties
  <2>4. \A i \in 1..(n - 1) : i \in 1..((n - 1) - 1 + 1) /\ 1 + i - 1 = i
    BY <1>1
  <2>5. (n - 1) - 1 + 1 = n - 1 /\ (~(1 <= n - 1) => n - 1 = 0)
    BY <1>1
  <2> QED
    BY <2>3, <2>4, <2>5 DEF r
<1> HIDE DEF r
<1>3. CASE n = 1
  <2>1. Len(r) = 0
    BY <1>2, <1>3
  <2>2. r = << >>
    BY <1>2, <2>1, EmptySeq
  <2>3. 1..0 = {} /\ 1..(0 - 1) = {}
    OBVIOUS
  <2>4. Shape(r, s[n].at)
    BY <1>2, <2>1, <2>2, <2>3 DEF Shape
  <2> QED
    BY <2>4 DEF r
<1>4. CASE n # 1
  <2>1. n - 1 \in 1..(n - 1) /\ 1 \in 1..(n - 1) /\ (n - 1) + 1 = n
    <3> HIDE DEF n
    <3> QED
      BY <1>1, <1>4
  <2>2. /\ r[1].at = 0
        /\ s[n].at = r[n - 1].at + LevelsOf(r[n - 1])
    BY <2>1, <1>2 DEF Shape
  <2>3. \A i \in 1..((n - 1) - 1) : r[i + 1].at = r[i].at + LevelsOf(r[i])
    <3> SUFFICES ASSUME NEW i \in 1..((n - 1) - 1)
                 PROVE  r[i + 1].at = r[i].at + LevelsOf(r[i])
      OBVIOUS
    <3>1. i \in 1..(n - 1) /\ i + 1 \in 1..(n - 1)
      BY <1>1
    <3> QED
      BY <3>1, <1>2 DEF Shape
  <2>4. \A i \in 1..(n - 1) : LegalCall(r[i]) /\ i + Rank[r[i].of] <= (r[i].at + 1) * CHAIN
    BY <1>1, <1>2, \A i \in 1..(n - 1) : i \in 1..n DEF Shape
  <2> QED
    BY <1>2, <2>2, <2>3, <2>4 DEF Shape, r
<1> QED
  BY <1>3, <1>4

-----------------------------------------------------------------------------
(* The actions. *)

\* The innermost call wants a type that it uses.
LEMMA TopFacts ==
  ASSUME IInv, outcome = "parsing"
  PROVE  /\ stack # << >> /\ Len(stack) \in Nat \ {0}
         /\ Top \in Frame
         /\ depth = Top.at + LevelsOf(Top)
         /\ LegalCall(Top)
<1>1. stack # << >> /\ stack \in Seq(Frame)
  BY DEF IInv, TypeOK
<1>2. Len(stack) \in Nat \ {0} /\ Len(stack) \in 1..Len(stack)
  BY <1>1, EmptySeq
<1>3. Top \in Frame
  BY <1>1, <1>2, ElementOfSeq DEF Top
<1> QED
  BY <1>1, <1>2, <1>3 DEF IInv, Shape, Top

\* Taking a field off the innermost call keeps the shape, and that call may
\* now be the caller of the type it wanted.
LEMMA ResumeFacts ==
  ASSUME IInv, outcome = "parsing", Top.todo # << >>
  PROVE  /\ Shape(Resume, depth) /\ Resume # << >>
         /\ Wanted \in DOMAIN Grammar
         /\ Wanted \in Uses(Resume[Len(Resume)].of)
<1> DEFINE n == Len(stack)
           e == [Top EXCEPT !.todo = Tail(Top.todo)]
<1>1. /\ stack # << >> /\ n \in Nat \ {0} /\ stack \in Seq(Frame)
      /\ Top \in Frame /\ LegalCall(Top) /\ Shape(stack, depth)
  BY TopFacts DEF IInv, TypeOK
<1>2. Top.todo \in Seq(DOMAIN Grammar)
  BY <1>1 DEF Frame
<1>3. /\ Wanted \in DOMAIN Grammar
      /\ Wanted = Top.todo[1] /\ 1 \in 1..Len(Top.todo)
  BY <1>2, HeadTailProperties, EmptySeq DEF Wanted
<1>4. Wanted \in Uses(Top.of)
  BY <1>1, <1>3 DEF LegalCall
<1>5. /\ Tail(Top.todo) \in Seq(DOMAIN Grammar)
      /\ Len(Tail(Top.todo)) = Len(Top.todo) - 1
      /\ \A j \in 1..Len(Tail(Top.todo)) : Tail(Top.todo)[j] = Top.todo[j + 1]
  BY <1>2, HeadTailProperties
<1>6. /\ e \in Frame /\ e.of = Top.of /\ e.at = Top.at /\ e.left = Top.left
      /\ e.todo = Tail(Top.todo)
  BY <1>1, <1>5 DEF Frame
<1>7. LegalCall(e)
  <2>1. \A j \in 1..Len(Tail(Top.todo)) : j + 1 \in 1..Len(Top.todo)
    BY <1>2, <1>5, LenProperties
  <2> QED
    BY <1>1, <1>5, <1>6, <2>1 DEF LegalCall
<1>8. Resume = [stack EXCEPT ![n] = e]
  BY DEF Resume, Top
<1> HIDE DEF e
<1>9. Shape(Resume, depth)
  BY <1>1, <1>6, <1>7, <1>8, ReplaceTop DEF Top
<1>10. Resume # << >> /\ Resume[Len(Resume)] = e
  <2>1. n \in 1..n
    BY <1>1
  <2>2. Len(Resume) = n /\ Resume[n] = e
    BY <1>1, <1>6, <1>8, <2>1, ExceptSeq
  <2> QED
    BY <1>1, <2>2, EmptySeq
<1> QED
  BY <1>3, <1>4, <1>6, <1>9, <1>10

\* A call by the innermost one, with fields of the type it calls.
LEMMA CallFacts ==
  ASSUME IInv, outcome = "parsing", Top.todo # << >>,
         NEW todo \in Seq(DOMAIN Grammar), NEW left \in 0..U32_MAX,
         \A j \in 1..Len(todo) : todo[j] \in Uses(Wanted),
         left > 0 => 0 \in DOMAIN Grammar[Wanted].arms
  PROVE  LET c == Call(todo, left)
         IN  /\ c # << >>
             /\ Shape(c, IF Grammar[Wanted].counted THEN depth + 1 ELSE depth)
<1> DEFINE f == [of |-> Wanted, todo |-> todo, left |-> left, at |-> depth]
<1>1. /\ Shape(Resume, depth) /\ Resume # << >> /\ Resume \in Seq(Frame)
      /\ Wanted \in DOMAIN Grammar /\ Wanted \in Uses(Resume[Len(Resume)].of)
  BY ResumeFacts DEF Shape
<1>2. depth \in 0..MAX_PARSE_DEPTH /\ depth \in Nat
  BY SizeAssumption DEF IInv, TypeOK
<1>3. f \in Frame /\ f.of = Wanted /\ f.at = depth /\ f.todo = todo /\ f.left = left
  BY <1>1, <1>2 DEF Frame
<1>4. LegalCall(f)
  BY <1>3 DEF LegalCall
<1>5. Call(todo, left) = Append(Resume, f)
  BY DEF Call
<1>6. LevelsOf(f) = IF Grammar[Wanted].counted THEN 1 ELSE 0
  BY <1>3 DEF LevelsOf
<1> HIDE DEF f
<1>7. Shape(Append(Resume, f), depth + LevelsOf(f))
  BY <1>1, <1>2, <1>3, <1>4, PushCall
<1>8. Append(Resume, f) # << >>
  BY <1>1, <1>3, AppendProperties
<1>9. depth + LevelsOf(f) = IF Grammar[Wanted].counted THEN depth + 1 ELSE depth
  BY <1>2, <1>6
<1> QED
  BY <1>5, <1>7, <1>8, <1>9

\* The fields of an arm are among the types used.
LEMMA ArmFacts ==
  ASSUME NEW t \in DOMAIN Grammar, NEW a \in DOMAIN Grammar[t].arms
  PROVE  /\ Grammar[t].arms[a] \in Seq(DOMAIN Grammar)
         /\ \A j \in 1..Len(Grammar[t].arms[a]) : Grammar[t].arms[a][j] \in Uses(t)
<1>1. Grammar[t].arms[a] \in Seq(DOMAIN Grammar)
  BY GrammarAssumption
<1>2. DOMAIN Grammar[t].arms[a] = 1..Len(Grammar[t].arms[a])
  BY <1>1, LenProperties
<1> QED
  BY <1>1, <1>2 DEF Uses

\* What a loop may call: nothing before its first pass.
LEMMA NoFields == /\ << >> \in Seq(DOMAIN Grammar)
                  /\ \A t : \A j \in 1..Len(<< >>) : << >>[j] \in Uses(t)
<1>1. << >> \in Seq(DOMAIN Grammar) /\ Len(<< >>) = 0 /\ 1..0 = {}
  BY EmptySeq
<1> QED
  BY <1>1

\* A parse begins with one call, at depth 0.
LEMMA InitInv == Init => IInv
<1> SUFFICES ASSUME Init PROVE IInv
  OBVIOUS
<1>1. PICK t \in Roots : stack = <<[of |-> t, todo |-> Fields(t), left |-> 0, at |-> 0]>>
  BY DEF Init
<1> DEFINE f == [of |-> t, todo |-> Fields(t), left |-> 0, at |-> 0]
<1>2. /\ t \in DOMAIN Grammar /\ ~Grammar[t].counted
      /\ 0 \in DOMAIN Grammar[t].arms
  BY GrammarAssumption
<1>3. /\ Fields(t) \in Seq(DOMAIN Grammar)
      /\ \A j \in 1..Len(Fields(t)) : Fields(t)[j] \in Uses(t)
  BY <1>2, ArmFacts DEF Fields
<1>4. f \in Frame /\ f.of = t /\ f.at = 0 /\ f.todo = Fields(t) /\ f.left = 0
  BY <1>2, <1>3, SizeAssumption DEF Frame
<1>5. LegalCall(f) /\ LevelsOf(f) = 0
  BY <1>2, <1>3, <1>4 DEF LegalCall, LevelsOf
<1> HIDE DEF f
<1>6. stack = <<f>> /\ stack # << >> /\ Len(stack) = 1 /\ stack[1] = f /\ stack \in Seq(Frame)
  BY <1>1, <1>4 DEF f
<1>7. 1 + Rank[t] <= (0 + 1) * CHAIN
  BY <1>2, ChainAssumption
<1>8. Shape(stack, 0)
  <2>1. 1..(1 - 1) = {} /\ 1..1 = {1}
    OBVIOUS
  <2> QED
    BY <1>4, <1>5, <1>6, <1>7, <2>1 DEF Shape
<1>9. TypeOK
  BY <1>6, SizeAssumption DEF Init, TypeOK
<1> QED
  BY <1>8, <1>9, SizeAssumption DEF IInv, Init, ReadsInside

\* What a step must show of the stack and the cursor it leaves, when the parse
\* goes on.
LEMMA StepInv ==
  ASSUME IInv, NEW d \in 0..MAX_PARSE_DEPTH, NEW o \in Nat, NEW r \in Nat,
         depth' = d, offset' = o, reach' = r, o <= len, r <= len, len' = len,
         outcome' = "parsing", stack' # << >>, Shape(stack', d),
         count' \in 0..U32_MAX, fresh' \in BOOLEAN
  PROVE  IInv'
<1>1. Shape(stack, depth)'
  BY DEF Shape, LegalCall, LevelsOf, Uses, Frame
<1>2. TypeOK'
  BY <1>1 DEF IInv, TypeOK, Shape
<1> QED
  BY <1>1, <1>2, SMTT(40) DEF IInv, ReadsInside

\* What a step must show when the parse ends in another way than by success.
LEMMA FailInv ==
  ASSUME IInv, outcome' \in {"refused", "aborted"}, stack' = << >>,
         UNCHANGED <<len, offset, depth, count, reach, fresh>>
  PROVE  IInv'
<1>1. << >> \in Seq(Frame) /\ Len(<< >>) = 0 /\ 1..0 = {} /\ 1..(0 - 1) = {}
  BY EmptySeq
<1>2. Shape(<< >>, depth')
  BY <1>1 DEF Shape
<1>3. Shape(stack, depth)'
  BY <1>2 DEF Shape, LegalCall, LevelsOf, Uses, Frame
<1>4. TypeOK'
  BY <1>1 DEF IInv, TypeOK
<1> QED
  BY <1>3, <1>4 DEF IInv, ReadsInside

\* Every step keeps the invariant.
LEMMA NextInv == IInv /\ [Next]_vars => IInv'
<1> SUFFICES ASSUME IInv, [Next]_vars PROVE IInv'
  OBVIOUS
<1> USE SizeAssumption
<1>0. /\ len \in Lengths /\ len \in Nat /\ offset \in Nat /\ reach \in Nat
      /\ depth \in 0..MAX_PARSE_DEPTH /\ count \in 0..U32_MAX /\ fresh \in BOOLEAN
      /\ offset <= len /\ reach <= len
  BY DEF IInv, TypeOK, ReadsInside
<1>1. ASSUME ReadBytes PROVE IInv'
  <2>1. /\ outcome = "parsing" /\ Top.todo # << >>
        /\ Wanted \in DOMAIN Grammar /\ Shape(Resume, depth) /\ Resume # << >>
    BY <1>1, ResumeFacts DEF ReadBytes, Parsing
  <2>2. Grammar[Wanted].size \in Nat
    BY <2>1, GrammarAssumption
  <2>3. offset + Grammar[Wanted].size <= len
    BY <1>0, <1>1, <2>2, CanReadInside DEF ReadBytes
  <2> QED
    BY <1>0, <1>1, <2>1, <2>2, <2>3, StepInv DEF ReadBytes, Take
<1>2. ASSUME ReadOpaque PROVE IInv'
  <2>1. /\ outcome = "parsing" /\ Top.todo # << >>
        /\ Shape(Resume, depth) /\ Resume # << >>
    BY <1>2, ResumeFacts DEF ReadOpaque, Parsing
  <2>2. PICK n \in Words : /\ CanReadOpaque(n)
                           /\ offset' = offset + 4 + AlignedSize(n)
                           /\ reach' = offset + 4 + n
    BY <1>2 DEF ReadOpaque
  <2>3. n \in Nat /\ AlignedSize(n) \in Nat /\ n <= AlignedSize(n)
    BY AlignedSizeGrows
  <2>4. offset + 4 + AlignedSize(n) <= len
    BY <1>0, <2>2, <2>3, CanReadInside, offset + 4 \in Nat DEF CanReadOpaque
  <2>5. offset + 4 + n <= len /\ offset + 4 + n \in Nat
        /\ offset + 4 + AlignedSize(n) \in Nat
    BY <1>0, <2>3, <2>4
  <2> QED
    BY <1>0, <1>2, <2>1, <2>2, <2>4, <2>5, StepInv DEF ReadOpaque
<1>3. ASSUME ReadCount PROVE IInv'
  <2>1. /\ outcome = "parsing" /\ Top.todo # << >>
        /\ Shape(Resume, depth) /\ Resume # << >>
    BY <1>3, ResumeFacts DEF ReadCount, Parsing
  <2>2. offset + 4 <= len
    BY <1>0, <1>3, CanReadInside DEF ReadCount
  <2> QED
    BY <1>0, <1>3, <2>1, <2>2, StepInv DEF ReadCount, Take
<1>4. ASSUME EnterStruct PROVE IInv'
  <2>1. /\ outcome = "parsing" /\ Top.todo # << >> /\ Grammar[Wanted].kind = "struct"
        /\ Wanted \in DOMAIN Grammar
    BY <1>4, ResumeFacts DEF EnterStruct, Parsing
  <2>2. 0 \in DOMAIN Grammar[Wanted].arms /\ ~Grammar[Wanted].counted
    BY <2>1, GrammarAssumption
  <2>3. stack' # << >> /\ Shape(stack', depth)
    BY <1>4, <2>1, <2>2, ArmFacts, CallFacts DEF EnterStruct, Fields
  <2> QED
    BY <1>0, <1>4, <2>1, <2>3, StepInv DEF EnterStruct
<1>5. ASSUME EnterUnion PROVE IInv'
  <2>1. /\ outcome = "parsing" /\ Top.todo # << >> /\ Wanted \in DOMAIN Grammar
    BY <1>5, ResumeFacts DEF EnterUnion, Parsing
  <2>2. offset + 4 <= len
    BY <1>0, <1>5, CanReadInside DEF EnterUnion
  <2>3. /\ Enter(Wanted) \in 0..MAX_PARSE_DEPTH
        /\ Enter(Wanted) = IF Grammar[Wanted].counted THEN depth + 1 ELSE depth
    BY <1>0, <1>5 DEF EnterUnion, Enter, MayEnter
  <2>4. PICK a \in DOMAIN Grammar[Wanted].arms :
          stack' = Call(Grammar[Wanted].arms[a], 0)
    BY <1>5 DEF EnterUnion
  <2>5. stack' # << >> /\ Shape(stack', Enter(Wanted))
    BY <2>1, <2>3, <2>4, ArmFacts, CallFacts
  <2> QED
    BY <1>0, <1>5, <2>1, <2>2, <2>3, <2>5, StepInv DEF EnterUnion, Take
<1>6. ASSUME EnterVec PROVE IInv'
  <2>1. /\ outcome = "parsing" /\ Top.todo # << >> /\ Wanted \in DOMAIN Grammar
    BY <1>6, ResumeFacts DEF EnterVec, Parsing
  <2>2. offset + 4 <= len
    BY <1>0, <1>6, CanReadInside DEF EnterVec
  <2>3. /\ Enter(Wanted) \in 0..MAX_PARSE_DEPTH
        /\ Enter(Wanted) = IF Grammar[Wanted].counted THEN depth + 1 ELSE depth
    BY <1>0, <1>6 DEF EnterVec, Enter, MayEnter
  <2>4. PICK n \in Words : stack' = Call(<< >>, n)
    BY <1>6 DEF EnterVec
  <2>6. 0 \in DOMAIN Grammar[Wanted].arms
    BY <1>6, <2>1, GrammarAssumption DEF EnterVec, Parsing
  <2>5. stack' # << >> /\ Shape(stack', Enter(Wanted))
    BY <2>1, <2>3, <2>4, <2>6, NoFields, CallFacts
  <2> QED
    BY <1>0, <1>6, <2>1, <2>2, <2>3, <2>5, StepInv DEF EnterVec, Take
<1>7. ASSUME EnterRepeat PROVE IInv'
  <2>1. /\ outcome = "parsing" /\ Top.todo # << >> /\ Grammar[Wanted].kind = "repeat"
        /\ Wanted \in DOMAIN Grammar
    BY <1>7, ResumeFacts DEF EnterRepeat, Parsing
  <2>2. ~Grammar[Wanted].counted /\ 0 \in DOMAIN Grammar[Wanted].arms
    BY <2>1, GrammarAssumption
  <2>3. stack' # << >> /\ Shape(stack', depth)
    BY <1>0, <1>7, <2>1, <2>2, NoFields, CallFacts DEF EnterRepeat
  <2> QED
    BY <1>0, <1>7, <2>1, <2>3, StepInv DEF EnterRepeat
<1>8. ASSUME NextItem PROVE IInv'
  <2> DEFINE n == Len(stack)
             e == [Top EXCEPT !.todo = Fields(Top.of), !.left = Top.left - 1]
  <2>1. /\ stack # << >> /\ n \in Nat \ {0} /\ stack \in Seq(Frame)
        /\ Top \in Frame /\ Shape(stack, depth) /\ outcome = "parsing" /\ Top.left > 0
    BY <1>8, TopFacts DEF NextItem, IInv, TypeOK
  <2>2. /\ Fields(Top.of) \in Seq(DOMAIN Grammar)
        /\ \A j \in 1..Len(Fields(Top.of)) : Fields(Top.of)[j] \in Uses(Top.of)
    <3>1. Top.of \in DOMAIN Grammar /\ 0 \in DOMAIN Grammar[Top.of].arms
      BY <2>1, TopFacts DEF LegalCall, Frame
    <3> QED
      BY <3>1, ArmFacts DEF Fields
  <2>3. /\ e \in Frame /\ e.of = Top.of /\ e.at = Top.at
        /\ e.todo = Fields(Top.of) /\ e.left = Top.left - 1
    <3>1. Top.left - 1 \in 0..U32_MAX
      BY <2>1 DEF Frame
    <3> QED
      BY <2>1, <2>2, <3>1 DEF Frame
  <2>4. LegalCall(e)
    <3>1. Top.left \in Nat /\ LegalCall(Top)
      BY <2>1, TopFacts DEF Frame
    <3> QED
      BY <2>1, <2>2, <2>3, <3>1 DEF LegalCall
  <2>5. stack' = [stack EXCEPT ![n] = e]
    BY <1>8 DEF NextItem, Top
  <2> HIDE DEF e
  <2>6. Shape(stack', depth)
    BY <2>1, <2>3, <2>4, <2>5, ReplaceTop DEF Top
  <2>7. stack' # << >>
    <3>1. n \in 1..n
      BY <2>1
    <3>2. Len(stack') = n
      BY <2>1, <2>3, <2>5, <3>1, ExceptSeq
    <3> QED
      BY <2>1, <3>2, EmptySeq
  <2> QED
    BY <1>0, <1>8, <2>1, <2>6, <2>7, StepInv DEF NextItem
<1>9. ASSUME Return PROVE IInv'
  <2>1. /\ stack # << >> /\ Len(stack) \in Nat \ {0} /\ Shape(stack, depth)
        /\ Top \in Frame /\ depth = Top.at + LevelsOf(Top) /\ Top.at \in 0..MAX_PARSE_DEPTH
    BY <1>9, TopFacts DEF Return, IInv, Frame
  <2>2. Exit(Top.of) = Top.at
    BY <2>1 DEF Exit, LevelsOf
  <2>3. Shape(stack', Top.at)
    BY <1>9, <2>1, PopCall DEF Return, Top
  <2>4. CASE Len(stack) = 1
    <3>1. Len(stack') = 0 /\ stack' = << >>
      <4>1. SubSeq(stack, 1, 0) = << >>
        BY SubSeqEmpty
      <4> QED
        BY <1>9, <2>4, <4>1, EmptySeq DEF Return
    <3>2. depth' = 0
      <4>1. Top = stack[1]
        BY <2>4, SMTT(40) DEF Top
      <4> QED
        BY <1>9, <2>1, <2>2, <4>1 DEF Return, Shape
    <3>3. Shape(stack, depth)'
      BY <1>9, <2>2, <2>3 DEF Return, Shape, LegalCall, LevelsOf, Uses, Frame
    <3>4. TypeOK'
      BY <1>0, <1>9, <2>4, <3>1, <3>2, <3>3 DEF Return, TypeOK, Shape
    <3> QED
      BY <1>0, <1>9, <3>2, <3>3, <3>4 DEF IInv, ReadsInside, Return
  <2>5. CASE Len(stack) # 1
    <3>1. stack' # << >>
      <4>1. Len(stack) - 1 \in Int /\ 1 <= Len(stack) - 1
        <5> DEFINE n == Len(stack)
        <5>1. n \in Nat \ {0} /\ n # 1
          BY <2>1, <2>5
        <5> HIDE DEF n
        <5>2. n - 1 \in Int /\ 1 <= n - 1
          BY <5>1
        <5> QED
          BY <5>2 DEF n
      <4>2. \A i \in 1..(Len(stack) - 1) : stack[i] \in Frame
        BY <2>1, ElementOfSeq, \A i \in 1..(Len(stack) - 1) : i \in 1..Len(stack) DEF Shape
      <4>3. Len(stack') = Len(stack) - 1 - 1 + 1 /\ stack' \in Seq(Frame)
        BY <1>9, <4>1, <4>2, SubSeqProperties DEF Return
      <4> QED
        BY <4>1, <4>3, EmptySeq
    <3> QED
      BY <1>0, <1>9, <2>1, <2>2, <2>3, <2>5, <3>1, StepInv DEF Return
  <2> QED
    BY <2>4, <2>5
<1>10. ASSUME Refuse PROVE IInv'
  BY <1>10, FailInv DEF Refuse
<1>11. ASSUME Abort PROVE IInv'
  BY <1>11, FailInv DEF Abort
<1>12. ASSUME UNCHANGED vars PROVE IInv'
  <2>1. /\ stack' = stack /\ depth' = depth /\ outcome' = outcome
        /\ UNCHANGED <<len, offset, count, reach, fresh>>
    BY <1>12, SMTT(40) DEF vars
  <2>2. Shape(stack, depth)'
    <3>1. Shape(stack', depth')
      BY <2>1 DEF IInv
    <3> QED
      BY <3>1 DEF Shape, LegalCall, LevelsOf, Uses, Frame
  <2> QED
    BY <2>1, <2>2 DEF IInv, TypeOK, ReadsInside
<1> QED
  BY <1>1, <1>2, <1>3, <1>4, <1>5, <1>6, <1>7, <1>8, <1>9, <1>10, <1>11, <1>12
     DEF Next, Finished

-----------------------------------------------------------------------------
(***************************************************************************)
(* Every pass of a loop reads something.  While the innermost loop has read *)
(* nothing in this pass, some call that the pass has come to, and that has   *)
(* called no other loop since, still has a type of Reading to parse.         *)
(***************************************************************************)
IsLoop(t) == Grammar[t].kind \in {"vec", "repeat"}

WillRead(todo) == \E k \in 1..Len(todo) : todo[k] \in Reading

Due(s) == \E j \in 2..Len(s) :
             WillRead(s[j].todo) /\ \A i \in (j + 1)..Len(s) : ~IsLoop(s[i].of)

PassShape(s, f) ==
  /\ s # << >> => s[1].of \in Roots
  /\ \A i \in 2..Len(s) : \E v \in DOMAIN Grammar : s[i].of \in Uses(v)
  /\ \A i \in 1..Len(s) : s[i].left > 0 => IsLoop(s[i].of)
  /\ f \/ s = << >> \/ Due(s)

\* What is left to parse after a field that reads nothing reads as much as
\* before.
LEMMA TailReads ==
  ASSUME NEW S, NEW todo \in Seq(S), todo # << >>, Head(todo) \notin Reading,
         WillRead(todo)
  PROVE  WillRead(Tail(todo))
<1>1. PICK k \in 1..Len(todo) : todo[k] \in Reading
  BY DEF WillRead
<1>2. /\ Head(todo) = todo[1] /\ Len(todo) \in Nat
      /\ Len(Tail(todo)) = Len(todo) - 1
      /\ \A i \in 1..Len(Tail(todo)) : Tail(todo)[i] = todo[i + 1]
  BY HeadTailProperties, LenProperties
<1>3. k # 1
  BY <1>1, <1>2
<1>4. k - 1 \in 1..Len(Tail(todo)) /\ (k - 1) + 1 = k
  BY <1>2, <1>3
<1>5. Tail(todo)[k - 1] = todo[k]
  BY <1>2, <1>4
<1> QED
  BY <1>1, <1>4, <1>5 DEF WillRead

\* Where each call is once the innermost one has a field less to parse.
LEMMA ResumeAt ==
  ASSUME IInv, outcome = "parsing", Top.todo # << >>
  PROVE  /\ Len(Resume) = Len(stack) /\ Resume \in Seq(Frame)
         /\ \A i \in 1..Len(stack) :
              /\ Resume[i].of = stack[i].of /\ Resume[i].left = stack[i].left
              /\ Resume[i].todo = IF i = Len(stack) THEN Tail(Top.todo)
                                                    ELSE stack[i].todo
<1> DEFINE n == Len(stack)
           e == [Top EXCEPT !.todo = Tail(Top.todo)]
<1>1. stack \in Seq(Frame) /\ n \in Nat \ {0} /\ n \in 1..n /\ Top \in Frame /\ Top = stack[n]
  BY TopFacts DEF IInv, TypeOK, Top
<1>2. Tail(Top.todo) \in Seq(DOMAIN Grammar)
  BY <1>1, HeadTailProperties DEF Frame
<1>3. e \in Frame /\ e.of = Top.of /\ e.left = Top.left /\ e.todo = Tail(Top.todo)
  BY <1>1, <1>2 DEF Frame
<1>4. Resume = [stack EXCEPT ![n] = e]
  BY DEF Resume, Top
<1> HIDE DEF e, n
<1>5. /\ Resume \in Seq(Frame) /\ Len(Resume) = n
      /\ \A i \in 1..n : Resume[i] = IF i = n THEN e ELSE stack[i]
  BY <1>1, <1>3, <1>4, ExceptSeq DEF n
<1>6. ASSUME NEW i \in 1..n
      PROVE  /\ Resume[i].of = stack[i].of /\ Resume[i].left = stack[i].left
             /\ Resume[i].todo = IF i = n THEN Tail(Top.todo) ELSE stack[i].todo
  BY <1>1, <1>3, <1>5
<1> QED
  BY <1>5, <1>6 DEF n

\* A field that leaves the pass without a read was not the one it is to read.
LEMMA PassResume ==
  ASSUME IInv, outcome = "parsing", Top.todo # << >>, PassShape(stack, fresh),
         NEW f \in BOOLEAN, f \/ (Wanted \notin Reading /\ ~fresh)
  PROVE  PassShape(Resume, f)
<1> DEFINE n == Len(stack)
<1>1. stack \in Seq(Frame) /\ n \in Nat \ {0} /\ stack # << >> /\ Top \in Frame
  BY TopFacts DEF IInv, TypeOK
<1>2. /\ Len(Resume) = n
      /\ \A i \in 1..n : /\ Resume[i].of = stack[i].of /\ Resume[i].left = stack[i].left
                         /\ Resume[i].todo = IF i = n THEN Tail(Top.todo)
                                                      ELSE stack[i].todo
  BY ResumeAt
<1>3. 1 \in 1..n /\ \A i \in 2..n : i \in 1..n
  BY <1>1
<1>4. Resume[1].of \in Roots
  BY <1>1, <1>2, <1>3 DEF PassShape
<1>5. \A i \in 2..n : \E v \in DOMAIN Grammar : Resume[i].of \in Uses(v)
  BY <1>2, <1>3 DEF PassShape
<1>6. \A i \in 1..n : Resume[i].left > 0 => IsLoop(Resume[i].of)
  BY <1>2 DEF PassShape
<1>7. ASSUME ~f PROVE Due(Resume)
  <2>1. Due(stack)
    BY <1>1, <1>7 DEF PassShape
  <2>2. PICK j \in 2..n : /\ WillRead(stack[j].todo)
                          /\ \A i \in (j + 1)..n : ~IsLoop(stack[i].of)
    BY <2>1 DEF Due
  <2>3. \A i \in (j + 1)..n : i \in 1..n
    BY <1>1
  <2>4. \A i \in (j + 1)..n : ~IsLoop(Resume[i].of)
    BY <1>2, <2>2, <2>3
  <2>5. WillRead(Resume[j].todo)
    <3>1. CASE j # n
      BY <1>2, <1>3, <2>2, <3>1
    <3>2. CASE j = n
      <4>1. Top.todo \in Seq(DOMAIN Grammar) /\ stack[j] = Top
        BY <1>1, <3>2 DEF Frame, Top
      <4>2. WillRead(Tail(Top.todo))
        BY <4>1, <2>2, <1>7, TailReads DEF Wanted
      <4> QED
        BY <4>2, <1>2, <1>3, <3>2
    <3> QED
      BY <3>1, <3>2
  <2> QED
    BY <1>2, <2>4, <2>5 DEF Due
<1> QED
  BY <1>2, <1>4, <1>5, <1>6, <1>7 DEF PassShape

\* A call that does not begin a pass, on the way to the read that is due, is of a
\* type that makes it if its caller was to make it.
LEMMA PassCall ==
  ASSUME IInv, outcome = "parsing", Top.todo # << >>, PassShape(stack, fresh),
         NEW todo \in Seq(DOMAIN Grammar), NEW left \in 0..U32_MAX,
         left > 0 => IsLoop(Wanted),
         NEW f \in BOOLEAN,
         f \/ (~fresh /\ ~IsLoop(Wanted) /\ (Wanted \in Reading => WillRead(todo)))
  PROVE  PassShape(Call(todo, left), f)
<1> DEFINE n == Len(stack)
           c == Call(todo, left)
           e == [of |-> Wanted, todo |-> todo, left |-> left, at |-> depth]
<1>1. /\ stack \in Seq(Frame) /\ n \in Nat \ {0} /\ stack # << >> /\ Top \in Frame
      /\ Top.of \in DOMAIN Grammar
  BY TopFacts DEF IInv, TypeOK, Frame
<1>2. /\ Len(Resume) = n /\ Resume \in Seq(Frame)
      /\ \A i \in 1..n : /\ Resume[i].of = stack[i].of /\ Resume[i].left = stack[i].left
                         /\ Resume[i].todo = IF i = n THEN Tail(Top.todo)
                                                      ELSE stack[i].todo
  BY ResumeAt
<1>3. Wanted \in DOMAIN Grammar /\ Wanted \in Uses(Top.of)
  <2>1. Wanted \in Uses(Resume[n].of) /\ n \in 1..n
    BY <1>1, <1>2, ResumeFacts
  <2> QED
    BY <1>2, <2>1, ResumeFacts DEF Top
<1>4. e \in Frame /\ e.of = Wanted /\ e.todo = todo /\ e.left = left
  BY <1>3, SizeAssumption DEF Frame, IInv, TypeOK
<1>5. c = Append(Resume, e)
  BY DEF Call
<1> HIDE DEF e, c, n
<1>6. /\ Len(c) = n + 1 /\ c # << >> /\ c[n + 1] = e
      /\ \A i \in 1..n : c[i] = Resume[i]
  BY <1>2, <1>4, <1>5, AppendProperties
<1>7. /\ 1 \in 1..n /\ \A i \in 2..n : i \in 1..n
      /\ \A i \in 1..(n + 1) : i = n + 1 \/ i \in 1..n
      /\ \A i \in 2..(n + 1) : i = n + 1 \/ i \in 2..n
  BY <1>1
<1>8. c[1].of \in Roots
  BY <1>1, <1>2, <1>6, <1>7 DEF PassShape, n
<1>9. ASSUME NEW i \in 2..(n + 1)
      PROVE  \E v \in DOMAIN Grammar : c[i].of \in Uses(v)
  <2>1. CASE i = n + 1
    BY <2>1, <1>1, <1>3, <1>4, <1>6
  <2>2. CASE i \in 2..n
    BY <2>2, <1>2, <1>6, <1>7 DEF PassShape, n
  <2> QED
    BY <1>7, <2>1, <2>2
<1>10. ASSUME NEW i \in 1..(n + 1), c[i].left > 0
       PROVE  IsLoop(c[i].of)
  <2>1. CASE i = n + 1
    BY <2>1, <1>10, <1>4, <1>6
  <2>2. CASE i \in 1..n
    BY <2>2, <1>10, <1>2, <1>6 DEF PassShape, n
  <2> QED
    BY <1>7, <2>1, <2>2
<1>11. ASSUME ~f PROVE Due(c)
  <2>1. ~fresh /\ ~IsLoop(Wanted) /\ Due(stack)
    BY <1>1, <1>11 DEF PassShape
  <2>2. CASE Wanted \in Reading
    <3>1. PICK j \in 2..n : /\ WillRead(stack[j].todo)
                            /\ \A i \in (j + 1)..n : ~IsLoop(stack[i].of)
      BY <2>1 DEF Due, n
    <3>2. n + 1 \in 2..(n + 1) /\ (n + 1 + 1)..(n + 1) = {}
      BY <1>1, <3>1
    <3>3. WillRead(c[n + 1].todo)
      BY <1>4, <1>6, <1>11, <2>2
    <3> QED
      BY <1>6, <3>2, <3>3 DEF Due
  <2>3. CASE Wanted \notin Reading
    <3>1. Due(Resume)
      <4>1. PassShape(Resume, FALSE)
        BY <2>1, <2>3, PassResume
      <4>2. Resume # << >>
        BY ResumeFacts
      <4> QED
        BY <4>1, <4>2 DEF PassShape
    <3>2. PICK j \in 2..n : /\ WillRead(Resume[j].todo)
                            /\ \A i \in (j + 1)..n : ~IsLoop(Resume[i].of)
      BY <1>2, <3>1 DEF Due
    <3>3. j \in 2..(n + 1) /\ j \in Nat
      BY <1>1, <3>2
    <3>4. ASSUME NEW i \in (j + 1)..(n + 1)
          PROVE  i = n + 1 \/ (i \in (j + 1)..n /\ i \in 1..n)
      BY <1>1, <3>3
    <3>5. WillRead(c[j].todo)
      BY <1>6, <1>7, <3>2
    <3>6. \A i \in (j + 1)..(n + 1) : ~IsLoop(c[i].of)
      BY <1>4, <1>6, <2>1, <3>2, <3>4
    <3> QED
      BY <1>6, <3>3, <3>5, <3>6 DEF Due
  <2> QED
    BY <2>2, <2>3
<1> QED
  BY <1>6, <1>8, <1>9, <1>10, <1>11 DEF PassShape, c

\* A pass begins in a loop, and no handler's own call is one.
LEMMA PassBegins ==
  ASSUME IInv, PassShape(stack, fresh), NextItem
  PROVE  PassShape(stack', FALSE)
<1> DEFINE n == Len(stack)
           e == [Top EXCEPT !.todo = Fields(Top.of), !.left = Top.left - 1]
<1>1. /\ stack \in Seq(Frame) /\ n \in Nat \ {0} /\ n \in 1..n /\ stack # << >>
      /\ Top \in Frame /\ Top = stack[n] /\ Top.left > 0 /\ Top.of \in DOMAIN Grammar
      /\ Top.left \in 0..U32_MAX /\ LegalCall(Top)
  <2>1. /\ stack \in Seq(Frame) /\ n \in Nat \ {0} /\ stack # << >>
        /\ Top \in Frame /\ Top.left > 0 /\ LegalCall(Top)
    BY TopFacts DEF NextItem, IInv, TypeOK
  <2>2. n \in 1..n /\ Top = stack[n]
    BY <2>1 DEF Top
  <2>3. Top.of \in DOMAIN Grammar /\ Top.left \in 0..U32_MAX
    BY <2>1 DEF Frame
  <2> QED
    BY <2>1, <2>2, <2>3
<1>2. IsLoop(Top.of)
  BY <1>1 DEF PassShape
<1>3. n # 1
  BY <1>1, <1>2, GrammarAssumption DEF PassShape, IsLoop
<1>4. WillRead(Fields(Top.of))
  BY <1>1, <1>2, PassAssumption DEF WillRead, IsLoop
<1>5. Fields(Top.of) \in Seq(DOMAIN Grammar) /\ Top.left - 1 \in 0..U32_MAX
  <2>1. 0 \in DOMAIN Grammar[Top.of].arms
    BY <1>1 DEF LegalCall
  <2>2. Fields(Top.of) \in Seq(DOMAIN Grammar)
    BY <1>1, <2>1, ArmFacts DEF Fields
  <2>3. Top.left - 1 \in 0..U32_MAX
    BY <1>1, SizeAssumption
  <2> QED
    BY <2>2, <2>3
<1>6. /\ e \in Frame /\ e.of = Top.of /\ e.todo = Fields(Top.of)
  BY <1>1, <1>5 DEF Frame
<1>7. stack' = [stack EXCEPT ![n] = e]
  BY DEF NextItem, Top
<1> HIDE DEF e, n
<1>8. /\ Len(stack') = n /\ stack' # << >>
      /\ \A i \in 1..n : stack'[i] = IF i = n THEN e ELSE stack[i]
  BY <1>1, <1>6, <1>7, ExceptSeq, EmptySeq DEF n
<1>9. /\ 1 \in 1..n /\ \A i \in 2..n : i \in 1..n
  BY <1>1
<1>10. /\ \A i \in 1..n : stack'[i].of = stack[i].of
  BY <1>1, <1>6, <1>8
<1>11. stack'[1].of \in Roots
  BY <1>1, <1>9, <1>10 DEF PassShape
<1>12. \A i \in 2..n : \E v \in DOMAIN Grammar : stack'[i].of \in Uses(v)
  BY <1>9, <1>10 DEF PassShape, n
<1>13. ASSUME NEW i \in 1..n, stack'[i].left > 0
       PROVE  IsLoop(stack'[i].of)
  <2>1. CASE i = n
    BY <2>1, <1>2, <1>6, <1>8
  <2>2. CASE i # n
    BY <2>2, <1>8, <1>10, <1>13 DEF PassShape, n
  <2> QED
    BY <2>1, <2>2
<1>14. Due(stack')
  <2>1. n \in 2..n /\ (n + 1)..n = {}
    BY <1>1, <1>3
  <2>2. WillRead(stack'[n].todo)
    BY <1>1, <1>4, <1>6, <1>8
  <2> QED
    BY <1>8, <2>1, <2>2 DEF Due
<1> QED
  BY <1>8, <1>11, <1>12, <1>13, <1>14 DEF PassShape

\* A call that returns has nothing left to read: the read that is due is one of
\* its callers'.
LEMMA PassReturns ==
  ASSUME IInv, PassShape(stack, fresh), outcome = "parsing", Top.todo = << >>
  PROVE  PassShape(SubSeq(stack, 1, Len(stack) - 1), fresh)
<1> DEFINE n == Len(stack)
           r == SubSeq(stack, 1, n - 1)
<1>1. stack \in Seq(Frame) /\ n \in Nat \ {0} /\ stack # << >> /\ Top = stack[n]
  BY TopFacts DEF IInv, TypeOK, Top
<1>2. r \in Seq(Frame) /\ Len(r) = n - 1 /\ \A i \in 1..(n - 1) : r[i] = stack[i]
  <2>1. \A i \in 1..(n - 1) : stack[i] \in Frame
    BY <1>1, ElementOfSeq, \A i \in 1..(n - 1) : i \in 1..Len(stack)
  <2> HIDE DEF n
  <2>2. 1 \in Int /\ n - 1 \in Int
    BY <1>1
  <2>3. /\ SubSeq(stack, 1, n - 1) \in Seq(Frame)
        /\ Len(SubSeq(stack, 1, n - 1)) = IF 1 <= n - 1 THEN (n - 1) - 1 + 1 ELSE 0
        /\ \A i \in 1..((n - 1) - 1 + 1) : SubSeq(stack, 1, n - 1)[i] = stack[1 + i - 1]
    BY <2>1, <2>2, SubSeqProperties
  <2>4. \A i \in 1..(n - 1) : i \in 1..((n - 1) - 1 + 1) /\ 1 + i - 1 = i
    BY <1>1
  <2>5. (n - 1) - 1 + 1 = n - 1 /\ (~(1 <= n - 1) => n - 1 = 0)
    BY <1>1
  <2> QED
    BY <2>3, <2>4, <2>5 DEF r
<1> HIDE DEF r, n
<1>3. \A i \in 1..(n - 1) : i \in 1..n
  BY <1>1
<1>4. ASSUME r # << >> PROVE r[1].of \in Roots
  <2>1. n - 1 # 0
    BY <1>2, <1>4, EmptySeq
  <2>2. 1 \in 1..(n - 1)
    BY <1>1, <2>1
  <2> QED
    BY <1>1, <1>2, <2>2 DEF PassShape
<1>5. ASSUME NEW i \in 2..(n - 1)
      PROVE  \E v \in DOMAIN Grammar : r[i].of \in Uses(v)
  <2>1. i \in 2..n /\ i \in 1..(n - 1)
    BY <1>1
  <2> QED
    BY <1>2, <2>1 DEF PassShape, n
<1>6. \A i \in 1..(n - 1) : r[i].left > 0 => IsLoop(r[i].of)
  BY <1>2, <1>3 DEF PassShape, n
<1>7. ASSUME ~fresh PROVE Due(r)
  <2>1. PICK j \in 2..n : /\ WillRead(stack[j].todo)
                          /\ \A i \in (j + 1)..n : ~IsLoop(stack[i].of)
    BY <1>1, <1>7 DEF PassShape, Due, n
  <2>2. ~WillRead(<< >>)
    BY EmptySeq, Len(<< >>) = 0, 1..0 = {} DEF WillRead
  <2>3. j # n
    BY <1>1, <2>1, <2>2
  <2>4. j \in 2..(n - 1) /\ j \in 1..(n - 1) /\ j \in Nat
    BY <1>1, <2>3
  <2>5. \A i \in (j + 1)..(n - 1) : i \in (j + 1)..n /\ i \in 1..(n - 1)
    BY <1>1, <2>4
  <2>6. WillRead(r[j].todo)
    BY <1>2, <2>1, <2>4
  <2>7. \A i \in (j + 1)..(n - 1) : ~IsLoop(r[i].of)
    BY <1>2, <2>1, <2>5
  <2> QED
    BY <1>2, <2>4, <2>6, <2>7 DEF Due
<1>8. PassShape(r, fresh)
  BY <1>2, <1>4, <1>5, <1>6, <1>7 DEF PassShape
<1> QED
  BY <1>8 DEF r, n

\* A read of some bytes moves the cursor.
LEMMA TakeReads ==
  ASSUME IInv, NEW n \in Nat \ {0}, Take(n)
  PROVE  fresh' = TRUE
<1>1. offset' > offset
  BY DEF Take, IInv, TypeOK
<1>2. fresh' = (fresh \/ offset' > offset)
  BY DEF Take
<1> HIDE DEF Take
<1> QED
  BY <1>1, <1>2, Zenon

LEMMA InitPass == Init => PassShape(stack, fresh)
<1> SUFFICES ASSUME Init PROVE PassShape(stack, fresh)
  OBVIOUS
<1>1. PICK t \in Roots : stack = <<[of |-> t, todo |-> Fields(t), left |-> 0, at |-> 0]>>
  BY DEF Init
<1>2. Len(stack) = 1 /\ stack[1].of = t /\ stack[1].left = 0 /\ 2..1 = {} /\ 1..1 = {1}
  BY <1>1
<1> QED
  BY <1>2 DEF PassShape, Init

\* A step that reads, steps that call and return, and the loops.
LEMMA NextPass ==
  ASSUME IInv, PassShape(stack, fresh), [Next]_vars
  PROVE  PassShape(stack', fresh')
<1>0. /\ offset \in Nat /\ fresh \in BOOLEAN
      /\ (outcome = "parsing") = (stack # << >>) /\ Words \subseteq 0..U32_MAX
  BY SizeAssumption DEF IInv, TypeOK
<1>1. ASSUME ReadBytes PROVE PassShape(stack', fresh')
  <2>1. /\ outcome = "parsing" /\ Top.todo # << >> /\ Grammar[Wanted].kind = "bytes"
        /\ Wanted \in DOMAIN Grammar /\ stack' = Resume
    BY <1>1, ResumeFacts DEF ReadBytes, Parsing
  <2>2. Grammar[Wanted].size \in Nat
    BY <2>1, GrammarAssumption, SizeAssumption
  <2>3. fresh' = (fresh \/ Grammar[Wanted].size > 0)
    BY <1>0, <1>1, <2>2 DEF ReadBytes, Take
  <2>4. fresh' \/ (Wanted \notin Reading /\ ~fresh)
    BY <2>1, <2>3, PassAssumption
  <2>5. fresh' \in BOOLEAN
    BY <2>3
  <2> QED
    BY <2>1, <2>4, <2>5, PassResume
<1>2. ASSUME ReadOpaque PROVE PassShape(stack', fresh')
  BY <1>2, PassResume DEF ReadOpaque, Parsing
<1>3. ASSUME ReadCount PROVE PassShape(stack', fresh')
  <2>1. fresh' = TRUE
    <3>1. Take(4) /\ 4 \in Nat \ {0}
      BY <1>3 DEF ReadCount
    <3> QED
      BY <3>1, TakeReads
  <2> QED
    BY <1>3, <2>1, PassResume DEF ReadCount, Parsing
<1>4. ASSUME EnterStruct PROVE PassShape(stack', fresh')
  <2>1. /\ outcome = "parsing" /\ Top.todo # << >> /\ Grammar[Wanted].kind = "struct"
        /\ Wanted \in DOMAIN Grammar /\ stack' = Call(Fields(Wanted), 0) /\ fresh' = fresh
    BY <1>4, ResumeFacts DEF EnterStruct, Parsing
  <2>2. Fields(Wanted) \in Seq(DOMAIN Grammar)
    BY <2>1, GrammarAssumption, ArmFacts DEF Fields
  <2>3. ~IsLoop(Wanted) /\ (Wanted \in Reading => WillRead(Fields(Wanted)))
    BY <2>1, PassAssumption DEF IsLoop, WillRead
  <2>4. 0 \in 0..U32_MAX /\ ~(0 > 0)
    BY SizeAssumption
  <2> QED
    BY <1>0, <2>1, <2>2, <2>3, <2>4, PassCall
<1>5. ASSUME EnterUnion PROVE PassShape(stack', fresh')
  <2>1. /\ outcome = "parsing" /\ Top.todo # << >> /\ Wanted \in DOMAIN Grammar
    BY <1>5, ResumeFacts DEF EnterUnion, Parsing
  <2>2. PICK a \in DOMAIN Grammar[Wanted].arms :
          stack' = Call(Grammar[Wanted].arms[a], 0)
    BY <1>5 DEF EnterUnion
  <2>3. fresh' = TRUE
    <3>1. Take(4) /\ 4 \in Nat \ {0}
      BY <1>5 DEF EnterUnion
    <3> QED
      BY <3>1, TakeReads
  <2>4. 0 \in 0..U32_MAX /\ ~(0 > 0)
    BY SizeAssumption
  <2>5. Grammar[Wanted].arms[a] \in Seq(DOMAIN Grammar)
    BY <2>1, ArmFacts
  <2> QED
    BY <2>1, <2>2, <2>3, <2>4, <2>5, PassCall
<1>6. ASSUME EnterVec PROVE PassShape(stack', fresh')
  <2>1. outcome = "parsing" /\ Top.todo # << >> /\ IsLoop(Wanted)
    BY <1>6 DEF EnterVec, Parsing, IsLoop
  <2>2. PICK n \in Words : stack' = Call(<< >>, n)
    BY <1>6 DEF EnterVec
  <2>3. fresh' = TRUE
    <3>1. Take(4) /\ 4 \in Nat \ {0}
      BY <1>6 DEF EnterVec
    <3> QED
      BY <3>1, TakeReads
  <2> QED
    BY <1>0, <2>1, <2>2, <2>3, NoFields, PassCall
<1>7. ASSUME EnterRepeat PROVE PassShape(stack', fresh')
  <2>1. /\ outcome = "parsing" /\ Top.todo # << >> /\ Grammar[Wanted].kind = "repeat"
        /\ Wanted \in DOMAIN Grammar /\ stack' = Call(<< >>, count) /\ fresh' = fresh
        /\ IsLoop(Wanted) /\ count \in 0..U32_MAX
    BY <1>7, ResumeFacts DEF EnterRepeat, Parsing, IsLoop, IInv, TypeOK
  <2> DEFINE n == Len(stack)
  <2>2. /\ n \in Nat \ {0} /\ Top.of \in DOMAIN Grammar /\ Top = stack[n] /\ n \in 1..n
        /\ stack # << >>
    BY <2>1, TopFacts DEF Frame, Top
  <2>3. Wanted \in Uses(Top.of)
    BY <2>1, <2>2, ResumeFacts, ResumeAt
  <2>4. \A v \in DOMAIN Grammar : Top.of \notin Uses(v)
    BY <2>1, <2>2, <2>3, PassAssumption
  <2>5. n \notin 2..n
    BY <2>2, <2>4 DEF PassShape
  <2>6. n = 1
    <3> HIDE DEF n
    <3> QED
      BY <2>2, <2>5
  <2>7. 2..n = {}
    BY <2>6
  <2>8. fresh = TRUE
    BY <1>0, <2>2, <2>7 DEF PassShape, Due
  <2> QED
    BY <2>1, <2>8, NoFields, PassCall
<1>8. ASSUME NextItem PROVE PassShape(stack', fresh')
  BY <1>8, PassBegins DEF NextItem
<1>9. ASSUME Return PROVE PassShape(stack', fresh')
  BY <1>9, PassReturns DEF Return
<1>10. ASSUME Refuse \/ Abort PROVE PassShape(stack', fresh')
  <2>1. stack' = << >> /\ Len(<< >>) = 0 /\ 1..0 = {} /\ 2..0 = {}
    BY <1>10 DEF Refuse, Abort
  <2> QED
    BY <2>1 DEF PassShape
<1>11. ASSUME UNCHANGED vars PROVE PassShape(stack', fresh')
  BY <1>11 DEF vars
<1> QED
  BY <1>1, <1>2, <1>3, <1>4, <1>5, <1>6, <1>7, <1>8, <1>9, <1>10, <1>11
     DEF Next, Finished

\* A loop between two passes has nothing to parse itself and calls nothing.
LEMMA PassImplies ==
  ASSUME IInv, PassShape(stack, fresh)
  PROVE  EveryPassReads
<1> SUFFICES ASSUME stack # << >>, Top.todo = << >>, IsLoop(Top.of), ~fresh
             PROVE  FALSE
  BY DEF EveryPassReads, IsLoop
<1> DEFINE n == Len(stack)
<1>1. n \in Nat \ {0} /\ Top = stack[n]
  BY EmptySeq, LenProperties DEF IInv, TypeOK, Top
<1>2. PICK j \in 2..n : /\ WillRead(stack[j].todo)
                        /\ \A i \in (j + 1)..n : ~IsLoop(stack[i].of)
  BY DEF PassShape, Due
<1>3. ~WillRead(<< >>)
  BY EmptySeq, Len(<< >>) = 0, 1..0 = {} DEF WillRead
<1>4. j # n
  BY <1>1, <1>2, <1>3
<1> HIDE DEF n
<1>5. n \in (j + 1)..n
  BY <1>1, <1>4
<1> QED
  BY <1>1, <1>2, <1>5

-----------------------------------------------------------------------------
(* The theorems. *)

\* The invariant gives the bound on the stack: its last call is as deep in it as
\* the levels spent pay for.
LEMMA InvImplies == IInv => DepthIsNesting /\ StackBounded
<1> SUFFICES ASSUME IInv PROVE DepthIsNesting /\ StackBounded
  OBVIOUS
<1>1. stack \in Seq(Frame) /\ depth \in Nat
  BY SizeAssumption DEF IInv, TypeOK
<1>2. DepthIsNesting
  BY DEF IInv, Shape, DepthIsNesting, Top
<1>3. CASE stack = << >>
  <2>1. Len(stack) = 0
    BY <1>3, EmptySeq
  <2>2. (depth + 1) * CHAIN >= 0
    BY <1>1, OneMoreLevel
  <2> QED
    BY <1>2, <2>1, <2>2 DEF StackBounded
<1>4. CASE stack # << >>
  <2>1. /\ Len(stack) \in Nat \ {0} /\ Len(stack) \in 1..Len(stack) /\ Top \in Frame
    BY <1>1, <1>4, EmptySeq, ElementOfSeq DEF Top
  <2>2. /\ Len(stack) + Rank[Top.of] <= (Top.at + 1) * CHAIN
        /\ depth = Top.at + LevelsOf(Top)
    BY <1>4, <2>1 DEF IInv, Shape, Top
  <2>3. Rank[Top.of] \in Nat /\ Top.at \in Nat /\ CHAIN \in Nat
    BY <2>1, ChainAssumption DEF Frame
  <2>4. CASE LevelsOf(Top) = 0
    BY <1>2, <2>1, <2>2, <2>3, <2>4 DEF StackBounded
  <2>5. CASE LevelsOf(Top) = 1
    <3>1. (depth + 1) * CHAIN = (Top.at + 1) * CHAIN + CHAIN
      BY <2>2, <2>3, <2>5, OneMoreLevel
    <3> DEFINE paid == (Top.at + 1) * CHAIN
    <3>2. paid \in Nat /\ Len(stack) + Rank[Top.of] <= paid
          /\ (depth + 1) * CHAIN = paid + CHAIN
      BY <2>2, <2>3, <3>1
    <3> HIDE DEF paid
    <3> QED
      BY <1>2, <2>1, <2>3, <3>2 DEF StackBounded
  <2> QED
    BY <2>1, <2>4, <2>5, LevelsType
<1> QED
  BY <1>3, <1>4

LEMMA Invariance == Spec => []IInv
BY InitInv, NextInv, PTL DEF Spec

\* Parser's fields and the calls under way have their types; the budget is never
\* overspent.
THEOREM TypeCorrect == Spec => []TypeOK
<1>1. IInv => TypeOK
  BY DEF IInv
<1> QED
  BY <1>1, Invariance, PTL

\* can_read and aligned_size keep every read inside the data, whatever the
\* widths and the lengths.
THEOREM ReadSafety == Spec => []ReadsInside
<1>1. IInv => ReadsInside
  BY DEF IInv
<1> QED
  BY <1>1, Invariance, PTL

\* enter_recursion and exit_recursion are paired on every way through a type.
THEOREM NestingSafety == Spec => []DepthIsNesting
BY InvImplies, Invariance, PTL

\* MAX_PARSE_DEPTH bounds the native stack for any grammar without a cycle of
\* types that cost no level.
THEOREM StackSafety == Spec => []StackBounded
BY InvImplies, Invariance, PTL

\* A loop reads at least a byte in each pass: a length or an op_count of
\* 4 294 967 295 makes no more passes than there are bytes, for any grammar in
\* which the items of a list are not empty.
THEOREM PassSafety == Spec => []EveryPassReads
<1> DEFINE PInv == IInv /\ PassShape(stack, fresh)
<1>1. Init => PInv
  BY InitInv, InitPass
<1>2. PInv /\ [Next]_vars => PInv'
  <2> SUFFICES ASSUME PInv, [Next]_vars PROVE PInv'
    OBVIOUS
  <2>1. IInv'
    BY NextInv
  <2>2. PassShape(stack', fresh')
    BY NextPass
  <2>3. PassShape(stack, fresh)'
    BY <2>2 DEF PassShape, Due, WillRead, IsLoop, Uses
  <2> QED
    BY <2>1, <2>3
<1>3. PInv => EveryPassReads
  BY PassImplies
<1> HIDE DEF PInv
<1> QED
  BY <1>1, <1>2, <1>3, PTL DEF Spec

=============================================================================
