------------------------- MODULE RecursiveFunctions -------------------------
(***************************************************************************)
(* Induction over the natural numbers and the existence of recursive       *)
(* functions, with sets and functions where the library's theorems have    *)
(* operators: what is to be proved of every number is the membership of a  *)
(* set, and what a recursive function does at each step is a function.     *)
(***************************************************************************)
EXTENDS Integers, SequencesExt, SequenceTheorems, WellFoundedInduction, TLAPS

LessThan == {p \in Nat \X Nat : p[1] < p[2]}

\* A set that holds 0 and, with each number, the next one holds every number.
LEMMA SetInduction ==
  ASSUME NEW S, 0 \in S, \A n \in Nat : n \in S => n + 1 \in S
  PROVE  \A n \in Nat : n \in S
<1>1. IsWellFoundedOn(LessThan, Nat)
  BY NatLessThanWellFounded DEF OpToRel, LessThan
<1> DEFINE T == Nat \ S
<1>2. SUFFICES ASSUME T # {} PROVE FALSE
  OBVIOUS
<1>3. PICK x \in T : \A y \in T : <<y, x>> \notin LessThan
  BY <1>1, <1>2, WFMin
<1>4. x \in Nat /\ x # 0 /\ x - 1 \in Nat
  BY <1>3
<1>5. x - 1 \in T
  BY <1>3, <1>4
<1>6. <<x - 1, x>> \in LessThan
  BY <1>4 DEF LessThan
<1> QED
  BY <1>3, <1>5, <1>6

\* The same up to a bound.
LEMMA IntervalInduction ==
  ASSUME NEW m \in Nat, NEW S, 0 \in S, \A n \in 0..(m - 1) : n \in S => n + 1 \in S
  PROVE  \A n \in 0..m : n \in S
<1> DEFINE R == {n \in Nat : n <= m => n \in S}
<1>1. 0 \in R
  OBVIOUS
<1>2. ASSUME NEW n \in Nat, n \in R
      PROVE  n + 1 \in R
  BY <1>2
<1> HIDE DEF R
<1>3. \A n \in Nat : n \in R
  BY <1>1, <1>2, SetInduction
<1> QED
  BY <1>3 DEF R

\* What a function f on 0..m does: it starts with base, and step gives each
\* value from the one before.
Iterates(f, m, base, step) ==
  f = [i \in 0..m |-> IF i = 0 THEN base ELSE step[<<i, f[i - 1]>>]]

\* Whatever the base and the step, there is a function that iterates the step.
LEMMA IterationExists ==
  ASSUME NEW V, NEW base \in V, NEW m \in Nat, NEW step \in [(1..m) \X V -> V]
  PROVE  \E f \in [0..m -> V] : Iterates(f, m, base, step)
<1> DEFINE Reaches(f, n) ==
             /\ f[0] = base
             /\ \A i \in 1..n : f[i] = step[<<i, f[i - 1]>>]
           S == {n \in Nat : \E f \in [0..m -> V] : Reaches(f, n)}
<1>1. 0 \in S
  <2>1. [i \in 0..m |-> base] \in [0..m -> V]
    OBVIOUS
  <2>2. Reaches([i \in 0..m |-> base], 0)
    OBVIOUS
  <2> QED
    BY <2>1, <2>2
<1>2. ASSUME NEW n \in 0..(m - 1), n \in S
      PROVE  n + 1 \in S
  <2>1. PICK f \in [0..m -> V] : Reaches(f, n)
    BY <1>2
  <2> DEFINE v == step[<<n + 1, f[n]>>]
             g == [f EXCEPT ![n + 1] = v]
  <2>2. n \in 0..m /\ n + 1 \in 1..m /\ f[n] \in V
    OBVIOUS
  <2>3. v \in V
    BY <2>2
  <2>4. g \in [0..m -> V]
    BY <2>3
  <2>5. \A i \in 0..n : g[i] = f[i]
    OBVIOUS
  <2>6. g[n + 1] = v /\ g[n] = f[n]
    BY <2>2
  <2> HIDE DEF g
  <2>7. g[0] = base
    BY <2>1, <2>5
  <2>8. ASSUME NEW i \in 1..(n + 1)
        PROVE  g[i] = step[<<i, g[i - 1]>>]
    <3>1. CASE i = n + 1
      BY <2>6, <3>1
    <3>2. CASE i # n + 1
      <4>1. i \in 1..n /\ i \in 0..n /\ i - 1 \in 0..n
        BY <3>2
      <4> QED
        BY <2>1, <2>5, <4>1
    <3> QED
      BY <3>1, <3>2
  <2> QED
    BY <2>4, <2>7, <2>8
<1> HIDE DEF S
<1>3. m \in S
  BY <1>1, <1>2, IntervalInduction
<1>4. PICK f \in [0..m -> V] : Reaches(f, m)
  BY <1>3 DEF S
<1>5. Iterates(f, m, base, step)
  <2>1. \A i \in 0..m : f[i] = IF i = 0 THEN base ELSE step[<<i, f[i - 1]>>]
    BY <1>4
  <2>2. f = [i \in 0..m |-> f[i]]
    OBVIOUS
  <2> QED
    BY <2>1, <2>2 DEF Iterates
<1> QED
  BY <1>5

\* The first value of a function that iterates a step, and each later one.
LEMMA FirstValue ==
  ASSUME NEW m \in Nat, NEW base, NEW step, NEW f, Iterates(f, m, base, step)
  PROVE  f[0] = base
BY DEF Iterates

LEMMA NextValue ==
  ASSUME NEW m \in Nat, NEW base, NEW step, NEW f, Iterates(f, m, base, step),
         NEW i \in 1..m
  PROVE  f[i] = step[<<i, f[i - 1]>>]
BY DEF Iterates

-----------------------------------------------------------------------------
(* Recursion on what is smaller. *)

\* What a function f on S does that calls itself: outside its base it goes on
\* with the one before.
Recurs(f, S, base, before, step) ==
  f = [x \in S |-> IF x \in DOMAIN base THEN base[x] ELSE step[<<x, f[before[x]]>>]]

\* If what comes before is smaller, there is a function that recurs.
LEMMA RecursionExists ==
  ASSUME NEW S, NEW V, NEW B \in SUBSET S, B # {}, NEW base \in [B -> V],
         NEW size \in [S -> Nat], NEW before \in [S -> S],
         NEW step \in [S \X V -> V],
         \A x \in S \ B : size[before[x]] < size[x]
  PROVE  \E f \in [S -> V] : Recurs(f, S, base, before, step)
<1> DEFINE Value(f, x) == IF x \in B THEN base[x] ELSE step[<<x, f[before[x]]>>]
           Good(f, n) == \A x \in S : size[x] < n => f[x] = Value(f, x)
           E == {n \in Nat : \E f \in [S -> V] : Good(f, n)}
<1>1. ASSUME NEW f \in [S -> V], NEW x \in S
      PROVE  Value(f, x) \in V
  OBVIOUS
<1>2. 0 \in E
  <2>1. PICK b \in B : TRUE
    OBVIOUS
  <2>2. [x \in S |-> base[b]] \in [S -> V]
    BY <2>1
  <2>3. \A f : Good(f, 0)
    OBVIOUS
  <2> HIDE DEF Good
  <2> QED
    BY <2>2, <2>3
<1>3. ASSUME NEW n \in Nat, n \in E
      PROVE  n + 1 \in E
  <2>1. PICK f \in [S -> V] : Good(f, n)
    BY <1>3
  <2> DEFINE g == [x \in S |-> IF size[x] < n THEN f[x] ELSE Value(f, x)]
  <2>2. g \in [S -> V]
    <3> HIDE DEF Value
    <3> QED
      BY <1>1
  <2>3. \A x \in S : size[x] < n + 1 => g[x] = Value(f, x)
    <3> SUFFICES ASSUME NEW x \in S, size[x] < n + 1 PROVE g[x] = Value(f, x)
      OBVIOUS
    <3> HIDE DEF Value
    <3> QED
      BY <2>1
  <2>4. \A x \in S : size[x] < n + 1 => Value(f, x) = Value(g, x)
    <3> SUFFICES ASSUME NEW x \in S, size[x] < n + 1, x \notin B
                 PROVE  f[before[x]] = g[before[x]]
      OBVIOUS
    <3>1. before[x] \in S /\ size[before[x]] < n
      OBVIOUS
    <3> QED
      BY <3>1
  <2> HIDE DEF g, Value
  <2>5. Good(g, n + 1)
    BY <2>3, <2>4
  <2> HIDE DEF Good
  <2> QED
    BY <2>2, <2>5
<1> HIDE DEF E
<1>4. \A n \in Nat : n \in E
  BY <1>2, <1>3, SetInduction
<1>5. ASSUME NEW f, NEW g, NEW a \in Nat, NEW b \in Nat, Good(f, a), Good(g, b), a <= b
      PROVE  \A x \in S : size[x] < a => f[x] = g[x]
  <2> DEFINE A == {n \in Nat : \A x \in S : size[x] < n /\ n <= a => f[x] = g[x]}
  <2>1. 0 \in A
    OBVIOUS
  <2>2. ASSUME NEW n \in Nat, n \in A
        PROVE  n + 1 \in A
    <3> SUFFICES ASSUME NEW x \in S, size[x] < n + 1, n + 1 <= a
                 PROVE  f[x] = g[x]
      OBVIOUS
    <3>1. f[x] = Value(f, x) /\ g[x] = Value(g, x)
      BY <1>5
    <3>2. CASE x \in B
      BY <3>1, <3>2
    <3>3. CASE x \notin B
      <4>1. before[x] \in S /\ size[before[x]] < n
        BY <3>3
      <4>2. f[before[x]] = g[before[x]]
        BY <2>2, <4>1
      <4> QED
        BY <3>1, <3>3, <4>2
    <3> QED
      BY <3>2, <3>3
  <2> HIDE DEF A
  <2>3. a \in A
    BY <2>1, <2>2, SetInduction
  <2> QED
    BY <2>3 DEF A
<1> DEFINE part == [n \in Nat |-> CHOOSE f : f \in [S -> V] /\ Good(f, n)]
           F == [x \in S |-> part[size[x] + 1][x]]
<1>6. \A n \in Nat : part[n] \in [S -> V] /\ Good(part[n], n)
  <2> SUFFICES ASSUME NEW n \in Nat PROVE part[n] \in [S -> V] /\ Good(part[n], n)
    OBVIOUS
  <2> HIDE DEF Good
  <2>1. \E f : f \in [S -> V] /\ Good(f, n)
    BY <1>4 DEF E
  <2> QED
    BY <2>1
<1> HIDE DEF part
<1>7. ASSUME NEW x \in S
      PROVE  F[x] = Value(F, x)
  <2>1. size[x] \in Nat /\ size[x] + 1 \in Nat
    OBVIOUS
  <2>2. F[x] = Value(part[size[x] + 1], x)
    BY <1>6, <2>1
  <2>3. CASE x \in B
    BY <2>2, <2>3
  <2>4. CASE x \notin B
    <3> DEFINE y == before[x]
    <3>1. y \in S /\ size[y] \in Nat /\ size[y] + 1 \in Nat /\ size[y] + 1 <= size[x] + 1
          /\ size[y] < size[y] + 1
      BY <2>4
    <3>2. F[y] = part[size[y] + 1][y]
      BY <3>1
    <3>3. Good(part[size[y] + 1], size[y] + 1) /\ Good(part[size[x] + 1], size[x] + 1)
      BY <1>6, <2>1, <3>1
    <3> HIDE DEF F, Good, y
    <3>4. part[size[y] + 1][y] = part[size[x] + 1][y]
      BY <1>5, <2>1, <3>1, <3>3
    <3> QED
      BY <2>2, <2>4, <3>2, <3>4 DEF y
  <2> QED
    BY <2>3, <2>4
<1>8. F \in [S -> V]
  <2> SUFFICES ASSUME NEW x \in S PROVE part[size[x] + 1][x] \in V
    OBVIOUS
  <2>1. size[x] + 1 \in Nat
    OBVIOUS
  <2> QED
    BY <1>6, <2>1
<1> HIDE DEF F, part, Good
<1>9. F = [x \in S |-> Value(F, x)]
  BY <1>7, <1>8
<1> QED
  BY <1>8, <1>9 DEF Recurs

-----------------------------------------------------------------------------
(* Concatenation. *)

\* A function that appends the pieces one by one to nothing ends with what
\* FlattenSeq gives.
LEMMA FlattenValue ==
  ASSUME NEW S, NEW t \in Seq(Seq(S)), NEW g, g[0] = << >>,
         \A i \in 1..Len(t) : g[i] = g[i - 1] \o t[i]
  PROVE  FlattenSeq(t) = g[Len(t)]
<1> DEFINE m == Len(t)
           f == CHOOSE f : f = [i \in 1..m |->
                  IF i = 1 THEN t[i] ELSE f[i - 1] \o t[i]]
           h == [i \in 1..m |-> g[i]]
<1>1. CASE m = 0
  BY <1>1 DEF FlattenSeq
<1>2. CASE m # 0
  <2>1. /\ m \in Nat /\ m - 1 \in Nat /\ 1 \in 1..m
        /\ \A i \in 1..m : t[i] \in Seq(S)
    BY <1>2
  <2>g. \A i \in 1..m : \A j \in 0..m : i = j + 1 => g[i] = g[j] \o t[i]
    <3>1. ASSUME NEW i \in 1..m, NEW j \in 0..m, i = j + 1
          PROVE  g[i] = g[j] \o t[i]
      <4>1. i - 1 = j
        BY <3>1
      <4>2. g[i] = g[i - 1] \o t[i]
        OBVIOUS
      <4> QED
        BY <4>1, <4>2
    <3> QED
      BY <3>1
  <2>o. g[1] = t[1]
    <3>1. 0 \in 0..m /\ 1 = 0 + 1 /\ t[1] \in Seq(S)
      BY <2>1
    <3>2. g[1] = g[0] \o t[1]
      BY <2>1, <2>g, <3>1
    <3> QED
      BY <3>1, <3>2
  <2>2. FlattenSeq(t) = f[m]
    BY <1>2 DEF FlattenSeq
  <2>3. h = [i \in 1..m |-> IF i = 1 THEN t[i] ELSE h[i - 1] \o t[i]]
    <3>1. ASSUME NEW i \in 1..m
          PROVE  g[i] = IF i = 1 THEN t[i] ELSE h[i - 1] \o t[i]
      <4>1. CASE i = 1
        BY <2>o, <4>1
      <4>2. CASE i # 1
        <5>1. i - 1 \in 1..m
          BY <2>1, <4>2
        <5> QED
          BY <4>2, <5>1
      <4> QED
        BY <4>1, <4>2
    <3> HIDE DEF m
    <3> QED
      BY <3>1
  <2> HIDE DEF h
  <2>4. f = [i \in 1..m |-> IF i = 1 THEN t[i] ELSE f[i - 1] \o t[i]]
    BY <2>3
  <2> HIDE DEF f
  <2>5. f[1] = t[1]
    BY <2>1, <2>4
  <2>f. \A i \in 1..m : \A j \in 1..m : i = j + 1 => f[i] = f[j] \o t[i]
    <3>1. ASSUME NEW i \in 1..m, NEW j \in 1..m, i = j + 1
          PROVE  f[i] = f[j] \o t[i]
      <4>1. i - 1 = j /\ i # 1
        BY <3>1
      <4>2. f[i] = IF i = 1 THEN t[i] ELSE f[i - 1] \o t[i]
        BY <2>4
      <4> QED
        BY <4>1, <4>2
    <3> QED
      BY <3>1
  <2> DEFINE T == {k \in 0..(m - 1) : f[k + 1] = g[k + 1]}
  <2>6. 0 \in T
    <3>1. 0 \in 0..(m - 1) /\ 0 + 1 = 1
      BY <2>1
    <3> QED
      BY <2>o, <2>5, <3>1
  <2>7. ASSUME NEW k \in 0..(m - 1 - 1), k \in T
        PROVE  k + 1 \in T
    <3> DEFINE a == k + 1
               b == a + 1
    <3>1. a \in 0..(m - 1) /\ a \in 1..m /\ a \in 0..m /\ b \in 1..m
      BY <2>1
    <3>2. f[a] = g[a]
      BY <2>7
    <3>3. f[b] = f[a] \o t[b] /\ g[b] = g[a] \o t[b]
      <4>1. b = a + 1
        OBVIOUS
      <4> HIDE DEF a, b
      <4> QED
        BY <2>f, <2>g, <3>1, <4>1
    <3> QED
      BY <3>1, <3>2, <3>3
  <2> HIDE DEF T
  <2>8. \A k \in 0..(m - 1) : k \in T
    BY <2>1, <2>6, <2>7, IntervalInduction
  <2>9. m - 1 \in T /\ (m - 1) + 1 = m
    BY <2>1, <2>8
  <2>10. f[m] = g[m]
    BY <2>9 DEF T
  <2> QED
    BY <2>2, <2>10
<1> QED
  BY <1>1, <1>2

\* One piece more is appended to what the pieces before it give.
LEMMA FlattenStep ==
  ASSUME NEW S, NEW s \in Seq(Seq(S)), NEW k \in 1..Len(s)
  PROVE  FlattenSeq(SubSeq(s, 1, k)) = FlattenSeq(SubSeq(s, 1, k - 1)) \o s[k]
<1> DEFINE n == Len(s)
           step == [p \in (1..n) \X Seq(S) |-> p[2] \o s[p[1]]]
<1>1. n \in Nat /\ << >> \in Seq(S)
  OBVIOUS
<1>2. step \in [(1..n) \X Seq(S) -> Seq(S)]
  <2>1. \A i \in 1..n : s[i] \in Seq(S)
    OBVIOUS
  <2> QED
    BY <2>1
<1>3. PICK g \in [0..n -> Seq(S)] : Iterates(g, n, << >>, step)
  <2> HIDE DEF step, n
  <2> QED
    BY <1>1, <1>2, IterationExists
<1>4. g[0] = << >>
  BY <1>1, <1>3 DEF Iterates
<1>5. ASSUME NEW i \in 1..n
      PROVE  g[i] = g[i - 1] \o s[i]
  <2>1. <<i, g[i - 1]>> \in (1..n) \X Seq(S)
    <3>1. i - 1 \in 0..n
      BY <1>1
    <3> HIDE DEF n
    <3> QED
      BY <1>3, <3>1
  <2>2. step[<<i, g[i - 1]>>] = g[i - 1] \o s[i]
    BY <2>1
  <2> HIDE DEF step
  <2>3. g[i] = step[<<i, g[i - 1]>>]
    BY <1>1, <1>3 DEF Iterates
  <2> QED
    BY <2>2, <2>3
<1>6. ASSUME NEW j \in 0..n
      PROVE  FlattenSeq(SubSeq(s, 1, j)) = g[j]
  <2> DEFINE t == SubSeq(s, 1, j)
  <2>1. t \in Seq(Seq(S)) /\ Len(t) = j /\ \A i \in 1..j : t[i] = s[i]
    OBVIOUS
  <2> HIDE DEF t
  <2>2. ASSUME NEW i \in 1..Len(t)
        PROVE  g[i] = g[i - 1] \o t[i]
    <3>1. i \in 1..n /\ t[i] = s[i]
      BY <1>1, <2>1
    <3> HIDE DEF n
    <3> QED
      BY <1>5, <3>1
  <2>3. FlattenSeq(t) = g[Len(t)]
    BY <1>4, <2>1, <2>2, FlattenValue
  <2> QED
    BY <2>1, <2>3 DEF t
<1>7. k \in 0..n /\ k - 1 \in 0..n
  BY <1>1
<1> QED
  BY <1>5, <1>6, <1>7

LEMMA FlattenNothing == FlattenSeq(<< >>) = << >>
BY DEF FlattenSeq

\* What is flattened is a sequence.
LEMMA FlattenType ==
  ASSUME NEW S, NEW s \in Seq(Seq(S))
  PROVE  FlattenSeq(s) \in Seq(S)
<1> DEFINE n == Len(s)
           flat(k) == FlattenSeq(SubSeq(s, 1, k))
           T == {k \in 0..n : flat(k) \in Seq(S)}
<1>1. n \in Nat /\ n \in 0..n /\ 0 \in 0..n
  OBVIOUS
<1>2. flat(0) \in Seq(S)
  <2>1. SubSeq(s, 1, 0) = << >>
    BY SubSeqEmpty
  <2>2. << >> \in Seq(S)
    OBVIOUS
  <2>3. flat(0) = << >>
    BY <2>1, FlattenNothing
  <2> HIDE DEF flat
  <2> QED
    BY <2>2, <2>3
<1>3. ASSUME NEW k \in 0..(n - 1), flat(k) \in Seq(S)
      PROVE  flat(k + 1) \in Seq(S)
  <2>1. k + 1 \in 1..n /\ (k + 1) - 1 = k /\ s[k + 1] \in Seq(S)
    BY <1>1
  <2>2. flat(k + 1) = flat(k) \o s[k + 1]
    BY <2>1, FlattenStep
  <2>3. \A a, b \in Seq(S) : a \o b \in Seq(S)
    OBVIOUS
  <2>4. flat(k) \in Seq(S)
    BY <1>3
  <2> HIDE DEF flat
  <2> QED
    BY <2>1, <2>2, <2>3, <2>4
<1>4. SubSeq(s, 1, n) = s
  BY SubSeqFull
<1>5. flat(n) = FlattenSeq(s)
  BY <1>4
<1> HIDE DEF flat, n
<1>6. 0 \in T
  BY <1>1, <1>2
<1>7. ASSUME NEW k \in 0..(n - 1), k \in T
      PROVE  k + 1 \in T
  BY <1>1, <1>3, <1>7
<1> HIDE DEF T
<1>8. \A k \in 0..n : k \in T
  BY <1>1, <1>6, <1>7, IntervalInduction
<1>9. n \in T
  BY <1>1, <1>8
<1> QED
  BY <1>5, <1>9 DEF T

\* A last piece is appended as a whole.
LEMMA FlattenAppend ==
  ASSUME NEW S, NEW s \in Seq(Seq(S)), NEW x \in Seq(S)
  PROVE  FlattenSeq(Append(s, x)) = FlattenSeq(s) \o x
<1> DEFINE t == Append(s, x)
           n == Len(s)
<1>1. t \in Seq(Seq(S)) /\ Len(t) = n + 1 /\ t[n + 1] = x /\ n \in Nat
  OBVIOUS
<1>2. SubSeq(t, 1, n + 1) = t
  BY <1>1, SubSeqFull
<1>3. SubSeq(t, 1, (n + 1) - 1) = s
  OBVIOUS
<1> HIDE DEF t, n
<1>4. n + 1 \in 1..Len(t)
  BY <1>1
<1>5. FlattenSeq(t) = FlattenSeq(s) \o x
  BY <1>1, <1>2, <1>3, <1>4, FlattenStep
<1> QED
  BY <1>5 DEF t

-----------------------------------------------------------------------------
(* Joining sequences. *)

\* Joining nothing, and one more.
LEMMA Joining ==
  ASSUME NEW S
  PROVE  /\ \A u \in Seq(S) : u \o << >> = u /\ << >> \o u = u /\ Len(u) \in Nat
         /\ \A u, f \in Seq(S) : u \o f \in Seq(S)
         /\ \A u, f \in Seq(S) : \A x \in S : u \o Append(f, x) = Append(u \o f, x)
<1>1. /\ \A u \in Seq(S) : u \o << >> = u /\ << >> \o u = u /\ Len(u) \in Nat
      /\ \A u, f \in Seq(S) : u \o f \in Seq(S)
  OBVIOUS
<1>2. ASSUME NEW u \in Seq(S), NEW f \in Seq(S), NEW x \in S
      PROVE  u \o Append(f, x) = Append(u \o f, x)
  <2>1. <<x>> \in Seq(S) /\ \A g \in Seq(S) : Append(g, x) = g \o <<x>>
    OBVIOUS
  <2>2. u \o (f \o <<x>>) = (u \o f) \o <<x>> /\ u \o f \in Seq(S)
    BY <1>1, <2>1, ConcatAssociative
  <2> QED
    BY <2>1, <2>2
<1> QED
  BY <1>1, <1>2

\* Where the elements of what is joined are.
LEMMA JoinedParts ==
  ASSUME NEW S
  PROVE  /\ \A u, f \in Seq(S) :
              /\ u \o f \in Seq(S) /\ Len(u \o f) = Len(u) + Len(f)
              /\ \A i \in 1..Len(u) : (u \o f)[i] = u[i]
              /\ \A i \in 1..Len(f) : (u \o f)[Len(u) + i] = f[i]
         /\ \A u \in Seq(S), x \in S :
              /\ Append(u, x) \in Seq(S) /\ Len(Append(u, x)) = Len(u) + 1
              /\ Append(u, x)[Len(u) + 1] = x
              /\ \A i \in 1..Len(u) : Append(u, x)[i] = u[i]
OBVIOUS

\* A beginning of a sequence, and the one that is longer by one.
LEMMA OneMoreTaken ==
  ASSUME NEW S, NEW t \in Seq(S), NEW k \in 0..(Len(t) - 1)
  PROVE  /\ SubSeq(t, 1, k) \in Seq(S)
         /\ SubSeq(t, 1, k + 1) = Append(SubSeq(t, 1, k), t[k + 1])
<1> DEFINE f == SubSeq(t, 1, k)
           g == SubSeq(t, 1, k + 1)
<1>1. k \in Nat /\ k + 1 \in 1..Len(t) /\ t[k + 1] \in S
  OBVIOUS
<1>2. f \in Seq(S) /\ Len(f) = k /\ \A i \in 1..k : f[i] = t[i]
  OBVIOUS
<1>3. g \in Seq(S) /\ Len(g) = k + 1 /\ \A i \in 1..(k + 1) : g[i] = t[i]
  OBVIOUS
<1> HIDE DEF f, g
<1>4. /\ Append(f, t[k + 1]) \in Seq(S) /\ Len(Append(f, t[k + 1])) = k + 1
      /\ Append(f, t[k + 1])[k + 1] = t[k + 1]
      /\ \A i \in 1..k : Append(f, t[k + 1])[i] = t[i]
  BY <1>1, <1>2
<1>5. \A i \in 1..(k + 1) : g[i] = Append(f, t[k + 1])[i]
  <2> SUFFICES ASSUME NEW i \in 1..(k + 1) PROVE g[i] = Append(f, t[k + 1])[i]
    OBVIOUS
  <2>1. i \in 1..k \/ i = k + 1
    BY <1>1
  <2> QED
    BY <1>3, <1>4, <2>1
<1>6. g = Append(f, t[k + 1])
  BY <1>3, <1>4, <1>5, SeqEqual
<1> QED
  BY <1>2, <1>6 DEF f, g
=============================================================================
