---------------------------- MODULE AmountProofs ----------------------------
(***************************************************************************)
(* The texts of an amount, for every amount, number of decimal places and  *)
(* buffer: what Exchange shows denotes the amount (the lemma AmountText),  *)
(* and a review on the device shows the same, but for its separators (the  *)
(* lemma ReviewedText).  The proofs about the swap session use both.       *)
(***************************************************************************)
EXTENDS PrintableAmount, Decimals, RecursiveFunctions, SequenceTheorems

-----------------------------------------------------------------------------
(* Dividing by ten, again and again. *)

\* The powers of ten.
LEMMA TenToValues ==
  /\ TenTo[0] = 1
  /\ \A n \in 1..SLOTS : TenTo[n] = 10 * TenTo[n - 1]
  /\ \A n \in 0..SLOTS : TenTo[n] \in Nat \ {0}
<1> DEFINE step == [p \in (1..SLOTS) \X Nat |-> 10 * p[2]]
<1>s. SLOTS \in Nat
  BY DEF SLOTS
<1>1. step \in [(1..SLOTS) \X Nat -> Nat]
  OBVIOUS
<1>2. PICK f \in [0..SLOTS -> Nat] : Iterates(f, SLOTS, 1, step)
  BY <1>s, <1>1, IterationExists
<1>3. \A i \in 1..SLOTS : f[i] = 10 * f[i - 1]
  <2> SUFFICES ASSUME NEW i \in 1..SLOTS PROVE f[i] = 10 * f[i - 1]
    OBVIOUS
  <2>1. <<i, f[i - 1]>> \in (1..SLOTS) \X Nat
    BY <1>s
  <2>2. step[<<i, f[i - 1]>>] = 10 * f[i - 1]
    BY <2>1
  <2> HIDE DEF step
  <2> QED
    BY <1>s, <1>2, <2>2, NextValue
<1> HIDE DEF step
<1>4. f[0] = 1
  BY <1>s, <1>2, FirstValue
<1>5. f = [n \in 0..SLOTS |-> IF n = 0 THEN 1 ELSE 10 * f[n - 1]]
  BY <1>s, <1>3, <1>4
<1>6. TenTo = [n \in 0..SLOTS |-> IF n = 0 THEN 1 ELSE 10 * TenTo[n - 1]]
  BY <1>5 DEF TenTo
<1>7. /\ TenTo[0] = 1
      /\ \A n \in 1..SLOTS : TenTo[n] = 10 * TenTo[n - 1]
  BY <1>s, <1>6
<1>8. \A n \in 0..SLOTS : TenTo[n] \in Nat \ {0}
  <2> DEFINE S == {n \in 0..SLOTS : TenTo[n] \in Nat \ {0}}
  <2>1. 0 \in S
    BY <1>s, <1>7
  <2>2. ASSUME NEW n \in 0..(SLOTS - 1), n \in S
        PROVE  n + 1 \in S
    <3>1. n + 1 \in 1..SLOTS /\ (n + 1) - 1 = n
      BY <1>s
    <3> QED
      BY <1>7, <2>2, <3>1
  <2> HIDE DEF S
  <2>3. \A n \in 0..SLOTS : n \in S
    BY <1>s, <2>1, <2>2, IntervalInduction
  <2> QED
    BY <2>3 DEF S
<1> QED
  BY <1>7, <1>8

\* What is left after each division.
LEMMA QuotientsValues ==
  ASSUME NEW v \in Nat
  PROVE  /\ Quotients(v)[0] = v
         /\ \A i \in 1..SLOTS : Quotients(v)[i] = Quotients(v)[i - 1] \div 10
         /\ \A i \in 0..SLOTS : Quotients(v)[i] \in Nat
<1> DEFINE step == [p \in (1..SLOTS) \X Nat |-> p[2] \div 10]
           q == Quotients(v)
<1>s. SLOTS \in Nat
  BY DEF SLOTS
<1>1. step \in [(1..SLOTS) \X Nat -> Nat]
  <2>1. \A n \in Nat : n \div 10 \in Nat
    OBVIOUS
  <2> QED
    BY <2>1
<1>2. PICK f \in [0..SLOTS -> Nat] : Iterates(f, SLOTS, v, step)
  <2> HIDE DEF step
  <2> QED
    BY <1>s, <1>1, IterationExists
<1>3. \A i \in 1..SLOTS : f[i] = f[i - 1] \div 10
  <2> SUFFICES ASSUME NEW i \in 1..SLOTS PROVE f[i] = f[i - 1] \div 10
    OBVIOUS
  <2>1. <<i, f[i - 1]>> \in (1..SLOTS) \X Nat
    BY <1>s
  <2>2. step[<<i, f[i - 1]>>] = f[i - 1] \div 10
    BY <2>1
  <2> HIDE DEF step
  <2> QED
    BY <1>s, <1>2, <2>2, NextValue
<1> HIDE DEF step
<1>4. f[0] = v
  BY <1>s, <1>2, FirstValue
<1>5. f = [i \in 0..SLOTS |-> IF i = 0 THEN v ELSE f[i - 1] \div 10]
  BY <1>s, <1>3, <1>4
<1>6. q = [i \in 0..SLOTS |-> IF i = 0 THEN v ELSE q[i - 1] \div 10]
  BY <1>5 DEF Quotients
<1> HIDE DEF q
<1>7. q[0] = v /\ \A i \in 1..SLOTS : q[i] = q[i - 1] \div 10
  BY <1>s, <1>6
<1>8. \A i \in 0..SLOTS : q[i] \in Nat
  <2> DEFINE S == {i \in 0..SLOTS : q[i] \in Nat}
  <2>1. 0 \in S
    BY <1>s, <1>7
  <2>2. ASSUME NEW i \in 0..(SLOTS - 1), i \in S
        PROVE  i + 1 \in S
    <3>1. i + 1 \in 1..SLOTS /\ (i + 1) - 1 = i
      BY <1>s
    <3>2. q[i + 1] = q[i] \div 10 /\ q[i] \in Nat
      BY <1>7, <2>2, <3>1
    <3> QED
      BY <3>1, <3>2
  <2> HIDE DEF S
  <2>3. \A i \in 0..SLOTS : i \in S
    BY <1>s, <2>1, <2>2, IntervalInduction
  <2> QED
    BY <2>3 DEF S
<1> QED
  BY <1>7, <1>8 DEF q

\* One division more.
LEMMA NextQuotient ==
  ASSUME NEW v \in Nat, NEW k \in 0..(SLOTS - 1)
  PROVE  /\ k + 1 \in 0..SLOTS /\ k \in 0..SLOTS
         /\ Quotients(v)[k] \in Nat /\ Quotients(v)[k + 1] \in Nat
         /\ Quotients(v)[k + 1] = Quotients(v)[k] \div 10
         /\ Quotients(v)[k] = 10 * Quotients(v)[k + 1] + (Quotients(v)[k] % 10)
         /\ TenTo[k + 1] = 10 * TenTo[k]
         /\ TenTo[k] \in Nat /\ TenTo[k + 1] \in Nat
<1>s. SLOTS \in Nat
  BY DEF SLOTS
<1>1. k + 1 \in 0..SLOTS /\ k \in 0..SLOTS /\ k + 1 \in 1..SLOTS /\ (k + 1) - 1 = k
  BY <1>s
<1>2. /\ Quotients(v)[k] \in Nat /\ Quotients(v)[k + 1] \in Nat
      /\ Quotients(v)[k + 1] = Quotients(v)[k] \div 10
  BY <1>1, QuotientsValues
<1>3. \A n \in Nat : n = 10 * (n \div 10) + (n % 10)
  OBVIOUS
<1>4. Quotients(v)[k] = 10 * Quotients(v)[k + 1] + (Quotients(v)[k] % 10)
  BY <1>2, <1>3
<1>5. TenTo[k + 1] = 10 * TenTo[k] /\ TenTo[k] \in Nat /\ TenTo[k + 1] \in Nat
  BY <1>1, TenToValues
<1> QED
  BY <1>1, <1>2, <1>4, <1>5

\* As long as nothing is left over, the quotient and the power of ten make up
\* the number.
LEMMA NothingLeftOver ==
  ASSUME NEW v \in Nat, NEW m \in 0..SLOTS,
         \A i \in 0..(m - 1) : Quotients(v)[i] % 10 = 0
  PROVE  v = Quotients(v)[m] * TenTo[m]
<1> DEFINE S == {k \in 0..m : v = Quotients(v)[k] * TenTo[k]}
<1>s. SLOTS \in Nat /\ m \in Nat /\ 0 \in 0..m /\ m \in 0..m
  BY DEF SLOTS
<1>1. 0 \in S
  BY <1>s, QuotientsValues, TenToValues
<1>2. ASSUME NEW k \in 0..(m - 1), k \in S
      PROVE  k + 1 \in S
  <2>1. k \in 0..(SLOTS - 1) /\ k + 1 \in 0..m
    BY <1>s
  <2> DEFINE a == Quotients(v)[k]
             b == Quotients(v)[k + 1]
             t == TenTo[k]
  <2>2. v = a * t
    BY <1>2
  <2>3. a \in Nat /\ b \in Nat /\ t \in Nat /\ a = 10 * b + (a % 10) /\ TenTo[k + 1] = 10 * t
    BY <2>1, NextQuotient
  <2>4. a % 10 = 0
    OBVIOUS
  <2> HIDE DEF a, b, t
  <2>5. a = 10 * b
    BY <2>3, <2>4
  <2>6. a * t = b * (10 * t)
    BY <2>3, <2>5
  <2>7. v = b * TenTo[k + 1]
    BY <2>2, <2>3, <2>6
  <2> QED
    BY <2>1, <2>7 DEF b
<1> HIDE DEF S
<1>3. \A k \in 0..m : k \in S
  BY <1>s, <1>1, <1>2, IntervalInduction
<1> QED
  BY <1>s, <1>3 DEF S

\* Of the smaller number less is left.
LEMMA QuotientsMonotone ==
  ASSUME NEW a \in Nat, NEW b \in Nat, a <= b, NEW m \in 0..SLOTS
  PROVE  Quotients(a)[m] <= Quotients(b)[m]
<1> DEFINE S == {k \in 0..SLOTS : Quotients(a)[k] <= Quotients(b)[k]}
<1>s. SLOTS \in Nat
  BY DEF SLOTS
<1>1. 0 \in S
  BY <1>s, QuotientsValues
<1>2. ASSUME NEW k \in 0..(SLOTS - 1), k \in S
      PROVE  k + 1 \in S
  <2>1. Quotients(a)[k] <= Quotients(b)[k]
    BY <1>2
  <2>2. /\ k + 1 \in 0..SLOTS /\ Quotients(a)[k] \in Nat /\ Quotients(b)[k] \in Nat
        /\ Quotients(a)[k + 1] = Quotients(a)[k] \div 10
        /\ Quotients(b)[k + 1] = Quotients(b)[k] \div 10
    BY NextQuotient
  <2>3. \A x, y \in Nat : x <= y => x \div 10 <= y \div 10
    OBVIOUS
  <2> QED
    BY <2>1, <2>2, <2>3
<1> HIDE DEF S
<1>3. \A k \in 0..SLOTS : k \in S
  BY <1>s, <1>1, <1>2, IntervalInduction
<1> QED
  BY <1>3 DEF S

-----------------------------------------------------------------------------
(* The whole part of an amount and its fraction. *)

WholePart(v) == v \div DIVISOR
Fraction(v) == v % DIVISOR

\* What makes up an amount.
LEMMA PartsOfAmount ==
  ASSUME NEW v \in Nat
  PROVE  /\ WholePart(v) \in Nat /\ Fraction(v) \in Nat
         /\ Fraction(v) < TenTo[DECIMAL_PLACES]
         /\ v = WholePart(v) * TenTo[DECIMAL_PLACES] + Fraction(v)
<1>1. DIVISOR \in Nat \ {0} /\ DIVISOR = TenTo[DECIMAL_PLACES]
  BY AmountAssumption, TenToValues DEF DIVISOR
<1>2. \A d \in Nat \ {0} : /\ v \div d \in Nat /\ v % d \in Nat /\ v % d < d
                           /\ v = (v \div d) * d + (v % d)
  OBVIOUS
<1> QED
  BY <1>1, <1>2 DEF WholePart, Fraction

\* Dividing an amount divides its two parts, and the fraction is used up when
\* the whole part is reached.
LEMMA SplitQuotient ==
  ASSUME NEW v \in Nat, NEW m \in 0..DECIMAL_PLACES
  PROVE  /\ Quotients(v)[m] = WholePart(v) * TenTo[DECIMAL_PLACES - m]
                              + Quotients(Fraction(v))[m]
         /\ Quotients(Fraction(v))[m] < TenTo[DECIMAL_PLACES - m]
<1> DEFINE D == DECIMAL_PLACES
           W == WholePart(v)
           F == Fraction(v)
           Splits(k) == /\ Quotients(v)[k] = W * TenTo[D - k] + Quotients(F)[k]
                        /\ Quotients(F)[k] < TenTo[D - k]
           S == {k \in 0..D : Splits(k)}
<1>s. SLOTS \in Nat /\ D \in 0..SLOTS /\ D \in Nat /\ W \in Nat /\ F \in Nat
  BY AmountAssumption, PartsOfAmount DEF SLOTS
<1> HIDE DEF W, F
<1>1. 0 \in S
  <2>1. Quotients(v)[0] = v /\ Quotients(F)[0] = F
    BY <1>s, QuotientsValues
  <2>2. v = W * TenTo[D] + F /\ F < TenTo[D] /\ D - 0 = D
    BY <1>s, PartsOfAmount DEF W, F
  <2> QED
    BY <1>s, <2>1, <2>2
<1>2. ASSUME NEW k \in 0..(D - 1), k \in S
      PROVE  k + 1 \in S
  <2> DEFINE t == TenTo[D - (k + 1)]
             x == Quotients(F)[k]
             y == Quotients(F)[k + 1]
  <2>1. k \in 0..(SLOTS - 1) /\ k + 1 \in 0..D /\ D - k = (D - (k + 1)) + 1
        /\ D - (k + 1) \in 0..(SLOTS - 1)
    BY <1>s
  <2>2. TenTo[D - k] = 10 * t /\ t \in Nat
    BY <2>1, NextQuotient, <1>s
  <2>3. x \in Nat /\ y = x \div 10
    BY <1>s, <2>1, NextQuotient
  <2>4. Quotients(v)[k + 1] = Quotients(v)[k] \div 10
    BY <2>1, NextQuotient
  <2>5. Quotients(v)[k] = W * TenTo[D - k] + x /\ x < TenTo[D - k]
    BY <1>2
  <2> HIDE DEF t, x, y
  <2>6. W * TenTo[D - k] = 10 * (W * t) /\ W * t \in Nat
    BY <1>s, <2>2
  <2>7. \A a, b \in Nat : (10 * a + b) \div 10 = a + (b \div 10)
    OBVIOUS
  <2>8. Quotients(v)[k + 1] = W * t + y
    BY <2>3, <2>4, <2>5, <2>6, <2>7
  <2>9. y < t
    BY <2>2, <2>3, <2>5
  <2> QED
    BY <2>1, <2>8, <2>9 DEF t, y
<1> HIDE DEF S
<1>3. \A k \in 0..D : k \in S
  BY <1>s, <1>1, <1>2, IntervalInduction
<1> QED
  BY <1>3 DEF S, W, F

\* The whole part is what is left after as many divisions as there are places.
LEMMA WholeIsQuotient ==
  ASSUME NEW v \in Nat
  PROVE  /\ Quotients(v)[DECIMAL_PLACES] = WholePart(v)
         /\ Quotients(Fraction(v))[DECIMAL_PLACES] = 0
<1>1. DECIMAL_PLACES \in 0..DECIMAL_PLACES /\ DECIMAL_PLACES - DECIMAL_PLACES = 0
      /\ DECIMAL_PLACES \in 0..SLOTS
  BY AmountAssumption
<1>2. TenTo[0] = 1
  BY TenToValues
<1>3. /\ Quotients(v)[DECIMAL_PLACES]
           = WholePart(v) * 1 + Quotients(Fraction(v))[DECIMAL_PLACES]
      /\ Quotients(Fraction(v))[DECIMAL_PLACES] < 1
  BY <1>1, <1>2, SplitQuotient
<1>4. WholePart(v) \in Nat /\ Quotients(Fraction(v))[DECIMAL_PLACES] \in Nat
  BY <1>1, PartsOfAmount, QuotientsValues
<1> QED
  BY <1>3, <1>4

\* The fraction's digits are digits of the amount.
LEMMA FractionDigits ==
  ASSUME NEW v \in Nat, NEW k \in 0..(DECIMAL_PLACES - 1)
  PROVE  Quotients(Fraction(v))[k] % 10 = Quotients(v)[k] % 10
<1> DEFINE W == WholePart(v)
           t == TenTo[DECIMAL_PLACES - (k + 1)]
           x == Quotients(Fraction(v))[k]
<1>1. /\ k \in 0..DECIMAL_PLACES /\ k \in 0..SLOTS
      /\ DECIMAL_PLACES - k = (DECIMAL_PLACES - (k + 1)) + 1
      /\ DECIMAL_PLACES - (k + 1) \in 0..(SLOTS - 1)
  BY AmountAssumption DEF SLOTS
<1>2. W \in Nat /\ x \in Nat
  BY <1>1, PartsOfAmount, QuotientsValues
<1>3. TenTo[DECIMAL_PLACES - k] = 10 * t /\ t \in Nat
  BY <1>1, NextQuotient, PartsOfAmount
<1>4. Quotients(v)[k] = W * TenTo[DECIMAL_PLACES - k] + x
  BY <1>1, SplitQuotient
<1> HIDE DEF W, t, x
<1>5. W * TenTo[DECIMAL_PLACES - k] = 10 * (W * t) /\ W * t \in Nat
  BY <1>2, <1>3
<1>6. \A a, b \in Nat : (10 * a + b) % 10 = b % 10
  OBVIOUS
<1>7. Quotients(v)[k] % 10 = x % 10
  BY <1>2, <1>4, <1>5, <1>6
<1> QED
  BY <1>7 DEF x

\* What is left of the whole part is what is left of the amount later on.
LEMMA WholeQuotients ==
  ASSUME NEW v \in Nat, NEW m \in 0..(SLOTS - DECIMAL_PLACES)
  PROVE  Quotients(WholePart(v))[m] = Quotients(v)[DECIMAL_PLACES + m]
<1> DEFINE D == DECIMAL_PLACES
           W == WholePart(v)
           S == {k \in 0..(SLOTS - D) : Quotients(W)[k] = Quotients(v)[D + k]}
<1>s. SLOTS \in Nat /\ D \in 0..SLOTS /\ D \in Nat /\ W \in Nat /\ SLOTS - D \in Nat
  BY AmountAssumption, PartsOfAmount DEF SLOTS
<1>1. 0 \in S
  <2>1. Quotients(W)[0] = W /\ Quotients(v)[D] = W /\ D + 0 = D
    BY <1>s, QuotientsValues, WholeIsQuotient
  <2> QED
    BY <1>s, <2>1
<1>2. ASSUME NEW k \in 0..((SLOTS - D) - 1), k \in S
      PROVE  k + 1 \in S
  <2>1. /\ k \in 0..(SLOTS - 1) /\ D + k \in 0..(SLOTS - 1)
        /\ k + 1 \in 0..(SLOTS - D) /\ D + (k + 1) = (D + k) + 1
    BY <1>s
  <2>2. Quotients(W)[k + 1] = Quotients(W)[k] \div 10
    BY <1>s, <2>1, NextQuotient
  <2>3. Quotients(v)[(D + k) + 1] = Quotients(v)[D + k] \div 10
    BY <2>1, NextQuotient
  <2>4. Quotients(W)[k] = Quotients(v)[D + k]
    BY <1>2
  <2> QED
    BY <2>1, <2>2, <2>3, <2>4
<1> HIDE DEF S
<1>3. \A k \in 0..(SLOTS - D) : k \in S
  BY <1>s, <1>1, <1>2, IntervalInduction
<1> QED
  BY <1>3 DEF S

\* A number that n divisions use up has from 1 to n digits.
LEMMA DigitCountValue ==
  ASSUME NEW v \in Nat \ {0}, NEW n \in 0..SLOTS, Quotients(v)[n] = 0
  PROVE  /\ DigitCount(v) \in 1..n
         /\ Quotients(v)[DigitCount(v)] = 0
         /\ \A i \in 0..(DigitCount(v) - 1) : Quotients(v)[i] # 0
<1> DEFINE IsCount(c) == /\ Quotients(v)[c] = 0
                         /\ \A i \in 0..(c - 1) : Quotients(v)[i] # 0
           S == {k \in 0..n : \A i \in 0..k : Quotients(v)[i] # 0}
<1>s. SLOTS \in Nat /\ n \in Nat
  BY DEF SLOTS
<1>1. Quotients(v)[0] # 0
  BY QuotientsValues
<1>2. \E c \in 0..SLOTS : IsCount(c)
  <2>1. SUFFICES ASSUME ~\E c \in 0..SLOTS : IsCount(c) PROVE FALSE
    OBVIOUS
  <2>2. 0 \in S
    BY <1>s, <1>1
  <2>3. ASSUME NEW k \in 0..(n - 1), k \in S
        PROVE  k + 1 \in S
    <3>1. k + 1 \in 0..SLOTS /\ (k + 1) - 1 = k /\ k + 1 \in 0..n
      BY <1>s
    <3>2. \A i \in 0..k : Quotients(v)[i] # 0
      BY <2>3
    <3>3. Quotients(v)[k + 1] # 0
      BY <2>1, <3>1, <3>2
    <3>4. \A i \in 0..(k + 1) : i \in 0..k \/ i = k + 1
      BY <3>1
    <3> QED
      BY <3>1, <3>2, <3>3, <3>4
  <2> HIDE DEF S
  <2>4. \A k \in 0..n : k \in S
    BY <1>s, <2>2, <2>3, IntervalInduction
  <2>5. n \in 0..n
    BY <1>s
  <2> QED
    BY <2>4, <2>5 DEF S
<1>3. DigitCount(v) \in 0..SLOTS /\ IsCount(DigitCount(v))
  BY <1>2 DEF DigitCount
<1> HIDE DEF S
<1>4. DigitCount(v) # 0
  BY <1>1, <1>3
<1>5. DigitCount(v) <= n
  <2>1. SUFFICES ASSUME n < DigitCount(v) PROVE FALSE
    BY <1>3, <1>s
  <2>2. n \in 0..(DigitCount(v) - 1)
    BY <1>3, <1>s, <2>1
  <2> QED
    BY <1>3, <2>2
<1> QED
  BY <1>s, <1>3, <1>4, <1>5

-----------------------------------------------------------------------------
(* Characters. *)

Figures == {Ascii(d) : d \in 0..9}

\* Each character of a number stands for one digit, and is no point.
LEMMA DigitOfFigure ==
  ASSUME NEW d \in 0..9
  PROVE  DigitOf(Ascii(d)) = d /\ Ascii(d) # "." /\ Ascii(d) \in Figures
<1>1. \A e \in 0..9 : Ascii(e) = Ascii(d) => e = d
  BY DEF Ascii
<1>2. Ascii(d) # "."
  BY DEF Ascii
<1>3. DigitOf(Ascii(d)) = d
  BY <1>1 DEF DigitOf
<1> QED
  BY <1>2, <1>3 DEF Figures

Places(text) ==
  IF \E i \in DOMAIN text : text[i] = "."
  THEN Len(text) - (CHOOSE i \in DOMAIN text : text[i] = ".") ELSE 0

\* How a text is read, character by character.
LEMMA ReadSteps ==
  ASSUME NEW text \in Seq(Figures \union {"."})
  PROVE  \E f \in [0..Len(text) -> Nat] :
           /\ f[0] = 0
           /\ \A i \in 1..Len(text) :
                f[i] = IF text[i] = "." THEN f[i - 1]
                       ELSE 10 * f[i - 1] + DigitOf(text[i])
           /\ \A places : Reads(text, places)
                            = f[Len(text)] * TenTo[places - Places(text)]
<1> DEFINE m == Len(text)
           Read(i, n) == IF text[i] = "." THEN n ELSE 10 * n + DigitOf(text[i])
           step == [p \in (1..m) \X Nat |-> Read(p[1], p[2])]
           value == CHOOSE g : g = [i \in 0..m |->
                      IF i = 0 THEN 0 ELSE IF text[i] = "." THEN g[i - 1]
                      ELSE 10 * g[i - 1] + DigitOf(text[i])]
<1>s. m \in Nat
  OBVIOUS
<1>1. \A i \in 1..m : \A n \in Nat : Read(i, n) \in Nat
  <2> SUFFICES ASSUME NEW i \in 1..m, NEW n \in Nat PROVE Read(i, n) \in Nat
    OBVIOUS
  <2>1. text[i] = "." \/ text[i] \in Figures
    OBVIOUS
  <2>2. text[i] \in Figures => DigitOf(text[i]) \in 0..9
    BY DigitOfFigure DEF Figures
  <2> QED
    BY <2>1, <2>2
<1> HIDE DEF m
<1>2. step \in [(1..m) \X Nat -> Nat]
  <2> HIDE DEF Read
  <2> QED
    BY <1>1
<1>3. PICK f \in [0..m -> Nat] : Iterates(f, m, 0, step)
  <2> HIDE DEF step
  <2> QED
    BY <1>s, <1>2, IterationExists
<1>4. \A i \in 1..m : f[i] = Read(i, f[i - 1])
  <2> SUFFICES ASSUME NEW i \in 1..m PROVE f[i] = Read(i, f[i - 1])
    OBVIOUS
  <2>1. <<i, f[i - 1]>> \in (1..m) \X Nat
    BY <1>s
  <2> HIDE DEF Read
  <2>2. step[<<i, f[i - 1]>>] = Read(i, f[i - 1])
    BY <2>1
  <2> HIDE DEF step
  <2> QED
    BY <1>s, <1>3, <2>2, NextValue
<1>5. f[0] = 0
  <2> HIDE DEF step
  <2> QED
    BY <1>s, <1>3, FirstValue
<1>6. f = [i \in 0..m |->
             IF i = 0 THEN 0 ELSE IF text[i] = "." THEN f[i - 1]
             ELSE 10 * f[i - 1] + DigitOf(text[i])]
  BY <1>s, <1>4, <1>5
<1>7. value = [i \in 0..m |->
                 IF i = 0 THEN 0 ELSE IF text[i] = "." THEN value[i - 1]
                 ELSE 10 * value[i - 1] + DigitOf(text[i])]
  BY <1>6
<1>8. \A places : Reads(text, places) = value[m] * TenTo[places - Places(text)]
  BY DEF Reads, Places, m
<1> HIDE DEF value
<1>9. /\ value[0] = 0
      /\ \A i \in 1..m : value[i] = Read(i, value[i - 1])
  BY <1>s, <1>7
<1>10. \A i \in 0..m : value[i] \in Nat
  <2> DEFINE S == {i \in 0..m : value[i] \in Nat}
  <2>1. 0 \in S
    BY <1>s, <1>9
  <2>2. ASSUME NEW i \in 0..(m - 1), i \in S
        PROVE  i + 1 \in S
    <3>1. i + 1 \in 1..m /\ (i + 1) - 1 = i /\ i + 1 \in 0..m
      BY <1>s
    <3>2. value[i + 1] = Read(i + 1, value[i]) /\ value[i] \in Nat
      BY <1>9, <2>2, <3>1
    <3> HIDE DEF Read
    <3> QED
      BY <1>1, <3>1, <3>2
  <2> HIDE DEF S
  <2>3. \A i \in 0..m : i \in S
    BY <1>s, <2>1, <2>2, IntervalInduction
  <2> QED
    BY <2>3 DEF S
<1>11. value \in [0..m -> Nat]
  BY <1>7, <1>10
<1> QED
  BY <1>8, <1>9, <1>11 DEF m

\* f, from start on, is the number read so far of last figures of v, the first
\* of them the one below count.
ReadsFigures(f, start, v, count, last) ==
  /\ f[start] = Quotients(v)[count]
  /\ \A i \in 1..last : f[start + i] = 10 * f[start + (i - 1)]
                                     + (Quotients(v)[count - i] % 10)

\* Reading the figures of a number, from one of them to a later one, restores
\* what the divisions had taken apart.
LEMMA ReadRestores ==
  ASSUME NEW v \in Nat, NEW count \in 0..SLOTS, NEW last \in 0..count,
         NEW f, NEW start \in Nat, ReadsFigures(f, start, v, count, last)
  PROVE  f[start + last] = Quotients(v)[count - last]
<1> DEFINE S == {i \in 0..last : f[start + i] = Quotients(v)[count - i]}
<1>s. SLOTS \in Nat /\ last \in Nat /\ count \in Nat /\ last \in 0..last
  BY DEF SLOTS
<1>r. /\ f[start] = Quotients(v)[count]
      /\ \A i \in 1..last : f[start + i] = 10 * f[start + (i - 1)]
                                         + (Quotients(v)[count - i] % 10)
  BY DEF ReadsFigures
<1>1. 0 \in S
  BY <1>s, <1>r
<1>2. ASSUME NEW i \in 0..(last - 1), i \in S
      PROVE  i + 1 \in S
  <2>1. /\ i + 1 \in 1..last /\ i + 1 \in 0..last /\ (i + 1) - 1 = i
        /\ count - i = (count - (i + 1)) + 1 /\ count - (i + 1) \in 0..(SLOTS - 1)
    BY <1>s
  <2>2. f[start + (i + 1)] = 10 * f[start + i] + (Quotients(v)[count - (i + 1)] % 10)
    BY <2>1, <1>r
  <2>3. f[start + i] = Quotients(v)[count - i]
    BY <1>2
  <2>4. Quotients(v)[count - (i + 1)]
          = 10 * Quotients(v)[(count - (i + 1)) + 1] + (Quotients(v)[count - (i + 1)] % 10)
    BY <2>1, NextQuotient
  <2>5. f[start + (i + 1)] = Quotients(v)[count - (i + 1)]
    BY <2>1, <2>2, <2>3, <2>4
  <2> QED
    BY <2>1, <2>5
<1> HIDE DEF S
<1>3. \A i \in 0..last : i \in S
  BY <1>s, <1>1, <1>2, IntervalInduction
<1> QED
  BY <1>s, <1>3 DEF S

\* The figures of a number.
LEMMA SlotsText ==
  ASSUME NEW v \in Nat, NEW count \in 0..SLOTS
  PROVE  /\ Slots(v, count) \in Seq(Figures) /\ Len(Slots(v, count)) = count
         /\ \A i \in 1..count :
              /\ Slots(v, count)[i] = Ascii(Quotients(v)[count - i] % 10)
              /\ Slots(v, count)[i] # "."
              /\ DigitOf(Slots(v, count)[i]) = Quotients(v)[count - i] % 10
<1>s. SLOTS \in Nat /\ count \in Nat
  BY DEF SLOTS
<1>1. \A i \in 1..count : Quotients(v)[count - i] % 10 \in 0..9
  <2> SUFFICES ASSUME NEW i \in 1..count PROVE Quotients(v)[count - i] % 10 \in 0..9
    OBVIOUS
  <2>1. count - i \in 0..SLOTS
    BY <1>s
  <2>2. Quotients(v)[count - i] \in Nat
    BY <2>1, QuotientsValues
  <2> QED
    BY <2>2
<1>2. \A i \in 1..count : Ascii(Quotients(v)[count - i] % 10) \in Figures
  BY <1>1, DigitOfFigure
<1>3. Slots(v, count) \in Seq(Figures) /\ Len(Slots(v, count)) = count
  BY <1>s, <1>2 DEF Slots
<1>4. \A i \in 1..count : Slots(v, count)[i] = Ascii(Quotients(v)[count - i] % 10)
  BY DEF Slots
<1> QED
  BY <1>1, <1>3, <1>4, DigitOfFigure

-----------------------------------------------------------------------------
(* The text of an amount. *)

WholeText(w) == IF w = 0 THEN <<"0">> ELSE Slots(w, DigitCount(w))

\* The text of a whole number has no more figures than divisions use it up, and
\* reads as the number.
LEMMA WholeTextReads ==
  ASSUME NEW w \in Nat, NEW n \in 1..SLOTS, Quotients(w)[n] = 0
  PROVE  /\ WholeText(w) \in Seq(Figures) /\ Len(WholeText(w)) \in 1..n
         /\ \A i \in 1..Len(WholeText(w)) : WholeText(w)[i] # "."
         /\ \A f : /\ f[0] = 0
                   /\ \A i \in 1..Len(WholeText(w)) :
                        f[i] = 10 * f[i - 1] + DigitOf(WholeText(w)[i])
                   => f[Len(WholeText(w))] = w
<1>s. SLOTS \in Nat /\ n \in Nat /\ n \in 0..SLOTS
  BY DEF SLOTS
<1>1. CASE w = 0
  <2>1. WholeText(w) = <<"0">> /\ Ascii(0) = "0"
    BY <1>1 DEF WholeText, Ascii
  <2>2. "0" \in Figures /\ DigitOf("0") = 0
    BY <2>1, DigitOfFigure
  <2>3. <<"0">> \in Seq(Figures) /\ Len(<<"0">>) = 1 /\ <<"0">>[1] = "0"
    BY <2>2
  <2>4. ASSUME NEW f, f[0] = 0, f[1] = 10 * f[1 - 1] + DigitOf(<<"0">>[1])
        PROVE  f[1] = 0
    BY <2>2, <2>3, <2>4
  <2>5. Len(WholeText(w)) = 1 /\ 1 \in 1..n /\ 1..1 = {1}
    BY <1>s, <2>1, <2>3
  <2>6. \A f : f[0] = 0 /\ (\A i \in 1..1 : f[i] = 10 * f[i - 1] + DigitOf(<<"0">>[i]))
              => f[1] = w
    BY <1>1, <2>4, <2>5
  <2>7. "0" # "."
    OBVIOUS
  <2> QED
    BY <2>1, <2>3, <2>5, <2>6, <2>7
<1>2. CASE w # 0
  <2> DEFINE c == DigitCount(w)
             t == Slots(w, c)
  <2>1. WholeText(w) = t
    BY <1>2 DEF WholeText
  <2>2. c \in 1..n /\ Quotients(w)[c] = 0
    BY <1>2, <1>s, DigitCountValue
  <2>3. c \in 0..SLOTS
    BY <1>s, <2>2
  <2> HIDE DEF c
  <2>4. /\ t \in Seq(Figures) /\ Len(t) = c
        /\ \A i \in 1..c : t[i] # "." /\ DigitOf(t[i]) = Quotients(w)[c - i] % 10
    BY <2>3, SlotsText
  <2> HIDE DEF t
  <2>5. ASSUME NEW f, f[0] = 0, \A i \in 1..c : f[i] = 10 * f[i - 1] + DigitOf(t[i])
        PROVE  f[c] = w
    <3> HIDE DEF t
    <3>1. f[0] = Quotients(w)[c]
      BY <2>2, <2>5
    <3>2. \A i \in 1..c : f[0 + i] = 10 * f[0 + (i - 1)] + (Quotients(w)[c - i] % 10)
      BY <2>4, <2>5
    <3>3. c \in 0..c /\ c - c = 0 /\ 0 + c = c /\ 0 \in Nat
      BY <2>3, <1>s
    <3>r. ReadsFigures(f, 0, w, c, c)
      BY <3>1, <3>2 DEF ReadsFigures
    <3>4. f[0 + c] = Quotients(w)[c - c]
      BY <2>3, <3>r, <3>3, ReadRestores
    <3> QED
      BY <3>3, <3>4, QuotientsValues
  <2>6. \A f : f[0] = 0 /\ (\A i \in 1..c : f[i] = 10 * f[i - 1] + DigitOf(t[i]))
              => f[c] = w
    BY <2>5
  <2>7. Len(WholeText(w)) = c
    BY <2>1, <2>4
  <2> QED
    BY <2>1, <2>2, <2>4, <2>6, <2>7
<1> QED
  BY <1>1, <1>2

LastFigure(text) == SelectLastInSeq(text, LAMBDA ch : ch # "0")

\* The last character of a text that is not a zero, if there is one.
LEMMA LastFigureValue ==
  ASSUME NEW text, Len(text) \in Nat
  PROVE  /\ LastFigure(text) \in 0..Len(text)
         /\ LastFigure(text) # 0 => text[LastFigure(text)] # "0"
         /\ \A i \in 1..Len(text) : i > LastFigure(text) => text[i] = "0"
<1> DEFINE m == Len(text)
           I == {i \in 1..m : text[i] # "0"}
<1>1. LastFigure(text) = IF I # {} THEN Max(I) ELSE 0
  BY DEF LastFigure, SelectLastInSeq
<1>2. CASE I = {}
  BY <1>1, <1>2
<1>3. CASE I # {}
  <2> DEFINE S == {k \in 0..m : \A i \in (m - k + 1)..m : i \notin I}
  <2>1. \E x \in I : \A y \in I : x >= y
    <3>1. SUFFICES ASSUME ~\E x \in I : \A y \in I : x >= y PROVE FALSE
      OBVIOUS
    <3>2. 0 \in S
      BY SMTT(40)
    <3>3. ASSUME NEW k \in 0..(m - 1), k \in S
          PROVE  k + 1 \in S
      <4>1. /\ k \in Nat /\ m \in Nat /\ k < m /\ k + 1 \in 0..m /\ m - (k + 1) + 1 = m - k /\ m - k \in 1..m
            /\ \A i \in (m - k)..m : i = m - k \/ i \in (m - k + 1)..m
        OBVIOUS
      <4>2. \A y \in I : y \in 1..m /\ (y > m - k => y \in (m - k + 1)..m)
        OBVIOUS
      <4>3. \A i \in (m - k + 1)..m : i \notin I
        BY <3>3
      <4> HIDE DEF I
      <4>4. ASSUME NEW y \in I
            PROVE  m - k >= y
        <5> HIDE DEF m
        <5>1. y \in Int /\ y \in 1..m /\ y \notin (m - k + 1)..m
          BY <4>2, <4>3
        <5>2. ~(y > m - k)
          BY <4>2, <5>1
        <5> QED
          BY <4>1, <5>1, <5>2
      <4>5. m - k \notin I
        BY <3>1, <4>4
      <4> QED
        BY <4>1, <4>3, <4>5
    <3> HIDE DEF S
    <3>4. \A k \in 0..m : k \in S
      BY <3>2, <3>3, IntervalInduction
    <3>5. m \in S /\ m - m + 1 = 1
      BY <3>4
    <3>6. \A i \in 1..m : i \notin I
      BY <3>5 DEF S
    <3> QED
      BY <1>3, <3>6
  <2>2. Max(I) \in I /\ \A y \in I : Max(I) >= y
    BY <2>1 DEF Max
  <2>3. \A i \in 1..m : i > Max(I) => text[i] = "0"
    BY <2>2
  <2> QED
    BY <1>1, <1>3, <2>2, <2>3
<1> QED
  BY <1>2, <1>3

FractionText(x) ==
  SubSeq(Slots(x, DECIMAL_PLACES), 1, LastFigure(Slots(x, DECIMAL_PLACES)))

\* The text of a fraction that is not zero: its figures are figures of the
\* amount, it does not end in a zero, and what it leaves out adds nothing.
LEMMA FractionTextReads ==
  ASSUME NEW v \in Nat, Fraction(v) # 0
  PROVE  \E last \in 1..DECIMAL_PLACES :
           /\ FractionText(Fraction(v)) \in Seq(Figures)
           /\ Len(FractionText(Fraction(v))) = last
           /\ \A i \in 1..last :
                /\ FractionText(Fraction(v))[i] # "."
                /\ DigitOf(FractionText(Fraction(v))[i])
                     = Quotients(v)[DECIMAL_PLACES - i] % 10
           /\ FractionText(Fraction(v))[last] # "0"
           /\ v = Quotients(v)[DECIMAL_PLACES - last] * TenTo[DECIMAL_PLACES - last]
<1> DEFINE D == DECIMAL_PLACES
           x == Fraction(v)
           s == Slots(x, D)
           last == LastFigure(s)
<1>s. D \in 0..SLOTS /\ D \in Nat /\ SLOTS \in Nat /\ x \in Nat
  BY AmountAssumption, PartsOfAmount DEF SLOTS
<1> HIDE DEF x
<1>1. /\ s \in Seq(Figures) /\ Len(s) = D
      /\ \A i \in 1..D : s[i] # "." /\ DigitOf(s[i]) = Quotients(x)[D - i] % 10
  BY <1>s, SlotsText
<1> HIDE DEF s
<1>2. /\ last \in 0..D
      /\ last # 0 => s[last] # "0"
      /\ \A i \in 1..D : i > last => s[i] = "0"
  BY <1>s, <1>1, LastFigureValue
<1> HIDE DEF last
<1>3. DigitOf("0") = 0
  <2>1. Ascii(0) = "0"
    BY DEF Ascii
  <2> QED
    BY <2>1, DigitOfFigure
<1>4. \A k \in 0..((D - last) - 1) : Quotients(x)[k] % 10 = 0
  <2> SUFFICES ASSUME NEW k \in 0..((D - last) - 1) PROVE Quotients(x)[k] % 10 = 0
    OBVIOUS
  <2>1. D - k \in 1..D /\ D - k > last /\ D - (D - k) = k
    BY <1>s, <1>2
  <2> QED
    BY <1>1, <1>2, <1>3, <2>1
<1>5. \A k \in 0..(D - 1) : Quotients(x)[k] % 10 = Quotients(v)[k] % 10
  BY FractionDigits DEF x
<1>6. last # 0
  <2>1. SUFFICES ASSUME last = 0 PROVE FALSE
    OBVIOUS
  <2>2. \A k \in 0..(D - 1) : Quotients(x)[k] % 10 = 0
    BY <1>4, <2>1, <1>s
  <2>3. x = Quotients(x)[D] * TenTo[D]
    BY <1>s, <2>2, NothingLeftOver
  <2>4. Quotients(x)[D] = 0
    BY WholeIsQuotient DEF x
  <2>5. TenTo[D] \in Nat
    BY <1>s, TenToValues
  <2>6. x = 0
    BY <2>3, <2>4, <2>5
  <2> QED
    BY <2>6 DEF x
<1>7. last \in 1..D
  BY <1>2, <1>6
<1>8. v = Quotients(v)[D - last] * TenTo[D - last]
  <2>1. D - last \in 0..SLOTS
    BY <1>s, <1>7
  <2>2. \A k \in 0..((D - last) - 1) : Quotients(v)[k] % 10 = 0
    BY <1>4, <1>5, <1>7, <1>s
  <2> QED
    BY <2>1, <2>2, NothingLeftOver
<1>9. FractionText(x) = SubSeq(s, 1, last)
  BY DEF FractionText, s, last
<1>10. /\ SubSeq(s, 1, last) \in Seq(Figures) /\ Len(SubSeq(s, 1, last)) = last
       /\ \A i \in 1..last : SubSeq(s, 1, last)[i] = s[i]
  BY <1>1, <1>7
<1>11. ASSUME NEW i \in 1..last
       PROVE  s[i] # "." /\ DigitOf(s[i]) = Quotients(v)[D - i] % 10
  <2>1. i \in 1..D /\ D - i \in 0..(D - 1)
    BY <1>7, <1>s
  <2> QED
    BY <1>1, <1>5, <2>1
<1>12. s[last] # "0" /\ last \in 1..last
  BY <1>2, <1>6, <1>7
<1> HIDE DEF D
<1> QED
  BY <1>7, <1>8, <1>9, <1>10, <1>11, <1>12 DEF x, D

AmountNumber(v) ==
  IF Fraction(v) = 0 THEN WholeText(WholePart(v))
  ELSE WholeText(WholePart(v)) \o <<".">> \o FractionText(Fraction(v))

\* The whole part has no more figures than the assumption has room for.
LEMMA WholeOfAmount ==
  ASSUME NEW v \in Nat, NEW n \in 1..(SLOTS - DECIMAL_PLACES),
         Quotients(v)[DECIMAL_PLACES + n] = 0
  PROVE  /\ WholePart(v) \in Nat /\ n \in 1..SLOTS
         /\ Quotients(WholePart(v))[n] = 0
<1>1. n \in 0..(SLOTS - DECIMAL_PLACES) /\ n \in 1..SLOTS
  BY AmountAssumption DEF SLOTS
<1> QED
  BY <1>1, PartsOfAmount, WholeQuotients

\* A number without a point.
LEMMA PlainNumberReads ==
  ASSUME NEW v \in Nat, Fraction(v) = 0, NEW n \in 1..(SLOTS - DECIMAL_PLACES),
         Quotients(v)[DECIMAL_PLACES + n] = 0
  PROVE  /\ AmountNumber(v) \in Seq(Figures) /\ Len(AmountNumber(v)) \in 1..n
         /\ Reads(AmountNumber(v), DECIMAL_PLACES) = v
         /\ IsShort(AmountNumber(v))
<1> DEFINE w == WholePart(v)
           t == WholeText(w)
<1>1. AmountNumber(v) = t
  BY DEF AmountNumber
<1>2. w \in Nat /\ n \in 1..SLOTS /\ Quotients(w)[n] = 0
  BY WholeOfAmount
<1> HIDE DEF w
<1>3. /\ t \in Seq(Figures) /\ Len(t) \in 1..n
      /\ \A i \in 1..Len(t) : t[i] # "."
  BY <1>2, WholeTextReads
<1>4. \A f : f[0] = 0 /\ (\A i \in 1..Len(t) : f[i] = 10 * f[i - 1] + DigitOf(t[i]))
        => f[Len(t)] = w
  BY <1>2, WholeTextReads
<1> HIDE DEF t
<1>5. Places(t) = 0 /\ IsShort(t)
  BY <1>3 DEF Places, IsShort
<1>6. t \in Seq(Figures \union {"."})
  BY <1>3
<1>7. PICK f \in [0..Len(t) -> Nat] :
        /\ f[0] = 0
        /\ \A i \in 1..Len(t) : f[i] = IF t[i] = "." THEN f[i - 1]
                                       ELSE 10 * f[i - 1] + DigitOf(t[i])
        /\ \A places : Reads(t, places) = f[Len(t)] * TenTo[places - Places(t)]
  BY <1>6, ReadSteps
<1>8. f[Len(t)] = w
  BY <1>3, <1>4, <1>7
<1>9. Reads(t, DECIMAL_PLACES) = w * TenTo[DECIMAL_PLACES]
  <2>1. DECIMAL_PLACES - 0 = DECIMAL_PLACES
    BY AmountAssumption
  <2> QED
    BY <1>5, <1>7, <1>8, <2>1
<1>10. v = w * TenTo[DECIMAL_PLACES]
  <2>1. v = w * TenTo[DECIMAL_PLACES] + 0
    BY PartsOfAmount DEF w
  <2>2. w * TenTo[DECIMAL_PLACES] \in Nat
    BY <1>2, AmountAssumption, TenToValues
  <2> QED
    BY <2>1, <2>2
<1> QED
  BY <1>1, <1>3, <1>5, <1>9, <1>10

\* A number with a point.
LEMMA PointedNumberReads ==
  ASSUME NEW v \in Nat, Fraction(v) # 0, NEW n \in 1..(SLOTS - DECIMAL_PLACES),
         Quotients(v)[DECIMAL_PLACES + n] = 0
  PROVE  /\ WholeText(WholePart(v)) \in Seq(Figures)
         /\ FractionText(Fraction(v)) \in Seq(Figures)
         /\ Len(WholeText(WholePart(v))) \in 1..n
         /\ Len(FractionText(Fraction(v))) \in 1..DECIMAL_PLACES
         /\ Reads(AmountNumber(v), DECIMAL_PLACES) = v
         /\ IsShort(AmountNumber(v))
<1> DEFINE D == DECIMAL_PLACES
           w == WholePart(v)
           u == WholeText(w)
           z == FractionText(Fraction(v))
           t == u \o <<".">> \o z
           L == Len(u)
<1>s. D \in 0..SLOTS /\ D \in Nat /\ SLOTS \in Nat
  BY AmountAssumption DEF SLOTS
<1>1. AmountNumber(v) = t
  BY DEF AmountNumber
<1>2. w \in Nat /\ n \in 1..SLOTS /\ Quotients(w)[n] = 0
  BY WholeOfAmount
<1>w. Quotients(v)[D] = w
  BY WholeIsQuotient
<1> HIDE DEF w
<1>3. /\ u \in Seq(Figures) /\ L \in 1..n
      /\ \A i \in 1..L : u[i] # "."
  BY <1>2, WholeTextReads
<1>4. \A f : f[0] = 0 /\ (\A i \in 1..L : f[i] = 10 * f[i - 1] + DigitOf(u[i]))
        => f[L] = w
  BY <1>2, WholeTextReads
<1>5. PICK last \in 1..D :
        /\ z \in Seq(Figures) /\ Len(z) = last
        /\ \A i \in 1..last : z[i] # "." /\ DigitOf(z[i]) = Quotients(v)[D - i] % 10
        /\ z[last] # "0"
        /\ v = Quotients(v)[D - last] * TenTo[D - last]
  BY FractionTextReads
<1> HIDE DEF u, z
<1>6. /\ t \in Seq(Figures \union {"."})
      /\ Len(t) = L + 1 + last
  BY <1>3, <1>5
<1>7. L \in Nat /\ last \in Nat
  BY <1>3, <1>5, <1>s
<1>8. \A i \in 1..L : t[i] = u[i]
  BY <1>3, <1>5
<1>9. t[L + 1] = "."
  BY <1>3, <1>5
<1>10. \A i \in 1..last : t[(L + 1) + i] = z[i]
  BY <1>3, <1>5
<1> HIDE DEF t, D, L
<1>11. DOMAIN t = 1..(L + 1 + last)
  BY <1>6
<1>12. \A i \in DOMAIN t : t[i] = "." <=> i = L + 1
  <2> SUFFICES ASSUME NEW i \in DOMAIN t, i # L + 1 PROVE t[i] # "."
    BY <1>9
  <2>1. CASE i \in 1..L
    BY <1>3, <1>8, <2>1
  <2>2. CASE i \notin 1..L
    <3>1. i - (L + 1) \in 1..last /\ (L + 1) + (i - (L + 1)) = i
      BY <1>7, <1>11, <2>2
    <3> QED
      BY <1>5, <1>10, <3>1
  <2> QED
    BY <2>1, <2>2
<1>13. L + 1 \in DOMAIN t /\ (L + 1 + last) - (L + 1) = last
  BY <1>7, <1>11, <1>5
<1>14. Places(t) = last
  <2>1. (CHOOSE i \in DOMAIN t : t[i] = ".") = L + 1
    BY <1>12, <1>13
  <2> QED
    BY <1>6, <1>12, <1>13, <2>1 DEF Places
<1>15. IsShort(t)
  <2>1. Len(t) > L + 1
    BY <1>5, <1>6, <1>7
  <2>2. last \in 1..last /\ (L + 1) + last = L + 1 + last
    BY <1>5, <1>7
  <2>3. t[Len(t)] = z[last]
    BY <1>6, <1>10, <2>2
  <2>4. Last(t) # "0"
    BY <1>5, <2>3 DEF Last
  <2> QED
    BY <1>12, <2>1, <2>4 DEF IsShort
<1>16. PICK f \in [0..Len(t) -> Nat] :
        /\ f[0] = 0
        /\ \A i \in 1..Len(t) : f[i] = IF t[i] = "." THEN f[i - 1]
                                       ELSE 10 * f[i - 1] + DigitOf(t[i])
        /\ \A places : Reads(t, places) = f[Len(t)] * TenTo[places - Places(t)]
  BY <1>6, ReadSteps
<1>17. f[L] = w
  <2>1. \A i \in 1..L : f[i] = 10 * f[i - 1] + DigitOf(u[i])
    <3> SUFFICES ASSUME NEW i \in 1..L PROVE f[i] = 10 * f[i - 1] + DigitOf(u[i])
      OBVIOUS
    <3>1. i \in 1..Len(t)
      BY <1>6, <1>7
    <3>2. t[i] = u[i] /\ u[i] # "."
      BY <1>3, <1>8 DEF L
    <3> QED
      BY <1>16, <3>1, <3>2
  <2> QED
    BY <1>4, <1>16, <2>1
<1>18. f[L + 1] = Quotients(v)[D]
  <2>1. L + 1 \in 1..Len(t) /\ (L + 1) - 1 = L
    BY <1>6, <1>7
  <2> QED
    BY <1>9, <1>16, <1>17, <1>w, <2>1
<1>19. \A i \in 1..last : f[(L + 1) + i] = 10 * f[(L + 1) + (i - 1)]
                                          + (Quotients(v)[D - i] % 10)
  <2> SUFFICES ASSUME NEW i \in 1..last
               PROVE  f[(L + 1) + i] = 10 * f[(L + 1) + (i - 1)]
                                       + (Quotients(v)[D - i] % 10)
    OBVIOUS
  <2>1. (L + 1) + i \in 1..Len(t) /\ ((L + 1) + i) - 1 = (L + 1) + (i - 1)
    BY <1>6, <1>7
  <2>2. t[(L + 1) + i] = z[i] /\ z[i] # "." /\ DigitOf(z[i]) = Quotients(v)[D - i] % 10
    BY <1>5, <1>10
  <2>3. f[(L + 1) + i] = 10 * f[((L + 1) + i) - 1] + DigitOf(z[i])
    BY <1>16, <2>1, <2>2
  <2> QED
    BY <2>1, <2>2, <2>3
<1>20. f[(L + 1) + last] = Quotients(v)[D - last]
  <2>1. last \in 0..D
    BY <1>5, <1>7
  <2>2. L + 1 \in Nat
    BY <1>7
  <2>3. ReadsFigures(f, L + 1, v, D, last)
    BY <1>18, <1>19 DEF ReadsFigures
  <2> QED
    BY <1>s, <2>1, <2>2, <2>3, ReadRestores
<1>21. Reads(t, D) = v
  <2>1. (L + 1) + last = Len(t)
    BY <1>6, <1>7
  <2> QED
    BY <1>5, <1>14, <1>16, <1>20, <2>1
<1>22. Len(u) \in 1..n /\ Len(z) \in 1..D
  BY <1>3, <1>5 DEF L
<1> QED
  BY <1>1, <1>3, <1>5, <1>15, <1>21, <1>22 DEF u, z, w, D

-----------------------------------------------------------------------------
(* Writing it into the buffer. *)

\* What an amount is written with.
Letters == Figures \union {".", " ", "X", "L", "M"}

\* What fits is written.
LEMMA WriteFits ==
  ASSUME NEW S, NEW s \in Seq(S), NEW bytes \in Seq(S),
         Len(s) + Len(bytes) <= BUFFER_SIZE
  PROVE  /\ WriteBytes([written |-> s, ok |-> TRUE], bytes)
              = [written |-> s \o bytes, ok |-> TRUE]
         /\ s \o bytes \in Seq(S) /\ Len(s \o bytes) = Len(s) + Len(bytes)
<1> DEFINE w == [written |-> s, ok |-> TRUE]
<1>1. w.ok /\ w.written = s
  OBVIOUS
<1> HIDE DEF w
<1>2. WriteBytes(w, bytes) = [written |-> s \o bytes, ok |-> TRUE]
  BY <1>1 DEF WriteBytes
<1> QED
  BY <1>2 DEF w

\* The text Exchange shows for an amount that an account can hold fits the
\* buffer, denotes the amount, and has no zeros that say nothing.
LEMMA AmountText ==
  ASSUME NEW v \in Nat, v <= I64_MAX
  PROVE  /\ FormatPrintableAmount(v).ok
         /\ FormatPrintableAmount(v).written
              = AmountNumber(v) \o <<" ", "X", "L", "M">>
         /\ AmountNumber(v) \in Seq(Figures \union {"."})
         /\ Reads(AmountNumber(v), DECIMAL_PLACES) = v
         /\ IsShort(AmountNumber(v))
<1> DEFINE unit == <<" ", "X", "L", "M">>
           u == WholeText(WholePart(v))
           z == FractionText(Fraction(v))
<1>1. PICK n \in 1..(SLOTS - DECIMAL_PLACES) :
        /\ Quotients(I64_MAX)[DECIMAL_PLACES + n] = 0
        /\ n + 1 + DECIMAL_PLACES + 4 <= BUFFER_SIZE
  BY BufferAssumption
<1>2. Quotients(v)[DECIMAL_PLACES + n] = 0
  <2>1. DECIMAL_PLACES + n \in 0..SLOTS
    BY AmountAssumption DEF SLOTS
  <2>2. Quotients(v)[DECIMAL_PLACES + n] <= Quotients(I64_MAX)[DECIMAL_PLACES + n]
    BY <2>1, AmountAssumption, QuotientsMonotone
  <2>3. Quotients(v)[DECIMAL_PLACES + n] \in Nat
    BY <2>1, QuotientsValues
  <2> QED
    BY <1>1, <2>2, <2>3
<1>3. FormatPrintableAmount(v) = WriteBytes(FormatXlmAmount(NewWriter, v), unit)
  <2>1. ~ (v > I64_MAX)
    BY AmountAssumption
  <2> QED
    BY <2>1 DEF FormatPrintableAmount
<1>4. NewWriter = [written |-> << >>, ok |-> TRUE]
  BY DEF NewWriter
<1>5. DECIMAL_PLACES \in Nat /\ n \in Nat /\ BUFFER_SIZE \in Nat
  BY AmountAssumption DEF SLOTS
<1>e. << >> \in Seq(Letters) /\ Len(<< >>) = 0 /\ unit \in Seq(Letters) /\ Len(unit) = 4
      /\ <<".">> \in Seq(Letters) /\ Len(<<".">>) = 1
  BY DEF Letters
<1> HIDE DEF unit
<1>6. CASE Fraction(v) = 0
  <2>1. /\ AmountNumber(v) = u /\ u \in Seq(Figures) /\ Len(u) \in 1..n
        /\ Reads(u, DECIMAL_PLACES) = v /\ IsShort(u)
    BY <1>2, <1>6, PlainNumberReads DEF AmountNumber
  <2>2. FormatXlmAmount(NewWriter, v) = WriteBytes(NewWriter, u)
    <3>1. CASE v = 0
      <4>1. WholePart(v) = 0
        <5>1. DIVISOR \in Nat \ {0}
          BY AmountAssumption, TenToValues DEF DIVISOR
        <5> QED
          BY <3>1, <5>1 DEF WholePart
      <4> QED
        BY <3>1, <4>1 DEF FormatXlmAmount, WholeText
    <3>2. CASE v # 0
      BY <1>6, <3>2 DEF FormatXlmAmount, WriteInteger, WholeText, WholePart, Fraction
    <3> QED
      BY <3>1, <3>2
  <2> HIDE DEF u
  <2>3. u \in Seq(Letters) /\ u \in Seq(Figures \union {"."})
    <3>1. Figures \subseteq Letters /\ Figures \subseteq Figures \union {"."}
      BY DEF Letters
    <3> QED
      BY <2>1, <3>1, SeqMonotonic
  <2>u. << >> \o u = u
    BY <2>1
  <2>4. WriteBytes(NewWriter, u) = [written |-> u, ok |-> TRUE]
    <3>1. Len(<< >>) + Len(u) <= BUFFER_SIZE
      BY <1>1, <1>5, <1>e, <2>1
    <3>2. WriteBytes(NewWriter, u) = [written |-> << >> \o u, ok |-> TRUE]
      BY <1>4, <1>e, <2>3, <3>1, WriteFits
    <3> QED
      BY <2>u, <3>2
  <2>5. WriteBytes([written |-> u, ok |-> TRUE], unit)
          = [written |-> u \o unit, ok |-> TRUE]
    <3>1. Len(u) + Len(unit) <= BUFFER_SIZE
      BY <1>1, <1>5, <1>e, <2>1
    <3> QED
      BY <1>e, <2>3, <3>1, WriteFits
  <2>6. FormatPrintableAmount(v) = [written |-> u \o unit, ok |-> TRUE]
    BY <1>3, <2>2, <2>4, <2>5
  <2>7. FormatPrintableAmount(v).ok /\ FormatPrintableAmount(v).written = u \o unit
    BY <2>6
  <2> QED
    BY <2>1, <2>3, <2>7 DEF unit
<1>7. CASE Fraction(v) # 0
  <2> DEFINE D == DECIMAL_PLACES
  <2>1. /\ AmountNumber(v) = u \o <<".">> \o z
        /\ u \in Seq(Figures) /\ z \in Seq(Figures)
        /\ Len(u) \in 1..n /\ Len(z) \in 1..D
        /\ Reads(AmountNumber(v), D) = v /\ IsShort(AmountNumber(v))
    BY <1>2, <1>7, PointedNumberReads DEF AmountNumber
  <2>2. v # 0
    <3>1. DIVISOR \in Nat \ {0}
      BY AmountAssumption, TenToValues DEF DIVISOR
    <3>2. v = 0 => v % DIVISOR = 0
      BY <3>1
    <3> QED
      BY <1>7, <3>2 DEF Fraction
  <2>3. FormatXlmAmount(NewWriter, v)
          = WriteBytes(WriteBytes(WriteBytes(NewWriter, u), <<".">>), z)
    BY <1>7, <2>2 DEF FormatXlmAmount, WriteInteger, WriteDecimalDigits, WholeText,
                      FractionText, LastFigure, WholePart, Fraction
  <2> HIDE DEF u, z
  <2>u. << >> \o u = u
    BY <2>1
  <2>4. /\ u \in Seq(Letters) /\ z \in Seq(Letters)
        /\ Len(u) \in Nat /\ Len(z) \in Nat
        /\ Len(u) + 1 + Len(z) + 4 <= BUFFER_SIZE
    <3>1. Len(u) <= n /\ Len(z) <= D /\ Len(u) \in Nat /\ Len(z) \in Nat
      BY <1>5, <2>1
    <3>2. Len(u) + 1 + Len(z) + 4 <= BUFFER_SIZE
      BY <1>1, <1>5, <3>1
    <3>3. Figures \subseteq Letters
      BY DEF Letters
    <3> QED
      BY <2>1, <3>1, <3>2, <3>3, SeqMonotonic
  <2> DEFINE a == u \o <<".">>
             b == a \o z
  <2>5. WriteBytes(NewWriter, u) = [written |-> u, ok |-> TRUE]
    <3>1. Len(<< >>) + Len(u) <= BUFFER_SIZE
      BY <1>5, <1>e, <2>4
    <3>2. WriteBytes(NewWriter, u) = [written |-> << >> \o u, ok |-> TRUE]
      BY <1>4, <1>e, <2>4, <3>1, WriteFits
    <3> QED
      BY <2>u, <3>2
  <2>6. /\ WriteBytes([written |-> u, ok |-> TRUE], <<".">>) = [written |-> a, ok |-> TRUE]
        /\ a \in Seq(Letters) /\ Len(a) = Len(u) + 1
    <3>1. Len(u) + Len(<<".">>) <= BUFFER_SIZE
      BY <1>5, <1>e, <2>4
    <3> QED
      BY <1>e, <2>4, <3>1, WriteFits
  <2> HIDE DEF a
  <2>7. /\ WriteBytes([written |-> a, ok |-> TRUE], z) = [written |-> b, ok |-> TRUE]
        /\ b \in Seq(Letters) /\ Len(b) = Len(u) + 1 + Len(z)
    <3>1. Len(a) + Len(z) <= BUFFER_SIZE
      BY <1>5, <2>4, <2>6
    <3> QED
      BY <2>4, <2>6, <3>1, WriteFits
  <2> HIDE DEF b
  <2>8. WriteBytes([written |-> b, ok |-> TRUE], unit) = [written |-> b \o unit, ok |-> TRUE]
    <3>1. Len(b) + Len(unit) <= BUFFER_SIZE
      BY <1>5, <1>e, <2>4, <2>7
    <3> QED
      BY <1>e, <2>7, <3>1, WriteFits
  <2>9. FormatPrintableAmount(v) = [written |-> b \o unit, ok |-> TRUE]
    BY <1>3, <2>3, <2>5, <2>6, <2>7, <2>8
  <2>10. AmountNumber(v) = b
    BY <2>1 DEF a, b
  <2>11. AmountNumber(v) \in Seq(Figures \union {"."})
    BY <2>1
  <2>12. FormatPrintableAmount(v).ok /\ FormatPrintableAmount(v).written = b \o unit
    BY <2>9
  <2> QED
    BY <2>1, <2>10, <2>11, <2>12 DEF unit
<1> QED
  BY <1>6, <1>7

-----------------------------------------------------------------------------
(* The text of a number on the device's own screen. *)

\* The digits of a number: its last, after those of a tenth of it.
LEMMA DigitsValues ==
  /\ Digits \in [Nat -> Seq(Figures)]
  /\ \A n \in 0..9 : Digits[n] = <<Ascii(n)>>
  /\ \A n \in Nat : n >= 10 => Digits[n] = Append(Digits[n \div 10], Ascii(n % 10))
<1> DEFINE B == 0..9
           base == [n \in B |-> <<Ascii(n)>>]
           size == [n \in Nat |-> n]
           before == [n \in Nat |-> n \div 10]
           step == [p \in Nat \X Seq(Figures) |-> Append(p[2], Ascii(p[1] % 10))]
<1>1. \A d \in 0..9 : Digit[d + 1] = Ascii(d) /\ Ascii(d) \in Figures
  BY DigitOfFigure DEF Digit, Ascii
<1>2. \A n \in Nat : n \div 10 \in Nat /\ n % 10 \in 0..9 /\ (n >= 10 => n \div 10 < n)
  OBVIOUS
<1>3. base \in [B -> Seq(Figures)]
  BY <1>1
<1>4. step \in [Nat \X Seq(Figures) -> Seq(Figures)]
  <2> SUFFICES ASSUME NEW n \in Nat, NEW s \in Seq(Figures)
               PROVE  Append(s, Ascii(n % 10)) \in Seq(Figures)
    OBVIOUS
  <2>1. Ascii(n % 10) \in Figures
    BY <1>1, <1>2
  <2> QED
    BY <2>1
<1>5. size \in [Nat -> Nat] /\ before \in [Nat -> Nat]
  BY <1>2
<1>6. \A n \in Nat \ B : size[before[n]] < size[n]
  BY <1>2
<1>7. B \in SUBSET Nat /\ B # {}
  <2>1. 0 \in B
    OBVIOUS
  <2> QED
    BY <2>1
<1>b. \A n \in Nat : n \in B <=> n < 10
  OBVIOUS
<1>8. PICK f \in [Nat -> Seq(Figures)] : Recurs(f, Nat, base, before, step)
  <2> HIDE DEF B, base, size, before, step
  <2> QED
    BY <1>3, <1>4, <1>5, <1>6, <1>7, RecursionExists
<1>9. f = [n \in Nat |-> IF n < 10 THEN <<Digit[n + 1]>>
                         ELSE Append(f[n \div 10], Digit[(n % 10) + 1])]
  <2>1. ASSUME NEW n \in Nat
        PROVE  f[n] = IF n < 10 THEN <<Digit[n + 1]>>
                      ELSE Append(f[n \div 10], Digit[(n % 10) + 1])
    <3>1. f[n] = IF n \in DOMAIN base THEN base[n] ELSE step[<<n, f[before[n]]>>]
      BY <1>8 DEF Recurs
    <3>2. DOMAIN base = B
      OBVIOUS
    <3>3. CASE n < 10
      <4>1. n \in B /\ n \in 0..9
        BY <3>3
      <4>2. f[n] = <<Ascii(n)>>
        BY <3>1, <3>2, <4>1
      <4> QED
        BY <1>1, <3>3, <4>1, <4>2
    <3>4. CASE ~(n < 10)
      <4>1. f[n] = step[<<n, f[before[n]]>>]
        BY <1>b, <3>1, <3>2, <3>4
      <4>2. before[n] = n \div 10 /\ f[n \div 10] \in Seq(Figures)
        BY <1>2, <1>8
      <4>3. step[<<n, f[n \div 10]>>] = Append(f[n \div 10], Ascii(n % 10))
        BY <4>2
      <4> QED
        BY <1>1, <1>2, <3>4, <4>1, <4>2, <4>3
    <3> QED
      BY <3>3, <3>4
  <2>2. f = [n \in Nat |-> f[n]]
    BY <1>8
  <2> QED
    BY <2>1, <2>2
<1> DEFINE D == CHOOSE g : g = [n \in Nat |-> IF n < 10 THEN <<Digit[n + 1]>>
                         ELSE Append(g[n \div 10], Digit[(n % 10) + 1])]
<1>10. D = [n \in Nat |-> IF n < 10 THEN <<Digit[n + 1]>>
                         ELSE Append(D[n \div 10], Digit[(n % 10) + 1])]
  BY <1>9
<1>11. Digits = D
  BY DEF Digits
<1> HIDE DEF D, base, step, before, size
<1>12. \A n \in Nat : D[n] = IF n < 10 THEN <<Digit[n + 1]>>
                             ELSE Append(D[n \div 10], Digit[(n % 10) + 1])
  BY <1>10
<1>13. \A n \in 0..9 : D[n] = <<Ascii(n)>>
  <2> SUFFICES ASSUME NEW n \in 0..9 PROVE D[n] = <<Ascii(n)>>
    OBVIOUS
  <2>1. n \in Nat /\ n < 10
    OBVIOUS
  <2> QED
    BY <1>1, <1>12, <2>1
<1>14. \A n \in Nat : n >= 10 => D[n] = Append(D[n \div 10], Ascii(n % 10))
  <2> SUFFICES ASSUME NEW n \in Nat, n >= 10
               PROVE  D[n] = Append(D[n \div 10], Ascii(n % 10))
    OBVIOUS
  <2>1. ~(n < 10)
    OBVIOUS
  <2> QED
    BY <1>1, <1>2, <1>12, <2>1
<1>15. D \in [Nat -> Seq(Figures)]
  <2> DEFINE T == {m \in Nat : \A n \in Nat : n <= m => D[n] \in Seq(Figures)}
  <2>1. \A n \in 0..9 : D[n] \in Seq(Figures)
    <3>1. \A ch \in Figures : <<ch>> \in Seq(Figures)
      OBVIOUS
    <3> QED
      BY <1>1, <1>13, <3>1
  <2>2. 0 \in T
    <3>1. D[0] \in Seq(Figures) /\ \A n \in Nat : n <= 0 => n = 0
      BY <2>1
    <3> QED
      BY <3>1
  <2>3. ASSUME NEW m \in Nat, m \in T
        PROVE  m + 1 \in T
    <3> SUFFICES ASSUME NEW n \in Nat, n <= m + 1 PROVE D[n] \in Seq(Figures)
      OBVIOUS
    <3>1. CASE n < 10
      <4>1. n \in 0..9
        BY <3>1
      <4> QED
        BY <2>1, <4>1
    <3>2. CASE n >= 10
      <4>1. n \div 10 \in Nat /\ n \div 10 <= m /\ n % 10 \in 0..9
        BY <3>2
      <4>2. D[n \div 10] \in Seq(Figures) /\ Ascii(n % 10) \in Figures
        BY <1>1, <2>3, <4>1
      <4>3. Append(D[n \div 10], Ascii(n % 10)) \in Seq(Figures)
        BY <4>2
      <4> QED
        BY <1>14, <3>2, <4>3
    <3> QED
      BY <3>1, <3>2
  <2> HIDE DEF T
  <2>4. \A m \in Nat : m \in T
    BY <2>2, <2>3, SetInduction
  <2>6. \A n \in Nat : D[n] \in Seq(Figures)
    <3> SUFFICES ASSUME NEW n \in Nat PROVE D[n] \in Seq(Figures)
      OBVIOUS
    <3>1. n \in T /\ n <= n
      BY <2>4
    <3> QED
      BY <3>1 DEF T
  <2>5. D = [n \in Nat |-> D[n]]
    BY <1>10, Zenon
  <2> QED
    BY <2>5, <2>6
<1> QED
  BY <1>11, <1>13, <1>14, <1>15

\* They are what the divisions by ten leave over.
LEMMA DigitsText ==
  ASSUME NEW v \in Nat, NEW n \in 1..SLOTS, Quotients(v)[n] = 0
  PROVE  Digits[v] = WholeText(v)
<1>1. CASE v = 0
  <2>1. Digits[0] = <<Ascii(0)>> /\ Ascii(0) = "0"
    BY DigitsValues DEF Ascii
  <2> QED
    BY <1>1, <2>1 DEF WholeText
<1>2. CASE v # 0
  <2> DEFINE c == DigitCount(v)
             Prefix(k) == [i \in 1..k |-> Ascii(Quotients(v)[c - i] % 10)]
             S == {k \in 0..(c - 1) : Digits[Quotients(v)[c - (k + 1)]] = Prefix(k + 1)}
  <2>1. /\ c \in 1..n /\ Quotients(v)[c] = 0
        /\ \A i \in 0..(c - 1) : Quotients(v)[i] # 0
    <3>1. n \in 0..SLOTS /\ v \in Nat \ {0}
      BY <1>2
    <3> QED
      BY <3>1, DigitCountValue
  <2>s. SLOTS \in Nat /\ n \in Nat /\ c \in Nat /\ c <= SLOTS /\ c >= 1
    BY <2>1 DEF SLOTS
  <2> HIDE DEF c
  <2>2. 0 \in S
    <3>1. c - 1 \in 0..(SLOTS - 1) /\ (c - 1) + 1 = c /\ c - (0 + 1) = c - 1
      BY <2>s
    <3> DEFINE q == Quotients(v)[c - 1]
    <3>2. q \in Nat /\ 0 = q \div 10
      BY <2>1, <3>1, NextQuotient
    <3> HIDE DEF q
    <3>3. q \in 0..9 /\ q % 10 = q
      BY <3>2
    <3>4. Digits[q] = <<Ascii(q % 10)>>
      BY <3>3, DigitsValues
    <3>5. Prefix(0 + 1) = <<Ascii(Quotients(v)[c - 1] % 10)>>
      OBVIOUS
    <3> QED
      BY <2>s, <3>1, <3>4, <3>5 DEF q
  <2>3. ASSUME NEW k \in 0..((c - 1) - 1), k \in S
        PROVE  k + 1 \in S
    <3> DEFINE j == c - (k + 2)
               q == Quotients(v)[j]
               p == Quotients(v)[j + 1]
    <3>1. /\ j \in 0..(SLOTS - 1) /\ j + 1 = c - (k + 1) /\ j + 1 \in 0..(c - 1)
          /\ k + 1 \in 0..(c - 1) /\ c - ((k + 1) + 1) = j /\ (k + 1) + 1 = k + 2
      BY <2>s
    <3>2. q \in Nat /\ p \in Nat /\ p = q \div 10 /\ p # 0
      <4> HIDE DEF j
      <4> QED
        BY <2>1, <3>1, NextQuotient
    <3>3. Digits[p] = Prefix(k + 1)
      BY <2>3, <3>1
    <3> HIDE DEF q, p
    <3>4. q >= 10
      BY <3>2
    <3>5. Digits[q] = Append(Digits[p], Ascii(q % 10))
      BY <3>2, <3>4, DigitsValues
    <3>6. Append(Prefix(k + 1), Ascii(Quotients(v)[c - (k + 2)] % 10)) = Prefix(k + 2)
      <4> DEFINE a == Prefix(k + 1)
                 x == Ascii(Quotients(v)[c - (k + 2)] % 10)
                 b == Prefix(k + 2)
                 D == {Ascii(Quotients(v)[c - i] % 10) : i \in 1..(k + 2)}
      <4>1. /\ a \in Seq(D) /\ Len(a) = k + 1
            /\ \A i \in 1..(k + 1) : a[i] = Ascii(Quotients(v)[c - i] % 10)
        OBVIOUS
      <4>2. b \in Seq(D) /\ Len(b) = k + 2
            /\ \A i \in 1..(k + 2) : b[i] = Ascii(Quotients(v)[c - i] % 10)
        OBVIOUS
      <4>3. x \in D /\ k \in Nat
        OBVIOUS
      <4> HIDE DEF a, b, D
      <4>4. /\ Append(a, x) \in Seq(D) /\ Len(Append(a, x)) = k + 2
            /\ \A i \in 1..(k + 1) : Append(a, x)[i] = a[i]
            /\ Append(a, x)[k + 2] = x
        BY <4>1, <4>3
      <4>5. \A i \in 1..(k + 2) : Append(a, x)[i] = b[i]
        BY <4>1, <4>2, <4>3, <4>4
      <4> QED
        BY <4>2, <4>4, <4>5, SeqEqual
    <3> QED
      BY <3>1, <3>3, <3>5, <3>6 DEF q
  <2> HIDE DEF S
  <2>4. \A k \in 0..(c - 1) : k \in S
    <3>1. c - 1 \in Nat
      BY <2>s
    <3> QED
      BY <2>2, <2>3, <3>1, IntervalInduction
  <2>5. c - 1 \in S /\ (c - 1) + 1 = c /\ c - c = 0
    BY <2>s, <2>4
  <2>6. Digits[Quotients(v)[0]] = Prefix(c)
    BY <2>5 DEF S
  <2>7. Prefix(c) = Slots(v, c)
    BY DEF Slots
  <2> QED
    BY <1>2, <2>6, <2>7, QuotientsValues DEF WholeText, c
<1> QED
  BY <1>1, <1>2

\* Nothing is left of what was used up.
LEMMA NothingStays ==
  ASSUME NEW v \in Nat, NEW a \in 0..SLOTS, NEW b \in a..SLOTS, Quotients(v)[a] = 0
  PROVE  Quotients(v)[b] = 0
<1> DEFINE S == {k \in 0..(SLOTS - a) : Quotients(v)[a + k] = 0}
<1>s. SLOTS \in Nat /\ a \in Nat /\ b \in Nat /\ SLOTS - a \in Nat
  BY DEF SLOTS
<1>1. 0 \in S
  BY <1>s
<1>2. ASSUME NEW k \in 0..((SLOTS - a) - 1), k \in S
      PROVE  k + 1 \in S
  <2>1. a + k \in 0..(SLOTS - 1) /\ a + (k + 1) = (a + k) + 1 /\ k + 1 \in 0..(SLOTS - a)
    BY <1>s
  <2>2. Quotients(v)[(a + k) + 1] = Quotients(v)[a + k] \div 10 /\ Quotients(v)[a + k] = 0
    BY <1>2, <2>1, NextQuotient
  <2> QED
    BY <2>1, <2>2
<1> HIDE DEF S
<1>3. \A k \in 0..(SLOTS - a) : k \in S
  BY <1>s, <1>1, <1>2, IntervalInduction
<1>4. b - a \in S /\ a + (b - a) = b
  BY <1>s, <1>3
<1> QED
  BY <1>4 DEF S

\* The figures of a number, zero having one as well.
LEMMA WholeTextFigures ==
  ASSUME NEW v \in Nat, NEW n \in 1..SLOTS, Quotients(v)[n] = 0
  PROVE  \E c \in 1..n : /\ WholeText(v) = Slots(v, c)
                         /\ Quotients(v)[c] = 0
                         /\ c # 1 => \A i \in 0..(c - 1) : Quotients(v)[i] # 0
<1>s. SLOTS \in Nat /\ n \in Nat /\ 0 \in 0..(SLOTS - 1) /\ 1 \in 1..n /\ 0 + 1 = 1
  BY DEF SLOTS
<1>1. CASE v = 0
  <2>1. Quotients(v)[0] = 0
    BY <1>1, QuotientsValues
  <2>2. Quotients(v)[1] = 0
    <3>1. Quotients(v)[0 + 1] = Quotients(v)[0] \div 10
      BY <1>s, NextQuotient
    <3> QED
      BY <2>1, <3>1
  <2>3. Slots(v, 1) = <<"0">>
    <3>1. Slots(v, 1) = <<Ascii(Quotients(v)[0] % 10)>>
      <4>1. Slots(v, 1) = [i \in 1..1 |-> Ascii(Quotients(v)[1 - i] % 10)]
        BY DEF Slots
      <4> QED
        BY <4>1
    <3>2. Ascii(0) = "0"
      BY DEF Ascii
    <3> QED
      BY <2>1, <3>1, <3>2
  <2> QED
    BY <1>1, <1>s, <2>2, <2>3 DEF WholeText
<1>2. CASE v # 0
  <2>1. n \in 0..SLOTS /\ v \in Nat \ {0}
    BY <1>2
  <2> QED
    BY <1>2, <2>1, DigitCountValue DEF WholeText
<1> QED
  BY <1>1, <1>2

\* A number without a sign is all digits.
LEMMA PlainText ==
  ASSUME NEW text, text = << >> \/ text[1] # "-"
  PROVE  Unsigned(text) = text /\ Sign(text) = << >>
BY DEF Unsigned, Sign, Negative

LEMMA ZerosText ==
  ASSUME NEW k \in Nat
  PROVE  /\ Zeros(k) \in Seq(Figures) /\ Len(Zeros(k)) = k
         /\ \A i \in 1..k : Zeros(k)[i] = "0"
<1>1. "0" \in Figures
  BY DigitOfFigure DEF Ascii
<1> QED
  BY <1>1 DEF Zeros

\* The places of an amount are those of its fraction.
LEMMA FractionSlots ==
  ASSUME NEW v \in Nat
  PROVE  Slots(v, DECIMAL_PLACES) = Slots(Fraction(v), DECIMAL_PLACES)
<1>1. \A i \in 1..DECIMAL_PLACES :
        Quotients(v)[DECIMAL_PLACES - i] % 10 = Quotients(Fraction(v))[DECIMAL_PLACES - i] % 10
  <2> SUFFICES ASSUME NEW i \in 1..DECIMAL_PLACES
               PROVE  Quotients(v)[DECIMAL_PLACES - i] % 10
                        = Quotients(Fraction(v))[DECIMAL_PLACES - i] % 10
    OBVIOUS
  <2>1. DECIMAL_PLACES - i \in 0..(DECIMAL_PLACES - 1)
    BY AmountAssumption DEF SLOTS
  <2> QED
    BY <2>1, FractionDigits
<1> QED
  BY <1>1 DEF Slots

\* A number shorter than its places: zeros make up for what it lacks.
LEMMA PaddedText ==
  ASSUME NEW v \in Nat, NEW c \in 1..DECIMAL_PLACES, Quotients(v)[c] = 0
  PROVE  /\ WholePart(v) = 0
         /\ Zeros(DECIMAL_PLACES - c) \o Slots(v, c) = Slots(v, DECIMAL_PLACES)
<1> DEFINE D == DECIMAL_PLACES
<1>s. SLOTS \in Nat /\ D \in Nat /\ D <= SLOTS /\ c \in Nat /\ D - c \in Nat
      /\ D \in 0..SLOTS /\ c \in 0..SLOTS /\ D \in c..SLOTS
  BY AmountAssumption DEF SLOTS
<1>1. WholePart(v) = 0
  <2>1. Quotients(v)[D] = 0
    BY <1>s, NothingStays
  <2> QED
    BY <2>1, WholeIsQuotient
<1> DEFINE z == Zeros(D - c)
           a == Slots(v, c)
           b == Slots(v, D)
<1>2. z \in Seq(Figures) /\ Len(z) = D - c /\ \A i \in 1..(D - c) : z[i] = "0"
  BY <1>s, ZerosText
<1>3. /\ a \in Seq(Figures) /\ Len(a) = c
      /\ \A i \in 1..c : a[i] = Ascii(Quotients(v)[c - i] % 10)
  BY <1>s, SlotsText
<1>4. /\ b \in Seq(Figures) /\ Len(b) = D
      /\ \A i \in 1..D : b[i] = Ascii(Quotients(v)[D - i] % 10)
  BY <1>s, SlotsText
<1> HIDE DEF z, a, b, D
<1>5. /\ z \o a \in Seq(Figures) /\ Len(z \o a) = D
      /\ \A i \in 1..D : (z \o a)[i] = IF i <= D - c THEN z[i] ELSE a[i - (D - c)]
  BY <1>s, <1>2, <1>3
<1>6. \A i \in 1..D : (z \o a)[i] = b[i]
  <2> SUFFICES ASSUME NEW i \in 1..D PROVE (z \o a)[i] = b[i]
    OBVIOUS
  <2>1. CASE i <= D - c
    <3>1. D - i \in c..SLOTS /\ i \in 1..(D - c)
      BY <1>s, <2>1
    <3>2. Quotients(v)[D - i] = 0
      BY <1>s, <3>1, NothingStays
    <3>3. Ascii(0) = "0"
      BY DEF Ascii
    <3> QED
      BY <1>2, <1>4, <1>5, <2>1, <3>1, <3>2, <3>3
  <2>2. CASE ~(i <= D - c)
    <3>1. i - (D - c) \in 1..c /\ c - (i - (D - c)) = D - i
      BY <1>s, <2>2
    <3> QED
      BY <1>3, <1>4, <1>5, <2>2, <3>1, ZenonT(60)
  <2> QED
    BY <2>1, <2>2
<1>7. z \o a = b
  BY <1>4, <1>5, <1>6, SeqEqual
<1> QED
  BY <1>1, <1>7 DEF z, a, b, D

\* A number longer than its places: its text is cut in two.
LEMMA CutText ==
  ASSUME NEW v \in Nat, NEW c \in (DECIMAL_PLACES + 1)..SLOTS, Quotients(v)[c] = 0,
         \A i \in 0..(c - 1) : Quotients(v)[i] # 0
  PROVE  /\ SubSeq(Slots(v, c), 1, c - DECIMAL_PLACES) = WholeText(WholePart(v))
         /\ SubSeq(Slots(v, c), (c - DECIMAL_PLACES) + 1, c) = Slots(v, DECIMAL_PLACES)
<1> DEFINE D == DECIMAL_PLACES
           W == WholePart(v)
           s == c - D
<1>s. /\ SLOTS \in Nat /\ D \in Nat /\ D <= SLOTS /\ c \in Nat /\ s \in Nat /\ s >= 1
      /\ D \in 0..SLOTS /\ c \in 0..SLOTS /\ c <= SLOTS /\ D \in 0..(c - 1)
      /\ s \in 0..(SLOTS - D) /\ s \in 0..SLOTS /\ D + s = c
  BY AmountAssumption DEF SLOTS
<1>1. W \in Nat /\ W # 0
  BY <1>s, PartsOfAmount, WholeIsQuotient
<1>2. \A m \in 0..(SLOTS - D) : Quotients(W)[m] = Quotients(v)[D + m]
  BY WholeQuotients
<1>3. Quotients(W)[s] = 0
  BY <1>2, <1>s
<1>4. DigitCount(W) \in 1..s /\ Quotients(W)[DigitCount(W)] = 0
  <2>1. W \in Nat \ {0}
    BY <1>1
  <2> HIDE DEF W, s, D
  <2> QED
    BY <1>s, <1>3, <2>1, DigitCountValue
<1>5. DigitCount(W) = s
  <2> DEFINE k == DigitCount(W)
  <2> HIDE DEF k, W
  <2>1. SUFFICES ASSUME k # s PROVE FALSE
    BY DEF k
  <2>2. k \in 1..s /\ Quotients(W)[k] = 0
    BY <1>4 DEF k
  <2>3. k \in 0..(SLOTS - D) /\ D + k \in 0..(c - 1)
    BY <1>s, <2>1, <2>2
  <2> QED
    BY <1>2, <2>2, <2>3
<1>6. WholeText(W) = Slots(W, s)
  BY <1>1, <1>5 DEF WholeText
<1> DEFINE a == Slots(v, c)
           u == Slots(W, s)
           b == Slots(v, D)
<1>7. /\ a \in Seq(Figures) /\ Len(a) = c
      /\ \A i \in 1..c : a[i] = Ascii(Quotients(v)[c - i] % 10)
  BY <1>s, SlotsText
<1>8. /\ b \in Seq(Figures) /\ Len(b) = D
      /\ \A i \in 1..D : b[i] = Ascii(Quotients(v)[D - i] % 10)
  BY <1>s, SlotsText
<1>9. /\ u \in Seq(Figures) /\ Len(u) = s
      /\ \A i \in 1..s : u[i] = Ascii(Quotients(W)[s - i] % 10)
  <2>1. W \in Nat /\ s \in 0..SLOTS
    BY <1>s, <1>1
  <2> HIDE DEF D, W, s
  <2> QED
    BY <2>1, SlotsText
<1> HIDE DEF D, W, a, u, b, s
<1>10. SubSeq(a, 1, s) = u
  <2>1. /\ SubSeq(a, 1, s) \in Seq(Figures) /\ Len(SubSeq(a, 1, s)) = s
        /\ \A i \in 1..s : SubSeq(a, 1, s)[i] = a[i]
    BY <1>7, <1>s
  <2>2. \A i \in 1..s : a[i] = u[i]
    <3> SUFFICES ASSUME NEW i \in 1..s PROVE a[i] = u[i]
      OBVIOUS
    <3>1. s - i \in 0..(SLOTS - D) /\ D + (s - i) = c - i /\ i \in 1..c
      BY <1>s
    <3> QED
      BY <1>2, <1>7, <1>9, <3>1
  <2> QED
    BY <1>9, <2>1, <2>2, SeqEqual
<1>11. SubSeq(a, s + 1, c) = b
  <2>1. /\ SubSeq(a, s + 1, c) \in Seq(Figures) /\ Len(SubSeq(a, s + 1, c)) = D
        /\ \A i \in 1..D : SubSeq(a, s + 1, c)[i] = a[s + i]
    <3>1. s + 1 \in 1..(Len(a) + 1) /\ c \in s..Len(a) /\ c - (s + 1) + 1 = D
      BY <1>7, <1>s
    <3>2. \A i \in 1..D : (s + 1) + i - 1 = s + i /\ s + i \in 1..c
      BY <1>s
    <3> QED
      BY <1>7, <1>s, <3>1, <3>2
  <2>2. \A i \in 1..D : a[s + i] = b[i]
    <3> SUFFICES ASSUME NEW i \in 1..D PROVE a[s + i] = b[i]
      OBVIOUS
    <3>1. s + i \in 1..c /\ c - (s + i) = D - i
      BY <1>s
    <3> QED
      BY <1>7, <1>8, <3>1
  <2> DEFINE x == SubSeq(a, s + 1, c)
  <2>3. x \in Seq(Figures) /\ Len(x) = Len(b) /\ \A i \in 1..Len(x) : x[i] = b[i]
    BY <1>8, <2>1, <2>2
  <2> HIDE DEF x
  <2>4. x = b
    BY <1>8, <2>3, SeqEqual
  <2> QED
    BY <2>4 DEF x
<1> QED
  BY <1>6, <1>10, <1>11 DEF a, b, u, s, D, W

Comma == ","
Numerals == Figures \union {".", Comma}

LEMMA FiguresAreNumerals ==
  /\ \A s \in Seq(Figures) : s \in Seq(Numerals)
  /\ <<".">> \in Seq(Numerals) /\ <<"0">> \in Seq(Numerals)
  /\ <<"0", ".">> \in Seq(Numerals) /\ <<"0">> \o <<".">> = <<"0", ".">>
<1>1. \A A, B : A \subseteq B => \A s \in Seq(A) : s \in Seq(B)
  OBVIOUS
<1>2. Figures \subseteq Numerals /\ "." \in Numerals
  BY DEF Numerals
<1>3. "0" \in Numerals
  BY <1>2, DigitOfFigure DEF Ascii
<1>4. \A x \in Numerals : <<x>> \in Seq(Numerals)
  OBVIOUS
<1>5. ASSUME NEW x \in Numerals, NEW y \in Numerals
      PROVE  <<x, y>> \in Seq(Numerals) /\ <<x>> \o <<y>> = <<x, y>>
  <2> DEFINE a == <<x>> \o <<y>>
             b == <<x, y>>
  <2>1. a \in Seq(Numerals) /\ Len(a) = 2 /\ a[1] = x /\ a[2] = y
    OBVIOUS
  <2>2. b \in Seq(Numerals) /\ Len(b) = 2 /\ b[1] = x /\ b[2] = y
    OBVIOUS
  <2>3. \A i \in 1..2 : i = 1 \/ i = 2
    OBVIOUS
  <2> HIDE DEF a, b
  <2>4. \A i \in 1..Len(a) : a[i] = b[i]
    BY <2>1, <2>2, <2>3
  <2>5. a = b
    BY <2>1, <2>2, <2>4, SeqEqual
  <2> QED
    BY <2>2, <2>5 DEF a, b
<1> QED
  BY <1>1, <1>2, <1>3, <1>4, <1>5

\* The text with all its places, on both sides of the point.
LEMMA DecimalText ==
  ASSUME NEW v \in Nat, NEW n \in 1..(SLOTS - DECIMAL_PLACES),
         Quotients(v)[DECIMAL_PLACES + n] = 0
  PROVE  FormatDecimal(v, DECIMAL_PLACES)
           = IF DECIMAL_PLACES = 0 THEN WholeText(WholePart(v))
             ELSE WholeText(WholePart(v)) \o <<".">> \o Slots(Fraction(v), DECIMAL_PLACES)
<1> DEFINE D == DECIMAL_PLACES
           W == WholePart(v)
           digits == Digits[v]
<1>s. SLOTS \in Nat /\ D \in Nat /\ D \in 0..SLOTS /\ n \in Nat /\ D + n \in 1..SLOTS
  BY AmountAssumption DEF SLOTS
<1>1. digits = WholeText(v)
  BY <1>s, DigitsText
<1>2. PICK c \in 1..(D + n) : /\ digits = Slots(v, c)
                              /\ Quotients(v)[c] = 0
                              /\ c # 1 => \A i \in 0..(c - 1) : Quotients(v)[i] # 0
  BY <1>s, <1>1, WholeTextFigures
<1>3. c \in Nat /\ c \in 0..SLOTS /\ c >= 1 /\ c \in 1..SLOTS
  BY <1>s
<1>4. /\ digits \in Seq(Figures) /\ Len(digits) = c
  BY <1>2, <1>3, SlotsText
<1>5. ToText(v) = digits
  BY DEF ToText
<1>6. Unsigned(digits) = digits /\ Sign(digits) = << >>
  <2>1. \A ch \in Figures : ch # "-"
    BY DEF Figures, Ascii
  <2>2. digits[1] \in Figures
    BY <1>3, <1>4
  <2> HIDE DEF digits
  <2> QED
    BY <2>1, <2>2, PlainText
<1>7. CASE D = 0
  <2>1. W = v
    BY <1>7, WholeIsQuotient, QuotientsValues
  <2> QED
    BY <1>1, <1>5, <1>7, <2>1 DEF FormatDecimal
<1>8. CASE D # 0 /\ c <= D
  <2> DEFINE z == Zeros(D - c)
             b == Slots(v, D)
  <2>1. c \in 1..D /\ D - c \in Nat /\ -(c - D) = D - c /\ c - D <= 0
    BY <1>3, <1>8, <1>s
  <2>2. W = 0 /\ z \o digits = b
    BY <1>2, <2>1, PaddedText
  <2>3. FormatDecimal(v, D) = << >> \o (<<"0", ".">> \o z \o digits)
    BY <1>4, <1>5, <1>6, <1>8, <2>1 DEF FormatDecimal
  <2>4. z \in Seq(Figures)
    BY <2>1, ZerosText
  <2>5. WholeText(W) = <<"0">>
    BY <2>2 DEF WholeText
  <2>6. Slots(Fraction(v), D) = b
    BY FractionSlots
  <2>7. <<"0", ".">> \in Seq(Numerals) /\ <<"0">> \o <<".">> = <<"0", ".">>
    BY FiguresAreNumerals
  <2>8. z \in Seq(Numerals) /\ digits \in Seq(Numerals)
    BY <1>4, <2>4, FiguresAreNumerals
  <2> HIDE DEF z, b, digits, D, W
  <2>9. (<<"0", ".">> \o z) \o digits = <<"0", ".">> \o (z \o digits)
    BY <2>7, <2>8, ConcatAssociative, SMTT(40)
  <2>10. << >> \o (<<"0", ".">> \o z \o digits) = <<"0", ".">> \o z \o digits
    BY <2>7, <2>8
  <2> QED
    BY <1>8, <2>2, <2>3, <2>5, <2>6, <2>7, <2>9, <2>10 DEF D, W
<1>9. CASE D # 0 /\ c > D
  <2>1. /\ c \in (D + 1)..SLOTS /\ c # 1 /\ ~(c - D <= 0)
    BY <1>3, <1>9, <1>s
  <2>2. /\ SubSeq(digits, 1, c - D) = WholeText(W)
        /\ SubSeq(digits, (c - D) + 1, c) = Slots(v, D)
    BY <1>2, <2>1, CutText
  <2>3. FormatDecimal(v, D)
          = << >> \o (SubSeq(digits, 1, c - D) \o <<".">> \o SubSeq(digits, (c - D) + 1, c))
    BY <1>4, <1>5, <1>6, <1>9, <2>1 DEF FormatDecimal
  <2>4. /\ SubSeq(digits, 1, c - D) \in Seq(Numerals)
        /\ SubSeq(digits, (c - D) + 1, c) \in Seq(Numerals)
        /\ <<".">> \in Seq(Numerals)
    <3>1. digits \in Seq(Numerals)
      BY <1>4, FiguresAreNumerals
    <3>2. \A i \in 1..c : digits[i] \in Numerals
      BY <1>4, <3>1
    <3>3. c - D \in Int /\ (c - D) + 1 \in Int /\ c \in Int /\ (c - D) <= c /\ (c - D) + 1 >= 1
      BY <1>3, <1>s, <2>1
    <3> HIDE DEF digits, D
    <3>4. /\ \A i \in 1..(c - D) : digits[i] \in Numerals
          /\ \A i \in ((c - D) + 1)..c : digits[i] \in Numerals
      BY <1>s, <3>2, <3>3
    <3> QED
      BY <3>3, <3>4, SubSeqProperties, FiguresAreNumerals
  <2>5. Slots(Fraction(v), D) = Slots(v, D)
    BY FractionSlots
  <2> DEFINE a == SubSeq(digits, 1, c - D)
             b == SubSeq(digits, (c - D) + 1, c)
  <2> HIDE DEF a, b
  <2>6. << >> \o (a \o <<".">> \o b) = a \o <<".">> \o b
    BY <2>4 DEF a, b
  <2> QED
    BY <1>9, <2>2, <2>3, <2>5, <2>6 DEF a, b
<1> QED
  BY <1>7, <1>8, <1>9, <1>s, <1>3

-----------------------------------------------------------------------------
(* Separators. *)

\* What is kept of a character.
Kept(ch) == IF ch = Comma THEN << >> ELSE <<ch>>

LEMMA WithoutCommasPieces ==
  ASSUME NEW text
  PROVE  WithoutCommas(text) = FlattenSeq([i \in DOMAIN text |-> Kept(text[i])])
BY Zenon DEF WithoutCommas, Kept, Comma

LEMMA CommaIsNoFigure == Comma \notin Figures /\ Comma # "." /\ Comma \in Numerals
<1>1. \A d \in 0..9 : Ascii(d) \in {"0", "1", "2", "3", "4", "5", "6", "7", "8", "9"}
  BY DEF Ascii
<1>2. Comma \notin {"0", "1", "2", "3", "4", "5", "6", "7", "8", "9"} /\ Comma # "."
  BY Zenon DEF Comma
<1> QED
  BY <1>1, <1>2, Zenon DEF Figures, Numerals

\* One character more: a comma adds nothing, any other itself.
LEMMA WithoutCommasAppend ==
  ASSUME NEW text \in Seq(Numerals), NEW ch \in Numerals
  PROVE  /\ WithoutCommas(text) \in Seq(Numerals)
         /\ WithoutCommas(Append(text, ch))
              = IF ch = Comma THEN WithoutCommas(text) ELSE Append(WithoutCommas(text), ch)
<1> DEFINE piece(c) == Kept(c)
           pieces(s) == [i \in DOMAIN s |-> piece(s[i])]
           m == Len(text)
           t == Append(text, ch)
<1>1. \A c \in Numerals : piece(c) \in Seq(Numerals)
  BY DEF Kept
<1>2. \A s \in Seq(Numerals) : pieces(s) \in Seq(Seq(Numerals)) /\ Len(pieces(s)) = Len(s)
                              /\ \A i \in 1..Len(s) : pieces(s)[i] = piece(s[i])
  <2> SUFFICES ASSUME NEW s \in Seq(Numerals)
               PROVE  /\ pieces(s) \in Seq(Seq(Numerals)) /\ Len(pieces(s)) = Len(s)
                      /\ \A i \in 1..Len(s) : pieces(s)[i] = piece(s[i])
    OBVIOUS
  <2>1. Len(s) \in Nat /\ DOMAIN s = 1..Len(s) /\ \A i \in 1..Len(s) : s[i] \in Numerals
    OBVIOUS
  <2> DEFINE p == [i \in 1..Len(s) |-> piece(s[i])]
  <2>2. p \in [1..Len(s) -> Seq(Numerals)]
    <3> HIDE DEF piece
    <3> QED
      BY <1>1, <2>1
  <2>3. p \in Seq(Seq(Numerals)) /\ Len(p) = Len(s)
    BY <2>1, <2>2
  <2>4. pieces(s) = p
    BY <2>1, Zenon
  <2>5. \A i \in 1..Len(s) : p[i] = piece(s[i])
    OBVIOUS
  <2> HIDE DEF p, pieces, piece
  <2> QED
    BY <2>3, <2>4, <2>5
<1>3. /\ t \in Seq(Numerals) /\ Len(t) = m + 1 /\ t[m + 1] = ch /\ m \in Nat
      /\ \A i \in 1..m : t[i] = text[i]
  OBVIOUS
<1> HIDE DEF t, m, piece, pieces
<1>4. pieces(t) = Append(pieces(text), piece(ch))
  <2> DEFINE a == pieces(t)
             b == Append(pieces(text), piece(ch))
  <2>1. a \in Seq(Seq(Numerals)) /\ Len(a) = m + 1 /\ \A i \in 1..(m + 1) : a[i] = piece(t[i])
    BY <1>2, <1>3
  <2>2. /\ b \in Seq(Seq(Numerals)) /\ Len(b) = m + 1 /\ b[m + 1] = piece(ch)
        /\ \A i \in 1..m : b[i] = piece(text[i])
    <3> DEFINE q == pieces(text)
    <3>1. q \in Seq(Seq(Numerals)) /\ Len(q) = m /\ \A i \in 1..m : q[i] = piece(text[i])
      BY <1>2 DEF m
    <3>2. piece(ch) \in Seq(Numerals)
      BY <1>1
    <3> HIDE DEF q
    <3> QED
      BY <1>3, <3>1, <3>2 DEF q
  <2> HIDE DEF a, b
  <2>3. \A i \in 1..(m + 1) : a[i] = b[i]
    <3> SUFFICES ASSUME NEW i \in 1..(m + 1) PROVE a[i] = b[i]
      OBVIOUS
    <3>1. i \in 1..m \/ i = m + 1
      BY <1>3
    <3> QED
      BY <1>3, <2>1, <2>2, <3>1
  <2>4. a = b
    BY <2>1, <2>2, <2>3, SeqEqual
  <2> QED
    BY <2>4 DEF a, b
<1>5. FlattenSeq(pieces(t)) = FlattenSeq(pieces(text)) \o piece(ch)
  BY <1>1, <1>2, <1>4, FlattenAppend
<1>6. FlattenSeq(pieces(text)) \in Seq(Numerals)
  BY <1>2, FlattenType
<1>7. \A s : WithoutCommas(s) = FlattenSeq(pieces(s))
  BY WithoutCommasPieces, Zenon DEF pieces, piece
<1>8. \A s \in Seq(Numerals) : s \o << >> = s /\ s \o <<ch>> = Append(s, ch)
  OBVIOUS
<1> QED
  BY <1>5, <1>6, <1>7, <1>8 DEF t, piece, Kept

LEMMA WithoutCommasNothing == WithoutCommas(<< >>) = << >>
BY DEF WithoutCommas, FlattenSeq

\* What follows without a comma is kept as it is.
LEMMA WithoutCommasConcat ==
  ASSUME NEW s \in Seq(Numerals), NEW t \in Seq(Numerals), \A i \in 1..Len(t) : t[i] # Comma
  PROVE  WithoutCommas(s \o t) = WithoutCommas(s) \o t
<1> DEFINE n == Len(t)
           first(k) == SubSeq(t, 1, k)
           w == WithoutCommas(s)
           good(k) == WithoutCommas(s \o first(k)) = w \o first(k)
           S == {k \in 0..n : good(k)}
<1>0. n \in Nat /\ n \in 0..n /\ 0 \in 0..n
  <2>1. n \in Nat
    BY Joining
  <2> HIDE DEF n
  <2> QED
    BY <2>1
<1>w. w \in Seq(Numerals)
  <2>1. Comma \in Numerals
    BY DEF Numerals
  <2> QED
    BY <2>1, WithoutCommasAppend
<1>c. \A u \in Seq(Numerals) : u \o << >> = u
  BY Joining
<1>d. \A u, f \in Seq(Numerals) : \A x \in Numerals :
        u \o Append(f, x) = Append(u \o f, x) /\ u \o f \in Seq(Numerals)
  BY Joining
<1>1. good(0)
  <2>1. first(0) = << >>
    BY SubSeqEmpty
  <2>2. s \o << >> = s
    BY <1>c
  <2>3. w \o << >> = w
    BY <1>c, <1>w
  <2>4. WithoutCommas(s \o first(0)) = w
    BY <2>1, <2>2, Zenon
  <2>5. w \o first(0) = w
    BY <2>1, <2>3, Zenon
  <2> QED
    BY <2>4, <2>5, Zenon
<1>2. ASSUME NEW k \in 0..(n - 1), good(k)
      PROVE  good(k + 1)
  <2>1. k + 1 \in 1..n /\ k \in 0..n /\ t[k + 1] \in Numerals /\ t[k + 1] # Comma
    BY <1>0
  <2>2. first(k) \in Seq(Numerals) /\ first(k + 1) = Append(first(k), t[k + 1])
    BY <2>1, OneMoreTaken
  <2>3. WithoutCommas(s \o first(k)) = w \o first(k)
    BY <1>2
  <2> DEFINE f == first(k)
             x == t[k + 1]
  <2>4. f \in Seq(Numerals) /\ x \in Numerals /\ x # Comma
    BY <2>1, <2>2
  <2> HIDE DEF f, x, first, w, n
  <2>5. /\ s \o Append(f, x) = Append(s \o f, x) /\ w \o Append(f, x) = Append(w \o f, x)
        /\ s \o f \in Seq(Numerals)
    BY <1>d, <1>w, <2>4
  <2>6. WithoutCommas(Append(s \o f, x)) = Append(w \o f, x)
    BY <2>3, <2>4, <2>5, WithoutCommasAppend DEF f
  <2> QED
    BY <2>2, <2>5, <2>6 DEF f, x
<1>4. first(n) = t
  BY SubSeqFull
<1> HIDE DEF n, good
<1>5. 0 \in S
  BY <1>0, <1>1
<1>6. ASSUME NEW k \in 0..(n - 1), k \in S
      PROVE  k + 1 \in S
  BY <1>0, <1>2, <1>6
<1> HIDE DEF S
<1>7. \A k \in 0..n : k \in S
  BY <1>0, <1>5, <1>6, IntervalInduction
<1>8. n \in S
  BY <1>0, <1>7
<1> HIDE DEF first
<1> QED
  BY <1>4, <1>8 DEF S, good

\* Figures with a comma before some of them: without commas, the figures.
LEMMA CommasVanish ==
  ASSUME NEW u \in Seq(Figures), NEW p \in Seq(Seq(Numerals)), Len(p) = Len(u),
         \A i \in 1..Len(u) : p[i] \in {<<Comma, u[i]>>, <<u[i]>>}
  PROVE  FlattenSeq(p) \in Seq(Numerals) /\ WithoutCommas(FlattenSeq(p)) = u
<1> DEFINE n == Len(u)
           flat(k) == FlattenSeq(SubSeq(p, 1, k))
           good(k) == flat(k) \in Seq(Numerals) /\ WithoutCommas(flat(k)) = SubSeq(u, 1, k)
           S == {k \in 0..n : good(k)}
<1>0. n \in Nat /\ n \in 0..n /\ 0 \in 0..n
  OBVIOUS
<1>d. /\ \A f \in Seq(Numerals) : \A x, y \in Numerals :
           /\ f \o <<x>> = Append(f, x) /\ Append(f, x) \in Seq(Numerals)
           /\ f \o <<x, y>> = Append(Append(f, x), y)
      /\ << >> \in Seq(Numerals)
  <2>1. /\ \A f \in Seq(Numerals) : \A x \in Numerals :
             f \o <<x>> = Append(f, x) /\ Append(f, x) \in Seq(Numerals)
        /\ << >> \in Seq(Numerals)
    OBVIOUS
  <2>2. ASSUME NEW f \in Seq(Numerals), NEW x \in Numerals, NEW y \in Numerals
        PROVE  f \o <<x, y>> = Append(Append(f, x), y)
    <3>1. <<x, y>> = Append(<<x>>, y) /\ <<x>> \in Seq(Numerals)
      OBVIOUS
    <3>2. f \o Append(<<x>>, y) = Append(f \o <<x>>, y)
      BY <3>1, Joining
    <3> QED
      BY <2>1, <3>1, <3>2
  <2> QED
    BY <2>1, <2>2
<1>1. good(0)
  <2>1. SubSeq(p, 1, 0) = << >> /\ SubSeq(u, 1, 0) = << >>
    BY SubSeqEmpty
  <2>2. flat(0) = << >>
    BY <2>1, FlattenNothing
  <2> HIDE DEF flat
  <2> QED
    BY <1>d, <2>1, <2>2, WithoutCommasNothing
<1>2. ASSUME NEW k \in 0..(n - 1), good(k)
      PROVE  good(k + 1)
  <2>1. /\ k + 1 \in 1..n /\ (k + 1) - 1 = k /\ u[k + 1] \in Figures
        /\ p[k + 1] \in {<<Comma, u[k + 1]>>, <<u[k + 1]>>}
    BY <1>0
  <2>2. flat(k + 1) = flat(k) \o p[k + 1]
    <3>1. k + 1 \in 1..Len(p)
      BY <2>1
    <3> QED
      BY <2>1, <3>1, FlattenStep
  <2>3. SubSeq(u, 1, k + 1) = Append(SubSeq(u, 1, k), u[k + 1])
    BY OneMoreTaken
  <2>4. flat(k) \in Seq(Numerals) /\ WithoutCommas(flat(k)) = SubSeq(u, 1, k)
    BY <1>2
  <2> DEFINE f == flat(k)
             x == u[k + 1]
             q == p[k + 1]
  <2>5. x \in Numerals /\ x # Comma /\ Comma \in Numerals /\ q \in {<<Comma, x>>, <<x>>}
    <3>1. x \in Figures /\ q \in {<<Comma, x>>, <<x>>}
      BY <2>1
    <3> HIDE DEF x, q
    <3> QED
      BY <3>1, CommaIsNoFigure DEF Numerals
  <2>6. flat(k + 1) = f \o q /\ f \in Seq(Numerals) /\ WithoutCommas(f) = SubSeq(u, 1, k)
    BY <2>2, <2>4
  <2> HIDE DEF f, x, q, flat, n
  <2>7. CASE q = <<x>>
    <3>1. f \o q = Append(f, x) /\ Append(f, x) \in Seq(Numerals)
      BY <1>d, <2>5, <2>6, <2>7
    <3>2. WithoutCommas(Append(f, x)) = Append(WithoutCommas(f), x)
      BY <2>5, <2>6, WithoutCommasAppend
    <3> QED
      BY <2>3, <2>6, <3>1, <3>2 DEF x
  <2>8. CASE q = <<Comma, x>>
    <3>1. /\ f \o q = Append(Append(f, Comma), x)
          /\ Append(f, Comma) \in Seq(Numerals) /\ Append(Append(f, Comma), x) \in Seq(Numerals)
      BY <1>d, <2>5, <2>6, <2>8
    <3>2. WithoutCommas(Append(f, Comma)) = WithoutCommas(f)
      BY <2>5, <2>6, WithoutCommasAppend
    <3>3. WithoutCommas(Append(Append(f, Comma), x)) = Append(WithoutCommas(Append(f, Comma)), x)
      BY <2>5, <3>1, WithoutCommasAppend
    <3> QED
      BY <2>3, <2>6, <3>1, <3>2, <3>3 DEF x
  <2> QED
    BY <2>5, <2>7, <2>8
<1>3. SubSeq(p, 1, n) = p /\ SubSeq(u, 1, n) = u
  <2>1. n = Len(p)
    OBVIOUS
  <2> QED
    BY <2>1, SubSeqFull
<1>4. flat(n) = FlattenSeq(p)
  BY <1>3
<1> HIDE DEF n, good
<1>5. 0 \in S
  BY <1>0, <1>1
<1>6. ASSUME NEW k \in 0..(n - 1), k \in S
      PROVE  k + 1 \in S
  BY <1>0, <1>2, <1>6
<1> HIDE DEF S
<1>7. \A k \in 0..n : k \in S
  BY <1>0, <1>5, <1>6, IntervalInduction
<1>8. n \in S
  BY <1>0, <1>7
<1> HIDE DEF flat
<1> QED
  BY <1>3, <1>4, <1>8 DEF S, good

\* A number with its separators, and without them again.
LEMMA CommasAdded ==
  ASSUME NEW u \in Seq(Figures), u # << >>
  PROVE  AddCommas(u) \in Seq(Numerals) /\ WithoutCommas(AddCommas(u)) = u
<1> DEFINE piece(i) == IF i > 1 /\ (Len(u) - i + 1) % 3 = 0
                       THEN <<Comma, u[i]>> ELSE <<u[i]>>
           p == [i \in 1..Len(u) |-> piece(i)]
<1>1. u[1] \in Figures /\ Len(u) \in Nat
  OBVIOUS
<1>2. Unsigned(u) = u /\ Sign(u) = << >>
  <2>1. u[1] # "-"
    <3>1. \A d \in 0..9 : Ascii(d) # "-"
      BY DEF Ascii
    <3> QED
      BY <1>1, <3>1 DEF Figures
  <2> QED
    BY <2>1, PlainText
<1>3. AddCommas(u) = << >> \o FlattenSeq(p)
  BY <1>2, Zenon DEF AddCommas, Comma
<1>4. \A i \in 1..Len(u) : p[i] \in {<<Comma, u[i]>>, <<u[i]>>}
  OBVIOUS
<1>5. p \in Seq(Seq(Numerals)) /\ Len(p) = Len(u)
  <2>1. \A i \in 1..Len(u) : u[i] \in Numerals
    BY DEF Numerals
  <2>2. \A x \in Numerals : <<Comma, x>> \in Seq(Numerals) /\ <<x>> \in Seq(Numerals)
    BY CommaIsNoFigure
  <2>3. \A i \in 1..Len(u) : piece(i) \in Seq(Numerals)
    BY <2>1, <2>2
  <2> HIDE DEF piece
  <2> QED
    BY <1>1, <2>3
<1> HIDE DEF p
<1>6. FlattenSeq(p) \in Seq(Numerals) /\ WithoutCommas(FlattenSeq(p)) = u
  BY <1>4, <1>5, CommasVanish
<1>7. << >> \o FlattenSeq(p) = FlattenSeq(p)
  BY <1>6, Joining
<1> QED
  BY <1>3, <1>6, <1>7

-----------------------------------------------------------------------------
(* The text of an amount in a review. *)

PointAt(text) == SelectInSeq(text, LAMBDA ch : ch = ".")

\* No number begins with a sign.
LEMMA NoSign ==
  ASSUME NEW u \in Seq(Figures), u # << >>
  PROVE  u[1] \in Figures /\ u[1] # "-" /\ u[1] # "."
<1>1. \A d \in 0..9 : Ascii(d) # "-" /\ Ascii(d) # "."
  BY DEF Ascii
<1>2. u[1] \in Figures
  OBVIOUS
<1> QED
  BY <1>1, <1>2 DEF Figures

\* A whole number gets its separators.
LEMMA PlainShown ==
  ASSUME NEW u \in Seq(Figures), u # << >>
  PROVE  FormatNumberWithCommas(u) = AddCommas(u)
<1>1. Unsigned(u) = u /\ Sign(u) = << >>
  BY NoSign, PlainText
<1>2. PointAt(u) = 0
  <2>1. \A x \in Figures : x # "."
    BY DigitOfFigure DEF Figures
  <2>2. \A i \in 1..Len(u) : u[i] # "."
    BY <2>1
  <2> QED
    BY <2>2 DEF PointAt, SelectInSeq
<1>3. FormatNumberWithCommas(u) = << >> \o AddCommas(u)
  BY <1>1, <1>2 DEF FormatNumberWithCommas, PointAt
<1>4. AddCommas(u) \in Seq(Numerals)
  BY CommasAdded
<1> HIDE DEF Numerals
<1>5. << >> \o AddCommas(u) = AddCommas(u)
  BY <1>4, Joining
<1> QED
  BY <1>3, <1>5

\* What is left of a fraction.
LEMMA TrimText ==
  ASSUME NEW z \in Seq(Figures)
  PROVE  TrimZeros(z) = SubSeq(z, 1, LastFigure(z)) /\ TrimZeros(z) \in Seq(Figures)
<1>1. TrimZeros(z) = SubSeq(z, 1, LastFigure(z))
  BY DEF TrimZeros, LastFigure
<1>2. Len(z) \in Nat /\ LastFigure(z) \in 0..Len(z)
  BY LastFigureValue
<1> HIDE DEF LastFigure
<1>3. SubSeq(z, 1, LastFigure(z)) \in Seq(Figures)
  BY <1>2
<1> QED
  BY <1>1, <1>3

\* The parts of a number with a point.
HasParts(t, u, z) ==
  /\ t # << >> /\ t[1] # "-"
  /\ PointAt(t) = Len(u) + 1
  /\ SubSeq(t, 1, Len(u)) = u
  /\ SubSeq(t, Len(u) + 2, Len(t)) = z

LEMMA PointedParts ==
  ASSUME NEW u \in Seq(Figures), NEW z \in Seq(Figures), NEW t,
         u # << >>, t = u \o <<".">> \o z
  PROVE  HasParts(t, u, z)
<1> DEFINE L == Len(u)
           m == Len(z)
           I == {i \in 1..Len(t) : t[i] = "."}
<1>1. /\ L \in Nat /\ m \in Nat /\ L >= 1
      /\ t \in Seq(Figures \union {"."}) /\ Len(t) = L + 1 + m
      /\ \A i \in 1..L : t[i] = u[i]
      /\ t[L + 1] = "."
      /\ \A i \in 1..m : t[(L + 1) + i] = z[i]
  OBVIOUS
<1>2. \A i \in 1..L : u[i] # "."
  <2>1. \A x \in Figures : x # "."
    BY DigitOfFigure DEF Figures
  <2> QED
    BY <2>1
<1>3. t[1] # "-" /\ t # << >>
  <2>1. t[1] = u[1]
    BY <1>1
  <2> QED
    BY <1>1, <2>1, NoSign
<1>4. PointAt(t) = IF I # {} THEN Min(I) ELSE 0
  BY DEF PointAt, SelectInSeq
<1>5. L + 1 \in I /\ \A i \in I : L + 1 <= i
  <2> HIDE DEF L, m
  <2> QED
    BY <1>1, <1>2
<1>6. I \subseteq Nat
  OBVIOUS
<1>7. PointAt(t) = L + 1
  <2> HIDE DEF I, L
  <2>1. Min(I) \in I /\ \A i \in I : Min(I) <= i
    BY <1>5 DEF Min
  <2>3. \A q \in I : (\A i \in I : q <= i) => q = L + 1
    <3> SUFFICES ASSUME NEW q \in I, \A i \in I : q <= i PROVE q = L + 1
      OBVIOUS
    <3>1. q \in Nat /\ q <= L + 1 /\ L + 1 <= q
      BY <1>5, <1>6
    <3> QED
      BY <1>1, <3>1
  <2>2. Min(I) = L + 1
    BY <2>1, <2>3, Zenon
  <2> QED
    BY <1>4, <1>5, <2>2
<1>8. SubSeq(t, 1, L) = u
  <2> DEFINE a == SubSeq(t, 1, L)
  <2>1. a \in Seq(Figures \union {"."}) /\ Len(a) = L /\ \A i \in 1..L : a[i] = t[i]
    <3> HIDE DEF L, m
    <3> QED
      BY <1>1
  <2>2. u \in Seq(Figures \union {"."}) /\ Len(u) = L
    OBVIOUS
  <2>3. \A i \in 1..L : a[i] = u[i]
    BY <1>1, <2>1
  <2> HIDE DEF a, L
  <2>4. a = u
    BY <2>1, <2>2, <2>3, SeqEqual
  <2> QED
    BY <2>4 DEF a
<1>9. SubSeq(t, L + 2, Len(t)) = z
  <2> DEFINE a == SubSeq(t, L + 2, Len(t))
  <2>1. /\ a \in Seq(Figures \union {"."}) /\ Len(a) = m
        /\ \A i \in 1..m : a[i] = t[(L + 1) + i]
    <3> HIDE DEF L, m
    <3>1. L + 2 <= Len(t) + 1 /\ L + 2 \in Nat /\ Len(t) - (L + 2) + 1 = m
          /\ (\A i \in 1..m : L + 2 + i - 1 = (L + 1) + i)
          /\ \A i \in (L + 2)..Len(t) : t[i] \in Figures \union {"."}
      BY <1>1
    <3> QED
      BY <1>1, <3>1
  <2>2. z \in Seq(Figures \union {"."}) /\ Len(z) = m
    OBVIOUS
  <2>3. \A i \in 1..m : a[i] = z[i]
    BY <1>1, <2>1
  <2> HIDE DEF a, m
  <2>4. a = z
    BY <2>1, <2>2, <2>3, SeqEqual
  <2> QED
    BY <2>4 DEF a
<1> QED
  BY <1>3, <1>7, <1>8, <1>9 DEF HasParts

\* A number with a point gets separators before the point, and loses the zeros
\* at its end.
LEMMA PointedShown ==
  ASSUME NEW u \in Seq(Figures), NEW z \in Seq(Figures), u # << >>
  PROVE  FormatNumberWithCommas(u \o <<".">> \o z)
           = AddCommas(u) \o IF TrimZeros(z) = << >> THEN << >> ELSE <<".">> \o TrimZeros(z)
<1>t. PICK t : t = u \o <<".">> \o z
  OBVIOUS
<1> DEFINE f == TrimZeros(z)
           body == AddCommas(u) \o IF f = << >> THEN << >> ELSE <<".">> \o f
<1>1. /\ t # << >> /\ t[1] # "-"
      /\ PointAt(t) = Len(u) + 1
      /\ SubSeq(t, 1, Len(u)) = u
      /\ SubSeq(t, Len(u) + 2, Len(t)) = z
  <2>1. HasParts(t, u, z)
    BY <1>t, PointedParts, Zenon
  <2> QED
    BY <2>1 DEF HasParts
<1>2. Len(u) \in Nat /\ Len(u) + 1 # 0 /\ (Len(u) + 1) - 1 = Len(u)
      /\ (Len(u) + 1) + 1 = Len(u) + 2
  OBVIOUS
<1>3. Unsigned(t) = t /\ Sign(t) = << >>
  BY <1>1, PlainText
<1>4. FormatNumberWithCommas(t) = << >> \o body
  BY <1>1, <1>2, <1>3 DEF FormatNumberWithCommas, PointAt
<1>5. body \in Seq(Numerals)
  <2>1. AddCommas(u) \in Seq(Numerals)
    BY CommasAdded
  <2>2. f \in Seq(Numerals) /\ <<".">> \in Seq(Numerals)
    BY TrimText, FiguresAreNumerals
  <2>3. << >> \in Seq(Numerals)
    OBVIOUS
  <2> HIDE DEF f
  <2>4. <<".">> \o f \in Seq(Numerals)
    BY <2>2, Joining
  <2>5. (IF f = << >> THEN << >> ELSE <<".">> \o f) \in Seq(Numerals)
    BY <2>3, <2>4
  <2> QED
    BY <2>1, <2>5, Joining
<1>6. << >> \o body = body
  BY <1>5, Joining
<1> QED
  BY <1>4, <1>6, <1>t

\* The text of a review, without its separators, is the number Exchange shows.
LEMMA ReviewedAmount ==
  ASSUME NEW v \in Nat, NEW n \in 1..(SLOTS - DECIMAL_PLACES),
         Quotients(v)[DECIMAL_PLACES + n] = 0
  PROVE  WithoutCommas(FormatTokenAmount(v, DECIMAL_PLACES)) = AmountNumber(v)
<1> DEFINE D == DECIMAL_PLACES
           u == WholeText(WholePart(v))
           z == Slots(Fraction(v), D)
           f == TrimZeros(z)
           tail == IF f = << >> THEN << >> ELSE <<".">> \o f
<1>s. D \in 0..SLOTS /\ D \in Nat /\ SLOTS \in Nat /\ Fraction(v) \in Nat
      /\ n \in 0..(SLOTS - D)
  <2>1. n \in 0..(SLOTS - D)
    BY AmountAssumption DEF SLOTS
  <2> QED
    BY <2>1, AmountAssumption, PartsOfAmount DEF SLOTS
<1>1. u \in Seq(Figures) /\ u # << >>
  <2>1. u \in Seq(Figures) /\ Len(u) \in 1..n
    BY WholeOfAmount, WholeTextReads
  <2> QED
    BY <2>1
<1>2. z \in Seq(Figures) /\ Len(z) = D
  BY <1>s, SlotsText
<1>3. AddCommas(u) \in Seq(Numerals) /\ WithoutCommas(AddCommas(u)) = u
  BY <1>1, CommasAdded
<1>4. WithoutCommas(FormatTokenAmount(v, D)) = u \o IF D = 0 THEN << >> ELSE tail
  <2>1. CASE D = 0
    <3>1. FormatDecimal(v, D) = u
      BY <2>1, DecimalText
    <3>2. FormatTokenAmount(v, D) = AddCommas(u)
      <4> HIDE DEF u, D
      <4> QED
        BY <1>1, <3>1, PlainShown DEF FormatTokenAmount
    <3>3. u \in Seq(Numerals)
      BY <1>1, FiguresAreNumerals
    <3> HIDE DEF u, D
    <3>4. u \o << >> = u
      BY <3>3, Joining
    <3> QED
      BY <1>3, <2>1, <3>2, <3>4
  <2>2. CASE D # 0
    <3>1. FormatDecimal(v, D) = u \o <<".">> \o z
      BY <2>2, DecimalText
    <3>2. f \in Seq(Figures)
      BY <1>2, TrimText
    <3> HIDE DEF u, D, z
    <3>3. FormatTokenAmount(v, D) = AddCommas(u) \o tail
      BY <1>1, <1>2, <3>1, PointedShown DEF FormatTokenAmount
    <3> HIDE DEF f
    <3>4. tail \in Seq(Numerals) /\ \A i \in 1..Len(tail) : tail[i] # Comma
      <4>1. CASE f = << >>
        BY <4>1
      <4>2. CASE f # << >>
        <5>1. Comma # "." /\ \A i \in 1..Len(f) : f[i] # Comma
          BY <3>2, CommaIsNoFigure
        <5>2. f \in Seq(Numerals)
          BY <3>2, FiguresAreNumerals
        <5>3. Len(<<".">> \o f) = Len(f) + 1 /\ Len(f) \in Nat
              /\ (<<".">> \o f)[1] = "."
              /\ \A i \in 1..Len(f) : (<<".">> \o f)[i + 1] = f[i]
              /\ (<<".">> \o f) \in Seq(Numerals)
          BY <5>2, FiguresAreNumerals
        <5> DEFINE g == <<".">> \o f
        <5> HIDE DEF g
        <5>4. \A i \in 1..Len(g) : g[i] # Comma
          <6> SUFFICES ASSUME NEW i \in 1..Len(g) PROVE g[i] # Comma
            OBVIOUS
          <6>1. i = 1 \/ (i - 1 \in 1..Len(f) /\ (i - 1) + 1 = i)
            BY <5>3 DEF g
          <6> QED
            BY <5>1, <5>3, <6>1 DEF g
        <5> QED
          BY <4>2, <5>3, <5>4 DEF g
      <4> QED
        BY <4>1, <4>2
    <3> HIDE DEF tail
    <3>5. WithoutCommas(AddCommas(u) \o tail) = WithoutCommas(AddCommas(u)) \o tail
      BY <1>3, <3>4, WithoutCommasConcat
    <3> QED
      BY <1>3, <2>2, <3>3, <3>5
  <2> QED
    BY <2>1, <2>2
<1>5. CASE Fraction(v) = 0
  <2>1. AmountNumber(v) = u
    BY <1>5 DEF AmountNumber
  <2>2. f = << >>
    <3>1. \A i \in 1..D : z[i] = "0"
      <4> SUFFICES ASSUME NEW i \in 1..D PROVE z[i] = "0"
        OBVIOUS
      <4>1. D - i \in 0..SLOTS /\ 0 \in 0..SLOTS
        BY <1>s
      <4>2. Quotients(0)[0] = 0
        BY QuotientsValues
      <4>3. Quotients(0)[D - i] = 0
        BY <4>1, <4>2, NothingStays
      <4>4. z[i] = Ascii(Quotients(Fraction(v))[D - i] % 10)
        BY <1>s, SlotsText
      <4> QED
        BY <1>5, <4>3, <4>4 DEF Ascii
    <3> HIDE DEF z
    <3>2. LastFigure(z) = 0
      <4>1. LastFigure(z) \in 0..Len(z) /\ (LastFigure(z) # 0 => z[LastFigure(z)] # "0")
        BY <1>2, <1>s, LastFigureValue
      <4> QED
        BY <1>2, <1>s, <3>1, <4>1
    <3> QED
      BY <1>2, <3>2, TrimText, SubSeqEmpty
  <2>3. u \in Seq(Numerals)
    BY <1>1, FiguresAreNumerals
  <2> HIDE DEF u, f
  <2>4. u \o << >> = u
    BY <2>3, Joining
  <2> QED
    BY <1>4, <2>1, <2>2, <2>4
<1>6. CASE Fraction(v) # 0
  <2>1. AmountNumber(v) = u \o <<".">> \o FractionText(Fraction(v))
    BY <1>6 DEF AmountNumber
  <2>2. f = FractionText(Fraction(v))
    BY <1>2, TrimText DEF FractionText
  <2>3. D # 0 /\ f # << >> /\ f \in Seq(Figures)
    <3>1. PICK last \in 1..DECIMAL_PLACES :
            FractionText(Fraction(v)) \in Seq(Figures) /\ Len(FractionText(Fraction(v))) = last
      BY <1>6, FractionTextReads
    <3> HIDE DEF f
    <3> QED
      BY <1>s, <2>2, <3>1
  <2>4. u \in Seq(Numerals) /\ f \in Seq(Numerals) /\ <<".">> \in Seq(Numerals)
    BY <1>1, <2>3, FiguresAreNumerals
  <2> HIDE DEF u, f, D
  <2>5. u \o (<<".">> \o f) = u \o <<".">> \o f
    BY <2>4, ConcatAssociative
  <2> QED
    BY <1>4, <2>1, <2>2, <2>3, <2>5 DEF D
<1> QED
  BY <1>5, <1>6

LEMMA ReviewedText ==
  ASSUME NEW v \in Nat, v <= I64_MAX
  PROVE  WithoutCommas(FormatTokenAmount(v, DECIMAL_PLACES)) = AmountNumber(v)
<1>1. PICK n \in 1..(SLOTS - DECIMAL_PLACES) : Quotients(I64_MAX)[DECIMAL_PLACES + n] = 0
  BY BufferAssumption
<1>2. Quotients(v)[DECIMAL_PLACES + n] = 0
  <2>1. DECIMAL_PLACES + n \in 0..SLOTS
    BY AmountAssumption DEF SLOTS
  <2>2. /\ Quotients(v)[DECIMAL_PLACES + n] <= Quotients(I64_MAX)[DECIMAL_PLACES + n]
        /\ Quotients(v)[DECIMAL_PLACES + n] \in Nat
    BY <2>1, AmountAssumption, QuotientsMonotone, QuotientsValues
  <2> QED
    BY <1>1, <2>2
<1> QED
  BY <1>2, ReviewedAmount
=============================================================================
