---------------------------- MODULE AddressProofs ----------------------------
(***************************************************************************)
(* The address names the key, for every key, whatever its length and the   *)
(* width of the buffer of the base32 loop.                                 *)
(***************************************************************************)
EXTENDS AccountAddress, RecursiveFunctions

-----------------------------------------------------------------------------
(* Powers of two, and the bits of a number. *)

LEMMA TwoToValues ==
  /\ TwoTo[0] = 1
  /\ \A n \in Nat : TwoTo[n + 1] = 2 * TwoTo[n]
  /\ \A n \in Nat : TwoTo[n] \in Nat \ {0}
<1> DEFINE base == [n \in {0} |-> 1]
           size == [n \in Nat |-> n]
           before == [n \in Nat |-> IF n = 0 THEN 0 ELSE n - 1]
           advance == [p \in Nat \X Nat |-> 2 * p[2]]
<1>1. base \in [{0} -> Nat] /\ size \in [Nat -> Nat] /\ before \in [Nat -> Nat]
      /\ advance \in [Nat \X Nat -> Nat]
  OBVIOUS
<1>2. \A n \in Nat \ {0} : size[before[n]] < size[n]
  OBVIOUS
<1>3. {0} \in SUBSET Nat /\ {0} # {}
  OBVIOUS
<1>4. PICK f \in [Nat -> Nat] : Recurs(f, Nat, base, before, advance)
  <2> HIDE DEF base, size, before, advance
  <2> QED
    BY <1>1, <1>2, <1>3, RecursionExists
<1>5. f = [n \in Nat |-> IF n = 0 THEN 1 ELSE 2 * f[n - 1]]
  <2>1. ASSUME NEW n \in Nat
        PROVE  f[n] = IF n = 0 THEN 1 ELSE 2 * f[n - 1]
    <3>1. f[n] = IF n \in DOMAIN base THEN base[n] ELSE advance[<<n, f[before[n]]>>]
      BY <1>4 DEF Recurs
    <3>2. before[n] \in Nat /\ f[before[n]] \in Nat /\ (n # 0 => before[n] = n - 1)
      BY <1>1, <1>4
    <3> QED
      BY <3>1, <3>2
  <2>2. f = [n \in Nat |-> f[n]]
    BY <1>4
  <2> QED
    BY <2>1, <2>2
<1> DEFINE T == CHOOSE g : g = [n \in Nat |-> IF n = 0 THEN 1 ELSE 2 * g[n - 1]]
<1>6. T = [n \in Nat |-> IF n = 0 THEN 1 ELSE 2 * T[n - 1]]
  BY <1>5
<1>7. TwoTo = T
  BY DEF TwoTo
<1> HIDE DEF T
<1>8. TwoTo[0] = 1
  BY <1>6, <1>7
<1>9. ASSUME NEW n \in Nat PROVE TwoTo[n + 1] = 2 * TwoTo[n]
  <2>1. n + 1 \in Nat /\ n + 1 # 0 /\ (n + 1) - 1 = n
    OBVIOUS
  <2> QED
    BY <1>6, <1>7, <2>1
<1>10. \A n \in Nat : TwoTo[n] \in Nat \ {0}
  <2> DEFINE S == {n \in Nat : TwoTo[n] \in Nat \ {0}}
  <2>1. 0 \in S
    BY <1>8
  <2>2. ASSUME NEW n \in Nat, n \in S
        PROVE  n + 1 \in S
    BY <1>9, <2>2
  <2> HIDE DEF S
  <2>3. \A n \in Nat : n \in S
    BY <2>1, <2>2, SetInduction
  <2> QED
    BY <2>3 DEF S
<1> QED
  BY <1>8, <1>9, <1>10

\* The powers that a byte and a symbol need.
LEMMA SmallPowers ==
  /\ TwoTo[0] = 1 /\ TwoTo[1] = 2 /\ TwoTo[2] = 4 /\ TwoTo[3] = 8 /\ TwoTo[4] = 16
  /\ TwoTo[5] = 32 /\ TwoTo[6] = 64 /\ TwoTo[7] = 128 /\ TwoTo[8] = 256
  /\ TwoTo[9] = 512 /\ TwoTo[10] = 1024 /\ TwoTo[11] = 2048 /\ TwoTo[12] = 4096
<1>1. /\ TwoTo[1] = 2 * TwoTo[0] /\ TwoTo[2] = 2 * TwoTo[1] /\ TwoTo[3] = 2 * TwoTo[2]
      /\ TwoTo[4] = 2 * TwoTo[3] /\ TwoTo[5] = 2 * TwoTo[4] /\ TwoTo[6] = 2 * TwoTo[5]
      /\ TwoTo[7] = 2 * TwoTo[6] /\ TwoTo[8] = 2 * TwoTo[7] /\ TwoTo[9] = 2 * TwoTo[8]
      /\ TwoTo[10] = 2 * TwoTo[9] /\ TwoTo[11] = 2 * TwoTo[10] /\ TwoTo[12] = 2 * TwoTo[11]
  <2>1. \A n \in 0..11 : TwoTo[n + 1] = 2 * TwoTo[n]
    BY TwoToValues
  <2>2. /\ 0 + 1 = 1 /\ 1 + 1 = 2 /\ 2 + 1 = 3 /\ 3 + 1 = 4 /\ 4 + 1 = 5 /\ 5 + 1 = 6
        /\ 6 + 1 = 7 /\ 7 + 1 = 8 /\ 8 + 1 = 9 /\ 9 + 1 = 10 /\ 10 + 1 = 11 /\ 11 + 1 = 12
    OBVIOUS
  <2> QED
    BY <2>1, <2>2
<1> QED
  BY <1>1, TwoToValues

\* Quotient and remainder are what they have to be.
LEMMA DivisionIs ==
  ASSUME NEW a \in Nat, NEW p \in Nat \ {0}, NEW q \in Nat, NEW r \in 0..(p - 1),
         a = q * p + r
  PROVE  a \div p = q /\ a % p = r
<1> DEFINE x == a \div p
           y == a % p
<1>1. x \in Nat /\ y \in 0..(p - 1) /\ a = p * x + y
  OBVIOUS
<1> HIDE DEF x, y
<1>2. ~(x < q)
  <2> SUFFICES ASSUME x < q PROVE FALSE
    OBVIOUS
  <2>1. PICK k \in Nat : q = x + 1 + k
    <3>1. q - x - 1 \in Nat /\ q = x + 1 + (q - x - 1)
      BY <1>1
    <3> QED
      BY <3>1
  <2>2. a = p * x + p + p * k + r /\ p * k >= 0
    BY <2>1, <1>1
  <2> QED
    BY <1>1, <2>2
<1>3. ~(q < x)
  <2> SUFFICES ASSUME q < x PROVE FALSE
    OBVIOUS
  <2>1. PICK k \in Nat : x = q + 1 + k
    <3>1. x - q - 1 \in Nat /\ x = q + 1 + (x - q - 1)
      BY <1>1
    <3> QED
      BY <3>1
  <2>2. a = p * q + p + p * k + y /\ p * k >= 0
    BY <2>1, <1>1
  <2> QED
    BY <1>1, <2>2
<1>4. x = q
  BY <1>1, <1>2, <1>3
<1>5. y = r
  BY <1>1, <1>4
<1> QED
  BY <1>4, <1>5 DEF x, y

\* One bit more than x has, divided by one power more.
LEMMA HalfDivided ==
  ASSUME NEW x \in Nat, NEW d \in 0..1, NEW p \in Nat \ {0}
  PROVE  (2 * x + d) \div (2 * p) = x \div p
<1> DEFINE q == x \div p
           r == x % p
<1>1. q \in Nat /\ r \in 0..(p - 1) /\ x = p * q + r
  OBVIOUS
<1> HIDE DEF q, r
<1>2. 2 * x + d = q * (2 * p) + (2 * r + d)
  BY <1>1
<1>3. 2 * x + d \in Nat /\ 2 * p \in Nat \ {0} /\ 2 * r + d \in 0..(2 * p - 1)
  BY <1>1
<1>4. (2 * x + d) \div (2 * p) = q
  BY <1>1, <1>2, <1>3, DivisionIs
<1> QED
  BY <1>4 DEF q

LEMMA BitsType ==
  ASSUME NEW x \in Nat, NEW n \in Nat
  PROVE  Bits(x, n) \in Seq(0..1) /\ Len(Bits(x, n)) = n
<1>1. \A i \in 1..n : (x \div TwoTo[n - i]) % 2 \in 0..1
  <2> SUFFICES ASSUME NEW i \in 1..n PROVE (x \div TwoTo[n - i]) % 2 \in 0..1
    OBVIOUS
  <2>1. n - i \in Nat
    OBVIOUS
  <2>2. TwoTo[n - i] \in Nat \ {0}
    BY <2>1, TwoToValues
  <2>3. x \div TwoTo[n - i] \in Nat
    BY <2>2
  <2> QED
    BY <2>3
<1> QED
  BY <1>1 DEF Bits

\* A number's last bit comes after the bits of its half.
LEMMA BitsNext ==
  ASSUME NEW x \in Nat, NEW d \in 0..1, NEW n \in Nat
  PROVE  Bits(2 * x + d, n + 1) = Append(Bits(x, n), d)
<1> DEFINE a == Bits(2 * x + d, n + 1)
           u == Bits(x, n)
           b == Append(u, d)
<1>1. a \in Seq(0..1) /\ Len(a) = n + 1
  <2>1. 2 * x + d \in Nat /\ n + 1 \in Nat
    OBVIOUS
  <2> QED
    BY <2>1, BitsType
<1>2. u \in Seq(0..1) /\ Len(u) = n
  BY BitsType
<1>3. \A i \in 1..n : u[i] = (x \div TwoTo[n - i]) % 2
  BY DEF Bits
<1>4. \A i \in 1..(n + 1) : a[i] = ((2 * x + d) \div TwoTo[(n + 1) - i]) % 2
  BY DEF Bits
<1> HIDE DEF a, u
<1>5. b \in Seq(0..1) /\ Len(b) = n + 1 /\ b[n + 1] = d /\ \A i \in 1..n : b[i] = u[i]
  BY <1>2
<1> HIDE DEF b
<1>6. \A i \in 1..(n + 1) : a[i] = b[i]
  <2> SUFFICES ASSUME NEW i \in 1..(n + 1) PROVE a[i] = b[i]
    OBVIOUS
  <2>1. CASE i = n + 1
    <3>1. TwoTo[(n + 1) - i] = 1
      BY <2>1, TwoToValues
    <3>2. (2 * x + d) \div 1 = 2 * x + d /\ (2 * x + d) % 2 = d
      OBVIOUS
    <3> QED
      BY <1>4, <1>5, <2>1, <3>1, <3>2
  <2>2. CASE i \in 1..n
    <3>1. n - i \in Nat /\ (n + 1) - i = (n - i) + 1
      BY <2>2
    <3>2. TwoTo[(n + 1) - i] = 2 * TwoTo[n - i] /\ TwoTo[n - i] \in Nat \ {0}
      BY <3>1, TwoToValues
    <3>3. (2 * x + d) \div (2 * TwoTo[n - i]) = x \div TwoTo[n - i]
      BY <3>2, HalfDivided
    <3> QED
      BY <1>3, <1>4, <1>5, <2>2, <3>2, <3>3
  <2> QED
    BY <2>1, <2>2
<1>7. a = b
  BY <1>1, <1>5, <1>6, SeqEqual
<1> QED
  BY <1>7 DEF a, b, u

\* Appending a bit to joined sequences appends it to the second.
LEMMA BitJoined ==
  \A u, f \in Seq(0..1) : \A e \in 0..1 : u \o Append(f, e) = Append(u \o f, e)
BY Joining

\* The bits of a number are those of its upper part, then those of its lower.
LEMMA BitsSplit ==
  ASSUME NEW n \in Nat, NEW m \in Nat, NEW x \in Nat, NEW y \in 0..(TwoTo[m] - 1)
  PROVE  Bits(x * TwoTo[m] + y, n + m) = Bits(x, n) \o Bits(y, m)
<1> DEFINE Splits(k) == \A z \in 0..(TwoTo[k] - 1) :
                          Bits(x * TwoTo[k] + z, n + k) = Bits(x, n) \o Bits(z, k)
           S == {k \in Nat : Splits(k)}
<1>1. Splits(0)
  <2> SUFFICES ASSUME NEW z \in 0..(TwoTo[0] - 1)
               PROVE  Bits(x * TwoTo[0] + z, n + 0) = Bits(x, n) \o Bits(z, 0)
    OBVIOUS
  <2>1. TwoTo[0] = 1 /\ z = 0
    BY TwoToValues
  <2>2. x * TwoTo[0] + z = x /\ n + 0 = n
    BY <2>1
  <2>3. Bits(z, 0) = << >>
    BY DEF Bits
  <2>4. Bits(x, n) \o << >> = Bits(x, n)
    BY BitsType, Joining
  <2> QED
    BY <2>2, <2>3, <2>4
<1>2. ASSUME NEW k \in Nat, Splits(k)
      PROVE  Splits(k + 1)
  <2> SUFFICES ASSUME NEW z \in 0..(TwoTo[k + 1] - 1)
               PROVE  Bits(x * TwoTo[k + 1] + z, n + (k + 1)) = Bits(x, n) \o Bits(z, k + 1)
    OBVIOUS
  <2> DEFINE p == TwoTo[k]
             h == z \div 2
             d == z % 2
             w == x * p + h
  <2>1. TwoTo[k + 1] = 2 * p /\ p \in Nat \ {0}
    BY TwoToValues
  <2> HIDE DEF p
  <2>2. d \in 0..1 /\ h \in 0..(p - 1) /\ z = 2 * h + d
    BY <2>1
  <2> HIDE DEF h, d
  <2>3. w \in Nat /\ x * TwoTo[k + 1] + z = 2 * w + d /\ n + (k + 1) = (n + k) + 1
    <3>1. x * p \in Nat /\ x * (2 * p) = 2 * (x * p)
      BY <2>1
    <3> QED
      BY <2>1, <2>2, <3>1
  <2>n. h \in Nat /\ n + k \in Nat
    BY <2>1, <2>2
  <2>4. Bits(w, n + k) = Bits(x, n) \o Bits(h, k)
    BY <1>2, <2>2 DEF p
  <2> HIDE DEF w
  <2>5. Bits(2 * w + d, (n + k) + 1) = Append(Bits(w, n + k), d)
    BY <2>2, <2>3, <2>n, BitsNext
  <2>6. Bits(2 * h + d, k + 1) = Append(Bits(h, k), d)
    BY <2>2, <2>n, BitsNext
  <2>7. Bits(x, n) \o Append(Bits(h, k), d) = Append(Bits(x, n) \o Bits(h, k), d)
    <3>1. Bits(x, n) \in Seq(0..1) /\ Bits(h, k) \in Seq(0..1)
      BY <2>n, BitsType
    <3>2. \A u, f \in Seq(0..1) : \A e \in 0..1 : u \o Append(f, e) = Append(u \o f, e)
      BY BitJoined, Zenon
    <3>3. d \in 0..1
      BY <2>2
    <3> QED
      BY <3>1, <3>2, <3>3, Zenon
  <2> QED
    BY <2>2, <2>3, <2>4, <2>5, <2>6, <2>7
<1> HIDE DEF Splits
<1>3. 0 \in S
  BY <1>1
<1>4. ASSUME NEW k \in Nat, k \in S
      PROVE  k + 1 \in S
  BY <1>2, <1>4
<1> HIDE DEF S
<1>5. \A k \in Nat : k \in S
  BY <1>3, <1>4, SetInduction
<1>6. Splits(m)
  BY <1>5 DEF S
<1> QED
  BY <1>6 DEF Splits

-----------------------------------------------------------------------------
(* The bits of a sequence of numbers. *)

\* One number more.
LEMMA AllBitsAppend ==
  ASSUME NEW s \in Seq(Nat), NEW x \in Nat, NEW w \in Nat
  PROVE  /\ AllBits(s, w) \in Seq(0..1)
         /\ AllBits(Append(s, x), w) = AllBits(s, w) \o Bits(x, w)
<1> DEFINE pieces(u) == [i \in DOMAIN u |-> Bits(u[i], w)]
           t == Append(s, x)
           a == pieces(t)
           b == Append(pieces(s), Bits(x, w))
           m == Len(s)
<1>1. /\ t \in Seq(Nat) /\ Len(t) = m + 1 /\ t[m + 1] = x
      /\ m \in Nat /\ \A i \in 1..m : t[i] = s[i]
  OBVIOUS
<1>2. \A u \in Seq(Nat) : /\ pieces(u) \in Seq(Seq(0..1)) /\ Len(pieces(u)) = Len(u)
                         /\ \A i \in 1..Len(u) : pieces(u)[i] = Bits(u[i], w)
  <2> SUFFICES ASSUME NEW u \in Seq(Nat)
               PROVE  /\ pieces(u) \in Seq(Seq(0..1)) /\ Len(pieces(u)) = Len(u)
                      /\ \A i \in 1..Len(u) : pieces(u)[i] = Bits(u[i], w)
    OBVIOUS
  <2>1. Len(u) \in Nat /\ DOMAIN u = 1..Len(u) /\ \A i \in 1..Len(u) : u[i] \in Nat
    OBVIOUS
  <2>2. \A i \in 1..Len(u) : Bits(u[i], w) \in Seq(0..1)
    BY <2>1, BitsType
  <2> DEFINE p == [i \in 1..Len(u) |-> Bits(u[i], w)]
  <2>3. p \in Seq(Seq(0..1)) /\ Len(p) = Len(u)
    BY <2>1, <2>2
  <2>4. pieces(u) = p
    BY <2>1, Zenon
  <2>5. \A i \in 1..Len(u) : p[i] = Bits(u[i], w)
    OBVIOUS
  <2> HIDE DEF p, pieces
  <2> QED
    BY <2>3, <2>4, <2>5
<1>3. Bits(x, w) \in Seq(0..1)
  BY BitsType
<1> HIDE DEF m, pieces, t
<1>4. a \in Seq(Seq(0..1)) /\ Len(a) = m + 1 /\ a[m + 1] = Bits(x, w)
      /\ \A i \in 1..m : a[i] = Bits(s[i], w)
  <2>1. /\ a \in Seq(Seq(0..1)) /\ Len(a) = Len(t)
        /\ \A i \in 1..Len(t) : a[i] = Bits(t[i], w)
    BY <1>1, <1>2
  <2> HIDE DEF a
  <2>2. m + 1 \in 1..Len(t) /\ \A i \in 1..m : i \in 1..Len(t)
    BY <1>1
  <2> QED
    BY <1>1, <2>1, <2>2
<1>5. pieces(s) \in Seq(Seq(0..1)) /\ Len(pieces(s)) = m
      /\ \A i \in 1..m : pieces(s)[i] = Bits(s[i], w)
  BY <1>2 DEF m
<1>6. b \in Seq(Seq(0..1)) /\ Len(b) = m + 1 /\ b[m + 1] = Bits(x, w)
      /\ \A i \in 1..m : b[i] = Bits(s[i], w)
  <2> DEFINE q == pieces(s)
  <2> HIDE DEF q
  <2>1. q \in Seq(Seq(0..1)) /\ Len(q) = m /\ \A i \in 1..m : q[i] = Bits(s[i], w)
    BY <1>5 DEF q
  <2> QED
    BY <1>1, <1>3, <2>1, JoinedParts DEF q
<1> HIDE DEF a, b
<1>7. \A i \in 1..(m + 1) : a[i] = b[i]
  <2> SUFFICES ASSUME NEW i \in 1..(m + 1) PROVE a[i] = b[i]
    OBVIOUS
  <2>1. i \in 1..m \/ i = m + 1
    BY <1>1
  <2> QED
    BY <1>4, <1>6, <2>1
<1>8. a = b
  BY <1>4, <1>6, <1>7, SeqEqual
<1>9. \A u : AllBits(u, w) = FlattenSeq(pieces(u))
  BY DEF AllBits, pieces
<1>10. FlattenSeq(b) = FlattenSeq(pieces(s)) \o Bits(x, w)
  BY <1>3, <1>5, FlattenAppend DEF b
<1>11. FlattenSeq(pieces(s)) \in Seq(0..1)
  BY <1>5, FlattenType
<1> QED
  BY <1>8, <1>9, <1>10, <1>11 DEF a, t

LEMMA AllBitsNothing == ASSUME NEW w PROVE AllBits(<< >>, w) = << >>
BY DEF AllBits, FlattenSeq

\* Each number has its bits in their place.
LEMMA AllBitsAt ==
  ASSUME NEW s \in Seq(Nat), NEW w \in Nat
  PROVE  /\ Len(AllBits(s, w)) = w * Len(s)
         /\ \A j \in 1..Len(s), b \in 1..w :
              AllBits(s, w)[w * (j - 1) + b] = Bits(s[j], w)[b]
<1> DEFINE n == Len(s)
           first(k) == AllBits(SubSeq(s, 1, k), w)
           Placed(k) == /\ first(k) \in Seq(0..1)
                        /\ Len(first(k)) = w * k
                        /\ \A j \in 1..k, b \in 1..w :
                             first(k)[w * (j - 1) + b] = Bits(s[j], w)[b]
           S == {k \in 0..n : Placed(k)}
<1>0. n \in Nat /\ n \in 0..n /\ 0 \in 0..n
  OBVIOUS
<1>1. Placed(0)
  <2>1. SubSeq(s, 1, 0) = << >>
    BY SubSeqEmpty
  <2>2. first(0) = << >>
    BY <2>1, AllBitsNothing
  <2>3. << >> \in Seq(0..1) /\ Len(<< >>) = 0 /\ w * 0 = 0
    OBVIOUS
  <2>4. first(0) \in Seq(0..1) /\ Len(first(0)) = w * 0
    BY <2>2, <2>3, Zenon
  <2>5. 1..0 = {}
    OBVIOUS
  <2> HIDE DEF first
  <2> QED
    BY <2>4, <2>5, Zenon
<1>2. ASSUME NEW k \in 0..(n - 1), Placed(k)
      PROVE  Placed(k + 1)
  <2>1. k \in Nat /\ k + 1 \in 1..n /\ s[k + 1] \in Nat
    BY <1>0
  <2>2. SubSeq(s, 1, k) \in Seq(Nat) /\ SubSeq(s, 1, k + 1) = Append(SubSeq(s, 1, k), s[k + 1])
    BY OneMoreTaken
  <2> DEFINE f == first(k)
             g == Bits(s[k + 1], w)
  <2>3. first(k + 1) = f \o g
    BY <2>1, <2>2, AllBitsAppend, ZenonT(60)
  <2>4. /\ f \in Seq(0..1) /\ Len(f) = w * k
        /\ \A j \in 1..k, b \in 1..w : f[w * (j - 1) + b] = Bits(s[j], w)[b]
    BY <1>2
  <2>5. g \in Seq(0..1) /\ Len(g) = w
    BY <2>1, BitsType
  <2> HIDE DEF f, first
  <2>6. /\ \A b \in 1..w : (f \o g)[w * k + b] = g[b]
        /\ \A i \in 1..(w * k) : (f \o g)[i] = f[i]
        /\ f \o g \in Seq(0..1) /\ Len(f \o g) = w * k + w
    <3> HIDE DEF g
    <3>1. /\ f \o g \in Seq(0..1) /\ Len(f \o g) = Len(f) + Len(g)
          /\ \A i \in 1..Len(f) : (f \o g)[i] = f[i]
          /\ \A i \in 1..Len(g) : (f \o g)[Len(f) + i] = g[i]
      <4>1. \A u, h \in Seq(0..1) :
              /\ u \o h \in Seq(0..1) /\ Len(u \o h) = Len(u) + Len(h)
              /\ \A i \in 1..Len(u) : (u \o h)[i] = u[i]
              /\ \A i \in 1..Len(h) : (u \o h)[Len(u) + i] = h[i]
        BY JoinedParts
      <4>2. f \in Seq(0..1) /\ g \in Seq(0..1)
        BY <2>4, <2>5
      <4> QED
        BY <4>1, <4>2, Zenon
    <3>2. Len(f) = w * k /\ Len(g) = w
      BY <2>4, <2>5
    <3> QED
      BY <3>1, <3>2, Zenon
  <2>7. w * k + w = w * (k + 1)
    BY <2>1
  <2>8. ASSUME NEW j \in 1..(k + 1), NEW b \in 1..w
        PROVE  (f \o g)[w * (j - 1) + b] = Bits(s[j], w)[b]
    <3>1. CASE j = k + 1
      <4>1. j - 1 = k
        BY <2>1, <3>1
      <4> QED
        BY <2>6, <3>1, <4>1
    <3>2. CASE j \in 1..k
      <4>1. w * (j - 1) + b \in 1..(w * k)
        <5>1. PICK c \in Nat : k = j + c
          <6>1. k - j \in Nat /\ k = j + (k - j)
            BY <2>1, <3>2
          <6> QED
            BY <6>1
        <5>2. w * k = w * (j - 1) + w + w * c /\ w * c \in Nat /\ w * (j - 1) \in Nat
          BY <3>2, <5>1
        <5> QED
          BY <5>2
      <4>2. f[w * (j - 1) + b] = Bits(s[j], w)[b]
        BY <2>4, <3>2
      <4> DEFINE e == w * (j - 1) + b
      <4> HIDE DEF e, g
      <4>3. (f \o g)[e] = f[e]
        BY <2>6, <4>1 DEF e
      <4> QED
        BY <4>2, <4>3 DEF e
    <3>3. j = k + 1 \/ j \in 1..k
      BY <2>1
    <3> QED
      BY <3>1, <3>2, <3>3, Zenon
  <2> HIDE DEF g
  <2> QED
    BY <2>3, <2>6, <2>7, <2>8
<1>3. SubSeq(s, 1, n) = s
  BY SubSeqFull
<1>4. first(n) = AllBits(s, w)
  BY <1>3
<1> HIDE DEF n, Placed
<1>5. 0 \in S
  BY <1>0, <1>1
<1>6. ASSUME NEW k \in 0..(n - 1), k \in S
      PROVE  k + 1 \in S
  BY <1>0, <1>2, <1>6
<1> HIDE DEF S
<1>7. \A k \in 0..n : k \in S
  BY <1>0, <1>5, <1>6, IntervalInduction
<1>8. Placed(n)
  BY <1>0, <1>7 DEF S
<1> HIDE DEF first
<1> QED
  BY <1>4, <1>8 DEF Placed, n

-----------------------------------------------------------------------------
(* The exclusive or. *)

\* Bit by bit, from the last.
LEMMA XorSteps ==
  /\ \A a, b \in Nat : Xor(a, b) \in Nat
  /\ Xor(0, 0) = 0
  /\ \A a, b \in Nat : Xor(a, b) = 2 * Xor(a \div 2, b \div 2) + ((a + b) % 2)
<1> DEFINE P == Nat \X Nat
           base == [p \in {<<0, 0>>} |-> 0]
           size == [p \in P |-> p[1] + p[2]]
           before == [p \in P |-> <<p[1] \div 2, p[2] \div 2>>]
           advance == [q \in P \X Nat |-> 2 * q[2] + ((q[1][1] + q[1][2]) % 2)]
<1>1. base \in [{<<0, 0>>} -> Nat] /\ size \in [P -> Nat]
  OBVIOUS
<1>h. \A a \in Nat : a \div 2 \in Nat /\ a \div 2 <= a /\ (a # 0 => a \div 2 < a)
  OBVIOUS
<1>2. before \in [P -> P]
  BY <1>h
<1>3. advance \in [P \X Nat -> Nat]
  <2> SUFFICES ASSUME NEW p \in P, NEW n \in Nat
               PROVE  2 * n + ((p[1] + p[2]) % 2) \in Nat
    OBVIOUS
  <2>1. p[1] + p[2] \in Nat
    OBVIOUS
  <2>2. (p[1] + p[2]) % 2 \in 0..1
    BY <2>1
  <2> QED
    BY <2>2
<1>4. \A p \in P \ {<<0, 0>>} : size[before[p]] < size[p]
  <2> SUFFICES ASSUME NEW p \in P, p # <<0, 0>>
               PROVE  size[before[p]] < size[p]
    OBVIOUS
  <2>0. PICK a \in Nat, b \in Nat : p = <<a, b>>
    OBVIOUS
  <2>1. before[<<a, b>>] = <<a \div 2, b \div 2>> /\ a \div 2 \in Nat /\ b \div 2 \in Nat
    BY <1>h
  <2>2. size[before[<<a, b>>]] = (a \div 2) + (b \div 2) /\ size[<<a, b>>] = a + b
    BY <2>1
  <2>3. a # 0 \/ b # 0
    BY <2>0
  <2>4. (a \div 2) + (b \div 2) < a + b
    BY <1>h, <2>3
  <2> QED
    BY <2>0, <2>2, <2>4, Zenon
<1>5. {<<0, 0>>} \in SUBSET P /\ {<<0, 0>>} # {}
  OBVIOUS
<1>6. PICK f \in [P -> Nat] : Recurs(f, P, base, before, advance)
  <2> HIDE DEF P, base, size, before, advance
  <2> QED
    BY <1>1, <1>2, <1>3, <1>4, <1>5, RecursionExists, ZenonT(60)
<1>7. f = [p \in Nat \X Nat |->
            IF p = <<0, 0>> THEN 0
            ELSE 2 * f[<<p[1] \div 2, p[2] \div 2>>] + ((p[1] + p[2]) % 2)]
  <2>1. ASSUME NEW p \in P
        PROVE  f[p] = IF p = <<0, 0>> THEN 0
                      ELSE 2 * f[<<p[1] \div 2, p[2] \div 2>>] + ((p[1] + p[2]) % 2)
    <3>1. f[p] = IF p \in DOMAIN base THEN base[p] ELSE advance[<<p, f[before[p]]>>]
      BY <1>6 DEF Recurs
    <3>2. DOMAIN base = {<<0, 0>>} /\ base[<<0, 0>>] = 0
      OBVIOUS
    <3>3. before[p] = <<p[1] \div 2, p[2] \div 2>> /\ before[p] \in P /\ f[before[p]] \in Nat
      BY <1>2, <1>6
    <3>4. advance[<<p, f[before[p]]>>] = 2 * f[before[p]] + ((p[1] + p[2]) % 2)
      BY <3>3
    <3> HIDE DEF base, before, advance
    <3> QED
      BY <3>1, <3>2, <3>3, <3>4
  <2>2. f = [p \in P |-> f[p]]
    BY <1>6
  <2> QED
    BY <2>1, <2>2
<1> DEFINE X == CHOOSE g : g = [p \in Nat \X Nat |->
                  IF p = <<0, 0>> THEN 0
                  ELSE 2 * g[<<p[1] \div 2, p[2] \div 2>>] + ((p[1] + p[2]) % 2)]
<1>8. X = f
  <2>1. X = [p \in Nat \X Nat |->
              IF p = <<0, 0>> THEN 0
              ELSE 2 * X[<<p[1] \div 2, p[2] \div 2>>] + ((p[1] + p[2]) % 2)]
    BY <1>7, Zenon
  <2> DEFINE S == {n \in Nat : \A p \in P : p[1] + p[2] <= n => X[p] = f[p]}
  <2> HIDE DEF X
  <2>v. /\ X[<<0, 0>>] = 0 /\ f[<<0, 0>>] = 0
        /\ \A a, b \in Nat : <<a, b>> # <<0, 0>> =>
             /\ X[<<a, b>>] = 2 * X[<<a \div 2, b \div 2>>] + ((a + b) % 2)
             /\ f[<<a, b>>] = 2 * f[<<a \div 2, b \div 2>>] + ((a + b) % 2)
    BY <1>7, <2>1
  <2>2. 0 \in S
    BY <2>v
  <2>3. ASSUME NEW n \in Nat, n \in S
        PROVE  n + 1 \in S
    <3> SUFFICES ASSUME NEW a \in Nat, NEW b \in Nat, a + b <= n + 1
                 PROVE  X[<<a, b>>] = f[<<a, b>>]
      OBVIOUS
    <3>1. CASE <<a, b>> = <<0, 0>>
      BY <2>v, <3>1
    <3>2. CASE <<a, b>> # <<0, 0>>
      <4>1. a # 0 \/ b # 0
        BY <3>2
      <4>2. a \div 2 \in Nat /\ b \div 2 \in Nat /\ (a \div 2) + (b \div 2) <= n
        BY <1>h, <4>1
      <4>3. X[<<a \div 2, b \div 2>>] = f[<<a \div 2, b \div 2>>]
        BY <2>3, <4>2
      <4> QED
        BY <2>v, <3>2, <4>3
    <3> QED
      BY <3>1, <3>2
  <2> HIDE DEF S
  <2>4. \A n \in Nat : n \in S
    BY <2>2, <2>3, SetInduction
  <2>5. ASSUME NEW p \in P PROVE X[p] = f[p]
    <3>1. p[1] + p[2] \in Nat
      OBVIOUS
    <3> QED
      BY <2>4, <3>1 DEF S
  <2>6. X = [p \in P |-> X[p]] /\ f = [p \in P |-> f[p]]
    BY <1>6, <2>1
  <2> QED
    BY <2>5, <2>6
<1>9. Exclusive = f
  BY <1>8 DEF Exclusive
<1>10. \A a, b \in Nat : Xor(a, b) \in Nat
  BY <1>6, <1>9 DEF Xor
<1>11. Xor(0, 0) = 0
  BY <1>7, <1>9 DEF Xor
<1>12. ASSUME NEW a \in Nat, NEW b \in Nat
       PROVE  Xor(a, b) = 2 * Xor(a \div 2, b \div 2) + ((a + b) % 2)
  <2>1. CASE <<a, b>> = <<0, 0>>
    <3>1. a = 0 /\ b = 0 /\ 0 \div 2 = 0 /\ (0 + 0) % 2 = 0
      BY <2>1
    <3> QED
      BY <1>11, <3>1
  <2>2. CASE <<a, b>> # <<0, 0>>
    BY <1>7, <1>9, <2>2 DEF Xor
  <2> QED
    BY <2>1, <2>2
<1> QED
  BY <1>10, <1>11, <1>12

\* A number with one bit more, and whether two bits differ.
Longer(x, d) == 2 * x + d
Differ(d, e) == (d + e) % 2

LEMMA Differing ==
  /\ Longer(0, 0) = 0
  /\ \A x \in Nat : \A d \in 0..1 : Longer(x, d) \in Nat
  /\ \A d, e \in 0..1 : Differ(d, e) \in 0..1 /\ Differ(d, e) = Differ(e, d)
  /\ \A d \in 0..1 : Differ(d, 0) = d /\ Differ(d, d) = 0
  /\ \A d, e, f \in 0..1 : Differ(Differ(d, e), f) = Differ(d, Differ(e, f))
BY DEF Longer, Differ

\* A last bit more on either side.
LEMMA XorBit ==
  \A x, y \in Nat : \A d, e \in 0..1 :
    Xor(Longer(x, d), Longer(y, e)) = Longer(Xor(x, y), Differ(d, e))
<1> SUFFICES ASSUME NEW x \in Nat, NEW y \in Nat, NEW d \in 0..1, NEW e \in 0..1
             PROVE  Xor(2 * x + d, 2 * y + e) = 2 * Xor(x, y) + ((d + e) % 2)
  BY DEF Longer, Differ
<1>1. 2 * x + d \in Nat /\ 2 * y + e \in Nat
  OBVIOUS
<1>2. /\ (2 * x + d) \div 2 = x /\ (2 * y + e) \div 2 = y
      /\ ((2 * x + d) + (2 * y + e)) % 2 = (d + e) % 2
  OBVIOUS
<1> QED
  BY <1>1, <1>2, XorSteps, ZenonT(60)

\* What holds of three zeros, and of three numbers if it holds of their halves,
\* holds of any three numbers.
LEMMA HalvingInduction ==
  ASSUME NEW S, <<0, 0, 0>> \in S,
         \A x, y, z \in Nat : \A d, e, f \in 0..1 :
           <<x, y, z>> \in S => <<2 * x + d, 2 * y + e, 2 * z + f>> \in S
  PROVE  \A x, y, z \in Nat : <<x, y, z>> \in S
<1> DEFINE T == {n \in Nat : \A x, y, z \in 0..n : <<x, y, z>> \in S}
<1>1. 0 \in T
  OBVIOUS
<1>h. \A n \in Nat : \A a \in 0..(n + 1) :
        \E h \in 0..n : \E d \in 0..1 : a = 2 * h + d
  <2> SUFFICES ASSUME NEW n \in Nat, NEW a \in 0..(n + 1)
               PROVE  \E h \in 0..n : \E d \in 0..1 : a = 2 * h + d
    OBVIOUS
  <2>1. a \div 2 \in 0..n /\ a % 2 \in 0..1 /\ a = 2 * (a \div 2) + (a % 2)
    OBVIOUS
  <2> QED
    BY <2>1
<1>2. ASSUME NEW n \in Nat, n \in T
      PROVE  n + 1 \in T
  <2> SUFFICES ASSUME NEW x \in 0..(n + 1), NEW y \in 0..(n + 1), NEW z \in 0..(n + 1)
               PROVE  <<x, y, z>> \in S
    BY SMTT(40)
  <2>1. PICK hx \in 0..n, d \in 0..1 : x = 2 * hx + d
    BY <1>h
  <2>2. PICK hy \in 0..n, e \in 0..1 : y = 2 * hy + e
    BY <1>h
  <2>3. PICK hz \in 0..n, f \in 0..1 : z = 2 * hz + f
    BY <1>h
  <2>4. <<hx, hy, hz>> \in S /\ hx \in Nat /\ hy \in Nat /\ hz \in Nat
    BY <1>2, SMTT(40)
  <2> QED
    BY <2>1, <2>2, <2>3, <2>4
<1> HIDE DEF T
<1>3. \A n \in Nat : n \in T
  BY <1>1, <1>2, SetInduction
<1>4. ASSUME NEW x \in Nat, NEW y \in Nat, NEW z \in Nat
      PROVE  <<x, y, z>> \in S
  <2>1. PICK n \in Nat : x <= n /\ y <= n /\ z <= n
    <3>1. x + y + z \in Nat /\ x <= x + y + z /\ y <= x + y + z /\ z <= x + y + z
      OBVIOUS
    <3> QED
      BY <3>1
  <2>2. x \in 0..n /\ y \in 0..n /\ z \in 0..n
    BY <2>1
  <2> QED
    BY <1>3, <2>2 DEF T
<1> QED
  BY <1>4

\* The laws of the exclusive or.
LEMMA XorLaws ==
  \A x, y, z \in Nat :
    /\ Xor(x, 0) = x
    /\ Xor(x, x) = 0
    /\ Xor(x, y) = Xor(y, x)
    /\ Xor(Xor(x, y), z) = Xor(x, Xor(y, z))
<1> DEFINE Law(x, y, z) == /\ Xor(x, 0) = x
                           /\ Xor(x, x) = 0
                           /\ Xor(x, y) = Xor(y, x)
                           /\ Xor(Xor(x, y), z) = Xor(x, Xor(y, z))
           S == {t \in Nat \X Nat \X Nat : Law(t[1], t[2], t[3])}
<1>1. Law(0, 0, 0)
  BY XorSteps
<1>2. ASSUME NEW x \in Nat, NEW y \in Nat, NEW z \in Nat,
             NEW d \in 0..1, NEW e \in 0..1, NEW f \in 0..1, Law(x, y, z)
      PROVE  Law(Longer(x, d), Longer(y, e), Longer(z, f))
  <2>1. /\ Differ(d, e) \in 0..1 /\ Differ(e, f) \in 0..1 /\ Differ(d, 0) = d
        /\ Differ(d, d) = 0 /\ Differ(d, e) = Differ(e, d) /\ Longer(0, 0) = 0
        /\ Differ(Differ(d, e), f) = Differ(d, Differ(e, f))
    BY Differing
  <2>2. Xor(x, y) \in Nat /\ Xor(y, z) \in Nat
    BY XorSteps, Zenon
  <2>3. Xor(Longer(x, d), 0) = Longer(x, d)
    <3>1. Xor(Longer(x, d), Longer(0, 0)) = Longer(Xor(x, 0), Differ(d, 0))
      <4>1. 0 \in Nat /\ 0 \in 0..1
        OBVIOUS
      <4> QED
        BY <4>1, XorBit
    <3> QED
      BY <1>2, <2>1, <3>1
  <2>4. Xor(Longer(x, d), Longer(x, d)) = 0
    BY <1>2, <2>1, XorBit
  <2>5. Xor(Longer(x, d), Longer(y, e)) = Xor(Longer(y, e), Longer(x, d))
    BY <1>2, <2>1, XorBit
  <2>6. Xor(Xor(Longer(x, d), Longer(y, e)), Longer(z, f))
          = Xor(Longer(x, d), Xor(Longer(y, e), Longer(z, f)))
    BY <1>2, <2>1, <2>2, XorBit
  <2> QED
    BY <2>3, <2>4, <2>5, <2>6
<1> HIDE DEF Law
<1>3. <<0, 0, 0>> \in S
  BY <1>1
<1>4. \A x, y, z \in Nat : \A d, e, f \in 0..1 :
        <<x, y, z>> \in S => <<2 * x + d, 2 * y + e, 2 * z + f>> \in S
  <2> SUFFICES ASSUME NEW x \in Nat, NEW y \in Nat, NEW z \in Nat,
                      NEW d \in 0..1, NEW e \in 0..1, NEW f \in 0..1, <<x, y, z>> \in S
               PROVE  <<2 * x + d, 2 * y + e, 2 * z + f>> \in S
    OBVIOUS
  <2>1. Law(2 * x + d, 2 * y + e, 2 * z + f)
    BY <1>2 DEF Longer
  <2>2. 2 * x + d \in Nat /\ 2 * y + e \in Nat /\ 2 * z + f \in Nat
    OBVIOUS
  <2> QED
    BY <2>1, <2>2
<1> HIDE DEF S
<1>5. \A x, y, z \in Nat : <<x, y, z>> \in S
  BY <1>3, <1>4, HalvingInduction
<1>6. \A x, y, z \in Nat : Law(x, y, z)
  BY <1>5 DEF S
<1> QED
  BY <1>6 DEF Law

\* In four numbers the ones in the middle change places.
LEMMA XorSwap ==
  ASSUME NEW a \in Nat, NEW b \in Nat, NEW c \in Nat, NEW d \in Nat
  PROVE  Xor(Xor(a, b), Xor(c, d)) = Xor(Xor(a, c), Xor(b, d))
<1>1. Xor(a, b) \in Nat /\ Xor(a, c) \in Nat /\ Xor(c, d) \in Nat /\ Xor(b, d) \in Nat
      /\ Xor(b, c) \in Nat /\ Xor(c, b) \in Nat
  BY XorSteps
<1>2. Xor(Xor(a, b), Xor(c, d)) = Xor(a, Xor(b, Xor(c, d)))
  BY <1>1, XorLaws
<1>3. Xor(b, Xor(c, d)) = Xor(Xor(b, c), d)
  BY XorLaws
<1>4. Xor(b, c) = Xor(c, b)
  BY XorLaws
<1>5. Xor(Xor(c, b), d) = Xor(c, Xor(b, d))
  BY XorLaws
<1>6. Xor(a, Xor(c, Xor(b, d))) = Xor(Xor(a, c), Xor(b, d))
  BY <1>1, XorLaws
<1> QED
  BY <1>2, <1>3, <1>4, <1>5, <1>6

\* The upper and the lower parts of two numbers do not meet.
LEMMA XorSplit ==
  ASSUME NEW m \in Nat, NEW x \in Nat, NEW v \in Nat,
         NEW y \in 0..(TwoTo[m] - 1), NEW w \in 0..(TwoTo[m] - 1)
  PROVE  /\ Xor(x * TwoTo[m] + y, v * TwoTo[m] + w) = Xor(x, v) * TwoTo[m] + Xor(y, w)
         /\ Xor(y, w) \in 0..(TwoTo[m] - 1)
<1> DEFINE Splits(k) == \A y1, w1 \in 0..(TwoTo[k] - 1) :
             /\ Xor(x * TwoTo[k] + y1, v * TwoTo[k] + w1) = Xor(x, v) * TwoTo[k] + Xor(y1, w1)
             /\ Xor(y1, w1) \in 0..(TwoTo[k] - 1)
           S == {k \in Nat : Splits(k)}
<1>0. Xor(x, v) \in Nat
  BY XorSteps
<1>1. Splits(0)
  <2>1. TwoTo[0] = 1
    BY TwoToValues
  <2>2. \A y1 \in 0..(TwoTo[0] - 1) : y1 = 0
    BY <2>1
  <2>3. Xor(x * TwoTo[0] + 0, v * TwoTo[0] + 0) = Xor(x, v) * TwoTo[0] + Xor(0, 0)
    BY <1>0, <2>1, XorSteps
  <2>4. Xor(0, 0) \in 0..(TwoTo[0] - 1)
    BY <2>1, XorSteps
  <2> QED
    BY <2>2, <2>3, <2>4
<1>2. ASSUME NEW k \in Nat, Splits(k)
      PROVE  Splits(k + 1)
  <2> SUFFICES ASSUME NEW y1 \in 0..(TwoTo[k + 1] - 1), NEW w1 \in 0..(TwoTo[k + 1] - 1)
               PROVE  /\ Xor(x * TwoTo[k + 1] + y1, v * TwoTo[k + 1] + w1)
                           = Xor(x, v) * TwoTo[k + 1] + Xor(y1, w1)
                      /\ Xor(y1, w1) \in 0..(TwoTo[k + 1] - 1)
    OBVIOUS
  <2> DEFINE p == TwoTo[k]
             h == y1 \div 2
             d == y1 % 2
             g == w1 \div 2
             e == w1 % 2
             a == x * p + h
             b == v * p + g
  <2>1. TwoTo[k + 1] = 2 * p /\ p \in Nat \ {0}
    BY TwoToValues
  <2> HIDE DEF p
  <2>2. /\ d \in 0..1 /\ h \in 0..(p - 1) /\ y1 = 2 * h + d
        /\ e \in 0..1 /\ g \in 0..(p - 1) /\ w1 = 2 * g + e
    BY <2>1
  <2> HIDE DEF h, d, g, e
  <2>3. h \in Nat /\ g \in Nat
    BY <2>1, <2>2
  <2>4. /\ a \in Nat /\ x * (2 * p) + y1 = 2 * a + d
        /\ b \in Nat /\ v * (2 * p) + w1 = 2 * b + e
    <3>1. /\ x * p \in Nat /\ x * (2 * p) = 2 * (x * p)
          /\ v * p \in Nat /\ v * (2 * p) = 2 * (v * p)
      BY <2>1
    <3> QED
      BY <2>1, <2>2, <2>3, <3>1
  <2>5. Xor(a, b) = Xor(x, v) * p + Xor(h, g) /\ Xor(h, g) \in 0..(p - 1)
    BY <1>2, <2>2 DEF p
  <2> HIDE DEF a, b
  <2>6. Xor(2 * a + d, 2 * b + e) = 2 * Xor(a, b) + ((d + e) % 2)
    <3>1. Xor(Longer(a, d), Longer(b, e)) = Longer(Xor(a, b), Differ(d, e))
      <4>1. a \in Nat /\ b \in Nat
        BY <2>4
      <4> QED
        BY <2>2, <4>1, XorBit
    <3> QED
      BY <3>1 DEF Longer, Differ
  <2>7. Xor(y1, w1) = 2 * Xor(h, g) + ((d + e) % 2) /\ (d + e) % 2 \in 0..1
    <3>1. Xor(Longer(h, d), Longer(g, e)) = Longer(Xor(h, g), Differ(d, e))
      BY <2>2, <2>3, XorBit
    <3>2. y1 = Longer(h, d) /\ w1 = Longer(g, e)
      BY <2>2 DEF Longer
    <3>3. (d + e) % 2 \in 0..1
      BY <2>2
    <3> QED
      BY <3>1, <3>2, <3>3 DEF Longer, Differ
  <2>8. 2 * (Xor(x, v) * p) = Xor(x, v) * (2 * p) /\ Xor(x, v) * p \in Nat
    BY <1>0, <2>1
  <2>9. Xor(x * (2 * p) + y1, v * (2 * p) + w1) = Xor(x, v) * (2 * p) + Xor(y1, w1)
    <3>1. Xor(x * (2 * p) + y1, v * (2 * p) + w1) = 2 * Xor(a, b) + ((d + e) % 2)
      BY <2>4, <2>6
    <3> DEFINE q == Xor(x, v) * p
               i == Xor(h, g)
               j == (d + e) % 2
    <3>2. Xor(a, b) = q + i /\ q \in Nat /\ i \in Nat /\ j \in Nat
      BY <2>1, <2>5, <2>7, <2>8
    <3>3. 2 * q = Xor(x, v) * (2 * p)
      BY <2>8
    <3>4. Xor(y1, w1) = 2 * i + j
      BY <2>7
    <3> HIDE DEF q, i, j
    <3>5. 2 * (q + i) + j = 2 * q + (2 * i + j)
      BY <3>2
    <3> QED
      BY <3>1, <3>2, <3>3, <3>4, <3>5 DEF j
  <2>10. Xor(y1, w1) \in 0..(2 * p - 1)
    BY <2>1, <2>5, <2>7
  <2> QED
    BY <2>1, <2>9, <2>10
<1> HIDE DEF Splits
<1>3. 0 \in S
  BY <1>1
<1>4. ASSUME NEW k \in Nat, k \in S
      PROVE  k + 1 \in S
  BY <1>2, <1>4
<1> HIDE DEF S
<1>5. \A k \in Nat : k \in S
  BY <1>3, <1>4, SetInduction
<1>6. Splits(m)
  BY <1>5 DEF S
<1> QED
  BY <1>6 DEF Splits

-----------------------------------------------------------------------------
(* The division by the polynomial of the checksum. *)

LEMMA LargePowers ==
  /\ TwoTo[13] = 8192 /\ TwoTo[14] = 16384 /\ TwoTo[15] = 32768 /\ TwoTo[16] = 65536
<1>1. /\ TwoTo[13] = 2 * TwoTo[12] /\ TwoTo[14] = 2 * TwoTo[13]
      /\ TwoTo[15] = 2 * TwoTo[14] /\ TwoTo[16] = 2 * TwoTo[15]
  <2>1. \A n \in 12..15 : TwoTo[n + 1] = 2 * TwoTo[n]
    BY TwoToValues
  <2>2. 12 + 1 = 13 /\ 13 + 1 = 14 /\ 14 + 1 = 15 /\ 15 + 1 = 16
    OBVIOUS
  <2> QED
    BY <2>1, <2>2
<1> QED
  BY <1>1, SmallPowers

\* Sixteen bits, the highest of them, and the polynomial without its own.
Wide == 65536
Top == 32768
Poly == 4129

\* Numbers of sixteen bits, of fifteen and of eight.
Words == {n \in Nat : n < Wide}
Lows  == {n \in Nat : n < Top}
Bytes == {n \in Nat : n < 256}

LEMMA Widths ==
  /\ TwoTo[16] = Wide /\ TwoTo[15] = Top /\ TwoTo[8] = 256
  /\ Words = 0..(TwoTo[16] - 1) /\ Lows = 0..(TwoTo[15] - 1) /\ Bytes = 0..(TwoTo[8] - 1)
  /\ Wide = 2 * Top /\ Wide \in Nat /\ Top \in Nat
<1>1. TwoTo[16] = Wide /\ TwoTo[15] = Top /\ TwoTo[8] = 256
  BY LargePowers, SmallPowers, SMT DEF Wide, Top
<1>2. Wide = 2 * Top /\ Wide \in Nat /\ Top \in Nat
  BY SMT DEF Wide, Top
<1>3. \A n \in Nat : {i \in Nat : i < n} = 0..(n - 1)
  OBVIOUS
<1>4. Words = 0..(Wide - 1) /\ Lows = 0..(Top - 1) /\ Bytes = 0..(256 - 1)
  <2>1. Words = 0..(Wide - 1)
    BY <1>2, <1>3, Zenon DEF Words
  <2>2. Lows = 0..(Top - 1)
    BY <1>2, <1>3, Zenon DEF Lows
  <2>3. Bytes = 0..(256 - 1)
    <3>1. 256 \in Nat
      OBVIOUS
    <3> QED
      BY <1>3, <3>1 DEF Bytes
  <2> QED
    BY <2>1, <2>2, <2>3, Zenon
<1> QED
  BY <1>1, <1>2, <1>4, Zenon

\* The exclusive or of two numbers of sixteen bits, and of a number's parts.
LEMMA XorBounded == \A a, b \in Words : Xor(a, b) \in Words
<1>1. \A a, b \in 0..(TwoTo[16] - 1) :
        /\ Xor(0 * TwoTo[16] + a, 0 * TwoTo[16] + b) = Xor(0, 0) * TwoTo[16] + Xor(a, b)
        /\ Xor(a, b) \in 0..(TwoTo[16] - 1)
  <2>1. 16 \in Nat /\ 0 \in Nat
    OBVIOUS
  <2> QED
    BY <2>1, XorSplit
<1> QED
  BY <1>1, Widths, Zenon

LEMMA XorHalves ==
  /\ \A x, v \in Nat : \A y, w \in Lows :
       /\ Xor(x * Top + y, v * Top + w) = Xor(x, v) * Top + Xor(y, w)
       /\ Xor(y, w) \in Lows
  /\ \A x \in Nat : \A y \in Bytes : Xor(x * 256, y) = x * 256 + y
<1>1. \A x, v \in Nat : \A y, w \in 0..(TwoTo[15] - 1) :
        /\ Xor(x * TwoTo[15] + y, v * TwoTo[15] + w) = Xor(x, v) * TwoTo[15] + Xor(y, w)
        /\ Xor(y, w) \in 0..(TwoTo[15] - 1)
  <2>1. 15 \in Nat
    OBVIOUS
  <2> QED
    BY <2>1, XorSplit
<1>2. \A x, v \in Nat : \A y, w \in Lows :
        /\ Xor(x * Top + y, v * Top + w) = Xor(x, v) * Top + Xor(y, w)
        /\ Xor(y, w) \in Lows
  <2> SUFFICES ASSUME NEW x \in Nat, NEW v \in Nat, NEW y \in Lows, NEW w \in Lows
               PROVE  /\ Xor(x * Top + y, v * Top + w) = Xor(x, v) * Top + Xor(y, w)
                      /\ Xor(y, w) \in Lows
    OBVIOUS
  <2>1. y \in 0..(TwoTo[15] - 1) /\ w \in 0..(TwoTo[15] - 1)
    BY Widths, Zenon
  <2>2. /\ Xor(x * TwoTo[15] + y, v * TwoTo[15] + w) = Xor(x, v) * TwoTo[15] + Xor(y, w)
        /\ Xor(y, w) \in 0..(TwoTo[15] - 1)
    BY <1>1, <2>1
  <2> QED
    BY <2>2, Widths, Zenon
<1>3. ASSUME NEW x \in Nat, NEW y \in Bytes
      PROVE  Xor(x * 256, y) = x * 256 + y
  <2>1. y \in Nat /\ y \in 0..(TwoTo[8] - 1) /\ 0 \in 0..(TwoTo[8] - 1) /\ TwoTo[8] \in Nat
    BY Widths DEF Bytes
  <2>2. Xor(x * TwoTo[8] + 0, 0 * TwoTo[8] + y) = Xor(x, 0) * TwoTo[8] + Xor(0, y)
    <3>1. 8 \in Nat /\ 0 \in Nat
      OBVIOUS
    <3> QED
      BY <2>1, <3>1, XorSplit
  <2>3. Xor(x, 0) = x /\ Xor(0, y) = y
    <3>1. Xor(x, 0) = x /\ Xor(y, 0) = y /\ Xor(0, y) = Xor(y, 0)
      <4>1. 0 \in Nat
        OBVIOUS
      <4> QED
        BY <2>1, <4>1, XorLaws
    <3> QED
      BY <3>1
  <2>4. x * TwoTo[8] + 0 = x * 256 /\ 0 * TwoTo[8] + y = y
    BY <2>1, Widths, SMT
  <2>5. x * TwoTo[8] + y = x * 256 + y
    BY Widths, Zenon
  <2> QED
    BY <2>2, <2>3, <2>4, <2>5, Zenon
<1> QED
  BY <1>2, <1>3

\* What a bit that leaves the sixteen brings back.
Returned(x) == IF x = 1 THEN Poly ELSE 0

\* A step of the division, by the top bit of the number and the others.
LEMMA TakeForm ==
  \A x, d \in 0..1 : \A y \in Lows :
    /\ TakeBit(x * Top + y, d) = Xor(Longer(y, d), Returned(x))
    /\ TakeBit(x * Top + y, d) \in Words
<1> SUFFICES ASSUME NEW x \in 0..1, NEW d \in 0..1, NEW y \in Lows
             PROVE  /\ TakeBit(x * Top + y, d) = Xor(Longer(y, d), Returned(x))
                    /\ TakeBit(x * Top + y, d) \in Words
  OBVIOUS
<1> DEFINE r == x * Top + y
           z == 2 * y + d
<1>1. (2 * r + d) % Wide = z /\ (r >= Top <=> x = 1) /\ z \in Words /\ z \in Nat
      /\ Longer(y, d) = z
  <2>1. y \in Nat /\ y < Top /\ (x = 0 \/ x = 1)
    BY DEF Lows
  <2>2. z \in Nat /\ z < Wide /\ (r >= Top <=> x = 1) /\ (2 * r + d) % Wide = z
    BY <2>1, SMT DEF Wide, Top
  <2> QED
    BY <2>2 DEF Longer, Words
<1> HIDE DEF r, z
<1>2. TakeBit(r, d) = IF x = 1 THEN Xor(z, Poly) ELSE z
  <2>1. TakeBit(r, d) = IF r >= Top THEN Xor((2 * r + d) % Wide, Poly) ELSE (2 * r + d) % Wide
    BY SMT DEF TakeBit, Wide, Top, Poly
  <2> QED
    BY <1>1, <2>1
<1>3. Xor(z, 0) = z
  <2>1. 0 \in Nat
    OBVIOUS
  <2> QED
    BY <1>1, <2>1, XorLaws
<1>4. Xor(z, Poly) \in Words
  <2>1. Poly \in Words
    BY SMT DEF Words, Poly, Wide
  <2> QED
    BY <1>1, <2>1, XorBounded, Zenon
<1>5. TakeBit(r, d) = Xor(z, Returned(x)) /\ TakeBit(r, d) \in Words
  BY <1>1, <1>2, <1>3, <1>4 DEF Returned
<1> QED
  BY <1>1, <1>5 DEF r

\* A number of sixteen bits has a top bit and the others.
LEMMA TopBit == \A r \in Words : \E x \in 0..1 : \E y \in Lows : r = x * Top + y
<1> SUFFICES ASSUME NEW r \in Words
             PROVE  \E x \in 0..1 : \E y \in Lows : r = x * Top + y
  OBVIOUS
<1>1. CASE r < Top
  <2>1. 0 \in 0..1 /\ r \in Lows /\ r = 0 * Top + r
    BY <1>1, Widths DEF Words, Lows
  <2> QED
    BY <2>1
<1>2. CASE r >= Top
  <2>1. 1 \in 0..1 /\ r - Top \in Lows /\ r = 1 * Top + (r - Top)
    BY <1>2, Widths DEF Words, Lows
  <2> QED
    BY <2>1
<1>3. r < Top \/ r >= Top
  BY Widths DEF Words
<1> QED
  BY <1>1, <1>2, <1>3

LEMMA TakeType == \A r \in Words : \A d \in 0..1 : TakeBit(r, d) \in Words
<1> SUFFICES ASSUME NEW r \in Words, NEW d \in 0..1 PROVE TakeBit(r, d) \in Words
  OBVIOUS
<1>1. PICK x \in 0..1, y \in Lows : r = x * Top + y
  BY TopBit
<1> QED
  BY <1>1, TakeForm, Zenon

\* A step of the division respects the exclusive or.
LEMMA TakeLinear ==
  \A r, s \in Words : \A d, e \in 0..1 :
    TakeBit(Xor(r, s), Differ(d, e)) = Xor(TakeBit(r, d), TakeBit(s, e))
<1> SUFFICES ASSUME NEW r \in Words, NEW s \in Words, NEW d \in 0..1, NEW e \in 0..1
             PROVE  TakeBit(Xor(r, s), Differ(d, e)) = Xor(TakeBit(r, d), TakeBit(s, e))
  OBVIOUS
<1>1. PICK x \in 0..1, y \in Lows : r = x * Top + y
  BY TopBit
<1>2. PICK v \in 0..1, w \in Lows : s = v * Top + w
  BY TopBit
<1>3. x \in Nat /\ v \in Nat /\ y \in Nat /\ w \in Nat
  BY DEF Lows
<1>4. Xor(x, v) = Differ(x, v)
  <2>1. 0 \in Nat /\ 0 \in 0..1
    OBVIOUS
  <2>2. Xor(Longer(0, x), Longer(0, v)) = Longer(Xor(0, 0), Differ(x, v))
    BY <2>1, XorBit
  <2>3. Longer(0, x) = x /\ Longer(0, v) = v
    BY DEF Longer
  <2>4. Longer(Xor(0, 0), Differ(x, v)) = Differ(x, v)
    <3>1. Xor(0, 0) = 0 /\ Differ(x, v) \in 0..1
      BY XorSteps, Differing
    <3> QED
      BY <3>1 DEF Longer
  <2> QED
    BY <2>2, <2>3, <2>4
<1>5. Xor(r, s) = Differ(x, v) * Top + Xor(y, w) /\ Xor(y, w) \in Lows
  <2>1. /\ Xor(x * Top + y, v * Top + w) = Xor(x, v) * Top + Xor(y, w)
        /\ Xor(y, w) \in Lows
    BY <1>3, XorHalves
  <2> QED
    BY <1>1, <1>2, <1>4, <2>1, Zenon
<1>6. Differ(x, v) \in 0..1 /\ Differ(d, e) \in 0..1
  BY Differing
<1>7. /\ TakeBit(r, d) = Xor(Longer(y, d), Returned(x))
      /\ TakeBit(s, e) = Xor(Longer(w, e), Returned(v))
      /\ TakeBit(Xor(r, s), Differ(d, e))
           = Xor(Longer(Xor(y, w), Differ(d, e)), Returned(Differ(x, v)))
  BY <1>1, <1>2, <1>5, <1>6, TakeForm, Zenon
<1>8. Longer(Xor(y, w), Differ(d, e)) = Xor(Longer(y, d), Longer(w, e))
  BY <1>3, XorBit
<1>9. Returned(Differ(x, v)) = Xor(Returned(x), Returned(v))
  <2>1. /\ Xor(Poly, Poly) = 0 /\ Xor(Poly, 0) = Poly
        /\ Xor(0, Poly) = Poly /\ Xor(0, 0) = 0
    <3>1. Poly \in Nat /\ 0 \in Nat
      BY SMT DEF Poly
    <3>2. Xor(0, Poly) = Xor(Poly, 0) /\ Xor(Poly, 0) = Poly /\ Xor(Poly, Poly) = 0
          /\ Xor(0, 0) = 0
      BY <3>1, XorLaws
    <3> QED
      BY <3>2
  <2>2. /\ x = 0 \/ x = 1
        /\ v = 0 \/ v = 1
        /\ (x = v => Differ(x, v) = 0) /\ (x # v => Differ(x, v) = 1)
    BY DEF Differ
  <2> QED
    BY <2>1, <2>2 DEF Returned
<1>10. Longer(y, d) \in Nat /\ Longer(w, e) \in Nat /\ Returned(x) \in Nat /\ Returned(v) \in Nat
  <2>1. Poly \in Nat
    BY SMT DEF Poly
  <2> QED
    BY <1>3, <2>1 DEF Longer, Returned
<1>11. Xor(Xor(Longer(y, d), Longer(w, e)), Xor(Returned(x), Returned(v)))
         = Xor(Xor(Longer(y, d), Returned(x)), Xor(Longer(w, e), Returned(v)))
  BY <1>10, XorSwap
<1> QED
  BY <1>7, <1>8, <1>9, <1>11

\* A function that takes the bits in one by one ends with what Divided gives.
LEMMA DividedValue ==
  ASSUME NEW t \in Seq(0..1), NEW g, g[0] = 0,
         \A i \in 1..Len(t) : g[i] = TakeBit(g[i - 1], t[i])
  PROVE  Divided(t) = g[Len(t)]
<1> DEFINE m == Len(t)
           f == CHOOSE f : f = [i \in 0..m |-> IF i = 0 THEN 0 ELSE TakeBit(f[i - 1], t[i])]
           h == [i \in 0..m |-> g[i]]
<1>1. m \in Nat /\ 0 \in 0..m /\ m \in 0..m
  OBVIOUS
<1>2. Divided(t) = f[m]
  BY DEF Divided
<1>3. h = [i \in 0..m |-> IF i = 0 THEN 0 ELSE TakeBit(h[i - 1], t[i])]
  <2>1. ASSUME NEW i \in 0..m
        PROVE  g[i] = IF i = 0 THEN 0 ELSE TakeBit(h[i - 1], t[i])
    <3>1. CASE i = 0
      BY <3>1
    <3>2. CASE i # 0
      <4>1. i \in 1..m /\ i - 1 \in 0..m
        BY <1>1, <3>2
      <4>2. g[i] = TakeBit(g[i - 1], t[i])
        BY <4>1
      <4>3. h[i - 1] = g[i - 1]
        BY <4>1
      <4> QED
        BY <3>2, <4>2, <4>3
    <3> QED
      BY <3>1, <3>2
  <2> HIDE DEF m
  <2> QED
    BY <2>1
<1> HIDE DEF h
<1>4. f = [i \in 0..m |-> IF i = 0 THEN 0 ELSE TakeBit(f[i - 1], t[i])]
  BY <1>3
<1> HIDE DEF f
<1> DEFINE T == {k \in 0..m : f[k] = g[k]}
<1>5. 0 \in T
  BY <1>1, <1>4
<1>6. ASSUME NEW k \in 0..(m - 1), k \in T
      PROVE  k + 1 \in T
  <2>1. k + 1 \in 0..m /\ k + 1 \in 1..m /\ k + 1 # 0 /\ (k + 1) - 1 = k
    BY <1>1
  <2>2. f[k + 1] = TakeBit(f[(k + 1) - 1], t[k + 1])
    BY <1>4, <2>1
  <2>3. g[k + 1] = TakeBit(g[(k + 1) - 1], t[k + 1])
    BY <2>1
  <2>4. f[k] = g[k]
    BY <1>6
  <2>5. f[k + 1] = g[k + 1]
    BY <2>1, <2>2, <2>3, <2>4
  <2> QED
    BY <2>1, <2>5
<1> HIDE DEF T
<1>7. \A k \in 0..m : k \in T
  BY <1>1, <1>5, <1>6, IntervalInduction
<1>8. f[m] = g[m]
  BY <1>1, <1>7 DEF T
<1> QED
  BY <1>2, <1>8

\* What is left of a sequence, and of one that is longer by a bit.
LEMMA DividedSteps ==
  ASSUME NEW s \in Seq(0..1), NEW b \in 0..1
  PROVE  /\ Divided(s) \in Words
         /\ Divided(Append(s, b)) = TakeBit(Divided(s), b)
<1> DEFINE t == Append(s, b)
           n == Len(t)
           advance == [p \in (1..n) \X Words |-> TakeBit(p[2], t[p[1]])]
<1>1. /\ t \in Seq(0..1) /\ n \in Nat /\ n \in 1..n /\ n - 1 = Len(s) /\ n - 1 \in 0..n
      /\ t[n] = b /\ \A i \in 1..(n - 1) : t[i] = s[i]
  OBVIOUS
<1>z. 0 \in Words
  BY SMT DEF Words, Wide
<1>2. advance \in [(1..n) \X Words -> Words]
  <2>1. \A i \in 1..n : t[i] \in 0..1
    BY <1>1
  <2> QED
    BY <2>1, TakeType
<1> HIDE DEF t, n
<1>3. PICK g \in [0..n -> Words] : Iterates(g, n, 0, advance)
  <2> HIDE DEF advance
  <2> QED
    BY <1>1, <1>2, <1>z, IterationExists
<1>4. g[0] = 0
  BY <1>1, <1>3 DEF Iterates
<1>5. ASSUME NEW i \in 1..n
      PROVE  g[i] = TakeBit(g[i - 1], t[i])
  <2>1. <<i, g[i - 1]>> \in (1..n) \X Words
    <3>1. i - 1 \in 0..n
      BY <1>1
    <3> QED
      BY <1>3, <3>1
  <2>2. advance[<<i, g[i - 1]>>] = TakeBit(g[i - 1], t[i])
    BY <2>1
  <2> HIDE DEF advance
  <2>3. g[i] = advance[<<i, g[i - 1]>>]
    BY <1>1, <1>3 DEF Iterates
  <2> QED
    BY <2>2, <2>3
<1>6. Divided(t) = g[n]
  BY <1>1, <1>4, <1>5, DividedValue DEF n
<1>7. Divided(s) = g[n - 1]
  <2>1. \A i \in 1..Len(s) : g[i] = TakeBit(g[i - 1], s[i])
    <3>1. \A i \in 1..(n - 1) : i \in 1..n
      BY <1>1
    <3> QED
      BY <1>1, <1>5, <3>1
  <2>2. Divided(s) = g[Len(s)]
    BY <1>4, <2>1, DividedValue
  <2> QED
    BY <1>1, <2>2
<1>8. g[n] = TakeBit(g[n - 1], b)
  BY <1>1, <1>5
<1>9. g[n - 1] \in Words
  BY <1>1, <1>3
<1> QED
  BY <1>6, <1>7, <1>8, <1>9 DEF t

LEMMA DividedNothing == Divided(<< >>) = 0
<1> DEFINE g == [i \in {0} |-> 0]
<1>1. << >> \in Seq(0..1) /\ Len(<< >>) = 0 /\ g[0] = 0 /\ 1..0 = {}
  OBVIOUS
<1> HIDE DEF g
<1> QED
  BY <1>1, DividedValue

-----------------------------------------------------------------------------
(* Eight zeros, and the bits of a byte. *)

Zero(r)       == TakeBit(r, 0)
TwoZeros(r)   == Zero(Zero(r))
FourZeros(r)  == TwoZeros(TwoZeros(r))
EightZeros(r) == FourZeros(FourZeros(r))

Zeros(k) == [i \in 1..k |-> 0]

\* Zeros respect the exclusive or.
LEMMA ZerosLinear ==
  /\ \A r \in Words : EightZeros(r) \in Words
  /\ \A r, s \in Words : EightZeros(Xor(r, s)) = Xor(EightZeros(r), EightZeros(s))
<1>1. /\ \A r \in Words : Zero(r) \in Words
      /\ \A r, s \in Words : Zero(Xor(r, s)) = Xor(Zero(r), Zero(s))
  <2>1. 0 \in 0..1 /\ Differ(0, 0) = 0
    BY Differing
  <2>2. \A r \in Words : Zero(r) \in Words
    BY <2>1, TakeType, Zenon DEF Zero
  <2>3. ASSUME NEW r \in Words, NEW s \in Words
        PROVE  Zero(Xor(r, s)) = Xor(Zero(r), Zero(s))
    <3>1. TakeBit(Xor(r, s), Differ(0, 0)) = Xor(TakeBit(r, 0), TakeBit(s, 0))
      BY <2>1, TakeLinear, Zenon
    <3> QED
      BY <2>1, <3>1, Zenon DEF Zero
  <2> QED
    BY <2>2, <2>3
<1>2. /\ \A r \in Words : TwoZeros(r) \in Words
      /\ \A r, s \in Words : TwoZeros(Xor(r, s)) = Xor(TwoZeros(r), TwoZeros(s))
  BY <1>1 DEF TwoZeros
<1>3. /\ \A r \in Words : FourZeros(r) \in Words
      /\ \A r, s \in Words : FourZeros(Xor(r, s)) = Xor(FourZeros(r), FourZeros(s))
  BY <1>2 DEF FourZeros
<1> QED
  BY <1>3 DEF EightZeros

\* Zeros at the end of a sequence.
LEMMA ZerosTaken ==
  ASSUME NEW s \in Seq(0..1)
  PROVE  /\ s \o Zeros(0) = s
         /\ \A k \in Nat : s \o Zeros(k) \in Seq(0..1)
         /\ \A k \in Nat : Divided(s \o Zeros(k + 1)) = Zero(Divided(s \o Zeros(k)))
         /\ Divided(s \o Zeros(8)) = EightZeros(Divided(s))
         /\ Divided(s \o Zeros(16)) = EightZeros(EightZeros(Divided(s)))
<1>0. 0 \in 0..1
  OBVIOUS
<1>1. \A k \in Nat : Zeros(k) \in Seq(0..1) /\ Zeros(k + 1) = Append(Zeros(k), 0)
  <2> SUFFICES ASSUME NEW k \in Nat
               PROVE  Zeros(k) \in Seq(0..1) /\ Zeros(k + 1) = Append(Zeros(k), 0)
    OBVIOUS
  <2> DEFINE a == Zeros(k)
             b == Zeros(k + 1)
  <2>1. a \in Seq(0..1) /\ Len(a) = k /\ b \in Seq(0..1) /\ Len(b) = k + 1
    BY DEF Zeros
  <2>2. (\A i \in 1..k : a[i] = 0) /\ (\A i \in 1..(k + 1) : b[i] = 0)
    BY DEF Zeros
  <2> HIDE DEF a, b
  <2>3. /\ Append(a, 0) \in Seq(0..1) /\ Len(Append(a, 0)) = k + 1
        /\ \A i \in 1..(k + 1) : Append(a, 0)[i] = 0
    BY <2>1, <2>2
  <2>4. b = Append(a, 0)
    BY <2>1, <2>2, <2>3, SeqEqual
  <2> QED
    BY <2>1, <2>4 DEF a, b
<1>2. s \o Zeros(0) = s
  <2>1. Zeros(0) = << >>
    BY DEF Zeros
  <2> QED
    BY <2>1, Joining
<1>3. \A k \in Nat : s \o Zeros(k) \in Seq(0..1)
  BY <1>1, Joining
<1>4. \A k \in Nat : Divided(s \o Zeros(k + 1)) = Zero(Divided(s \o Zeros(k)))
  <2> SUFFICES ASSUME NEW k \in Nat
               PROVE  Divided(s \o Zeros(k + 1)) = Zero(Divided(s \o Zeros(k)))
    OBVIOUS
  <2>1. s \o Append(Zeros(k), 0) = Append(s \o Zeros(k), 0)
    <3>1. Zeros(k) \in Seq(0..1)
      BY <1>1
    <3> QED
      BY <1>0, <3>1, Joining
  <2>2. Divided(Append(s \o Zeros(k), 0)) = TakeBit(Divided(s \o Zeros(k)), 0)
    BY <1>0, <1>3, DividedSteps
  <2> QED
    BY <1>1, <2>1, <2>2 DEF Zero
<1> DEFINE D(k) == Divided(s \o Zeros(k))
<1>5. \A k \in Nat : D(k + 2) = TwoZeros(D(k))
  <2> SUFFICES ASSUME NEW k \in Nat PROVE D(k + 2) = TwoZeros(D(k))
    OBVIOUS
  <2>1. D((k + 1) + 1) = Zero(D(k + 1)) /\ D(k + 1) = Zero(D(k))
    <3>1. k + 1 \in Nat
      OBVIOUS
    <3> QED
      BY <1>4, <3>1
  <2>2. (k + 1) + 1 = k + 2
    OBVIOUS
  <2> QED
    BY <2>1, <2>2, Zenon DEF TwoZeros
<1>6. \A k \in Nat : D(k + 4) = FourZeros(D(k))
  <2> SUFFICES ASSUME NEW k \in Nat PROVE D(k + 4) = FourZeros(D(k))
    OBVIOUS
  <2>1. D((k + 2) + 2) = TwoZeros(D(k + 2)) /\ D(k + 2) = TwoZeros(D(k))
    <3>1. k + 2 \in Nat
      OBVIOUS
    <3> QED
      BY <1>5, <3>1
  <2>2. (k + 2) + 2 = k + 4
    OBVIOUS
  <2> QED
    BY <2>1, <2>2, Zenon DEF FourZeros
<1>7. \A k \in Nat : D(k + 8) = EightZeros(D(k))
  <2> SUFFICES ASSUME NEW k \in Nat PROVE D(k + 8) = EightZeros(D(k))
    OBVIOUS
  <2>1. D((k + 4) + 4) = FourZeros(D(k + 4)) /\ D(k + 4) = FourZeros(D(k))
    <3>1. k + 4 \in Nat
      OBVIOUS
    <3> QED
      BY <1>6, <3>1
  <2>2. (k + 4) + 4 = k + 8
    OBVIOUS
  <2> QED
    BY <2>1, <2>2, Zenon DEF EightZeros
<1>8. D(8) = EightZeros(D(0)) /\ D(16) = EightZeros(D(8))
  <2>1. 0 + 8 = 8 /\ 8 + 8 = 16 /\ 0 \in Nat /\ 8 \in Nat
    OBVIOUS
  <2>2. D(0 + 8) = EightZeros(D(0)) /\ D(8 + 8) = EightZeros(D(8))
    BY <1>7, <2>1
  <2> QED
    BY <2>1, <2>2, Zenon
<1> QED
  BY <1>2, <1>3, <1>4, <1>8, Zenon

\* The bits of a number that sixteen bits hold are taken in as the number.
LEMMA BitsTaken ==
  ASSUME NEW s \in Seq(0..1), NEW k \in 0..16, NEW x \in 0..(TwoTo[k] - 1)
  PROVE  Divided(s \o Bits(x, k)) = Xor(Divided(s \o Zeros(k)), x)
<1> DEFINE Taken(j) == \A y \in 0..(TwoTo[j] - 1) :
                         Divided(s \o Bits(y, j)) = Xor(Divided(s \o Zeros(j)), y)
           S == {j \in 0..16 : Taken(j)}
<1>1. Taken(0)
  <2>1. \A y \in 0..(TwoTo[0] - 1) : y = 0
    BY TwoToValues
  <2>2. Bits(0, 0) = << >>
    BY DEF Bits
  <2>3. s \o << >> = s /\ s \o Zeros(0) = s
    BY Joining, ZerosTaken
  <2>4. Xor(Divided(s), 0) = Divided(s)
    <3>1. Divided(s) \in Nat /\ 0 \in Nat
      <4>1. 0 \in 0..1
        OBVIOUS
      <4> QED
        BY <4>1, DividedSteps DEF Words
    <3> QED
      BY <3>1, XorLaws
  <2> QED
    BY <2>1, <2>2, <2>3, <2>4, Zenon
<1>2. ASSUME NEW j \in 0..15, Taken(j)
      PROVE  Taken(j + 1)
  <2> SUFFICES ASSUME NEW y \in 0..(TwoTo[j + 1] - 1)
               PROVE  Divided(s \o Bits(y, j + 1)) = Xor(Divided(s \o Zeros(j + 1)), y)
    OBVIOUS
  <2> DEFINE p == TwoTo[j]
             h == y \div 2
             d == y % 2
             r == Divided(s \o Zeros(j))
  <2>1. TwoTo[j + 1] = 2 * p /\ p \in Nat \ {0} /\ j \in Nat
    <3>1. j \in Nat
      OBVIOUS
    <3> QED
      BY <3>1, TwoToValues
  <2>2. p <= Top
    <3>1. \A i \in Nat : TwoTo[i] \in Nat /\ TwoTo[i + 1] = 2 * TwoTo[i]
      BY TwoToValues
    <3>2. ASSUME NEW i \in Nat PROVE TwoTo[i] <= TwoTo[i + 1]
      <4> DEFINE u == TwoTo[i]
                 v == TwoTo[i + 1]
      <4>1. u \in Nat /\ v = 2 * u
        BY <3>1
      <4> HIDE DEF u, v
      <4>2. u <= v
        BY <4>1
      <4> QED
        BY <4>2 DEF u, v
    <3> DEFINE B == {i \in 0..15 : TwoTo[15 - i] <= Top}
    <3>3. 0 \in B
      BY Widths
    <3>4. ASSUME NEW i \in 0..(15 - 1), i \in B
          PROVE  i + 1 \in B
      <4>1. /\ 15 - (i + 1) \in Nat /\ 15 - i \in Nat /\ 15 - i = (15 - (i + 1)) + 1
            /\ i + 1 \in 0..15
        OBVIOUS
      <4>2. TwoTo[15 - (i + 1)] <= TwoTo[15 - i] /\ TwoTo[15 - i] <= Top
        BY <3>2, <3>4, <4>1
      <4>3. TwoTo[15 - (i + 1)] \in Nat /\ TwoTo[15 - i] \in Nat /\ Top \in Nat
        BY <3>1, <4>1, Widths
      <4> QED
        BY <4>1, <4>2, <4>3
    <3> HIDE DEF B
    <3>5. \A i \in 0..15 : i \in B
      <4>1. 15 \in Nat
        OBVIOUS
      <4> QED
        BY <3>3, <3>4, <4>1, IntervalInduction
    <3>6. 15 - j \in B /\ 15 - (15 - j) = j
      BY <3>5, SMTT(40)
    <3> QED
      BY <3>6 DEF B
  <2> HIDE DEF p
  <2>3. d \in 0..1 /\ h \in 0..(p - 1) /\ y = 2 * h + d
    BY <2>1
  <2> HIDE DEF h, d
  <2>4. h \in Nat /\ h < Top
    BY <2>1, <2>2, <2>3, Widths
  <2>5. Bits(y, j + 1) = Append(Bits(h, j), d)
    BY <2>1, <2>3, <2>4, BitsNext
  <2>6. s \o Append(Bits(h, j), d) = Append(s \o Bits(h, j), d) /\ s \o Bits(h, j) \in Seq(0..1)
    <3>1. Bits(h, j) \in Seq(0..1)
      BY <2>1, <2>4, BitsType
    <3> QED
      BY <2>3, <3>1, Joining, SMTT(40)
  <2>7. Divided(Append(s \o Bits(h, j), d)) = TakeBit(Divided(s \o Bits(h, j)), d)
    BY <2>3, <2>6, DividedSteps
  <2>8. Divided(s \o Bits(h, j)) = Xor(r, h)
    BY <1>2, <2>3 DEF p
  <2>9. r \in Words /\ h \in Words /\ 0 \in 0..1 /\ Differ(0, d) = d
    <3>1. s \o Zeros(j) \in Seq(0..1) /\ 0 \in 0..1
      BY <2>1, ZerosTaken
    <3>2. r \in Words
      BY <3>1, DividedSteps
    <3>3. h \in Words
      BY <2>4, Widths DEF Words
    <3>4. Differ(0, d) = d
      BY <2>3 DEF Differ
    <3> QED
      BY <3>1, <3>2, <3>3, <3>4
  <2>10. Divided(s \o Zeros(j + 1)) = TakeBit(r, 0)
    BY <2>1, ZerosTaken DEF Zero
  <2> HIDE DEF r
  <2>11. TakeBit(Xor(r, h), Differ(0, d)) = Xor(TakeBit(r, 0), TakeBit(h, d))
    BY <2>3, <2>9, TakeLinear
  <2>12. TakeBit(h, d) = y
    <3>1. h \in Lows /\ 0 \in 0..1
      BY <2>4 DEF Lows
    <3>2. TakeBit(0 * Top + h, d) = Xor(Longer(h, d), Returned(0))
      BY <2>3, <3>1, TakeForm
    <3>3. 0 * Top + h = h /\ Returned(0) = 0
      BY <2>4, Widths DEF Returned
    <3>4. Longer(h, d) = y /\ y \in Nat /\ 0 \in Nat
      BY <2>3, <2>4 DEF Longer
    <3>5. Xor(y, 0) = y
      BY <3>4, XorLaws
    <3> QED
      BY <3>2, <3>3, <3>4, <3>5, Zenon
  <2> QED
    BY <2>5, <2>6, <2>7, <2>8, <2>9, <2>10, <2>11, <2>12, Zenon
<1> HIDE DEF Taken
<1>3. 0 \in S
  BY <1>1
<1>4. ASSUME NEW j \in 0..(16 - 1), j \in S
      PROVE  j + 1 \in S
  <2>1. j \in 0..15 /\ j + 1 \in 0..16
    OBVIOUS
  <2>2. Taken(j)
    BY <1>4
  <2> QED
    BY <1>2, <2>1, <2>2
<1> HIDE DEF S
<1>5. \A j \in 0..16 : j \in S
  <2>1. 16 \in Nat
    OBVIOUS
  <2> QED
    BY <1>3, <1>4, <2>1, IntervalInduction
<1>6. Taken(k)
  BY <1>5 DEF S
<1> QED
  BY <1>6 DEF Taken

\* Eight zeros after a byte shift it by eight bits, and the table has what
\* sixteen make of it.
LEMMA ByteShifted ==
  \A x \in Bytes :
    /\ x \in Words /\ x \in Nat
    /\ EightZeros(x) = x * 256
    /\ CRC16_TABLE[x + 1] = EightZeros(EightZeros(x))
<1> SUFFICES ASSUME NEW x \in Bytes
             PROVE  /\ x \in Words /\ x \in Nat
                    /\ EightZeros(x) = x * 256
                    /\ CRC16_TABLE[x + 1] = EightZeros(EightZeros(x))
  OBVIOUS
<1>1. /\ x \in Words /\ x \in Nat /\ x * 256 \in Nat
      /\ x * 256 \in 0..(TwoTo[16] - 1) /\ x \in 0..(TwoTo[8] - 1)
  <2>1. x \in Nat /\ x < 256 /\ x * 256 \in Nat /\ x < Wide /\ x * 256 < Wide
    BY SMT DEF Bytes, Wide
  <2> QED
    BY <2>1, Widths DEF Words
<1>2. << >> \in Seq(0..1) /\ 8 \in 0..16 /\ 16 \in 0..16 /\ 8 \in Nat /\ 0 \in Nat
      /\ 0 \in 0..1
  OBVIOUS
<1>3. EightZeros(0) = 0
  <2>1. 0 \in Lows
    BY SMT DEF Lows, Top
  <2>2. TakeBit(0 * Top + 0, 0) = Xor(Longer(0, 0), Returned(0))
    BY <1>2, <2>1, TakeForm
  <2>3. 0 * Top + 0 = 0 /\ Longer(0, 0) = 0 /\ Returned(0) = 0
    BY Widths DEF Longer, Returned
  <2>4. Xor(0, 0) = 0
    BY XorSteps
  <2>5. Zero(0) = 0
    BY <2>2, <2>3, <2>4, Zenon DEF Zero
  <2> QED
    BY <2>5, Zenon DEF TwoZeros, FourZeros, EightZeros
<1>4. Divided(<< >> \o Zeros(8)) = 0 /\ Divided(<< >> \o Zeros(16)) = 0
  BY <1>2, <1>3, ZerosTaken, DividedNothing
<1>5. Xor(0, x) = x /\ Xor(0, x * 256) = x * 256
  <2>1. \A y \in Nat : Xor(0, y) = y
    <3> SUFFICES ASSUME NEW y \in Nat PROVE Xor(0, y) = y
      OBVIOUS
    <3>1. Xor(0, y) = Xor(y, 0) /\ Xor(y, 0) = y
      BY <1>2, XorLaws
    <3> QED
      BY <3>1
  <2> QED
    BY <1>1, <2>1
<1>6. Divided(<< >> \o Bits(x, 8)) = x
  <2>1. Divided(<< >> \o Bits(x, 8)) = Xor(Divided(<< >> \o Zeros(8)), x)
    BY <1>1, <1>2, BitsTaken
  <2> QED
    BY <1>4, <1>5, <2>1, Zenon
<1>7. Divided(<< >> \o Bits(x * 256, 16)) = x * 256
  <2>1. Divided(<< >> \o Bits(x * 256, 16)) = Xor(Divided(<< >> \o Zeros(16)), x * 256)
    BY <1>1, <1>2, BitsTaken, ZenonT(60)
  <2> QED
    BY <1>4, <1>5, <2>1, Zenon
<1>8. << >> \o Bits(x, 8) = Bits(x, 8) /\ Bits(x, 8) \in Seq(0..1)
  BY <1>1, <1>2, BitsType, Joining
<1>9. << >> \o Bits(x * 256, 16) = Bits(x, 8) \o Zeros(8)
  <2>1. Bits(x * TwoTo[8] + 0, 8 + 8) = Bits(x, 8) \o Bits(0, 8)
    <3>1. 0 \in 0..(TwoTo[8] - 1)
      BY <1>2, Widths
    <3>2. \A m, n, u \in Nat : \A v \in 0..(TwoTo[m] - 1) :
            Bits(u * TwoTo[m] + v, n + m) = Bits(u, n) \o Bits(v, m)
      BY BitsSplit
    <3>3. ASSUME NEW w \in Nat, NEW v \in 0..(TwoTo[w] - 1)
          PROVE  Bits(x * TwoTo[w] + v, w + w) = Bits(x, w) \o Bits(v, w)
      <4>1. x \in Nat
        BY <1>1
      <4> QED
        BY <3>2, <4>1, ZenonT(60)
    <3> QED
      BY <1>2, <3>1, <3>3
  <2>2. x * TwoTo[8] + 0 = x * 256 /\ 8 + 8 = 16
    BY <1>1, Widths
  <2>3. Bits(0, 8) = Zeros(8)
    <3>1. \A i \in 1..8 : (0 \div TwoTo[8 - i]) % 2 = 0
      <4> SUFFICES ASSUME NEW i \in 1..8 PROVE (0 \div TwoTo[8 - i]) % 2 = 0
        OBVIOUS
      <4>1. 8 - i \in Nat
        OBVIOUS
      <4>2. TwoTo[8 - i] \in Nat \ {0}
        BY <4>1, TwoToValues
      <4>3. 0 \div TwoTo[8 - i] = 0
        BY <4>2
      <4> QED
        BY <4>3
    <3> QED
      BY <3>1 DEF Bits, Zeros
  <2>4. << >> \o Bits(x * 256, 16) = Bits(x * 256, 16)
    <3>1. Bits(x * 256, 16) \in Seq(0..1)
      <4>1. 16 \in Nat
        OBVIOUS
      <4> QED
        BY <1>1, <4>1, BitsType
    <3> QED
      BY <3>1, Joining
  <2> QED
    BY <2>1, <2>2, <2>3, <2>4, Zenon
<1>10. EightZeros(x) = x * 256
  <2>1. Divided(Bits(x, 8) \o Zeros(8)) = EightZeros(Divided(Bits(x, 8)))
    BY <1>8, ZerosTaken
  <2> QED
    BY <1>6, <1>7, <1>8, <1>9, <2>1, Zenon
<1>11. CRC16_TABLE[x + 1] = EightZeros(EightZeros(x))
  <2>1. CRC16_TABLE[x + 1] = Remainder(<<x>>)
    <3>1. x \in 0..255
      BY SMT DEF Bytes
    <3> QED
      BY <3>1, TableAssumption, Zenon
  <2>2. AllBits(<<x>>, 8) = Bits(x, 8)
    <3>1. <<x>> = Append(<< >>, x) /\ << >> \in Seq(Nat)
      OBVIOUS
    <3>2. AllBits(Append(<< >>, x), 8) = AllBits(<< >>, 8) \o Bits(x, 8)
      BY <1>1, <1>2, <3>1, AllBitsAppend, ZenonT(60)
    <3>3. AllBits(<< >>, 8) = << >>
      BY AllBitsNothing
    <3> QED
      BY <1>8, <3>1, <3>2, <3>3, Zenon
  <2>3. Divided(Bits(x, 8) \o Zeros(16)) = EightZeros(EightZeros(Divided(Bits(x, 8))))
    BY <1>8, ZerosTaken
  <2> QED
    BY <1>6, <1>8, <2>1, <2>2, <2>3, Zenon DEF Remainder, Zeros
<1> QED
  BY <1>1, <1>10, <1>11, Zenon

\* A step of checksum goes from the remainder of a message to the one of the
\* message that is longer by a byte.
LEMMA RemainderStep ==
  ASSUME NEW m \in Seq(Nat), NEW b \in Bytes
  PROVE  /\ Remainder(m) \in Words
         /\ Remainder(Append(m, b)) = ChecksumStep(Remainder(m), b)
<1> DEFINE s == AllBits(m, 8)
           q == Divided(s)
           c == Remainder(m)
           hi == c \div 256
           lo == c % 256
           E(r) == EightZeros(r)
<1>0. b \in Nat /\ b \in Words /\ E(b) \in Words /\ 8 \in Nat /\ 0 \in 0..1 /\ 8 \in 0..16
  BY ByteShifted, ZerosLinear
<1>1. s \in Seq(0..1) /\ AllBits(Append(m, b), 8) = s \o Bits(b, 8)
  BY <1>0, AllBitsAppend
<1> HIDE DEF s
<1>2. q \in Words
  BY <1>0, <1>1, DividedSteps
<1>3. c = E(E(q))
  <2>1. c = Divided(s \o Zeros(16))
    BY Zenon DEF Remainder, Zeros, s
  <2> QED
    BY <1>1, <2>1, ZerosTaken
<1>4. Divided(s \o Bits(b, 8)) = Xor(E(q), b)
  <2>1. b \in 0..(TwoTo[8] - 1)
    BY Widths, Zenon
  <2>2. Divided(s \o Bits(b, 8)) = Xor(Divided(s \o Zeros(8)), b)
    BY <1>0, <1>1, <2>1, BitsTaken
  <2>3. Divided(s \o Zeros(8)) = E(q)
    BY <1>1, ZerosTaken
  <2> QED
    BY <2>2, <2>3, Zenon
<1>5. Remainder(Append(m, b)) = E(E(Xor(E(q), b)))
  <2>1. Remainder(Append(m, b)) = Divided((s \o Bits(b, 8)) \o Zeros(16))
    BY <1>1, Zenon DEF Remainder, Zeros
  <2>2. s \o Bits(b, 8) \in Seq(0..1)
    <3>1. Bits(b, 8) \in Seq(0..1)
      BY <1>0, BitsType
    <3> QED
      BY <1>1, <3>1, Joining
  <2>3. Divided((s \o Bits(b, 8)) \o Zeros(16)) = E(E(Divided(s \o Bits(b, 8))))
    BY <2>2, ZerosTaken
  <2> QED
    BY <1>4, <2>1, <2>3, Zenon
<1> HIDE DEF q, c
<1>6. c \in Words /\ E(q) \in Words /\ E(c) \in Words
  BY <1>2, <1>3, ZerosLinear, Zenon
<1>7. E(E(Xor(E(q), b))) = Xor(E(c), E(E(b)))
  <2>1. E(Xor(E(q), b)) = Xor(c, E(b))
    BY <1>0, <1>3, <1>6, ZerosLinear, Zenon
  <2>2. E(Xor(c, E(b))) = Xor(E(c), E(E(b)))
    BY <1>0, <1>6, ZerosLinear, Zenon
  <2> QED
    BY <2>1, <2>2, Zenon
<1>8. hi \in Bytes /\ lo \in Bytes /\ c = hi * 256 + lo /\ (c * 256) % Wide = lo * 256
  <2>1. c \in Nat /\ c < Wide
    BY <1>6 DEF Words
  <2>2. hi \in Nat /\ hi < 256 /\ lo \in Nat /\ lo < 256 /\ c = hi * 256 + lo
        /\ (c * 256) % Wide = lo * 256
    BY <2>1, SMT DEF Wide
  <2> QED
    BY <2>2 DEF Bytes
<1> HIDE DEF hi, lo
<1>9. E(c) = Xor(E(E(hi)), E(lo))
  <2>1. hi \in Nat /\ hi \in Words /\ lo \in Words /\ E(hi) = hi * 256
    BY <1>8, ByteShifted, Zenon
  <2>2. c = Xor(E(hi), lo)
    <3>1. Xor(hi * 256, lo) = hi * 256 + lo
      BY <1>8, <2>1, XorHalves
    <3> QED
      BY <1>8, <2>1, <3>1, Zenon
  <2>3. E(hi) \in Words
    BY <2>1, ZerosLinear, Zenon
  <2> QED
    BY <2>1, <2>2, <2>3, ZerosLinear, Zenon
<1>10. Xor(hi, b) \in Bytes
  <2>1. hi \in 0..(TwoTo[8] - 1) /\ b \in 0..(TwoTo[8] - 1)
    BY <1>8, Widths, Zenon
  <2>2. 0 \in Nat
    OBVIOUS
  <2>3. /\ Xor(0 * TwoTo[8] + hi, 0 * TwoTo[8] + b) = Xor(0, 0) * TwoTo[8] + Xor(hi, b)
        /\ Xor(hi, b) \in 0..(TwoTo[8] - 1)
    BY <1>0, <2>1, <2>2, XorSplit
  <2> QED
    BY <2>3, Widths, Zenon
<1>11. CRC16_TABLE[Xor(hi, b) + 1] = Xor(E(E(hi)), E(E(b)))
  <2>1. CRC16_TABLE[Xor(hi, b) + 1] = E(E(Xor(hi, b)))
    BY <1>10, ByteShifted, Zenon
  <2>2. hi \in Words /\ E(hi) \in Words
    BY <1>8, ByteShifted, ZerosLinear, Zenon
  <2>3. E(Xor(hi, b)) = Xor(E(hi), E(b))
    BY <1>0, <2>2, ZerosLinear, Zenon
  <2>4. E(Xor(E(hi), E(b))) = Xor(E(E(hi)), E(E(b)))
    BY <1>0, <2>2, ZerosLinear, Zenon
  <2> QED
    BY <2>1, <2>3, <2>4, Zenon
<1>12. ChecksumStep(c, b) = Xor(E(lo), Xor(E(E(hi)), E(E(b))))
  <2>1. ChecksumStep(c, b) = Xor((c * 256) % Wide, CRC16_TABLE[Xor(hi, b) + 1])
    BY SMT DEF ChecksumStep, Wide, hi
  <2>2. E(lo) = lo * 256
    BY <1>8, ByteShifted, Zenon
  <2> QED
    BY <1>8, <1>11, <2>1, <2>2, Zenon
<1>13. Xor(Xor(E(E(hi)), E(lo)), E(E(b))) = Xor(E(lo), Xor(E(E(hi)), E(E(b))))
  <2> DEFINE u == E(E(hi))
             v == E(lo)
             w == E(E(b))
  <2>1. u \in Words /\ v \in Words /\ w \in Words
    <3>1. hi \in Words /\ lo \in Words
      BY <1>8, ByteShifted, Zenon
    <3> QED
      BY <1>0, <3>1, ZerosLinear, Zenon
  <2> HIDE DEF u, v, w
  <2>2. u \in Nat /\ v \in Nat /\ w \in Nat
    BY <2>1 DEF Words
  <2>3. Xor(u, v) = Xor(v, u) /\ Xor(Xor(v, u), w) = Xor(v, Xor(u, w))
    BY <2>2, XorLaws
  <2> QED
    BY <2>3, Zenon DEF u, v, w
<1> QED
  BY <1>5, <1>6, <1>7, <1>9, <1>12, <1>13, Zenon DEF c

-----------------------------------------------------------------------------
(* The buffer of the base32 loop. *)

LEMMA TwoToSum == \A a, b \in Nat : TwoTo[a + b] = TwoTo[a] * TwoTo[b]
<1> SUFFICES ASSUME NEW a \in Nat PROVE \A b \in Nat : TwoTo[a + b] = TwoTo[a] * TwoTo[b]
  OBVIOUS
<1> DEFINE S == {b \in Nat : TwoTo[a + b] = TwoTo[a] * TwoTo[b]}
<1>1. \A n \in Nat : TwoTo[n] \in Nat \ {0} /\ TwoTo[n + 1] = 2 * TwoTo[n]
  BY TwoToValues
<1>2. 0 \in S
  <2>1. a + 0 = a /\ TwoTo[0] = 1 /\ TwoTo[a] \in Nat
    BY <1>1, TwoToValues
  <2> QED
    BY <2>1
<1>3. ASSUME NEW b \in Nat, b \in S
      PROVE  b + 1 \in S
  <2>1. a + (b + 1) = (a + b) + 1 /\ a + b \in Nat /\ b + 1 \in Nat
    OBVIOUS
  <2>2. TwoTo[a + b] = TwoTo[a] * TwoTo[b]
    BY <1>3
  <2>3. TwoTo[(a + b) + 1] = 2 * TwoTo[a + b] /\ TwoTo[b + 1] = 2 * TwoTo[b]
    BY <1>1, <2>1
  <2>4. TwoTo[a] \in Nat /\ TwoTo[b] \in Nat
    BY <1>1
  <2>5. \A x, y \in Nat : 2 * (x * y) = x * (2 * y)
    OBVIOUS
  <2>6. TwoTo[a + (b + 1)] = TwoTo[a] * TwoTo[b + 1]
    BY <2>1, <2>2, <2>3, <2>4, <2>5
  <2> QED
    BY <2>1, <2>6
<1> HIDE DEF S
<1>4. \A b \in Nat : b \in S
  BY <1>2, <1>3, SetInduction
<1> QED
  BY <1>4 DEF S

\* The remainder of a product has two parts.
LEMMA RemainderParts ==
  ASSUME NEW x \in Nat, NEW p \in Nat \ {0}, NEW q \in Nat \ {0}
  PROVE  x % (p * q) = ((x \div q) % p) * q + (x % q)
<1> DEFINE u == x \div q
           r == x % q
           t == u \div p
           s == u % p
<1>1. u \in Nat /\ r \in 0..(q - 1) /\ x = q * u + r
  OBVIOUS
<1> HIDE DEF u, r
<1>2. t \in Nat /\ s \in 0..(p - 1) /\ u = p * t + s
  BY <1>1
<1> HIDE DEF t, s
<1>3. x = t * (p * q) + (s * q + r)
  <2>1. q * u = q * (p * t) + q * s
    BY <1>2
  <2>2. q * (p * t) = t * (p * q) /\ q * s = s * q
    BY <1>2
  <2> QED
    BY <1>1, <1>2, <2>1, <2>2
<1>4. p * q \in Nat \ {0}
  OBVIOUS
<1>5. s * q + r \in 0..(p * q - 1)
  <2>1. PICK k \in Nat : p = s + 1 + k
    <3>1. p - 1 - s \in Nat /\ p = s + 1 + (p - 1 - s)
      BY <1>2
    <3> QED
      BY <3>1
  <2>2. p * q = s * q + q + k * q /\ k * q \in Nat /\ s * q \in Nat
    BY <1>2, <2>1
  <2> QED
    BY <1>1, <2>2
<1> DEFINE y == s * q + r
           z == p * q
<1> HIDE DEF y, z
<1>6. x % z = y
  BY <1>2, <1>3, <1>4, <1>5, DivisionIs DEF y, z
<1> QED
  BY <1>6 DEF y, z, s, r, u

\* The lowest bits of a number have an upper part and a lower one.
LEMMA BitsParts ==
  ASSUME NEW a \in Nat, NEW b \in Nat, NEW x \in Nat
  PROVE  Bits(x % TwoTo[a + b], a + b)
           = Bits((x \div TwoTo[b]) % TwoTo[a], a) \o Bits(x % TwoTo[b], b)
<1> DEFINE p == TwoTo[a]
           q == TwoTo[b]
           h == (x \div q) % p
           l == x % q
<1>1. p \in Nat \ {0} /\ q \in Nat \ {0}
  BY TwoToValues
<1>2. TwoTo[a + b] = p * q
  BY TwoToSum
<1>3. x % (p * q) = h * q + l
  <2> HIDE DEF p, q
  <2> QED
    BY <1>1, RemainderParts
<1>4. h \in Nat /\ l \in 0..(q - 1)
  <2> HIDE DEF p, q
  <2>1. x \div q \in Nat
    BY <1>1
  <2> QED
    BY <1>1, <2>1
<1> HIDE DEF h, l
<1>5. \A n, m, u \in Nat : \A v \in 0..(TwoTo[m] - 1) :
        Bits(u * TwoTo[m] + v, n + m) = Bits(u, n) \o Bits(v, m)
  BY BitsSplit
<1>6. Bits(h * q + l, a + b) = Bits(h, a) \o Bits(l, b)
  BY <1>4, <1>5
<1> QED
  BY <1>2, <1>3, <1>6, Zenon DEF h, l

\* After a byte the buffer holds the bits that waited and the byte, whatever was
\* shifted out of it.
LEMMA FillBits ==
  ASSUME NEW old \in Nat, NEW w \in 0..4, NEW byte \in Bytes
  PROVE  /\ Fill(old, byte) \in Nat
         /\ Fill(old, byte) % TwoTo[w + 8] = (old % TwoTo[w]) * 256 + byte
         /\ Bits(Fill(old, byte) % TwoTo[w + 8], w + 8)
              = Bits(old % TwoTo[w], w) \o Bits(byte, 8)
<1> DEFINE P == TwoTo[w]
           M == TwoTo[w + 8]
           C == TwoTo[BUFFER_BITS - (w + 8)]
           N == TwoTo[BUFFER_BITS]
           low == old % P
           t == old \div P
           r == (old * 256) % N
           q == (old * 256) \div N
<1>1. /\ w \in Nat /\ w + 8 \in Nat /\ BUFFER_BITS \in Nat /\ BUFFER_BITS - (w + 8) \in Nat
      /\ BUFFER_BITS = (w + 8) + (BUFFER_BITS - (w + 8)) /\ byte \in Nat /\ byte < 256
      /\ 8 \in Nat
  BY KeyAssumption DEF Bytes
<1>2. P \in Nat \ {0} /\ M \in Nat \ {0} /\ C \in Nat \ {0} /\ N \in Nat \ {0}
  BY <1>1, TwoToValues
<1>3. M = P * 256
  <2>1. TwoTo[w + 8] = TwoTo[w] * TwoTo[8]
    BY <1>1, TwoToSum
  <2>2. TwoTo[8] = 256
    BY SmallPowers
  <2> QED
    BY <2>1, <2>2, Zenon
<1>4. N = M * C
  <2>1. TwoTo[(w + 8) + (BUFFER_BITS - (w + 8))] = TwoTo[w + 8] * TwoTo[BUFFER_BITS - (w + 8)]
    BY <1>1, TwoToSum
  <2> QED
    BY <1>1, <2>1, Zenon
<1>0. Fill(old, byte) = r + byte
  BY DEF Fill
<1> HIDE DEF P, M, C, N
<1>5. low \in 0..(P - 1) /\ t \in Nat /\ old = P * t + low
  BY <1>2
<1>6. r \in Nat /\ q \in Nat /\ old * 256 = N * q + r
  <2>1. old * 256 \in Nat
    OBVIOUS
  <2> QED
    BY <1>2, <2>1
<1> HIDE DEF low, t, r, q
<1> DEFINE j == C * q
           k == t - j
           lowest == low * 256 + byte
<1>7. j \in Nat /\ N * q = M * j
  BY <1>2, <1>4, <1>6
<1>8. old * 256 = M * t + low * 256
  <2>1. (P * t) * 256 = (P * 256) * t /\ P * t \in Nat
    BY <1>2, <1>5
  <2> QED
    BY <1>2, <1>3, <1>5, <2>1
<1>9. lowest \in 0..(M - 1)
  BY <1>1, <1>2, <1>3, <1>5
<1> HIDE DEF j
<1>10. r + byte = M * k + lowest /\ k \in Int
  <2>1. M * k = M * t - M * j /\ M * t \in Int /\ M * j \in Int
    BY <1>2, <1>5, <1>7
  <2> QED
    BY <1>1, <1>5, <1>6, <1>7, <1>8, <2>1
<1> HIDE DEF k, lowest
<1>11. k \in Nat
  <2> SUFFICES ASSUME k < 0 PROVE FALSE
    BY <1>10
  <2>1. M * k <= 0 - M
    <3>1. PICK i \in Nat : k = 0 - 1 - i
      <4>1. 0 - 1 - k \in Nat /\ k = 0 - 1 - (0 - 1 - k)
        BY <1>10
      <4> QED
        BY <4>1
    <3>2. M * k = 0 - M - M * i /\ M * i \in Nat
      BY <1>2, <3>1
    <3> QED
      BY <1>2, <3>2
  <2>2. M * k \in Int
    BY <1>2, <1>10
  <2> QED
    BY <1>1, <1>2, <1>6, <1>9, <1>10, <2>1, <2>2
<1>12. (r + byte) % M = lowest /\ r + byte \in Nat
  <2>1. r + byte \in Nat /\ r + byte = k * M + lowest
    BY <1>1, <1>2, <1>6, <1>9, <1>10, <1>11
  <2> DEFINE f == r + byte
  <2> HIDE DEF f
  <2>2. f % M = lowest
    BY <1>2, <1>9, <1>11, <2>1, DivisionIs DEF f
  <2> QED
    BY <2>1, <2>2 DEF f
<1>13. Bits(lowest, w + 8) = Bits(low, w) \o Bits(byte, 8)
  <2>1. \A n, m, u \in Nat : \A v \in 0..(TwoTo[m] - 1) :
          Bits(u * TwoTo[m] + v, n + m) = Bits(u, n) \o Bits(v, m)
    BY BitsSplit
  <2>2. low \in Nat /\ byte \in 0..(TwoTo[8] - 1)
    BY <1>1, <1>2, <1>5, Widths
  <2>3. Bits(low * TwoTo[8] + byte, w + 8) = Bits(low, w) \o Bits(byte, 8)
    <3>1. w \in Nat /\ 8 \in Nat
      BY <1>1
    <3> QED
      BY <2>1, <2>2, <3>1, ZenonT(60)
  <2>4. low * TwoTo[8] + byte = lowest
    BY Widths, Zenon DEF lowest
  <2> QED
    BY <2>3, <2>4, Zenon
<1> QED
  BY <1>0, <1>12, <1>13, Zenon DEF lowest, low, P, M

\* The symbols a turn of the loop writes and the bits it leaves are together the
\* bits that waited.
LEMMA SymbolsWritten ==
  ASSUME NEW s \in Seq(Nat), NEW x \in Nat, NEW count \in 8..12, NEW out,
         out = s \o [n \in 1..(count \div 5) |-> (x \div TwoTo[count - 5 * n]) % 32]
  PROVE  /\ out \in Seq(Nat) /\ 5 * Len(out) + (count % 5) = 5 * Len(s) + count
         /\ AllBits(out, 5) \o Bits(x % TwoTo[count % 5], count % 5)
              = AllBits(s, 5) \o Bits(x % TwoTo[count], count)
<1> DEFINE f(b) == (x \div TwoTo[b]) % 32
           A == AllBits(s, 5)
           R(b) == Bits(x % TwoTo[b], b)
<1>1. \A b \in Nat : f(b) \in Nat /\ R(b) \in Seq(0..1) /\ R(5 + b) = Bits(f(b), 5) \o R(b)
  <2> SUFFICES ASSUME NEW b \in Nat
               PROVE  f(b) \in Nat /\ R(b) \in Seq(0..1) /\ R(5 + b) = Bits(f(b), 5) \o R(b)
    OBVIOUS
  <2>1. TwoTo[b] \in Nat \ {0} /\ TwoTo[5] = 32 /\ 5 \in Nat
    BY TwoToValues, SmallPowers
  <2>2. f(b) \in Nat /\ x % TwoTo[b] \in Nat
    <3>1. \A q \in Nat \ {0} : x \div q \in Nat /\ x % q \in Nat /\ (x \div q) % 32 \in Nat
      OBVIOUS
    <3> QED
      BY <2>1, <3>1
  <2>3. Bits(x % TwoTo[5 + b], 5 + b)
          = Bits((x \div TwoTo[b]) % TwoTo[5], 5) \o Bits(x % TwoTo[b], b)
    BY <2>1, BitsParts
  <2>4. R(b) \in Seq(0..1)
    BY <2>2, BitsType
  <2> QED
    BY <2>1, <2>2, <2>3, <2>4, Zenon
<1> HIDE DEF f, R
<1>2. A \in Seq(0..1)
  <2>1. 5 \in Nat /\ 0 \in Nat
    OBVIOUS
  <2> QED
    BY <2>1, AllBitsAppend
<1>3. ASSUME NEW y \in Nat, NEW u \in Seq(Nat)
      PROVE  /\ Append(u, y) \in Seq(Nat) /\ Len(Append(u, y)) = Len(u) + 1
             /\ AllBits(Append(u, y), 5) = AllBits(u, 5) \o Bits(y, 5)
             /\ AllBits(u, 5) \in Seq(0..1) /\ Bits(y, 5) \in Seq(0..1)
  <2>1. 5 \in Nat
    OBVIOUS
  <2>2. Append(u, y) \in Seq(Nat) /\ Len(Append(u, y)) = Len(u) + 1
    OBVIOUS
  <2>3. AllBits(Append(u, y), 5) = AllBits(u, 5) \o Bits(y, 5) /\ AllBits(u, 5) \in Seq(0..1)
    BY <2>1, AllBitsAppend
  <2>4. Bits(y, 5) \in Seq(0..1)
    BY <2>1, BitsType
  <2> QED
    BY <2>2, <2>3, <2>4, Zenon
<1> HIDE DEF A
<1>l. Len(s) \in Nat /\ \A l, b \in Nat : /\ 5 * (l + 1) + b = 5 * l + (5 + b)
                                         /\ 5 * ((l + 1) + 1) + b = 5 * l + (5 + (5 + b))
  OBVIOUS
<1>4. \A y \in Nat : s \o <<y>> = Append(s, y) /\ s \o <<y, y>> \in Seq(Nat)
  OBVIOUS
<1>5. CASE count \in 8..9
  <2> DEFINE b == count - 5
             new == [n \in 1..(count \div 5) |-> (x \div TwoTo[count - 5 * n]) % 32]
  <2>1. b \in Nat /\ count % 5 = b /\ count \div 5 = 1 /\ count = 5 + b /\ count - 5 * 1 = b
    BY <1>5
  <2>2. new = <<f(b)>>
    <3>1. new = [n \in 1..1 |-> (x \div TwoTo[count - 5 * n]) % 32]
      BY <2>1, Zenon
    <3>2. \A n \in 1..1 : (x \div TwoTo[count - 5 * n]) % 32 = f(b)
      BY <2>1 DEF f
    <3> HIDE DEF new, b
    <3> QED
      BY <3>1, <3>2
  <2> HIDE DEF b, new
  <2>3. f(b) \in Nat /\ R(b) \in Seq(0..1) /\ R(5 + b) = Bits(f(b), 5) \o R(b)
    BY <1>1, <2>1
  <2>4. out = Append(s, f(b))
    <3>1. out = s \o new
      BY DEF new
    <3> QED
      BY <1>4, <2>2, <2>3, <3>1
  <2>5. /\ out \in Seq(Nat) /\ Len(out) = Len(s) + 1
        /\ AllBits(out, 5) = A \o Bits(f(b), 5) /\ Bits(f(b), 5) \in Seq(0..1)
    BY <1>3, <2>3, <2>4 DEF A
  <2>6. (A \o Bits(f(b), 5)) \o R(b) = A \o R(5 + b)
    <3> DEFINE u == A
               g == Bits(f(b), 5)
               h == R(b)
               w == R(5 + b)
    <3>1. u \in Seq(0..1) /\ g \in Seq(0..1) /\ h \in Seq(0..1) /\ w = g \o h
      BY <1>2, <2>3, <2>5, Zenon
    <3> HIDE DEF u, g, h, w
    <3>2. (u \o g) \o h = u \o w
      <4>1. (u \o g) \o h = u \o (g \o h)
        BY <3>1, ConcatAssociative, SMTT(40)
      <4> QED
        BY <3>1, <4>1, Zenon
    <3> QED
      BY <3>2 DEF u, g, h, w
  <2>7. 5 * Len(out) + (count % 5) = 5 * Len(s) + count
    BY <1>l, <2>1, <2>5, Zenon
  <2> QED
    BY <2>1, <2>5, <2>6, <2>7, Zenon DEF R, A
<1>6. CASE count \in 10..12
  <2> DEFINE b == count - 10
             new == [n \in 1..(count \div 5) |-> (x \div TwoTo[count - 5 * n]) % 32]
  <2>1. /\ b \in Nat /\ count % 5 = b /\ count \div 5 = 2 /\ count = 5 + (5 + b)
        /\ count - 5 * 1 = 5 + b /\ count - 5 * 2 = b /\ 5 + b \in Nat
    BY <1>6
  <2>2. new = <<f(5 + b), f(b)>>
    <3>1. new = [n \in 1..2 |-> (x \div TwoTo[count - 5 * n]) % 32]
      BY <2>1, Zenon
    <3>2. (x \div TwoTo[count - 5 * 1]) % 32 = f(5 + b)
          /\ (x \div TwoTo[count - 5 * 2]) % 32 = f(b)
      BY <2>1, Zenon DEF f
    <3> HIDE DEF new, b
    <3> QED
      BY <3>1, <3>2
  <2> HIDE DEF b, new
  <2>3. /\ f(b) \in Nat /\ R(b) \in Seq(0..1) /\ R(5 + b) = Bits(f(b), 5) \o R(b)
        /\ f(5 + b) \in Nat /\ R(5 + b) \in Seq(0..1)
        /\ R(5 + (5 + b)) = Bits(f(5 + b), 5) \o R(5 + b)
    BY <1>1, <2>1
  <2> DEFINE one == Append(s, f(5 + b))
  <2>4. /\ one \in Seq(Nat) /\ Len(one) = Len(s) + 1
        /\ AllBits(one, 5) = A \o Bits(f(5 + b), 5) /\ Bits(f(5 + b), 5) \in Seq(0..1)
        /\ AllBits(one, 5) \in Seq(0..1)
    BY <1>3, <2>3 DEF A
  <2>o. out = Append(one, f(b))
    <3>1. out = s \o new
      BY DEF new
    <3>2. \A y, z \in Nat : s \o <<y, z>> = Append(Append(s, y), z)
      OBVIOUS
    <3> QED
      BY <2>2, <2>3, <3>1, <3>2
  <2> HIDE DEF one
  <2>5. /\ out \in Seq(Nat) /\ Len(out) = Len(one) + 1
        /\ AllBits(out, 5) = AllBits(one, 5) \o Bits(f(b), 5) /\ Bits(f(b), 5) \in Seq(0..1)
    BY <1>3, <2>3, <2>4, <2>o
  <2>6. (AllBits(one, 5) \o Bits(f(b), 5)) \o R(b) = AllBits(one, 5) \o R(5 + b)
    <3> DEFINE u == AllBits(one, 5)
               g == Bits(f(b), 5)
               h == R(b)
               w == R(5 + b)
    <3>1. u \in Seq(0..1) /\ g \in Seq(0..1) /\ h \in Seq(0..1) /\ w = g \o h
      BY <2>3, <2>4, <2>5, Zenon
    <3> HIDE DEF u, g, h, w
    <3>2. (u \o g) \o h = u \o w
      <4>1. (u \o g) \o h = u \o (g \o h)
        BY <3>1, ConcatAssociative
      <4> QED
        BY <3>1, <4>1, Zenon
    <3> QED
      BY <3>2 DEF u, g, h, w
  <2>7. (A \o Bits(f(5 + b), 5)) \o R(5 + b) = A \o R(5 + (5 + b))
    <3> DEFINE u == A
               g == Bits(f(5 + b), 5)
               h == R(5 + b)
               w == R(5 + (5 + b))
    <3>1. u \in Seq(0..1) /\ g \in Seq(0..1) /\ h \in Seq(0..1) /\ w = g \o h
      BY <1>2, <2>3, <2>4, Zenon
    <3> HIDE DEF u, g, h, w
    <3>2. (u \o g) \o h = u \o w
      <4>1. (u \o g) \o h = u \o (g \o h)
        BY <3>1, ConcatAssociative
      <4> QED
        BY <3>1, <4>1, Zenon
    <3> QED
      BY <3>2 DEF u, g, h, w
  <2>8. 5 * Len(out) + (count % 5) = 5 * Len(s) + count
    <3>1. 5 * Len(out) + b = 5 * ((Len(s) + 1) + 1) + b
      BY <2>4, <2>5, Zenon
    <3>2. 5 * ((Len(s) + 1) + 1) + b = 5 * Len(s) + (5 + (5 + b))
      BY <1>l, <2>1
    <3> QED
      BY <2>1, <3>1, <3>2, Zenon
  <2> QED
    BY <2>1, <2>4, <2>5, <2>6, <2>7, <2>8, Zenon DEF R, A
<1>7. count \in 8..9 \/ count \in 10..12
  OBVIOUS
<1> QED
  BY <1>5, <1>6, <1>7, Zenon

-----------------------------------------------------------------------------
(* The inductive invariant. *)

Message == <<VERSION>> \o ConvertToStellarPk(pubkey)

\* The checksum so far is the remainder of what was read.
Summing ==
  /\ data = Message /\ pos \in 0..Len(data)
  /\ crc = Remainder(SubSeq(data, 1, pos))

\* What was written and what waits are the bits that were read.
Encoding ==
  /\ crc \in Words
  /\ data = Message \o <<crc % 256, crc \div 256>> /\ pos \in 0..Len(data)
  /\ buffer \in Nat /\ bits_in_buffer \in 0..4 /\ output \in Seq(Nat)
  /\ 5 * Len(output) + bits_in_buffer = 8 * pos
  /\ AllBits(output, 5) \o Bits(buffer % TwoTo[bits_in_buffer], bits_in_buffer)
       = AllBits(SubSeq(data, 1, pos), 8)

Nothing == buffer = 0 /\ bits_in_buffer = 0 /\ output = << >>

AddressInv ==
  /\ pubkey \in PublicKeys
  /\ step \in {"key", "checksum", "encode", "done"}
  /\ step = "key" => pos = 0 /\ crc = 0 /\ Nothing
  /\ step = "checksum" => Summing /\ Nothing
  /\ step = "encode" => Encoding
  /\ step = "done" => /\ Encoding /\ pos = Len(data)
                      /\ bits_in_buffer = 0 /\ Len(output) = ADDRESS_LEN

\* The byte of the sign, and the others.
SignedByte == IF SignBit(pubkey) = 1 THEN (pubkey[KEY_BYTES + 2] % 128) + 128
              ELSE pubkey[KEY_BYTES + 2]

\* What is encoded: the version, then y from its last byte to its first.
LEMMA MessageIs ==
  ASSUME pubkey \in PublicKeys
  PROVE  /\ Message \in Seq(Bytes) /\ Len(Message) = KEY_BYTES + 1
         /\ Message[KEY_BYTES + 1] = SignedByte
         /\ \A i \in 2..KEY_BYTES : Message[KEY_BYTES + 2 - i] = pubkey[KEY_BYTES + 1 + i]
<1> DEFINE n == KEY_BYTES
           out == [i \in 1..n |-> pubkey[2 * n + 2 - i]]
           c == ConvertToStellarPk(pubkey)
<1>1. n \in Nat \ {0} /\ Len(pubkey) = 2 * n + 1 /\ pubkey \in Seq(Bytes)
  <2>1. KEY_BYTES \in Nat \ {0} /\ pubkey \in Seq(0..255) /\ Len(pubkey) = 2 * KEY_BYTES + 1
    BY KeyAssumption, Zenon
  <2>2. 0..255 = Bytes
    BY SMT DEF Bytes
  <2> QED
    BY <2>1, <2>2, Zenon
<1>2. \A i \in 1..(2 * n + 1) : pubkey[i] \in Bytes
  BY <1>1
<1>3. out \in Seq(Bytes) /\ Len(out) = n
  <2>1. \A i \in 1..n : 2 * n + 2 - i \in 1..(2 * n + 1)
    BY <1>1
  <2> HIDE DEF n
  <2> QED
    BY <1>1, <1>2, <2>1
<1>4. SignedByte \in Bytes /\ 48 \in Bytes /\ pubkey[n + 2] \in Bytes
  <2>1. n + 2 \in 1..(2 * n + 1)
    BY <1>1
  <2>2. pubkey[n + 2] \in Bytes
    BY <1>2, <2>1
  <2> DEFINE y == pubkey[n + 2]
  <2>3. (y % 128) + 128 \in Bytes
    <3> HIDE DEF y
    <3> QED
      BY <2>2, SMT DEF Bytes, y
  <2>4. 48 \in Bytes
    BY SMT DEF Bytes
  <2> QED
    BY <2>2, <2>3, <2>4 DEF SignedByte
<1>5. c = IF SignBit(pubkey) = 1 THEN [out EXCEPT ![n] = (out[n] % 128) + 128] ELSE out
  BY DEF ConvertToStellarPk
<1>6. out[n] = pubkey[n + 2]
  <2>1. n \in 1..n /\ 2 * n + 2 - n = n + 2
    BY <1>1
  <2> HIDE DEF n
  <2> QED
    BY <2>1
<1>7. /\ c \in Seq(Bytes) /\ Len(c) = n /\ c[n] = SignedByte
      /\ \A i \in 1..(n - 1) : c[i] = pubkey[2 * n + 2 - i]
  <2>1. \A i \in 1..(n - 1) : out[i] = pubkey[2 * n + 2 - i] /\ i # n /\ i \in 1..n
    <3> HIDE DEF n
    <3> QED
      BY <1>1
  <2> DEFINE d == [out EXCEPT ![n] = (out[n] % 128) + 128]
  <2>2. CASE SignBit(pubkey) = 1
    <3>1. SignedByte = (out[n] % 128) + 128
      BY <1>6, <2>2, Zenon DEF SignedByte
    <3> HIDE DEF out, n
    <3>2. d = [out EXCEPT ![n] = SignedByte]
      BY <3>1, Zenon
    <3> HIDE DEF d
    <3>3. /\ d \in Seq(Bytes) /\ Len(d) = n /\ d[n] = SignedByte
          /\ \A i \in 1..(n - 1) : d[i] = out[i]
      BY <1>1, <1>3, <1>4, <3>2
    <3>4. c = d
      BY <1>5, <2>2, Zenon DEF d
    <3> HIDE DEF c
    <3> QED
      BY <2>1, <3>3, <3>4
  <2>3. CASE SignBit(pubkey) # 1
    <3>1. SignedByte = out[n] /\ c = out
      BY <1>5, <1>6, <2>3, Zenon DEF SignedByte
    <3> HIDE DEF out, n, c
    <3> QED
      BY <1>3, <2>1, <3>1
  <2> QED
    BY <2>2, <2>3, Zenon
<1> HIDE DEF c
<1>8. /\ Message = <<48>> \o c
      /\ \A i \in 1..n : Message[i + 1] = c[i]
      /\ Message \in Seq(Bytes) /\ Len(Message) = n + 1
  <2>1. Message = <<48>> \o c
    BY Zenon DEF Message, VERSION, c
  <2>2. <<48>> \in Seq(Bytes) /\ Len(<<48>>) = 1
    BY <1>4
  <2> HIDE DEF n
  <2>3. /\ <<48>> \o c \in Seq(Bytes) /\ Len(<<48>> \o c) = 1 + n
        /\ \A i \in 1..n : (<<48>> \o c)[1 + i] = c[i]
    BY <1>1, <1>7, <2>2
  <2> QED
    BY <1>1, <2>1, <2>3
<1>9. Message[n + 1] = SignedByte
  <2>1. n \in 1..n
    BY <1>1
  <2> QED
    BY <1>7, <1>8, <2>1, Zenon
<1>10. ASSUME NEW i \in 2..n
       PROVE  Message[n + 2 - i] = pubkey[n + 1 + i]
  <2> DEFINE j == n + 1 - i
  <2>1. /\ j \in 1..(n - 1) /\ j \in 1..n /\ j + 1 = n + 2 - i
        /\ 2 * n + 2 - j = n + 1 + i
    BY <1>1
  <2> HIDE DEF j, n
  <2>2. Message[j + 1] = c[j] /\ c[j] = pubkey[2 * n + 2 - j]
    BY <1>7, <1>8, <2>1
  <2> QED
    BY <2>1, <2>2, Zenon
<1> QED
  BY <1>8, <1>9, <1>10

\* With the checksum.
LEMMA EncodedIs ==
  ASSUME pubkey \in PublicKeys, crc \in Words
  PROVE  LET all == Message \o <<crc % 256, crc \div 256>>
         IN  /\ all \in Seq(Bytes) /\ Len(all) = KEY_BYTES + 3
             /\ \A i \in 1..(KEY_BYTES + 1) : all[i] = Message[i]
<1> DEFINE m == Message
           n == KEY_BYTES
           lo == crc % 256
           hi == crc \div 256
<1>1. m \in Seq(Bytes) /\ Len(m) = n + 1 /\ n \in Nat
  BY MessageIs, KeyAssumption
<1>2. lo \in Bytes /\ hi \in Bytes
  <2>1. crc \in Nat /\ crc < Wide
    BY DEF Words
  <2> QED
    BY <2>1, SMT DEF Wide, Bytes
<1> HIDE DEF m, n, lo, hi
<1>3. /\ m \o <<lo, hi>> \in Seq(Bytes) /\ Len(m \o <<lo, hi>>) = n + 3
      /\ \A i \in 1..(n + 1) : (m \o <<lo, hi>>)[i] = m[i]
  BY <1>1, <1>2
<1> QED
  BY <1>3, Zenon DEF m, n, lo, hi

\* Bytes are numbers, in sequences too.
LEMMA BytesAreNumbers ==
  ASSUME NEW s \in Seq(Bytes)
  PROVE  s \in Seq(Nat)
BY DEF Bytes

LEMMA RemainderNothing == Remainder(<< >>) = 0
<1>1. 0 \in Bytes /\ << >> \in Seq(0..1)
  BY DEF Bytes
<1>2. EightZeros(0) = 0
  <2>1. EightZeros(0) = 0 * 256 /\ 0 * 256 = 0
    BY <1>1, ByteShifted
  <2> QED
    BY <2>1
<1>3. Divided(<< >> \o Zeros(16)) = EightZeros(EightZeros(Divided(<< >>)))
  BY <1>1, ZerosTaken
<1> QED
  BY <1>2, <1>3, DividedNothing, AllBitsNothing, Zenon DEF Remainder, Zeros

-----------------------------------------------------------------------------
(* Each step keeps the invariant. *)

LEMMA InitKeeps == Init => AddressInv
BY DEF Init, AddressInv, Nothing

LEMMA TakeKeyKeeps == AddressInv /\ TakeKey => AddressInv'
<1> SUFFICES ASSUME AddressInv, TakeKey PROVE AddressInv'
  OBVIOUS
<1>1. /\ pubkey \in PublicKeys /\ step = "key" /\ pos = 0 /\ crc = 0 /\ Nothing
      /\ step' = "checksum" /\ data' = Message /\ pubkey' = pubkey /\ pos' = pos
      /\ crc' = crc /\ buffer' = buffer /\ bits_in_buffer' = bits_in_buffer
      /\ output' = output
  BY Zenon DEF AddressInv, TakeKey, Message
<1>2. Nothing'
  BY <1>1 DEF Nothing
<1>3. Message' = Message
  BY <1>1 DEF Message
<1>4. data' \in Seq(Bytes) /\ 0 \in 0..Len(data') /\ SubSeq(data', 1, 0) = << >>
  <2>1. data' \in Seq(Bytes)
    BY <1>1, MessageIs
  <2> DEFINE d == data'
  <2> HIDE DEF d
  <2>2. \A s \in Seq(Bytes) : 0 \in 0..Len(s)
    OBVIOUS
  <2>3. \A s \in Seq(Bytes) : SubSeq(s, 1, 0) = << >>
    BY SubSeqEmpty
  <2> QED
    BY <2>1, <2>2, <2>3, Zenon
<1>5. Summing'
  BY <1>1, <1>3, <1>4, RemainderNothing, Zenon DEF Summing
<1> QED
  BY <1>1, <1>2, <1>5, Zenon DEF AddressInv

LEMMA ChecksumByteKeeps == AddressInv /\ ChecksumByte => AddressInv'
<1> SUFFICES ASSUME AddressInv, ChecksumByte PROVE AddressInv'
  OBVIOUS
<1>1. /\ pubkey \in PublicKeys /\ step = "checksum" /\ Summing /\ Nothing /\ pos < Len(data)
      /\ crc' = ChecksumStep(crc, data[pos + 1]) /\ pos' = pos + 1
      /\ pubkey' = pubkey /\ step' = step /\ data' = data /\ buffer' = buffer
      /\ bits_in_buffer' = bits_in_buffer /\ output' = output
  BY Zenon DEF AddressInv, ChecksumByte
<1>2. Nothing' /\ Message' = Message
  BY <1>1 DEF Nothing, Message
<1>3. data = Message /\ pos \in 0..Len(data) /\ crc = Remainder(SubSeq(data, 1, pos))
  BY <1>1 DEF Summing
<1>4. data \in Seq(Bytes)
  BY <1>1, <1>3, MessageIs
<1>5. pos \in 0..(Len(data) - 1) /\ pos + 1 \in 0..Len(data) /\ pos + 1 \in 1..Len(data)
  BY <1>1, <1>3, <1>4
<1>6. /\ SubSeq(data, 1, pos) \in Seq(Bytes) /\ data[pos + 1] \in Bytes
      /\ SubSeq(data, 1, pos + 1) = Append(SubSeq(data, 1, pos), data[pos + 1])
  BY <1>4, <1>5, OneMoreTaken
<1>7. Remainder(Append(SubSeq(data, 1, pos), data[pos + 1]))
        = ChecksumStep(Remainder(SubSeq(data, 1, pos)), data[pos + 1])
  <2>1. SubSeq(data, 1, pos) \in Seq(Nat)
    BY <1>6, BytesAreNumbers
  <2> QED
    BY <1>6, <2>1, RemainderStep
<1>8. crc' = Remainder(SubSeq(data, 1, pos + 1))
  BY <1>1, <1>3, <1>6, <1>7, Zenon
<1>9. Summing'
  BY <1>1, <1>2, <1>3, <1>5, <1>8, Zenon DEF Summing
<1> QED
  BY <1>1, <1>2, <1>9, Zenon DEF AddressInv

LEMMA AppendChecksumKeeps == AddressInv /\ AppendChecksum => AddressInv'
<1> SUFFICES ASSUME AddressInv, AppendChecksum PROVE AddressInv'
  OBVIOUS
<1>1. /\ pubkey \in PublicKeys /\ step = "checksum" /\ Summing /\ Nothing /\ pos = Len(data)
      /\ data' = data \o <<crc % 256, crc \div 256>> /\ step' = "encode" /\ pos' = 0
      /\ pubkey' = pubkey /\ crc' = crc /\ buffer' = buffer
      /\ bits_in_buffer' = bits_in_buffer /\ output' = output
  BY Zenon DEF AddressInv, AppendChecksum
<1>2. Message' = Message
  BY <1>1 DEF Message
<1>3. data = Message /\ crc = Remainder(SubSeq(data, 1, pos)) /\ pos \in 0..Len(data)
  BY <1>1 DEF Summing
<1>4. data \in Seq(Bytes)
  BY <1>1, <1>3, MessageIs
<1>5. crc \in Words
  <2>1. SubSeq(data, 1, pos) \in Seq(Nat)
    <3>1. SubSeq(data, 1, pos) = data
      BY <1>1, <1>4, SubSeqFull
    <3> QED
      BY <1>4, <3>1, BytesAreNumbers
  <2>2. 0 \in Bytes
    BY DEF Bytes
  <2>3. Remainder(SubSeq(data, 1, pos)) \in Words
    BY <2>1, <2>2, RemainderStep
  <2> QED
    BY <1>3, <2>3, Zenon
<1>6. data' = Message \o <<crc % 256, crc \div 256>> /\ data' \in Seq(Bytes)
  BY <1>1, <1>3, <1>5, EncodedIs, Zenon
<1>7. 0 \in 0..Len(data') /\ SubSeq(data', 1, 0) = << >>
  <2>1. \A s \in Seq(Bytes) : 0 \in 0..Len(s)
    OBVIOUS
  <2>2. \A s \in Seq(Bytes) : SubSeq(s, 1, 0) = << >>
    BY SubSeqEmpty
  <2> QED
    BY <1>6, <2>1, <2>2, Zenon
<1>8. buffer = 0 /\ bits_in_buffer = 0 /\ output = << >>
  BY <1>1 DEF Nothing
<1>9. AllBits(<< >>, 5) \o Bits(0 % TwoTo[0], 0) = AllBits(<< >>, 8)
  <2>1. Bits(0 % TwoTo[0], 0) = << >>
    BY DEF Bits
  <2>2. << >> \o << >> = << >>
    OBVIOUS
  <2> QED
    BY <2>1, <2>2, AllBitsNothing, Zenon
<1>10. 0 \in Nat /\ 0 \in 0..4 /\ << >> \in Seq(Nat) /\ 5 * Len(<< >>) + 0 = 8 * 0
  OBVIOUS
<1>11. Encoding'
  BY <1>1, <1>2, <1>5, <1>6, <1>7, <1>8, <1>9, <1>10, Zenon DEF Encoding
<1> QED
  BY <1>1, <1>11, Zenon DEF AddressInv

LEMMA EncodeByteKeeps == AddressInv /\ EncodeByte => AddressInv'
<1> SUFFICES ASSUME AddressInv, EncodeByte PROVE AddressInv'
  OBVIOUS
<1> DEFINE byte == data[pos + 1]
           filled == Fill(buffer, byte)
           w == bits_in_buffer
           count == w + 8
           s == SubSeq(data, 1, pos)
           low == Bits(buffer % TwoTo[w], w)
<1>1. /\ pubkey \in PublicKeys /\ step = "encode" /\ Encoding /\ pos < Len(data)
      /\ buffer' = filled /\ bits_in_buffer' = count % 5 /\ pos' = pos + 1
      /\ output' = output \o [n \in 1..(count \div 5) |->
                                (filled \div TwoTo[count - 5 * n]) % 32]
      /\ pubkey' = pubkey /\ step' = step /\ data' = data /\ crc' = crc
  BY Zenon DEF AddressInv, EncodeByte
<1>2. Message' = Message
  BY <1>1 DEF Message
<1>3. /\ crc \in Words /\ data = Message \o <<crc % 256, crc \div 256>> /\ pos \in 0..Len(data)
      /\ buffer \in Nat /\ w \in 0..4 /\ output \in Seq(Nat)
      /\ 5 * Len(output) + w = 8 * pos
      /\ AllBits(output, 5) \o low = AllBits(s, 8)
  BY <1>1, Zenon DEF Encoding
<1>4. data \in Seq(Bytes)
  BY <1>1, <1>3, EncodedIs, Zenon
<1>5. pos \in Nat /\ pos \in 0..(Len(data) - 1) /\ pos + 1 \in 0..Len(data)
      /\ pos + 1 \in 1..Len(data)
  BY <1>1, <1>3, <1>4, SMTT(40)
<1>6. s \in Seq(Nat) /\ byte \in Bytes /\ byte \in Nat /\ SubSeq(data, 1, pos + 1) = Append(s, byte)
  <2>1. s \in Seq(Bytes) /\ byte \in Bytes /\ SubSeq(data, 1, pos + 1) = Append(s, byte)
    BY <1>4, <1>5, OneMoreTaken
  <2>2. byte \in Nat
    <3> HIDE DEF byte
    <3> QED
      BY <2>1 DEF Bytes
  <2> HIDE DEF s, byte
  <2> QED
    BY <2>1, <2>2, BytesAreNumbers
<1> HIDE DEF byte, s, filled, low
<1>7. /\ filled \in Nat
      /\ Bits(filled % TwoTo[count], count) = low \o Bits(byte, 8)
  BY <1>3, <1>6, FillBits, ZenonT(60) DEF filled, low
<1>8. /\ output' \in Seq(Nat) /\ 5 * Len(output') + (count % 5) = 5 * Len(output) + count
      /\ AllBits(output', 5) \o Bits(filled % TwoTo[count % 5], count % 5)
           = AllBits(output, 5) \o Bits(filled % TwoTo[count], count)
  <2>1. count \in 8..12
    BY <1>3
  <2> HIDE DEF count, w
  <2>2. output' = output \o [n \in 1..(count \div 5) |->
                               (filled \div TwoTo[count - 5 * n]) % 32]
    BY <1>1, Zenon
  <2>3. output \in Seq(Nat) /\ filled \in Nat
    BY <1>3, <1>7, Zenon
  <2> QED
    BY <2>1, <2>2, <2>3, SymbolsWritten, ZenonT(60)
<1>9. 5 * Len(output') + (count % 5) = 8 * (pos + 1) /\ count % 5 \in 0..4
  <2>1. 5 * Len(output) + count = 8 * (pos + 1)
    <3> DEFINE l == Len(output)
               v == w
    <3>1. l \in Nat /\ v \in Nat /\ 5 * l + v = 8 * pos
      BY <1>3
    <3> HIDE DEF l, v
    <3>2. 5 * l + (v + 8) = 8 * (pos + 1)
      BY <1>5, <3>1
    <3> QED
      BY <3>2, Zenon DEF l, v
  <2>2. count % 5 \in 0..4
    BY <1>3
  <2> QED
    BY <1>8, <2>1, <2>2, Zenon
<1>10. AllBits(output, 5) \o (low \o Bits(byte, 8)) = AllBits(s, 8) \o Bits(byte, 8)
  <2> DEFINE u == AllBits(output, 5)
             b == Bits(byte, 8)
  <2>1. u \in Seq(0..1)
    <3>1. 5 \in Nat /\ 0 \in Nat
      OBVIOUS
    <3> QED
      BY <1>3, <3>1, AllBitsAppend
  <2>2. b \in Seq(0..1)
    <3>1. 8 \in Nat
      OBVIOUS
    <3> QED
      BY <1>6, <3>1, BitsType
  <2>3. low \in Seq(0..1)
    <3>1. TwoTo[w] \in Nat \ {0} /\ w \in Nat
      <4>1. w \in Nat
        BY <1>3
      <4> QED
        BY <4>1, TwoToValues
    <3>2. \A q \in Nat \ {0} : buffer % q \in Nat
      BY <1>3
    <3>3. buffer % TwoTo[w] \in Nat
      BY <3>1, <3>2
    <3> QED
      BY <3>1, <3>3, BitsType DEF low
  <2> HIDE DEF u, b
  <2>4. u \o (low \o b) = (u \o low) \o b
    BY <2>1, <2>2, <2>3, ConcatAssociative
  <2> QED
    BY <1>3, <2>4, Zenon DEF u, b
<1>11. AllBits(Append(s, byte), 8) = AllBits(s, 8) \o Bits(byte, 8)
  <2>1. 8 \in Nat
    OBVIOUS
  <2> QED
    BY <1>6, <2>1, AllBitsAppend
<1>12. AllBits(output', 5) \o Bits(filled % TwoTo[count % 5], count % 5)
         = AllBits(SubSeq(data, 1, pos + 1), 8)
  BY <1>6, <1>7, <1>8, <1>10, <1>11, Zenon
<1>13. Encoding'
  <2> HIDE DEF count
  <2> QED
    BY <1>1, <1>2, <1>3, <1>5, <1>7, <1>8, <1>9, <1>12, Zenon DEF Encoding
<1> QED
  BY <1>1, <1>13, Zenon DEF AddressInv

\* Nothing is left over at the end, and the characters are as many as they
\* have to be.
LEMMA FinishKeeps == AddressInv /\ Finish => AddressInv'
<1> SUFFICES ASSUME AddressInv, Finish PROVE AddressInv'
  OBVIOUS
<1>1. /\ pubkey \in PublicKeys /\ step = "encode" /\ Encoding /\ pos = Len(data)
      /\ output' = (IF bits_in_buffer = 0 THEN output
                    ELSE Append(output, (buffer * TwoTo[5 - bits_in_buffer]) % 32))
      /\ step' = (IF Len(output') = ADDRESS_LEN THEN "done" ELSE "InvalidInput")
      /\ pubkey' = pubkey /\ data' = data /\ pos' = pos /\ crc' = crc
      /\ buffer' = buffer /\ bits_in_buffer' = bits_in_buffer
  BY Zenon DEF AddressInv, Finish
<1>2. Message' = Message
  BY <1>1 DEF Message
<1>3. /\ crc \in Words /\ data = Message \o <<crc % 256, crc \div 256>>
      /\ bits_in_buffer \in 0..4 /\ output \in Seq(Nat)
      /\ 5 * Len(output) + bits_in_buffer = 8 * pos
  BY <1>1, Zenon DEF Encoding
<1>4. Len(data) = KEY_BYTES + 3
  BY <1>1, <1>3, EncodedIs, Zenon
<1>5. bits_in_buffer = 0 /\ Len(output) = ADDRESS_LEN
  <2>1. ADDRESS_LEN * 5 = (KEY_BYTES + 3) * 8 /\ KEY_BYTES \in Nat
    BY KeyAssumption
  <2>2. ADDRESS_LEN \in Int
    BY KeyAssumption
  <2>3. Len(output) \in Nat
    BY <1>3
  <2> QED
    BY <1>1, <1>3, <1>4, <2>1, <2>2, <2>3, SMTT(40)
<1>6. output' = output /\ step' = "done"
  BY <1>1, <1>5, Zenon
<1>7. Encoding'
  <2>1. /\ data' = data /\ pos' = pos /\ crc' = crc /\ buffer' = buffer
        /\ bits_in_buffer' = bits_in_buffer /\ Encoding
    BY <1>1, Zenon
  <2> QED
    BY <1>2, <1>6, <2>1 DEF Encoding
<1> QED
  BY <1>1, <1>5, <1>6, <1>7, Zenon DEF AddressInv

LEMMA StutterKeeps == AddressInv /\ UNCHANGED vars => AddressInv'
<1> SUFFICES ASSUME AddressInv, UNCHANGED vars PROVE AddressInv'
  OBVIOUS
<1>1. /\ pubkey' = pubkey /\ step' = step /\ data' = data /\ pos' = pos /\ crc' = crc
      /\ buffer' = buffer /\ bits_in_buffer' = bits_in_buffer /\ output' = output
  BY DEF vars
<1>2. Message' = Message
  BY <1>1 DEF Message
<1>3. Summing' = Summing /\ Encoding' = Encoding /\ Nothing' = Nothing
  BY <1>1, <1>2 DEF Summing, Encoding, Nothing
<1> QED
  BY <1>1, <1>3 DEF AddressInv

\* The invariant holds in every state.
THEOREM AddressInvHolds == Spec => []AddressInv
<1>1. AddressInv /\ [Next]_vars => AddressInv'
  BY TakeKeyKeeps, ChecksumByteKeeps, AppendChecksumKeeps, EncodeByteKeeps, FinishKeeps,
     StutterKeeps, Zenon DEF Next
<1> QED
  BY InitKeeps, <1>1, PTL DEF Spec

-----------------------------------------------------------------------------
(* What it means. *)

\* Whatever the key, the sum the table gives between two bytes of checksum's
\* loop is what is left of the bytes read, divided by the polynomial.
THEOREM ChecksumSafety == Spec => []ChecksumDivides
<1>1. AddressInv => ChecksumDivides
  BY Zenon DEF AddressInv, Summing, ChecksumDivides
<1> QED
  BY AddressInvHolds, <1>1, PTL

\* Whatever the key and the width of the buffer, the loop of encode_base32 loses
\* no bit and writes none twice.
THEOREM EncodingSafety == Spec => []NothingLost
<1>1. AddressInv => NothingLost
  BY Zenon DEF AddressInv, Encoding, NothingLost
<1> QED
  BY AddressInvHolds, <1>1, PTL

\* The bits of the byte of the sign: the sign, then the bits of y but the first.
LEMMA SignedBits ==
  ASSUME pubkey \in PublicKeys, NEW b \in 1..8
  PROVE  Bits(SignedByte, 8)[b]
           = IF b = 1 THEN pubkey[KEY_BYTES + 1] % 2 ELSE Bits(pubkey[KEY_BYTES + 2], 8)[b]
<1> DEFINE y == pubkey[KEY_BYTES + 2]
           sign == SignBit(pubkey)
<1>1. y \in Nat /\ y < 128 /\ sign \in 0..1 /\ sign = pubkey[KEY_BYTES + 1] % 2
  <2>1. /\ KEY_BYTES \in Nat \ {0} /\ Len(pubkey) = 2 * KEY_BYTES + 1
        /\ pubkey[KEY_BYTES + 2] < 128 /\ pubkey \in Seq(0..255)
    BY KeyAssumption, Zenon
  <2>2. 0..255 = Bytes
    BY SMT DEF Bytes
  <2>3. pubkey \in Seq(Bytes)
    BY <2>1, <2>2, Zenon
  <2>4. KEY_BYTES + 2 \in 1..Len(pubkey) /\ KEY_BYTES + 1 \in 1..Len(pubkey)
    BY <2>1
  <2>5. pubkey[KEY_BYTES + 2] \in Bytes /\ pubkey[KEY_BYTES + 1] \in Bytes
    BY <2>3, <2>4
  <2>6. \A v \in Bytes : v \in Nat /\ v % 2 \in 0..1
    BY DEF Bytes
  <2> QED
    BY <2>1, <2>5, <2>6, Zenon DEF SignBit
<1> HIDE DEF y, sign
<1>2. SignedByte = sign * 128 + y
  <2>1. SignedByte = IF sign = 1 THEN (y % 128) + 128 ELSE y
    BY Zenon DEF SignedByte, sign, y
  <2>2. y % 128 = y
    BY <1>1
  <2> QED
    BY <1>1, <2>1, <2>2
<1>3. \A u \in 0..1 : Bits(u * 128 + y, 8) = Bits(u, 1) \o Bits(y, 7)
  <2>1. \A n, m, u \in Nat : \A v \in 0..(TwoTo[m] - 1) :
          Bits(u * TwoTo[m] + v, n + m) = Bits(u, n) \o Bits(v, m)
    BY BitsSplit
  <2>2. TwoTo[7] = 128 /\ y \in 0..(TwoTo[7] - 1) /\ 1 \in Nat /\ 7 \in Nat /\ 1 + 7 = 8
    BY <1>1, SmallPowers
  <2>3. ASSUME NEW u \in 0..1
        PROVE  Bits(u * TwoTo[7] + y, 1 + 7) = Bits(u, 1) \o Bits(y, 7)
    <3>1. u \in Nat
      OBVIOUS
    <3> DEFINE one == 1
               seven == 7
    <3>2. one \in Nat /\ seven \in Nat /\ y \in 0..(TwoTo[seven] - 1)
      BY <2>2
    <3> HIDE DEF one, seven
    <3>3. Bits(u * TwoTo[seven] + y, one + seven) = Bits(u, one) \o Bits(y, seven)
      BY <2>1, <3>1, <3>2, Zenon
    <3> QED
      BY <3>3, Zenon DEF one, seven
  <2> QED
    BY <2>2, <2>3, Zenon
<1>4. \A u \in 0..1 : /\ Bits(u, 1) \in Seq(0..1) /\ Len(Bits(u, 1)) = 1 /\ Bits(u, 1)[1] = u
  <2> SUFFICES ASSUME NEW u \in 0..1
               PROVE  Bits(u, 1) \in Seq(0..1) /\ Len(Bits(u, 1)) = 1 /\ Bits(u, 1)[1] = u
    OBVIOUS
  <2>1. u \in Nat /\ 1 \in Nat /\ 1 \in 1..1 /\ 1 - 1 = 0
    OBVIOUS
  <2>2. Bits(u, 1)[1] = (u \div TwoTo[1 - 1]) % 2
    BY <2>1 DEF Bits
  <2>3. TwoTo[0] = 1 /\ u \div 1 = u /\ u % 2 = u
    BY TwoToValues
  <2>4. Bits(u, 1)[1] = u
    BY <2>1, <2>2, <2>3, Zenon
  <2> QED
    BY <2>1, <2>4, BitsType
<1>5. Bits(y, 7) \in Seq(0..1) /\ Len(Bits(y, 7)) = 7
  <2>1. 7 \in Nat
    OBVIOUS
  <2> QED
    BY <1>1, <2>1, BitsType
<1> DEFINE rest == Bits(y, 7)
<1>6. \A u \in 0..1 : /\ (Bits(u, 1) \o rest)[1] = u
                      /\ \A i \in 2..8 : (Bits(u, 1) \o rest)[i] = rest[i - 1]
  <2> SUFFICES ASSUME NEW u \in 0..1
               PROVE  /\ (Bits(u, 1) \o rest)[1] = u
                      /\ \A i \in 2..8 : (Bits(u, 1) \o rest)[i] = rest[i - 1]
    OBVIOUS
  <2> DEFINE f == Bits(u, 1)
  <2>1. f \in Seq(0..1) /\ Len(f) = 1 /\ f[1] = u
    BY <1>4
  <2> HIDE DEF f, rest
  <2>2. rest \in Seq(0..1) /\ Len(rest) = 7
    BY <1>5 DEF rest
  <2>3. (f \o rest)[1] = u /\ \A i \in 2..8 : (f \o rest)[i] = rest[i - 1]
    <3>1. /\ \A i \in 1..Len(f) : (f \o rest)[i] = f[i]
          /\ \A i \in 1..Len(rest) : (f \o rest)[Len(f) + i] = rest[i]
      BY <2>1, <2>2, JoinedParts, SMTT(40)
    <3>2. ASSUME NEW i \in 2..8 PROVE (f \o rest)[i] = rest[i - 1]
      <4>1. i - 1 \in 1..7 /\ 1 + (i - 1) = i
        OBVIOUS
      <4>2. (f \o rest)[1 + (i - 1)] = rest[i - 1]
        BY <2>1, <2>2, <3>1, <4>1, Zenon
      <4> QED
        BY <4>1, <4>2, Zenon
    <3>3. (f \o rest)[1] = u
      <4>1. 1 \in 1..1
        OBVIOUS
      <4> QED
        BY <2>1, <3>1, <4>1, Zenon
    <3> QED
      BY <3>2, <3>3
  <2> QED
    BY <2>3 DEF f
<1> HIDE DEF rest
<1>7. Bits(SignedByte, 8) = Bits(sign, 1) \o rest
  BY <1>1, <1>2, <1>3, Zenon DEF rest
<1>8. Bits(y, 8) = Bits(0, 1) \o rest
  <2>1. 0 \in 0..1 /\ 0 * 128 + y = y
    BY <1>1
  <2> QED
    BY <1>3, <2>1, Zenon DEF rest
<1>9. CASE b = 1
  BY <1>1, <1>6, <1>7, <1>9
<1>10. CASE b \in 2..8
  <2>1. Bits(SignedByte, 8)[b] = rest[b - 1]
    BY <1>1, <1>6, <1>7, <1>10, ZenonT(60)
  <2>2. Bits(y, 8)[b] = rest[b - 1]
    <3>1. 0 \in 0..1
      OBVIOUS
    <3> QED
      BY <1>6, <1>8, <1>10, <3>1, ZenonT(60)
  <2>3. b # 1
    BY <1>10
  <2> QED
    BY <2>1, <2>2, <2>3, Zenon DEF y
<1>11. b = 1 \/ b \in 2..8
  OBVIOUS
<1> QED
  BY <1>9, <1>10, <1>11, Zenon

\* Each bit of a sequence of bytes is one of its byte's.
LEMMA AllBytesAt ==
  ASSUME NEW s \in Seq(Nat)
  PROVE  \A k \in 1..Len(s), d \in 1..8 : AllBits(s, 8)[8 * (k - 1) + d] = Bits(s[k], 8)[d]
<1>1. ASSUME NEW w \in Nat
      PROVE  \A k \in 1..Len(s), d \in 1..w : AllBits(s, w)[w * (k - 1) + d] = Bits(s[k], w)[d]
  BY AllBitsAt, Zenon
<1>2. 8 \in Nat
  OBVIOUS
<1> QED
  BY <1>1, <1>2, Zenon

\* The bits of the data, where the key's are.
LEMMA EncodedBits ==
  ASSUME pubkey \in PublicKeys, crc \in Words,
         data = Message \o <<crc % 256, crc \div 256>>
  PROVE  \A i \in 1..KEY_BYTES, b \in 1..8 :
           AllBits(data, 8)[8 * (KEY_BYTES + 1 - i) + b]
             = IF i = 1 /\ b = 1 THEN pubkey[KEY_BYTES + 1] % 2
               ELSE Bits(pubkey[KEY_BYTES + 1 + i], 8)[b]
<1> SUFFICES ASSUME NEW i \in 1..KEY_BYTES, NEW b \in 1..8
             PROVE  AllBits(data, 8)[8 * (KEY_BYTES + 1 - i) + b]
                      = IF i = 1 /\ b = 1 THEN pubkey[KEY_BYTES + 1] % 2
                        ELSE Bits(pubkey[KEY_BYTES + 1 + i], 8)[b]
  OBVIOUS
<1> DEFINE j == KEY_BYTES + 2 - i
<1>1. /\ j \in 1..(KEY_BYTES + 1) /\ j \in 1..(KEY_BYTES + 3) /\ j - 1 = KEY_BYTES + 1 - i
      /\ 8 \in Nat /\ KEY_BYTES \in Nat
  BY KeyAssumption
<1>2. data \in Seq(Bytes) /\ Len(data) = KEY_BYTES + 3 /\ data[j] = Message[j]
  <2>1. /\ data \in Seq(Bytes) /\ Len(data) = KEY_BYTES + 3
        /\ \A k \in 1..(KEY_BYTES + 1) : data[k] = Message[k]
    BY EncodedIs, Zenon
  <2> HIDE DEF j
  <2> QED
    BY <1>1, <2>1, Zenon
<1>3. AllBits(data, 8)[8 * (j - 1) + b] = Bits(data[j], 8)[b]
  <2>1. data \in Seq(Nat)
    BY <1>2, BytesAreNumbers
  <2> HIDE DEF j
  <2>2. \A k \in 1..Len(data), d \in 1..8 :
          AllBits(data, 8)[8 * (k - 1) + d] = Bits(data[k], 8)[d]
    BY <2>1, AllBytesAt, ZenonT(60)
  <2>3. j \in 1..Len(data)
    BY <1>1, <1>2, Zenon
  <2> DEFINE bits == AllBits(data, 8)
             of(k, d) == Bits(data[k], 8)[d]
  <2>4. \A k \in 1..Len(data), d \in 1..8 : bits[8 * (k - 1) + d] = of(k, d)
    BY <2>2, Zenon
  <2> HIDE DEF bits, of
  <2>5. bits[8 * (j - 1) + b] = of(j, b)
    BY <2>3, <2>4
  <2> QED
    BY <2>5, Zenon DEF bits, of
<1>r. AllBits(data, 8)[8 * (KEY_BYTES + 1 - i) + b] = Bits(data[j], 8)[b]
  <2> HIDE DEF j
  <2> QED
    BY <1>1, <1>3, Zenon
<1>4. CASE i = 1
  <2>1. j = KEY_BYTES + 1 /\ KEY_BYTES + 1 + i = KEY_BYTES + 2
    BY <1>1, <1>4
  <2> HIDE DEF j
  <2>2. data[j] = SignedByte
    BY <1>2, <2>1, MessageIs, Zenon
  <2>3. Bits(SignedByte, 8)[b]
          = IF b = 1 THEN pubkey[KEY_BYTES + 1] % 2 ELSE Bits(pubkey[KEY_BYTES + 2], 8)[b]
    BY SignedBits
  <2>4. AllBits(data, 8)[8 * (KEY_BYTES + 1 - i) + b] = Bits(SignedByte, 8)[b]
    BY <1>r, <2>2, Zenon
  <2>5. pubkey[KEY_BYTES + 2] = pubkey[KEY_BYTES + 1 + i]
    BY <2>1, Zenon
  <2>6. CASE b = 1
    BY <1>4, <2>3, <2>4, <2>6, Zenon
  <2>7. CASE b # 1
    BY <1>4, <2>3, <2>4, <2>5, <2>7, Zenon
  <2> QED
    BY <2>6, <2>7, Zenon
<1>5. CASE i \in 2..KEY_BYTES
  <2>1. Message[KEY_BYTES + 2 - i] = pubkey[KEY_BYTES + 1 + i]
    BY <1>5, MessageIs, Zenon
  <2>2. i # 1
    BY <1>1, <1>5
  <2>3. data[j] = pubkey[KEY_BYTES + 1 + i]
    BY <1>2, <2>1, Zenon
  <2> HIDE DEF j
  <2> QED
    BY <1>r, <2>2, <2>3, Zenon
<1>6. i = 1 \/ i \in 2..KEY_BYTES
  BY <1>1
<1> QED
  BY <1>4, <1>5, <1>6, Zenon

\* Whatever the key, the address that is written has all its characters, and in
\* its bits those of y and the sign of x in their places.
THEOREM AddressSafety == Spec => []AddressNamesKey
<1>1. AddressInv => AddressNamesKey
  <2> SUFFICES ASSUME AddressInv PROVE AddressNamesKey
    OBVIOUS
  <2>1. step # "InvalidInput"
    BY DEF AddressInv
  <2>2. ASSUME step = "done"
        PROVE  /\ Len(output) = ADDRESS_LEN
               /\ \A i \in 1..KEY_BYTES, b \in 1..8 :
                    AllBits(output, 5)[8 * (KEY_BYTES + 1 - i) + b]
                      = IF i = 1 /\ b = 1 THEN pubkey[KEY_BYTES + 1] % 2
                        ELSE Bits(pubkey[KEY_BYTES + 1 + i], 8)[b]
    <3>1. /\ pubkey \in PublicKeys /\ Encoding /\ pos = Len(data) /\ bits_in_buffer = 0
          /\ Len(output) = ADDRESS_LEN
      BY <2>2, Zenon DEF AddressInv
    <3>2. /\ crc \in Words /\ data = Message \o <<crc % 256, crc \div 256>>
          /\ output \in Seq(Nat)
          /\ AllBits(output, 5) \o Bits(buffer % TwoTo[0], 0) = AllBits(SubSeq(data, 1, pos), 8)
      BY <3>1, Zenon DEF Encoding
    <3>3. SubSeq(data, 1, pos) = data
      <4>1. data \in Seq(Bytes)
        BY <3>1, <3>2, EncodedIs, Zenon
      <4> QED
        BY <3>1, <4>1, SubSeqFull
    <3>4. AllBits(output, 5) \o Bits(buffer % TwoTo[0], 0) = AllBits(output, 5)
      <4>1. Bits(buffer % TwoTo[0], 0) = << >>
        BY DEF Bits
      <4>2. AllBits(output, 5) \in Seq(0..1)
        <5>1. 5 \in Nat /\ 0 \in Nat
          OBVIOUS
        <5> QED
          BY <3>2, <5>1, AllBitsAppend
      <4>3. AllBits(output, 5) \o << >> = AllBits(output, 5)
        BY <4>2, Joining
      <4> QED
        BY <4>1, <4>3, Zenon
    <3>5. AllBits(output, 5) = AllBits(data, 8)
      BY <3>2, <3>3, <3>4, Zenon
    <3>6. \A i \in 1..KEY_BYTES, b \in 1..8 :
            AllBits(data, 8)[8 * (KEY_BYTES + 1 - i) + b]
              = IF i = 1 /\ b = 1 THEN pubkey[KEY_BYTES + 1] % 2
                ELSE Bits(pubkey[KEY_BYTES + 1 + i], 8)[b]
      <4>1. pubkey \in PublicKeys /\ crc \in Words
            /\ data = Message \o <<crc % 256, crc \div 256>>
        BY <3>1, <3>2, Zenon
      <4> QED
        BY <4>1, EncodedBits, Zenon
    <3> QED
      BY <3>1, <3>5, <3>6, Zenon
  <2> QED
    BY <2>1, <2>2, Zenon DEF AddressNamesKey
<1> QED
  BY AddressInvHolds, <1>1, PTL
=============================================================================
