--------------------------- MODULE ChecksumProofs ---------------------------
(***************************************************************************)
(* What checksum.go computes, for any bytes: checksumNoFold and checksum   *)
(* return the initial value and the sum of the bytes' words, in ones'      *)
(* complement arithmetic.                                                  *)
(*                                                                         *)
(* The loops of the code are recursive functions of Checksum.  Each has a  *)
(* lemma that says it is what its recursive definition says (..Def), from  *)
(* Recursion, and an induction over its turns, from UpTo.  The accumulator *)
(* has the bytes of each 16 bits the other way round: times Radix it is    *)
(* the sum so far, and swapping its bytes at the end is that product.      *)
(***************************************************************************)
EXTENDS Checksum, WellFoundedInduction, TLAPS

Byte == 0..(Radix - 1)
Word == 0..(Word64 - 1)
-----------------------------------------------------------------------------
(***************************************************************************)
(* Induction and recursion over the first n natural numbers, for sets and  *)
(* functions.                                                              *)
(***************************************************************************)

\* A set that has 0 and, with a number below n, the next one has all up to n.
LEMMA UpTo ==
  ASSUME NEW n \in Nat, NEW T, 0 \in T, \A k \in 0..(n - 1) : k \in T => k + 1 \in T
  PROVE  \A k \in 0..n : k \in T
<1>. SUFFICES ASSUME NEW m \in 0..n, m \notin T PROVE FALSE
  OBVIOUS
<1>. DEFINE Out == {k \in Nat : k <= n /\ k \notin T}
<1>1. Out \subseteq Nat /\ Out # {}
  OBVIOUS
<1>2. \E k \in Out : \A j \in Out : ~(<<j, k>> \in OpToRel(<, Nat))
  <2>. HIDE DEF Out
  <2>. QED  BY <1>1, NatLessThanWellFounded, WFMin
<1>3. PICK k \in Out : \A j \in Out : ~(<<j, k>> \in OpToRel(<, Nat))
  BY <1>2
<1>4. k # 0 /\ k - 1 \in 0..(n - 1) /\ (k - 1) + 1 = k
  OBVIOUS
<1>5. k - 1 \in Out
  BY <1>4
<1>6. <<k - 1, k>> \in OpToRel(<, Nat)
  BY <1>4, <1>5 DEF OpToRel
<1>. QED  BY <1>3, <1>5, <1>6

\* f is what follows from a by the steps g.
Follows(f, n, a, g) == f = [k \in 0..n |-> IF k = 0 THEN a ELSE g[k][f[k - 1]]]

\* There is such a function.
LEMMA Recursion ==
  ASSUME NEW n \in Nat, NEW S, NEW a \in S, NEW g \in [1..n -> [S -> S]]
  PROVE  \E f \in [0..n -> S] : Follows(f, n, a, g)
<1>. DEFINE Good(f, m) == /\ f \in [0..m -> S] /\ f[0] = a
                          /\ \A k \in 1..m : f[k] = g[k][f[k - 1]]
            T == {m \in 0..n : \E f : Good(f, m)}
<1>1. 0 \in T
  <2>. DEFINE h == [k \in 0..0 |-> a]
  <2>1. h \in [0..0 -> S] /\ h[0] = a
    OBVIOUS
  <2>2. \A k \in 1..0 : h[k] = g[k][h[k - 1]]
    OBVIOUS
  <2>3. Good(h, 0)
    BY <2>1, <2>2, Zenon
  <2>. HIDE DEF h, Good
  <2>. QED  BY <2>3
<1>2. ASSUME NEW m \in 0..(n - 1), m \in T PROVE m + 1 \in T
  <2>1. PICK f : Good(f, m)
    BY <1>2
  <2>. DEFINE h == [k \in 0..(m + 1) |-> IF k <= m THEN f[k] ELSE g[k][f[m]]]
  <2>2. f[m] \in S /\ g[m + 1][f[m]] \in S /\ m + 1 \in 1..n /\ m + 1 \in 0..n
    BY <2>1
  <2>3. \A k \in 0..(m + 1) : k <= m => h[k] = f[k] /\ f[k] \in S
    BY <2>1
  <2>4. h[m + 1] = g[m + 1][f[m]]
    OBVIOUS
  <2>5. \A k \in 0..(m + 1) : k <= m \/ k = m + 1
    OBVIOUS
  <2>6. h \in [0..(m + 1) -> S]
    BY <2>2, <2>3, <2>4, <2>5
  <2>7. h[0] = a
    BY <2>1, <2>3
  <2>8. ASSUME NEW k \in 1..(m + 1) PROVE h[k] = g[k][h[k - 1]]
    <3>. HIDE DEF h
    <3>1. k - 1 \in 0..(m + 1) /\ k - 1 <= m
      OBVIOUS
    <3>2. h[k - 1] = f[k - 1]
      BY <2>3, <3>1
    <3>3. CASE k = m + 1
      BY <2>4, <3>2, <3>3
    <3>4. CASE k # m + 1
      <4>1. k <= m /\ k \in 1..m /\ k \in 0..(m + 1)
        BY <3>4
      <4>2. h[k] = f[k] /\ f[k] = g[k][f[k - 1]]
        BY <2>1, <2>3, <4>1
      <4>. QED  BY <3>2, <4>2
    <3>. QED  BY <3>3, <3>4
  <2>9. Good(h, m + 1)
    BY <2>6, <2>7, <2>8
  <2>. QED  BY <2>2, <2>9
<1>3. n \in T
  <2>. HIDE DEF T
  <2>1. \A k \in 0..n : k \in T
    BY <1>1, <1>2, UpTo
  <2>. QED  BY <2>1
<1>4. PICK f : Good(f, n)
  BY <1>3
<1>5. Follows(f, n, a, g)
  <2>1. ASSUME NEW k \in 0..n PROVE f[k] = IF k = 0 THEN a ELSE g[k][f[k - 1]]
    BY <1>4
  <2>. QED  BY <1>4, <2>1 DEF Follows
<1>. QED  BY <1>4, <1>5

-----------------------------------------------------------------------------
(***************************************************************************)
(* Ones' complement arithmetic on natural numbers: equal modulo            *)
(* Word16 - 1, where zero stands for nothing but zero.                     *)
(***************************************************************************)
Same(x, y) == /\ \E q \in Int : x = y + q * (Word16 - 1)
              /\ x = 0 <=> y = 0

\* The words of the checksum are wide enough for arithmetic with carries.
LEMMA WordSizes == /\ Word16 \in Nat /\ Word16 > 1
                   /\ Word64 \in Nat /\ Word64 > 1
<1>1. \A x, y \in Nat : x > 1 /\ y > 1 => x * y \in Nat /\ x * y > 1
  <2> SUFFICES ASSUME NEW x \in Nat, NEW y \in Nat, x > 1, y > 1
               PROVE  x * y \in Nat /\ x * y > 1
    OBVIOUS
  <2>1. x * y >= x
    BY SMT
  <2> QED BY <2>1
<1>2. Word16 \in Nat /\ Word16 > 1
  BY <1>1, RadixAssumption DEF Word16
<1>3. Word16 * Word16 \in Nat /\ Word16 * Word16 > 1
  BY <1>1, <1>2
<1>4. Word16 * Word16 * Word16 \in Nat /\ Word16 * Word16 * Word16 > 1
  BY <1>1, <1>2, <1>3
<1>5. Word64 \in Nat /\ Word64 > 1
  BY <1>1, <1>2, <1>4 DEF Word64
<1> QED BY <1>2, <1>5

\* Equality of that kind is an equivalence ...
LEMMA SameSelf == ASSUME NEW x \in Nat PROVE Same(x, x)
<1>1. x = x + 0 * (Word16 - 1)
  BY WordSizes
<1>. QED  BY <1>1 DEF Same

LEMMA SameBack == ASSUME NEW x \in Nat, NEW y \in Nat, Same(x, y) PROVE Same(y, x)
<1>1. PICK q \in Int : x = y + q * (Word16 - 1)
  BY DEF Same
<1>2. -q \in Int /\ (-q) * (Word16 - 1) = -(q * (Word16 - 1)) /\ q * (Word16 - 1) \in Int
  BY WordSizes
<1>3. y = x + (-q) * (Word16 - 1)
  BY <1>1, <1>2
<1>. QED  BY <1>2, <1>3 DEF Same

LEMMA SameOn ==
  ASSUME NEW x \in Nat, NEW y \in Nat, NEW z \in Nat, Same(x, y), Same(y, z)
  PROVE  Same(x, z)
<1>1. PICK p \in Int : x = y + p * (Word16 - 1)
  BY DEF Same
<1>2. PICK q \in Int : y = z + q * (Word16 - 1)
  BY DEF Same
<1>3. p + q \in Int /\ (p + q) * (Word16 - 1) = p * (Word16 - 1) + q * (Word16 - 1)
      /\ p * (Word16 - 1) \in Int /\ q * (Word16 - 1) \in Int
  BY WordSizes
<1>4. x = z + (p + q) * (Word16 - 1)
  BY <1>1, <1>2, <1>3
<1>. QED  BY <1>3, <1>4 DEF Same

\* ... that sums respect ...
LEMMA SameSum ==
  ASSUME NEW x \in Nat, NEW y \in Nat, NEW u \in Nat, NEW v \in Nat, Same(x, y), Same(u, v)
  PROVE  Same(x + u, y + v)
<1>1. PICK p \in Int : x = y + p * (Word16 - 1)
  BY DEF Same
<1>2. PICK q \in Int : u = v + q * (Word16 - 1)
  BY DEF Same
<1>3. p + q \in Int /\ (p + q) * (Word16 - 1) = p * (Word16 - 1) + q * (Word16 - 1)
      /\ p * (Word16 - 1) \in Int /\ q * (Word16 - 1) \in Int
  BY WordSizes
<1>4. x + u = y + v + (p + q) * (Word16 - 1)
  BY <1>1, <1>2, <1>3
<1>5. x + u = 0 <=> y + v = 0
  BY DEF Same
<1>. QED  BY <1>3, <1>4, <1>5 DEF Same

LEMMA SamePlus ==
  ASSUME NEW x \in Nat, NEW y \in Nat, NEW z \in Nat, Same(x, y)
  PROVE  Same(x + z, y + z)
BY SameSelf, SameSum

\* ... and products with a byte's worth.
LEMMA SameTimes ==
  ASSUME NEW x \in Nat, NEW y \in Nat, Same(x, y)
  PROVE  Same(Radix * x, Radix * y)
<1>1. PICK p \in Int : x = y + p * (Word16 - 1)
  BY DEF Same
<1>2. Radix \in Nat \ {0}
  BY RadixAssumption
<1>3. PICK m \in Int : m = Word16 - 1
  BY WordSizes
<1>4. Radix * (y + p * m) = Radix * y + (Radix * p) * m /\ Radix * p \in Int
  BY <1>2
<1>5. Radix * x = 0 <=> Radix * y = 0
  <2>1. \A z \in Nat : Radix * z = 0 <=> z = 0
    BY <1>2
  <2>. QED  BY <2>1 DEF Same
<1>. QED  BY <1>1, <1>3, <1>4, <1>5 DEF Same

\* A word's worth is one.
LEMMA SameWord16 == ASSUME NEW x \in Nat PROVE Same(Word16 * x, x) /\ Word16 * x \in Nat
<1>1. Word16 * x = x + x * (Word16 - 1) /\ Word16 * x \in Nat
  BY WordSizes
<1>2. Word16 * x = 0 <=> x = 0
  BY WordSizes
<1>. QED  BY <1>1, <1>2 DEF Same

LEMMA SameRadix2 ==
  ASSUME NEW x \in Nat
  PROVE  /\ Same(Radix * (Radix * x), x)
         /\ Radix * (Radix * x) \in Nat /\ Radix * x \in Nat
<1>1. Radix * (Radix * x) = Word16 * x /\ Radix * x \in Nat
  BY RadixAssumption DEF Word16
<1>. QED  BY <1>1, SameWord16

LEMMA SameWord64 == ASSUME NEW x \in Nat PROVE Same(Word64 * x, x) /\ Word64 * x \in Nat
<1>. DEFINE a == Word16 * x
            b == Word16 * a
            c == Word16 * b
            d == Word16 * c
<1>1. /\ a \in Nat /\ b \in Nat /\ c \in Nat /\ d \in Nat
      /\ Same(a, x) /\ Same(b, a) /\ Same(c, b) /\ Same(d, c)
  <2>1. a \in Nat /\ Same(a, x)
    BY SameWord16
  <2>. HIDE DEF a
  <2>2. b \in Nat /\ Same(b, a)
    BY <2>1, SameWord16
  <2>. HIDE DEF b
  <2>3. c \in Nat /\ Same(c, b)
    BY <2>2, SameWord16
  <2>. HIDE DEF c
  <2>4. d \in Nat /\ Same(d, c)
    BY <2>3, SameWord16
  <2>. QED  BY <2>1, <2>2, <2>3, <2>4
<1>2. Word64 * x = d
  <2>1. PICK w \in Nat : w = Word16
    BY WordSizes
  <2>2. (w * w * w * w) * x = w * (w * (w * (w * x)))
    OBVIOUS
  <2>. QED  BY <2>1, <2>2 DEF Word64
<1>3. Same(d, x)
  <2>. HIDE DEF a, b, c, d
  <2>1. Same(b, x)
    BY <1>1, SameOn
  <2>2. Same(c, x)
    BY <1>1, <2>1, SameOn
  <2>. QED  BY <1>1, <2>2, SameOn
<1>. QED  BY <1>1, <1>2, <1>3

-----------------------------------------------------------------------------
(***************************************************************************)
(* The reference: sums of words.                                           *)
(***************************************************************************)
Weight(k) == IF k % 2 = 1 THEN Radix ELSE 1

\* The bytes of a sequence.
LEMMA ByteType ==
  ASSUME NEW b \in Seq(Byte)
  PROVE  /\ Len(b) \in Nat /\ DOMAIN b = 1..Len(b)
         /\ \A k \in 1..Len(b) : b[k] \in Byte /\ b[k] \in Nat
         /\ Radix \in Nat /\ Radix > 2
BY RadixAssumption DEF Byte

\* The sum of the words, byte by byte.
ByteSums(b) ==
  LET sum[k \in 0..Len(b)] == IF k = 0 THEN 0 ELSE sum[k - 1] + b[k] * Weight(k)
  IN sum

\* ByteSums is what its recursive definition says.
LEMMA ByteSumsDef ==
  ASSUME NEW b \in Seq(Byte)
  PROVE  /\ ByteSums(b) \in [0..Len(b) -> Nat]
         /\ ByteSums(b)[0] = 0
         /\ \A k \in 1..Len(b) : ByteSums(b)[k] = ByteSums(b)[k - 1] + b[k] * Weight(k)
<1>. DEFINE n == Len(b)
            g == [k \in 1..n |-> [s \in Nat |-> s + b[k] * Weight(k)]]
            IsSum(f) == f = [k \in 0..n |-> IF k = 0 THEN 0 ELSE f[k - 1] + b[k] * Weight(k)]
<1>1. n \in Nat /\ \A k \in 1..n : b[k] * Weight(k) \in Nat
  BY ByteType DEF Weight
<1>2. g \in [1..n -> [Nat -> Nat]]
  BY <1>1
<1>3. PICK f \in [0..n -> Nat] : Follows(f, n, 0, g)
  <2>. HIDE DEF g, n
  <2>. QED  BY <1>1, <1>2, Recursion
<1>4. IsSum(f)
  <2>1. ASSUME NEW k \in 0..n, k # 0 PROVE g[k][f[k - 1]] = f[k - 1] + b[k] * Weight(k)
    <3>1. k \in 1..n /\ k - 1 \in 0..n
      BY <1>1, <2>1
    <3>2. f[k - 1] \in Nat
      BY <1>3, <3>1
    <3>. QED  BY <3>1, <3>2
  <2>. QED  BY <1>3, <2>1 DEF Follows
<1>5. IsSum(ByteSums(b))
  <2>1. ByteSums(b) = CHOOSE h : IsSum(h)
    BY Zenon DEF ByteSums
  <2>. QED  BY <1>4, <2>1, Zenon
<1>. DEFINE s == ByteSums(b)
<1>6. /\ s = [k \in 0..n |-> s[k]] /\ s[0] = 0
      /\ \A k \in 1..n : s[k] = s[k - 1] + b[k] * Weight(k)
  <2>. HIDE DEF s, n
  <2>1. \A k \in 0..n : s[k] = IF k = 0 THEN 0 ELSE s[k - 1] + b[k] * Weight(k)
    BY <1>5, Zenon DEF s
  <2>2. s = [k \in 0..n |-> s[k]]
    BY <1>5, <2>1, Zenon DEF s
  <2>3. 0 \in 0..n /\ \A k \in 1..n : k \in 0..n /\ k # 0
    BY <1>1
  <2>. QED  BY <2>1, <2>2, <2>3, Zenon
<1>7. \A k \in 0..n : s[k] \in Nat
  <2>. DEFINE T == {k \in 0..n : s[k] \in Nat}
  <2>1. 0 \in T /\ \A k \in 0..(n - 1) : k \in T => k + 1 \in T
    <3>. HIDE DEF s, n
    <3>1. 0 \in T
      BY <1>1, <1>6
    <3>2. ASSUME NEW k \in 0..(n - 1), k \in T PROVE k + 1 \in T
      <4>1. k + 1 \in 1..n /\ k + 1 \in 0..n /\ (k + 1) - 1 = k
        BY <1>1
      <4>2. s[k + 1] = s[k] + b[k + 1] * Weight(k + 1)
        BY <1>6, <4>1
      <4>. QED  BY <1>1, <3>2, <4>1, <4>2
    <3>. QED  BY <3>1, <3>2
  <2>. HIDE DEF T, s, n
  <2>2. \A k \in 0..n : k \in T
    BY <1>1, <2>1, UpTo
  <2>. QED  BY <2>2 DEF T
<1>. HIDE DEF s
<1>. QED  BY <1>6, <1>7 DEF s

\* The words of a sequence, the last one of which may be a single byte.
Words16(b) == (Len(b) + 1) \div 2

\* WordSums is what its recursive definition says ...
LEMMA WordSumsDef ==
  ASSUME NEW b \in Seq(Byte)
  PROVE  /\ WordSums(b) \in [0..Words16(b) -> Nat]
         /\ WordSums(b)[0] = 0
         /\ \A k \in 1..Words16(b) : WordSums(b)[k] = WordSums(b)[k - 1] + WordAt(b, k)
<1>. DEFINE n == Words16(b)
            g == [k \in 1..n |-> [s \in Nat |-> s + WordAt(b, k)]]
            IsSum(f) == f = [k \in 0..n |-> IF k = 0 THEN 0 ELSE f[k - 1] + WordAt(b, k)]
<1>1. n \in Nat /\ \A k \in 1..n : WordAt(b, k) \in Nat
  <2>1. n \in Nat
    BY ByteType DEF Words16
  <2>2. ASSUME NEW k \in 1..n PROVE WordAt(b, k) \in Nat
    <3>1. 2 * k - 1 \in 1..Len(b) /\ (2 * k <= Len(b) => 2 * k \in 1..Len(b))
      BY ByteType DEF Words16
    <3>2. b[2 * k - 1] \in Nat /\ (2 * k <= Len(b) => b[2 * k] \in Nat) /\ Radix \in Nat
      BY <3>1, ByteType
    <3>3. Radix * b[2 * k - 1] \in Nat
      BY <3>2
    <3>. DEFINE p == Radix * b[2 * k - 1]
                q == IF 2 * k <= Len(b) THEN b[2 * k] ELSE 0
    <3>4. p \in Nat /\ q \in Nat
      BY <3>2, <3>3
    <3>5. WordAt(b, k) = p + q
      BY DEF WordAt
    <3>. HIDE DEF p, q
    <3>. QED  BY <3>4, <3>5
  <2>. QED  BY <2>1, <2>2
<1>2. g \in [1..n -> [Nat -> Nat]]
  BY <1>1
<1>3. PICK f \in [0..n -> Nat] : Follows(f, n, 0, g)
  <2>. HIDE DEF g, n
  <2>. QED  BY <1>1, <1>2, Recursion
<1>4. IsSum(f)
  <2>1. ASSUME NEW k \in 0..n, k # 0 PROVE g[k][f[k - 1]] = f[k - 1] + WordAt(b, k)
    <3>1. k \in 1..n /\ k - 1 \in 0..n
      BY <1>1, <2>1
    <3>2. f[k - 1] \in Nat
      BY <1>3, <3>1
    <3>. QED  BY <3>1, <3>2
  <2>. QED  BY <1>3, <2>1 DEF Follows
<1>5. IsSum(WordSums(b))
  <2>1. WordSums(b) = CHOOSE h : IsSum(h)
    BY Zenon DEF WordSums, Words16
  <2>. QED  BY <1>4, <2>1, Zenon
<1>. DEFINE s == WordSums(b)
<1>6. /\ s = [k \in 0..n |-> s[k]] /\ s[0] = 0
      /\ \A k \in 1..n : s[k] = s[k - 1] + WordAt(b, k)
  <2>. HIDE DEF s, n
  <2>1. \A k \in 0..n : s[k] = IF k = 0 THEN 0 ELSE s[k - 1] + WordAt(b, k)
    BY <1>5, Zenon DEF s
  <2>2. s = [k \in 0..n |-> s[k]]
    BY <1>5, <2>1, Zenon DEF s
  <2>3. 0 \in 0..n /\ \A k \in 1..n : k \in 0..n /\ k # 0
    BY <1>1
  <2>. QED  BY <2>1, <2>2, <2>3, Zenon
<1>7. \A k \in 0..n : s[k] \in Nat
  <2>. DEFINE T == {k \in 0..n : s[k] \in Nat}
  <2>1. 0 \in T /\ \A k \in 0..(n - 1) : k \in T => k + 1 \in T
    <3>. HIDE DEF s, n
    <3>1. 0 \in T
      BY <1>1, <1>6
    <3>2. ASSUME NEW k \in 0..(n - 1), k \in T PROVE k + 1 \in T
      <4>1. k + 1 \in 1..n /\ k + 1 \in 0..n /\ (k + 1) - 1 = k
        BY <1>1
      <4>2. s[k + 1] = s[k] + WordAt(b, k + 1)
        BY <1>6, <4>1
      <4>. QED  BY <1>1, <3>2, <4>1, <4>2
    <3>. QED  BY <3>1, <3>2
  <2>. HIDE DEF T, s, n
  <2>2. \A k \in 0..n : k \in T
    BY <1>1, <2>1, UpTo
  <2>. QED  BY <2>2 DEF T
<1>. HIDE DEF s
<1>. QED  BY <1>6, <1>7 DEF s

\* ... byte by byte.
LEMMA WordSumBytes ==
  ASSUME NEW b \in Seq(Byte)
  PROVE  WordSum(b) = ByteSums(b)[Len(b)]
<1>. DEFINE n == Len(b)
            m == Words16(b)
            s == ByteSums(b)
            w == WordSums(b)
            T == {k \in 0..m : w[k] = s[IF 2 * k <= n THEN 2 * k ELSE n]}
<1>1. n \in Nat /\ m \in Nat /\ m = (n + 1) \div 2 /\ Radix \in Nat
  BY ByteType DEF Words16
<1>2. /\ s \in [0..n -> Nat] /\ s[0] = 0
      /\ \A k \in 1..n : s[k] = s[k - 1] + b[k] * Weight(k)
  BY ByteSumsDef
<1>3. /\ w[0] = 0
      /\ \A k \in 1..m : w[k] = w[k - 1] + WordAt(b, k)
  BY WordSumsDef
<1>4. 0 \in T
  <2>. HIDE DEF s, w, m, n
  <2>1. 2 * 0 = 0 /\ 0 <= n /\ 0 \in 0..m
    BY <1>1
  <2>. QED  BY <1>2, <1>3, <2>1
<1>5. ASSUME NEW k \in 0..(m - 1), k \in T PROVE k + 1 \in T
  <2>. DEFINE i == 2 * k + 1
  <2>. HIDE DEF s, w, m, n
  <2>1. /\ k + 1 \in 1..m /\ k + 1 \in 0..m /\ (k + 1) - 1 = k
        /\ i \in 1..n /\ i - 1 = 2 * k /\ 2 * k <= n /\ i % 2 = 1 /\ (i + 1) % 2 = 0
        /\ 2 * (k + 1) = i + 1 /\ 2 * (k + 1) - 1 = i /\ i \in Nat /\ (i + 1) - 1 = i
    BY <1>1
  <2>2. w[k] = s[i - 1] /\ s[i - 1] \in Nat
    <3>1. i - 1 \in 0..n
      BY <1>1, <2>1
    <3>. QED  BY <1>2, <1>5, <2>1, <3>1
  <2>3. b[i] \in Nat
    BY <2>1, ByteType DEF n
  <2>. HIDE DEF i
  <2>4. w[k + 1] = s[i - 1] + WordAt(b, k + 1)
    BY <1>3, <2>1, <2>2
  <2>5. s[i] = s[i - 1] + b[i] * Radix
    <3>1. Weight(i) = Radix
      BY <2>1 DEF Weight
    <3>. QED  BY <1>2, <2>1, <3>1
  <2>6. WordAt(b, k + 1) = Radix * b[i] + (IF i + 1 <= n THEN b[i + 1] ELSE 0)
    BY <2>1 DEF WordAt, n
  <2>7. CASE i + 1 <= n
    <3>1. i + 1 \in 1..n
      BY <1>1, <2>1, <2>7
    <3>2. b[i + 1] \in Nat
      BY <3>1, ByteType DEF n
    <3>3. Weight(i + 1) = 1
      BY <2>1 DEF Weight
    <3>4. s[i + 1] = s[i] + b[i + 1] * 1
      BY <1>2, <2>1, <3>1, <3>3
    <3>. DEFINE p == Radix * b[i]
    <3>5. p \in Nat /\ b[i] * Radix = p
      BY <1>1, <2>3
    <3>6. w[k + 1] = s[i - 1] + (p + b[i + 1]) /\ s[i + 1] = (s[i - 1] + p) + b[i + 1] * 1
      BY <2>4, <2>5, <2>6, <2>7, <3>4, <3>5
    <3>. HIDE DEF p
    <3>7. w[k + 1] = s[i + 1]
      BY <2>2, <3>2, <3>5, <3>6
    <3>. QED  BY <2>1, <2>7, <3>7
  <2>8. CASE ~(i + 1 <= n)
    <3>1. i = n
      BY <1>1, <2>1, <2>8
    <3>. DEFINE p == Radix * b[i]
    <3>2. p \in Nat /\ b[i] * Radix = p
      BY <1>1, <2>3
    <3>3. w[k + 1] = s[i - 1] + (p + 0) /\ s[i] = s[i - 1] + p
      BY <2>4, <2>5, <2>6, <2>8, <3>2
    <3>. HIDE DEF p
    <3>4. w[k + 1] = s[n]
      BY <2>2, <3>1, <3>2, <3>3
    <3>. QED  BY <2>1, <2>8, <3>4
  <2>. QED  BY <2>7, <2>8
<1>6. m \in T
  <2>. HIDE DEF T, m
  <2>1. \A k \in 0..m : k \in T
    BY <1>1, <1>4, <1>5, UpTo
  <2>. QED  BY <1>1, <2>1
<1>7. 2 * m <= n => 2 * m = n
  <2>. HIDE DEF m, n
  <2>. QED  BY <1>1
<1>8. w[m] = s[n]
  BY <1>6, <1>7
<1>. QED  BY <1>8 DEF WordSum, Words16

\* A sum goes on where the sum of an even number of bytes has ended.
LEMMA WordSumSlice ==
  ASSUME NEW b \in Seq(Byte), NEW i \in Nat, NEW j \in Nat, i % 2 = 0, i <= j, j <= Len(b)
  PROVE  /\ SubSeq(b, i + 1, j) \in Seq(Byte) /\ Len(SubSeq(b, i + 1, j)) = j - i
         /\ ByteSums(b)[j] = ByteSums(b)[i] + WordSum(SubSeq(b, i + 1, j))
         /\ WordSum(SubSeq(b, i + 1, j)) \in Nat
<1>. DEFINE c == SubSeq(b, i + 1, j)
            n == j - i
            s == ByteSums(b)
            t == ByteSums(c)
<1>1. Len(b) \in Nat /\ n \in Nat
  BY ByteType
<1>2. c \in Seq(Byte) /\ Len(c) = n /\ \A k \in 1..n : c[k] = b[i + k]
  <2>1. ASSUME NEW k \in (i + 1)..j PROVE b[k] \in Byte
    BY <1>1, ByteType
  <2>2. c = [k \in 1..n |-> b[i + k]]
    BY <1>1
  <2>3. \A k \in 1..n : b[i + k] \in Byte
    BY <1>1, ByteType
  <2>4. c \in [1..n -> Byte]
    BY <2>2, <2>3
  <2>. HIDE DEF c, n
  <2>5. c \in Seq(Byte) /\ Len(c) = n
    BY <1>1, <2>4
  <2>6. \A k \in 1..n : c[k] = b[i + k]
    BY <2>2, Zenon
  <2>. QED  BY <2>5, <2>6
<1>3. /\ s \in [0..Len(b) -> Nat] /\ s[0] = 0
      /\ \A k \in 1..Len(b) : s[k] = s[k - 1] + b[k] * Weight(k)
  BY ByteSumsDef
<1>4. /\ t \in [0..n -> Nat] /\ t[0] = 0
      /\ \A k \in 1..n : t[k] = t[k - 1] + c[k] * Weight(k)
  BY <1>2, ByteSumsDef
<1>. DEFINE T == {k \in 0..n : s[i + k] = s[i] + t[k]}
<1>5. 0 \in T
  <2>. HIDE DEF s, t, n
  <2>1. i + 0 = i /\ s[i] \in Nat /\ 0 \in 0..n
    BY <1>1, <1>3
  <2>. QED  BY <1>4, <2>1
<1>6. ASSUME NEW k \in 0..(n - 1), k \in T PROVE k + 1 \in T
  <2>1. /\ k + 1 \in 1..n /\ (k + 1) - 1 = k /\ k + 1 \in 0..n /\ k \in 0..n
        /\ i + (k + 1) \in 1..Len(b) /\ (i + (k + 1)) - 1 = i + k
        /\ i \in 0..Len(b)
    BY <1>1
  <2>2. Weight(i + (k + 1)) = Weight(k + 1) /\ Weight(k + 1) \in Nat
    BY <2>1, RadixAssumption DEF Weight
  <2>. HIDE DEF s, t, n
  <2>3. s[i + (k + 1)] = s[i + k] + b[i + (k + 1)] * Weight(k + 1)
    <3>1. s[i + (k + 1)] = s[(i + (k + 1)) - 1] + b[i + (k + 1)] * Weight(i + (k + 1))
      BY <1>3, <2>1, Zenon
    <3>. QED  BY <2>1, <2>2, <3>1, Zenon
  <2>7. t[k + 1] = t[k] + b[i + (k + 1)] * Weight(k + 1)
    <3>1. t[k + 1] = t[(k + 1) - 1] + c[k + 1] * Weight(k + 1)
      BY <1>4, <2>1, Zenon
    <3>2. c[k + 1] = b[i + (k + 1)]
      BY <1>2, <2>1, Zenon
    <3>. HIDE DEF c
    <3>. QED  BY <2>1, <3>1, <3>2, Zenon
  <2>4. b[i + (k + 1)] * Weight(k + 1) \in Nat /\ s[i] \in Nat /\ t[k] \in Nat
    <3>1. b[i + (k + 1)] \in Nat
      BY <2>1, ByteType
    <3>2. b[i + (k + 1)] * Weight(k + 1) \in Nat
      BY <2>2, <3>1
    <3>3. s[i] \in Nat /\ t[k] \in Nat
      BY <1>3, <1>4, <2>1
    <3>. QED  BY <3>2, <3>3
  <2>5. s[i + k] = s[i] + t[k]
    BY <1>6
  <2>6. s[i + (k + 1)] = s[i] + t[k + 1]
    BY <2>3, <2>4, <2>5, <2>7
  <2>. QED  BY <2>1, <2>6
<1>7. n \in T
  <2>. HIDE DEF T, n
  <2>1. \A k \in 0..n : k \in T
    BY <1>1, <1>5, <1>6, UpTo
  <2>. QED  BY <1>1, <2>1
<1>8. i + n = j /\ n \in 0..n
  BY <1>1
<1>9. s[j] = s[i] + t[n] /\ t[n] \in Nat
  <2>. HIDE DEF s, t, n
  <2>. QED  BY <1>4, <1>7, <1>8
<1>. QED  BY <1>2, <1>9, WordSumBytes

\* The sum of two sequences, if the first has an even length.
LEMMA WordSumConcat ==
  ASSUME NEW a \in Seq(Byte), NEW b \in Seq(Byte), Len(a) % 2 = 0
  PROVE  /\ WordSum(a \o b) = WordSum(a) + WordSum(b)
         /\ WordSum(a) \in Nat /\ WordSum(b) \in Nat
         /\ a \o b \in Seq(Byte) /\ Len(a \o b) = Len(a) + Len(b)
<1>. DEFINE c == a \o b
            m == Len(a)
            n == Len(b)
<1>1. /\ c \in Seq(Byte) /\ Len(c) = m + n /\ m \in Nat /\ n \in Nat
      /\ \A k \in 1..m : c[k] = a[k]
      /\ \A k \in 1..n : c[m + k] = b[k]
  OBVIOUS
<1>2. SubSeq(c, 0 + 1, m) = a
  <2>. HIDE DEF c
  <2>1. SubSeq(c, 1, m) = [k \in 1..m |-> c[k]]
    BY <1>1
  <2>2. SubSeq(c, 1, m) = [k \in 1..m |-> a[k]]
    BY <1>1, <2>1
  <2>. QED  BY <2>2
<1>3. SubSeq(c, m + 1, m + n) = b
  <2>. HIDE DEF c
  <2>1. SubSeq(c, m + 1, m + n) = [k \in 1..n |-> c[m + k]]
    BY <1>1
  <2>2. SubSeq(c, m + 1, m + n) = [k \in 1..n |-> b[k]]
    BY <1>1, <2>1
  <2>. QED  BY <2>2
<1>. HIDE DEF c
<1>4. /\ ByteSums(c)[m] = ByteSums(c)[0] + WordSum(a)
      /\ WordSum(a) \in Nat
  <2>1. 0 \in Nat /\ 0 % 2 = 0 /\ 0 <= m /\ m <= Len(c)
    BY <1>1
  <2>2. /\ ByteSums(c)[m] = ByteSums(c)[0] + WordSum(SubSeq(c, 0 + 1, m))
        /\ WordSum(SubSeq(c, 0 + 1, m)) \in Nat
    BY <1>1, <2>1, WordSumSlice, Zenon
  <2>. QED  BY <1>2, <2>2, Zenon
<1>5. /\ ByteSums(c)[m + n] = ByteSums(c)[m] + WordSum(b)
      /\ WordSum(b) \in Nat
  <2>1. m + n \in Nat /\ m % 2 = 0 /\ m <= m + n /\ m + n <= Len(c)
    BY <1>1
  <2>2. /\ ByteSums(c)[m + n] = ByteSums(c)[m] + WordSum(SubSeq(c, m + 1, m + n))
        /\ WordSum(SubSeq(c, m + 1, m + n)) \in Nat
    BY <1>1, <2>1, WordSumSlice, Zenon
  <2>. QED  BY <1>3, <2>2, Zenon
<1>6. ByteSums(c)[0] = 0
  BY <1>1, ByteSumsDef
<1>7. WordSum(c) = ByteSums(c)[m + n]
  BY <1>1, WordSumBytes
<1>. QED  BY <1>1, <1>4, <1>5, <1>6, <1>7 DEF c

\* The sums of up to two bytes.
LEMMA ShortSums ==
  ASSUME NEW x \in Byte, NEW y \in Byte
  PROVE  WordSum(<<>>) = 0 /\ WordSum(<<x>>) = Radix * x /\ WordSum(<<x, y>>) = Radix * x + y
<1>1. /\ <<>> \in Seq(Byte) /\ <<x>> \in Seq(Byte) /\ <<x, y>> \in Seq(Byte)
      /\ Len(<<>>) = 0 /\ Len(<<x>>) = 1 /\ Len(<<x, y>>) = 2
      /\ 1 - 1 = 0 /\ 2 - 1 = 1 /\ 1 \in 1..1 /\ 1 \in 1..2 /\ 2 \in 1..2
      /\ <<x>>[1] = x /\ <<x, y>>[1] = x /\ <<x, y>>[2] = y
  OBVIOUS
<1>2. /\ x \in Nat /\ y \in Nat /\ Radix \in Nat
      /\ Weight(1) = Radix /\ Weight(2) = 1 /\ x * Radix = Radix * x
  BY RadixAssumption DEF Byte, Weight
<1>3. WordSum(<<>>) = 0
  BY <1>1, ByteSumsDef, WordSumBytes
<1>4. WordSum(<<x>>) = Radix * x
  <2>. DEFINE b == <<x>>
              f == ByteSums(b)
  <2>1. b \in Seq(Byte) /\ Len(b) = 1 /\ b[1] = x
    BY <1>1
  <2>. HIDE DEF b
  <2>2. f[0] = 0 /\ \A k \in 1..1 : f[k] = f[k - 1] + b[k] * Weight(k)
    BY <2>1, ByteSumsDef
  <2>. HIDE DEF f
  <2>3. f[1] = f[1 - 1] + b[1] * Weight(1)
    BY <1>1, <2>2, Zenon
  <2>4. f[1] = 0 + x * Radix
    BY <1>1, <1>2, <2>1, <2>2, <2>3, Zenon
  <2>5. WordSum(b) = f[1]
    BY <2>1, WordSumBytes, Zenon DEF f
  <2>6. 0 + x * Radix = Radix * x
    BY <1>2
  <2>. QED  BY <2>4, <2>5, <2>6, Zenon DEF b
<1>5. WordSum(<<x, y>>) = Radix * x + y
  <2>. DEFINE b == <<x, y>>
              f == ByteSums(b)
  <2>1. b \in Seq(Byte) /\ Len(b) = 2 /\ b[1] = x /\ b[2] = y
    BY <1>1
  <2>. HIDE DEF b
  <2>2. f[0] = 0 /\ \A k \in 1..2 : f[k] = f[k - 1] + b[k] * Weight(k)
    BY <2>1, ByteSumsDef
  <2>. HIDE DEF f
  <2>3. f[1] = f[1 - 1] + b[1] * Weight(1) /\ f[2] = f[2 - 1] + b[2] * Weight(2)
    BY <1>1, <2>2, Zenon
  <2>4. f[2] = (0 + x * Radix) + y * 1
    BY <1>1, <1>2, <2>1, <2>2, <2>3, Zenon
  <2>5. WordSum(b) = f[2]
    BY <2>1, WordSumBytes, Zenon DEF f
  <2>6. (0 + x * Radix) + y * 1 = Radix * x + y
    BY <1>2
  <2>. QED  BY <2>4, <2>5, <2>6, Zenon DEF b
<1>. QED  BY <1>3, <1>4, <1>5

-----------------------------------------------------------------------------
(***************************************************************************)
(* The numbers of sequences of bytes.                                      *)
(***************************************************************************)
IsPowers(P) == /\ P \in [0..8 -> Nat] /\ P[0] = 1 /\ P[8] = Word64
               /\ \A k \in 1..8 : P[k] = Radix * P[k - 1]
               /\ \A k \in 0..8 : P[k] <= Word64 /\ P[k] > 0

\* The powers of Radix up to a word.
LEMMA Powers == \E P : IsPowers(P)
<1>. DEFINE g == [k \in 1..8 |-> [s \in Nat |-> Radix * s]]
<1>1. Radix \in Nat /\ Radix > 2 /\ g \in [1..8 -> [Nat -> Nat]]
  BY RadixAssumption
<1>2. PICK P \in [0..8 -> Nat] : Follows(P, 8, 1, g)
  <2>. HIDE DEF g
  <2>1. 8 \in Nat /\ 1 \in Nat
    OBVIOUS
  <2>. QED  BY <1>1, <2>1, Recursion
<1>3. P[0] = 1 /\ \A k \in 1..8 : P[k] = Radix * P[k - 1]
  <2>1. P[0] = 1
    BY <1>2 DEF Follows
  <2>2. ASSUME NEW k \in 1..8 PROVE P[k] = Radix * P[k - 1]
    <3>1. k \in 0..8 /\ k # 0 /\ k - 1 \in 0..8
      OBVIOUS
    <3>2. P[k] = g[k][P[k - 1]]
      BY <1>2, <3>1 DEF Follows
    <3>3. P[k - 1] \in Nat
      BY <1>2, <3>1
    <3>. QED  BY <3>2, <3>3
  <2>. QED  BY <2>1, <2>2
<1>. HIDE DEF g
<1>4. /\ P[1] = Radix /\ P[2] = Radix * P[1] /\ P[3] = Radix * P[2] /\ P[4] = Radix * P[3]
      /\ P[5] = Radix * P[4] /\ P[6] = Radix * P[5] /\ P[7] = Radix * P[6]
      /\ P[8] = Radix * P[7]
  BY <1>1, <1>3
<1>5. P[8] = Word64
  <2>1. /\ P[2] = Word16 /\ P[4] = Word16 * P[2] /\ P[6] = Word16 * P[4]
        /\ P[8] = Word16 * P[6]
    <3>1. \A x \in Nat : Radix * (Radix * x) = Word16 * x
      BY <1>1 DEF Word16
    <3>2. P[2] \in Nat /\ P[4] \in Nat /\ P[6] \in Nat
      BY <1>2
    <3>3. P[2] = Word16
      BY <1>4 DEF Word16
    <3>. QED  BY <1>4, <3>1, <3>2, <3>3
  <2>2. PICK w \in Nat : w = Word16
    BY WordSizes
  <2>3. w * (w * (w * w)) = w * w * w * w
    BY <2>2
  <2>. QED  BY <2>1, <2>2, <2>3 DEF Word64
<1>6. ASSUME NEW k \in 1..8 PROVE P[k - 1] <= P[k] /\ (P[k - 1] > 0 => P[k] > 0)
  <2>1. P[k] = Radix * P[k - 1] /\ P[k - 1] \in Nat
    <3>1. k - 1 \in 0..8
      OBVIOUS
    <3>. QED  BY <1>2, <1>3, <3>1
  <2>2. \A x \in Nat : x <= Radix * x /\ (x > 0 => Radix * x > 0)
    <3>1. ASSUME NEW x \in Nat PROVE x <= Radix * x /\ (x > 0 => Radix * x > 0)
      <4>1. PICK d \in Nat : Radix = d + 1
        <5>1. Radix - 1 \in Nat /\ Radix = (Radix - 1) + 1
          BY <1>1
        <5>. QED  BY <5>1
      <4>2. Radix * x = d * x + x /\ d * x \in Nat
        BY <4>1
      <4>. QED  BY <4>2
    <3>. QED  BY <3>1
  <2>. QED  BY <2>1, <2>2
<1>7. /\ P[0] <= P[1] /\ P[1] <= P[2] /\ P[2] <= P[3] /\ P[3] <= P[4]
      /\ P[4] <= P[5] /\ P[5] <= P[6] /\ P[6] <= P[7] /\ P[7] <= P[8]
  BY <1>6
<1>8. \A k \in 0..8 : P[k] \in Nat
  BY <1>2
<1>9. /\ P[0] \in Nat /\ P[1] \in Nat /\ P[2] \in Nat /\ P[3] \in Nat /\ P[4] \in Nat
      /\ P[5] \in Nat /\ P[6] \in Nat /\ P[7] \in Nat /\ P[8] \in Nat
  BY <1>8
<1>10. ASSUME NEW k \in 0..8 PROVE P[k] <= P[8] /\ P[k] > 0
  <2>1. k \in {0, 1, 2, 3, 4, 5, 6, 7, 8}
    OBVIOUS
  <2>. QED  BY <1>3, <1>7, <1>9, <2>1
<1>. QED  BY <1>2, <1>3, <1>5, <1>10 DEF IsPowers

\* Numbers is what its recursive definition says.
LEMMA NumbersDef ==
  ASSUME NEW b \in Seq(Byte)
  PROVE  /\ Numbers(b) \in [0..Len(b) -> Nat]
         /\ Numbers(b)[0] = 0
         /\ \A k \in 1..Len(b) : Numbers(b)[k] = Radix * Numbers(b)[k - 1] + b[k]
<1>. DEFINE n == Len(b)
            g == [k \in 1..n |-> [s \in Nat |-> Radix * s + b[k]]]
            IsNumber(f) == f = [k \in 0..n |-> IF k = 0 THEN 0 ELSE Radix * f[k - 1] + b[k]]
<1>1. n \in Nat /\ \A k \in 1..n : \A s \in Nat : Radix * s + b[k] \in Nat
  <2>1. n \in Nat /\ \A k \in 1..n : b[k] \in Nat
    BY ByteType
  <2>. QED  BY <2>1, RadixAssumption
<1>2. g \in [1..n -> [Nat -> Nat]]
  BY <1>1
<1>3. PICK f \in [0..n -> Nat] : Follows(f, n, 0, g)
  <2>. HIDE DEF g, n
  <2>. QED  BY <1>1, <1>2, Recursion
<1>4. IsNumber(f)
  <2>1. ASSUME NEW k \in 0..n, k # 0 PROVE g[k][f[k - 1]] = Radix * f[k - 1] + b[k]
    <3>1. k \in 1..n /\ k - 1 \in 0..n
      BY <1>1, <2>1
    <3>2. f[k - 1] \in Nat
      BY <1>3, <3>1
    <3>. QED  BY <3>1, <3>2
  <2>. QED  BY <1>3, <2>1 DEF Follows
<1>5. IsNumber(Numbers(b))
  <2>1. Numbers(b) = CHOOSE h : IsNumber(h)
    BY Zenon DEF Numbers
  <2>. QED  BY <1>4, <2>1, Zenon
<1>. DEFINE s == Numbers(b)
<1>6. /\ s = [k \in 0..n |-> s[k]] /\ s[0] = 0
      /\ \A k \in 1..n : s[k] = Radix * s[k - 1] + b[k]
  <2>. HIDE DEF s, n
  <2>1. s = [k \in 0..n |-> IF k = 0 THEN 0 ELSE Radix * s[k - 1] + b[k]]
    BY <1>5, Zenon DEF s
  <2>2. n \in Nat
    BY <1>1
  <2>3. \A k \in 0..n : s[k] = IF k = 0 THEN 0 ELSE Radix * s[k - 1] + b[k]
    BY <2>1, Zenon
  <2>4. s = [k \in 0..n |-> s[k]]
    BY <2>1, <2>3, Zenon
  <2>5. ASSUME NEW k \in 1..n PROVE s[k] = Radix * s[k - 1] + b[k]
    <3>1. k \in 0..n /\ k # 0
      BY <2>2
    <3>. QED  BY <2>3, <3>1, Zenon
  <2>6. s[0] = 0
    <3>1. 0 \in 0..n
      BY <2>2
    <3>. QED  BY <2>3, <3>1, Zenon
  <2>. QED  BY <2>4, <2>5, <2>6
<1>7. \A k \in 0..n : s[k] \in Nat
  <2>. DEFINE T == {k \in 0..n : s[k] \in Nat}
  <2>1. 0 \in T /\ \A k \in 0..(n - 1) : k \in T => k + 1 \in T
    <3>. HIDE DEF s, n
    <3>1. 0 \in T
      BY <1>1, <1>6
    <3>2. ASSUME NEW k \in 0..(n - 1), k \in T PROVE k + 1 \in T
      <4>1. k + 1 \in 1..n /\ k + 1 \in 0..n /\ (k + 1) - 1 = k
        BY <1>1
      <4>2. s[k + 1] = Radix * s[k] + b[k + 1]
        BY <1>6, <4>1
      <4>. QED  BY <1>1, <3>2, <4>1, <4>2
    <3>. QED  BY <3>1, <3>2
  <2>. HIDE DEF T, s, n
  <2>2. \A k \in 0..n : k \in T
    BY <1>1, <2>1, UpTo
  <2>. QED  BY <2>2 DEF T
<1>. HIDE DEF s
<1>. QED  BY <1>6, <1>7 DEF s

\* A number stays below a power when both have one more byte.
LEMMA MoreFits ==
  ASSUME NEW r \in Nat, NEW v \in Nat, NEW p \in Nat, v < p, NEW c \in 0..(r - 1)
  PROVE  r * v + c < r * p
<1>1. PICK d \in Nat : p = v + 1 + d
  <2>1. p - v - 1 \in Nat /\ p = v + 1 + (p - v - 1)
    OBVIOUS
  <2>. QED  BY <2>1
<1>2. r * (v + 1 + d) = r * v + r + r * d /\ r * d \in Nat /\ r * v \in Nat
  OBVIOUS
<1>3. r * p = r * v + r + r * d
  BY <1>1, <1>2
<1>. QED  BY <1>2, <1>3

\* Up to eight bytes fit in a word.
LEMMA NumberFits ==
  ASSUME NEW b \in Seq(Byte), Len(b) <= 8
  PROVE  BigEndian(b) \in Word
<1>. DEFINE n == Len(b)
            v == Numbers(b)
<1>1. n \in Nat /\ n <= 8 /\ Radix \in Nat /\ Radix > 2
  BY ByteType
<1>2. v \in [0..n -> Nat] /\ v[0] = 0 /\ \A k \in 1..n : v[k] = Radix * v[k - 1] + b[k]
  BY NumbersDef
<1>3. PICK P : IsPowers(P)
  BY Powers
<1>. DEFINE T == {k \in 0..n : v[k] < P[k]}
<1>. HIDE DEF v, n
<1>4. 0 \in T
  BY <1>1, <1>2, <1>3 DEF IsPowers
<1>5. ASSUME NEW k \in 0..(n - 1), k \in T PROVE k + 1 \in T
  <2>1. k + 1 \in 1..n /\ k + 1 \in 0..n /\ (k + 1) - 1 = k /\ k + 1 \in 1..8 /\ k \in 0..8
        /\ k \in 0..n
    BY <1>1
  <2>2. v[k + 1] = Radix * v[k] + b[k + 1]
    BY <1>2, <2>1
  <2>3. P[k + 1] = Radix * P[k]
    BY <1>3, <2>1 DEF IsPowers
  <2>4. v[k] \in Nat /\ P[k] \in Nat /\ v[k] < P[k] /\ b[k + 1] \in 0..(Radix - 1)
    <3>1. b[k + 1] \in Byte
      BY <2>1, ByteType DEF n
    <3>. QED  BY <1>2, <1>3, <1>5, <2>1, <3>1 DEF IsPowers, Byte
  <2>5. Radix * v[k] + b[k + 1] < Radix * P[k]
    BY <1>1, <2>4, MoreFits
  <2>. QED  BY <2>1, <2>2, <2>3, <2>5
<1>6. n \in T
  <2>. HIDE DEF T
  <2>1. \A k \in 0..n : k \in T
    BY <1>1, <1>4, <1>5, UpTo
  <2>. QED  BY <1>1, <2>1
<1>7. v[n] < P[n] /\ P[n] <= Word64 /\ v[n] \in Nat /\ P[n] \in Nat
  <2>1. n \in 0..n /\ n \in 0..8
    BY <1>1
  <2>2. v[n] < P[n]
    BY <1>6
  <2>3. P[n] <= Word64 /\ P[n] \in Nat
    BY <1>3, <2>1 DEF IsPowers
  <2>4. v[n] \in Nat
    BY <1>2, <2>1
  <2>. QED  BY <2>2, <2>3, <2>4
<1>. QED  BY <1>7, WordSizes DEF BigEndian, v, n, Word

\* Two bytes more of a word in the byte order of the machine.
LEMMA TwoMore ==
  ASSUME NEW v \in Nat, NEW x \in Nat, NEW y \in Nat, NEW s \in Nat, NEW t \in Nat,
         Same(Radix * v + (s + Radix * y + x), t)
  PROVE  Same(Radix * (Radix * (Radix * v + x) + y) + s, t)
<1>. DEFINE a == Radix * v + x
            c == Radix * y + s
<1>1. Radix \in Nat /\ Radix * v \in Nat /\ Radix * y \in Nat
  BY RadixAssumption
<1>2. a \in Nat /\ c \in Nat
  BY <1>1
<1>3. Radix * (Radix * a + y) + s = Radix * (Radix * a) + c
  <2>1. Radix * a \in Nat
    BY <1>1, <1>2
  <2>. HIDE DEF a
  <2>2. Radix * (Radix * a + y) = Radix * (Radix * a) + Radix * y /\ Radix * (Radix * a) \in Nat
    BY <1>1, <2>1
  <2>. QED  BY <1>1, <2>2
<1>4. a + c = Radix * v + (s + Radix * y + x)
  BY <1>1
<1>. HIDE DEF a, c
<1>5. Same(Radix * (Radix * a), a) /\ Radix * (Radix * a) \in Nat
  BY <1>2, SameRadix2
<1>6. Same(Radix * (Radix * a) + c, a + c)
  BY <1>2, <1>5, SamePlus
<1>7. Same(Radix * (Radix * a) + c, t)
  <2>1. Radix * (Radix * a) + c \in Nat /\ a + c \in Nat
    BY <1>2, <1>5
  <2>. QED  BY <1>4, <1>6, <2>1, SameOn
<1>. QED  BY <1>3, <1>7 DEF a

\* A word in the byte order of the machine has the bytes of each 16 bits the
\* other way round.
LEMMA NativeSum ==
  ASSUME NEW b \in Seq(Byte), Len(b) % 2 = 0 \/ Len(b) = 1
  PROVE  Native(b) \in Nat /\ Same(Radix * Native(b), WordSum(b))
<1>. DEFINE n == Len(b)
            r == [k \in 1..n |-> b[n + 1 - k]]
            v == Numbers(r)
            s == ByteSums(b)
<1>1. n \in Nat /\ Radix \in Nat
  BY ByteType
<1>2. r \in Seq(Byte) /\ Len(r) = n /\ \A k \in 1..n : r[k] = b[n + 1 - k] /\ b[k] \in Nat
  <2>1. ASSUME NEW k \in 1..n PROVE b[n + 1 - k] \in Byte
    BY <1>1, ByteType
  <2>2. r \in [1..n -> Byte]
    BY <2>1
  <2>. HIDE DEF r, n
  <2>3. r \in Seq(Byte) /\ Len(r) = n
    BY <1>1, <2>2
  <2>. QED  BY <2>3, ByteType DEF r, n
<1>3. /\ v \in [0..n -> Nat] /\ v[0] = 0
      /\ \A k \in 1..n : v[k] = Radix * v[k - 1] + r[k]
  BY <1>2, NumbersDef
<1>4. /\ s \in [0..n -> Nat] /\ s[0] = 0
      /\ \A k \in 1..n : s[k] = s[k - 1] + b[k] * Weight(k)
  BY ByteSumsDef
<1>5. Native(b) = v[n] /\ WordSum(b) = s[n]
  BY <1>2, WordSumBytes DEF Native, BigEndian
<1>6. v[n] \in Nat
  <2>. HIDE DEF v, n
  <2>. QED  BY <1>1, <1>3
<1>7. CASE n = 1
  <2>1. Weight(1) = Radix /\ b[1] * Radix = Radix * b[1] /\ b[1] \in Nat
    BY <1>1, <1>2, <1>7 DEF Weight
  <2>. HIDE DEF v, s, r, n
  <2>2. 1 \in 1..n /\ 1 - 1 = 0 /\ n + 1 - 1 = 1 /\ Radix * 0 = 0
    BY <1>1, <1>7
  <2>3. v[1] = b[1] /\ s[1] = Radix * b[1]
    <3>1. v[1] = Radix * v[1 - 1] + r[1] /\ s[1] = s[1 - 1] + b[1] * Weight(1)
      BY <1>3, <1>4, <2>2
    <3>2. r[1] = b[n + 1 - 1]
      BY <1>2, <2>2, Zenon
    <3>3. r[1] = b[1] /\ v[1] = Radix * 0 + b[1] /\ s[1] = 0 + Radix * b[1]
      BY <1>3, <1>4, <2>1, <2>2, <3>1, <3>2
    <3>. QED  BY <1>1, <2>1, <2>2, <3>3
  <2>4. Radix * b[1] \in Nat
    BY <1>1, <2>1
  <2>. QED  BY <1>5, <1>6, <1>7, <2>3, <2>4, SameSelf
<1>8. CASE n % 2 = 0
  <2>1. PICK h \in Nat : n = 2 * h
    BY <1>1, <1>8
  <2>. DEFINE T == {j \in 0..h : Same(Radix * v[2 * j] + s[n - 2 * j], s[n])}
  <2>. HIDE DEF v, s, r, n
  <2>2. 0 \in T
    <3>1. 2 * 0 = 0 /\ n - 0 = n /\ n \in 0..n /\ Radix * 0 = 0 /\ 0 \in 0..h
      BY <1>1, <2>1
    <3>2. s[n] \in Nat
      BY <1>4, <3>1
    <3>3. Radix * v[2 * 0] + s[n - 2 * 0] = s[n]
      BY <1>3, <3>1, <3>2
    <3>. QED  BY <3>1, <3>2, <3>3, SameSelf
  <2>3. ASSUME NEW j \in 0..(h - 1), j \in T PROVE j + 1 \in T
    <3>1. PICK m \in Nat : m = 2 * j
      OBVIOUS
    <3>2. /\ j + 1 \in 0..h /\ 2 * (j + 1) = m + 2
          /\ m \in 0..n /\ m + 1 \in 1..n /\ m + 2 \in 1..n
          /\ (m + 1) - 1 = m /\ (m + 2) - 1 = m + 1
          /\ n + 1 - (m + 1) = n - m /\ n + 1 - (m + 2) = n - m - 1
          /\ n - m \in 1..n /\ n - m - 1 \in 1..n /\ n - (m + 2) = n - m - 2
          /\ (n - m - 1) - 1 = n - m - 2 /\ n - m - 2 \in 0..n /\ n \in 0..n
      BY <1>1, <2>1, <3>1
    <3>3. Weight(n - m) = 1 /\ Weight(n - m - 1) = Radix
      <4>1. (n - m) % 2 = 0 /\ (n - m - 1) % 2 = 1
        BY <1>1, <2>1, <3>1
      <4>. QED  BY <4>1 DEF Weight
    <3>. DEFINE x == b[n - m]
                y == b[n - m - 1]
    <3>4. x \in Nat /\ y \in Nat /\ v[m] \in Nat /\ s[n - m - 2] \in Nat /\ s[n] \in Nat
      BY <1>2, <1>3, <1>4, <3>2
    <3>5. v[m + 1] = Radix * v[m] + x
      <4>1. v[m + 1] = Radix * v[(m + 1) - 1] + r[m + 1]
        BY <1>3, <3>2, Zenon
      <4>2. r[m + 1] = b[n + 1 - (m + 1)]
        BY <1>2, <3>2, Zenon
      <4>. QED  BY <3>2, <4>1, <4>2, Zenon
    <3>6. v[m + 2] = Radix * (Radix * v[m] + x) + y
      <4>1. v[m + 2] = Radix * v[(m + 2) - 1] + r[m + 2]
        BY <1>3, <3>2, Zenon
      <4>2. r[m + 2] = b[n + 1 - (m + 2)]
        BY <1>2, <3>2, Zenon
      <4>. QED  BY <3>2, <3>5, <4>1, <4>2, Zenon
    <3>7. s[n - m - 1] = s[n - m - 2] + y * Radix
      BY <1>4, <3>2, <3>3
    <3>8. s[n - m] = s[n - m - 1] + x * 1
      BY <1>4, <3>2, <3>3
    <3>. HIDE DEF x, y
    <3>9. s[n - m] = s[n - m - 2] + Radix * y + x
      <4>1. y * Radix = Radix * y /\ Radix * y \in Nat
        BY <1>1, <3>4
      <4>. QED  BY <3>4, <3>7, <3>8, <4>1
    <3>10. Same(Radix * v[m] + s[n - m], s[n])
      BY <2>3, <3>1
    <3>11. Same(Radix * (Radix * (Radix * v[m] + x) + y) + s[n - m - 2], s[n])
      BY <3>4, <3>9, <3>10, TwoMore
    <3>. QED  BY <3>2, <3>6, <3>11
  <2>4. h \in T
    <3>. HIDE DEF T
    <3>1. \A j \in 0..h : j \in T
      BY <2>2, <2>3, UpTo
    <3>. QED  BY <3>1
  <2>5. n - 2 * h = 0 /\ Radix * v[n] \in Nat
    BY <1>1, <1>6, <2>1
  <2>6. Radix * v[2 * h] + s[n - 2 * h] = Radix * v[n]
    BY <1>4, <2>1, <2>5
  <2>. QED  BY <1>5, <1>6, <2>4, <2>6
<1>. QED  BY <1>7, <1>8

\* ... and fits.
LEMMA NativeFits == ASSUME NEW b \in Seq(Byte), Len(b) <= 8 PROVE Native(b) \in Word
<1>. DEFINE n == Len(b)
            r == [k \in 1..n |-> b[n + 1 - k]]
<1>1. n \in Nat
  BY ByteType
<1>2. ASSUME NEW k \in 1..n PROVE b[n + 1 - k] \in Byte
  BY <1>1, ByteType
<1>3. r \in [1..n -> Byte]
  BY <1>2
<1>4. r \in Seq(Byte) /\ Len(r) = n
  <2>. HIDE DEF r, n
  <2>. QED  BY <1>1, <1>3
<1>5. Native(b) = BigEndian(r)
  BY DEF Native
<1>. HIDE DEF r
<1>. QED  BY <1>4, <1>5, NumberFits

\* What a byte is shifted out of.
LEMMA ShiftByte ==
  ASSUME NEW x \in Nat
  PROVE  /\ x \div Radix \in Nat /\ x % Radix \in Byte /\ x % Radix \in Nat
         /\ x = Radix * (x \div Radix) + (x % Radix)
         /\ \A y \in Nat : x < Radix * y => x \div Radix < y
<1>1. Radix \in Nat /\ Radix > 2
  BY RadixAssumption
<1>2. /\ x \div Radix \in Nat /\ x % Radix \in 0..(Radix - 1)
      /\ x = Radix * (x \div Radix) + (x % Radix)
  BY <1>1
<1>3. ASSUME NEW y \in Nat, x < Radix * y, ~(x \div Radix < y) PROVE FALSE
  <2>. DEFINE q == x \div Radix
  <2>. HIDE DEF q
  <2>1. q \in Nat /\ q >= y /\ x >= Radix * q
    BY <1>1, <1>2, <1>3 DEF q
  <2>2. PICK d \in Nat : q = y + d
    <3>1. q - y \in Nat /\ q = y + (q - y)
      BY <2>1
    <3>. QED  BY <3>1
  <2>3. Radix * q = Radix * y + Radix * d /\ Radix * d \in Nat /\ Radix * y \in Nat
    BY <1>1, <2>2
  <2>. QED  BY <1>3, <2>1, <2>3
<1>. QED  BY <1>1, <1>2, <1>3 DEF Byte

\* Shifted is what its recursive definition says.
LEMMA ShiftedDef ==
  ASSUME NEW x \in Nat
  PROVE  /\ \A k \in 0..8 : Shifted(x)[k] \in Nat
         /\ Shifted(x)[0] = x
         /\ \A k \in 1..8 : Shifted(x)[k] = Shifted(x)[k - 1] \div Radix
<1>. DEFINE g == [k \in 1..8 |-> [s \in Nat |-> s \div Radix]]
            IsShift(f) == f = [k \in 0..8 |-> IF k = 0 THEN x ELSE f[k - 1] \div Radix]
<1>1. \A s \in Nat : s \div Radix \in Nat
  BY ShiftByte
<1>2. g \in [1..8 -> [Nat -> Nat]]
  BY <1>1
<1>3. PICK f \in [0..8 -> Nat] : Follows(f, 8, x, g)
  <2>. HIDE DEF g
  <2>1. 8 \in Nat
    OBVIOUS
  <2>. QED  BY <1>1, <1>2, <2>1, Recursion
<1>4. IsShift(f)
  <2>1. ASSUME NEW k \in 0..8, k # 0 PROVE g[k][f[k - 1]] = f[k - 1] \div Radix
    <3>1. k \in 1..8 /\ k - 1 \in 0..8
      BY <2>1
    <3>2. f[k - 1] \in Nat
      BY <1>3, <3>1
    <3>. QED  BY <3>1, <3>2
  <2>. QED  BY <1>3, <2>1 DEF Follows
<1>. DEFINE s == Shifted(x)
<1>5. IsShift(s)
  <2>1. Shifted(x) = CHOOSE h : IsShift(h)
    BY Zenon DEF Shifted
  <2>. QED  BY <1>4, <2>1, Zenon
<1>6. /\ s[0] = x
      /\ \A k \in 1..8 : s[k] = s[k - 1] \div Radix
  <2>. HIDE DEF s
  <2>1. \A k \in 0..8 : s[k] = IF k = 0 THEN x ELSE s[k - 1] \div Radix
    BY <1>5, Zenon
  <2>2. 0 \in 0..8 /\ \A k \in 1..8 : k \in 0..8 /\ k # 0
    OBVIOUS
  <2>. QED  BY <2>1, <2>2, Zenon
<1>7. \A k \in 0..8 : s[k] \in Nat
  <2>. DEFINE T == {k \in 0..8 : s[k] \in Nat}
  <2>1. 0 \in T /\ \A k \in 0..(8 - 1) : k \in T => k + 1 \in T
    <3>. HIDE DEF s
    <3>1. 0 \in T
      BY <1>6
    <3>2. ASSUME NEW k \in 0..(8 - 1), k \in T PROVE k + 1 \in T
      <4>1. k + 1 \in 1..8 /\ k + 1 \in 0..8 /\ (k + 1) - 1 = k
        OBVIOUS
      <4>2. s[k + 1] = s[k] \div Radix
        BY <1>6, <4>1
      <4>. QED  BY <1>1, <3>2, <4>1, <4>2
    <3>. QED  BY <3>1, <3>2
  <2>. HIDE DEF T, s
  <2>2. 8 \in Nat
    OBVIOUS
  <2>3. \A k \in 0..8 : k \in T
    BY <2>1, <2>2, UpTo
  <2>. QED  BY <2>3 DEF T
<1>. QED  BY <1>6, <1>7

\* Eight shifts leave nothing of a word.
LEMMA ShiftedOut == ASSUME NEW x \in Word PROVE Shifted(x)[8] = 0
<1>. DEFINE q == Shifted(x)
<1>1. x \in Nat /\ x < Word64
  BY WordSizes DEF Word
<1>2. /\ q[0] = x /\ \A k \in 0..8 : q[k] \in Nat
      /\ \A k \in 1..8 : q[k] = q[k - 1] \div Radix
  BY <1>1, ShiftedDef
<1>3. PICK P : IsPowers(P)
  BY Powers
<1>. DEFINE T == {k \in 0..8 : q[k] < P[8 - k]}
<1>. HIDE DEF q
<1>4. 0 \in T
  BY <1>1, <1>2, <1>3 DEF IsPowers
<1>5. ASSUME NEW k \in 0..(8 - 1), k \in T PROVE k + 1 \in T
  <2>1. /\ k + 1 \in 1..8 /\ k + 1 \in 0..8 /\ (k + 1) - 1 = k /\ k \in 0..8
        /\ 8 - k \in 1..8 /\ 8 - (k + 1) = (8 - k) - 1 /\ (8 - k) - 1 \in 0..8
    OBVIOUS
  <2>2. P[8 - k] = Radix * P[(8 - k) - 1] /\ P[(8 - k) - 1] \in Nat
    BY <1>3, <2>1 DEF IsPowers
  <2>3. q[k + 1] = q[k] \div Radix /\ q[k] \in Nat /\ q[k] < P[8 - k]
    BY <1>2, <1>5, <2>1
  <2>4. q[k + 1] < P[(8 - k) - 1]
    BY <2>2, <2>3, ShiftByte
  <2>. QED  BY <2>1, <2>4
<1>6. 8 \in T
  <2>. HIDE DEF T
  <2>1. 8 \in Nat /\ 8 \in 0..8
    OBVIOUS
  <2>. QED  BY <1>4, <1>5, <2>1, UpTo
<1>7. q[8] < 1 /\ q[8] \in Nat
  BY <1>2, <1>3, <1>6 DEF IsPowers
<1>. QED  BY <1>7 DEF q

\* Two bytes less to swap.
LEMMA TwoLess ==
  ASSUME NEW v \in Nat, NEW q \in Nat, NEW d \in Nat, NEW e \in Nat, NEW t \in Nat,
         Same(v + Radix * (Radix * (Radix * q + e) + d), t)
  PROVE  Same(Radix * (Radix * v + d) + e + Radix * q, t)
<1>. DEFINE p == Radix * q + e
            w == v + Radix * d
<1>1. /\ Radix \in Nat /\ Radix * v \in Nat /\ Radix * q \in Nat /\ Radix * d \in Nat
      /\ p \in Nat /\ w \in Nat /\ Radix * p \in Nat
  BY RadixAssumption
<1>2. Radix * (Radix * p + d) = Radix * (Radix * p) + Radix * d /\ Radix * (Radix * p) \in Nat
  <2>. HIDE DEF p
  <2>. QED  BY <1>1
<1>3. Radix * (Radix * v + d) = Radix * (Radix * v) + Radix * d /\ Radix * (Radix * v) \in Nat
  BY <1>1
<1>4. /\ v + Radix * (Radix * p + d) = Radix * (Radix * p) + w
      /\ Radix * (Radix * v + d) + e + Radix * q = Radix * (Radix * v) + (Radix * d + p)
      /\ p + w = v + (Radix * d + p)
  <2>. HIDE DEF p
  <2>1. /\ v + Radix * (Radix * p + d) = Radix * (Radix * p) + w
        /\ p + w = v + (Radix * d + p)
    BY <1>1, <1>2
  <2>2. Radix * (Radix * v + d) + e + Radix * q = Radix * (Radix * v) + (Radix * d + p)
    BY <1>1, <1>3 DEF p
  <2>. QED  BY <2>1, <2>2
<1>5. Same(Radix * (Radix * p) + w, p + w)
  <2>. HIDE DEF p, w
  <2>1. Same(Radix * (Radix * p), p)
    BY <1>1, SameRadix2
  <2>. QED  BY <1>1, <1>2, <2>1, SamePlus
<1>6. Same(Radix * (Radix * v) + (Radix * d + p), v + (Radix * d + p))
  <2>. HIDE DEF p
  <2>1. Same(Radix * (Radix * v), v) /\ Radix * d + p \in Nat
    BY <1>1, SameRadix2
  <2>. QED  BY <1>1, <1>3, <2>1, SamePlus
<1>7. Same(Radix * (Radix * p) + w, t)
  BY <1>4
<1>. DEFINE l == Radix * (Radix * p) + w
            m == p + w
            n == Radix * (Radix * v) + (Radix * d + p)
<1>8. l \in Nat /\ m \in Nat /\ n \in Nat /\ Same(l, m) /\ Same(n, m) /\ Same(l, t)
  BY <1>1, <1>2, <1>3, <1>4, <1>5, <1>6, <1>7
<1>9. Same(n, t)
  <2>. HIDE DEF l, m, n
  <2>1. Same(m, l)
    BY <1>8, SameBack
  <2>2. Same(m, t)
    BY <1>8, <2>1, SameOn
  <2>. QED  BY <1>8, <2>2, SameOn
<1>. QED  BY <1>4, <1>9

\* Swapping the bytes of a word is a product with Radix.
LEMMA SwappedSum ==
  ASSUME NEW x \in Word
  PROVE  Swapped(x) \in Word /\ Same(Swapped(x), Radix * x) /\ Radix * x \in Nat
<1>. DEFINE q == Shifted(x)
            b == Bytes(x)
            v == Numbers(b)
<1>1. x \in Nat /\ Radix \in Nat /\ Radix * x \in Nat
  BY WordSizes, RadixAssumption DEF Word
<1>2. /\ q[0] = x /\ \A k \in 0..8 : q[k] \in Nat
      /\ \A k \in 1..8 : q[k] = q[k - 1] \div Radix
  BY <1>1, ShiftedDef
<1>3. q[8] = 0
  BY ShiftedOut
<1>4. b \in Seq(Byte) /\ Len(b) = 8 /\ \A k \in 1..8 : b[k] = q[k - 1] % Radix
  <2>. HIDE DEF q
  <2>1. b = [k \in 1..8 |-> q[k - 1] % Radix]
    BY Zenon DEF Bytes, q
  <2>2. ASSUME NEW k \in 1..8 PROVE q[k - 1] % Radix \in Byte
    <3>1. k - 1 \in 0..8
      OBVIOUS
    <3>. QED  BY <1>2, <3>1, ShiftByte
  <2>. HIDE DEF b
  <2>3. b \in [1..8 -> Byte]
    BY <2>1, <2>2
  <2>. QED  BY <2>1, <2>3
<1>5. /\ v \in [0..8 -> Nat] /\ v[0] = 0
      /\ \A k \in 1..8 : v[k] = Radix * v[k - 1] + b[k]
  BY <1>4, NumbersDef
<1>6. Swapped(x) = v[8] /\ BigEndian(b) = v[8]
  BY <1>4 DEF Swapped, BigEndian
<1>. DEFINE T == {j \in 0..4 : Same(v[2 * j] + Radix * q[2 * j], Radix * x)}
<1>. HIDE DEF q, b, v
<1>7. v[8] \in Word
  <2>1. Len(b) <= 8
    BY <1>4
  <2>. QED  BY <1>4, <1>6, <2>1, NumberFits
<1>8. 0 \in T
  <2>1. v[2 * 0] + Radix * q[2 * 0] = Radix * x
    BY <1>1, <1>2, <1>5
  <2>. QED  BY <1>1, <2>1, SameSelf
<1>9. ASSUME NEW j \in 0..(4 - 1), j \in T PROVE j + 1 \in T
  <2>1. PICK m \in Nat : m = 2 * j
    OBVIOUS
  <2>2. /\ j + 1 \in 0..4 /\ 2 * (j + 1) = m + 2 /\ m \in 0..8
        /\ m + 1 \in 1..8 /\ m + 2 \in 1..8 /\ m + 1 \in 0..8 /\ m + 2 \in 0..8
        /\ (m + 1) - 1 = m /\ (m + 2) - 1 = m + 1
    BY <2>1
  <2>. DEFINE d == b[m + 1]
              e == b[m + 2]
  <2>3. /\ q[m] \in Nat /\ q[m + 1] \in Nat /\ q[m + 2] \in Nat /\ v[m] \in Nat
    BY <1>2, <1>5, <2>2
  <2>4. d = q[m] % Radix /\ q[m + 1] = q[m] \div Radix
    BY <1>2, <1>4, <2>2
  <2>5. e = q[m + 1] % Radix /\ q[m + 2] = q[m + 1] \div Radix
    BY <1>2, <1>4, <2>2
  <2>6. v[m + 1] = Radix * v[m] + d
    BY <1>5, <2>2
  <2>7. v[m + 2] = Radix * v[m + 1] + e
    BY <1>5, <2>2
  <2>. HIDE DEF d, e
  <2>8. d \in Nat /\ q[m] = Radix * q[m + 1] + d
    BY <2>3, <2>4, ShiftByte
  <2>9. e \in Nat /\ q[m + 1] = Radix * q[m + 2] + e
    BY <2>3, <2>5, ShiftByte
  <2>10. Same(v[m] + Radix * q[m], Radix * x)
    BY <1>9, <2>1
  <2>11. Same(v[m] + Radix * (Radix * (Radix * q[m + 2] + e) + d), Radix * x)
    BY <2>8, <2>9, <2>10, Zenon
  <2>12. Same(Radix * (Radix * v[m] + d) + e + Radix * q[m + 2], Radix * x)
    BY <1>1, <2>3, <2>8, <2>9, <2>11, TwoLess
  <2>13. Same(v[2 * (j + 1)] + Radix * q[2 * (j + 1)], Radix * x)
    BY <2>2, <2>6, <2>7, <2>12, Zenon
  <2>. QED  BY <2>2, <2>13
<1>10. 4 \in T
  <2>. HIDE DEF T
  <2>1. 4 \in Nat /\ 4 \in 0..4
    OBVIOUS
  <2>. QED  BY <1>8, <1>9, <2>1, UpTo
<1>11. v[2 * 4] + Radix * q[2 * 4] = v[8]
  <2>1. v[8] \in Nat /\ 2 * 4 = 8 /\ Radix * 0 = 0
    BY <1>1, <1>5
  <2>. QED  BY <1>3, <2>1
<1>. QED  BY <1>1, <1>6, <1>7, <1>10, <1>11

-----------------------------------------------------------------------------
(***************************************************************************)
(* Additions with carry.                                                   *)
(***************************************************************************)
\* What an addition leaves: one more carry still fits.
Carried == {r \in [sum : Word, carry : {0, 1}] : r.sum + r.carry < Word64}

\* One addition of two words and a carry that fits the first of them.
LEMMA AddFits ==
  ASSUME NEW W \in Nat, W > 1, NEW x \in 0..(W - 1), NEW y \in 0..(W - 1),
         NEW c \in {0, 1}, x + c < W
  PROVE  LET s == (x + y + c) % W
             d == (x + y + c) \div W
         IN /\ s \in 0..(W - 1) /\ d \in {0, 1} /\ s + d < W
            /\ x + y + c = s + W * d
<1>1. CASE x + y + c < W
  <2>1. (x + y + c) % W = x + y + c /\ (x + y + c) \div W = 0
    BY <1>1
  <2> QED BY <2>1, <1>1
<1>2. CASE x + y + c >= W
  <2>1. x + y + c = W + (x + y + c - W) /\ x + y + c - W \in 0..(W - 2)
    BY <1>2
  <2>2. (x + y + c) % W = x + y + c - W /\ (x + y + c) \div W = 1
    BY <2>1
  <2> QED BY <2>1, <2>2
<1> QED BY <1>1, <1>2

\* ... keeps the sum, in ones' complement arithmetic.
LEMMA AddKeepsSum ==
  ASSUME NEW r \in Carried, NEW y \in Word
  PROVE  LET s == Add64(r.sum, y, r.carry)
         IN /\ s \in Carried
            /\ Same(s.sum + s.carry, r.sum + r.carry + y)
            /\ s.sum + s.carry \in Nat
<1>. DEFINE x == r.sum
            c == r.carry
            u == (x + y + c) % Word64
            d == (x + y + c) \div Word64
<1>1. /\ x \in 0..(Word64 - 1) /\ y \in 0..(Word64 - 1) /\ c \in {0, 1} /\ x + c < Word64
      /\ Word64 \in Nat /\ Word64 > 1
  BY WordSizes DEF Carried, Word
<1>2. Add64(r.sum, y, r.carry) = [sum |-> u, carry |-> d]
  BY DEF Add64
<1>3. /\ u \in 0..(Word64 - 1) /\ d \in {0, 1} /\ u + d < Word64
      /\ x + y + c = u + Word64 * d
  <2>. HIDE DEF x, c
  <2>. QED  BY <1>1, AddFits
<1>. HIDE DEF u, d, x, c
<1>4. [sum |-> u, carry |-> d] \in Carried
  BY <1>3 DEF Carried, Word
<1>5. Same(Word64 * d, d) /\ Word64 * d \in Nat /\ d \in Nat /\ u \in Nat
  <2>1. d \in Nat /\ u \in Nat
    BY <1>1, <1>3
  <2>. QED  BY <2>1, SameWord64
<1>6. Same(Word64 * d + u, d + u)
  BY <1>5, SamePlus
<1>7. Word64 * d + u = x + c + y /\ d + u = u + d /\ d + u \in Nat /\ x + c + y \in Nat
  BY <1>1, <1>3, <1>5
<1>8. Same(u + d, x + c + y)
  <2>1. Same(x + c + y, u + d)
    BY <1>6, <1>7
  <2>. DEFINE m == x + c + y
              n == u + d
  <2>2. m \in Nat /\ n \in Nat /\ Same(m, n)
    BY <1>7, <2>1
  <2>. HIDE DEF m, n
  <2>3. Same(n, m)
    BY <2>2, SameBack
  <2>. QED  BY <2>3 DEF m, n
<1>. QED  BY <1>2, <1>4, <1>7, <1>8 DEF x, c

\* Additions is what its recursive definition says.
LEMMA AdditionsDef ==
  ASSUME NEW ac \in Word, NEW words \in Seq(Word)
  PROVE  /\ Additions(ac, words) \in [0..Len(words) -> Carried]
         /\ Additions(ac, words)[0] = [sum |-> ac, carry |-> 0]
         /\ \A k \in 1..Len(words) :
              LET last == Additions(ac, words)[k - 1]
              IN Additions(ac, words)[k] = Add64(last.sum, words[k], last.carry)
<1>. DEFINE n == Len(words)
            a == [sum |-> ac, carry |-> 0]
            g == [k \in 1..n |-> [r \in Carried |-> Add64(r.sum, words[k], r.carry)]]
            IsAfter(f) == f = [k \in 0..n |->
                                IF k = 0 THEN a
                                ELSE LET last == f[k - 1]
                                     IN Add64(last.sum, words[k], last.carry)]
<1>1. n \in Nat /\ a \in Carried
  BY WordSizes DEF Carried, Word
<1>2. \A k \in 1..n : \A r \in Carried : Add64(r.sum, words[k], r.carry) \in Carried
  <2>1. ASSUME NEW k \in 1..n PROVE words[k] \in Word
    BY <1>1
  <2>. QED  BY <2>1, AddKeepsSum
<1>3. g \in [1..n -> [Carried -> Carried]]
  BY <1>2, Zenon
<1>4. PICK f \in [0..n -> Carried] : Follows(f, n, a, g)
  <2>. HIDE DEF g, n, a
  <2>. QED  BY <1>1, <1>3, Recursion
<1>5. IsAfter(f)
  <2>1. ASSUME NEW k \in 0..n, k # 0
        PROVE  g[k][f[k - 1]] = LET last == f[k - 1] IN Add64(last.sum, words[k], last.carry)
    <3>1. k \in 1..n /\ k - 1 \in 0..n
      BY <1>1, <2>1
    <3>2. f[k - 1] \in Carried
      BY <1>4, <3>1
    <3>. QED  BY <3>1, <3>2, Zenon
  <2>. HIDE DEF g, a, n
  <2>2. f = [k \in 0..n |-> IF k = 0 THEN a ELSE g[k][f[k - 1]]]
    BY <1>4, Zenon DEF Follows
  <2>3. ASSUME NEW k \in 0..n
        PROVE  (IF k = 0 THEN a ELSE g[k][f[k - 1]])
                 = (IF k = 0 THEN a ELSE LET last == f[k - 1]
                                         IN Add64(last.sum, words[k], last.carry))
    BY <2>1, Zenon
  <2>. DEFINE h == [k \in 0..n |-> IF k = 0 THEN a
                                   ELSE LET last == f[k - 1]
                                        IN Add64(last.sum, words[k], last.carry)]
  <2>4. [k \in 0..n |-> IF k = 0 THEN a ELSE g[k][f[k - 1]]] = h
    BY <2>3, Zenon
  <2>. QED  BY <2>2, <2>4, Zenon
<1>. DEFINE s == Additions(ac, words)
<1>6. IsAfter(s)
  <2>1. Additions(ac, words) = CHOOSE h : IsAfter(h)
    BY Zenon DEF Additions
  <2>. QED  BY <1>5, <2>1, Zenon
<1>. HIDE DEF s, a
<1>7. /\ s = [k \in 0..n |-> s[k]] /\ s[0] = a
      /\ \A k \in 1..n : LET last == s[k - 1] IN s[k] = Add64(last.sum, words[k], last.carry)
  <2>. HIDE DEF n
  <2>1. \A k \in 0..n : s[k] = IF k = 0 THEN a
                               ELSE LET last == s[k - 1]
                                    IN Add64(last.sum, words[k], last.carry)
    BY <1>6, Zenon
  <2>2. s = [k \in 0..n |-> s[k]]
    BY <1>6, <2>1, Zenon
  <2>3. 0 \in 0..n /\ \A k \in 1..n : k \in 0..n /\ k # 0
    BY <1>1
  <2>. QED  BY <2>1, <2>2, <2>3, Zenon
<1>8. \A k \in 0..n : s[k] \in Carried
  <2>. DEFINE T == {k \in 0..n : s[k] \in Carried}
  <2>1. 0 \in T
    BY <1>1, <1>7
  <2>2. ASSUME NEW k \in 0..(n - 1), k \in T PROVE k + 1 \in T
    <3>. HIDE DEF n
    <3>1. k + 1 \in 1..n /\ k + 1 \in 0..n /\ (k + 1) - 1 = k
      BY <1>1
    <3>2. s[k + 1] = Add64(s[k].sum, words[k + 1], s[k].carry)
      BY <1>7, <3>1, Zenon
    <3>3. s[k] \in Carried
      BY <2>2
    <3>4. s[k + 1] \in Carried
      BY <1>2, <3>1, <3>2, <3>3, Zenon
    <3>. QED  BY <3>1, <3>4
  <2>. HIDE DEF T, n
  <2>3. \A k \in 0..n : k \in T
    BY <1>1, <2>1, <2>2, UpTo
  <2>. QED  BY <2>3 DEF T
<1>9. s \in [0..n -> Carried]
  <2>. HIDE DEF n
  <2>. QED  BY <1>7, <1>8
<1>. QED  BY <1>7, <1>9 DEF s, a

\* A chain of additions adds the words up: p holds the sums of their bytes.
LEMMA ChainSum ==
  ASSUME NEW ac \in Word, NEW words \in Seq(Word), NEW p \in [0..Len(words) -> Nat],
         p[0] = 0,
         \A k \in 1..Len(words) : Same(Radix * words[k] + p[k - 1], p[k])
  PROVE  LET end == Chain(ac, words)
         IN /\ end \in Carried
            /\ end.sum + end.carry \in Word
            /\ Same(Radix * (end.sum + end.carry), Radix * ac + p[Len(words)])
<1>. DEFINE n == Len(words)
            s == Additions(ac, words)
            a == Radix * ac
<1>1. n \in Nat /\ Radix \in Nat /\ ac \in Nat /\ \A k \in 1..n : words[k] \in Word /\ words[k] \in Nat
  BY WordSizes, RadixAssumption DEF Word
<1>2. /\ s \in [0..n -> Carried] /\ s[0] = [sum |-> ac, carry |-> 0]
      /\ \A k \in 1..n : s[k] = Add64(s[k - 1].sum, words[k], s[k - 1].carry)
  BY AdditionsDef, Zenon
<1>3. \A r \in Carried : /\ r.sum \in Nat /\ r.carry \in Nat /\ r.sum + r.carry \in Nat
                         /\ Radix * (r.sum + r.carry) \in Nat /\ r.sum + r.carry \in Word
  <2>1. ASSUME NEW r \in Carried
        PROVE  r.sum \in Nat /\ r.carry \in Nat /\ r.sum + r.carry \in Nat /\ r.sum + r.carry \in Word
    BY WordSizes DEF Carried, Word
  <2>2. \A t \in Nat : Radix * t \in Nat
    BY <1>1
  <2>. QED  BY <2>1, <2>2
<1>4. a \in Nat
  BY <1>1
<1>. DEFINE total(k) == s[k].sum + s[k].carry
            T == {k \in 0..n : Same(Radix * total(k), a + p[k])}
<1>. HIDE DEF s, a
<1>5. 0 \in T
  <2>1. total(0) = ac
    BY <1>1, <1>2
  <2>2. Radix * total(0) = a + p[0]
    BY <1>4, <2>1 DEF a
  <2>3. a + p[0] \in Nat
    BY <1>4
  <2>. HIDE DEF total
  <2>. QED  BY <1>1, <2>2, <2>3, SameSelf
<1>6. ASSUME NEW k \in 0..(n - 1), k \in T PROVE k + 1 \in T
  <2>1. k + 1 \in 1..n /\ k + 1 \in 0..n /\ (k + 1) - 1 = k /\ k \in 0..n
    BY <1>1
  <2>2. s[k] \in Carried /\ s[k + 1] = Add64(s[k].sum, words[k + 1], s[k].carry)
    <3>1. s[k + 1] = Add64(s[(k + 1) - 1].sum, words[k + 1], s[(k + 1) - 1].carry)
      BY <1>2, <2>1, Zenon
    <3>2. s[k] \in Carried
      BY <1>2, <2>1
    <3>. QED  BY <2>1, <3>1, <3>2, Zenon
  <2>. DEFINE y == words[k + 1]
              t == total(k)
              u == total(k + 1)
  <2>3. y \in Word /\ y \in Nat
    BY <1>1, <2>1
  <2>4. Same(u, t + y) /\ u \in Nat /\ t \in Nat
    <3>1. Same(u, t + y) /\ u \in Nat
      <4>. HIDE DEF y
      <4>. DEFINE x == Add64(s[k].sum, y, s[k].carry)
      <4>1. Same(x.sum + x.carry, s[k].sum + s[k].carry + y) /\ x.sum + x.carry \in Nat
        BY <2>2, <2>3, AddKeepsSum
      <4>2. x = s[k + 1]
        BY <2>2 DEF y
      <4>. QED  BY <4>1, <4>2, Zenon
    <3>2. t \in Nat
      BY <1>3, <2>2
    <3>. QED  BY <3>1, <3>2
  <2>5. Same(Radix * t, a + p[k])
    BY <1>6
  <2>6. Same(Radix * y + p[k], p[k + 1])
    BY <2>1, Zenon
  <2>7. p[k] \in Nat /\ p[k + 1] \in Nat
    BY <2>1
  <2>. HIDE DEF y, t, u
  <2>8. Same(Radix * u, a + p[k + 1])
    <3>1. PICK w \in Nat : w = p[k]
      BY <2>7
    <3>2. PICK z \in Nat : z = p[k + 1]
      BY <2>7
    <3>3. /\ Radix * t \in Nat /\ Radix * y \in Nat /\ Radix * u \in Nat /\ t + y \in Nat
      BY <1>1, <2>3, <2>4
    <3>4. Radix * (t + y) = Radix * t + Radix * y /\ Radix * (t + y) \in Nat
      BY <1>1, <2>3, <2>4, <3>3
    <3>5. Same(Radix * u, Radix * (t + y))
      BY <2>4, <3>3, SameTimes
    <3>6. Same(Radix * t + Radix * y, (a + w) + Radix * y)
      <4>1. Same(Radix * t, a + w) /\ a + w \in Nat
        BY <1>4, <2>5, <3>1
      <4>. QED  BY <3>3, <4>1, SamePlus
    <3>7. (a + w) + Radix * y = (Radix * y + w) + a /\ z + a = a + z
          /\ Radix * y + w \in Nat
      BY <1>4, <3>3
    <3>8. Same((Radix * y + w) + a, z + a)
      <4>1. Same(Radix * y + w, z)
        BY <2>6, <3>1, <3>2
      <4>. QED  BY <1>4, <3>7, <4>1, SamePlus
    <3>. DEFINE A == Radix * u
                B == Radix * t + Radix * y
                C == (Radix * y + w) + a
                D == a + z
    <3>9. Same(A, B) /\ Same(B, C) /\ Same(C, D)
      BY <3>4, <3>5, <3>6, <3>7, <3>8, Zenon
    <3>10. A \in Nat /\ B \in Nat /\ C \in Nat /\ D \in Nat
      <4>1. \A x1, x2 \in Nat : x1 + x2 \in Nat
        OBVIOUS
      <4>. QED  BY <1>4, <3>3, <3>7, <4>1, Zenon
    <3>. HIDE DEF A, B, C, D
    <3>11. Same(A, C)
      BY <3>9, <3>10, SameOn
    <3>12. Same(A, D)
      BY <3>9, <3>10, <3>11, SameOn
    <3>. QED  BY <3>2, <3>12, Zenon DEF A, D
  <2>. QED  BY <2>1, <2>8 DEF u
<1>7. n \in T
  <2>. HIDE DEF T, n
  <2>1. \A k \in 0..n : k \in T
    BY <1>1, <1>5, <1>6, UpTo
  <2>2. n \in 0..n
    BY <1>1
  <2>. QED  BY <2>1, <2>2
<1>8. Chain(ac, words) = s[n] /\ n \in 0..n
  BY <1>1 DEF Chain, s
<1>9. s[n] \in Carried
  BY <1>2, <1>8
<1>. HIDE DEF n
<1>10. Same(Radix * total(n), a + p[n])
  BY <1>7
<1>11. s[n].sum + s[n].carry \in Word
  BY <1>3, <1>9
<1>. QED  BY <1>8, <1>9, <1>10, <1>11, Zenon DEF a, n

-----------------------------------------------------------------------------
(***************************************************************************)
(* Blocks.                                                                 *)
(***************************************************************************)
BlockLens == {1, 2, 4, 8, 16, 32, 64, 128}

\* A block is within the bytes that are left, and is odd for the last one only.
LEMMA BlockFits ==
  ASSUME NEW n \in Nat, n > 0
  PROVE  /\ BlockLen(n) \in BlockLens /\ BlockLen(n) \in 1..n
         /\ BlockLen(n) % 2 = 0 \/ (BlockLen(n) = 1 /\ n = 1)
<1>. DEFINE Fits(k) == k <= n /\ n < 2 * k
<1>1. CASE n >= 128
  <2>1. BlockLen(n) = 128
    BY <1>1 DEF BlockLen
  <2>. QED  BY <1>1, <2>1 DEF BlockLens
<1>2. CASE n < 128
  <2>1. \E k \in {1, 2, 4, 8, 16, 32, 64} : Fits(k)
    <3>1. \/ Fits(1) \/ Fits(2) \/ Fits(4) \/ Fits(8) \/ Fits(16) \/ Fits(32) \/ Fits(64)
      BY <1>2
    <3>. HIDE DEF Fits
    <3>. QED  BY <3>1
  <2>2. BlockLen(n) = CHOOSE k \in {1, 2, 4, 8, 16, 32, 64} : Fits(k)
    BY <1>2 DEF BlockLen
  <2>3. BlockLen(n) \in {1, 2, 4, 8, 16, 32, 64} /\ Fits(BlockLen(n))
    <3>. HIDE DEF Fits
    <3>. QED  BY <2>1, <2>2
  <2>. QED  BY <2>3 DEF BlockLens
<1>. QED  BY <1>1, <1>2

\* The words of a block have its sum.
LEMMA BlockSum ==
  ASSUME NEW ac \in Word, NEW b \in Seq(Byte), Len(b) \in BlockLens
  PROVE  AddBlock(ac, b) \in Word /\ Same(Radix * AddBlock(ac, b), Radix * ac + WordSum(b))
<1>. DEFINE words == Words(b)
            s == ByteSums(b)
            end == Chain(ac, words)
<1>1. Len(b) \in Nat /\ Radix \in Nat
  BY ByteType
<1>. DEFINE l == Len(b)
<1>a. l \in {1, 2, 4, 8, 16, 32, 64, 128}
  BY DEF BlockLens
<1>2. /\ s \in [0..Len(b) -> Nat] /\ s[0] = 0
  BY ByteSumsDef
<1>3. WordSum(b) = s[Len(b)]
  BY WordSumBytes
<1>4. SUFFICES /\ end.sum + end.carry \in Word
               /\ Same(Radix * (end.sum + end.carry), Radix * ac + WordSum(b))
  <2>1. AddBlock(ac, b) = (end.sum + end.carry) % Word64
    BY DEF AddBlock
  <2>. HIDE DEF end
  <2>2. ASSUME end.sum + end.carry \in Word PROVE AddBlock(ac, b) = end.sum + end.carry
    BY <2>1, <2>2, WordSizes DEF Word
  <2>. QED  BY <2>2
<1>5. CASE Len(b) < 8
  <2>. DEFINE p == [k \in 0..1 |-> IF k = 0 THEN 0 ELSE WordSum(b)]
  <2>1. Len(b) % 2 = 0 \/ Len(b) = 1
    <3>1. l < 8
      BY <1>5
    <3>. HIDE DEF l
    <3>2. l % 2 = 0 \/ l = 1
      BY <1>a, <3>1
    <3>. QED  BY <3>2 DEF l
  <2>2. Native(b) \in Word
    BY <1>1, <1>5, NativeFits
  <2>3. Native(b) \in Nat /\ Same(Radix * Native(b), WordSum(b))
    BY <2>1, NativeSum
  <2>4. words = <<Native(b)>> /\ words \in Seq(Word) /\ Len(words) = 1
    BY <1>5, <2>2 DEF Words
  <2>5. WordSum(b) \in Nat /\ Radix * Native(b) \in Nat
    BY <1>1, <1>2, <1>3, <2>3
  <2>6. p \in [0..1 -> Nat] /\ p[0] = 0 /\ p[1] = WordSum(b)
    BY <2>5
  <2>. HIDE DEF p
  <2>7. ASSUME NEW k \in 1..1 PROVE Same(Radix * words[k] + p[k - 1], p[k])
    <3>1. k = 1 /\ k - 1 = 0
      OBVIOUS
    <3>2. words[1] = Native(b)
      BY <2>4
    <3>. HIDE DEF words
    <3>3. Radix * words[k] + p[k - 1] = Radix * Native(b)
      BY <2>5, <2>6, <3>1, <3>2
    <3>. QED  BY <2>3, <2>6, <3>1, <3>3
  <2>. HIDE DEF words
  <2>8. end.sum + end.carry \in Word /\ Same(Radix * (end.sum + end.carry), Radix * ac + p[1])
    <3>1. /\ p \in [0..Len(words) -> Nat]
          /\ \A k \in 1..Len(words) : Same(Radix * words[k] + p[k - 1], p[k])
      BY <2>4, <2>6, <2>7, Zenon
    <3>. QED  BY <2>4, <2>6, <3>1, ChainSum
  <2>. QED  BY <2>6, <2>8
<1>6. CASE Len(b) >= 8
  <2>1. PICK n \in Nat : Len(b) = 8 * n /\ Len(b) \div 8 = n
    <3>1. l >= 8
      BY <1>6
    <3>. HIDE DEF l
    <3>2. l \div 8 \in Nat /\ l = 8 * (l \div 8)
      BY <1>a, <3>1
    <3>. QED  BY <3>2 DEF l
  <2>. DEFINE slice(k) == SubSeq(b, 8 * (k - 1) + 1, 8 * k)
              p == [k \in 0..n |-> s[8 * k]]
  <2>2. words = [k \in 1..n |-> Native(slice(k))]
    <3>1. words = [k \in 1..n |-> Native(SubSeq(b, 8 * k - 7, 8 * k))]
      BY <1>1, <1>6, <2>1 DEF Words
    <3>. HIDE DEF words
    <3>2. \A k \in 1..n : 8 * k - 7 = 8 * (k - 1) + 1
      OBVIOUS
    <3>3. \A k \in 1..n : Native(SubSeq(b, 8 * k - 7, 8 * k)) = Native(slice(k))
      BY <3>2, Zenon
    <3>. HIDE DEF slice
    <3>. QED  BY <3>1, <3>3, Zenon
  <2>. HIDE DEF words, s
  <2>3. ASSUME NEW k \in 1..n
        PROVE  /\ Native(slice(k)) \in Word
               /\ Same(Radix * Native(slice(k)) + p[k - 1], p[k])
    <3>1. PICK i \in Nat : i = 8 * (k - 1)
      OBVIOUS
    <3>2. PICK j \in Nat : j = 8 * k
      OBVIOUS
    <3>3. i % 2 = 0 /\ i <= j /\ j <= Len(b) /\ j - i = 8 /\ i \in 0..Len(b) /\ j \in 0..Len(b)
      BY <2>1, <3>1, <3>2
    <3>. DEFINE c == SubSeq(b, i + 1, j)
    <3>4. /\ c \in Seq(Byte) /\ Len(c) = 8 /\ s[j] = s[i] + WordSum(c) /\ WordSum(c) \in Nat
      BY <3>3, WordSumSlice DEF s
    <3>5. slice(k) = c
      BY <3>1, <3>2, Zenon
    <3>. HIDE DEF c
    <3>6. Len(c) % 2 = 0 /\ Len(c) <= 8
      BY <3>4
    <3>7. Native(c) \in Word
      BY <3>4, <3>6, NativeFits
    <3>8. Native(c) \in Nat /\ Same(Radix * Native(c), WordSum(c))
      BY <3>4, <3>6, NativeSum
    <3>9. s[i] \in Nat /\ s[j] \in Nat /\ Radix * Native(c) \in Nat
      BY <1>1, <1>2, <3>3, <3>8
    <3>10. Same(Radix * Native(c) + s[i], WordSum(c) + s[i])
      BY <3>4, <3>8, <3>9, SamePlus
    <3>11. WordSum(c) + s[i] = s[j]
      BY <3>4, <3>9
    <3>12. p[k - 1] = s[i] /\ p[k] = s[j]
      <4>1. k - 1 \in 0..n /\ k \in 0..n
        OBVIOUS
      <4>. QED  BY <3>1, <3>2, <4>1
    <3>. HIDE DEF p, slice
    <3>. QED  BY <3>5, <3>7, <3>10, <3>11, <3>12
  <2>4. /\ p \in [0..n -> Nat] /\ p[0] = 0 /\ p[n] = WordSum(b)
    <3>1. \A k \in 0..n : 8 * k \in 0..Len(b)
      BY <2>1
    <3>2. p \in [0..n -> Nat]
      BY <1>2, <3>1
    <3>3. 0 \in 0..n /\ n \in 0..n /\ 8 * 0 = 0
      OBVIOUS
    <3>. QED  BY <1>2, <1>3, <2>1, <3>2, <3>3
  <2>. HIDE DEF p, slice
  <2>5. words \in Seq(Word) /\ Len(words) = n /\ \A k \in 1..n : words[k] = Native(slice(k))
    <3>1. words \in [1..n -> Word]
      BY <2>2, <2>3
    <3>. QED  BY <2>2, <3>1
  <2>6. end.sum + end.carry \in Word /\ Same(Radix * (end.sum + end.carry), Radix * ac + p[n])
    <3>1. \A k \in 1..n : Same(Radix * words[k] + p[k - 1], p[k])
      BY <2>3, <2>5
    <3>2. /\ p \in [0..Len(words) -> Nat]
          /\ \A k \in 1..Len(words) : Same(Radix * words[k] + p[k - 1], p[k])
      BY <2>4, <2>5, <3>1, Zenon
    <3>. QED  BY <2>4, <2>5, <3>2, ChainSum
  <2>. QED  BY <2>4, <2>6
<1>. QED  BY <1>1, <1>5, <1>6

-----------------------------------------------------------------------------
(***************************************************************************)
(* The loop over the blocks.                                               *)
(***************************************************************************)
\* Every block but the last has an even number of bytes before it.
Loops(b) == {loop \in [ac : Word, left : 0..Len(b)] :
               loop.left = 0 \/ (Len(b) - loop.left) % 2 = 0}

\* The accumulator is the sum of the bytes behind, on top of t.
SumBehind(b, t, loop) == Same(Radix * loop.ac, t + ByteSums(b)[Len(b) - loop.left])

\* A turn puts a block behind.
LEMMA TurnKeeps ==
  ASSUME NEW b \in Seq(Byte), NEW loop \in Loops(b), loop.left # 0
  PROVE  /\ Turn(b, loop) \in Loops(b)
         /\ Turn(b, loop).left < loop.left
         /\ \A t \in Nat : SumBehind(b, t, loop) => SumBehind(b, t, Turn(b, loop))
<1>. DEFINE at == Len(b) - loop.left
            n == BlockLen(loop.left)
            c == SubSeq(b, at + 1, at + n)
            ac == loop.ac
            next == AddBlock(ac, c)
            s == ByteSums(b)
<1>1. /\ Len(b) \in Nat /\ Radix \in Nat
      /\ s \in [0..Len(b) -> Nat]
  BY ByteType, ByteSumsDef
<1>2. ac \in Word /\ ac \in Nat /\ loop.left \in 1..Len(b) /\ at % 2 = 0
  BY <1>1, WordSizes DEF Loops, Word
<1>3. n \in BlockLens /\ n \in 1..loop.left /\ (n % 2 = 0 \/ (n = 1 /\ loop.left = 1))
  <2>. HIDE DEF n
  <2>1. loop.left \in Nat /\ loop.left > 0
    BY <1>1, <1>2
  <2>. QED  BY <2>1, BlockFits DEF n
<1>. HIDE DEF n
<1>4. /\ at \in Nat /\ at + n \in Nat /\ at <= at + n /\ at + n <= Len(b)
      /\ (at + n) - at = n /\ at \in 0..Len(b) /\ at + n \in 0..Len(b)
      /\ Len(b) - (loop.left - n) = at + n
      /\ loop.left - n \in 0..Len(b) /\ loop.left - n < loop.left
  <2>. DEFINE N == Len(b)
              l == loop.left
  <2>. HIDE DEF N, l
  <2>1. N \in Nat /\ l \in 1..N /\ n \in 1..l
    BY <1>1, <1>2, <1>3 DEF N, l
  <2>. QED  BY <2>1 DEF N, l
<1>5. (at + n) % 2 = 0 \/ loop.left - n = 0
  <2>. DEFINE l == loop.left
  <2>. HIDE DEF at, l
  <2>1. at \in Nat /\ n \in Nat /\ at % 2 = 0 /\ (n % 2 = 0 \/ (n = 1 /\ l = 1)) /\ l \in Nat
    BY <1>1, <1>2, <1>3, <1>4 DEF l
  <2>2. (at + n) % 2 = 0 \/ l - n = 0
    BY <2>1
  <2>. QED  BY <2>2 DEF l
<1>6. Turn(b, loop) = [ac |-> next, left |-> loop.left - n]
  BY Zenon DEF Turn, n
<1>. HIDE DEF at
<1>7. /\ c \in Seq(Byte) /\ Len(c) = n /\ s[at + n] = s[at] + WordSum(c) /\ WordSum(c) \in Nat
  BY <1>2, <1>4, WordSumSlice
<1>. HIDE DEF c
<1>8. next \in Word /\ Same(Radix * next, Radix * ac + WordSum(c))
  <2>1. Len(c) \in BlockLens
    BY <1>3, <1>7
  <2>. HIDE DEF ac
  <2>. QED  BY <1>2, <1>7, <2>1, BlockSum
<1>. HIDE DEF next, s
<1>9. Turn(b, loop) \in Loops(b) /\ Turn(b, loop).left < loop.left
  <2>1. [ac |-> next, left |-> loop.left - n] \in [ac : Word, left : 0..Len(b)]
    BY <1>4, <1>8
  <2>2. loop.left - n = 0 \/ (Len(b) - (loop.left - n)) % 2 = 0
    BY <1>4, <1>5
  <2>. QED  BY <1>4, <1>6, <2>1, <2>2 DEF Loops
<1>10. ASSUME NEW t \in Nat, SumBehind(b, t, loop) PROVE SumBehind(b, t, Turn(b, loop))
  <2>1. Same(Radix * ac, t + s[at])
    BY <1>10 DEF SumBehind, at, s
  <2>2. SUFFICES Same(Radix * next, t + s[at + n])
    <3>1. Turn(b, loop).ac = next /\ Len(b) - Turn(b, loop).left = at + n
      BY <1>4, <1>6
    <3>. QED  BY <2>2, <3>1, Zenon DEF SumBehind, s
  <2>. HIDE DEF ac
  <2>3. PICK u \in Nat : u = s[at]
    BY <1>1, <1>4
  <2>4. PICK w \in Nat : w = WordSum(c)
    BY <1>7
  <2>5. next \in Nat
    BY <1>8, WordSizes DEF Word
  <2>6. Radix * ac \in Nat /\ Radix * next \in Nat
    BY <1>1, <1>2, <2>5
  <2>7. Same(Radix * next, Radix * ac + w)
    BY <1>8, <2>4
  <2>8. Same(Radix * ac, t + u)
    BY <2>1, <2>3
  <2>. DEFINE A == Radix * next
              B == Radix * ac
              C == B + w
              D == (t + u) + w
  <2>9. A \in Nat /\ B \in Nat /\ C \in Nat /\ D \in Nat /\ t + u \in Nat
    BY <2>6
  <2>10. Same(A, C)
    BY <2>7
  <2>11. Same(C, D)
    <3>. HIDE DEF B
    <3>1. Same(B, t + u)
      BY <2>8 DEF B
    <3>. QED  BY <2>9, <3>1, SamePlus
  <2>. HIDE DEF A, B, C
  <2>12. Same(A, D)
    <3>. HIDE DEF D
    <3>. QED  BY <2>9, <2>10, <2>11, SameOn
  <2>13. D = t + s[at + n]
    <3>1. s[at + n] = u + w
      BY <1>7, <2>3, <2>4
    <3>. QED  BY <3>1
  <2>. QED  BY <2>12, <2>13 DEF A
<1>. QED  BY <1>9, <1>10

\* A turn takes the largest block there is.
LEMMA TurnLeft ==
  ASSUME NEW b, NEW loop, loop.left \in Nat, loop.left > 0
  PROVE  /\ loop.left >= 128 => Turn(b, loop).left = loop.left - 128
         /\ \A c \in {1, 2, 4, 8, 16, 32, 64} : loop.left < 2 * c => Turn(b, loop).left < c
<1>. DEFINE l == loop.left
            n == BlockLen(l)
<1>1. Turn(b, loop).left = l - n
  BY DEF Turn
<1>2. l >= 128 => n = 128
  BY DEF BlockLen
<1>3. l < 128 => n \in {1, 2, 4, 8, 16, 32, 64} /\ n <= l /\ l < 2 * n
  <2>. HIDE DEF l
  <2>. SUFFICES ASSUME l < 128 PROVE n \in {1, 2, 4, 8, 16, 32, 64} /\ n <= l /\ l < 2 * n
    OBVIOUS
  <2>. DEFINE Fits(k) == k <= l /\ l < 2 * k
  <2>1. \E k \in {1, 2, 4, 8, 16, 32, 64} : Fits(k)
    <3>1. Fits(1) \/ Fits(2) \/ Fits(4) \/ Fits(8) \/ Fits(16) \/ Fits(32) \/ Fits(64)
      BY DEF l
    <3>. HIDE DEF Fits
    <3>. QED  BY <3>1
  <2>2. n = CHOOSE k \in {1, 2, 4, 8, 16, 32, 64} : Fits(k)
    BY DEF BlockLen, l
  <2>3. n \in {1, 2, 4, 8, 16, 32, 64} /\ Fits(n)
    <3>. HIDE DEF Fits, n
    <3>. QED  BY <2>1, <2>2
  <2>. QED  BY <2>3
<1>. HIDE DEF n, l
<1>4. l \in Nat
  BY DEF l
<1>5. ASSUME NEW c \in {1, 2, 4, 8, 16, 32, 64}, l < 2 * c PROVE l - n < c
  BY <1>3, <1>4, <1>5
<1>. QED  BY <1>1, <1>2, <1>5 DEF l

\* Turns is what its recursive definition says.
LEMMA TurnsDef ==
  ASSUME NEW b \in Seq(Byte), NEW initial \in Word
  PROVE  /\ Turns(b, initial) \in [0..MaxTurns(b) -> Loops(b)]
         /\ Turns(b, initial)[0] = [ac |-> initial, left |-> Len(b)]
         /\ \A k \in 1..MaxTurns(b) :
              LET last == Turns(b, initial)[k - 1]
              IN Turns(b, initial)[k] = IF last.left = 0 THEN last ELSE Turn(b, last)
<1>. DEFINE n == MaxTurns(b)
            S == Loops(b)
            a == [ac |-> initial, left |-> Len(b)]
            next(loop) == IF loop.left = 0 THEN loop ELSE Turn(b, loop)
            g == [k \in 1..n |-> [loop \in S |-> next(loop)]]
            IsAfter(f) == f = [k \in 0..n |->
                                IF k = 0 THEN a
                                ELSE LET last == f[k - 1]
                                     IN IF last.left = 0 THEN last ELSE Turn(b, last)]
<1>1. n \in Nat /\ a \in S
  <2>. DEFINE l == Len(b)
  <2>1. l \in Nat /\ l - l = 0 /\ 0 % 2 = 0 /\ l \in 0..l /\ n \in Nat
    BY ByteType DEF MaxTurns
  <2>2. a \in [ac : Word, left : 0..l]
    BY <2>1
  <2>3. a.left = l
    OBVIOUS
  <2>. HIDE DEF n, a, l
  <2>4. (l - a.left) % 2 = 0
    BY <2>1, <2>3
  <2>. QED  BY <2>1, <2>2, <2>4 DEF Loops, l
<1>2. \A loop \in S : next(loop) \in S
  BY TurnKeeps, Zenon
<1>. HIDE DEF S
<1>3. g \in [1..n -> [S -> S]]
  <2>. HIDE DEF next
  <2>. QED  BY <1>2, Zenon
<1>4. PICK f \in [0..n -> S] : Follows(f, n, a, g)
  <2>. HIDE DEF g, n, a
  <2>. QED  BY <1>1, <1>3, Recursion
<1>5. IsAfter(f)
  <2>1. ASSUME NEW k \in 0..n, k # 0
        PROVE  g[k][f[k - 1]] = LET last == f[k - 1]
                                IN IF last.left = 0 THEN last ELSE Turn(b, last)
    <3>1. k \in 1..n /\ k - 1 \in 0..n
      BY <1>1, <2>1
    <3>2. f[k - 1] \in S
      BY <1>4, <3>1
    <3>3. g[k][f[k - 1]] = next(f[k - 1])
      <4>. HIDE DEF next
      <4>. QED  BY <3>1, <3>2, Zenon
    <3>. QED  BY <3>3, Zenon
  <2>. HIDE DEF g, a, n
  <2>2. f = [k \in 0..n |-> IF k = 0 THEN a ELSE g[k][f[k - 1]]]
    BY <1>4, Zenon DEF Follows
  <2>. DEFINE h == [k \in 0..n |-> IF k = 0 THEN a
                                   ELSE LET last == f[k - 1]
                                        IN IF last.left = 0 THEN last ELSE Turn(b, last)]
  <2>3. ASSUME NEW k \in 0..n
        PROVE  (IF k = 0 THEN a ELSE g[k][f[k - 1]])
                 = (IF k = 0 THEN a ELSE LET last == f[k - 1]
                                         IN IF last.left = 0 THEN last ELSE Turn(b, last))
    BY <2>1, Zenon
  <2>4. [k \in 0..n |-> IF k = 0 THEN a ELSE g[k][f[k - 1]]] = h
    BY <2>3, Zenon
  <2>. QED  BY <2>2, <2>4, Zenon
<1>. DEFINE s == Turns(b, initial)
<1>6. IsAfter(s)
  <2>1. Turns(b, initial) = CHOOSE h : IsAfter(h)
    BY Zenon DEF Turns
  <2>. QED  BY <1>5, <2>1, Zenon
<1>. HIDE DEF s, a
<1>7. /\ s = [k \in 0..n |-> s[k]] /\ s[0] = a
      /\ \A k \in 1..n : LET last == s[k - 1]
                         IN s[k] = IF last.left = 0 THEN last ELSE Turn(b, last)
  <2>. HIDE DEF n
  <2>1. \A k \in 0..n : s[k] = IF k = 0 THEN a
                               ELSE LET last == s[k - 1]
                                    IN IF last.left = 0 THEN last ELSE Turn(b, last)
    BY <1>6, Zenon
  <2>2. s = [k \in 0..n |-> s[k]]
    BY <1>6, <2>1, Zenon
  <2>3. 0 \in 0..n /\ \A k \in 1..n : k \in 0..n /\ k # 0
    BY <1>1
  <2>. QED  BY <2>1, <2>2, <2>3, Zenon
<1>8. \A k \in 0..n : s[k] \in S
  <2>. DEFINE T == {k \in 0..n : s[k] \in S}
  <2>1. 0 \in T
    BY <1>1, <1>7
  <2>2. ASSUME NEW k \in 0..(n - 1), k \in T PROVE k + 1 \in T
    <3>. HIDE DEF n
    <3>1. k + 1 \in 1..n /\ k + 1 \in 0..n /\ (k + 1) - 1 = k
      BY <1>1
    <3>2. s[k + 1] = next(s[k])
      BY <1>7, <3>1, Zenon
    <3>3. s[k] \in S
      BY <2>2
    <3>. HIDE DEF next
    <3>4. s[k + 1] \in S
      BY <1>2, <3>2, <3>3, Zenon
    <3>. QED  BY <3>1, <3>4
  <2>. HIDE DEF T, n
  <2>3. \A k \in 0..n : k \in T
    BY <1>1, <2>1, <2>2, UpTo
  <2>. QED  BY <2>3 DEF T
<1>9. s \in [0..n -> S]
  <2>. HIDE DEF n
  <2>. QED  BY <1>7, <1>8
<1>. QED  BY <1>7, <1>9, Zenon DEF s, a, S

\* There are turns enough for all bytes.
LEMMA TurnsSum ==
  ASSUME NEW b \in Seq(Byte), NEW initial \in Word
  PROVE  LET end == Turns(b, initial)[MaxTurns(b)]
         IN /\ end.ac \in Word /\ end.left = 0
            /\ Same(Radix * end.ac, Radix * initial + WordSum(b))
<1>. DEFINE n == Len(b)
            m == MaxTurns(b)
            full == n \div 128
            s == Turns(b, initial)
            t == Radix * initial
            sums == ByteSums(b)
            T == {k \in 0..m : /\ SumBehind(b, t, s[k])
                               /\ k <= full => s[k].left = n - 128 * k}
<1>1. /\ n \in Nat /\ t \in Nat /\ full \in Nat /\ m = full + 7 /\ m \in Nat
      /\ 128 * full <= n /\ n < 128 * full + 128
  BY ByteType, WordSizes DEF Word, MaxTurns
<1>2. sums \in [0..n -> Nat] /\ sums[0] = 0
  BY ByteSumsDef
<1>3. /\ s \in [0..m -> Loops(b)]
      /\ s[0] = [ac |-> initial, left |-> n]
      /\ \A k \in 1..m : s[k] = IF s[k - 1].left = 0 THEN s[k - 1] ELSE Turn(b, s[k - 1])
  BY TurnsDef, Zenon
<1>4. \A loop \in Loops(b) : loop.ac \in Word /\ loop.left \in 0..n
  BY DEF Loops
<1>5. 0 \in T
  <2>. HIDE DEF s, m, full
  <2>1. s[0].ac = initial /\ s[0].left = n /\ n = n - 128 * 0 /\ n - n = 0 /\ 0 \in 0..m
    BY <1>1, <1>3
  <2>. HIDE DEF n
  <2>2. t + sums[n - s[0].left] = t
    BY <1>1, <1>2, <2>1
  <2>3. Same(Radix * s[0].ac, t + sums[n - s[0].left])
    <3>1. Radix * s[0].ac = t
      BY <2>1
    <3>. HIDE DEF t
    <3>. QED  BY <1>1, <2>2, <3>1, SameSelf
  <2>. QED  BY <2>1, <2>3 DEF SumBehind, n
<1>. HIDE DEF s, t, sums, m, full
<1>6. ASSUME NEW k \in 0..(m - 1)
      PROVE  /\ k + 1 \in 1..m /\ k + 1 \in 0..m /\ k \in 0..m
             /\ s[k] \in Loops(b) /\ s[k].left \in 0..n
             /\ s[k + 1] = IF s[k].left = 0 THEN s[k] ELSE Turn(b, s[k])
  <2>1. k + 1 \in 1..m /\ k + 1 \in 0..m /\ (k + 1) - 1 = k /\ k \in 0..m
    BY <1>1
  <2>2. s[k] \in Loops(b) /\ s[k].left \in 0..n
    BY <1>3, <1>4, <2>1
  <2>3. s[k + 1] = IF s[k].left = 0 THEN s[k] ELSE Turn(b, s[k])
    BY <1>3, <2>1, Zenon
  <2>. QED  BY <2>1, <2>2, <2>3
<1>7. ASSUME NEW k \in 0..(m - 1), k \in T PROVE k + 1 \in T
  <2>1. /\ k + 1 \in 0..m /\ s[k] \in Loops(b) /\ s[k].left \in 0..n
        /\ s[k + 1] = IF s[k].left = 0 THEN s[k] ELSE Turn(b, s[k])
    BY <1>6
  <2>2. SumBehind(b, t, s[k + 1])
    <3>1. CASE s[k].left = 0
      BY <1>7, <2>1, <3>1
    <3>2. CASE s[k].left # 0
      BY <1>1, <1>7, <2>1, <3>2, TurnKeeps
    <3>. QED  BY <3>1, <3>2
  <2>3. ASSUME k + 1 <= full PROVE s[k + 1].left = n - 128 * (k + 1)
    <3>. DEFINE l == s[k].left
    <3>. HIDE DEF n
    <3>1. l = n - 128 * k
      BY <1>1, <1>7, <2>3
    <3>2. l >= 128 /\ l \in Nat /\ l - 128 = n - 128 * (k + 1)
      <4>. HIDE DEF l
      <4>. QED  BY <1>1, <2>3, <3>1
    <3>3. s[k + 1] = Turn(b, s[k])
      BY <2>1, <3>2
    <3>4. Turn(b, s[k]).left = l - 128
      BY <3>2, TurnLeft
    <3>. QED  BY <3>2, <3>3, <3>4
  <2>. QED  BY <2>1, <2>2, <2>3
<1>8. \A k \in 0..m : k \in T
  <2>. HIDE DEF T
  <2>. QED  BY <1>1, <1>5, <1>7, UpTo
<1>9. ASSUME NEW k \in 0..(m - 1), NEW c \in {1, 2, 4, 8, 16, 32, 64}, s[k].left < 2 * c
      PROVE  s[k + 1].left < c
  <2>1. s[k].left \in Nat /\ s[k + 1] = IF s[k].left = 0 THEN s[k] ELSE Turn(b, s[k])
    BY <1>1, <1>6
  <2>2. CASE s[k].left = 0
    BY <2>1, <2>2
  <2>3. CASE s[k].left > 0
    BY <1>9, <2>1, <2>3, TurnLeft
  <2>. QED  BY <2>1, <2>2, <2>3
<1>10. s[full].left < 128
  <2>1. full \in 0..m /\ n - 128 * full < 128
    <3>. HIDE DEF n
    <3>. QED  BY <1>1
  <2>2. s[full].left = n - 128 * full
    BY <1>1, <1>8, <2>1
  <2>. QED  BY <2>1, <2>2
<1>11. s[m].left < 1
  <2>. DEFINE L(j) == s[full + j].left
  <2>. HIDE DEF n
  <2>1. ASSUME NEW j \in 0..6, NEW c \in {1, 2, 4, 8, 16, 32, 64}, L(j) < 2 * c
        PROVE  L(j + 1) < c
    <3>. DEFINE k == full + j
    <3>1. k \in 0..(m - 1) /\ full + (j + 1) = k + 1
      BY <1>1
    <3>2. s[k].left < 2 * c
      BY <2>1
    <3>. HIDE DEF k
    <3>3. s[k + 1].left < c
      BY <1>9, <3>1, <3>2
    <3>. QED  BY <3>1, <3>3
  <2>2. /\ (L(0) < 128 => L(1) < 64) /\ (L(1) < 64 => L(2) < 32)
        /\ (L(2) < 32 => L(3) < 16) /\ (L(3) < 16 => L(4) < 8)
        /\ (L(4) < 8 => L(5) < 4) /\ (L(5) < 4 => L(6) < 2)
        /\ (L(6) < 2 => L(7) < 1)
    <3>. HIDE DEF L
    <3>1. \A j \in 0..6 : \A c \in {1, 2, 4, 8, 16, 32, 64} : L(j) < 2 * c => L(j + 1) < c
      BY <2>1
    <3>. QED  BY <3>1
  <2>3. L(0) < 128 /\ full + 7 = m
    <3>1. full + 0 = full /\ full + 7 = m
      BY <1>1
    <3>. QED  BY <1>10, <3>1
  <2>. QED  BY <2>2, <2>3
<1>12. s[m] \in Loops(b) /\ SumBehind(b, t, s[m])
  <2>1. m \in 0..m
    BY <1>1
  <2>. QED  BY <1>3, <1>8, <2>1
<1>13. s[m].ac \in Word /\ s[m].left = 0 /\ n - 0 = n
  <2>1. s[m].ac \in Word /\ s[m].left \in 0..n
    BY <1>4, <1>12
  <2>. QED  BY <1>1, <1>11, <2>1
<1>14. Same(Radix * s[m].ac, t + WordSum(b))
  <2>1. Same(Radix * s[m].ac, t + ByteSums(b)[n - s[m].left])
    BY <1>12 DEF SumBehind
  <2>2. ByteSums(b)[n - s[m].left] = WordSum(b)
    BY <1>13, WordSumBytes, Zenon
  <2>. QED  BY <2>1, <2>2, Zenon
<1>. QED  BY <1>13, <1>14, Zenon DEF s, t, m

\* However the bytes are cut into blocks, the accumulator is the initial value
\* and their sum, in ones' complement arithmetic: no carry is lost.
THEOREM AccumulatorIsSum ==
  ASSUME NEW b \in Seq(Byte), NEW initial \in Word
  PROVE  /\ checksumNoFold(b, initial) \in Word
         /\ WordSum(b) \in Nat
         /\ Same(checksumNoFold(b, initial), initial + WordSum(b))
<1>. DEFINE i == Swapped(initial)
            ac == Turns(b, i)[MaxTurns(b)].ac
            r == Swapped(ac)
            w == WordSum(b)
<1>1. checksumNoFold(b, initial) = r
  BY Zenon DEF checksumNoFold
<1>2. initial \in Nat /\ Radix \in Nat
  BY WordSizes, RadixAssumption DEF Word
<1>3. i \in Word /\ Same(i, Radix * initial) /\ Radix * initial \in Nat
  BY SwappedSum
<1>. HIDE DEF i
<1>4. ac \in Word /\ Same(Radix * ac, Radix * i + w)
  BY <1>3, TurnsSum
<1>. HIDE DEF ac
<1>5. r \in Word /\ Same(r, Radix * ac)
  BY <1>4, SwappedSum
<1>6. w \in Nat
  <2>1. Len(b) \in 0..Len(b)
    BY ByteType
  <2>. QED  BY <2>1, ByteSumsDef, WordSumBytes
<1>. HIDE DEF r, w
<1>7. i \in Nat /\ ac \in Nat /\ r \in Nat
  BY <1>3, <1>4, <1>5, WordSizes DEF Word
<1>8. Same(Radix * i, Radix * (Radix * initial)) /\ Radix * i \in Nat
  BY <1>2, <1>3, <1>7, SameTimes
<1>9. Same(Radix * (Radix * initial), initial) /\ Radix * (Radix * initial) \in Nat
  BY <1>2, SameRadix2
<1>10. Same(Radix * i, initial)
  <2>. DEFINE A == Radix * i
              B == Radix * (Radix * initial)
  <2>1. A \in Nat /\ B \in Nat /\ Same(A, B) /\ Same(B, initial)
    BY <1>8, <1>9
  <2>. HIDE DEF A, B
  <2>2. Same(A, initial)
    BY <1>2, <2>1, SameOn
  <2>. QED  BY <2>2 DEF A
<1>11. Same(Radix * i + w, initial + w)
  BY <1>2, <1>6, <1>8, <1>10, SamePlus
<1>12. Same(r, initial + w)
  <2>. DEFINE A == Radix * ac
              B == Radix * i + w
              C == initial + w
  <2>1. A \in Nat /\ B \in Nat /\ C \in Nat
    BY <1>2, <1>6, <1>7, <1>8
  <2>2. Same(r, A) /\ Same(A, B) /\ Same(B, C)
    BY <1>4, <1>5, <1>11
  <2>. HIDE DEF A, B, C
  <2>3. Same(r, B)
    BY <1>7, <2>1, <2>2, SameOn
  <2>4. Same(r, C)
    BY <1>7, <2>1, <2>2, <2>3, SameOn
  <2>. QED  BY <2>4 DEF C
<1>. QED  BY <1>1, <1>5, <1>6, <1>12, Zenon DEF w

\* checksumNoFold adds the carry of a block to the accumulator without looking
\* at the carry of that addition: there never is one.
THEOREM NoCarryLost ==
  ASSUME NEW ac \in Word, NEW words \in Seq(Word)
  PROVE  LET end == Chain(ac, words)
         IN (end.sum + end.carry) % Word64 = end.sum + end.carry
<1>. DEFINE n == Len(words)
            s == Additions(ac, words)
<1>1. n \in 0..n
  <2>1. n \in Nat
    OBVIOUS
  <2>. HIDE DEF n
  <2>. QED  BY <2>1
<1>2. s[n] \in Carried
  <2>1. s \in [0..n -> Carried]
    BY AdditionsDef, Zenon
  <2>. HIDE DEF n, s
  <2>. QED  BY <1>1, <2>1
<1>. DEFINE x == s[n].sum
            c == s[n].carry
<1>. HIDE DEF s, n
<1>3. x \in Word /\ c \in {0, 1} /\ x + c < Word64
  BY <1>2 DEF Carried
<1>. HIDE DEF x, c
<1>4. (x + c) % Word64 = x + c
  <2>1. x + c \in 0..(Word64 - 1) /\ Word64 \in Nat /\ Word64 > 1
    BY <1>3, WordSizes DEF Word
  <2>2. \A y \in 0..(Word64 - 1) : y % Word64 = y
    BY <2>1
  <2>. QED  BY <2>1, <2>2
<1>. QED  BY <1>4, Zenon DEF Chain, s, n, x, c
-----------------------------------------------------------------------------
(***************************************************************************)
(* The folds of checksum.                                                  *)
(***************************************************************************)
\* A fold keeps the value, in ones' complement arithmetic ...
LEMMA FoldKeeps == ASSUME NEW x \in Nat PROVE Fold(x) \in Nat /\ Same(x, Fold(x))
<1> DEFINE q == x \div Word16
           r == x % Word16
<1>1. q \in Nat /\ r \in 0..(Word16 - 1) /\ x = (Word16 * q) + r
  BY WordSizes
<1>2. Fold(x) = q + r
  BY DEF Fold
<1> HIDE DEF q, r
<1>3. Word16 * q \in Nat /\ Same(Word16 * q, q)
  BY <1>1, SameWord16
<1>4. r \in Nat
  BY <1>1, WordSizes
<1>5. Same((Word16 * q) + r, q + r)
  BY <1>1, <1>3, <1>4, SamePlus
<1> QED BY <1>1, <1>2, <1>4, <1>5

\* ... and brings it down to a plus the last 16 bits.
LEMMA FoldBound ==
  ASSUME NEW x \in Nat, NEW a \in Nat, NEW b \in 0..(Word16 - 1), x <= a * Word16 + b
  PROVE  Fold(x) <= a + b \/ Fold(x) <= a + Word16 - 2
<1> DEFINE q == x \div Word16
           r == x % Word16
<1>1. q \in Nat /\ r \in 0..(Word16 - 1) /\ x = Word16 * q + r /\ Fold(x) = q + r
  BY WordSizes DEF Fold
<1> HIDE DEF q, r
<1>2. q <= a
  <2> SUFFICES ASSUME q > a PROVE FALSE
    BY <1>1
  <2>1. Word16 * q >= Word16 * (a + 1)
    BY <1>1, WordSizes
  <2>2. Word16 * (a + 1) = a * Word16 + Word16
    BY WordSizes
  <2> QED BY <1>1, <2>1, <2>2, WordSizes
<1>3. CASE q = a
  BY <1>1, <1>3, WordSizes
<1>4. CASE q < a
  BY <1>1, <1>4, WordSizes
<1> QED BY <1>1, <1>2, <1>3, <1>4

\* After four folds any 64-bit value fits in 16 bits: uint16 in checksum cuts
\* nothing off, and what it returns is the value in ones' complement arithmetic.
THEOREM FourFolds ==
  ASSUME NEW x \in Word
  PROVE  LET f == Fold(Fold(Fold(Fold(x))))
         IN /\ f \in 0..(Word16 - 1)
            /\ Same(x, f)
<1> DEFINE W == Word16
           f1 == Fold(x)
           f2 == Fold(f1)
           f3 == Fold(f2)
           f4 == Fold(f3)
<1>0. W \in Nat /\ W > 1 /\ x \in Nat /\ W * W \in Nat /\ W * W * W \in Nat
  BY WordSizes DEF Word
<1>a. f1 \in Nat /\ Same(x, f1)
  BY <1>0, FoldKeeps
<1> HIDE DEF f1
<1>c. f2 \in Nat /\ Same(f1, f2)
  BY <1>a, FoldKeeps
<1> HIDE DEF f2
<1>d. f3 \in Nat /\ Same(f2, f3)
  BY <1>c, FoldKeeps
<1> HIDE DEF f3
<1>e. f4 \in Nat /\ Same(f3, f4)
  BY <1>d, FoldKeeps
<1>b. f1 \in Nat /\ f2 \in Nat /\ f3 \in Nat /\ f4 \in Nat
  BY <1>a, <1>c, <1>d, <1>e
<1>1. f1 <= W * W * W + W - 2
  <2>1. W * W * W - 1 \in Nat /\ x <= (W * W * W - 1) * W + (W - 1)
    <3>1. W * W * W >= 1
      BY <1>0
    <3>2. (W * W * W - 1) * W = W * W * W * W - W
      BY <1>0
    <3> QED BY <1>0, <3>1, <3>2, WordSizes DEF Word, Word64
  <2>2. \A a \in Nat, b \in 0..(W - 1) :
          x <= a * W + b => f1 <= a + b \/ f1 <= a + W - 2
    BY <1>0, FoldBound DEF f1
  <2>3. W - 1 \in 0..(W - 1)
    BY <1>0
  <2>4. f1 <= (W * W * W - 1) + (W - 1) \/ f1 <= (W * W * W - 1) + W - 2
    BY <2>1, <2>2, <2>3
  <2> QED BY <1>0, <1>b, <2>4
<1>2. f2 <= W * W + W - 2
  <2>1. f1 <= (W * W) * W + (W - 2) /\ W - 2 \in 0..(W - 1)
    BY <1>0, <1>1, <1>b
  <2>2. f2 <= (W * W) + (W - 2) \/ f2 <= (W * W) + W - 2
    BY <1>0, <1>b, <2>1, FoldBound DEF f2
  <2> QED BY <1>0, <1>b, <2>2
<1>3. f3 <= W + W - 2
  <2>1. f2 <= W * W + (W - 2) /\ W - 2 \in 0..(W - 1)
    BY <1>0, <1>2, <1>b
  <2>2. f3 <= W + (W - 2) \/ f3 <= W + W - 2
    BY <1>0, <1>b, <2>1, FoldBound DEF f3
  <2> QED BY <1>0, <1>b, <2>2
<1>4. f4 <= W - 1
  <2>1. f3 <= 1 * W + (W - 2) /\ W - 2 \in 0..(W - 1)
    BY <1>0, <1>3, <1>b
  <2>2. f4 <= 1 + (W - 2) \/ f4 <= 1 + W - 2
    BY <1>0, <1>b, <2>1, FoldBound DEF f4
  <2> QED BY <1>0, <1>b, <2>2
<1> HIDE DEF f4
<1>5. Same(x, f4)
  <2>1. Same(x, f2)
    BY <1>0, <1>a, <1>b, <1>c, SameOn
  <2>2. Same(x, f3)
    BY <1>0, <1>b, <1>d, <2>1, SameOn
  <2> QED BY <1>0, <1>b, <1>e, <2>2, SameOn
<1>6. f4 \in 0..(W - 1)
  BY <1>0, <1>b, <1>4
<1> QED BY <1>5, <1>6, Zenon DEF f1, f2, f3, f4

\* checksum is the initial value and the sum of the bytes, in ones' complement
\* arithmetic and 16 bits.
THEOREM ChecksumIsSum ==
  ASSUME NEW b \in Seq(Byte), NEW initial \in Word
  PROVE  /\ checksum(b, initial) \in 0..(Word16 - 1)
         /\ Same(checksum(b, initial), initial + WordSum(b))
<1> DEFINE x == checksumNoFold(b, initial)
           f == Fold(Fold(Fold(Fold(x))))
           t == initial + WordSum(b)
<1>1. x \in Word /\ WordSum(b) \in Nat /\ Same(x, t)
  BY AccumulatorIsSum
<1>2. checksum(b, initial) = f % Word16
  BY Zenon DEF checksum
<1> HIDE DEF x
<1>3. f \in 0..(Word16 - 1) /\ Same(x, f)
  BY <1>1, FourFolds
<1> HIDE DEF f
<1>4. f % Word16 = f
  BY <1>3, WordSizes
<1>5. t \in Nat /\ x \in Nat /\ f \in Nat
  BY <1>1, <1>3, WordSizes DEF Word
<1> HIDE DEF t
<1>6. Same(f, t)
  <2>1. Same(f, x)
    BY <1>3, <1>5, SameBack
  <2> QED BY <1>1, <1>5, <2>1, SameOn
<1> QED BY <1>2, <1>3, <1>4, <1>6, Zenon DEF t
=============================================================================
