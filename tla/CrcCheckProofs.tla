--------------------------- MODULE CrcCheckProofs ---------------------------
(***************************************************************************)
(* Proofs about crc.sv and comparator.sv, for every width, polynomial and  *)
(* number of inverted bits the polynomial's code detects.                  *)
(***************************************************************************)
EXTENDS CrcCheck, SerialPathProofs, FiniteSetTheorems

(***************************************************************************)
(* Polynomials over GF(2) as sets: sums, and what the parity of a number   *)
(* of pairs makes of them.                                                 *)
(***************************************************************************)
LEMMA SumMember ==
    ASSUME NEW p, NEW q, NEW n
    PROVE  n \in Sum(p, q) <=> ~(n \in p <=> n \in q)
BY DEF Sum

\* What two sums share cancels.
LEMMA SumCancels ==
    ASSUME NEW a, NEW b, NEW c, NEW d
    PROVE  /\ Sum(Sum(a, b), Sum(a, c)) = Sum(b, c)
           /\ Sum(Sum(a, b), Sum(Sum(a, c), Sum(b, d))) = Sum(c, d)
<1>1. ASSUME NEW n PROVE n \in Sum(Sum(a, b), Sum(a, c)) <=> n \in Sum(b, c)
  BY SumMember
<1>2. ASSUME NEW n
      PROVE  n \in Sum(Sum(a, b), Sum(Sum(a, c), Sum(b, d))) <=> n \in Sum(c, d)
  BY SumMember
<1> QED
  BY <1>1, <1>2

LEMMA SumParity ==
    ASSUME NEW p, NEW q, IsFiniteSet(p), IsFiniteSet(q)
    PROVE  /\ IsFiniteSet(Sum(p, q))
           /\ Cardinality(Sum(p, q)) \in Nat
           /\ Cardinality(p) \in Nat /\ Cardinality(q) \in Nat
           /\ Cardinality(Sum(p, q)) % 2 = (Cardinality(p) + Cardinality(q)) % 2
<1>1. /\ IsFiniteSet(p \ q) /\ IsFiniteSet(q \ p) /\ IsFiniteSet(p \cap q)
      /\ Cardinality(p \ q) = Cardinality(p) - Cardinality(p \cap q)
      /\ Cardinality(q \ p) = Cardinality(q) - Cardinality(q \cap p)
  BY FS_Difference, FS_Intersection
<1>2. /\ Cardinality(p) \in Nat /\ Cardinality(q) \in Nat /\ Cardinality(p \cap q) \in Nat
  BY <1>1, FS_CardinalityType
<1>3. /\ IsFiniteSet(Sum(p, q))
      /\ Cardinality(Sum(p, q)) = Cardinality(p \ q) + Cardinality(q \ p)
                                    - Cardinality((p \ q) \cap (q \ p))
  BY <1>1, FS_Union DEF Sum
<1>4. (p \ q) \cap (q \ p) = {} /\ q \cap p = p \cap q
  OBVIOUS
<1>5. Cardinality({}) = 0
  BY FS_EmptySet
<1>6. Cardinality((p \ q) \cap (q \ p)) = 0 /\ Cardinality(q \cap p) = Cardinality(p \cap q)
  BY <1>4, <1>5
<1>7. Cardinality(Sum(p, q)) = Cardinality(p) + Cardinality(q) - 2 * Cardinality(p \cap q)
  BY <1>1, <1>2, <1>3, <1>6
<1>8. Cardinality(Sum(p, q)) \in Nat
  BY <1>3, FS_CardinalityType
<1> QED
  BY <1>2, <1>3, <1>7, <1>8

\* The pairs of terms that contribute to the power n of a multiple.
Pairs(q, n) == {ij \in q \X Divisor : ij[1] + ij[2] = n}

LEMMA WidthFacts ==
    /\ CrcWidth \in Nat /\ CrcWidth > 1 /\ CrcBits = 0 .. CrcWidth - 1
    /\ Divisor \subseteq 0 .. CrcWidth /\ CrcWidth \in Divisor
BY CrcAssumption DEF CrcBits, Divisor

LEMMA PairsFinite ==
    ASSUME NEW q \in SUBSET CrcBits, NEW n
    PROVE  IsFiniteSet(Pairs(q, n)) /\ Cardinality(Pairs(q, n)) \in Nat
<1>1. IsFiniteSet(0 .. CrcWidth)
  BY WidthFacts, FS_Interval
<1>2. IsFiniteSet(q) /\ IsFiniteSet(Divisor)
  <2>1. q \in SUBSET (0 .. CrcWidth) /\ Divisor \in SUBSET (0 .. CrcWidth)
    BY WidthFacts
  <2> QED
    BY <1>1, <2>1, FS_Subset
<1>3. IsFiniteSet(q \X Divisor)
  BY <1>2, FS_Product
<1>4. Pairs(q, n) \in SUBSET (q \X Divisor)
  BY DEF Pairs
<1>5. IsFiniteSet(Pairs(q, n))
  BY <1>3, <1>4, FS_Subset
<1> QED
  BY <1>5, FS_CardinalityType

LEMMA ProductMember ==
    ASSUME NEW q, NEW n
    PROVE  n \in Product(q, Divisor) <=>
             n \in 0 .. 3 * CrcWidth /\ Cardinality(Pairs(q, n)) % 2 = 1
BY DEF Product, Pairs

\* Multiplication distributes over the sum.
LEMMA ProductOfSum ==
    ASSUME NEW p \in SUBSET CrcBits, NEW q \in SUBSET CrcBits
    PROVE  Product(Sum(p, q), Divisor) = Sum(Product(p, Divisor), Product(q, Divisor))
<1>1. ASSUME NEW n
      PROVE  /\ Cardinality(Pairs(p, n)) \in Nat /\ Cardinality(Pairs(q, n)) \in Nat
             /\ Cardinality(Pairs(Sum(p, q), n)) % 2
                  = (Cardinality(Pairs(p, n)) + Cardinality(Pairs(q, n))) % 2
  <2>1. Pairs(Sum(p, q), n) = Sum(Pairs(p, n), Pairs(q, n))
    BY DEF Pairs, Sum
  <2> QED
    BY <2>1, PairsFinite, SumParity
<1>2. ASSUME NEW n
      PROVE  n \in Product(Sum(p, q), Divisor)
               <=> n \in Sum(Product(p, Divisor), Product(q, Divisor))
  <2>1. Cardinality(Pairs(Sum(p, q), n)) % 2 = 1
          <=> ~(Cardinality(Pairs(p, n)) % 2 = 1 <=> Cardinality(Pairs(q, n)) % 2 = 1)
    BY <1>1
  <2> QED
    BY <2>1, ProductMember, SumMember
<1> QED
  BY <1>2

LEMMA MultiplesSum ==
    ASSUME NEW p \in Multiples, NEW q \in Multiples
    PROVE  Sum(p, q) \in Multiples
<1>1. PICK p1 \in SUBSET CrcBits : p = Product(p1, Divisor)
  BY DEF Multiples
<1>2. PICK q1 \in SUBSET CrcBits : q = Product(q1, Divisor)
  BY DEF Multiples
<1>3. Sum(p1, q1) \in SUBSET CrcBits
  BY DEF Sum
<1>4. Sum(p, q) = Product(Sum(p1, q1), Divisor)
  BY <1>1, <1>2, ProductOfSum
<1> QED
  BY <1>3, <1>4 DEF Multiples

\* Nothing and the divisor times a power of x are multiples.
LEMMA EmptyProduct == Product({}, Divisor) = {}
<1>1. ASSUME NEW n PROVE Cardinality(Pairs({}, n)) = 0
  <2>1. Pairs({}, n) = {}
    BY DEF Pairs
  <2> QED
    BY <2>1, FS_EmptySet
<1> QED
  BY <1>1, ProductMember

LEMMA MultiplesEmpty == {} \in Multiples
BY EmptyProduct DEF Multiples

LEMMA MultiplesDivisor ==
    ASSUME NEW k \in CrcBits
    PROVE  Up(k, Divisor) \in Multiples
<1>1. {k} \in SUBSET CrcBits
  OBVIOUS
<1>2. ASSUME NEW n
      PROVE  n \in Product({k}, Divisor) <=> n \in Up(k, Divisor)
  <2>1. CASE n \in Up(k, Divisor)
    <3>1. PICK j \in Divisor : n = j + k
      BY <2>1 DEF Up
    <3>2. Pairs({k}, n) = {<<k, j>>}
      <4>1. k \in Nat /\ j \in Nat
        BY WidthFacts
      <4>2. \A i \in Divisor : i \in Nat
        BY WidthFacts
      <4>3. <<k, j>> \in Pairs({k}, n)
        BY <3>1, <4>1 DEF Pairs
      <4>4. ASSUME NEW ij \in Pairs({k}, n) PROVE ij = <<k, j>>
        <5>1. ij = <<ij[1], ij[2]>> /\ ij[1] = k /\ ij[2] \in Divisor /\ k + ij[2] = n
          BY DEF Pairs
        <5>2. ij[2] = j
          BY <3>1, <4>1, <4>2, <5>1
        <5> QED
          BY <5>1, <5>2
      <4> QED
        BY <4>3, <4>4
    <3>3. Cardinality(Pairs({k}, n)) = 1
      BY <3>2, FS_Singleton
    <3>4. n \in 0 .. 3 * CrcWidth
      BY <3>1, WidthFacts
    <3> QED
      BY <2>1, <3>3, <3>4, ProductMember
  <2>2. CASE n \notin Up(k, Divisor)
    <3>1. Pairs({k}, n) = {}
      <4> SUFFICES ASSUME NEW ij \in Pairs({k}, n) PROVE FALSE
        OBVIOUS
      <4>1. ij[1] = k /\ ij[2] \in Divisor /\ n = k + ij[2]
        BY DEF Pairs
      <4>2. k \in Nat /\ ij[2] \in Nat
        <5>1. k \in Nat /\ \A i \in Divisor : i \in Nat
          BY WidthFacts
        <5> QED
          BY <4>1, <5>1
      <4>3. n = ij[2] + k
        BY <4>1, <4>2
      <4> QED
        BY <2>2, <4>1, <4>3 DEF Up
    <3>2. Cardinality(Pairs({k}, n)) = 0
      BY <3>1, FS_EmptySet
    <3> QED
      BY <2>2, <3>2, ProductMember
  <2> QED
    BY <2>1, <2>2
<1>3. Product({k}, Divisor) = Up(k, Divisor)
  BY <1>2
<1> QED
  BY <1>1, <1>3 DEF Multiples

\* The highest term and the lowest of a polynomial.
LEMMA HighestTerm ==
    ASSUME NEW w \in Nat, NEW q \in SUBSET (0 .. w), q # {}
    PROVE  \E m \in q : \A i \in q : i <= m
<1> DEFINE Above(m) == {i \in q : i > m}
           Family == {Above(m) : m \in q}
<1>1. IsFiniteSet(0 .. w)
  BY FS_Interval
<1>2. Family \subseteq SUBSET (0 .. w) /\ Family # {}
  OBVIOUS
<1>3. IsWellFoundedOn(StrictSubsetOrdering(0 .. w), SUBSET (0 .. w))
  BY <1>1, FS_StrictSubsetOrderingWellFounded, FS_FiniteSubsetsOfFinite
<1>4. PICK least \in Family :
         \A other \in Family : <<other, least>> \notin StrictSubsetOrdering(0 .. w)
  BY <1>2, <1>3, WFMin
<1>5. PICK m \in q : least = Above(m)
  BY <1>4
<1>6. ASSUME NEW i \in q, ~(i <= m) PROVE FALSE
  <2>1. \A k \in q : k \in Nat
    OBVIOUS
  <2>2. Above(i) \subseteq Above(m) /\ i \in Above(m) /\ i \notin Above(i)
    <3>1. i > m /\ \A k \in q : k > i => k > m
      BY <1>6, <2>1
    <3>2. ~(i > i)
      BY <2>1
    <3> QED
      BY <3>1, <3>2
  <2>3. Above(i) \in Family /\ Above(i) # Above(m)
    BY <2>2
  <2>4. <<Above(i), Above(m)>> \in (SUBSET (0 .. w)) \X (SUBSET (0 .. w))
    OBVIOUS
  <2>5. <<Above(i), Above(m)>> \in StrictSubsetOrdering(0 .. w)
    BY <2>2, <2>3, <2>4 DEF StrictSubsetOrdering
  <2> QED
    BY <1>4, <1>5, <2>3, <2>5
<1> QED
  BY <1>6

LEMMA LowestTerm ==
    ASSUME NEW w \in Nat, NEW q \in SUBSET (0 .. w), q # {}
    PROVE  \E m \in q : \A i \in q : m <= i
<1>1. PICK mirror : mirror = {w - i : i \in q}
  OBVIOUS
<1>2. mirror \in SUBSET (0 .. w) /\ mirror # {}
  <2>1. \A i \in 0 .. w : w - i \in 0 .. w
    OBVIOUS
  <2> QED
    BY <1>1, <2>1
<1>3. PICK m \in mirror : \A i \in mirror : i <= m
  BY <1>2, HighestTerm
<1>4. PICK n \in q : m = w - n
  BY <1>1, <1>3
<1>5. ASSUME NEW i \in q PROVE n <= i
  <2>1. w - i \in mirror
    BY <1>1
  <2>2. w - i <= w - n
    BY <1>3, <1>4, <2>1
  <2> QED
    BY <2>2
<1> QED
  BY <1>5

\* No multiple but zero is shorter than the divisor, so remainders are unique.
LEMMA ShortMultiple ==
    ASSUME NEW p \in Multiples, p \subseteq CrcBits
    PROVE  p = {}
<1>1. PICK q \in SUBSET CrcBits : p = Product(q, Divisor)
  BY DEF Multiples
<1>2. CASE q = {}
  BY <1>1, <1>2, EmptyProduct
<1>3. CASE q # {}
  <2>1. PICK m \in q : \A i \in q : i <= m
    <3>1. CrcWidth - 1 \in Nat /\ q \in SUBSET (0 .. CrcWidth - 1)
      BY WidthFacts
    <3> QED
      BY <1>3, <3>1, HighestTerm
  <2>2. \A i \in q : i \in Nat /\ \A j \in Divisor : j \in Nat /\ j <= CrcWidth
    BY WidthFacts
  <2>3. Pairs(q, m + CrcWidth) = {<<m, CrcWidth>>}
    <3>1. <<m, CrcWidth>> \in Pairs(q, m + CrcWidth)
      BY WidthFacts DEF Pairs
    <3>2. ASSUME NEW ij \in Pairs(q, m + CrcWidth) PROVE ij = <<m, CrcWidth>>
      <4>1. /\ ij = <<ij[1], ij[2]>> /\ ij[1] \in q /\ ij[2] \in Divisor
            /\ ij[1] + ij[2] = m + CrcWidth
        BY DEF Pairs
      <4>2. /\ ij[1] \in Nat /\ ij[2] \in Nat /\ ij[1] <= m /\ ij[2] <= CrcWidth
            /\ m \in Nat /\ CrcWidth \in Nat
        BY <2>1, <2>2, <4>1, WidthFacts
      <4>3. ij[1] = m /\ ij[2] = CrcWidth
        BY <4>1, <4>2
      <4> QED
        BY <4>1, <4>3
    <3> QED
      BY <3>1, <3>2
  <2>4. Cardinality(Pairs(q, m + CrcWidth)) = 1
    BY <2>3, FS_Singleton
  <2>5. m + CrcWidth \in 0 .. 3 * CrcWidth /\ m + CrcWidth \notin CrcBits
    BY WidthFacts
  <2>6. m + CrcWidth \in p
    BY <1>1, <2>4, <2>5, ProductMember
  <2> QED
    BY <2>5, <2>6
<1> QED
  BY <1>2, <1>3

\* Any term of i_poly makes every multiple one of two terms at least: the highest
\* and the lowest of its factors meet once each.
LEMMA NoSingleTerm ==
    ASSUME Poly # {}, NEW q \in SUBSET CrcBits, NEW n,
           Product(q, Divisor) = {n}
    PROVE  FALSE
<1>1. \A i \in q : i \in Nat /\ i < CrcWidth
  BY WidthFacts
<1>2. \A j \in Divisor : j \in Nat /\ j <= CrcWidth
  BY WidthFacts
<1>3. q # {}
  BY EmptyProduct
<1>4. PICK m \in q : \A i \in q : i <= m
  <2>1. CrcWidth - 1 \in Nat /\ q \in SUBSET (0 .. CrcWidth - 1)
    BY WidthFacts
  <2> QED
    BY <1>3, <2>1, HighestTerm
<1>5. PICK l \in q : \A i \in q : l <= i
  <2>1. CrcWidth - 1 \in Nat /\ q \in SUBSET (0 .. CrcWidth - 1)
    BY WidthFacts
  <2> QED
    BY <1>3, <2>1, LowestTerm
<1>6. PICK d \in Divisor : \A j \in Divisor : d <= j
  <2>1. CrcWidth \in Nat /\ Divisor \in SUBSET (0 .. CrcWidth) /\ Divisor # {}
    BY WidthFacts
  <2> QED
    BY <2>1, LowestTerm
<1>7. d < CrcWidth
  <2>1. PICK j \in Poly : TRUE
    OBVIOUS
  <2>2. j \in Divisor /\ j < CrcWidth /\ j \in Nat
    BY CrcAssumption DEF Divisor
  <2> QED
    BY <1>2, <1>6, <2>2, WidthFacts
<1>8. ASSUME NEW i \in q, NEW j \in Divisor,
             \A ij \in Pairs(q, i + j) : ij = <<i, j>>
      PROVE  i + j = n
  <2>1. <<i, j>> \in Pairs(q, i + j)
    BY DEF Pairs
  <2>2. Pairs(q, i + j) = {<<i, j>>}
    BY <1>8, <2>1
  <2>3. Cardinality(Pairs(q, i + j)) = 1
    BY <2>2, FS_Singleton
  <2>4. i + j \in 0 .. 3 * CrcWidth
    BY <1>1, <1>2, WidthFacts
  <2>5. i + j \in Product(q, Divisor)
    BY <2>3, <2>4, ProductMember
  <2> QED
    BY <2>5
<1>9. ASSUME NEW s, NEW ij \in Pairs(q, s)
      PROVE  /\ ij = <<ij[1], ij[2]>> /\ ij[1] \in q /\ ij[2] \in Divisor
             /\ ij[1] + ij[2] = s
  BY DEF Pairs
<1>10. m + CrcWidth = n
  <2>1. ASSUME NEW ij \in Pairs(q, m + CrcWidth) PROVE ij = <<m, CrcWidth>>
    <3>1. /\ ij[1] \in Nat /\ ij[2] \in Nat /\ ij[1] <= m /\ ij[2] <= CrcWidth
          /\ ij[1] + ij[2] = m + CrcWidth /\ m \in Nat /\ CrcWidth \in Nat
      BY <1>1, <1>2, <1>4, <1>9, WidthFacts
    <3>2. ij[1] = m /\ ij[2] = CrcWidth
      BY <3>1
    <3> QED
      BY <1>9, <3>2
  <2> QED
    BY <1>8, <2>1, WidthFacts
<1>11. l + d = n
  <2>1. ASSUME NEW ij \in Pairs(q, l + d) PROVE ij = <<l, d>>
    <3>1. /\ ij[1] \in Nat /\ ij[2] \in Nat /\ l <= ij[1] /\ d <= ij[2]
          /\ ij[1] + ij[2] = l + d /\ l \in Nat /\ d \in Nat
      BY <1>1, <1>2, <1>5, <1>6, <1>9
    <3>2. ij[1] = l /\ ij[2] = d
      BY <3>1
    <3> QED
      BY <1>9, <3>2
  <2> QED
    BY <1>8, <2>1
<1>12. l <= m /\ l \in Nat /\ m \in Nat /\ d \in Nat /\ CrcWidth \in Nat
  BY <1>1, <1>2, <1>4, WidthFacts
<1> QED
  BY <1>7, <1>10, <1>11, <1>12
-----------------------------------------------------------------------------
(***************************************************************************)
(* One shift of the register is one step of the long division.             *)
(***************************************************************************)
LEMMA UpMember ==
    ASSUME NEW p, p \subseteq Int, NEW k \in Int, NEW n \in Int
    PROVE  n \in Up(k, p) <=> n - k \in p
<1>1. ASSUME n \in Up(k, p) PROVE n - k \in p
  <2>1. PICK m \in p : n = m + k
    BY <1>1 DEF Up
  <2>2. m \in Int /\ n - k = m
    BY <2>1
  <2> QED
    BY <2>2
<1>2. ASSUME n - k \in p PROVE n \in Up(k, p)
  <2>1. n = (n - k) + k
    OBVIOUS
  <2> QED
    BY <1>2, <2>1 DEF Up
<1> QED
  BY <1>1, <1>2

LEMMA UpInt ==
    ASSUME NEW p, p \subseteq Int, NEW k \in Int
    PROVE  Up(k, p) \subseteq Int
BY DEF Up

\* The remainder r when one more bit comes in.
Feedback(r, bit) == ~(CrcWidth - 1 \in r <=> bit = 1)
NextRemainder(r, bit) ==
    {i \in CrcBits : ~(i - 1 \in r <=> Feedback(r, bit) /\ i \in Poly)}

\* A polynomial of leading powers and the bit that comes next.
WithBit(p, n, bit) == IF bit = 1 THEN p \cup {CrcWidth - 1 - n} ELSE p

\* The divisor is subtracted, at the place reached, exactly if the feedback is
\* set.
LEMMA DivisionStep ==
    ASSUME NEW n \in Nat, n < CrcWidth, NEW bit \in Bit,
           NEW p \in SUBSET (CrcWidth - n .. CrcWidth - 1), NEW r \in SUBSET CrcBits,
           LeavesAfter(p, n, r)
    PROVE  LeavesAfter(WithBit(p, n, bit), n + 1, NextRemainder(r, bit))
<1> DEFINE before == Sum(Up(CrcWidth, p), Up(CrcWidth - n, r))
           after == Sum(Up(CrcWidth, WithBit(p, n, bit)),
                        Up(CrcWidth - (n + 1), NextRemainder(r, bit)))
           place == CrcWidth - (n + 1)
<1>1. CrcWidth \in Nat /\ CrcBits = 0 .. CrcWidth - 1 /\ Poly \subseteq CrcBits
  BY CrcAssumption DEF CrcBits
<1>2. /\ p \subseteq Int /\ r \subseteq Int /\ Divisor \subseteq Int
      /\ WithBit(p, n, bit) \subseteq Int /\ NextRemainder(r, bit) \subseteq Int
      /\ place \in CrcBits /\ place \in Int
  BY <1>1, WidthFacts DEF WithBit, NextRemainder
<1>3. /\ before \subseteq Int /\ after \subseteq Int /\ Up(place, Divisor) \subseteq Int
  <2>1. CrcWidth \in Int /\ CrcWidth - n \in Int
    BY <1>1
  <2>2. /\ Up(CrcWidth, p) \subseteq Int /\ Up(CrcWidth - n, r) \subseteq Int
        /\ Up(CrcWidth, WithBit(p, n, bit)) \subseteq Int
        /\ Up(place, NextRemainder(r, bit)) \subseteq Int /\ Up(place, Divisor) \subseteq Int
    BY <1>2, <2>1, UpInt
  <2> QED
    BY <2>2 DEF Sum
<1>4. ASSUME NEW x \in Int
      PROVE  x \in after <=> x \in IF Feedback(r, bit) THEN Sum(before, Up(place, Divisor))
                                                     ELSE before
  <2> DEFINE y == x - place
  <2>1. /\ x \in Up(CrcWidth, p) <=> y - n - 1 \in p
        /\ x \in Up(CrcWidth, WithBit(p, n, bit)) <=> y - n - 1 \in WithBit(p, n, bit)
        /\ x \in Up(CrcWidth - n, r) <=> y - 1 \in r
        /\ x \in Up(place, NextRemainder(r, bit)) <=> y \in NextRemainder(r, bit)
        /\ x \in Up(place, Divisor) <=> y \in Divisor
    <3>1. /\ x - CrcWidth = y - n - 1 /\ x - (CrcWidth - n) = y - 1
          /\ CrcWidth \in Int /\ CrcWidth - n \in Int
      BY <1>1
    <3> HIDE DEF place
    <3> QED
      BY <1>2, <3>1, UpMember
  <2>2. y \in Int /\ (y = CrcWidth <=> y - n - 1 = CrcWidth - 1 - n)
    BY <1>1
  <2> HIDE DEF y, place
  <2>3. CASE y = CrcWidth
    <3>1. y - n - 1 = CrcWidth - 1 - n /\ y - n - 1 \notin p
      BY <1>1, <2>2, <2>3
    <3>2. y - n - 1 \in WithBit(p, n, bit) <=> bit = 1
      BY <3>1 DEF WithBit
    <3>3. y \notin NextRemainder(r, bit) /\ y \in Divisor /\ y - 1 = CrcWidth - 1
      BY <1>1, <2>3 DEF NextRemainder, Divisor
    <3>4. /\ x \in after <=> bit = 1
          /\ x \in before <=> CrcWidth - 1 \in r
          /\ x \in Sum(before, Up(place, Divisor)) <=> CrcWidth - 1 \notin r
      BY <2>1, <3>1, <3>2, <3>3, SumMember DEF place
    <3> HIDE DEF before, after
    <3> QED
      BY <3>4 DEF Feedback
  <2>4. CASE y # CrcWidth
    <3>1. y - n - 1 \in WithBit(p, n, bit) <=> y - n - 1 \in p
      BY <2>2, <2>4 DEF WithBit
    <3>2. y \in NextRemainder(r, bit) <=>
            ~(y - 1 \in r <=> Feedback(r, bit) /\ y \in Divisor)
      BY <1>1, <2>2, <2>4 DEF NextRemainder, Divisor
    <3>3. /\ x \in after <=> ~(y - n - 1 \in p <=> y \in NextRemainder(r, bit))
          /\ x \in before <=> ~(y - n - 1 \in p <=> y - 1 \in r)
          /\ x \in Sum(before, Up(place, Divisor)) <=> ~(x \in before <=> y \in Divisor)
      BY <2>1, <3>1, SumMember DEF place
    <3> HIDE DEF before, after
    <3> QED
      BY <3>2, <3>3
  <2> QED
    BY <2>3, <2>4
<1>5. after = IF Feedback(r, bit) THEN Sum(before, Up(place, Divisor)) ELSE before
  <2>1. Sum(before, Up(place, Divisor)) \subseteq Int
    BY <1>3 DEF Sum
  <2> HIDE DEF before, after, place
  <2> QED
    BY <1>3, <1>4, <2>1
<1>6. before \in Multiples /\ Up(place, Divisor) \in Multiples
  BY <1>2, MultiplesDivisor DEF LeavesAfter
<1>7. after \in Multiples
  <2> HIDE DEF before, after, place
  <2> QED
    BY <1>5, <1>6, MultiplesSum
<1> QED
  BY <1>7 DEF LeavesAfter

\* crc.sv shifts its register to the next remainder.
LEMMA CrcShiftDivides ==
    ASSUME crc \in [CrcBits -> Bit], NEW bit \in Bit, crc' = CrcShift(bit)
    PROVE  /\ crc' \in [CrcBits -> Bit]
           /\ CrcPoly \in SUBSET CrcBits
           /\ CrcPoly' = NextRemainder(CrcPoly, bit)
<1>1. CrcWidth \in Nat /\ CrcWidth > 1 /\ CrcBits = 0 .. CrcWidth - 1 /\ Poly \subseteq CrcBits
  BY CrcAssumption DEF CrcBits
<1> DEFINE feedback == Xor(crc[CrcWidth - 1], bit)
<1>2. \A i \in CrcBits : crc[i] \in Bit
  OBVIOUS
<1>3. feedback \in Bit /\ (feedback = 1 <=> Feedback(CrcPoly, bit))
  BY <1>1, <1>2 DEF Xor, Feedback, CrcPoly, Bit
<1>4. crc' = [i \in CrcBits |-> Xor(IF i = 0 THEN 0 ELSE crc[i - 1],
                                    IF i \in Poly THEN feedback ELSE 0)]
  BY DEF CrcShift
<1> HIDE DEF feedback
<1>5. ASSUME NEW i \in CrcBits
      PROVE  /\ crc'[i] \in Bit
             /\ crc'[i] = 1 <=> ~(i - 1 \in CrcPoly <=> feedback = 1 /\ i \in Poly)
  <2>1. (IF i = 0 THEN 0 ELSE crc[i - 1]) \in Bit
    BY <1>1, <1>2 DEF Bit
  <2>2. (IF i = 0 THEN 0 ELSE crc[i - 1]) = 1 <=> i - 1 \in CrcPoly
    BY <1>1 DEF CrcPoly
  <2>3. /\ (IF i \in Poly THEN feedback ELSE 0) \in Bit
        /\ (IF i \in Poly THEN feedback ELSE 0) = 1 <=> feedback = 1 /\ i \in Poly
    BY <1>3 DEF Bit
  <2>4. \A a, b \in Bit : Xor(a, b) \in Bit /\ (Xor(a, b) = 1 <=> ~(a = 1 <=> b = 1))
    BY DEF Xor, Bit
  <2>5. crc'[i] = Xor(IF i = 0 THEN 0 ELSE crc[i - 1], IF i \in Poly THEN feedback ELSE 0)
    BY <1>4
  <2> QED
    BY <2>1, <2>2, <2>3, <2>4, <2>5
<1>6. crc' \in [CrcBits -> Bit]
  BY <1>4, <1>5
<1>7. CrcPoly' = {i \in CrcBits : crc'[i] = 1}
  BY DEF CrcPoly
<1>8. CrcPoly' = NextRemainder(CrcPoly, bit)
  BY <1>3, <1>5, <1>7 DEF NextRemainder
<1> QED
  BY <1>6, <1>8 DEF CrcPoly

\* The leading powers of a word grow by the bit that is sent next.
LEMMA LeadingStep ==
    ASSUME SerialType, Width = CrcWidth, NEW word \in Vector, NEW n \in Nat, n < CrcWidth
    PROVE  /\ BitOf(word, n) \in Bit
           /\ Leading(word, n) \in SUBSET (CrcWidth - n .. CrcWidth - 1)
           /\ Leading(word, n + 1) = WithBit(Leading(word, n), n, BitOf(word, n))
<1>1. /\ CrcWidth \in Nat /\ CrcWidth > 1 /\ Width = CrcWidth /\ shape.dir \in {0, 1}
      /\ Bits = 0 .. CrcWidth - 1
  BY ShapeFacts, CrcAssumption DEF Bits
<1>2. BitOf(word, n) \in Bit
  BY <1>1 DEF BitOf, Vector
<1>3. Leading(word, n) \in SUBSET (CrcWidth - n .. CrcWidth - 1)
  BY DEF Leading
<1>4. ASSUME NEW k
      PROVE  k \in Leading(word, n + 1) <=> k \in WithBit(Leading(word, n), n, BitOf(word, n))
  <2>1. k \in CrcWidth - (n + 1) .. CrcWidth - 1
          <=> k \in CrcWidth - n .. CrcWidth - 1 \/ k = CrcWidth - 1 - n
    BY <1>1
  <2>2. CASE k = CrcWidth - 1 - n
    <3>1. CrcWidth - 1 - k = n
      BY <1>1, <2>2
    <3>2. k \notin CrcWidth - n .. CrcWidth - 1
      BY <1>1, <2>2
    <3> QED
      BY <2>1, <2>2, <3>1, <3>2 DEF Leading, WithBit
  <2>3. CASE k # CrcWidth - 1 - n
    BY <2>1, <2>3 DEF Leading, WithBit
  <2> QED
    BY <2>2, <2>3
<1>5. Leading(word, n + 1) = WithBit(Leading(word, n), n, BitOf(word, n))
  BY <1>4
<1> QED
  BY <1>2, <1>3, <1>5

LEMMA SumWithBit ==
    ASSUME NEW n \in Nat, n < CrcWidth, NEW bit \in Bit, NEW flip \in Bit,
           NEW p \in SUBSET (CrcWidth - n .. CrcWidth - 1),
           NEW errors \in SUBSET (CrcWidth - n .. CrcWidth - 1)
    PROVE  /\ Sum(p, errors) \in SUBSET (CrcWidth - n .. CrcWidth - 1)
           /\ Xor(bit, flip) \in Bit
           /\ Sum(WithBit(p, n, bit), WithBit(errors, n, flip))
                = WithBit(Sum(p, errors), n, Xor(bit, flip))
           /\ WithBit(errors, n, flip) \in SUBSET (CrcWidth - (n + 1) .. CrcWidth - 1)
<1>1. CrcWidth \in Nat /\ CrcWidth - 1 - n \notin CrcWidth - n .. CrcWidth - 1
  BY CrcAssumption
<1>2. Sum(p, errors) \in SUBSET (CrcWidth - n .. CrcWidth - 1)
  BY DEF Sum
<1>3. Xor(bit, flip) \in Bit /\ (Xor(bit, flip) = 1 <=> ~(bit = 1 <=> flip = 1))
  BY DEF Xor, Bit
<1>4. CrcWidth - 1 - n \notin p /\ CrcWidth - 1 - n \notin errors
  BY <1>1
<1>5. ASSUME NEW k
      PROVE  k \in Sum(WithBit(p, n, bit), WithBit(errors, n, flip))
               <=> k \in WithBit(Sum(p, errors), n, Xor(bit, flip))
  <2> DEFINE place == CrcWidth - 1 - n
  <2>1. /\ \A q, b : k \in WithBit(q, n, b) <=> k \in q \/ (b = 1 /\ k = place)
        /\ place \notin p /\ place \notin errors
    BY <1>4 DEF WithBit
  <2> HIDE DEF place
  <2> QED
    BY <1>3, <2>1, SumMember
<1>6. WithBit(errors, n, flip) \in SUBSET (CrcWidth - (n + 1) .. CrcWidth - 1)
  <2>1. /\ CrcWidth - n .. CrcWidth - 1 \subseteq CrcWidth - (n + 1) .. CrcWidth - 1
        /\ CrcWidth - 1 - n \in CrcWidth - (n + 1) .. CrcWidth - 1
    BY <1>1
  <2> QED
    BY <2>1 DEF WithBit
<1> QED
  BY <1>2, <1>3, <1>5, <1>6

\* An inverted bit is one more term of the error polynomial.
LEMMA CountWithBit ==
    ASSUME NEW n \in Nat, n < CrcWidth, NEW flip \in Bit,
           NEW errors \in SUBSET (CrcWidth - n .. CrcWidth - 1)
    PROVE  /\ IsFiniteSet(errors) /\ Cardinality(errors) \in Nat
           /\ Cardinality(WithBit(errors, n, flip)) = Cardinality(errors) + flip
<1>1. /\ CrcWidth \in Nat /\ CrcWidth - n \in Int /\ CrcWidth - 1 \in Int
      /\ CrcWidth - 1 - n \notin CrcWidth - n .. CrcWidth - 1
  BY CrcAssumption
<1>2. IsFiniteSet(CrcWidth - n .. CrcWidth - 1)
  BY <1>1, FS_Interval
<1>3. IsFiniteSet(errors)
  BY <1>2, FS_Subset
<1>4. Cardinality(errors) \in Nat
  BY <1>3, FS_CardinalityType
<1>5. Cardinality(errors \cup {CrcWidth - 1 - n}) = Cardinality(errors) + 1
  BY <1>1, <1>3, FS_AddElement
<1> QED
  BY <1>3, <1>4, <1>5 DEF WithBit, Bit

\* An edge that takes a bit of the first word, inverted or not.
LEMMA DividedStep ==
    ASSUME SerialType, Width = CrcWidth, NEW word \in Vector, NEW n \in Nat, n < CrcWidth,
           NEW flip \in Bit, NEW errors \in SUBSET (CrcWidth - n .. CrcWidth - 1),
           Divided(word, n, errors),
           crc \in [CrcBits -> Bit], crc' = CrcShift(Xor(BitOf(word, n), flip))
    PROVE  /\ crc' \in [CrcBits -> Bit]
           /\ \E r \in SUBSET CrcBits : LeavesAfter(Leading(word, n + 1), n + 1, r)
           /\ LeavesAfter(Sum(Leading(word, n + 1), WithBit(errors, n, flip)), n + 1, CrcPoly')
<1> DEFINE bit == BitOf(word, n)
           p == Leading(word, n)
<1>1. /\ bit \in Bit /\ p \in SUBSET (CrcWidth - n .. CrcWidth - 1)
      /\ Leading(word, n + 1) = WithBit(p, n, bit)
  BY LeadingStep
<1>2. PICK r \in SUBSET CrcBits : LeavesAfter(p, n, r)
  BY DEF Divided
<1>3. LeavesAfter(Sum(p, errors), n, CrcPoly)
  BY DEF Divided
<1> HIDE DEF bit, p
<1>4. LeavesAfter(Leading(word, n + 1), n + 1, NextRemainder(r, bit))
  BY <1>1, <1>2, DivisionStep
<1>5. NextRemainder(r, bit) \in SUBSET CrcBits
  BY DEF NextRemainder
<1>6. /\ Sum(p, errors) \in SUBSET (CrcWidth - n .. CrcWidth - 1)
      /\ Xor(bit, flip) \in Bit
      /\ Sum(WithBit(p, n, bit), WithBit(errors, n, flip))
           = WithBit(Sum(p, errors), n, Xor(bit, flip))
  BY <1>1, SumWithBit
<1>7. /\ crc' \in [CrcBits -> Bit] /\ CrcPoly \in SUBSET CrcBits
      /\ CrcPoly' = NextRemainder(CrcPoly, Xor(bit, flip))
  BY <1>6, CrcShiftDivides DEF bit
<1>8. LeavesAfter(WithBit(Sum(p, errors), n, Xor(bit, flip)), n + 1, CrcPoly')
  BY <1>3, <1>6, <1>7, DivisionStep
<1> QED
  BY <1>1, <1>4, <1>5, <1>6, <1>7, <1>8
-----------------------------------------------------------------------------
(***************************************************************************)
(* What the comparison of the second word with the register decides.       *)
(***************************************************************************)
LEMMA RemainderUnique ==
    ASSUME NEW p, NEW r \in SUBSET CrcBits, Sum(Up(CrcWidth, p), r) \in Multiples
    PROVE  Remainder(p) = r
<1> DEFINE s == Remainder(p)
<1>1. s \in SUBSET CrcBits /\ Sum(Up(CrcWidth, p), s) \in Multiples
  BY DEF Remainder
<1> HIDE DEF s
<1>2. Sum(Sum(Up(CrcWidth, p), r), Sum(Up(CrcWidth, p), s)) = Sum(r, s)
  BY SumCancels
<1>3. Sum(r, s) \in Multiples
  BY <1>1, <1>2, MultiplesSum
<1>4. Sum(r, s) = {}
  <2>1. Sum(r, s) \subseteq CrcBits
    BY <1>1 DEF Sum
  <2> QED
    BY <1>3, <2>1, ShortMultiple
<1>5. r = s
  BY <1>4 DEF Sum
<1> QED
  BY <1>5 DEF s

LEMMA LeavesAtEnd ==
    ASSUME NEW p, NEW r \in SUBSET CrcBits
    PROVE  LeavesAfter(p, CrcWidth, r) <=> Sum(Up(CrcWidth, p), r) \in Multiples
<1>1. CrcWidth - CrcWidth = 0 /\ \A i \in r : i \in Int /\ i + 0 = i
  BY WidthFacts
<1>2. Up(0, r) = r
  BY <1>1 DEF Up
<1> QED
  BY <1>1, <1>2 DEF LeavesAfter

LEMMA UpSum ==
    ASSUME NEW p, p \subseteq Int, NEW q, q \subseteq Int, NEW k \in Int
    PROVE  Up(k, Sum(p, q)) = Sum(Up(k, p), Up(k, q))
<1>1. Sum(p, q) \subseteq Int
  BY DEF Sum
<1>2. /\ Up(k, p) \subseteq Int /\ Up(k, q) \subseteq Int /\ Up(k, Sum(p, q)) \subseteq Int
  BY <1>1, UpInt
<1>3. ASSUME NEW n \in Int
      PROVE  n \in Up(k, Sum(p, q)) <=> n \in Sum(Up(k, p), Up(k, q))
  <2>1. /\ n \in Up(k, Sum(p, q)) <=> n - k \in Sum(p, q)
        /\ n \in Up(k, p) <=> n - k \in p
        /\ n \in Up(k, q) <=> n - k \in q
    BY <1>1, UpMember
  <2>2. /\ n - k \in Sum(p, q) <=> ~(n - k \in p <=> n - k \in q)
        /\ n \in Sum(Up(k, p), Up(k, q)) <=> ~(n \in Up(k, p) <=> n \in Up(k, q))
    BY SumMember
  <2> QED
    BY <2>1, <2>2
<1>4. Sum(Up(k, p), Up(k, q)) \subseteq Int
  BY <1>2 DEF Sum
<1> QED
  BY <1>2, <1>3, <1>4

LEMMA UpCardinality ==
    ASSUME NEW p, p \subseteq Int, IsFiniteSet(p), NEW k \in Int
    PROVE  IsFiniteSet(Up(k, p)) /\ Cardinality(Up(k, p)) = Cardinality(p)
<1> DEFINE move == [n \in p |-> n + k]
<1>1. move \in Injection(p, Up(k, p))
  <2>1. move \in [p -> Up(k, p)]
    BY DEF Up
  <2>2. ASSUME NEW a \in p, NEW b \in p, move[a] = move[b] PROVE a = b
    <3>1. a \in Int /\ b \in Int /\ a + k = b + k
      BY <2>2
    <3> QED
      BY <3>1
  <2> QED
    BY <2>1, <2>2 DEF Injection, IsInjective
<1>2. move \in Surjection(p, Up(k, p))
  BY DEF Surjection, Up
<1>3. ExistsBijection(p, Up(k, p))
  BY <1>1, <1>2 DEF ExistsBijection, Bijection
<1> QED
  BY <1>3, FS_Bijection

\* If the register of a frame with errors e1 in the message and e2 in the check
\* value compares equal, the errors are a multiple of the divisor.
LEMMA UndetectedErrors ==
    ASSUME NEW p \in SUBSET CrcBits, NEW r \in SUBSET CrcBits,
           NEW e1 \in SUBSET CrcBits, NEW e2 \in SUBSET CrcBits,
           Sum(Up(CrcWidth, p), r) \in Multiples,
           Sum(Up(CrcWidth, Sum(p, e1)), Sum(r, e2)) \in Multiples
    PROVE  /\ Sum(Up(CrcWidth, e1), e2) \in Multiples
           /\ Sum(Up(CrcWidth, e1), e2) \in SUBSET (0 .. 2 * CrcWidth - 1)
           /\ Cardinality(Sum(Up(CrcWidth, e1), e2)) = Cardinality(e1) + Cardinality(e2)
<1>1. /\ CrcWidth \in Nat /\ CrcWidth \in Int /\ CrcBits = 0 .. CrcWidth - 1
      /\ p \subseteq Int /\ e1 \subseteq Int
  BY WidthFacts
<1>2. Up(CrcWidth, Sum(p, e1)) = Sum(Up(CrcWidth, p), Up(CrcWidth, e1))
  BY <1>1, UpSum
<1>3. Sum(Sum(Up(CrcWidth, p), r), Sum(Up(CrcWidth, Sum(p, e1)), Sum(r, e2)))
        = Sum(Up(CrcWidth, e1), e2)
  BY <1>2, SumCancels
<1>4. Sum(Up(CrcWidth, e1), e2) \in Multiples
  BY <1>3, MultiplesSum
<1>5. \A n \in Up(CrcWidth, e1) : n \in CrcWidth .. 2 * CrcWidth - 1
  BY <1>1 DEF Up
<1>6. Sum(Up(CrcWidth, e1), e2) = Up(CrcWidth, e1) \cup e2 /\ Up(CrcWidth, e1) \cap e2 = {}
  BY <1>1, <1>5 DEF Sum
<1>7. Up(CrcWidth, e1) \cup e2 \in SUBSET (0 .. 2 * CrcWidth - 1)
  <2>1. /\ CrcWidth .. 2 * CrcWidth - 1 \subseteq 0 .. 2 * CrcWidth - 1
        /\ CrcBits \subseteq 0 .. 2 * CrcWidth - 1
    BY <1>1
  <2> QED
    BY <1>5, <2>1
<1>8. IsFiniteSet(e1) /\ IsFiniteSet(e2)
  <2>1. IsFiniteSet(CrcBits)
    BY WidthFacts, FS_Interval
  <2> QED
    BY <2>1, FS_Subset
<1>9. /\ IsFiniteSet(Up(CrcWidth, e1)) /\ Cardinality(Up(CrcWidth, e1)) = Cardinality(e1)
      /\ Cardinality(e1) \in Nat /\ Cardinality(e2) \in Nat
  <2>1. Cardinality(e1) \in Nat /\ Cardinality(e2) \in Nat
    BY <1>8, FS_CardinalityType
  <2> QED
    BY <1>1, <1>8, <2>1, UpCardinality
<1>10. Cardinality(Up(CrcWidth, e1) \cup e2) = Cardinality(e1) + Cardinality(e2)
  <2>1. Cardinality(Up(CrcWidth, e1) \cap e2) = 0
    BY <1>6, FS_EmptySet
  <2>2. Cardinality(Up(CrcWidth, e1) \cup e2)
          = Cardinality(Up(CrcWidth, e1)) + Cardinality(e2)
              - Cardinality(Up(CrcWidth, e1) \cap e2)
    BY <1>8, <1>9, FS_Union
  <2> QED
    BY <1>9, <2>1, <2>2
<1> QED
  BY <1>4, <1>6, <1>7, <1>10

\* The polynomial of a whole word, and the check value's bits.
LEMMA WholeWord ==
    ASSUME SerialType, Width = CrcWidth, NEW word
    PROVE  /\ \A i \in CrcBits : Place(i) \in CrcBits
           /\ Leading(word, CrcWidth) \in SUBSET CrcBits
           /\ CheckWord(word) = [i \in CrcBits |->
                IF Place(i) \in Remainder(Leading(word, CrcWidth)) THEN 1 ELSE 0]
<1>1. CrcWidth \in Nat /\ CrcBits = 0 .. CrcWidth - 1 /\ shape.dir \in {0, 1}
  BY WidthFacts, ShapeFacts
<1>2. \A i \in CrcBits : Place(i) \in CrcBits
  BY <1>1 DEF Place
<1>3. Leading(word, CrcWidth) \in SUBSET CrcBits
  BY <1>1 DEF Leading
<1>4. {Place(i) : i \in {j \in CrcBits : word[j] = 1}} = Leading(word, CrcWidth)
  <2> DEFINE places == {Place(i) : i \in {j \in CrcBits : word[j] = 1}}
  <2>1. ASSUME NEW k \in places PROVE k \in Leading(word, CrcWidth)
    <3>1. PICK i \in CrcBits : word[i] = 1 /\ k = Place(i)
      OBVIOUS
    <3>2. k \in CrcWidth - CrcWidth .. CrcWidth - 1 /\ BitOf(word, CrcWidth - 1 - k) = word[i]
      BY <1>1, <3>1 DEF Place, BitOf
    <3> QED
      BY <3>1, <3>2 DEF Leading
  <2>2. ASSUME NEW k \in Leading(word, CrcWidth) PROVE k \in places
    <3>1. k \in CrcBits /\ BitOf(word, CrcWidth - 1 - k) = 1
      BY <1>3 DEF Leading
    <3>2. Place(k) \in CrcBits /\ Place(Place(k)) = k /\ BitOf(word, CrcWidth - 1 - k) = word[Place(k)]
      BY <1>1, <3>1 DEF Place, BitOf
    <3> QED
      BY <3>1, <3>2
  <2> QED
    BY <2>1, <2>2
<1> QED
  BY <1>2, <1>3, <1>4 DEF CheckWord

\* The whole second word, by its own bit numbers.
LEMMA SecondWord ==
    ASSUME SerialType, WholeWords, NEW errors, SecondReceived(CrcWidth, errors),
           NEW i \in CrcBits
    PROVE  rxData[i] = Xor(rxWord[i], IF Place(i) \in errors THEN 1 ELSE 0)
<1>1. CrcWidth \in Nat /\ CrcBits = 0 .. CrcWidth - 1 /\ shape.dir \in {0, 1} /\ Width = CrcWidth
  BY WidthFacts, ShapeFacts DEF WholeWords
<1>2. CASE shape.dir = 0
  <2> DEFINE k == CrcWidth - 1 - i
  <2>1. k \in 0 .. CrcWidth - 1 /\ CrcWidth - 1 - k = i
    BY <1>1
  <2>2. rxData[CrcWidth - 1 - k] =
          Xor(BitOf(rxWord, k), IF CrcWidth - 1 - k \in errors THEN 1 ELSE 0)
    BY <1>2, <2>1 DEF SecondReceived
  <2>3. BitOf(rxWord, k) = rxWord[i] /\ Place(i) = i
    BY <1>1, <1>2, <2>1 DEF BitOf, Place
  <2> HIDE DEF k
  <2> QED
    BY <2>1, <2>2, <2>3
<1>3. CASE shape.dir = 1
  <2>1. Width - CrcWidth + i = i /\ i \in 0 .. CrcWidth - 1
    BY <1>1
  <2>2. rxData[Width - CrcWidth + i] =
          Xor(BitOf(rxWord, i), IF CrcWidth - 1 - i \in errors THEN 1 ELSE 0)
    BY <1>3, <2>1 DEF SecondReceived
  <2>3. BitOf(rxWord, i) = rxWord[i] /\ Place(i) = CrcWidth - 1 - i
    BY <1>3 DEF BitOf, Place
  <2> QED
    BY <2>1, <2>2, <2>3
<1> QED
  BY <1>1, <1>2, <1>3

\* With a code that detects them, the comparison is right about every frame.
LEMMA Verdict ==
    ASSUME SerialType, CrcInv, DetectsFlips, SecondDone
    PROVE  /\ flips = 0 => (rxData = OCrc <=> rxWord = CheckWord(message))
           /\ flips > 0 /\ rxWord = CheckWord(message) => rxData # OCrc
<1>1. /\ CrcWidth \in Nat /\ CrcBits = 0 .. CrcWidth - 1 /\ shape.dir \in {0, 1}
      /\ Width = CrcWidth /\ shape.opLen = 0 /\ WholeWords /\ Bits = CrcBits
  BY WidthFacts, ShapeFacts DEF SecondDone, WholeWords, Bits
<1>2. Got = CrcWidth
  <2>1. rxCount = 0 /\ Length(rxFirst) = CrcWidth
    BY <1>1 DEF SecondDone, RxDone, Length
  <2> QED
    BY <1>1, <2>1 DEF Got
<1>3. PICK e1 \in SUBSET CrcBits, e2 \in SUBSET (CrcWidth - Got .. CrcWidth - 1) :
         /\ Divided(message, CrcWidth, e1)
         /\ SecondReceived(Got, e2)
         /\ flips = Cardinality(e1) + Cardinality(e2)
  BY <1>1 DEF CrcInv, SecondInv, SecondDone
<1>4. e2 \in SUBSET CrcBits /\ SecondReceived(CrcWidth, e2)
  <2>1. CrcWidth - Got .. CrcWidth - 1 = CrcBits
    BY <1>1, <1>2
  <2> QED
    BY <1>2, <1>3, <2>1
<1> DEFINE p == Leading(message, CrcWidth)
<1>5. /\ p \in SUBSET CrcBits /\ \A i \in CrcBits : Place(i) \in CrcBits
      /\ CheckWord(message) = [i \in CrcBits |-> IF Place(i) \in Remainder(p) THEN 1 ELSE 0]
  BY <1>1, WholeWord
<1>6. PICK r \in SUBSET CrcBits : LeavesAfter(p, CrcWidth, r)
  BY <1>3 DEF Divided
<1>7. LeavesAfter(Sum(p, e1), CrcWidth, CrcPoly) /\ CrcPoly \in SUBSET CrcBits
  BY <1>3 DEF Divided, CrcPoly
<1> HIDE DEF p
<1>8. Sum(Up(CrcWidth, p), r) \in Multiples /\ Sum(Up(CrcWidth, Sum(p, e1)), CrcPoly) \in Multiples
  BY <1>6, <1>7, LeavesAtEnd
<1>9. Remainder(p) = r
  BY <1>8, RemainderUnique
<1>10. /\ OCrc = [i \in CrcBits |-> crc[Place(i)]]
       /\ \A i \in CrcBits : crc[i] \in Bit /\ (i \in CrcPoly <=> crc[i] = 1)
  <2>1. \A i \in CrcBits : (IF shape.dir = 1 THEN CrcWidth - 1 - i ELSE i) = Place(i)
    BY DEF Place
  <2>2. crc \in [CrcBits -> Bit]
    BY DEF CrcInv
  <2> QED
    BY <2>1, <2>2 DEF OCrc, CrcPoly
<1>11. /\ rxData \in [CrcBits -> Bit] /\ rxWord \in [CrcBits -> Bit]
       /\ \A i \in CrcBits : rxData[i] = Xor(rxWord[i], IF Place(i) \in e2 THEN 1 ELSE 0)
  <2>1. rxData \in [CrcBits -> Bit] /\ rxWord \in [CrcBits -> Bit]
    BY <1>1 DEF SerialType, Vector
  <2> QED
    BY <1>1, <1>4, <2>1, SecondWord
<1>12. IsFiniteSet(e1) /\ IsFiniteSet(e2)
  <2>1. IsFiniteSet(CrcBits)
    BY <1>1, FS_Interval
  <2> QED
    BY <1>4, <2>1, FS_Subset
<1>13. Cardinality(e1) \in Nat /\ Cardinality(e2) \in Nat
  BY <1>12, FS_CardinalityType
<1>14. ASSUME flips = 0
       PROVE  rxData = OCrc <=> rxWord = CheckWord(message)
  <2>1. Cardinality(e1) = 0 /\ Cardinality(e2) = 0
    BY <1>3, <1>13, <1>14
  <2>2. e1 = {} /\ e2 = {}
    BY <1>12, <2>1, FS_EmptySet
  <2>3. Sum(p, e1) = p
    BY <2>2 DEF Sum
  <2>4. Remainder(p) = CrcPoly
    BY <1>7, <1>8, <2>3, RemainderUnique
  <2>5. ASSUME NEW i \in CrcBits
        PROVE  (IF Place(i) \in Remainder(p) THEN 1 ELSE 0) = crc[Place(i)]
    BY <1>5, <1>10, <2>4 DEF Bit
  <2>6. CheckWord(message) = OCrc
    BY <1>5, <1>10, <2>5
  <2>7. ASSUME NEW i \in CrcBits PROVE rxData[i] = rxWord[i]
    <3>1. rxData[i] = Xor(rxWord[i], 0) /\ rxWord[i] \in Bit
      BY <1>11, <2>2
    <3> QED
      BY <3>1 DEF Xor, Bit
  <2>8. rxData = rxWord
    BY <1>11, <2>7
  <2> QED
    BY <2>6, <2>8
<1>15. ASSUME flips > 0, rxWord = CheckWord(message), rxData = OCrc
       PROVE  FALSE
  <2>1. ASSUME NEW i \in CrcBits
        PROVE  Place(i) \in CrcPoly <=> Place(i) \in Sum(r, e2)
    <3>1. rxWord[i] = IF Place(i) \in r THEN 1 ELSE 0
      BY <1>5, <1>9, <1>15
    <3>2. crc[Place(i)] = Xor(rxWord[i], IF Place(i) \in e2 THEN 1 ELSE 0)
      BY <1>10, <1>11, <1>15
    <3>3. crc[Place(i)] = 1 <=> ~(Place(i) \in r <=> Place(i) \in e2)
      BY <3>1, <3>2 DEF Xor
    <3> QED
      BY <1>5, <1>10, <3>3, SumMember
  <2>2. ASSUME NEW k \in CrcBits PROVE k \in CrcPoly <=> k \in Sum(r, e2)
    <3>1. Place(k) \in CrcBits /\ Place(Place(k)) = k
      BY <1>1 DEF Place
    <3> QED
      BY <2>1, <3>1
  <2>3. CrcPoly = Sum(r, e2)
    <3>1. Sum(r, e2) \subseteq CrcBits
      BY <1>4 DEF Sum
    <3> QED
      BY <1>7, <2>2, <3>1
  <2>4. /\ Sum(Up(CrcWidth, e1), e2) \in Multiples
        /\ Sum(Up(CrcWidth, e1), e2) \in SUBSET (0 .. 2 * CrcWidth - 1)
        /\ Cardinality(Sum(Up(CrcWidth, e1), e2)) = flips
    <3>1. p \in SUBSET CrcBits
      BY <1>5
    <3> QED
      BY <1>3, <1>4, <1>8, <2>3, <3>1, UndetectedErrors
  <2>5. flips \in 1 .. MaxFlips
    BY <1>15, SerialAssumption DEF SerialType
  <2> QED
    BY <2>4, <2>5 DEF DetectsFlips
<1> QED
  BY <1>14, <1>15
-----------------------------------------------------------------------------
(***************************************************************************)
(* A clock edge keeps CrcInv.                                              *)
(***************************************************************************)
\* What an edge does to the registers CrcInv is about.
CrcCounts(en, word, flip) ==
    /\ Counts(en, word)
    /\ Bits' = Bits /\ (WholeWords' <=> WholeWords)
    /\ rxReady' = IF rxEn \/ ~txReady \/ rxReady = 2 THEN rxReady ELSE rxReady + 1
    /\ flips' = IF ~rxEn THEN 0 ELSE flips + flip
    /\ second' = (rxEn /\ IF RxDone THEN rxFirst ELSE second)
    /\ message' = IF RxDone /\ rxFirst THEN rxWord ELSE message
    /\ crc' = IF ~rxEn THEN [i \in CrcBits |-> 0]
              ELSE IF InMessage THEN CrcShift(Xor(txOut, flip))
              ELSE crc
    /\ rxFirst \in BOOLEAN /\ txFirst \in BOOLEAN /\ rxEn \in BOOLEAN /\ txReady \in BOOLEAN
    /\ rxReady \in 0 .. 2 /\ flips \in Nat /\ flip \in Bit /\ txOut \in Bit

LEMMA CrcEdgeFacts ==
    ASSUME SerialType, NEW en \in BOOLEAN, NEW word, NEW flip \in Bit,
           Inputs(en, word, flip), Edge(en, word, flip),
           CrcEdge(~rxEn, InMessage, Xor(txOut, flip)),
           message' = IF RxDone /\ rxFirst THEN rxWord ELSE message,
           second' = (rxEn /\ IF RxDone THEN rxFirst ELSE second)
    PROVE  CrcCounts(en, word, flip)
<1>1. Counts(en, word)
  BY EdgeFacts
<1>2. Bits' = Bits /\ (WholeWords' <=> WholeWords)
  BY <1>1 DEF Counts, Bits, WholeWords
<1>3. crc' = IF ~rxEn THEN [i \in CrcBits |-> 0]
             ELSE IF InMessage THEN CrcShift(Xor(txOut, flip)) ELSE crc
  BY DEF CrcEdge
<1>4. /\ rxReady' = IF rxEn \/ ~txReady \/ rxReady = 2 THEN rxReady ELSE rxReady + 1
      /\ flips' = IF ~rxEn THEN 0 ELSE flips + flip
  BY DEF Edge
<1>5. /\ rxFirst \in BOOLEAN /\ txFirst \in BOOLEAN /\ rxEn \in BOOLEAN /\ txReady \in BOOLEAN
      /\ rxReady \in 0 .. 2 /\ flips \in Nat /\ txOut \in Bit
  BY SerialAssumption DEF SerialType
<1> QED
  BY <1>1, <1>2, <1>3, <1>4, <1>5 DEF CrcCounts

\* The edge without en that every burst begins after.
LEMMA CrcCleared ==
    ASSUME SerialType, SerialInv, NEW en \in BOOLEAN, NEW word, NEW flip \in Bit,
           CrcCounts(en, word, flip), ~rxEn, rxReady' > 0, WholeWords
    PROVE  CrcInv'
<1>1. CrcWidth \in Nat /\ Width = CrcWidth /\ shape.opLen = 0
  BY WidthFacts DEF WholeWords
<1>2. crc' = [i \in CrcBits |-> 0] /\ second' = FALSE /\ flips' = 0
  BY DEF CrcCounts
<1>3. crc' \in [CrcBits -> Bit] /\ CrcPoly' = {}
  BY <1>2 DEF CrcPoly, Bit
<1>4. Got' = 0
  <2>1. rxCount' = Width /\ Width' = Width /\ shape' = shape /\ Width \in Nat
    BY <1>1 DEF CrcCounts, Counts
  <2> QED
    BY <1>1, <2>1 DEF Got, Length
<1>5. ASSUME NEW w PROVE Leading(w, 0) = {}
  BY <1>1 DEF Leading
<1>6. Leading(rxWord, Got)' = {}
  <2>1. shape' = shape /\ Width' = Width
    BY DEF CrcCounts, Counts
  <2>2. Leading(rxWord, Got)' = Leading(rxWord', 0)
    BY <1>4, <2>1 DEF Leading, BitOf
  <2> QED
    BY <1>5, <2>2
<1>7. LeavesAfter({}, 0, {}) /\ Sum({}, {}) = {}
  <2>1. \A k : Up(k, {}) = {}
    BY DEF Up
  <2>2. Sum({}, {}) = {}
    BY DEF Sum
  <2> QED
    BY <2>1, <2>2, MultiplesEmpty DEF LeavesAfter
<1>8. Divided(rxWord, Got, {})'
  <2>1. /\ LeavesAfter(Leading(rxWord, Got), Got, {})'
        /\ LeavesAfter(Sum(Leading(rxWord, Got), {}), Got, CrcPoly)'
    BY <1>3, <1>4, <1>6, <1>7 DEF LeavesAfter
  <2> QED
    BY <2>1 DEF Divided
<1>9. Cardinality({}) = 0
  BY FS_EmptySet
<1>10. FirstInv' /\ SecondInv'
  BY <1>2, <1>8, <1>9 DEF FirstInv, SecondInv
<1> QED
  BY <1>2, <1>3, <1>10 DEF CrcInv

\* An edge in the middle of a word.
LEMMA MidWord ==
    ASSUME SerialType, SerialInv, NEW en \in BOOLEAN, NEW word, NEW flip \in Bit,
           CrcCounts(en, word, flip), rxReady > 0, rxEn, ~RxDone, WholeWords
    PROVE  /\ Got \in Nat /\ Got < CrcWidth /\ Got' = Got + 1
           /\ rxWord' = rxWord /\ rxFirst' = rxFirst /\ rxWord \in Vector
           /\ txOut = BitOf(rxWord, Got)
           /\ shape' = shape /\ Width' = Width
<1>1. txReady /\ Linked
  BY LinkCases DEF SerialInv, LinkInv
<1>2. /\ CrcWidth \in Nat /\ Width = CrcWidth /\ shape.opLen = 0
      /\ \A first : Length(first) = CrcWidth
  BY WidthFacts DEF WholeWords, Length
<1>3. /\ txWord = rxWord /\ txFirst = rxFirst /\ txCount = rxCount - 1
      /\ rxCount \in Nat /\ rxCount # 0 /\ rxCount <= CrcWidth
  <2>1. rxCount <= Length(rxFirst)
    BY DEF SerialInv, RxInv
  <2> QED
    BY <1>1, <1>2, <2>1 DEF Linked, RxDone, CrcCounts, Counts
<1>4. /\ rxWord' = rxWord /\ rxFirst' = rxFirst /\ rxWord \in Vector
      /\ rxCount' = rxCount - 1 /\ shape' = shape /\ Width' = Width
  BY <1>3 DEF CrcCounts, Counts, RxDone
<1>5. Got = CrcWidth - rxCount /\ Sent = CrcWidth - (rxCount - 1)
  BY <1>2, <1>3 DEF Got, Sent
<1>6. Got' = CrcWidth - (rxCount - 1)
  <2>1. Length(rxFirst)' = CrcWidth
    BY <1>2, <1>4 DEF Length
  <2> QED
    BY <1>4, <2>1 DEF Got
<1>7. Sent > 0 /\ Sent - 1 = Got
  BY <1>2, <1>3, <1>5
<1>8. txOut = BitOf(txWord, Sent - 1)
  BY <1>1, <1>7 DEF SerialInv, TxInv
<1> QED
  BY <1>2, <1>3, <1>4, <1>5, <1>6, <1>7, <1>8

\* A bit of the first word.
LEMMA CrcFirstBit ==
    ASSUME SerialType, SerialInv, CrcInv, NEW en \in BOOLEAN, NEW word, NEW flip \in Bit,
           CrcCounts(en, word, flip), rxReady > 0, rxEn, ~RxDone, rxFirst, WholeWords
    PROVE  CrcInv'
<1>1. /\ Got \in Nat /\ Got < CrcWidth /\ Got' = Got + 1
      /\ rxWord' = rxWord /\ rxFirst' = rxFirst /\ rxWord \in Vector
      /\ txOut = BitOf(rxWord, Got) /\ shape' = shape /\ Width' = Width
  BY MidWord
<1>2. crc' = CrcShift(Xor(BitOf(rxWord, Got), flip))
  BY <1>1 DEF CrcCounts, InMessage
<1>3. flips' = flips + flip /\ second' = second /\ ~second
  BY DEF CrcCounts, CrcInv, FirstInv
<1>4. PICK errors \in SUBSET (CrcWidth - Got .. CrcWidth - 1) :
         Divided(rxWord, Got, errors) /\ flips = Cardinality(errors)
  BY DEF CrcInv, FirstInv
<1>a. PICK errors2 : errors2 = WithBit(errors, Got, flip)
  OBVIOUS
<1>5. /\ crc' \in [CrcBits -> Bit]
      /\ \E r \in SUBSET CrcBits : LeavesAfter(Leading(rxWord, Got + 1), Got + 1, r)
      /\ LeavesAfter(Sum(Leading(rxWord, Got + 1), errors2), Got + 1, CrcPoly')
  <2>1. crc \in [CrcBits -> Bit] /\ Width = CrcWidth
    BY DEF CrcInv, WholeWords
  <2> QED
    BY <1>1, <1>2, <1>4, <1>a, <2>1, DividedStep
<1>6. errors2 \in SUBSET (CrcWidth - (Got + 1) .. CrcWidth - 1)
  BY <1>1, <1>a, SumWithBit
<1>7. Cardinality(errors2) = flips + flip
  BY <1>1, <1>4, <1>a, CountWithBit
<1>8. Leading(rxWord, Got)' = Leading(rxWord, Got + 1)
  BY <1>1 DEF Leading, BitOf
<1>9. Divided(rxWord, Got, errors2)'
  BY <1>1, <1>5, <1>8 DEF Divided
<1>10. FirstInv' /\ SecondInv'
  <2>1. errors2 \in SUBSET (CrcWidth - Got' .. CrcWidth - 1) /\ flips' = Cardinality(errors2)
    BY <1>1, <1>3, <1>6, <1>7
  <2> QED
    BY <1>3, <1>9, <2>1 DEF FirstInv, SecondInv
<1> QED
  BY <1>3, <1>5, <1>10 DEF CrcInv

\* The first bit of the second word: message and register are held.
LEMMA CrcSecondStart ==
    ASSUME SerialType, SerialInv, CrcInv, RestartFits,
           NEW en \in BOOLEAN, NEW word, NEW flip \in Bit,
           Edge(en, word, flip), CrcCounts(en, word, flip),
           rxReady > 0, rxEn, RxDone, rxFirst, WholeWords
    PROVE  CrcInv'
<1>1. txReady /\ Linked
  BY LinkCases DEF SerialInv, LinkInv
<1>2. /\ CrcWidth \in Nat /\ CrcWidth > 1 /\ CrcBits = 0 .. CrcWidth - 1
      /\ Width = CrcWidth /\ Bits = CrcBits /\ shape.dir \in {0, 1}
      /\ \A first : Length(first) = CrcWidth
  BY WidthFacts, ShapeFacts DEF WholeWords, Length, Bits
<1>3. /\ ~txFirst /\ txCount = CrcWidth - 1 /\ rxCount = 0
      /\ rxWord' = txWord /\ ~rxFirst' /\ rxCount' = CrcWidth - 1
      /\ shape' = shape /\ Width' = Width
  BY <1>1, <1>2 DEF Linked, RxDone, CrcCounts, Counts
<1>4. Got = CrcWidth /\ Sent = 1
  <2>1. Length(rxFirst) = CrcWidth /\ Length(txFirst) = CrcWidth
    BY <1>2
  <2>2. Got = CrcWidth - 0 /\ Sent = CrcWidth - (CrcWidth - 1)
    BY <1>3, <2>1, Zenon DEF Got, Sent
  <2> QED
    BY <1>2, <2>2
<1>5. Got' = 1
  <2>1. Length(rxFirst)' = CrcWidth
    BY <1>2, <1>3 DEF Length
  <2> QED
    BY <1>2, <1>3, <2>1 DEF Got
<1>6. txOut = BitOf(txWord, 0) /\ txOut \in Bit
  <2>1. Sent > 0 /\ Sent - 1 = 0
    BY <1>4
  <2> QED
    BY <1>1, <2>1 DEF SerialInv, TxInv, CrcCounts
<1>7. /\ crc' = crc /\ crc \in [CrcBits -> Bit] /\ second' = TRUE /\ message' = rxWord
      /\ flips' = flips + flip
  BY DEF CrcCounts, InMessage, CrcInv
<1>8. PICK errors \in SUBSET (CrcWidth - Got .. CrcWidth - 1) :
         Divided(rxWord, Got, errors) /\ flips = Cardinality(errors)
  BY DEF CrcInv, FirstInv
<1>9. errors \in SUBSET CrcBits /\ Divided(rxWord, CrcWidth, errors)
  BY <1>2, <1>4, <1>8
<1>10. Divided(message, CrcWidth, errors)'
  <2>1. Leading(message, CrcWidth)' = Leading(rxWord, CrcWidth)
    BY <1>3, <1>7 DEF Leading, BitOf
  <2>2. CrcPoly' = CrcPoly
    BY <1>7 DEF CrcPoly
  <2> QED
    BY <1>9, <2>1, <2>2 DEF Divided
<1>11. PICK errors2 : errors2 = WithBit({}, 0, flip)
  OBVIOUS
<1>12. /\ errors2 \in SUBSET (CrcWidth - 1 .. CrcWidth - 1)
       /\ Cardinality(errors2) = flip
       /\ CrcWidth - 1 \in errors2 <=> flip = 1
  <2>1. {} \in SUBSET (CrcWidth - 0 .. CrcWidth - 1) /\ 0 \in Nat /\ 0 < CrcWidth
    BY <1>2
  <2>2. Cardinality(errors2) = Cardinality({}) + flip
    BY <1>11, <2>1, CountWithBit
  <2>3. errors2 = IF flip = 1 THEN {CrcWidth - 1} ELSE {}
    BY <1>2, <1>11 DEF WithBit
  <2>4. CrcWidth - 1 \in CrcWidth - 1 .. CrcWidth - 1
    BY <1>2
  <2> QED
    BY <2>2, <2>3, <2>4, FS_EmptySet DEF Bit
<1>13. SecondReceived(Got, errors2)'
  <2>1. rxData' = Restart(Xor(txOut, flip))
    BY DEF Edge, Deserializer, Xor
  <2>2. rxData'[IF shape.dir = 0 THEN 0 ELSE CrcWidth - 1] = Xor(txOut, flip)
    <3>1. shape.dir = 1 => CrcWidth = 8
      BY <1>2 DEF RestartFits, SerialType, Width
    <3>2. (IF shape.dir = 0 THEN 0 ELSE CrcWidth - 1) = (IF shape.dir = 0 THEN 0 ELSE 7)
      BY <1>2, <3>1
    <3>3. (IF shape.dir = 0 THEN 0 ELSE CrcWidth - 1) \in Bits
      BY <1>2
    <3> QED
      BY <2>1, <3>2, <3>3 DEF Restart
  <2>3. (IF CrcWidth - 1 \in errors2 THEN 1 ELSE 0) = flip
    BY <1>12 DEF Bit
  <2>4. ASSUME NEW k \in 0 .. Got' - 1
        PROVE  rxData'[IF shape.dir = 0 THEN Got' - 1 - k ELSE Width - Got' + k]
                 = Xor(BitOf(rxWord', k), IF CrcWidth - 1 - k \in errors2 THEN 1 ELSE 0)
    <3>1. /\ k = 0 /\ Got' - 1 - k = 0 /\ Width - Got' + k = CrcWidth - 1
          /\ CrcWidth - 1 - k = CrcWidth - 1
      <4>1. k \in 0 .. 0
        BY <1>5
      <4>2. k = 0
        BY <4>1
      <4> QED
        BY <1>2, <1>3, <1>5, <4>2
    <3> QED
      BY <1>3, <1>6, <2>2, <2>3, <3>1
  <2>5. \A w, k : BitOf(w, k)' = BitOf(w, k)
    BY <1>3 DEF BitOf
  <2> QED
    BY <1>3, <2>4 DEF SecondReceived, BitOf
<1>14. FirstInv' /\ SecondInv'
  <2>1. errors2 \in SUBSET (CrcWidth - Got' .. CrcWidth - 1)
    BY <1>5, <1>12
  <2>2. flips' = Cardinality(errors) + Cardinality(errors2)
    BY <1>7, <1>8, <1>12
  <2> QED
    BY <1>3, <1>9, <1>10, <1>13, <2>1, <2>2 DEF FirstInv, SecondInv
<1> QED
  BY <1>7, <1>14 DEF CrcInv

\* A later bit of the second word.
LEMMA CrcSecondBit ==
    ASSUME SerialType, SerialInv, CrcInv, NEW en \in BOOLEAN, NEW word, NEW flip \in Bit,
           Edge(en, word, flip), CrcCounts(en, word, flip),
           rxReady > 0, rxEn, ~RxDone, second, WholeWords
    PROVE  CrcInv'
<1>1. /\ Got \in Nat /\ Got < CrcWidth /\ Got' = Got + 1
      /\ rxWord' = rxWord /\ rxFirst' = rxFirst /\ rxWord \in Vector
      /\ txOut = BitOf(rxWord, Got) /\ shape' = shape /\ Width' = Width
  BY MidWord
<1>2. /\ CrcWidth \in Nat /\ Width = CrcWidth /\ Bits = 0 .. CrcWidth - 1 /\ shape.dir \in {0, 1}
  BY WidthFacts, ShapeFacts DEF WholeWords, Bits
<1>3. ~rxFirst /\ crc \in [CrcBits -> Bit]
  BY DEF CrcInv, FirstInv
<1>4. crc' = crc /\ second' = TRUE /\ message' = message /\ flips' = flips + flip
  BY <1>3 DEF CrcCounts, InMessage, CrcInv
<1>5. PICK errors \in SUBSET CrcBits, errors2 \in SUBSET (CrcWidth - Got .. CrcWidth - 1) :
         /\ Divided(message, CrcWidth, errors)
         /\ SecondReceived(Got, errors2)
         /\ flips = Cardinality(errors) + Cardinality(errors2)
  BY DEF CrcInv, SecondInv
<1>6. Divided(message, CrcWidth, errors)'
  <2>1. Leading(message, CrcWidth)' = Leading(message, CrcWidth)
    BY <1>1, <1>4 DEF Leading, BitOf
  <2>2. CrcPoly' = CrcPoly
    BY <1>4 DEF CrcPoly
  <2> QED
    BY <1>5, <2>1, <2>2 DEF Divided
<1>7. PICK errors3 : errors3 = WithBit(errors2, Got, flip)
  OBVIOUS
<1>8. /\ errors3 \in SUBSET (CrcWidth - (Got + 1) .. CrcWidth - 1)
      /\ Cardinality(errors3) = Cardinality(errors2) + flip /\ Cardinality(errors2) \in Nat
  BY <1>1, <1>7, SumWithBit, CountWithBit
<1>9. SecondReceived(Got, errors3)'
  <2>1. rxData' = Shift(rxData, Xor(txOut, flip))
    BY DEF Edge, Deserializer, Xor
  <2>2. ASSUME NEW k \in 0 .. Got
        PROVE  rxData'[IF shape.dir = 0 THEN Got - k ELSE Width - (Got + 1) + k]
                 = Xor(BitOf(rxWord, k), IF CrcWidth - 1 - k \in errors3 THEN 1 ELSE 0)
    <3>1. CASE k = Got
      <4>1. CrcWidth - 1 - k \notin errors2 /\ CrcWidth - 1 - k = CrcWidth - 1 - Got
        BY <1>1, <1>2, <3>1
      <4>2. (IF CrcWidth - 1 - k \in errors3 THEN 1 ELSE 0) = flip
        BY <1>7, <4>1 DEF WithBit, Bit
      <4>3. rxData'[IF shape.dir = 0 THEN 0 ELSE Width - 1] = Xor(txOut, flip)
        BY <1>1, <1>2, <2>1 DEF Shift
      <4>4. Got - k = 0 /\ Width - (Got + 1) + k = Width - 1
        BY <1>1, <1>2, <3>1
      <4> QED
        BY <1>1, <3>1, <4>2, <4>3, <4>4
    <3>2. CASE k # Got
      <4>1. k \in 0 .. Got - 1 /\ CrcWidth - 1 - k # CrcWidth - 1 - Got
        BY <1>1, <1>2, <3>2
      <4>2. CrcWidth - 1 - k \in errors3 <=> CrcWidth - 1 - k \in errors2
        BY <1>7, <4>1 DEF WithBit
      <4>3. rxData[IF shape.dir = 0 THEN Got - 1 - k ELSE Width - Got + k]
              = Xor(BitOf(rxWord, k), IF CrcWidth - 1 - k \in errors2 THEN 1 ELSE 0)
        BY <1>5, <4>1 DEF SecondReceived
      <4>4. CASE shape.dir = 0
        <5>1. Got - k \in Bits /\ Got - k # 0 /\ (Got - k) - 1 = Got - 1 - k
          BY <1>1, <1>2, <4>1
        <5>2. rxData'[Got - k] = rxData[(Got - k) - 1]
          BY <2>1, <4>4, <5>1 DEF Shift
        <5> QED
          BY <4>2, <4>3, <4>4, <5>1, <5>2
      <4>5. CASE shape.dir = 1
        <5> DEFINE j == Width - (Got + 1) + k
        <5>1. j \in Bits /\ j # Width - 1 /\ j + 1 = Width - Got + k
          BY <1>1, <1>2, <4>1
        <5> HIDE DEF j
        <5>2. rxData'[j] = rxData[j + 1]
          BY <2>1, <4>5, <5>1 DEF Shift
        <5> QED
          BY <4>2, <4>3, <4>5, <5>1, <5>2 DEF j
      <4> QED
        BY <1>2, <4>4, <4>5
    <3> QED
      BY <3>1, <3>2
  <2>3. Got' - 1 = Got /\ Width - Got' = Width - (Got + 1)
    BY <1>1, <1>2
  <2> QED
    BY <1>1, <2>2, <2>3 DEF SecondReceived, BitOf
<1>10. FirstInv' /\ SecondInv'
  <2>1. errors3 \in SUBSET (CrcWidth - Got' .. CrcWidth - 1)
    BY <1>1, <1>8
  <2>2. Cardinality(errors) \in Nat
    <3>1. IsFiniteSet(CrcBits)
      BY WidthFacts, FS_Interval
    <3>2. IsFiniteSet(errors)
      BY <3>1, FS_Subset
    <3> QED
      BY <3>2, FS_CardinalityType
  <2>3. flips' = Cardinality(errors) + Cardinality(errors3)
    BY <1>4, <1>5, <1>8, <2>2 DEF Bit
  <2>4. ~rxFirst'
    BY <1>1, <1>3
  <2> QED
    BY <1>6, <1>9, <2>1, <2>3, <2>4 DEF FirstInv, SecondInv
<1> QED
  BY <1>3, <1>4, <1>10 DEF CrcInv

\* A later word than the second: nothing is received that CrcInv is about.
LEMMA CrcLaterBit ==
    ASSUME SerialType, SerialInv, CrcInv, NEW en \in BOOLEAN, NEW word, NEW flip \in Bit,
           CrcCounts(en, word, flip), rxReady > 0, rxEn, ~rxFirst, RxDone \/ ~second
    PROVE  CrcInv'
<1>1. txReady /\ Linked
  BY LinkCases DEF SerialInv, LinkInv
<1>2. ~rxFirst'
  <2>1. ~txFirst
    BY <1>1 DEF Linked
  <2> QED
    BY <2>1 DEF CrcCounts, Counts
<1>3. crc' = crc /\ second' = FALSE
  BY DEF CrcCounts, CrcInv, InMessage
<1> QED
  BY <1>2, <1>3 DEF CrcInv, FirstInv, SecondInv

\* Before a burst, or in an instance whose words the crc does not fit.
LEMMA CrcIdleBit ==
    ASSUME CrcInv, NEW en \in BOOLEAN, NEW word, NEW flip \in Bit,
           CrcCounts(en, word, flip), ~(rxReady' > 0 /\ WholeWords)
    PROVE  CrcInv'
<1>1. crc' \in [CrcBits -> Bit]
  <2>1. CrcShift(Xor(txOut, flip)) \in [CrcBits -> Bit]
    <3>1. Xor(txOut, flip) \in Bit
      BY DEF Xor, Bit, CrcCounts
    <3>2. \A a, b \in Bit : Xor(a, b) \in Bit
      BY DEF Xor, Bit
    <3>3. ASSUME NEW b \in Bit PROVE CrcShift(b) \in [CrcBits -> Bit]
      <4>1. CrcWidth - 1 \in CrcBits /\ \A i \in CrcBits : i # 0 => i - 1 \in CrcBits
        BY WidthFacts
      <4>2. crc \in [CrcBits -> Bit] /\ 0 \in Bit
        BY DEF CrcInv, Bit
      <4>3. Xor(crc[CrcWidth - 1], b) \in Bit
        BY <3>2, <4>1, <4>2
      <4>4. ASSUME NEW i \in CrcBits
            PROVE  Xor(IF i = 0 THEN 0 ELSE crc[i - 1],
                       IF i \in Poly THEN Xor(crc[CrcWidth - 1], b) ELSE 0) \in Bit
        <5>1. (IF i = 0 THEN 0 ELSE crc[i - 1]) \in Bit
          BY <4>1, <4>2
        <5>2. (IF i \in Poly THEN Xor(crc[CrcWidth - 1], b) ELSE 0) \in Bit
          BY <4>2, <4>3
        <5> QED
          BY <3>2, <5>1, <5>2
      <4> QED
        BY <4>4 DEF CrcShift
    <3> QED
      BY <3>1, <3>3
  <2>2. [i \in CrcBits |-> 0] \in [CrcBits -> Bit]
    BY DEF Bit
  <2> QED
    BY <2>1, <2>2 DEF CrcCounts, CrcInv
<1>2. second' \in BOOLEAN
  BY DEF CrcCounts, CrcInv
<1>3. ~(rxReady' > 0 /\ WholeWords')
  BY DEF CrcCounts
<1> QED
  BY <1>1, <1>2, <1>3 DEF CrcInv

LEMMA CrcStep ==
    ASSUME SerialType, SerialInv, CrcInv, RestartFits, Tick
    PROVE  CrcInv'
<1>1. PICK en \in BOOLEAN, word \in Words(shape) \cup {txWord}, flip \in Bit :
         /\ Inputs(en, word, flip)
         /\ Edge(en, word, flip)
         /\ CrcEdge(~rxEn, InMessage, Xor(txOut, flip))
         /\ message' = IF RxDone /\ rxFirst THEN rxWord ELSE message
         /\ second' = (rxEn /\ IF RxDone THEN rxFirst ELSE second)
  BY DEF Tick
<1>2. CrcCounts(en, word, flip)
  BY <1>1, CrcEdgeFacts
<1>3. CASE ~(rxReady' > 0 /\ WholeWords)
  BY <1>2, <1>3, CrcIdleBit
<1>4. CASE rxReady' > 0 /\ WholeWords /\ ~rxEn
  BY <1>2, <1>4, CrcCleared
<1>5. CASE rxReady' > 0 /\ WholeWords /\ rxEn
  <2>1. rxReady > 0 /\ WholeWords /\ rxEn
    BY <1>2, <1>5 DEF CrcCounts
  <2>2. CASE RxDone /\ rxFirst
    BY <1>1, <1>2, <2>1, <2>2, CrcSecondStart
  <2>3. CASE ~RxDone /\ rxFirst
    BY <1>2, <2>1, <2>3, CrcFirstBit
  <2>4. CASE ~RxDone /\ ~rxFirst /\ second
    BY <1>1, <1>2, <2>1, <2>4, CrcSecondBit
  <2>5. CASE ~rxFirst /\ (RxDone \/ ~second)
    BY <1>2, <2>1, <2>5, CrcLaterBit
  <2> QED
    BY <2>2, <2>3, <2>4, <2>5
<1> QED
  BY <1>3, <1>4, <1>5

LEMMA CrcStutter ==
    ASSUME CrcInv, UNCHANGED vars
    PROVE  CrcInv'
<1>1. /\ UNCHANGED <<shape, rxData, rxCount, rxReady, rxWord, rxFirst, flips>>
      /\ UNCHANGED <<crc, message, second>>
  BY DEF vars, serialVars, registers, history
<1> QED
  BY <1>1 DEF CrcInv, WholeWords, FirstInv, SecondInv, Divided, SecondReceived,
       LeavesAfter, CrcPoly, Leading, BitOf, Got, Length, Width

LEMMA CrcInitInv == CrcInit => CrcInv
<1> SUFFICES ASSUME CrcInit PROVE CrcInv
  OBVIOUS
<1>1. SerialType /\ rxReady = 0
  BY InitType DEF CrcInit, Init
<1>2. txOut \in Bit
  BY <1>1 DEF SerialType
<1>3. crc \in [CrcBits -> Bit] /\ second = FALSE
  BY <1>2 DEF CrcInit
<1>4. ~(rxReady > 0)
  BY <1>1
<1> QED
  BY <1>3, <1>4, Zenon DEF CrcInv

\* The crc and the comparator are bystanders: the serial path below them behaves
\* as it does alone, so what holds of it holds here.
LEMMA CrcOverSerial == CrcSpec => Spec
<1>1. CrcInit => Init
  BY DEF CrcInit
<1>2. [Tick]_vars => [Next]_serialVars
  BY DEF Tick, Next, vars
<1> QED
  BY <1>1, <1>2, PTL DEF CrcSpec, Spec

\* At every bit the crc register is what division by i_poly leaves of the first
\* word as received, and received differs from sent in as many bits as the wire
\* has inverted.
THEOREM CrcInvariant ==
    ASSUME RestartFits
    PROVE  CrcSpec => []CrcInv
<1>1. SerialType /\ SerialInv /\ CrcInv /\ [Tick]_vars => CrcInv'
  BY CrcStep, CrcStutter
<1> QED
  BY <1>1, CrcInitInv, CrcOverSerial, TypeCorrect, EndsAgree, PTL DEF CrcSpec

\* The comparator accepts a frame if and only if its second word is the check
\* value of its first, and none in which the wire inverted one to MaxFlips bits:
\* for every width, bit order, message, burst and placement of the errors, given
\* that the code of i_poly detects so many.
THEOREM FramesJudged ==
    ASSUME DetectsFlips, RestartFits
    PROVE  CrcSpec => CrcVerdict
<1>1. ASSUME SerialType, CrcInv, Tick, SecondDone
      PROVE  /\ flips = 0 => (oEq' <=> rxWord = CheckWord(message))
             /\ flips > 0 /\ rxWord = CheckWord(message) => ~oEq'
  <2>1. oEq' = (rxData = OCrc)
    BY <1>1 DEF Tick
  <2> QED
    BY <1>1, <2>1, Verdict
<1>2. SerialType /\ CrcInv /\ [Tick]_vars =>
         [SecondDone =>
            /\ flips = 0 => (oEq' <=> rxWord = CheckWord(message))
            /\ flips > 0 /\ rxWord = CheckWord(message) => ~oEq']_vars
  BY <1>1
<1> QED
  BY <1>2, CrcInvariant, CrcOverSerial, TypeCorrect, PTL DEF CrcSpec, CrcVerdict

\* For one inverted bit nothing need be asked of the code: any i_poly but 0
\* detects it.
THEOREM SingleErrorsRejected ==
    ASSUME MaxFlips <= 1, Poly # {}, RestartFits
    PROVE  CrcSpec => CrcVerdict
<1>1. ASSUME NEW errors \in SUBSET (0 .. 2 * CrcWidth - 1),
             Cardinality(errors) \in 1 .. MaxFlips, errors \in Multiples
      PROVE  FALSE
  <2>1. Cardinality(errors) = 1
    BY <1>1, SerialAssumption
  <2>2. IsFiniteSet(errors)
    <3>1. IsFiniteSet(0 .. 2 * CrcWidth - 1)
      BY WidthFacts, FS_Interval
    <3> QED
      BY <3>1, FS_Subset
  <2>3. PICK n : errors = {n}
    BY <2>1, <2>2, FS_Singleton
  <2>4. PICK q \in SUBSET CrcBits : errors = Product(q, Divisor)
    BY <1>1 DEF Multiples
  <2> QED
    BY <2>3, <2>4, NoSingleTerm
<1>2. DetectsFlips
  BY <1>1 DEF DetectsFlips
<1> QED
  BY <1>2, FramesJudged
=============================================================================
