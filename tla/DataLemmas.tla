----------------------------- MODULE DataLemmas -----------------------------
(***************************************************************************)
(* Facts about the operators on numbers, sequences and finite sets that    *)
(* the models are written with; the proofs of the components cite them.    *)
(***************************************************************************)
EXTENDS Integers, Sequences, FiniteSets, FiniteSetsExt, SequencesExt,
        Functions, SequenceTheorems, FiniteSetTheorems, TLAPS

-----------------------------------------------------------------------------
(* Numbers *)

\* Natural numbers are well ordered: 0..k is a minimal set among the 0..j.
LEMMA LeastExists ==
  ASSUME NEW S \in SUBSET Nat, S # {}
  PROVE  \E m \in S : \A k \in S : m <= k
<1>1. PICK n \in S : TRUE
  OBVIOUS
<1> DEFINE U == 0..n
           T == {0..k : k \in S \cap U}
<1>2. IsFiniteSet(U)
  BY FS_Interval
<1>3. IsWellFoundedOn(StrictSubsetOrdering(U), SUBSET U)
  BY <1>2, FS_StrictSubsetOrderingWellFounded, FS_FiniteSubsetsOfFinite
<1>4. T \subseteq SUBSET U /\ T # {}
  OBVIOUS
<1>5. PICK t \in T : \A s \in T : <<s, t>> \notin StrictSubsetOrdering(U)
  BY <1>3, <1>4, WFMin
<1>6. PICK m \in S \cap U : t = 0..m
  BY <1>5
<1>7. ASSUME NEW k \in S, k < m PROVE FALSE
  <2>1. 0..k \in T /\ 0..k \subseteq 0..m /\ m \notin 0..k /\ m \in 0..m
    BY <1>6, <1>7
  <2> QED BY <1>4, <1>5, <1>6, <2>1 DEF StrictSubsetOrdering
<1> QED BY <1>6, <1>7

\* So FiniteSetsExt's Min is a minimum.
LEMMA MinProperties ==
  ASSUME NEW S \in SUBSET Nat, S # {}
  PROVE  Min(S) \in S /\ \A k \in S : Min(S) <= k
BY LeastExists DEF Min

\* The smaller of two numbers.
LEMMA MinOfTwo ==
  ASSUME NEW a \in Int, NEW b \in Int
  PROVE  Min({a, b}) = IF a <= b THEN a ELSE b
<1> DEFINE m == IF a <= b THEN a ELSE b
<1>1. m \in {a, b} /\ \A y \in {a, b} : m <= y
  OBVIOUS
<1>2. \A x \in {a, b} : (\A y \in {a, b} : x <= y) => x = m
  OBVIOUS
<1> QED BY <1>1, <1>2 DEF Min

\* What holds of 0 and passes from each number to the next holds up to any bound.
LEMMA UpTo ==
  ASSUME NEW S, NEW n \in Nat, 0 \in S,
         \A k \in 0..(n - 1) : k \in S => k + 1 \in S
  PROVE  \A k \in 0..n : k \in S
<1> DEFINE T == {k \in 0..n : k \notin S}
<1>1. SUFFICES ASSUME T # {} PROVE FALSE
  OBVIOUS
<1>2. PICK m \in T : \A k \in T : m <= k
  <2>1. T \in SUBSET Nat
    OBVIOUS
  <2> HIDE DEF T
  <2> QED BY <1>1, <2>1, LeastExists
<1>3. m # 0 /\ m - 1 \in 0..(n - 1)
  BY <1>2
<1>4. m - 1 \in S
  BY <1>2, <1>3
<1> QED BY <1>2, <1>3, <1>4

\* A finite set of integers has a least and a greatest element.
LEMMA ExtremesExist ==
  ASSUME NEW S \in SUBSET Int, IsFiniteSet(S), S # {}
  PROVE  /\ \E m \in S : \A k \in S : m <= k
         /\ \E m \in S : \A k \in S : k <= m
<1>1. PICK n \in Nat : ExistsSurjection(1..n, S)
  BY FS_NatSurjection
<1>2. PICK f \in Surjection(1..n, S) : TRUE
  BY <1>1 DEF ExistsSurjection
<1>3. /\ f \in [1..n -> S] /\ \A x \in S : \E i \in 1..n : f[i] = x
      /\ \A i \in 1..n : f[i] \in S /\ f[i] \in Int
  BY <1>2 DEF Surjection
<1> DEFINE Low(k) == \E m \in S : \A i \in 1..k : m <= f[i]
           High(k) == \E m \in S : \A i \in 1..k : f[i] <= m
           L == {k \in 0..n : Low(k)}
           G == {k \in 0..n : High(k)}
<1>4. Low(0) /\ High(0)
  <2>1. PICK x \in S : TRUE
    OBVIOUS
  <2> QED BY <2>1
<1>5. ASSUME NEW k \in 0..(n - 1), Low(k) PROVE Low(k + 1)
  <2>1. PICK m \in S : \A i \in 1..k : m <= f[i]
    BY <1>5
  <2>2. /\ f[k + 1] \in S /\ f[k + 1] \in Int /\ m \in Int
        /\ \A i \in 1..(k + 1) : (i \in 1..k \/ i = k + 1) /\ f[i] \in Int
    BY <1>3
  <2>3. CASE m <= f[k + 1]
    BY <2>1, <2>2, <2>3
  <2>4. CASE f[k + 1] < m
    <3>1. ASSUME NEW i \in 1..(k + 1) PROVE f[k + 1] <= f[i]
      <4>1. i \in 1..k => m <= f[i]
        BY <2>1
      <4> QED BY <2>2, <2>4, <4>1
    <3> QED BY <2>2, <3>1
  <2> QED BY <2>2, <2>3, <2>4
<1>6. ASSUME NEW k \in 0..(n - 1), High(k) PROVE High(k + 1)
  <2>1. PICK m \in S : \A i \in 1..k : f[i] <= m
    BY <1>6
  <2>2. /\ f[k + 1] \in S /\ f[k + 1] \in Int /\ m \in Int
        /\ \A i \in 1..(k + 1) : (i \in 1..k \/ i = k + 1) /\ f[i] \in Int
    BY <1>3
  <2>3. CASE f[k + 1] <= m
    BY <2>1, <2>2, <2>3
  <2>4. CASE m < f[k + 1]
    <3>1. ASSUME NEW i \in 1..(k + 1) PROVE f[i] <= f[k + 1]
      <4>1. i \in 1..k => f[i] <= m
        BY <2>1
      <4> QED BY <2>2, <2>4, <4>1
    <3> QED BY <2>2, <3>1
  <2> QED BY <2>2, <2>3, <2>4
<1> HIDE DEF Low, High
<1>7. Low(n) /\ High(n)
  <2>1. /\ 0 \in L /\ \A k \in 0..(n - 1) : k \in L => k + 1 \in L
        /\ 0 \in G /\ \A k \in 0..(n - 1) : k \in G => k + 1 \in G
    BY <1>4, <1>5, <1>6
  <2>2. \A k \in 0..n : k \in L
    <3> HIDE DEF L
    <3> QED BY <2>1, UpTo
  <2>3. \A k \in 0..n : k \in G
    <3> HIDE DEF G
    <3> QED BY <2>1, UpTo
  <2> QED BY <2>2, <2>3
<1> USE DEF Low, High
<1>8. \E m \in S : \A k \in S : m <= k
  BY <1>3, <1>7
<1>9. \E m \in S : \A k \in S : k <= m
  BY <1>3, <1>7
<1> QED BY <1>8, <1>9

\* So Min and Max of such a set are its extremes.
LEMMA ExtremesProperties ==
  ASSUME NEW S \in SUBSET Int, IsFiniteSet(S), S # {}
  PROVE  /\ Min(S) \in S /\ \A k \in S : Min(S) <= k
         /\ Max(S) \in S /\ \A k \in S : k <= Max(S)
<1>1. \E m \in S : \A k \in S : m <= k
  BY ExtremesExist
<1>2. \E m \in S : \A k \in S : m >= k
  BY ExtremesExist
<1> QED BY <1>1, <1>2 DEF Min, Max

\* Where the next number is no multiple, its remainder is one more.
LEMMA NextRemainder ==
  ASSUME NEW c \in Nat \ {0}, NEW t \in Nat, (t + 1) % c # 0
  PROVE  (t + 1) % c = (t % c) + 1
<1> DEFINE q == t \div c
           r == t % c
           q2 == (t + 1) \div c
           r2 == (t + 1) % c
<1>1. /\ t = c * q + r /\ q \in Int /\ r \in 0..(c - 1)
      /\ t + 1 = c * q2 + r2 /\ q2 \in Int /\ r2 \in 1..(c - 1)
  OBVIOUS
<1> HIDE DEF q, r, q2, r2
<1>2. ASSUME NEW d \in Int, c * d \in 1..(c - 1) PROVE FALSE
  <2>1. CASE d <= 0
    BY <2>1, <1>2
  <2>2. CASE d >= 1
    BY <2>2, <1>2
  <2> QED BY <2>1, <2>2
<1>3. c * (q2 - q) = r + 1 - r2 /\ q2 - q \in Int /\ r + 1 - r2 \in (2 - c)..(c - 1)
  BY <1>1
<1>4. r + 1 - r2 <= 0
  BY <1>1, <1>2, <1>3
<1>5. c * (q - q2) = r2 - r - 1 /\ q - q2 \in Int /\ r2 - r - 1 \in 0..(c - 2)
  <2>1. c * (q - q2) = 0 - c * (q2 - q)
    BY <1>1
  <2> QED BY <1>1, <1>3, <1>4, <2>1
<1>6. r2 - r - 1 = 0
  BY <1>1, <1>2, <1>5
<1> QED BY <1>1, <1>6 DEF r, r2

-----------------------------------------------------------------------------
(* Sequences *)

\* Taking one element out of a sequence leaves the others in their order.
LEMMA RemoveAtProperties ==
  ASSUME NEW S, NEW s \in Seq(S), NEW n \in 1..Len(s)
  PROVE  /\ RemoveAt(s, n) \in Seq(S)
         /\ Len(RemoveAt(s, n)) = Len(s) - 1
         /\ \A i \in 1..(Len(s) - 1) : RemoveAt(s, n)[i] = IF i < n THEN s[i] ELSE s[i + 1]
<1> DEFINE a == SubSeq(s, 1, n - 1)
           b == SubSeq(s, n + 1, Len(s))
<1>1. Len(s) \in Nat /\ \A i \in 1..Len(s) : s[i] \in S
  OBVIOUS
<1>2. a \in Seq(S) /\ Len(a) = n - 1 /\ \A i \in 1..(n - 1) : a[i] = s[i]
  BY <1>1, SubSeqProperties
<1>3. b \in Seq(S) /\ Len(b) = Len(s) - n /\ \A i \in 1..(Len(s) - n) : b[i] = s[n + i]
  <2>1. n + 1 \in Int /\ Len(s) \in Int /\ \A i \in (n + 1)..Len(s) : s[i] \in S
    BY <1>1
  <2>2. /\ b \in Seq(S)
        /\ Len(b) = IF n + 1 <= Len(s) THEN Len(s) - (n + 1) + 1 ELSE 0
        /\ \A i \in 1..(Len(s) - (n + 1) + 1) : b[i] = s[n + 1 + i - 1]
    BY <2>1, SubSeqProperties
  <2> HIDE DEF b
  <2> QED BY <1>1, <2>2
<1>4. RemoveAt(s, n) = a \o b
  BY DEF RemoveAt
<1> HIDE DEF a, b
<1>5. /\ a \o b \in Seq(S) /\ Len(a \o b) = Len(a) + Len(b)
      /\ \A i \in 1..(Len(a) + Len(b)) :
           (a \o b)[i] = IF i <= Len(a) THEN a[i] ELSE b[i - Len(a)]
  BY <1>2, <1>3, ConcatProperties
<1> QED BY <1>1, <1>2, <1>3, <1>4, <1>5

\* What is left of a sequence without its first n elements.
LEMMA SuffixProperties ==
  ASSUME NEW S, NEW s \in Seq(S), NEW n \in Nat, n <= Len(s)
  PROVE  /\ SubSeq(s, n + 1, Len(s)) \in Seq(S)
         /\ Len(SubSeq(s, n + 1, Len(s))) = Len(s) - n
         /\ \A i \in 1..(Len(s) - n) : SubSeq(s, n + 1, Len(s))[i] = s[n + i]
<1> DEFINE b == SubSeq(s, n + 1, Len(s))
<1>1. n + 1 \in Int /\ Len(s) \in Nat /\ \A i \in (n + 1)..Len(s) : s[i] \in S
  OBVIOUS
<1>2. /\ b \in Seq(S)
      /\ Len(b) = IF n + 1 <= Len(s) THEN Len(s) - (n + 1) + 1 ELSE 0
      /\ \A i \in 1..(Len(s) - (n + 1) + 1) : b[i] = s[n + 1 + i - 1]
  BY <1>1, SubSeqProperties
<1> HIDE DEF b
<1>3. b \in Seq(S) /\ Len(b) = Len(s) - n /\ \A i \in 1..(Len(s) - n) : b[i] = s[n + i]
  BY <1>1, <1>2
<1> QED BY <1>3 DEF b

\* One or two elements are a sequence.
LEMMA ShortSeq ==
  ASSUME NEW S, NEW x \in S, NEW y \in S
  PROVE  /\ <<x>> \in Seq(S) /\ Len(<<x>>) = 1 /\ <<x>>[1] = x
         /\ <<x, y>> \in Seq(S) /\ Len(<<x, y>>) = 2 /\ <<x, y>>[1] = x /\ <<x, y>>[2] = y
OBVIOUS

\* A function on 1..n is a sequence.
LEMMA FunctionSeq ==
  ASSUME NEW S, NEW n \in Nat, NEW f \in [1..n -> S]
  PROVE  f \in Seq(S) /\ Len(f) = n /\ DOMAIN f = 1..n
OBVIOUS

\* The elements of two sequences put together.
LEMMA ConcatAt ==
  ASSUME NEW S, NEW a \in Seq(S), NEW b \in Seq(S)
  PROVE  /\ a \o b \in Seq(S) /\ Len(a \o b) = Len(a) + Len(b)
         /\ DOMAIN (a \o b) = 1..(Len(a) + Len(b))
         /\ \A i \in 1..Len(a) : (a \o b)[i] = a[i]
         /\ \A i \in 1..Len(b) : (a \o b)[Len(a) + i] = b[i]
<1> DEFINE m == Len(a)
           n == Len(b)
<1>1. m \in Nat /\ n \in Nat
  OBVIOUS
<1> DEFINE s == a \o b
<1>2. /\ s \in Seq(S) /\ Len(s) = m + n
      /\ \A i \in 1..(m + n) : s[i] = IF i <= m THEN a[i] ELSE b[i - m]
  BY ConcatProperties
<1> HIDE DEF s, m, n
<1>3. DOMAIN s = 1..(m + n)
  BY <1>1, <1>2
<1>4. \A i \in 1..m : s[i] = a[i]
  BY <1>1, <1>2
<1>5. ASSUME NEW i \in 1..n PROVE s[m + i] = b[i]
  <2>1. m + i \in 1..(m + n) /\ ~(m + i <= m) /\ (m + i) - m = i
    BY <1>1
  <2> DEFINE j == m + i
  <2>2. s[j] = b[j - m]
    <3>1. j \in 1..(m + n) /\ ~(j <= m)
      BY <2>1
    <3> HIDE DEF j
    <3> QED BY <1>2, <3>1
  <2> QED BY <2>1, <2>2
<1> QED BY <1>2, <1>3, <1>4, <1>5 DEF s, m, n

\* Short sequences put together.
LEMMA PairUp ==
  ASSUME NEW x, NEW y
  PROVE  <<x>> \o <<y>> = <<x, y>>
<1> DEFINE s == <<x>> \o <<y>>
<1>1. /\ <<x>> \in Seq({x, y}) /\ <<y>> \in Seq({x, y})
      /\ Len(<<x>>) = 1 /\ Len(<<y>>) = 1
  OBVIOUS
<1>2. s \in Seq({x, y}) /\ Len(s) = 2 /\ s[1] = x /\ s[2] = y
  BY <1>1, ConcatProperties
<1> HIDE DEF s
<1>3. s = <<x, y>>
  BY <1>2
<1> QED BY <1>3 DEF s

\* Two pairs are four.
LEMMA PairsUp ==
  ASSUME NEW x, NEW y, NEW z, NEW w
  PROVE  <<x, y>> \o <<z, w>> = <<x, y, z, w>>
<1> DEFINE s == <<x, y>> \o <<z, w>>
           S == {x, y, z, w}
<1>1. /\ <<x, y>> \in Seq(S) /\ <<z, w>> \in Seq(S)
      /\ Len(<<x, y>>) = 2 /\ Len(<<z, w>>) = 2
  OBVIOUS
<1>2. s \in Seq(S) /\ Len(s) = 4 /\ s[1] = x /\ s[2] = y /\ s[3] = z /\ s[4] = w
  BY <1>1, ConcatProperties
<1> HIDE DEF s, S
<1>3. s = <<x, y, z, w>>
  BY <1>2
<1> QED BY <1>3 DEF s

\* The concatenation of a sequence of sequences is built piece by piece.
LEMMA FlattenSteps ==
  ASSUME NEW S, NEW s \in Seq(Seq(S)), s # <<>>
  PROVE  \E f \in [1..Len(s) -> Seq(S)] :
           /\ FlattenSeq(s) = f[Len(s)]
           /\ f[1] = s[1]
           /\ \A i \in 2..Len(s) : f[i] = f[i - 1] \o s[i]
<1> DEFINE n == Len(s)
           Piece(g, i) == IF i = 1 THEN s[i] ELSE g[i - 1] \o s[i]
           Step(g) == [i \in 1..n |-> Piece(g, i)]
           Built(g, k) == \A i \in 1..k : g[i] = Piece(g, i)
           Start(k) == \E g \in [1..k -> Seq(S)] : Built(g, k)
           K == {k \in 0..n : Start(k)}
           flat == CHOOSE g : g = Step(g)
<1>1. n \in Nat \ {0} /\ \A i \in 1..n : s[i] \in Seq(S)
  OBVIOUS
<1>2. Start(0)
  <2>1. [i \in 1..0 |-> s[i]] \in [1..0 -> Seq(S)] /\ Built([i \in 1..0 |-> s[i]], 0)
    OBVIOUS
  <2> QED BY <2>1
<1>3. ASSUME NEW k \in 0..(n - 1), Start(k) PROVE Start(k + 1)
  <2>1. PICK g \in [1..k -> Seq(S)] : Built(g, k)
    BY <1>3
  <2> DEFINE h == [i \in 1..(k + 1) |->
                     IF i <= k THEN g[i] ELSE IF k = 0 THEN s[1] ELSE g[k] \o s[k + 1]]
  <2>2. h \in [1..(k + 1) -> Seq(S)]
    <3>1. k # 0 => g[k] \in Seq(S) /\ s[k + 1] \in Seq(S) /\ g[k] \o s[k + 1] \in Seq(S)
      BY <1>1, ConcatProperties
    <3> QED BY <1>1, <3>1
  <2>3. Built(h, k + 1)
    <3> SUFFICES ASSUME NEW i \in 1..(k + 1)
                 PROVE  h[i] = Piece(h, i)
      OBVIOUS
    <3>1. CASE i <= k
      <4>1. h[i] = g[i] /\ (i # 1 => i - 1 \in 1..(k + 1) /\ h[i - 1] = g[i - 1])
        BY <3>1
      <4>2. g[i] = Piece(g, i)
        <5> HIDE DEF Piece
        <5> QED BY <2>1, <3>1
      <4> HIDE DEF h
      <4> QED BY <4>1, <4>2
    <3>2. CASE i = k + 1
      <4>1. h[i] = IF k = 0 THEN s[1] ELSE g[k] \o s[k + 1]
        BY <3>2
      <4>2. k # 0 => h[i - 1] = g[k]
        BY <3>2
      <4> HIDE DEF h
      <4> QED BY <3>2, <4>1, <4>2
    <3> QED BY <3>1, <3>2
  <2> QED BY <2>2, <2>3
<1>4. Start(n)
  <2> HIDE DEF Start
  <2>1. 0 \in K /\ \A k \in 0..(n - 1) : k \in K => k + 1 \in K
    BY <1>1, <1>2, <1>3
  <2>2. \A k \in 0..n : k \in K
    <3> HIDE DEF K
    <3> QED BY <1>1, <2>1, UpTo
  <2> QED BY <1>1, <2>2
<1>5. PICK g \in [1..n -> Seq(S)] : Built(g, n)
  BY <1>4
<1>6. g = Step(g)
  BY <1>5
<1>7. flat = Step(flat)
  BY <1>6
<1>8. FlattenSeq(s) = flat[n]
  BY <1>1 DEF FlattenSeq
<1> HIDE DEF flat
<1>9. /\ flat[1] = s[1]
      /\ \A i \in 2..n : flat[i] = flat[i - 1] \o s[i]
      /\ DOMAIN flat = 1..n /\ flat = [i \in 1..n |-> flat[i]]
  <2>1. /\ \A i \in 1..n : flat[i] = Piece(flat, i)
        /\ DOMAIN flat = 1..n /\ flat = [i \in 1..n |-> flat[i]]
    <3> HIDE DEF Piece
    <3> QED BY <1>7
  <2>2. ASSUME NEW i \in 2..n PROVE flat[i] = flat[i - 1] \o s[i]
    <3>1. flat[i] = Piece(flat, i) /\ i # 1
      <4> HIDE DEF Piece
      <4> QED BY <1>1, <2>1
    <3> QED BY <3>1
  <2>3. flat[1] = s[1]
    <3>1. 1 \in 1..n
      BY <1>1
    <3>2. flat[1] = Piece(flat, 1)
      <4> HIDE DEF Piece
      <4> QED BY <2>1, <3>1
    <3> QED BY <3>2
  <2> QED BY <2>1, <2>2, <2>3
<1>10. \A i \in 1..n : flat[i] \in Seq(S)
  <2> DEFINE M == {i \in Nat : i = 0 \/ flat[i] \in Seq(S)}
  <2>1. 0 \in M
    OBVIOUS
  <2>2. ASSUME NEW k \in 0..(n - 1), k \in M PROVE k + 1 \in M
    <3>1. CASE k = 0
      BY <1>1, <1>9, <3>1
    <3>2. CASE k # 0
      <4>1. k + 1 \in 2..n /\ flat[k] \in Seq(S) /\ s[k + 1] \in Seq(S)
        BY <1>1, <2>2, <3>2
      <4> DEFINE more == k + 1
      <4>2. more \in 2..n /\ more - 1 = k /\ flat[more] = flat[more - 1] \o s[more]
        <5>1. more \in 2..n /\ more - 1 = k
          BY <4>1
        <5> HIDE DEF more
        <5> QED BY <1>9, <5>1
      <4>3. flat[k] \o s[k + 1] \in Seq(S)
        BY <4>1, ConcatProperties
      <4>4. flat[more] \in Seq(S) /\ more \in Nat
        <5>1. flat[more] = flat[k] \o s[more]
          BY <4>2
        <5> QED BY <4>3, <5>1
      <4> QED BY <4>4
    <3> QED BY <3>1, <3>2
  <2>3. \A k \in 0..n : k \in M
    <3> HIDE DEF M
    <3> QED BY <1>1, <2>1, <2>2, UpTo
  <2> QED BY <1>1, <2>3
<1> QED BY <1>8, <1>9, <1>10

\* A sequence of the elements of a finite set has each of them.
LEMMA SetToSeqProperties ==
  ASSUME NEW S, IsFiniteSet(S)
  PROVE  /\ SetToSeq(S) \in Seq(S) /\ Len(SetToSeq(S)) = Cardinality(S)
         /\ {SetToSeq(S)[i] : i \in DOMAIN SetToSeq(S)} = S
         /\ \A i, j \in DOMAIN SetToSeq(S) : SetToSeq(S)[i] = SetToSeq(S)[j] => i = j
<1> DEFINE n == Cardinality(S)
           F == {f \in [1..n -> S] : IsInjective(f)}
           s == SetToSeq(S)
<1>1. n \in Nat /\ Bijection(1..n, S) # {}
  BY FS_CardinalityType DEF ExistsBijection
<1>2. PICK g \in Bijection(1..n, S) : TRUE
  BY <1>1
<1>3. g \in [1..n -> S] /\ IsInjective(g)
  BY <1>2 DEF Bijection, Injection, IsInjective
<1>4. s \in [1..n -> S] /\ IsInjective(s)
  BY <1>3 DEF SetToSeq
<1> HIDE DEF s
<1>5. s \in Injection(1..n, S)
  BY <1>4 DEF Injection, IsInjective
<1>6. IsFiniteSet(1..n) /\ Cardinality(1..n) = n
  BY <1>1, FS_Interval
<1>7. s \in Surjection(1..n, S)
  BY <1>5, <1>6, FS_Injection
<1>8. \A t \in S : \E i \in 1..n : s[i] = t
  BY <1>7 DEF Surjection
<1>9. s \in Seq(S) /\ Len(s) = n /\ DOMAIN s = 1..n
  BY <1>1, <1>4
<1>10. {s[i] : i \in DOMAIN s} = S
  BY <1>4, <1>8, <1>9
<1>11. \A i, j \in DOMAIN s : s[i] = s[j] => i = j
  BY <1>4 DEF IsInjective
<1> QED BY <1>9, <1>10, <1>11 DEF s

-----------------------------------------------------------------------------
(* Sums over finite sets *)

\* h gives every subset of S the sum of f over it, taken as the fold takes it: an
\* element at a time, the one CHOOSE picks first.
Summing(h, f, S) ==
  \A T \in SUBSET S : h[T] = IF T = {} THEN 0 ELSE LET x == CHOOSE y \in T : TRUE
                                                   IN  f[x] + h[T \ {x}]

\* There are such sums.
LEMMA SumsExist ==
  ASSUME NEW S, IsFiniteSet(S), NEW f, \A x \in S : f[x] \in Int
  PROVE  \E h \in [SUBSET S -> Int] : Summing(h, f, S)
<1> DEFINE n == Cardinality(S)
           Some(T) == CHOOSE y \in T : TRUE
           Sum(g, T) == IF T = {} THEN 0 ELSE f[Some(T)] + g[T \ {Some(T)}]
           Small(k) == {T \in SUBSET S : Cardinality(T) <= k}
           Start(k) == \E g \in [Small(k) -> Int] : \A T \in Small(k) : g[T] = Sum(g, T)
           K == {k \in 0..n : Start(k)}
<1>1. n \in Nat
  BY FS_CardinalityType
<1>2. \A T \in SUBSET S : IsFiniteSet(T) /\ Cardinality(T) \in 0..n
  BY <1>1, FS_Subset, FS_CardinalityType
<1>3. ASSUME NEW T \in SUBSET S, T # {}
      PROVE  /\ Some(T) \in T /\ T \ {Some(T)} \in SUBSET S
             /\ Cardinality(T \ {Some(T)}) = Cardinality(T) - 1
  <2>1. Some(T) \in T
    BY <1>3
  <2> QED BY <1>2, <2>1, FS_RemoveElement
<1>4. Start(0)
  <2> DEFINE g == [T \in Small(0) |-> 0]
  <2>1. \A T \in Small(0) : T = {}
    BY <1>2, FS_EmptySet
  <2>2. g \in [Small(0) -> Int] /\ \A T \in Small(0) : g[T] = Sum(g, T)
    BY <2>1
  <2> QED BY <2>2
<1>5. ASSUME NEW k \in 0..(n - 1), Start(k) PROVE Start(k + 1)
  <2>1. PICK g \in [Small(k) -> Int] : \A T \in Small(k) : g[T] = Sum(g, T)
    BY <1>5
  <2> DEFINE h == [T \in Small(k + 1) |-> Sum(g, T)]
  <2>2. ASSUME NEW T \in Small(k + 1), T # {}
        PROVE  /\ T \in SUBSET S /\ Some(T) \in S
               /\ T \ {Some(T)} \in Small(k) /\ T \ {Some(T)} \in Small(k + 1)
    <3>1. T \in SUBSET S /\ Cardinality(T) <= k + 1
      OBVIOUS
    <3>2. Some(T) \in T /\ T \ {Some(T)} \in SUBSET S
          /\ Cardinality(T \ {Some(T)}) = Cardinality(T) - 1
      BY <1>3, <2>2, <3>1
    <3>3. Cardinality(T) \in Nat
      BY <1>2, <3>1
    <3> HIDE DEF Some
    <3> QED BY <3>1, <3>2, <3>3
  <2>3. \A T \in Small(k) : T \in Small(k + 1) /\ h[T] = g[T]
    <3>1. \A T \in Small(k) : T \in Small(k + 1)
      BY <1>2
    <3> HIDE DEF Small, Sum
    <3> QED BY <2>1, <3>1
  <2>4. h \in [Small(k + 1) -> Int]
    <3>1. ASSUME NEW T \in Small(k + 1) PROVE Sum(g, T) \in Int
      <4>1. T # {} => Some(T) \in S /\ T \ {Some(T)} \in Small(k)
        BY <2>2
      <4> HIDE DEF Small, Some
      <4> QED BY <2>1, <4>1
    <3> HIDE DEF Small, Sum
    <3> QED BY <3>1
  <2>5. ASSUME NEW T \in Small(k + 1) PROVE h[T] = Sum(h, T)
    <3>1. h[T] = Sum(g, T)
      OBVIOUS
    <3>2. T # {} => h[T \ {Some(T)}] = g[T \ {Some(T)}]
      <4>1. T # {} => T \ {Some(T)} \in Small(k)
        BY <2>2
      <4> HIDE DEF h, Small, Some
      <4> QED BY <2>3, <4>1
    <3> HIDE DEF h, Some, Small
    <3> QED BY <3>1, <3>2
  <2> QED BY <2>4, <2>5
<1>6. Start(n)
  <2> HIDE DEF Start
  <2>1. 0 \in K /\ \A k \in 0..(n - 1) : k \in K => k + 1 \in K
    BY <1>1, <1>4, <1>5
  <2>2. \A k \in 0..n : k \in K
    <3> HIDE DEF K
    <3> QED BY <1>1, <2>1, UpTo
  <2> QED BY <1>1, <2>2
<1>7. Small(n) = SUBSET S
  BY <1>1, <1>2
<1>8. PICK h \in [SUBSET S -> Int] : \A T \in SUBSET S : h[T] = Sum(h, T)
  <2> HIDE DEF Sum, Small, n
  <2> QED BY <1>6, <1>7
<1> QED BY <1>8 DEF Summing

\* A set is summed alike as a subset of any other, for functions that agree on it.
LEMMA SumsAgreeOn ==
  ASSUME NEW S, NEW R, NEW f, NEW g, NEW h, NEW k, Summing(h, f, S), Summing(k, g, R),
         NEW U \in SUBSET (S \cap R), IsFiniteSet(U), \A x \in U : f[x] = g[x]
  PROVE  h[U] = k[U]
<1> DEFINE n == Cardinality(U)
           Agree(c) == \A T \in SUBSET U : Cardinality(T) = c => h[T] = k[T]
           C == {c \in 0..n : Agree(c)}
<1>1. n \in Nat /\ \A T \in SUBSET U : IsFiniteSet(T) /\ Cardinality(T) \in 0..n
  BY FS_Subset, FS_CardinalityType
<1>2. Agree(0)
  BY <1>1, FS_EmptySet DEF Summing
<1>3. ASSUME NEW c \in 0..(n - 1), Agree(c) PROVE Agree(c + 1)
  <2> SUFFICES ASSUME NEW T \in SUBSET U, Cardinality(T) = c + 1
               PROVE  h[T] = k[T]
    OBVIOUS
  <2> DEFINE x == CHOOSE y \in T : TRUE
             D == T \ {x}
  <2>1. IsFiniteSet(T) /\ T # {}
    BY <1>1, FS_EmptySet
  <2>2. x \in T
    BY <2>1
  <2>3. D \in SUBSET U /\ Cardinality(D) = c
    <3>1. T \in SUBSET U /\ Cardinality(T) = c + 1 /\ c \in Nat
      OBVIOUS
    <3> HIDE DEF x
    <3>2. Cardinality(D) = Cardinality(T) - 1
      BY <2>1, <2>2, FS_RemoveElement
    <3> QED BY <3>1, <3>2
  <2>4. h[T] = f[x] + h[D] /\ k[T] = g[x] + k[D]
    BY <2>1 DEF Summing
  <2> HIDE DEF x, D
  <2> QED BY <1>3, <2>2, <2>3, <2>4
<1>4. Agree(n)
  <2> HIDE DEF Agree
  <2>1. 0 \in C /\ \A c \in 0..(n - 1) : c \in C => c + 1 \in C
    BY <1>1, <1>2, <1>3
  <2>2. \A c \in 0..n : c \in C
    <3> HIDE DEF C
    <3> QED BY <1>1, <2>1, UpTo
  <2> QED BY <1>1, <2>2
<1> QED BY <1>4

Splits(h, f, S) == \A y \in S : h[S] = f[y] + h[S \ {y}]

\* Any element may be the first to be added.
LEMMA SumsSplit ==
  ASSUME NEW S, IsFiniteSet(S), NEW f, \A x \in S : f[x] \in Int,
         NEW h, h \in [SUBSET S -> Int], Summing(h, f, S)
  PROVE  Splits(h, f, S)
<1> DEFINE n == Cardinality(S)
           Split(c) == \A T \in SUBSET S : Cardinality(T) = c =>
                         \A z \in T : h[T] = f[z] + h[T \ {z}]
           C == {c \in 0..n : Split(c)}
<1>1. n \in Nat /\ \A T \in SUBSET S : IsFiniteSet(T) /\ Cardinality(T) \in 0..n
  BY FS_Subset, FS_CardinalityType
<1>2. Split(0)
  BY <1>1, FS_EmptySet
<1>3. ASSUME NEW c \in 0..(n - 1), Split(c) PROVE Split(c + 1)
  <2> SUFFICES ASSUME NEW T \in SUBSET S, Cardinality(T) = c + 1, NEW z \in T
               PROVE  h[T] = f[z] + h[T \ {z}]
    OBVIOUS
  <2> DEFINE x == CHOOSE v \in T : TRUE
             D == T \ {x}
             B == T \ {z}
             Both == D \ {z}
  <2>1. IsFiniteSet(T) /\ x \in T
    BY <1>1
  <2>2. h[T] = f[x] + h[D]
    BY DEF Summing
  <2>3. CASE x = z
    BY <2>2, <2>3
  <2>4. CASE x # z
    <3>1. D \in SUBSET S /\ Cardinality(D) = c /\ z \in D
      BY <1>1, <2>1, <2>4, FS_RemoveElement
    <3>2. B \in SUBSET S /\ Cardinality(B) = c /\ x \in B
      BY <1>1, <2>1, <2>4, FS_RemoveElement
    <3>3. B \ {x} = Both /\ Both \in SUBSET S
      OBVIOUS
    <3>4. h[D] = f[z] + h[Both]
      <4> HIDE DEF D
      <4> QED BY <1>3, <3>1
    <3>5. h[B] = f[x] + h[Both]
      <4> HIDE DEF B, x
      <4>1. h[B] = f[x] + h[B \ {x}]
        BY <1>3, <3>2
      <4> QED BY <3>3, <4>1
    <3>6. h[Both] \in Int /\ f[x] \in Int /\ f[z] \in Int
      <4> HIDE DEF Both, x
      <4> QED BY <2>1, <3>3
    <3> HIDE DEF Both, B, D, x
    <3>7. h[T] = f[z] + h[B]
      BY <2>2, <3>4, <3>5, <3>6
    <3> QED BY <3>7 DEF B
  <2> QED BY <2>3, <2>4
<1>4. Split(n)
  <2> HIDE DEF Split
  <2>1. 0 \in C /\ \A c \in 0..(n - 1) : c \in C => c + 1 \in C
    BY <1>1, <1>2, <1>3
  <2>2. \A c \in 0..n : c \in C
    <3> HIDE DEF C
    <3> QED BY <1>1, <2>1, UpTo
  <2> QED BY <1>1, <2>2
<1> QED BY <1>4 DEF Splits

\* What FoldFunctionOnSet computes with + is such a sum.
LEMMA SumIsSumming ==
  ASSUME NEW S, IsFiniteSet(S), NEW f, \A x \in S : f[x] \in Int
  PROVE  \E h \in [SUBSET S -> Int] :
           Summing(h, f, S) /\ SumFunctionOnSet(f, S) = h[S]
<1> DEFINE Step(g) == [T \in SUBSET S |->
                         IF T = {} THEN 0 ELSE LET x == CHOOSE y \in T : TRUE
                                               IN  f[x] + g[T \ {x}]]
           sum == CHOOSE g : g = Step(g)
<1>1. PICK h \in [SUBSET S -> Int] : Summing(h, f, S)
  BY SumsExist
<1>2. h = Step(h)
  BY <1>1 DEF Summing
<1>3. sum = Step(sum)
  BY <1>2
<1>4. SumFunctionOnSet(f, S) = sum[S]
  BY DEF SumFunctionOnSet, FoldFunctionOnSet, MapThenFoldSet
<1> HIDE DEF sum
<1>5. Summing(sum, f, S) /\ sum = [T \in SUBSET S |-> sum[T]]
  BY <1>3 DEF Summing
<1>6. \A T \in SUBSET S : sum[T] = h[T]
  <2> SUFFICES ASSUME NEW T \in SUBSET S PROVE sum[T] = h[T]
    OBVIOUS
  <2>1. IsFiniteSet(T)
    BY FS_Subset
  <2> QED BY <1>1, <1>5, <2>1, SumsAgreeOn
<1>7. SumFunctionOnSet(f, S) = h[S]
  BY <1>4, <1>6
<1> QED BY <1>1, <1>7

\* A sum over a finite set is a number, 0 for none; it is the sum over the others and
\* what any one element adds; and it looks at the values on the set only.
LEMMA SumProperties ==
  ASSUME NEW S, IsFiniteSet(S), NEW f, \A x \in S : f[x] \in Int
  PROVE  /\ SumFunctionOnSet(f, S) \in Int
         /\ S = {} => SumFunctionOnSet(f, S) = 0
         /\ \A y \in S : SumFunctionOnSet(f, S) = f[y] + SumFunctionOnSet(f, S \ {y})
         /\ \A g : (\A x \in S : g[x] = f[x]) =>
                     SumFunctionOnSet(g, S) = SumFunctionOnSet(f, S)
<1>1. PICK h \in [SUBSET S -> Int] : Summing(h, f, S) /\ SumFunctionOnSet(f, S) = h[S]
  BY SumIsSumming
<1>2. S = {} => h[S] = 0
  BY <1>1 DEF Summing
<1>3. ASSUME NEW y \in S
      PROVE  SumFunctionOnSet(f, S) = f[y] + SumFunctionOnSet(f, S \ {y})
  <2>5. h[S] = f[y] + h[S \ {y}]
    <3>1. Summing(h, f, S)
      BY <1>1
    <3>2. Splits(h, f, S)
      BY <3>1, SumsSplit
    <3> QED BY <3>2 DEF Splits
  <2> DEFINE D == S \ {y}
  <2>1. IsFiniteSet(D) /\ \A x \in D : f[x] \in Int
    BY FS_RemoveElement
  <2>2. PICK k \in [SUBSET D -> Int] : Summing(k, f, D) /\ SumFunctionOnSet(f, D) = k[D]
    <3> HIDE DEF D
    <3> QED BY <2>1, SumIsSumming
  <2>3. D \in SUBSET (S \cap D)
    OBVIOUS
  <2>4. h[D] = k[D]
    <3> HIDE DEF D
    <3> QED BY <1>1, <2>1, <2>2, <2>3, SumsAgreeOn
  <2> QED BY <1>1, <2>2, <2>4, <2>5
<1>4. ASSUME NEW g, \A x \in S : g[x] = f[x]
      PROVE  SumFunctionOnSet(g, S) = SumFunctionOnSet(f, S)
  <2>1. PICK k \in [SUBSET S -> Int] : Summing(k, g, S) /\ SumFunctionOnSet(g, S) = k[S]
    BY <1>4, SumIsSumming
  <2>2. k[S] = h[S]
    <3>1. S \in SUBSET (S \cap S)
      OBVIOUS
    <3> QED BY <1>1, <1>4, <2>1, <3>1, SumsAgreeOn
  <2> QED BY <1>1, <2>1, <2>2
<1> QED BY <1>1, <1>2, <1>3, <1>4

\* A sum of nothing but zeros is 0.
LEMMA SumOfZeros ==
  ASSUME NEW S, IsFiniteSet(S), NEW f, \A x \in S : f[x] = 0
  PROVE  SumFunctionOnSet(f, S) = 0
<1> DEFINE zero == [T \in SUBSET S |-> 0]
<1>1. PICK h \in [SUBSET S -> Int] : Summing(h, f, S) /\ SumFunctionOnSet(f, S) = h[S]
  <2>1. \A x \in S : f[x] \in Int
    OBVIOUS
  <2> QED BY <2>1, SumIsSumming
<1>2. Summing(zero, f, S)
  BY DEF Summing
<1>3. h[S] = zero[S]
  <2>1. S \in SUBSET (S \cap S)
    OBVIOUS
  <2> HIDE DEF zero
  <2> QED BY <1>1, <1>2, <2>1, SumsAgreeOn
<1> QED BY <1>1, <1>3

\* One more at one place is one more in all.
LEMMA SumPlusOne ==
  ASSUME NEW S, IsFiniteSet(S), NEW f, \A x \in S : f[x] \in Int,
         NEW y \in S, NEW g, g[y] = f[y] + 1, \A x \in S \ {y} : g[x] = f[x]
  PROVE  SumFunctionOnSet(g, S) = SumFunctionOnSet(f, S) + 1
<1> DEFINE D == S \ {y}
           rest == SumFunctionOnSet(f, D)
<1>1. IsFiniteSet(D) /\ \A x \in D : f[x] \in Int
  BY FS_RemoveElement
<1>2. rest \in Int /\ SumFunctionOnSet(g, D) = rest
  <2> HIDE DEF D
  <2>1. \A x \in D : g[x] = f[x]
    BY DEF D
  <2> QED BY <1>1, <2>1, SumProperties
<1>3. SumFunctionOnSet(f, S) = f[y] + rest
  BY SumProperties
<1>4. SumFunctionOnSet(g, S) = g[y] + rest
  <2>1. \A x \in S : g[x] \in Int
    OBVIOUS
  <2>2. SumFunctionOnSet(g, S) = g[y] + SumFunctionOnSet(g, D)
    BY <2>1, SumProperties
  <2> QED BY <1>2, <2>2
<1> HIDE DEF rest
<1>5. f[y] \in Int
  OBVIOUS
<1> QED BY <1>2, <1>3, <1>4, <1>5

\* Sums of natural numbers up to an index grow with the index.
LEMMA SumUpTo ==
  ASSUME NEW n \in Nat, NEW f, \A i \in 1..(n + 1) : f[i] \in Nat
  PROVE  /\ SumFunctionOnSet(f, 1..n) \in Int
         /\ SumFunctionOnSet(f, 1..(n + 1)) = f[n + 1] + SumFunctionOnSet(f, 1..n)
<1>1. IsFiniteSet(1..n) /\ IsFiniteSet(1..(n + 1))
  BY FS_Interval
<1>2. (1..(n + 1)) \ {n + 1} = 1..n /\ n + 1 \in 1..(n + 1)
  OBVIOUS
<1>3. \A i \in 1..(n + 1) : f[i] \in Int
  OBVIOUS
<1> DEFINE T == 1..(n + 1)
           below == 1..n
           y == n + 1
<1>4. /\ IsFiniteSet(T) /\ IsFiniteSet(below) /\ y \in T /\ T \ {y} = below
      /\ \A i \in T : f[i] \in Int
      /\ \A i \in below : f[i] \in Int
  BY <1>1, <1>2, <1>3
<1> HIDE DEF T, below, y
<1>5. SumFunctionOnSet(f, T) = f[y] + SumFunctionOnSet(f, below)
  BY <1>4, SumProperties
<1>6. SumFunctionOnSet(f, below) \in Int
  BY <1>4, SumProperties
<1> QED BY <1>5, <1>6 DEF T, below, y

-----------------------------------------------------------------------------
(* Folds over sequences *)

\* g gives every set of places of s what a fold of the elements at these places
\* comes to, the last one taken last; step is the table of the operator folded.
FoldsBy(g, step, base, s) ==
  \A T \in SUBSET (1..Len(s)) :
    g[T] = IF T = {} THEN base ELSE step[<<g[T \ {Max(T)}], s[Max(T)]>>]

\* There are such folds.
LEMMA FoldsExist ==
  ASSUME NEW A, NEW C, NEW base \in A, NEW step \in [A \X C -> A], NEW s \in Seq(C)
  PROVE  \E g \in [SUBSET (1..Len(s)) -> A] : FoldsBy(g, step, base, s)
<1> DEFINE n == Len(s)
           D == 1..n
           Fold(g, T) == IF T = {} THEN base ELSE step[<<g[T \ {Max(T)}], s[Max(T)]>>]
           Small(k) == {T \in SUBSET D : Cardinality(T) <= k}
           Start(k) == \E g \in [Small(k) -> A] : \A T \in Small(k) : g[T] = Fold(g, T)
           K == {k \in 0..n : Start(k)}
<1>1. n \in Nat /\ IsFiniteSet(D) /\ Cardinality(D) = n /\ \A i \in D : s[i] \in C
  <2>1. n \in Nat /\ \A i \in D : s[i] \in C
    OBVIOUS
  <2> HIDE DEF n
  <2>2. IsFiniteSet(1..n) /\ Cardinality(1..n) = n
    BY <2>1, FS_Interval
  <2> QED BY <2>1, <2>2
<1>2. ASSUME NEW T \in SUBSET D PROVE IsFiniteSet(T) /\ Cardinality(T) \in 0..n
  <2> HIDE DEF D, n
  <2>1. IsFiniteSet(T) /\ Cardinality(T) <= Cardinality(D)
    BY <1>1, FS_Subset
  <2>2. Cardinality(T) \in Nat
    BY <2>1, FS_CardinalityType
  <2> QED BY <1>1, <2>1, <2>2
<1>3. ASSUME NEW T \in SUBSET D, T # {}
      PROVE  /\ Max(T) \in T /\ T \ {Max(T)} \in SUBSET D
             /\ Cardinality(T \ {Max(T)}) = Cardinality(T) - 1
  <2>1. IsFiniteSet(T) /\ T \in SUBSET Int
    BY <1>2
  <2>2. Max(T) \in T
    BY <1>3, <2>1, ExtremesProperties
  <2> QED BY <2>1, <2>2, FS_RemoveElement
<1>4. Start(0)
  <2> DEFINE g == [T \in Small(0) |-> base]
  <2>1. \A T \in Small(0) : T = {}
    BY <1>2, FS_EmptySet
  <2>2. g \in [Small(0) -> A] /\ \A T \in Small(0) : g[T] = Fold(g, T)
    BY <2>1
  <2> QED BY <2>2
<1>5. ASSUME NEW k \in 0..(n - 1), Start(k) PROVE Start(k + 1)
  <2>1. PICK g \in [Small(k) -> A] : \A T \in Small(k) : g[T] = Fold(g, T)
    BY <1>5
  <2> DEFINE h == [T \in Small(k + 1) |-> Fold(g, T)]
  <2>2. ASSUME NEW T \in Small(k + 1), T # {}
        PROVE  /\ T \in SUBSET D /\ s[Max(T)] \in C
               /\ T \ {Max(T)} \in Small(k) /\ T \ {Max(T)} \in Small(k + 1)
    <3>1. T \in SUBSET D /\ Cardinality(T) <= k + 1
      OBVIOUS
    <3>2. Max(T) \in T /\ T \ {Max(T)} \in SUBSET D
          /\ Cardinality(T \ {Max(T)}) = Cardinality(T) - 1
      BY <1>3, <2>2, <3>1
    <3>3. Cardinality(T) \in Nat
      BY <1>2, <3>1
    <3>4. s[Max(T)] \in C
      <4> HIDE DEF D
      <4> QED BY <1>1, <3>1, <3>2
    <3> QED BY <3>1, <3>2, <3>3, <3>4
  <2>3. \A T \in Small(k) : T \in Small(k + 1) /\ h[T] = g[T]
    <3>1. \A T \in Small(k) : T \in Small(k + 1)
      BY <1>2
    <3> HIDE DEF Small, Fold
    <3> QED BY <2>1, <3>1
  <2>4. h \in [Small(k + 1) -> A]
    <3>1. ASSUME NEW T \in Small(k + 1) PROVE Fold(g, T) \in A
      <4>1. T # {} => s[Max(T)] \in C /\ T \ {Max(T)} \in Small(k)
        BY <2>2
      <4> HIDE DEF Small
      <4>2. T # {} => <<g[T \ {Max(T)}], s[Max(T)]>> \in A \X C
        BY <2>1, <4>1
      <4> QED BY <4>2
    <3> HIDE DEF Small, Fold
    <3> QED BY <3>1
  <2>5. ASSUME NEW T \in Small(k + 1) PROVE h[T] = Fold(h, T)
    <3>1. h[T] = Fold(g, T)
      OBVIOUS
    <3>2. T # {} => h[T \ {Max(T)}] = g[T \ {Max(T)}]
      <4>1. T # {} => T \ {Max(T)} \in Small(k)
        BY <2>2
      <4> HIDE DEF h, Small
      <4> QED BY <2>3, <4>1
    <3> HIDE DEF h, Small
    <3> QED BY <3>1, <3>2
  <2> QED BY <2>4, <2>5
<1>6. Start(n)
  <2> HIDE DEF Start
  <2>1. 0 \in K /\ \A k \in 0..(n - 1) : k \in K => k + 1 \in K
    BY <1>1, <1>4, <1>5
  <2>2. \A k \in 0..n : k \in K
    <3> HIDE DEF K
    <3> QED BY <1>1, <2>1, UpTo
  <2> QED BY <1>1, <2>2
<1>7. Small(n) = SUBSET D
  BY <1>1, <1>2
<1>8. PICK h \in [SUBSET D -> A] : \A T \in SUBSET D : h[T] = Fold(h, T)
  <2> HIDE DEF Fold, Small, D
  <2> QED BY <1>6, <1>7
<1> QED BY <1>8 DEF FoldsBy

\* The last place of the first k ones is k.
LEMMA LastPlace ==
  ASSUME NEW n \in Nat, NEW k \in 1..n
  PROVE  /\ 1..k \in SUBSET (1..n) /\ 1..k # {}
         /\ Max(1..k) = k /\ (1..k) \ {k} = 1..(k - 1)
<1> DEFINE T == 1..k
<1>1. T \in SUBSET (1..n) /\ T # {} /\ T \in SUBSET Int /\ IsFiniteSet(T)
  <2>1. 1 \in Int /\ k \in Int
    OBVIOUS
  <2>2. IsFiniteSet(1..k)
    BY <2>1, FS_Interval
  <2>3. k \in T /\ \A i \in T : i \in 1..n /\ i \in Int
    OBVIOUS
  <2> QED BY <2>2, <2>3
<1>2. k \in Int /\ k \in T /\ \A i \in T : i \in Int /\ i <= k
  OBVIOUS
<1>3. T \ {k} = 1..(k - 1)
  OBVIOUS
<1>4. Max(T) = k
  <2> DEFINE last == Max(T)
  <2> HIDE DEF T, last
  <2>1. last \in T /\ \A i \in T : i <= last
    BY <1>1, ExtremesProperties DEF last
  <2>2. last \in Int /\ last <= k /\ k <= last
    BY <1>2, <2>1
  <2> QED BY <1>2, <2>2 DEF last
<1> QED BY <1>1, <1>3, <1>4
=============================================================================
