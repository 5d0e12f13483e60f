--------------------------- MODULE SequenceLemmas ---------------------------
(***************************************************************************)
(* Lemmas that the proofs of several components share: the operators of    *)
(* Ordering, what sequences without repetitions are determined by, and     *)
(* folds over finite sets and sequences, sums among them.                  *)
(***************************************************************************)
EXTENDS Ordering, Integers, SequencesExt, FiniteSetsExt, Functions, TLAPS, SequenceTheorems,
  FiniteSetTheorems, FunctionTheorems, WellFoundedInduction

-----------------------------------------------------------------------------
(* A non-empty set of naturals has a least element.                        *)
LEMMA LeastNatural ==
  ASSUME NEW S \in SUBSET Nat, S # {}
  PROVE  \E x \in S : \A y \in S : x <= y
<1>1. PICK x \in S : \A y \in S : ~(<<y, x>> \in OpToRel(<, Nat))
  BY NatLessThanWellFounded, WFMin
<1>2. ASSUME NEW y \in S PROVE x <= y
  <2>1. x \in Nat /\ y \in Nat /\ <<y, x>> \in Nat \X Nat
    OBVIOUS
  <2>2. ~(y < x)
    BY <1>1, <2>1 DEF OpToRel
  <2> QED
    BY <2>1, <2>2
<1> QED
  BY <1>2

-----------------------------------------------------------------------------
(* What is left of a sequence without its n-th element.                   *)
LEMMA RemovalShifts ==
  ASSUME NEW S, NEW s \in Seq(S), NEW n \in 1..Len(s)
  PROVE  /\ RemoveAt(s, n) \in Seq(S)
         /\ Len(RemoveAt(s, n)) = Len(s) - 1
         /\ \A i \in 1..(Len(s) - 1) :
              RemoveAt(s, n)[i] = s[IF i < n THEN i ELSE i + 1]
<1> DEFINE u == SubSeq(s, 1, n - 1)
           v == SubSeq(s, n + 1, Len(s))
<1>1. Len(s) \in Nat /\ n \in Nat \ {0} /\ n <= Len(s)
  BY LenProperties
<1>2. \A i \in 1..Len(s) : s[i] \in S
  BY ElementOfSeq
<1>3. u \in Seq(S) /\ Len(u) = n - 1 /\ \A i \in 1..(n - 1) : u[i] = s[i]
  <2>1. \A i \in 1..(n - 1) : s[i] \in S
    BY <1>1, <1>2
  <2>2. 1 \in Int /\ n - 1 \in Int /\ (1 <= n - 1 \/ n - 1 = 0)
    BY <1>1
  <2>3. /\ u \in Seq(S)
        /\ Len(u) = IF 1 <= n - 1 THEN (n - 1) - 1 + 1 ELSE 0
        /\ \A i \in 1..((n - 1) - 1 + 1) : u[i] = s[1 + i - 1]
    BY <2>1, <2>2, SubSeqProperties
  <2> HIDE DEF u
  <2> QED
    BY <1>1, <2>2, <2>3
<1>4. v \in Seq(S) /\ Len(v) = Len(s) - n /\ \A i \in 1..(Len(s) - n) : v[i] = s[n + i]
  <2>1. \A i \in (n + 1)..Len(s) : s[i] \in S
    BY <1>1, <1>2
  <2>2. n + 1 \in Int /\ Len(s) \in Int
    BY <1>1
  <2>3. /\ v \in Seq(S)
        /\ Len(v) = IF n + 1 <= Len(s) THEN Len(s) - (n + 1) + 1 ELSE 0
        /\ \A i \in 1..(Len(s) - (n + 1) + 1) : v[i] = s[(n + 1) + i - 1]
    BY <2>1, <2>2, SubSeqProperties
  <2> HIDE DEF v
  <2> QED
    BY <1>1, <2>3
<1>5. RemoveAt(s, n) = u \o v
  BY DEF RemoveAt
<1> HIDE DEF u, v
<1>6. /\ u \o v \in Seq(S)
      /\ Len(u \o v) = Len(u) + Len(v)
      /\ \A i \in 1..(Len(u) + Len(v)) :
           (u \o v)[i] = IF i <= Len(u) THEN u[i] ELSE v[i - Len(u)]
  BY <1>3, <1>4, ConcatProperties
<1>7. ASSUME NEW i \in 1..(Len(s) - 1)
      PROVE  (u \o v)[i] = s[IF i < n THEN i ELSE i + 1]
  <2>1. CASE i < n
    BY <1>1, <1>3, <1>4, <1>6, <2>1
  <2>2. CASE ~(i < n)
    <3>1. i - (n - 1) \in 1..(Len(s) - n) /\ n + (i - (n - 1)) = i + 1
      BY <1>1, <2>2
    <3>2. (u \o v)[i] = v[i - (n - 1)]
      BY <1>1, <1>3, <1>4, <1>6, <2>2
    <3> QED
      BY <1>4, <2>2, <3>1, <3>2
  <2> QED
    BY <2>1, <2>2
<1> QED
  BY <1>1, <1>3, <1>4, <1>5, <1>6, <1>7

(* The elements of a sequence.                                             *)
LEMMA ElementsOf ==
  ASSUME NEW S, NEW s \in Seq(S)
  PROVE  ToSet(s) = {s[i] : i \in 1..Len(s)} /\ ToSet(s) \subseteq S
<1>1. DOMAIN s = 1..Len(s)
  BY LenProperties
<1> QED
  BY <1>1, ElementOfSeq DEF ToSet

LEMMA ElementsOfAppend ==
  ASSUME NEW S, NEW s \in Seq(S), NEW x \in S
  PROVE  ToSet(Append(s, x)) = ToSet(s) \cup {x}
<1>1. /\ Append(s, x) \in Seq(S)
      /\ Len(Append(s, x)) = Len(s) + 1
      /\ \A i \in 1..Len(s) : Append(s, x)[i] = s[i]
      /\ Append(s, x)[Len(s) + 1] = x
      /\ Len(s) \in Nat
  BY AppendProperties, LenProperties
<1>2. 1..(Len(s) + 1) = 1..Len(s) \cup {Len(s) + 1}
  BY <1>1
<1>3. ToSet(Append(s, x)) = {Append(s, x)[i] : i \in 1..(Len(s) + 1)}
  BY <1>1, ElementsOf
<1>4. ToSet(s) = {s[i] : i \in 1..Len(s)}
  BY ElementsOf
<1> QED
  BY <1>1, <1>2, <1>3, <1>4

LEMMA ElementsOfConcat ==
  ASSUME NEW S, NEW s \in Seq(S), NEW u \in Seq(S)
  PROVE  ToSet(s \o u) = ToSet(s) \cup ToSet(u)
<1>1. /\ s \o u \in Seq(S)
      /\ Len(s \o u) = Len(s) + Len(u)
      /\ Len(s) \in Nat /\ Len(u) \in Nat
  BY ConcatProperties, LenProperties
<1>2. ASSUME NEW i \in 1..(Len(s) + Len(u))
      PROVE  \/ i \in 1..Len(s) /\ (s \o u)[i] = s[i]
             \/ i - Len(s) \in 1..Len(u) /\ (s \o u)[i] = u[i - Len(s)]
  BY <1>1, ConcatProperties
<1>3. /\ ToSet(s) = {s[i] : i \in 1..Len(s)}
      /\ ToSet(u) = {u[i] : i \in 1..Len(u)}
      /\ ToSet(s \o u) = {(s \o u)[i] : i \in 1..(Len(s) + Len(u))}
  BY <1>1, ElementsOf
<1>4. ToSet(s \o u) \subseteq ToSet(s) \cup ToSet(u)
  BY <1>2, <1>3
<1>5. ASSUME NEW i \in 1..Len(s)
      PROVE  i \in 1..(Len(s) + Len(u)) /\ (s \o u)[i] = s[i]
  BY <1>1, ConcatProperties
<1>6. ASSUME NEW i \in 1..Len(u)
      PROVE  i + Len(s) \in 1..(Len(s) + Len(u)) /\ (s \o u)[i + Len(s)] = u[i]
  BY <1>1, ConcatProperties
<1> QED
  BY <1>3, <1>4, <1>5, <1>6

(* A set as a sequence of its elements.                                    *)
LEMMA ElementsOfListing ==
  ASSUME NEW S, IsFiniteSet(S)
  PROVE  SetToSeq(S) \in Seq(S) /\ ToSet(SetToSeq(S)) = S
<1> DEFINE n == Cardinality(S)
           f == SetToSeq(S)
<1>1. n \in Nat /\ ExistsBijection(1..n, S)
  BY FS_CardinalityType
<1>2. \E g \in [1..n -> S] : IsInjective(g)
  BY <1>1 DEF ExistsBijection, Bijection, Injection
<1>3. f \in [1..n -> S] /\ IsInjective(f)
  BY <1>2 DEF SetToSeq
<1>4. f \in Surjection(1..n, S)
  <2>1. Cardinality(1..n) = n
    BY <1>1, FS_Interval
  <2>2. f \in Injection(1..n, S)
    BY <1>3 DEF Injection
  <2> QED
    BY <2>1, <2>2, FS_Injection
<1>5. f \in Seq(S)
  BY <1>1, <1>3
<1>6. ToSet(f) = {f[i] : i \in 1..n}
  BY <1>3 DEF ToSet
<1>7. {f[i] : i \in 1..n} = S
  BY <1>4 DEF Surjection
<1> QED
  BY <1>5, <1>6, <1>7

LEMMA EmptyHasNone == ToSet(<<>>) = {}
  BY DEF ToSet

(* A sequence over S is one over every larger set.                         *)
LEMMA WiderSeq ==
  ASSUME NEW S, NEW T, S \subseteq T, NEW s \in Seq(S)
  PROVE  s \in Seq(T)
<1>1. PICK n \in Nat : n = Len(s) /\ s \in [1..n -> S]
  BY LenProperties
<1>2. s \in [1..n -> T]
  BY <1>1
<1>3. s = [i \in 1..n |-> s[i]]
  BY <1>1
<1>4. [i \in 1..n |-> s[i]] \in Seq(T)
  BY <1>2, IsASeq
<1> QED
  BY <1>3, <1>4

(* A sequence that is not empty is its first element and what follows.     *)
LEMMA FirstAndRest ==
  ASSUME NEW S, NEW s \in Seq(S), s # <<>>
  PROVE  /\ Head(s) \in S /\ Head(s) = s[1]
         /\ Tail(s) \in Seq(S)
         /\ \E n \in Nat : /\ Len(s) = n + 1 /\ Len(Tail(s)) = n
                           /\ \A i \in 1..n : Tail(s)[i] = s[i + 1]
<1>1. PICK n \in Nat : Len(s) = n + 1
  <2>1. PICK l \in Nat : Len(s) = l /\ l > 0
    BY EmptySeq
  <2>2. l - 1 \in Nat /\ l = (l - 1) + 1
    BY <2>1
  <2> QED
    BY <2>1, <2>2
<1>2. Head(s) = s[1]
  OBVIOUS
<1>3. Len(Tail(s)) = n
  BY <1>1, HeadTailProperties
<1> QED
  BY <1>1, <1>2, <1>3, HeadTailProperties

-----------------------------------------------------------------------------
(* R orders S strictly and totally.                                        *)
Orders(R, S) ==
  /\ \A x \in S : <<x, x>> \notin R
  /\ \A x, y \in S : x = y \/ <<x, y>> \in R \/ <<y, x>> \in R
  /\ \A x, y, z \in S : <<x, y>> \in R /\ <<y, z>> \in R => <<x, z>> \in R

LowerThan(S, R, x) == {y \in S : <<y, x>> \in R}

(* How many elements are below x tells it from every other one.            *)
LEMMA RanksDiffer ==
  ASSUME NEW S, NEW R, IsFiniteSet(S), Orders(R, S)
  PROVE  /\ \A x \in S : /\ IsFiniteSet(LowerThan(S, R, x))
                         /\ Cardinality(LowerThan(S, R, x)) \in 0..(Cardinality(S) - 1)
         /\ \A x, y \in S : <<x, y>> \in R =>
              Cardinality(LowerThan(S, R, x)) < Cardinality(LowerThan(S, R, y))
<1>1. ASSUME NEW x \in S
      PROVE  /\ IsFiniteSet(LowerThan(S, R, x))
             /\ Cardinality(LowerThan(S, R, x)) \in 0..(Cardinality(S) - 1)
  <2>1. LowerThan(S, R, x) \in SUBSET (S \ {x})
    BY DEF LowerThan, Orders
  <2>2. /\ IsFiniteSet(S \ {x})
        /\ Cardinality(S \ {x}) = Cardinality(S) - 1
    BY FS_RemoveElement
  <2>3. /\ IsFiniteSet(LowerThan(S, R, x))
        /\ Cardinality(LowerThan(S, R, x)) <= Cardinality(S \ {x})
    BY <2>1, <2>2, FS_Subset
  <2>4. Cardinality(LowerThan(S, R, x)) \in Nat /\ Cardinality(S) \in Nat
    BY <2>3, FS_CardinalityType
  <2> QED
    BY <2>2, <2>3, <2>4
<1>2. ASSUME NEW x \in S, NEW y \in S, <<x, y>> \in R
      PROVE  Cardinality(LowerThan(S, R, x)) < Cardinality(LowerThan(S, R, y))
  <2>1. LowerThan(S, R, x) \in SUBSET LowerThan(S, R, y)
    BY <1>2 DEF LowerThan, Orders
  <2>2. LowerThan(S, R, x) # LowerThan(S, R, y)
    BY <1>2 DEF LowerThan, Orders
  <2>3. /\ Cardinality(LowerThan(S, R, x)) <= Cardinality(LowerThan(S, R, y))
        /\ Cardinality(LowerThan(S, R, x)) # Cardinality(LowerThan(S, R, y))
    BY <1>1, <2>1, <2>2, FS_Subset
  <2> QED
    BY <1>1, <2>3
<1> QED
  BY <1>1, <1>2

(* Arranged lists every element once, each after those below it.           *)
LEMMA ArrangedInOrder ==
  ASSUME NEW S, NEW R, IsFiniteSet(S), Orders(R, S)
  PROVE  LET N == Cardinality(S)
             t == Arranged(S, R)
         IN  /\ N \in Nat /\ t \in [1..N -> S]
             /\ \A x \in S : \E n \in 1..N : t[n] = x
             /\ \A m, n \in 1..N : m < n => <<t[m], t[n]>> \in R
             /\ \A m, n \in 1..N : t[m] = t[n] => m = n
<1> DEFINE N == Cardinality(S)
           t == Arranged(S, R)
           r(x) == Cardinality(LowerThan(S, R, x))
           f == [x \in S |-> r(x) + 1]
<1>1. N \in Nat
  BY FS_CardinalityType
<1>2. \A x \in S : r(x) \in 0..(N - 1)
  BY RanksDiffer
<1>3. \A x, y \in S : <<x, y>> \in R => r(x) < r(y)
  BY RanksDiffer
<1> HIDE DEF N, r
<1>4. f \in Surjection(S, 1..N)
  <2>1. f \in [S -> 1..N]
    BY <1>1, <1>2
  <2>2. ASSUME NEW x \in S, NEW y \in S, f[x] = f[y]
        PROVE  x = y
    <3>1. r(x) = r(y) /\ r(x) \in Int /\ r(y) \in Int
      BY <1>2, <2>2
    <3>2. ~(<<x, y>> \in R) /\ ~(<<y, x>> \in R)
      BY <1>3, <3>1
    <3> QED
      BY <3>2 DEF Orders
  <2>3. f \in Injection(S, 1..N)
    BY <2>1, <2>2, Fun_IsInj
  <2>4. IsFiniteSet(1..N) /\ Cardinality(1..N) = N
    BY <1>1, FS_Interval
  <2> QED
    BY <2>3, <2>4, FS_Injection DEF N
<1>5. ASSUME NEW n \in 1..N
      PROVE  t[n] \in S /\ r(t[n]) = n - 1
  <2>1. PICK x \in S : f[x] = n
    BY <1>4 DEF Surjection
  <2>2. r(x) = n - 1
    BY <1>1, <1>2, <2>1
  <2>3. t[n] = CHOOSE y \in S : r(y) = n - 1
    BY DEF Arranged, LowerThan, N, r
  <2> QED
    BY <2>2, <2>3
<1>6. t \in [1..N -> S]
  BY <1>5 DEF Arranged, N
<1>7. ASSUME NEW x \in S
      PROVE  \E n \in 1..N : t[n] = x
  <2>1. r(x) + 1 \in 1..N
    BY <1>1, <1>2
  <2>2. t[r(x) + 1] \in S /\ r(t[r(x) + 1]) = r(x)
    BY <1>2, <1>5, <2>1
  <2>3. t[r(x) + 1] = x
    <3>1. ~(<<x, t[r(x) + 1]>> \in R) /\ ~(<<t[r(x) + 1], x>> \in R)
      BY <1>2, <1>3, <2>2
    <3> QED
      BY <2>2, <3>1 DEF Orders
  <2> QED
    BY <2>1, <2>3
<1>8. ASSUME NEW m \in 1..N, NEW n \in 1..N, t[m] = t[n]
      PROVE  m = n
  BY <1>1, <1>5, <1>8
<1>9. ASSUME NEW m \in 1..N, NEW n \in 1..N, m < n
      PROVE  <<t[m], t[n]>> \in R
  <2>1. t[m] \in S /\ t[n] \in S /\ r(t[m]) = m - 1 /\ r(t[n]) = n - 1
    BY <1>5
  <2>2. r(t[m]) < r(t[n])
    BY <1>1, <1>9, <2>1
  <2>3. ~(<<t[n], t[m]>> \in R) /\ t[m] # t[n]
    BY <1>1, <1>3, <2>1, <2>2
  <2> QED
    BY <2>1, <2>3 DEF Orders
<1> QED
  BY <1>1, <1>6, <1>7, <1>8, <1>9 DEF N

(* A listing of S in the order of R has its n-th element above n - 1.      *)
LEMMA RankOfPosition ==
  ASSUME NEW S, NEW R, IsFiniteSet(S), Orders(R, S),
         NEW N \in Nat, NEW t \in [1..N -> S],
         \A x \in S : \E n \in 1..N : t[n] = x,
         \A m, n \in 1..N : m < n => <<t[m], t[n]>> \in R,
         NEW n \in 1..N
  PROVE  Cardinality(LowerThan(S, R, t[n])) = n - 1
<1> DEFINE L == LowerThan(S, R, t[n])
           g == [m \in 1..(n - 1) |-> t[m]]
<1>1. ASSUME NEW m \in 1..N
      PROVE  t[m] \in L <=> m < n
  <2>1. CASE m < n
    BY <2>1 DEF LowerThan
  <2>2. CASE m = n
    BY <2>2 DEF LowerThan, Orders
  <2>3. CASE n < m
    <3>1. <<t[n], t[m]>> \in R
      BY <2>3
    <3>2. ~(<<t[m], t[n]>> \in R)
      BY <3>1 DEF Orders
    <3> QED
      BY <2>3, <3>2 DEF LowerThan
  <2> QED
    BY <2>1, <2>2, <2>3
<1>2. g \in Injection(1..(n - 1), L)
  <2>1. g \in [1..(n - 1) -> L]
    BY <1>1
  <2>2. ASSUME NEW a \in 1..(n - 1), NEW b \in 1..(n - 1), g[a] = g[b]
        PROVE  a = b
    <3>1. a \in 1..N /\ b \in 1..N /\ t[a] = t[b]
      BY <2>2
    <3>2. ~(a < b) /\ ~(b < a)
      BY <3>1 DEF Orders
    <3> QED
      BY <3>1, <3>2
  <2> HIDE DEF g, L
  <2> QED
    BY <2>1, <2>2, Fun_IsInj
<1>3. g \in Surjection(1..(n - 1), L)
  <2>1. g \in [1..(n - 1) -> L]
    BY <1>1
  <2>2. ASSUME NEW x \in L
        PROVE  \E m \in 1..(n - 1) : g[m] = x
    <3>1. PICK m \in 1..N : t[m] = x
      BY DEF LowerThan
    <3>2. m \in 1..(n - 1)
      BY <1>1, <3>1
    <3> QED
      BY <3>1, <3>2
  <2> HIDE DEF g, L
  <2> QED
    BY <2>1, <2>2, Fun_IsSurj
<1>4. IsFiniteSet(1..(n - 1)) /\ Cardinality(1..(n - 1)) = n - 1
  BY FS_Interval
<1> HIDE DEF g, L
<1>5. Cardinality(L) = Cardinality(1..(n - 1))
  BY <1>2, <1>3, <1>4, FS_Surjection
<1> QED
  BY <1>4, <1>5 DEF L

-----------------------------------------------------------------------------
(* The numbers in K are in the order of Earlier(K).                        *)
Earlier(K) == {w \in K \X K : w[1] < w[2]}

LEMMA PositionsInOrder ==
  ASSUME NEW n \in Nat, NEW K \in SUBSET (1..n)
  PROVE  IsFiniteSet(K) /\ Orders(Earlier(K), K)
<1>1. IsFiniteSet(K)
  <2>1. 1 \in Int /\ n \in Int
    OBVIOUS
  <2>2. IsFiniteSet(1..n)
    BY <2>1, FS_Interval
  <2> QED
    BY <2>2, FS_Subset
<1>2. \A i \in K : i \in Nat
  OBVIOUS
<1>3. \A i, j \in K : <<i, j>> \in Earlier(K) <=> i < j
  BY DEF Earlier
<1> QED
  BY <1>1, <1>2, <1>3 DEF Orders

(* AtPositions takes from s what is at K, in the order of s.               *)
LEMMA PositionsKept ==
  ASSUME NEW A, NEW s \in Seq(A), NEW K \in SUBSET (1..Len(s))
  PROVE  LET N == Cardinality(K)
             u == AtPositions(s, K)
         IN  /\ IsFiniteSet(K) /\ N \in Nat
             /\ u \in Seq(A) /\ Len(u) = N
             /\ \E p \in [1..N -> K] :
                  /\ \A n \in 1..N : u[n] = s[p[n]]
                  /\ \A m, n \in 1..N : m < n => p[m] < p[n]
                  /\ \A i \in K : \E n \in 1..N : p[n] = i
<1> DEFINE N == Cardinality(K)
           u == AtPositions(s, K)
           p == Arranged(K, Earlier(K))
<1>1. PICK l \in Nat : Len(s) = l
  BY LenProperties
<1>2. IsFiniteSet(K) /\ Orders(Earlier(K), K)
  BY <1>1, PositionsInOrder
<1>3. /\ N \in Nat /\ p \in [1..N -> K]
      /\ \A i \in K : \E n \in 1..N : p[n] = i
      /\ \A m, n \in 1..N : m < n => <<p[m], p[n]>> \in Earlier(K)
  BY <1>2, ArrangedInOrder
<1> DEFINE c(n) == CHOOSE i \in K : Cardinality({j \in K : j < i}) = n - 1
<1>4. u = [n \in 1..N |-> s[c(n)]]
  BY DEF AtPositions
<1> HIDE DEF p, N, u
<1>9. ASSUME NEW n \in 1..N
      PROVE  c(n) = p[n]
  <2>1. \A i \in K : /\ {j \in K : j < i} = LowerThan(K, Earlier(K), i)
                     /\ Cardinality(LowerThan(K, Earlier(K), i)) \in Int
    <3>1. \A i \in K : {j \in K : j < i} = LowerThan(K, Earlier(K), i)
      BY DEF LowerThan, Earlier
    <3>2. \A i \in K : Cardinality(LowerThan(K, Earlier(K), i)) \in 0..(Cardinality(K) - 1)
      BY <1>2, RanksDiffer
    <3> QED
      BY <3>1, <3>2
  <2>2. Cardinality(LowerThan(K, Earlier(K), p[n])) = n - 1
    BY <1>2, <1>3, RankOfPosition, ZenonT(40)
  <2>3. ASSUME NEW i \in K, Cardinality({j \in K : j < i}) = n - 1
        PROVE  i = p[n]
    <3>1. Cardinality(LowerThan(K, Earlier(K), i)) = n - 1 /\ p[n] \in K
      BY <1>3, <2>1, <2>3
    <3>2. ~(<<i, p[n]>> \in Earlier(K)) /\ ~(<<p[n], i>> \in Earlier(K))
      BY <1>2, <2>1, <2>2, <3>1, RanksDiffer
    <3> QED
      BY <1>2, <3>1, <3>2 DEF Orders
  <2>4. p[n] \in K /\ Cardinality({j \in K : j < p[n]}) = n - 1
    BY <1>3, <2>1, <2>2
  <2> QED
    BY <2>3, <2>4
<1> HIDE DEF c
<1>5. \A m, n \in 1..N : m < n => p[m] < p[n]
  BY <1>3 DEF Earlier
<1>6. \A n \in 1..N : s[p[n]] \in A
  BY <1>1, <1>3, ElementOfSeq
<1>7. u \in Seq(A) /\ Len(u) = N
  BY <1>3, <1>4, <1>6, <1>9
<1>8. \A n \in 1..N : u[n] = s[p[n]]
  BY <1>4, <1>9
<1> QED
  BY <1>2, <1>3, <1>5, <1>7, <1>8 DEF N, u

(* The same, without the count of what is kept.                            *)
LEMMA PlacesKept ==
  ASSUME NEW A, NEW s \in Seq(A), NEW K \in SUBSET (1..Len(s)), NEW u, u = AtPositions(s, K)
  PROVE  /\ u \in Seq(A)
         /\ \E p \in [1..Len(u) -> K] :
              /\ \A n \in 1..Len(u) : u[n] = s[p[n]]
              /\ \A m, n \in 1..Len(u) : m < n => p[m] < p[n]
              /\ \A i \in K : \E n \in 1..Len(u) : p[n] = i
<1>1. PICK N \in Nat : N = Cardinality(K)
  BY PositionsKept
<1>2. u \in Seq(A) /\ Len(u) = N
  BY <1>1, PositionsKept
<1>3. PICK p \in [1..N -> K] : /\ \A n \in 1..N : u[n] = s[p[n]]
                               /\ \A m, n \in 1..N : m < n => p[m] < p[n]
                               /\ \A i \in K : \E n \in 1..N : p[n] = i
  BY <1>1, PositionsKept
<1> QED
  BY <1>2, <1>3

-----------------------------------------------------------------------------
(* Sequences without repetitions.                                          *)
Distinct(s) == \A i, j \in 1..Len(s) : s[i] = s[j] => i = j

LEMMA PrecedesWithin ==
  ASSUME NEW S, NEW s \in Seq(S), NEW x, NEW y, Precedes(s, x, y)
  PROVE  x \in ToSet(s) /\ y \in ToSet(s)
BY ElementsOf DEF Precedes

(* What is taken from one keeps its order.                                 *)
LEMMA KeptOfDistinct ==
  ASSUME NEW A, NEW s \in Seq(A), Distinct(s), NEW K \in SUBSET (1..Len(s))
  PROVE  LET u == AtPositions(s, K)
         IN  /\ u \in Seq(A) /\ Distinct(u)
             /\ ToSet(u) = {s[i] : i \in K}
             /\ \A x, y \in ToSet(u) : Precedes(u, x, y) <=> Precedes(s, x, y)
<1> DEFINE u == AtPositions(s, K)
<1>0. PICK l \in Nat : Len(s) = l
  BY LenProperties
<1>1. PICK N \in Nat : N = Cardinality(K)
  BY PositionsKept
<1>2. PICK p \in [1..N -> K] :
        /\ \A n \in 1..N : u[n] = s[p[n]]
        /\ \A m, n \in 1..N : m < n => p[m] < p[n]
        /\ \A i \in K : \E n \in 1..N : p[n] = i
  BY <1>1, PositionsKept, SMTT(30)
<1>3. u \in Seq(A) /\ Len(u) = N
  BY <1>1, PositionsKept
<1> HIDE DEF u
<1>4. ToSet(u) = {s[i] : i \in K}
  <2>1. ToSet(u) = {u[n] : n \in 1..N}
    BY <1>3, ElementsOf
  <2>2. \A n \in 1..N : u[n] \in {s[i] : i \in K}
    BY <1>2
  <2>3. \A i \in K : s[i] \in {u[n] : n \in 1..N}
    BY <1>2
  <2> QED
    BY <2>1, <2>2, <2>3
<1>5. \A m, n \in 1..N : p[m] = p[n] => m = n
  <2> SUFFICES ASSUME NEW m \in 1..N, NEW n \in 1..N, p[m] = p[n]
               PROVE  m = n
    OBVIOUS
  <2>1. p[m] \in 1..l /\ p[n] \in 1..l
    BY <1>0, <1>2
  <2>2. ~(m < n) /\ ~(n < m)
    BY <1>2, <2>1
  <2> QED
    BY <2>2
<1>6. Distinct(u)
  <2> SUFFICES ASSUME NEW m \in 1..N, NEW n \in 1..N, u[m] = u[n]
               PROVE  m = n
    BY <1>3 DEF Distinct
  <2>1. p[m] \in 1..l /\ p[n] \in 1..l /\ s[p[m]] = s[p[n]]
    BY <1>0, <1>2
  <2> QED
    BY <1>0, <1>5, <2>1 DEF Distinct
<1>7. ASSUME NEW x \in ToSet(u), NEW y \in ToSet(u)
      PROVE  Precedes(u, x, y) <=> Precedes(s, x, y)
  <2>1. ASSUME Precedes(u, x, y)
        PROVE  Precedes(s, x, y)
    <3>1. PICK m, n \in 1..N : m < n /\ u[m] = x /\ u[n] = y
      BY <1>3, <2>1 DEF Precedes
    <3>2. p[m] \in 1..l /\ p[n] \in 1..l /\ p[m] < p[n]
      BY <1>0, <1>2, <3>1
    <3> QED
      BY <1>0, <1>2, <3>1, <3>2 DEF Precedes
  <2>2. ASSUME Precedes(s, x, y)
        PROVE  Precedes(u, x, y)
    <3>1. PICK i, j \in 1..l : i < j /\ s[i] = x /\ s[j] = y
      BY <1>0, <2>2 DEF Precedes
    <3>2. i \in K /\ j \in K
      BY <1>0, <1>4, <3>1 DEF Distinct
    <3>3. PICK m, n \in 1..N : p[m] = i /\ p[n] = j
      BY <1>2, <3>2
    <3>4. m < n
      <4>1. ~(n < m) /\ m # n
        BY <1>2, <3>1, <3>3
      <4> QED
        BY <4>1
    <3> QED
      BY <1>2, <1>3, <3>1, <3>3, <3>4 DEF Precedes
  <2> QED
    BY <2>1, <2>2
<1> QED
  BY <1>3, <1>4, <1>6, <1>7 DEF u

(* The order of one is total on its elements.                              *)
LEMMA PrecedesOrders ==
  ASSUME NEW A, NEW s \in Seq(A), Distinct(s)
  PROVE  Orders({w \in ToSet(s) \X ToSet(s) : Precedes(s, w[1], w[2])}, ToSet(s))
<1> DEFINE R == {w \in ToSet(s) \X ToSet(s) : Precedes(s, w[1], w[2])}
<1>1. PICK l \in Nat : Len(s) = l
  BY LenProperties
<1>2. ToSet(s) = {s[i] : i \in 1..l}
  BY <1>1, ElementsOf
<1>3. \A i, j \in 1..l : <<s[i], s[j]>> \in R <=> i < j
  BY <1>1, <1>2 DEF Precedes, Distinct
<1> HIDE DEF R
<1>4. \A x \in ToSet(s) : <<x, x>> \notin R
  BY <1>2, <1>3
<1>5. \A x, y \in ToSet(s) : x = y \/ <<x, y>> \in R \/ <<y, x>> \in R
  <2> SUFFICES ASSUME NEW i \in 1..l, NEW j \in 1..l
               PROVE  s[i] = s[j] \/ <<s[i], s[j]>> \in R \/ <<s[j], s[i]>> \in R
    BY <1>2
  <2>1. i < j \/ j < i \/ i = j
    OBVIOUS
  <2> QED
    BY <1>3, <2>1
<1>6. \A x, y, z \in ToSet(s) : <<x, y>> \in R /\ <<y, z>> \in R => <<x, z>> \in R
  <2> SUFFICES ASSUME NEW i \in 1..l, NEW j \in 1..l, NEW k \in 1..l,
                      <<s[i], s[j]>> \in R, <<s[j], s[k]>> \in R
               PROVE  <<s[i], s[k]>> \in R
    BY <1>2
  <2>1. i < k
    BY <1>3
  <2> QED
    BY <1>3, <2>1
<1> QED
  BY <1>4, <1>5, <1>6 DEF R, Orders

LEMMA DistinctCount ==
  ASSUME NEW A, NEW s \in Seq(A), Distinct(s)
  PROVE  IsFiniteSet(ToSet(s)) /\ Cardinality(ToSet(s)) = Len(s)
<1>1. PICK l \in Nat : Len(s) = l
  BY LenProperties
<1>2. ToSet(s) = {s[i] : i \in 1..l}
  BY <1>1, ElementsOf
<1>3. s \in [1..l -> ToSet(s)]
  <2>1. s \in [1..l -> A]
    BY <1>1, LenProperties
  <2> QED
    BY <1>2, <2>1
<1>4. s \in Bijection(1..l, ToSet(s))
  BY <1>1, <1>2, <1>3, Fun_IsBij DEF Distinct
<1>5. IsFiniteSet(1..l) /\ Cardinality(1..l) = l
  BY FS_Interval
<1> QED
  BY <1>1, <1>4, <1>5, FS_Bijection DEF ExistsBijection

(* Two with the same elements in the same order are equal.                 *)
LEMMA SameOrder ==
  ASSUME NEW A, NEW s \in Seq(A), NEW t \in Seq(A), Distinct(s), Distinct(t),
         ToSet(s) = ToSet(t),
         \A x, y \in ToSet(s) : Precedes(s, x, y) => Precedes(t, x, y)
  PROVE  s = t
<1> DEFINE S == ToSet(t)
           R == {w \in S \X S : Precedes(t, w[1], w[2])}
<1>1. PICK l \in Nat : Len(s) = l
  BY LenProperties
<1>2. IsFiniteSet(S) /\ Len(t) = l
  BY <1>1, DistinctCount
<1>3. Orders(R, S)
  BY PrecedesOrders
<1>4. S = {s[i] : i \in 1..l} /\ S = {t[i] : i \in 1..l}
  BY <1>1, <1>2, ElementsOf
<1>5. \A m, n \in 1..l : m < n => <<t[m], t[n]>> \in R
  BY <1>2, <1>4 DEF Precedes
<1>6. \A m, n \in 1..l : m < n => <<s[m], s[n]>> \in R
  <2> SUFFICES ASSUME NEW m \in 1..l, NEW n \in 1..l, m < n
               PROVE  <<s[m], s[n]>> \in R
    OBVIOUS
  <2>1. s[m] \in S /\ s[n] \in S
    BY <1>4
  <2>2. Precedes(s, s[m], s[n])
    BY <1>1 DEF Precedes
  <2> QED
    BY <2>1, <2>2
<1>7. s \in [1..l -> S] /\ t \in [1..l -> S]
  <2>1. s \in [1..l -> A] /\ t \in [1..l -> A]
    BY <1>1, <1>2, LenProperties
  <2> QED
    BY <1>4, <2>1
<1>8. \A x \in S : \E n \in 1..l : s[n] = x
  BY <1>4
<1>9. \A x \in S : \E n \in 1..l : t[n] = x
  BY <1>4
<1> HIDE DEF S, R
<1>10. ASSUME NEW n \in 1..l
       PROVE  s[n] = t[n]
  <2>1. Cardinality(LowerThan(S, R, s[n])) = n - 1
    <3>1. s \in [1..l -> S]
      BY <1>7
    <3>2. IsFiniteSet(S)
      BY <1>2
    <3> QED
      BY <1>3, <1>6, <1>8, <3>1, <3>2, RankOfPosition, ZenonT(40)
  <2>2. Cardinality(LowerThan(S, R, t[n])) = n - 1
    <3>1. t \in [1..l -> S]
      BY <1>7
    <3>2. IsFiniteSet(S)
      BY <1>2
    <3> QED
      BY <1>3, <1>5, <1>9, <3>1, <3>2, RankOfPosition, ZenonT(40)
  <2>3. s[n] \in S /\ t[n] \in S
    BY <1>7
  <2>4. ~(<<s[n], t[n]>> \in R) /\ ~(<<t[n], s[n]>> \in R)
    BY <1>2, <1>3, <2>1, <2>2, <2>3, RanksDiffer
  <2> QED
    BY <1>3, <2>3, <2>4 DEF Orders
<1> QED
  BY <1>1, <1>2, <1>10, SeqEqual

(* An element of its own at the end.                                       *)
LEMMA AppendedOfDistinct ==
  ASSUME NEW A, NEW s \in Seq(A), Distinct(s), NEW z \in A, z \notin ToSet(s)
  PROVE  LET u == Append(s, z)
         IN  /\ u \in Seq(A) /\ Distinct(u)
             /\ ToSet(u) = ToSet(s) \cup {z}
             /\ \A x, y \in ToSet(u) :
                  Precedes(u, x, y) <=> (Precedes(s, x, y) \/ (x \in ToSet(s) /\ y = z))
<1> DEFINE u == Append(s, z)
<1>1. PICK l \in Nat : Len(s) = l
  BY LenProperties
<1>2. /\ u \in Seq(A) /\ Len(u) = l + 1 /\ u[l + 1] = z
      /\ \A i \in 1..l : u[i] = s[i]
  BY <1>1, AppendProperties
<1>3. ToSet(s) = {s[i] : i \in 1..l}
  BY <1>1, ElementsOf
<1>4. 1..(l + 1) = 1..l \cup {l + 1}
  OBVIOUS
<1> HIDE DEF u
<1>5. ToSet(u) = ToSet(s) \cup {z}
  <2>1. ToSet(u) = {u[i] : i \in 1..(l + 1)}
    BY <1>2, ElementsOf
  <2> QED
    BY <1>2, <1>3, <1>4, <2>1
<1>6. \A i \in 1..l : s[i] # z
  BY <1>3
<1>7. Distinct(u)
  <2> SUFFICES ASSUME NEW i \in 1..(l + 1), NEW j \in 1..(l + 1), u[i] = u[j]
               PROVE  i = j
    BY <1>2 DEF Distinct
  <2>1. CASE i \in 1..l /\ j \in 1..l
    BY <1>1, <1>2, <2>1 DEF Distinct
  <2>2. CASE i = l + 1 \/ j = l + 1
    BY <1>2, <1>4, <1>6, <2>2
  <2> QED
    BY <1>4, <2>1, <2>2
<1>8. ASSUME NEW x, NEW y
      PROVE  Precedes(u, x, y) <=> (Precedes(s, x, y) \/ (x \in ToSet(s) /\ y = z))
  <2>1. ASSUME Precedes(u, x, y)
        PROVE  Precedes(s, x, y) \/ (x \in ToSet(s) /\ y = z)
    <3>1. PICK i, j \in 1..(l + 1) : i < j /\ u[i] = x /\ u[j] = y
      BY <1>2, <2>1 DEF Precedes
    <3>2. i \in 1..l /\ s[i] = x
      BY <1>2, <3>1
    <3>3. CASE j \in 1..l
      BY <1>1, <1>2, <3>1, <3>2, <3>3 DEF Precedes
    <3>4. CASE j = l + 1
      BY <1>2, <1>3, <3>1, <3>2, <3>4
    <3> QED
      BY <1>4, <3>3, <3>4
  <2>2. ASSUME Precedes(s, x, y)
        PROVE  Precedes(u, x, y)
    <3>1. PICK i, j \in 1..l : i < j /\ s[i] = x /\ s[j] = y
      BY <1>1, <2>2 DEF Precedes
    <3>2. i \in 1..(l + 1) /\ j \in 1..(l + 1) /\ u[i] = x /\ u[j] = y
      BY <1>2, <3>1
    <3> QED
      BY <1>2, <3>1, <3>2 DEF Precedes
  <2>3. ASSUME x \in ToSet(s), y = z
        PROVE  Precedes(u, x, y)
    <3>1. PICK i \in 1..l : s[i] = x
      BY <1>3, <2>3
    <3>2. i \in 1..(l + 1) /\ l + 1 \in 1..(l + 1) /\ i < l + 1 /\ u[i] = x /\ u[l + 1] = y
      BY <1>2, <2>3, <3>1
    <3> QED
      BY <1>2, <3>2 DEF Precedes
  <2> QED
    BY <2>1, <2>2, <2>3
<1> QED
  BY <1>2, <1>5, <1>7, <1>8 DEF u
-----------------------------------------------------------------------------
(* What is kept of a sequence does not move away from its head.            *)
LEMMA KeptComeEarlier ==
  ASSUME NEW l \in Nat, NEW K \in SUBSET (1..l), NEW N \in Nat, NEW p \in [1..N -> K],
         \A i \in K : \E n \in 1..N : p[n] = i,
         \A m, n \in 1..N : m < n => p[m] < p[n],
         NEW k \in 1..N
  PROVE  k <= p[k]
<1>1. IsFiniteSet(K) /\ Orders(Earlier(K), K)
  BY PositionsInOrder
<1>2. \A m, n \in 1..N : m < n => <<p[m], p[n]>> \in Earlier(K)
  BY DEF Earlier
<1>3. Cardinality(LowerThan(K, Earlier(K), p[k])) = k - 1
  BY <1>1, <1>2, RankOfPosition, ZenonT(40)
<1>4. PICK x \in 1..l : x = p[k]
  OBVIOUS
<1>5. LowerThan(K, Earlier(K), x) \subseteq 1..(x - 1)
  <2>1. LowerThan(K, Earlier(K), x) = {i \in K : i < x}
    BY <1>4 DEF LowerThan, Earlier
  <2>2. \A i \in K : i < x => i \in 1..(x - 1)
    OBVIOUS
  <2> QED
    BY <2>1, <2>2
<1>6. IsFiniteSet(1..(x - 1)) /\ Cardinality(1..(x - 1)) = x - 1
  BY FS_Interval
<1>7. k - 1 <= x - 1
  BY <1>3, <1>4, <1>5, <1>6, FS_Subset
<1> QED
  BY <1>4, <1>7

(* Who is on a list takes at most one place of a sequence of distinct ones.*)
LEMMA RemovedAtMost ==
  ASSUME NEW A, NEW s \in Seq(A), Distinct(s), NEW d \in Seq(A)
  PROVE  LET K == {i \in 1..Len(s) : s[i] \notin ToSet(d)}
         IN  Cardinality(K) \in Nat /\ Cardinality(K) >= Len(s) - Len(d)
<1> DEFINE K == {i \in 1..Len(s) : s[i] \notin ToSet(d)}
           R == {i \in 1..Len(s) : s[i] \in ToSet(d)}
           f == [i \in R |-> s[i]]
<1>1. PICK l \in Nat : Len(s) = l
  BY LenProperties
<1>2. PICK n \in Nat : Len(d) = n /\ d \in [1..n -> A]
  BY LenProperties
<1>3. ToSet(d) = {d[i] : i \in 1..n}
  BY <1>2, ElementsOf
<1>4. IsFiniteSet(ToSet(d)) /\ Cardinality(ToSet(d)) <= n
  <2>1. d \in Surjection(1..n, ToSet(d))
    <3>1. d \in [1..n -> ToSet(d)]
      BY <1>2, <1>3
    <3>2. \A x \in ToSet(d) : \E i \in 1..n : d[i] = x
      BY <1>3
    <3> QED
      BY <3>1, <3>2, Fun_IsSurj
  <2>2. IsFiniteSet(1..n) /\ Cardinality(1..n) = n
    BY FS_Interval
  <2> QED
    BY <2>1, <2>2, FS_Surjection
<1>5. Cardinality(R) <= Cardinality(ToSet(d))
  <2>1. f \in [R -> ToSet(d)]
    OBVIOUS
  <2>2. \A i, j \in R : f[i] = f[j] => i = j
    BY DEF Distinct
  <2>3. f \in Injection(R, ToSet(d))
    BY <2>1, <2>2, Fun_IsInj
  <2> QED
    BY <1>4, <2>3, FS_Injection
<1>6. IsFiniteSet(1..l) /\ Cardinality(1..l) = l
  BY FS_Interval
<1>7. IsFiniteSet(R) /\ IsFiniteSet(K) /\ Cardinality(K) = l - Cardinality(R)
  <2>1. R \in SUBSET (1..l) /\ (1..l) \cap R = R /\ (1..l) \ R = K
    BY <1>1
  <2>2. IsFiniteSet(R)
    BY <1>6, <2>1, FS_Subset
  <2>3. IsFiniteSet((1..l) \ R) /\ Cardinality((1..l) \ R) = l - Cardinality((1..l) \cap R)
    BY <1>6, FS_Difference
  <2> QED
    BY <2>1, <2>2, <2>3
<1>8. Cardinality(R) \in Nat /\ Cardinality(K) \in Nat /\ Cardinality(ToSet(d)) \in Nat
  BY <1>4, <1>7, FS_CardinalityType
<1> QED
  BY <1>1, <1>2, <1>4, <1>5, <1>7, <1>8

(* The concatenation of two sequences without repetitions that have no     *)
(* element in common.                                                      *)
LEMMA ConcatOfDistinct ==
  ASSUME NEW A, NEW s \in Seq(A), Distinct(s), NEW u \in Seq(A), Distinct(u),
         ToSet(s) \cap ToSet(u) = {}
  PROVE  /\ s \o u \in Seq(A) /\ Distinct(s \o u)
         /\ ToSet(s \o u) = ToSet(s) \cup ToSet(u)
<1>1. PICK l \in Nat, m \in Nat : Len(s) = l /\ Len(u) = m
  BY LenProperties
<1>2. PICK v : v = s \o u
  OBVIOUS
<1>3. /\ v \in Seq(A) /\ Len(v) = l + m
      /\ \A i \in 1..l : v[i] = s[i]
      /\ \A i \in 1..m : v[l + i] = u[i]
  <2>1. s \o u \in Seq(A) /\ Len(s \o u) = l + m
    BY <1>1, ConcatProperties
  <2>2. \A i \in 1..(l + m) : (s \o u)[i] = IF i <= l THEN s[i] ELSE u[i - l]
    BY <1>1, ConcatProperties
  <2>3. \A i \in 1..m : l + i \in 1..(l + m) /\ ~(l + i <= l) /\ (l + i) - l = i
    OBVIOUS
  <2>4. \A i \in 1..l : i \in 1..(l + m) /\ i <= l
    OBVIOUS
  <2> QED
    BY <1>2, <2>1, <2>2, <2>3, <2>4
<1>4. \A i \in 1..(l + m) : i \in 1..l \/ \E j \in 1..m : i = l + j
  <2> SUFFICES ASSUME NEW i \in 1..(l + m), i \notin 1..l
               PROVE  \E j \in 1..m : i = l + j
    OBVIOUS
  <2>1. i - l \in 1..m /\ i = l + (i - l)
    OBVIOUS
  <2> QED
    BY <2>1
<1>5. ToSet(s) = {s[i] : i \in 1..l} /\ ToSet(u) = {u[i] : i \in 1..m}
      /\ ToSet(v) = {v[i] : i \in 1..(l + m)}
  <2>1. ToSet(s) = {s[i] : i \in 1..l}
    BY <1>1, ElementsOf
  <2>2. ToSet(u) = {u[i] : i \in 1..m}
    BY <1>1, ElementsOf
  <2>3. ToSet(v) = {v[i] : i \in 1..(l + m)}
    BY <1>3, ElementsOf
  <2> QED
    BY <2>1, <2>2, <2>3
<1>6. ToSet(v) = ToSet(s) \cup ToSet(u)
  <2>1. \A i \in 1..l : i \in 1..(l + m)
    OBVIOUS
  <2>2. \A i \in 1..m : l + i \in 1..(l + m)
    OBVIOUS
  <2>3. ASSUME NEW x \in ToSet(v)
        PROVE  x \in ToSet(s) \cup ToSet(u)
    <3>1. PICK i \in 1..(l + m) : x = v[i]
      BY <1>5
    <3> QED
      BY <1>3, <1>4, <1>5, <3>1
  <2>4. ASSUME NEW x \in ToSet(s)
        PROVE  x \in ToSet(v)
    <3>1. PICK i \in 1..l : x = s[i]
      BY <1>5
    <3> QED
      BY <1>3, <1>5, <2>1, <3>1
  <2>5. ASSUME NEW x \in ToSet(u)
        PROVE  x \in ToSet(v)
    <3>1. PICK i \in 1..m : x = u[i]
      BY <1>5
    <3>2. x = v[l + i] /\ l + i \in 1..(l + m)
      BY <1>3, <2>2, <3>1
    <3> QED
      BY <1>5, <3>2
  <2> QED
    BY <2>3, <2>4, <2>5
<1>7. Distinct(v)
  <2> SUFFICES ASSUME NEW i \in 1..(l + m), NEW j \in 1..(l + m), v[i] = v[j]
               PROVE  i = j
    BY <1>3 DEF Distinct
  <2>1. CASE i \in 1..l /\ j \in 1..l
    BY <1>1, <1>3, <2>1 DEF Distinct
  <2>2. ASSUME NEW a \in 1..m, i = l + a, NEW b \in 1..m, j = l + b
        PROVE  i = j
    <3>1. u[a] = u[b]
      BY <1>3, <2>2
    <3> QED
      BY <1>1, <2>2, <3>1 DEF Distinct
  <2>3. ASSUME NEW a \in 1..m, v[l + a] \in ToSet(s)
        PROVE  FALSE
    BY <1>3, <1>5, <2>3
  <2>4. \A n \in 1..l : v[n] \in ToSet(s)
    BY <1>3, <1>5
  <2> QED
    BY <1>4, <2>1, <2>2, <2>3, <2>4
<1> QED
  BY <1>2, <1>3, <1>6, <1>7

-----------------------------------------------------------------------------
(* Folds.  A fold of the community modules is a function over the subsets  *)
(* of a finite set that is defined by recursion: it takes an element       *)
(* C[s] out of s and combines it with the fold of the rest by F.  That the *)
(* recursion has a solution is proved once, here, by the size of a set     *)
(* that has none: the least one could be built from that below it.         *)
FoldsBy(g, D, A, base, C, F) ==
  /\ g \in [D -> A]
  /\ \A s \in D : g[s] = IF s = {} THEN base ELSE F[<<C[s], g[s \ {C[s]}]>>]

(* C takes an element out of every set, and F combines what it is given.   *)
FoldRule(S, A, base, C, F) ==
  /\ IsFiniteSet(S) /\ base \in A
  /\ \A s \in SUBSET S : s # {} => C[s] \in s
  /\ F \in [S \X A -> A]

(* The subsets of S with at most n elements.                               *)
UpTo(S, n) == {s \in SUBSET S : Cardinality(s) <= n}

LEMMA FoldUpTo ==
  ASSUME NEW S, IsFiniteSet(S), NEW A, NEW base \in A,
         NEW C, \A s \in SUBSET S : s # {} => C[s] \in s,
         NEW F \in [S \X A -> A], NEW n \in Nat
  PROVE  \E g : FoldsBy(g, UpTo(S, n), A, base, C, F)
<1> DEFINE Bad == {m \in Nat : ~\E g : FoldsBy(g, UpTo(S, m), A, base, C, F)}
<1>1. SUFFICES ASSUME Bad # {} PROVE FALSE
  OBVIOUS
<1>2. PICK m \in Bad : \A k \in Bad : m <= k
  BY <1>1, LeastNatural
<1>3. \A s \in SUBSET S : IsFiniteSet(s) /\ Cardinality(s) \in Nat
  BY FS_Subset, FS_CardinalityType
<1>4. CASE m = 0
  <2>1. \A s \in UpTo(S, 0) : s = {}
    BY <1>3, FS_EmptySet DEF UpTo
  <2> DEFINE g == [s \in UpTo(S, 0) |-> base]
  <2>2. FoldsBy(g, UpTo(S, 0), A, base, C, F)
    BY <2>1 DEF FoldsBy
  <2> QED
    BY <1>2, <1>4, <2>2
<1>5. CASE m # 0
  <2>1. m - 1 \in Nat /\ m - 1 \notin Bad
    BY <1>2, <1>5
  <2>2. PICK h : FoldsBy(h, UpTo(S, m - 1), A, base, C, F)
    BY <2>1
  <2>3. ASSUME NEW s \in UpTo(S, m), s # {}
        PROVE  C[s] \in S /\ C[s] \in s /\ s \ {C[s]} \in UpTo(S, m - 1)
    <3>1. s \in SUBSET S /\ Cardinality(s) <= m /\ C[s] \in s
      BY <2>3 DEF UpTo
    <3>2. Cardinality(s \ {C[s]}) = Cardinality(s) - 1
      BY <1>3, <3>1, FS_RemoveElement
    <3> QED
      BY <1>2, <1>3, <3>1, <3>2 DEF UpTo
  <2> DEFINE g == [s \in UpTo(S, m) |-> IF s = {} THEN base ELSE F[<<C[s], h[s \ {C[s]}]>>]]
  <2>4. \A s \in UpTo(S, m) : g[s] \in A
    BY <2>2, <2>3 DEF FoldsBy
  <2>5. ASSUME NEW s \in UpTo(S, m - 1) PROVE s \in UpTo(S, m) /\ g[s] = h[s]
    <3>1. s \in UpTo(S, m)
      BY <1>2, <1>3 DEF UpTo
    <3> QED
      BY <2>2, <3>1 DEF FoldsBy
  <2>6. ASSUME NEW s \in UpTo(S, m)
        PROVE  g[s] = IF s = {} THEN base ELSE F[<<C[s], g[s \ {C[s]}]>>]
    BY <2>3, <2>5
  <2>7. FoldsBy(g, UpTo(S, m), A, base, C, F)
    <3> HIDE DEF g
    <3>1. g \in [UpTo(S, m) -> A]
      BY <2>4 DEF g
    <3> QED
      BY <2>6, <3>1 DEF FoldsBy
  <2> QED
    BY <1>2, <2>7
<1> QED
  BY <1>4, <1>5

LEMMA FoldExists ==
  ASSUME NEW S, NEW A, NEW base, NEW C, NEW F, FoldRule(S, A, base, C, F)
  PROVE  \E g : FoldsBy(g, SUBSET S, A, base, C, F)
<1> DEFINE n == Cardinality(S)
<1> USE DEF FoldRule
<1>1. n \in Nat
  BY FS_CardinalityType
<1>2. \A s \in SUBSET S : Cardinality(s) <= n
  BY FS_Subset
<1>3. UpTo(S, n) = SUBSET S
  BY <1>2 DEF UpTo
<1> HIDE DEF n
<1>4. \E g : FoldsBy(g, UpTo(S, n), A, base, C, F)
  BY <1>1, FoldUpTo
<1> QED
  BY <1>3, <1>4

(* Any other solution agrees with it: on a smallest set where it did not,  *)
(* it would.                                                               *)
SolvesToo(h, S, A, base, C, F) ==
  /\ h[{}] = base
  /\ \A s \in SUBSET S : s # {} /\ h[s \ {C[s]}] \in A => h[s] = F[<<C[s], h[s \ {C[s]}]>>]

LEMMA FoldUnique ==
  ASSUME NEW S, NEW A, NEW base, NEW C, NEW F, FoldRule(S, A, base, C, F),
         NEW g, FoldsBy(g, SUBSET S, A, base, C, F),
         NEW h, SolvesToo(h, S, A, base, C, F)
  PROVE  \A s \in SUBSET S : h[s] = g[s]
<1> DEFINE Bad == {m \in Nat : \E s \in SUBSET S : Cardinality(s) = m /\ h[s] # g[s]}
<1> USE DEF FoldRule
<1>1. \A s \in SUBSET S : IsFiniteSet(s) /\ Cardinality(s) \in Nat
  BY FS_Subset, FS_CardinalityType
<1>2. ASSUME Bad # {} PROVE FALSE
  <2>1. PICK m \in Bad : \A k \in Bad : m <= k
    BY <1>2, LeastNatural
  <2>2. PICK s \in SUBSET S : Cardinality(s) = m /\ h[s] # g[s]
    BY <2>1
  <2>3. s # {}
    BY <2>2 DEF FoldsBy, SolvesToo
  <2> DEFINE r == s \ {C[s]}
  <2>4. r \in SUBSET S /\ Cardinality(r) = m - 1 /\ m - 1 \in Nat /\ C[s] \in S
    <3>1. C[s] \in s
      BY <2>3
    <3>2. Cardinality(r) = Cardinality(s) - 1
      BY <1>1, <3>1, FS_RemoveElement
    <3>3. r \in SUBSET S
      OBVIOUS
    <3> QED
      BY <1>1, <2>2, <3>1, <3>2, <3>3
  <2>5. m - 1 \notin Bad
    <3>1. m \in Nat /\ ~(m <= m - 1)
      OBVIOUS
    <3> QED
      BY <2>1, <3>1
  <2>6. h[r] = g[r]
    BY <2>4, <2>5
  <2>7. g[r] \in A /\ g[s] = F[<<C[s], g[r]>>]
    BY <2>3, <2>4 DEF FoldsBy
  <2> QED
    BY <2>2, <2>3, <2>6, <2>7 DEF SolvesToo
<1> QED
  BY <1>1, <1>2

(* So whatever satisfies the equations ends in A.                          *)
Folds(h, S, A, base, C, F) == FoldRule(S, A, base, C, F) /\ SolvesToo(h, S, A, base, C, F)

LEMMA FoldEnds ==
  ASSUME NEW S, NEW A, NEW base, NEW C, NEW F, NEW h, Folds(h, S, A, base, C, F)
  PROVE  \E g : FoldsBy(g, SUBSET S, A, base, C, F) /\ \A s \in SUBSET S : h[s] = g[s] /\ h[s] \in A
<1>1. FoldRule(S, A, base, C, F) /\ SolvesToo(h, S, A, base, C, F)
  BY DEF Folds
<1>2. PICK g : FoldsBy(g, SUBSET S, A, base, C, F)
  BY <1>1, FoldExists
<1>3. \A s \in SUBSET S : h[s] = g[s]
  BY <1>1, <1>2, FoldUnique
<1>4. \A s \in SUBSET S : g[s] \in A
  BY <1>2 DEF FoldsBy
<1> QED
  BY <1>2, <1>3, <1>4

(* A set of naturals that is finite has a largest and a smallest element.  *)
LEMMA LargestOf ==
  ASSUME NEW n \in Nat, NEW s \in SUBSET (1..n), s # {}
  PROVE  Max(s) \in s /\ \A x \in s : x <= Max(s)
<1> DEFINE T == {k \in Nat : \E x \in s : k = n - x}
<1>1. T \in SUBSET Nat /\ T # {}
  <2>1. PICK x \in s : TRUE
    OBVIOUS
  <2>2. n - x \in T
    BY <2>1
  <2> QED
    BY <2>2
<1>2. PICK k \in T : \A y \in T : k <= y
  BY <1>1, LeastNatural
<1>3. PICK x \in s : k = n - x
  BY <1>2
<1>4. \A y \in s : x >= y
  BY <1>2, <1>3
<1> QED
  BY <1>4 DEF Max

LEMMA SmallestOf ==
  ASSUME NEW s \in SUBSET Nat, s # {}
  PROVE  Min(s) \in s /\ \A x \in s : Min(s) <= x
<1>1. PICK k \in s : \A y \in s : k <= y
  BY LeastNatural
<1> QED
  BY <1>1 DEF Min
-----------------------------------------------------------------------------
(* Sums over a finite set, in whatever order (SumFunctionOnSet).           *)
Some(s) == CHOOSE x \in s : TRUE

SumOver(f, S) == MapThenFoldSet(+, 0, LAMBDA i : f[i], LAMBDA s : CHOOSE x \in s : TRUE, S)

SumsBy(g, f, S) ==
  /\ g \in [SUBSET S -> Int] /\ SumOver(f, S) = g[S] /\ g[{}] = 0
  /\ \A s \in SUBSET S : s # {} => g[s] = f[Some(s)] + g[s \ {Some(s)}]

LEMMA SumRecursion ==
  ASSUME NEW f, NEW S, IsFiniteSet(S), \A x \in S : f[x] \in Int
  PROVE  \E g : SumsBy(g, f, S)
<1> USE DEF SumsBy
<1> DEFINE pick(s) == Some(s)
           step(h) == [s \in SUBSET S |-> IF s = {} THEN 0 ELSE f[pick(s)] + h[s \ {pick(s)}]]
           C == [s \in SUBSET S |-> pick(s)]
           F == [w \in S \X Int |-> f[w[1]] + w[2]]
           h == CHOOSE x : x = step(x)
<1>1. \A s \in SUBSET S : s # {} => pick(s) \in s
  BY DEF Some
<1>2. SumOver(f, S) = h[S]
  BY DEF SumOver, MapThenFoldSet, Some
<1>3. (\A s \in SUBSET S : s # {} => C[s] \in s /\ C[s] = pick(s))
  BY <1>1
<1>4. F \in [S \X Int -> Int] /\ \A x \in S, y \in Int : F[<<x, y>>] = f[x] + y
  OBVIOUS
<1> HIDE DEF C, F, pick
<1>5. FoldRule(S, Int, 0, C, F)
  BY <1>3, <1>4 DEF FoldRule
<1>6. PICK g : FoldsBy(g, SUBSET S, Int, 0, C, F)
  BY <1>5, FoldExists
<1>7. \A s \in SUBSET S : g[s] = IF s = {} THEN 0 ELSE f[pick(s)] + g[s \ {pick(s)}]
  BY <1>3, <1>4, <1>6 DEF FoldsBy, FoldRule
<1>8. g = step(g)
  <2>1. g = [s \in SUBSET S |-> g[s]]
    BY <1>6 DEF FoldsBy
  <2> QED
    BY <1>7, <2>1
<1> HIDE DEF step
<1>9. h = step(h)
  BY <1>8
<1> HIDE DEF h
<1>10. \A s \in SUBSET S : h[s] = g[s]
  <2>1. /\ h[{}] = 0
        /\ \A s \in SUBSET S : s # {} => h[s] = f[C[s]] + h[s \ {C[s]}]
    BY <1>3, <1>9 DEF step
  <2>2. SolvesToo(h, S, Int, 0, C, F)
    BY <1>3, <1>4, <2>1 DEF SolvesToo
  <2> QED
    BY <1>5, <1>6, <2>2, FoldUnique
<1>11. g \in [SUBSET S -> Int] /\ g[{}] = 0
  BY <1>6 DEF FoldsBy
<1>12. \A s \in SUBSET S : s # {} => g[s] = f[pick(s)] + g[s \ {pick(s)}]
  BY <1>7
<1> QED
  BY <1>2, <1>10, <1>11, <1>12 DEF pick

(* The sum of a part is the sum of that part in the sum of the whole.      *)
LEMMA SumStep ==
  ASSUME NEW f, NEW S, IsFiniteSet(S), \A x \in S : f[x] \in Int
  PROVE  /\ SumOver(f, S) \in Int
         /\ SumOver(f, {}) = 0
         /\ S # {} => Some(S) \in S /\ SumOver(f, S) = f[Some(S)] + SumOver(f, S \ {Some(S)})
<1>0. PICK g : SumsBy(g, f, S)
  BY SumRecursion
<1>1. /\ g \in [SUBSET S -> Int] /\ SumOver(f, S) = g[S] /\ g[{}] = 0
      /\ \A s \in SUBSET S : s # {} => g[s] = f[Some(s)] + g[s \ {Some(s)}]
  BY <1>0 DEF SumsBy
<1>2. SumOver(f, {}) = 0
  <2>1. IsFiniteSet({}) /\ \A x \in {} : f[x] \in Int
    BY FS_EmptySet
  <2>2. PICK h : SumsBy(h, f, {})
    BY <2>1, SumRecursion
  <2> QED
    BY <2>2 DEF SumsBy
<1>3. ASSUME S # {} PROVE Some(S) \in S /\ SumOver(f, S) = f[Some(S)] + SumOver(f, S \ {Some(S)})
  <2>1. Some(S) \in S
    BY <1>3 DEF Some
  <2> DEFINE R == S \ {Some(S)}
  <2>2. IsFiniteSet(R) /\ R \subseteq S /\ \A x \in R : f[x] \in Int
    BY FS_Subset
  <2> HIDE DEF R
  <2>20. PICK h : SumsBy(h, f, R)
    BY <2>2, SumRecursion
  <2>3. /\ h \in [SUBSET R -> Int] /\ SumOver(f, R) = h[R] /\ h[{}] = 0
        /\ \A s \in SUBSET R : s # {} => h[s] = f[Some(s)] + h[s \ {Some(s)}]
    BY <2>20 DEF SumsBy
  <2> DEFINE Bad == {m \in Nat : \E s \in SUBSET R : Cardinality(s) = m /\ h[s] # g[s]}
  <2>4. \A s \in SUBSET R : IsFiniteSet(s) /\ Cardinality(s) \in Nat
    BY <2>2, FS_Subset, FS_CardinalityType
  <2>5. ASSUME Bad # {} PROVE FALSE
    <3>1. PICK m \in Bad : \A k \in Bad : m <= k
      BY <2>5, LeastNatural
    <3>2. PICK s \in SUBSET R : Cardinality(s) = m /\ h[s] # g[s]
      BY <3>1
    <3>3. s # {}
      BY <1>1, <2>3, <3>2
    <3>4. Some(s) \in s
      BY <3>3 DEF Some
    <3>5. s \ {Some(s)} \in SUBSET R /\ Cardinality(s \ {Some(s)}) = m - 1 /\ m - 1 \in Nat
      <4>1. Cardinality(s \ {Some(s)}) = Cardinality(s) - 1
        BY <2>4, <3>4, FS_RemoveElement
      <4> QED
        BY <2>4, <3>2, <4>1
    <3>6. m - 1 \notin Bad
      <4>1. m \in Nat /\ ~(m <= m - 1)
        OBVIOUS
      <4> QED
        BY <3>1, <4>1
    <3>7. h[s \ {Some(s)}] = g[s \ {Some(s)}]
      BY <3>5, <3>6
    <3>8. s \in SUBSET S
      BY <2>2
    <3> QED
      BY <1>1, <2>3, <3>2, <3>3, <3>7, <3>8
  <2>6. h[R] = g[R]
    BY <2>4, <2>5
  <2>7. g[S] = f[Some(S)] + g[R]
    BY <1>1, <1>3 DEF R
  <2> QED
    BY <1>1, <2>1, <2>3, <2>6, <2>7 DEF R
<1> QED
  BY <1>1, <1>2, <1>3

(* It does not matter which element is taken out first.                    *)
LEMMA SumTakesOut ==
  ASSUME NEW f, NEW S, IsFiniteSet(S), \A x \in S : f[x] \in Int, NEW x \in S
  PROVE  SumOver(f, S) = f[x] + SumOver(f, S \ {x})
<1> DEFINE Wrong(s) == \E y \in s : SumOver(f, s) # f[y] + SumOver(f, s \ {y})
           Bad == {m \in Nat : \E s \in SUBSET S : Cardinality(s) = m /\ Wrong(s)}
<1>1. \A s \in SUBSET S : /\ IsFiniteSet(s) /\ Cardinality(s) \in Nat /\ \A y \in s : f[y] \in Int
                          /\ \A y \in s : Cardinality(s \ {y}) = Cardinality(s) - 1
  BY FS_Subset, FS_CardinalityType, FS_RemoveElement
<1>2. \A s \in SUBSET S : SumOver(f, s) \in Int
  BY <1>1, SumStep
<1>3. ASSUME Bad # {} PROVE FALSE
  <2>1. PICK m \in Bad : \A k \in Bad : m <= k
    BY <1>3, LeastNatural
  <2>2. PICK s \in SUBSET S : Cardinality(s) = m /\ Wrong(s)
    BY <2>1
  <2>3. PICK y \in s : SumOver(f, s) # f[y] + SumOver(f, s \ {y})
    BY <2>2
  <2> DEFINE c == Some(s)
  <2>4. c \in s /\ SumOver(f, s) = f[c] + SumOver(f, s \ {c})
    BY <1>1, <2>3, SumStep
  <2> HIDE DEF c
  <2>5. y # c
    BY <2>3, <2>4
  <2>6. m - 1 \notin Bad /\ m - 1 \in Nat
    <3>1. m \in Nat /\ ~(m <= m - 1) /\ Cardinality(s \ {y}) = m - 1 /\ Cardinality(s \ {y}) \in Nat
      BY <1>1, <2>2
    <3> QED
      BY <2>1, <3>1
  <2>7. ~Wrong(s \ {c}) /\ ~Wrong(s \ {y})
    <3>1. Cardinality(s \ {c}) = m - 1 /\ Cardinality(s \ {y}) = m - 1
      BY <1>1, <2>2, <2>4
    <3>2. s \ {c} \in SUBSET S /\ s \ {y} \in SUBSET S
      OBVIOUS
    <3> QED
      BY <2>6, <3>1, <3>2
  <2>8. SumOver(f, s \ {c}) = f[y] + SumOver(f, (s \ {c}) \ {y})
    BY <2>5, <2>7
  <2>9. SumOver(f, s \ {y}) = f[c] + SumOver(f, (s \ {y}) \ {c})
    BY <2>4, <2>5, <2>7
  <2>10. (s \ {y}) \ {c} = (s \ {c}) \ {y}
    OBVIOUS
  <2>11. /\ f[c] \in Int /\ f[y] \in Int /\ SumOver(f, (s \ {c}) \ {y}) \in Int
    <3>1. (s \ {c}) \ {y} \in SUBSET S
      OBVIOUS
    <3> QED
      BY <1>1, <1>2, <2>4, <3>1
  <2> DEFINE w == SumOver(f, (s \ {c}) \ {y})
  <2>12. /\ w \in Int /\ SumOver(f, s \ {c}) = f[y] + w /\ SumOver(f, s \ {y}) = f[c] + w
    BY <2>8, <2>9, <2>10, <2>11
  <2> HIDE DEF Wrong, w
  <2>13. SumOver(f, s) = f[c] + (f[y] + w) /\ SumOver(f, s) # f[y] + (f[c] + w)
    BY <2>3, <2>4, <2>12
  <2>14. f[c] + (f[y] + w) = f[y] + (f[c] + w)
    BY <2>11, <2>12
  <2> QED
    BY <2>13, <2>14
<1>4. ~Wrong(S)
  BY <1>1, <1>3
<1> QED
  BY <1>4

(* Induction with a set for the property: over the naturals, and over the  *)
(* subsets of a finite set.                                                *)
LEMMA SetOfNaturals ==
  ASSUME NEW G, 0 \in G, \A n \in Nat : n \in G => n + 1 \in G
  PROVE  \A n \in Nat : n \in G
<1> DEFINE Bad == {n \in Nat : n \notin G}
<1>1. ASSUME Bad # {} PROVE FALSE
  <2>1. PICK m \in Bad : \A k \in Bad : m <= k
    BY <1>1, LeastNatural
  <2>2. m # 0 /\ m - 1 \in Nat /\ ~(m <= m - 1) /\ (m - 1) + 1 = m
    OBVIOUS
  <2>3. m - 1 \in G
    BY <2>1, <2>2
  <2> QED
    BY <2>2, <2>3
<1> QED
  BY <1>1

LEMMA SetOfSubsets ==
  ASSUME NEW S, IsFiniteSet(S), NEW G, {} \in G,
         \A s \in SUBSET S : \A x \in S \ s : s \in G => s \cup {x} \in G
  PROVE  S \in G
<1> DEFINE H == {n \in Nat : \A s \in SUBSET S : Cardinality(s) = n => s \in G}
<1>1. \A s \in SUBSET S : IsFiniteSet(s) /\ Cardinality(s) \in Nat /\ (Cardinality(s) = 0 <=> s = {})
  BY FS_Subset, FS_CardinalityType, FS_EmptySet
<1>2. 0 \in H
  BY <1>1
<1>3. ASSUME NEW n \in Nat, n \in H PROVE n + 1 \in H
  <2>1. SUFFICES ASSUME NEW s \in SUBSET S, Cardinality(s) = n + 1 PROVE s \in G
    OBVIOUS
  <2>2. PICK x \in s : TRUE
    BY <1>1, <2>1
  <2>3. Cardinality(s \ {x}) = n /\ s \ {x} \in SUBSET S
    <3>1. Cardinality(s \ {x}) = Cardinality(s) - 1
      BY <1>1, <2>2, FS_RemoveElement
    <3> QED
      BY <2>1, <3>1
  <2>4. s \ {x} \in G
    BY <1>3, <2>3
  <2>5. x \in S \ (s \ {x}) /\ (s \ {x}) \cup {x} = s
    OBVIOUS
  <2> QED
    BY <2>3, <2>4, <2>5
<1>4. \A n \in Nat : n \in H
  <2> HIDE DEF H
  <2> QED
    BY <1>2, <1>3, SetOfNaturals
<1> QED
  BY <1>1, <1>4

-----------------------------------------------------------------------------
(* What sums are bounded by.                                               *)
LEMMA SumGrows ==
  ASSUME NEW f, NEW S, IsFiniteSet(S), \A x \in S : f[x] \in Int,
         NEW s \in SUBSET S, NEW x \in S \ s
  PROVE  /\ SumOver(f, s) \in Int /\ SumOver(f, s \cup {x}) \in Int /\ f[x] \in Int
         /\ SumOver(f, s \cup {x}) = f[x] + SumOver(f, s)
<1>1. IsFiniteSet(s) /\ IsFiniteSet(s \cup {x}) /\ \A y \in s \cup {x} : f[y] \in Int
  <2>1. s \cup {x} \in SUBSET S
    OBVIOUS
  <2> QED
    BY <2>1, FS_Subset
<1>2. (s \cup {x}) \ {x} = s /\ x \in s \cup {x}
  OBVIOUS
<1>3. SumOver(f, s \cup {x}) = f[x] + SumOver(f, (s \cup {x}) \ {x})
  BY <1>1, <1>2, SumTakesOut
<1>4. SumOver(f, s) \in Int /\ SumOver(f, s \cup {x}) \in Int
  BY <1>1, SumStep
<1> QED
  BY <1>1, <1>2, <1>3, <1>4

LEMMA SumOfNone == ASSUME NEW f PROVE SumOver(f, {}) = 0
BY SumStep, FS_EmptySet

LEMMA SumAtMost ==
  ASSUME NEW f, NEW g, NEW S, IsFiniteSet(S), NEW c \in Nat,
         \A x \in S : f[x] \in Int /\ g[x] \in Int /\ f[x] <= c * g[x]
  PROVE  SumOver(f, S) <= c * SumOver(g, S)
<1> DEFINE G == {s \in SUBSET S : SumOver(f, s) <= c * SumOver(g, s)}
<1>1. {} \in G
  BY SumOfNone
<1>2. ASSUME NEW s \in SUBSET S, NEW x \in S \ s, s \in G PROVE s \cup {x} \in G
  <2>1. /\ SumOver(f, s) \in Int /\ f[x] \in Int
        /\ SumOver(f, s \cup {x}) = f[x] + SumOver(f, s)
    BY SumGrows
  <2>2. /\ SumOver(g, s) \in Int /\ g[x] \in Int
        /\ SumOver(g, s \cup {x}) = g[x] + SumOver(g, s)
    BY SumGrows
  <2> DEFINE a == SumOver(f, s)
             b == SumOver(g, s)
             u == g[x]
  <2>3. a <= c * b /\ f[x] <= c * u /\ a \in Int /\ b \in Int /\ u \in Int
    BY <1>2, <2>1, <2>2
  <2> HIDE DEF a, b, u
  <2>4. c * (u + b) = c * u + c * b /\ c * u \in Int /\ c * b \in Int
    BY <2>3
  <2>5. f[x] + a <= c * (u + b)
    BY <2>1, <2>3, <2>4
  <2>6. SumOver(f, s \cup {x}) <= c * SumOver(g, s \cup {x})
    BY <2>1, <2>2, <2>5 DEF a, b, u
  <2>7. s \cup {x} \in SUBSET S
    OBVIOUS
  <2> QED
    BY <2>6, <2>7
<1>3. S \in G
  <2> HIDE DEF G
  <2> QED
    BY <1>1, <1>2, SetOfSubsets
<1> QED
  BY <1>3

LEMMA SumOfNaturals ==
  ASSUME NEW f, NEW S, IsFiniteSet(S), \A x \in S : f[x] \in Nat
  PROVE  SumOver(f, S) \in Nat
<1> DEFINE G == {s \in SUBSET S : SumOver(f, s) \in Nat}
<1>5. {} \in G
  BY SumOfNone
<1>6. ASSUME NEW s \in SUBSET S, NEW x \in S \ s, s \in G PROVE s \cup {x} \in G
  <2>1. SumOver(f, s \cup {x}) = f[x] + SumOver(f, s) /\ f[x] \in Nat
    BY SumGrows
  <2>2. s \cup {x} \in SUBSET S
    OBVIOUS
  <2> QED
    BY <1>6, <2>1, <2>2
<1>7. S \in G
  <2> HIDE DEF G
  <2> QED
    BY <1>5, <1>6, SetOfSubsets
<1> QED
  BY <1>7

LEMMA SumAgrees ==
  ASSUME NEW f, NEW g, NEW S, IsFiniteSet(S), \A x \in S : f[x] \in Int /\ f[x] = g[x]
  PROVE  SumOver(f, S) = SumOver(g, S)
<1>1. SumOver(f, S) \in Int /\ SumOver(g, S) \in Int
  BY SumStep
<1>2. SumOver(f, S) <= 1 * SumOver(g, S)
  BY SumAtMost, 1 \in Nat
<1>3. SumOver(g, S) <= 1 * SumOver(f, S)
  BY SumAtMost, 1 \in Nat
<1> QED
  BY <1>1, <1>2, <1>3

LEMMA SumOfPart ==
  ASSUME NEW f, NEW S, IsFiniteSet(S), \A x \in S : f[x] \in Nat, NEW T \in SUBSET S
  PROVE  SumOver(f, T) <= SumOver(f, S)
<1> DEFINE G == {s \in SUBSET (S \ T) : SumOver(f, T) <= SumOver(f, T \cup s)}
<1>0. IsFiniteSet(S \ T) /\ IsFiniteSet(T) /\ SumOver(f, T) \in Int
  <2>1. IsFiniteSet(S \ T) /\ IsFiniteSet(T) /\ \A x \in T : f[x] \in Int
    BY FS_Subset
  <2> QED
    BY <2>1, SumStep
<1>1. {} \in G
  <2>1. SumOver(f, T) \in Int /\ T \cup {} = T
    BY <1>0
  <2> QED
    BY <2>1
<1>2. ASSUME NEW s \in SUBSET (S \ T), NEW x \in (S \ T) \ s, s \in G PROVE s \cup {x} \in G
  <2>1. T \cup s \in SUBSET S /\ x \in S \ (T \cup s)
    OBVIOUS
  <2>2. /\ SumOver(f, T \cup s) \in Int /\ f[x] \in Nat
        /\ SumOver(f, (T \cup s) \cup {x}) = f[x] + SumOver(f, T \cup s)
    BY <2>1, SumGrows
  <2>3. (T \cup s) \cup {x} = T \cup (s \cup {x}) /\ s \cup {x} \in SUBSET (S \ T)
    OBVIOUS
  <2> QED
    BY <1>0, <1>2, <2>2, <2>3
<1>3. (S \ T) \in G
  <2> HIDE DEF G
  <2> QED
    BY <1>0, <1>1, <1>2, SetOfSubsets
<1>4. T \cup (S \ T) = S
  OBVIOUS
<1> QED
  BY <1>3, <1>4

LEMMA SumChanges ==
  ASSUME NEW f, NEW g, NEW S, IsFiniteSet(S), NEW z \in S,
         \A x \in S : f[x] \in Int /\ g[x] \in Int /\ (x # z => g[x] = f[x])
  PROVE  SumOver(g, S) = SumOver(f, S) - f[z] + g[z]
<1> DEFINE R == S \ {z}
<1>1. IsFiniteSet(R) /\ \A x \in R : f[x] \in Int /\ f[x] = g[x]
  BY FS_Subset
<1>2. SumOver(f, R) = SumOver(g, R) /\ SumOver(f, R) \in Int
  <2> HIDE DEF R
  <2>1. SumOver(f, R) = SumOver(g, R)
    BY <1>1, SumAgrees
  <2>2. SumOver(f, R) \in Int
    BY <1>1, SumStep
  <2> QED
    BY <2>1, <2>2
<1>3. SumOver(f, S) = f[z] + SumOver(f, R) /\ SumOver(g, S) = g[z] + SumOver(g, R)
  BY SumTakesOut
<1> QED
  BY <1>2, <1>3

LEMMA SumBounded ==
  ASSUME NEW f, NEW S, IsFiniteSet(S), NEW c \in Nat, \A x \in S : f[x] \in Int /\ f[x] <= c
  PROVE  SumOver(f, S) <= c * Cardinality(S)
<1> DEFINE G == {s \in SUBSET S : SumOver(f, s) <= c * Cardinality(s)}
<1>1. {} \in G
  BY SumOfNone, FS_EmptySet
<1>2. ASSUME NEW s \in SUBSET S, NEW x \in S \ s, s \in G PROVE s \cup {x} \in G
  <2>1. /\ SumOver(f, s) \in Int /\ f[x] \in Int
        /\ SumOver(f, s \cup {x}) = f[x] + SumOver(f, s)
    BY SumGrows
  <2>2. IsFiniteSet(s)
    BY FS_Subset
  <2> DEFINE k == Cardinality(s)
  <2>3. k \in Nat /\ Cardinality(s \cup {x}) = k + 1
    BY <2>2, FS_CardinalityType, FS_AddElement
  <2>4. SumOver(f, s) <= c * k
    BY <1>2
  <2> HIDE DEF k
  <2>5. c * (k + 1) = c * k + c /\ c * k \in Nat
    BY <2>3
  <2>6. SumOver(f, s \cup {x}) <= c * (k + 1)
    BY <2>1, <2>4, <2>5
  <2>7. s \cup {x} \in SUBSET S
    OBVIOUS
  <2> QED
    BY <2>3, <2>6, <2>7
<1>3. S \in G
  <2> HIDE DEF G
  <2> QED
    BY <1>1, <1>2, SetOfSubsets
<1> QED
  BY <1>3

(* A sum may be taken over other names of the same things: b gives the     *)
(* elements of T, each its own, as names to those of S.                    *)
Renames(b, g, T, f, S) ==
  /\ b \in [T -> S]
  /\ \A x, y \in T : b[x] = b[y] => x = y
  /\ \A y \in S : \E x \in T : b[x] = y
  /\ \A x \in T : g[x] \in Int /\ g[x] = f[b[x]]

LEMMA SumRenamed ==
  ASSUME NEW f, NEW S, NEW g, NEW T, IsFiniteSet(T), NEW b, Renames(b, g, T, f, S)
  PROVE  SumOver(g, T) = SumOver(f, S)
<1> USE DEF Renames
<1> DEFINE im(s) == {b[x] : x \in s}
           G == {s \in SUBSET T : SumOver(g, s) = SumOver(f, im(s))}
<1>0. IsFiniteSet(im(T)) /\ \A y \in im(T) : f[y] \in Int
  <2>1. b \in Surjection(T, im(T))
    BY DEF Surjection
  <2>2. IsFiniteSet(im(T))
    BY <2>1, FS_Surjection
  <2> QED
    BY <2>2
<1>1. {} \in G
  <2>1. im({}) = {}
    OBVIOUS
  <2> HIDE DEF im
  <2> QED
    BY <2>1, SumOfNone
<1>2. ASSUME NEW s \in SUBSET T, NEW x \in T \ s, s \in G PROVE s \cup {x} \in G
  <2>1. SumOver(g, s \cup {x}) = g[x] + SumOver(g, s)
    BY SumGrows
  <2>2. im(s \cup {x}) = im(s) \cup {b[x]} /\ im(s) \in SUBSET im(T) /\ b[x] \in im(T) \ im(s)
    OBVIOUS
  <2>3. SumOver(f, im(s) \cup {b[x]}) = f[b[x]] + SumOver(f, im(s))
    <3> HIDE DEF im
    <3> QED
      BY <1>0, <2>2, SumGrows
  <2>4. s \cup {x} \in SUBSET T
    OBVIOUS
  <2> HIDE DEF im
  <2> QED
    BY <1>2, <2>1, <2>2, <2>3, <2>4
<1>3. T \in G
  <2> HIDE DEF G, Renames
  <2> QED
    BY <1>1, <1>2, SetOfSubsets
<1>4. im(T) = S
  OBVIOUS
<1> QED
  BY <1>3, <1>4

-----------------------------------------------------------------------------
(* Folds of a sequence: FoldLeft takes the last position out of a set of   *)
(* positions and FoldRight the first one, so that only the folds of        *)
(* prefixes, or of suffixes, are met.                                      *)
HighestOf(n) == [s \in SUBSET (1..n) |-> Max(s)]
LowestOf(n) == [s \in SUBSET (1..n) |-> Min(s)]

LEMMA PositionRules ==
  ASSUME NEW n \in Nat, NEW A, NEW base \in A, NEW F \in [(1..n) \X A -> A]
  PROVE  /\ FoldRule(1..n, A, base, HighestOf(n), F)
         /\ FoldRule(1..n, A, base, LowestOf(n), F)
<1>1. IsFiniteSet(1..n)
  BY FS_Interval, 1 \in Int, n \in Int
<1>2. ASSUME NEW s \in SUBSET (1..n), s # {} PROVE HighestOf(n)[s] \in s /\ LowestOf(n)[s] \in s
  <2>1. Max(s) \in s
    BY <1>2, LargestOf
  <2>2. Min(s) \in s
    <3>1. s \in SUBSET Nat
      OBVIOUS
    <3> QED
      BY <1>2, <3>1, SmallestOf
  <2> QED
    BY <2>1, <2>2 DEF HighestOf, LowestOf
<1> QED
  BY <1>1, <1>2 DEF FoldRule

LEMMA PrefixesAndSuffixes ==
  ASSUME NEW n \in Nat, NEW k \in 1..n
  PROVE  /\ HighestOf(n)[1..k] = k /\ (1..k) \ {k} = 1..(k - 1)
         /\ LowestOf(n)[k..n] = k /\ (k..n) \ {k} = (k + 1)..n
<1>1. 1..k \in SUBSET (1..n) /\ k..n \in SUBSET (1..n) /\ k \in 1..k /\ k \in k..n
  OBVIOUS
<1>2. Max(1..k) \in 1..k /\ \A x \in 1..k : x <= Max(1..k)
  BY <1>1, LargestOf
<1>3. Min(k..n) \in k..n /\ \A x \in k..n : Min(k..n) <= x
  <2>1. k..n \in SUBSET Nat
    OBVIOUS
  <2> QED
    BY <1>1, <2>1, SmallestOf
<1>4. Max(1..k) = k
  BY <1>1, <1>2
<1>5. Min(k..n) = k
  BY <1>1, <1>3
<1>6. (1..k) \ {k} = 1..(k - 1) /\ (k..n) \ {k} = (k + 1)..n
  OBVIOUS
<1> QED
  BY <1>1, <1>4, <1>5, <1>6 DEF HighestOf, LowestOf

(* A fold from the left climbs the prefixes.                               *)
FoldsLeft(g, n, A, base, F) == FoldsBy(g, SUBSET (1..n), A, base, HighestOf(n), F)
Climbs(g, n, A, base, F) ==
  /\ \A k \in 0..n : g[1..k] \in A
  /\ g[1..0] = base
  /\ \A k \in 1..n : g[1..k] = F[<<k, g[1..(k - 1)]>>]

LEMMA LeftFold ==
  ASSUME NEW n \in Nat, NEW A, NEW base, NEW F, NEW g, FoldsLeft(g, n, A, base, F)
  PROVE  Climbs(g, n, A, base, F)
<1>0. FoldsBy(g, SUBSET (1..n), A, base, HighestOf(n), F)
  BY DEF FoldsLeft
<1>1. \A k \in 0..n : 1..k \in SUBSET (1..n)
  OBVIOUS
<1>2. 1..0 = {}
  OBVIOUS
<1>3. ASSUME NEW k \in 1..n PROVE g[1..k] = F[<<k, g[1..(k - 1)]>>]
  <2>1. 1..k # {} /\ 1..k \in SUBSET (1..n)
    OBVIOUS
  <2>2. HighestOf(n)[1..k] = k /\ (1..k) \ {k} = 1..(k - 1)
    BY PrefixesAndSuffixes
  <2> DEFINE s == 1..k
  <2>3. g[s] = F[<<HighestOf(n)[s], g[s \ {HighestOf(n)[s]}]>>]
    <3> HIDE DEF s
    <3>1. s # {} /\ s \in SUBSET (1..n)
      BY <2>1 DEF s
    <3> QED
      BY <1>0, <3>1 DEF FoldsBy
  <2> QED
    BY <2>2, <2>3
<1>4. g[1..0] = base
  BY <1>0, <1>1, <1>2 DEF FoldsBy
<1>5. \A k \in 0..n : g[1..k] \in A
  BY <1>0, <1>1 DEF FoldsBy
<1> QED
  BY <1>3, <1>4, <1>5 DEF Climbs

(* A fold from the right descends the suffixes.                            *)
FoldsRight(g, n, A, base, F) == FoldsBy(g, SUBSET (1..n), A, base, LowestOf(n), F)
Descends(g, n, A, base, F) ==
  /\ \A k \in 1..(n + 1) : g[k..n] \in A
  /\ g[(n + 1)..n] = base
  /\ \A k \in 1..n : g[k..n] = F[<<k, g[(k + 1)..n]>>]

LEMMA RightFold ==
  ASSUME NEW n \in Nat, NEW A, NEW base, NEW F, NEW g, FoldsRight(g, n, A, base, F)
  PROVE  Descends(g, n, A, base, F)
<1>0. FoldsBy(g, SUBSET (1..n), A, base, LowestOf(n), F)
  BY DEF FoldsRight
<1>1. \A k \in 1..(n + 1) : k..n \in SUBSET (1..n)
  OBVIOUS
<1>2. (n + 1)..n = {}
  OBVIOUS
<1>3. ASSUME NEW k \in 1..n PROVE g[k..n] = F[<<k, g[(k + 1)..n]>>]
  <2>1. k..n # {} /\ k..n \in SUBSET (1..n)
    OBVIOUS
  <2>2. LowestOf(n)[k..n] = k /\ (k..n) \ {k} = (k + 1)..n
    BY PrefixesAndSuffixes
  <2> DEFINE s == k..n
  <2>3. g[s] = F[<<LowestOf(n)[s], g[s \ {LowestOf(n)[s]}]>>]
    <3> HIDE DEF s
    <3>1. s # {} /\ s \in SUBSET (1..n)
      BY <2>1 DEF s
    <3> QED
      BY <1>0, <3>1 DEF FoldsBy
  <2> QED
    BY <2>2, <2>3
<1>4. g[(n + 1)..n] = base
  BY <1>0, <1>1, <1>2 DEF FoldsBy
<1>5. \A k \in 1..(n + 1) : g[k..n] \in A
  BY <1>0, <1>1 DEF FoldsBy
<1> QED
  BY <1>3, <1>4, <1>5 DEF Descends

(* A sum over what AtPositions keeps is a sum over the positions kept.     *)
LEMMA SumAtPositions ==
  ASSUME NEW A, NEW s \in Seq(A), NEW K \in SUBSET (1..Len(s)), NEW u, u = AtPositions(s, K),
         NEW f, NEW g, \A i \in 1..Len(s) : f[i] \in Nat,
         \A k \in 1..Len(u), i \in K : u[k] = s[i] => g[k] = f[i]
  PROVE  SumOver(g, 1..Len(u)) <= SumOver(f, 1..Len(s))
<1>1. PICK p \in [1..Len(u) -> K] :
        /\ \A n \in 1..Len(u) : u[n] = s[p[n]]
        /\ \A m, n \in 1..Len(u) : m < n => p[m] < p[n]
        /\ \A i \in K : \E n \in 1..Len(u) : p[n] = i
  BY PlacesKept
<1>2. u \in Seq(A) /\ Len(u) \in Nat /\ Len(s) \in Nat
  BY PlacesKept, LenProperties
<1>3. IsFiniteSet(1..Len(u)) /\ IsFiniteSet(1..Len(s))
  BY <1>2, FS_Interval, 1 \in Int
<1>4. \A m, n \in 1..Len(u) : p[m] = p[n] => m = n
  <2>1. \A m \in 1..Len(u) : p[m] \in K
    BY <1>1
  <2>2. \A i \in K : i \in Int
    BY <1>2
  <2>3. \A m, n \in 1..Len(u) : m < n \/ n < m \/ m = n
    BY <1>2
  <2>4. \A i, j \in K : i < j => i # j
    BY <2>2
  <2> QED
    BY <1>1, <2>1, <2>3, <2>4
<1>5. \A n \in 1..Len(u) : g[n] = f[p[n]] /\ g[n] \in Int
  <2>1. \A m \in 1..Len(u) : p[m] \in K
    BY <1>1
  <2>2. \A i \in K : f[i] \in Int
    OBVIOUS
  <2>3. \A m \in 1..Len(u) : g[m] = f[p[m]]
    BY <1>1, <2>1
  <2> QED
    BY <2>1, <2>2, <2>3
<1>7. SumOver(g, 1..Len(u)) = SumOver(f, K)
  <2>1. Renames(p, g, 1..Len(u), f, K)
    BY <1>1, <1>4, <1>5 DEF Renames
  <2> QED
    BY <1>3, <2>1, SumRenamed
<1>8. SumOver(f, K) <= SumOver(f, 1..Len(s))
  <2> DEFINE T == 1..Len(s)
  <2>1. IsFiniteSet(T) /\ K \in SUBSET T /\ \A i \in T : f[i] \in Nat
    BY <1>3
  <2> HIDE DEF T
  <2>2. SumOver(f, K) <= SumOver(f, T)
    BY <2>1, SumOfPart
  <2> QED
    BY <2>2 DEF T
<1> QED
  BY <1>7, <1>8

(* A whole number of times u is no more than c, and the count grows with   *)
(* what is divided.                                                        *)
LEMMA DivBounded ==
  ASSUME NEW a \in Nat, NEW b \in Nat, NEW u \in Nat \ {0}, NEW c \in Nat
  PROVE  /\ a \div u \in Nat
         /\ a <= u * c => a \div u <= c
         /\ a <= b => a \div u <= b \div u
<1> DEFINE q == a \div u
           r == b \div u
<1>1. q \in Int /\ q * u <= a /\ a < (q + 1) * u
  OBVIOUS
<1>2. r \in Int /\ r * u <= b /\ b < (r + 1) * u
  OBVIOUS
<1> HIDE DEF q, r
<1>3. q >= 0
  BY <1>1
<1>4. a <= u * c => q <= c
  BY <1>1
<1>5. a <= b => q <= r
  BY <1>1, <1>2
<1> QED
  BY <1>1, <1>3, <1>4, <1>5 DEF q, r
=============================================================================
