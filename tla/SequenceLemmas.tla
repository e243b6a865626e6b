--------------------------- MODULE SequenceLemmas ---------------------------
(***************************************************************************)
(* What the operators of the community modules return that the models are  *)
(* built from: taking an element out of a list, appending one, cutting a   *)
(* list, looking for the first, and the ends of a set of numbers.          *)
(***************************************************************************)
EXTENDS Integers, FiniteSets, SequencesExt, FiniteSetTheorems,
        SequenceTheorems, WellFoundedInduction, TLAPS

(* Removing one place of a list shifts what comes after it by one.          *)
LEMMA RemoveAtShifts ==
  ASSUME NEW S, NEW s \in Seq(S), NEW i \in 1 .. Len(s)
  PROVE  /\ RemoveAt(s, i) \in Seq(S)
         /\ Len(RemoveAt(s, i)) = Len(s) - 1
         /\ \A j \in 1 .. Len(s) - 1 :
              RemoveAt(s, i)[j] = IF j < i THEN s[j] ELSE s[j + 1]
<1> DEFINE a == SubSeq(s, 1, i - 1)
           b == SubSeq(s, i + 1, Len(s))
<1>1. Len(s) \in Nat /\ \A k \in 1 .. Len(s) : s[k] \in S
  BY LenProperties, ElementOfSeq
<1>2. a \in Seq(S) /\ Len(a) = i - 1 /\ \A k \in 1 .. i - 1 : a[k] = s[k]
  <2>1. \A k \in 1 .. i - 1 : s[k] \in S
    BY <1>1
  <2> QED
    BY <1>1, <2>1, SubSeqProperties
<1>3. b \in Seq(S) /\ Len(b) = Len(s) - i
  <2>1. \A k \in i + 1 .. Len(s) : s[k] \in S
    BY <1>1
  <2> QED
    BY <1>1, <2>1, SubSeqProperties
<1>4. \A k \in 1 .. Len(s) - i : b[k] = s[i + k]
  <2>1. \A k \in i + 1 .. Len(s) : s[k] \in S
    BY <1>1
  <2>2. \A k \in 1 .. Len(s) - (i + 1) + 1 : b[k] = s[(i + 1) + k - 1]
    BY <1>1, <2>1, SubSeqProperties
  <2>3. TAKE k \in 1 .. Len(s) - i
  <2>4. k \in 1 .. Len(s) - (i + 1) + 1 /\ (i + 1) + k - 1 = i + k
    BY <1>1
  <2> QED
    BY <2>2, <2>4
<1>5. RemoveAt(s, i) = a \o b
  BY DEF RemoveAt
<1> HIDE DEF a, b
<1>6. PICK c : c = a \o b
  OBVIOUS
<1>7. c \in Seq(S) /\ Len(c) = Len(s) - 1
  <2>1. c \in Seq(S) /\ Len(c) = Len(a) + Len(b)
    BY <1>2, <1>3, <1>6, ConcatProperties
  <2> QED
    BY <1>1, <1>2, <1>3, <2>1
<1>8. \A j \in 1 .. Len(s) - 1 : c[j] = IF j <= i - 1 THEN a[j] ELSE b[j - (i - 1)]
  <2>1. Len(a) + Len(b) = Len(s) - 1
    BY <1>1, <1>2, <1>3
  <2>2. \A j \in 1 .. Len(a) + Len(b) :
          (a \o b)[j] = IF j <= Len(a) THEN a[j] ELSE b[j - Len(a)]
    BY <1>2, <1>3, ConcatProperties
  <2> QED
    BY <1>2, <1>6, <2>1, <2>2
<1>9. \A j \in 1 .. Len(s) - 1 : c[j] = IF j < i THEN s[j] ELSE s[j + 1]
  <2>1. TAKE j \in 1 .. Len(s) - 1
  <2>2. CASE j < i
    <3>1. j \in 1 .. i - 1 /\ j <= i - 1
      BY <1>1, <2>2
    <3> QED
      BY <1>2, <1>8, <2>2, <3>1
  <2>3. CASE ~(j < i)
    <3>1. /\ ~(j <= i - 1)
          /\ j - (i - 1) \in 1 .. Len(s) - i
          /\ i + (j - (i - 1)) = j + 1
      BY <1>1, <2>3
    <3>2. b[j - (i - 1)] = s[i + (j - (i - 1))]
      BY <1>4, <3>1
    <3> QED
      BY <1>8, <2>3, <3>1, <3>2
  <2> QED
    BY <2>2, <2>3
<1> QED
  BY <1>5, <1>6, <1>7, <1>9

(* Removing a place of a list without repetitions removes the element.      *)
LEMMA RemoveAtKeepsDistinct ==
  ASSUME NEW S, NEW xs \in Seq(S), IsInjective(xs), NEW i \in 1 .. Len(xs)
  PROVE  /\ IsInjective(RemoveAt(xs, i))
         /\ Range(RemoveAt(xs, i)) = Range(xs) \ {xs[i]}
<1> DEFINE ys == RemoveAt(xs, i)
<1>1. /\ Len(xs) \in Nat /\ DOMAIN xs = 1 .. Len(xs)
      /\ \A j, k \in 1 .. Len(xs) : xs[j] = xs[k] => j = k
      /\ Range(xs) = {xs[j] : j \in 1 .. Len(xs)}
  BY LenProperties DEF IsInjective, Range
<1>2. /\ ys \in Seq(S)
      /\ Len(ys) = Len(xs) - 1
      /\ \A j \in 1 .. Len(xs) - 1 :
           ys[j] = IF j < i THEN xs[j] ELSE xs[j + 1]
  BY RemoveAtShifts
<1> HIDE DEF ys
<1>3. DOMAIN ys = 1 .. Len(xs) - 1 /\ Range(ys) = {ys[j] : j \in 1 .. Len(xs) - 1}
  BY <1>2, LenProperties DEF Range
<1>4. IsInjective(ys)
  <2>1. ASSUME NEW j \in 1 .. Len(xs) - 1, NEW k \in 1 .. Len(xs) - 1,
               ys[j] = ys[k]
        PROVE  j = k
    <3> DEFINE J == IF j < i THEN j ELSE j + 1
               K == IF k < i THEN k ELSE k + 1
    <3>1. J \in 1 .. Len(xs) /\ K \in 1 .. Len(xs)
      BY <1>1
    <3>2. xs[J] = xs[K]
      BY <1>2, <2>1
    <3>3. J = K
      BY <1>1, <3>1, <3>2
    <3> QED
      BY <1>1, <3>3
  <2> QED
    BY <1>3, <2>1 DEF IsInjective
<1>5. Range(ys) \subseteq Range(xs) \ {xs[i]}
  <2>1. ASSUME NEW j \in 1 .. Len(xs) - 1
        PROVE  ys[j] \in Range(xs) \ {xs[i]}
    <3> DEFINE J == IF j < i THEN j ELSE j + 1
    <3>1. J \in 1 .. Len(xs) /\ J # i
      BY <1>1
    <3>2. ys[j] = xs[J]
      BY <1>2
    <3>3. xs[J] # xs[i]
      BY <1>1, <3>1
    <3> QED
      BY <1>1, <3>1, <3>2, <3>3
  <2> QED
    BY <1>3, <2>1
<1>6. Range(xs) \ {xs[i]} \subseteq Range(ys)
  <2>1. ASSUME NEW j \in 1 .. Len(xs), xs[j] # xs[i]
        PROVE  xs[j] \in Range(ys)
    <3> DEFINE J == IF j < i THEN j ELSE j - 1
    <3>1. j # i
      BY <1>1, <2>1
    <3>2. J \in 1 .. Len(xs) - 1 /\ (IF J < i THEN J ELSE J + 1) = j
      BY <1>1, <3>1
    <3>3. ys[J] = xs[j]
      BY <1>2, <3>2
    <3> QED
      BY <1>3, <3>2, <3>3
  <2> QED
    BY <1>1, <2>1
<1> QED
  BY <1>4, <1>5, <1>6 DEF ys

(* An element appended to a list that does not hold it.                     *)
LEMMA AppendIsDistinct ==
  ASSUME NEW S, NEW xs \in Seq(S), NEW v \in S,
         IsInjective(xs), v \notin Range(xs)
  PROVE  /\ Append(xs, v) \in Seq(S)
         /\ IsInjective(Append(xs, v))
         /\ Range(Append(xs, v)) = Range(xs) \cup {v}
<1> DEFINE ys == Append(xs, v)
<1>1. /\ Len(xs) \in Nat /\ DOMAIN xs = 1 .. Len(xs)
      /\ \A j, k \in 1 .. Len(xs) : xs[j] = xs[k] => j = k
      /\ \A j \in 1 .. Len(xs) : xs[j] # v
  BY LenProperties DEF IsInjective, Range
<1>2. /\ ys \in Seq(S) /\ Len(ys) = Len(xs) + 1
      /\ \A j \in 1 .. Len(xs) : ys[j] = xs[j]
      /\ ys[Len(xs) + 1] = v
  BY AppendProperties
<1> HIDE DEF ys
<1>3. DOMAIN ys = 1 .. Len(xs) + 1
  BY <1>2, LenProperties
<1>4. IsInjective(ys)
  BY <1>1, <1>2, <1>3 DEF IsInjective
<1>5. Range(ys) = Range(xs) \cup {v}
  BY <1>1, <1>2, <1>3 DEF Range
<1> QED
  BY <1>2, <1>4, <1>5 DEF ys

(* A finite set whose members have an integer rank has a highest one: a     *)
(* member whose set of members above it is the smallest such set.           *)
LEMMA HighestExists ==
  ASSUME NEW S, IsFiniteSet(S), S # {}, NEW rank \in [S -> Int]
  PROVE  \E p \in S : \A q \in S : rank[q] <= rank[p]
<1> DEFINE Above(p) == {q \in S : rank[q] > rank[p]}
           T == {Above(p) : p \in S}
           R == StrictSubsetOrdering(S)
<1>1. IsWellFoundedOn(R, FiniteSubsetsOf(S))
  BY FS_StrictSubsetOrderingWellFounded
<1>2. T \subseteq FiniteSubsetsOf(S) /\ T # {}
  <2>1. \A p \in S : Above(p) \in FiniteSubsetsOf(S)
    <3>1. \A p \in S : Above(p) \in SUBSET S
      OBVIOUS
    <3> HIDE DEF Above
    <3> QED
      BY <3>1, FS_FiniteSubsetsOfFinite
  <2> HIDE DEF Above
  <2> QED
    BY <2>1
<1>3. PICK A \in T : \A B \in T : <<B, A>> \notin R
  BY <1>1, <1>2, WFMin
<1>4. PICK p \in S : A = Above(p)
  BY <1>3
<1>5. ASSUME NEW q \in S, rank[q] > rank[p]
      PROVE  FALSE
  <2>1. Above(q) \subseteq Above(p) /\ q \in Above(p) /\ q \notin Above(q)
    BY <1>5
  <2>2. <<Above(q), Above(p)>> \in R
    BY <2>1 DEF StrictSubsetOrdering
  <2> QED
    BY <1>3, <1>4, <2>2
<1> QED
  BY <1>5

(* Min of a set of natural numbers is its least member.                     *)
LEMMA LeastExists ==
  ASSUME NEW I \in SUBSET Nat, I # {}
  PROVE  Min(I) \in I /\ \A j \in I : Min(I) <= j
<1>1. PICK n \in I : n \in Nat /\ I \subseteq Nat
  OBVIOUS
<1> DEFINE low == {j \in I : j <= n}
           rank == [j \in low |-> -j]
<1>2. IsFiniteSet(low) /\ low # {}
  <2>1. n \in low
    BY <1>1
  <2>2. \A j \in low : j \in 0 .. n
    <3>1. TAKE j \in low
    <3>2. j \in Nat /\ j <= n
      BY <1>1
    <3> QED
      BY <1>1, <3>2
  <2>3. IsFiniteSet(0 .. n)
    BY <1>1, FS_Interval
  <2> HIDE DEF low
  <2>4. low \in SUBSET (0 .. n)
    BY <2>2
  <2> QED
    BY <2>1, <2>3, <2>4, FS_Subset
<1>3. rank \in [low -> Int]
  <2>1. \A j \in low : -j \in Int
    BY <1>1
  <2> HIDE DEF low
  <2> QED
    BY <2>1
<1>4. PICK p \in low : \A j \in low : rank[j] <= rank[p]
  <2> HIDE DEF low, rank
  <2> QED
    BY <1>2, <1>3, HighestExists
<1>5. \A j \in low : p <= j
  <2>1. \A j \in low : rank[j] = -j /\ j \in Nat
    BY <1>1
  <2> HIDE DEF rank, low
  <2> QED
    BY <1>4, <2>1
<1>6. p \in I /\ \A j \in I : p <= j
  BY <1>1, <1>5
<1> QED
  BY <1>6 DEF Min

(* RemoveFirst takes out one occurrence, before which there is none.        *)
LEMMA RemoveFirstIs ==
  ASSUME NEW S, NEW s \in Seq(S), NEW e \in Range(s)
  PROVE  \E i \in 1 .. Len(s) : /\ s[i] = e /\ RemoveFirst(s, e) = RemoveAt(s, i)
                                /\ \A j \in 1 .. Len(s) : s[j] = e => i <= j
<1> DEFINE I == {i \in 1 .. Len(s) : s[i] = e}
<1>1. Len(s) \in Nat /\ Range(s) = {s[i] : i \in 1 .. Len(s)}
  BY LenProperties DEF Range
<1>2. I \in SUBSET Nat /\ I # {}
  BY <1>1
<1>3. RemoveFirst(s, e) = RemoveAt(s, Min(I))
  <2>1. \E i \in 1 .. Len(s) : s[i] = e
    BY <1>1
  <2> QED
    BY <1>2, <2>1 DEF RemoveFirst, SelectInSeq
<1>4. Min(I) \in I /\ \A j \in I : Min(I) <= j
  <2> HIDE DEF I
  <2> QED
    BY <1>2, LeastExists
<1> QED
  BY <1>3, <1>4

(* From a list without repetitions, RemoveFirst takes the element.          *)
LEMMA RemoveFirstRemoves ==
  ASSUME NEW S, NEW s \in Seq(S), IsInjective(s), NEW e \in Range(s)
  PROVE  /\ RemoveFirst(s, e) \in Seq(S)
         /\ Len(RemoveFirst(s, e)) = Len(s) - 1
         /\ IsInjective(RemoveFirst(s, e))
         /\ Range(RemoveFirst(s, e)) = Range(s) \ {e}
         /\ s[1] # e => Len(s) >= 2 /\ RemoveFirst(s, e)[1] = s[1]
<1>1. PICK i \in 1 .. Len(s) : s[i] = e /\ RemoveFirst(s, e) = RemoveAt(s, i)
  BY RemoveFirstIs
<1>2. /\ RemoveAt(s, i) \in Seq(S)
      /\ Len(RemoveAt(s, i)) = Len(s) - 1
      /\ \A j \in 1 .. Len(s) - 1 :
           RemoveAt(s, i)[j] = IF j < i THEN s[j] ELSE s[j + 1]
  BY RemoveAtShifts
<1>3. /\ IsInjective(RemoveAt(s, i))
      /\ Range(RemoveAt(s, i)) = Range(s) \ {e}
  BY <1>1, RemoveAtKeepsDistinct
<1>4. ASSUME s[1] # e
      PROVE  Len(s) >= 2 /\ RemoveAt(s, i)[1] = s[1]
  <2>1. Len(s) \in Nat /\ i \in 1 .. Len(s) /\ i # 1
    BY <1>1, <1>4, LenProperties
  <2>2. Len(s) >= 2 /\ 1 < i /\ 1 \in 1 .. Len(s) - 1
    BY <2>1
  <2> QED
    BY <1>2, <2>2
<1> QED
  BY <1>1, <1>2, <1>3, <1>4

(* A piece of a list without repetitions.                                   *)
LEMMA PieceIsDistinct ==
  ASSUME NEW S, NEW xs \in Seq(S), IsInjective(xs),
         NEW m \in Nat \ {0}, NEW n \in Nat, n <= Len(xs)
  PROVE  /\ SubSeq(xs, m, n) \in Seq(S)
         /\ Len(SubSeq(xs, m, n)) = IF m <= n THEN n - m + 1 ELSE 0
         /\ IsInjective(SubSeq(xs, m, n))
         /\ Range(SubSeq(xs, m, n)) = {xs[i] : i \in m .. n}
<1> DEFINE ys == SubSeq(xs, m, n)
           l == Len(ys)
<1>1. Len(xs) \in Nat /\ DOMAIN xs = 1 .. Len(xs)
  BY LenProperties
<1>2. \A i \in m .. n : xs[i] \in S
  BY <1>1, ElementOfSeq
<1>3. /\ ys \in Seq(S)
      /\ l = IF m <= n THEN n - m + 1 ELSE 0
      /\ \A i \in 1 .. n - m + 1 : ys[i] = xs[m + i - 1]
  BY <1>2, SubSeqProperties
<1>4. DOMAIN ys = 1 .. l /\ l \in Nat
  BY <1>3, LenProperties
<1> HIDE DEF ys, l
<1>5. \A i \in 1 .. l : /\ i \in 1 .. n - m + 1
                        /\ m + i - 1 \in m .. n /\ m + i - 1 \in 1 .. Len(xs)
  BY <1>1, <1>3
<1>6. IsInjective(ys)
  <2>1. SUFFICES ASSUME NEW i \in 1 .. l, NEW j \in 1 .. l, ys[i] = ys[j]
                 PROVE  i = j
    BY <1>4 DEF IsInjective
  <2>2. xs[m + i - 1] = xs[m + j - 1]
    BY <1>3, <1>5, <2>1
  <2>3. m + i - 1 = m + j - 1
    BY <1>1, <1>5, <2>2 DEF IsInjective
  <2> QED
    BY <2>3
<1>7. Range(ys) = {xs[i] : i \in m .. n}
  <2>1. \A i \in 1 .. l : ys[i] \in {xs[k] : k \in m .. n}
    BY <1>3, <1>5
  <2>2. ASSUME NEW k \in m .. n
        PROVE  xs[k] \in {ys[i] : i \in 1 .. l}
    <3>1. PICK i \in 1 .. l : m + i - 1 = k
      <4>1. k - m + 1 \in 1 .. l /\ m + (k - m + 1) - 1 = k
        BY <1>3
      <4> QED
        BY <4>1
    <3>2. ys[i] = xs[k]
      BY <1>3, <1>5, <3>1
    <3> QED
      BY <3>2
  <2> QED
    BY <1>4, <2>1, <2>2 DEF Range
<1> QED
  BY <1>3, <1>6, <1>7 DEF ys, l
=============================================================================
