----------------------------- MODULE ListProofs -----------------------------
(***************************************************************************)
(* What is left of a list whose entries were taken out at some places.     *)
(***************************************************************************)
EXTENDS Lists, FiniteSetTheorems, TLAPS

LEMMA LeastNatural ==
    ASSUME NEW T \in SUBSET Nat, T # {}
    PROVE  \E x \in T : \A y \in T : x <= y
<1>1. PICK x \in T : \A y \in T : <<y, x>> \notin OpToRel(<, Nat)
  BY WFMin, NatLessThanWellFounded
<1>2. ASSUME NEW y \in T PROVE x <= y
  <2>1. <<y, x>> \notin {ss \in Nat \X Nat : ss[1] < ss[2]}
    BY <1>1, <1>2 DEF OpToRel
  <2> QED BY <2>1
<1> QED BY <1>2

UpTo(places, i) == {h \in places : h <= i}

Rank(places, i) == Cardinality(UpTo(places, i))

LEMMA PlacesFinite ==
    ASSUME NEW n \in Nat, NEW places \in SUBSET (1 .. n)
    PROVE  /\ IsFiniteSet(places) /\ Cardinality(places) \in 0 .. n
           /\ \A i \in places : /\ IsFiniteSet(UpTo(places, i))
                                /\ Rank(places, i) \in 1 .. Cardinality(places)
<1>1. IsFiniteSet(1 .. n) /\ Cardinality(1 .. n) = n
  BY FS_Interval
<1>2. IsFiniteSet(places) /\ Cardinality(places) <= n /\ Cardinality(places) \in Nat
  BY <1>1, FS_Subset, FS_CardinalityType
<1>3. ASSUME NEW i \in places
      PROVE  IsFiniteSet(UpTo(places, i)) /\ Rank(places, i) \in 1 .. Cardinality(places)
  <2>1. UpTo(places, i) \in SUBSET places /\ i \in UpTo(places, i)
    BY DEF UpTo
  <2>2. IsFiniteSet(UpTo(places, i)) /\ Rank(places, i) <= Cardinality(places)
    BY <1>2, <2>1, FS_Subset DEF Rank
  <2>3. Rank(places, i) \in Nat /\ Rank(places, i) # 0
    BY <2>1, <2>2, FS_CardinalityType, FS_EmptySet DEF Rank
  <2> QED BY <1>2, <2>2, <2>3
<1> QED BY <1>2, <1>3

LEMMA RankGrows ==
    ASSUME NEW n \in Nat, NEW places \in SUBSET (1 .. n), NEW i \in places, NEW k \in places,
           i < k
    PROVE  Rank(places, i) < Rank(places, k)
<1>1. IsFiniteSet(UpTo(places, k)) /\ IsFiniteSet(UpTo(places, i))
  BY PlacesFinite
<1>2. \A h \in places : h \in Int
  OBVIOUS
<1>3. UpTo(places, i) \in SUBSET UpTo(places, k)
  <2>1. \A h \in places : h <= i => h <= k
    BY <1>2
  <2> QED BY <2>1 DEF UpTo
<1>5. k \in UpTo(places, k) /\ k \notin UpTo(places, i)
  BY <1>2 DEF UpTo
<1>6. /\ Rank(places, i) <= Rank(places, k)
      /\ Rank(places, i) = Rank(places, k) => UpTo(places, i) = UpTo(places, k)
  BY <1>1, <1>3, FS_Subset DEF Rank
<1>4. Rank(places, i) \in Nat /\ Rank(places, k) \in Nat
  <2>1. \A h \in places : Rank(places, h) \in 1 .. Cardinality(places)
    BY PlacesFinite
  <2> QED BY <2>1
<1> QED BY <1>4, <1>5, <1>6

\* Every rank is taken.  Were it not so for the places up to some n, take the least n: it is
\* not in the set of places, nor is it the last of them.
AllRanks(n) ==
    \A places \in SUBSET (1 .. n) :
        \A j \in 1 .. Cardinality(places) : \E i \in places : Rank(places, i) = j

LEMMA RanksTaken == \A n \in Nat : AllRanks(n)
<1> SUFFICES ASSUME {n \in Nat : ~AllRanks(n)} # {} PROVE FALSE
  OBVIOUS
<1>1. PICK n \in {m \in Nat : ~AllRanks(m)} : \A m \in {k \in Nat : ~AllRanks(k)} : n <= m
  BY LeastNatural
<1>2. PICK places \in SUBSET (1 .. n) :
          \E j \in 1 .. Cardinality(places) : \A i \in places : Rank(places, i) # j
  BY <1>1 DEF AllRanks
<1>3. PICK j \in 1 .. Cardinality(places) : \A i \in places : Rank(places, i) # j
  BY <1>2
<1>4. Cardinality(places) \in Nat /\ IsFiniteSet(places)
  BY <1>1, PlacesFinite
<1>5. n # 0
  <2>1. SUFFICES ASSUME n = 0 PROVE FALSE
    OBVIOUS
  <2>2. places = {}
    BY <2>1
  <2>3. Cardinality(places) = 0
    BY <2>2, FS_EmptySet
  <2> QED BY <2>3
<1>6. n - 1 \in Nat /\ AllRanks(n - 1)
  BY <1>1, <1>5
<1>7. CASE n \notin places
  <2>1. places \in SUBSET (1 .. n - 1)
    BY <1>1, <1>7
  <2> QED BY <1>3, <1>6, <2>1 DEF AllRanks
<1>8. CASE n \in places
  <2> DEFINE rest == places \ {n}
  <2>1. rest \in SUBSET (1 .. n - 1)
    BY <1>1
  <2>2. Cardinality(rest) = Cardinality(places) - 1
    BY <1>4, <1>8, FS_RemoveElement
  <2>3. \A i \in rest : UpTo(rest, i) = UpTo(places, i)
    BY <1>1 DEF UpTo
  <2>4. UpTo(places, n) = places
    <3>1. n \in Nat /\ \A h \in places : h <= n
      BY <1>1
    <3> QED BY <3>1 DEF UpTo
  <2>5. j # Cardinality(places)
    BY <1>3, <1>8, <2>4 DEF Rank
  <2>6. j \in 1 .. Cardinality(rest)
    BY <1>4, <2>2, <2>5
  <2>7. PICK i \in rest : Rank(rest, i) = j
    BY <1>6, <2>1, <2>6 DEF AllRanks
  <2> QED BY <1>3, <2>3, <2>7 DEF Rank
<1> QED BY <1>7, <1>8

\* An entry of what is left stands for one place, in their order, and each place has one.
LEMMA KeptPlaces ==
    ASSUME NEW n \in Nat, NEW places \in SUBSET (1 .. n)
    PROVE  /\ \A j \in 1 .. Cardinality(places) : Nth(places, j) \in places
           /\ \A i \in places : \E j \in 1 .. Cardinality(places) : Nth(places, j) = i
           /\ \A j, k \in 1 .. Cardinality(places) :
                 Nth(places, j) = Nth(places, k) => j = k
<1>1. ASSUME NEW j \in 1 .. Cardinality(places)
      PROVE  Nth(places, j) \in places /\ Rank(places, Nth(places, j)) = j
  <2>1. \E i \in places : Cardinality({h \in places : h <= i}) = j
    BY RanksTaken DEF AllRanks, Rank, UpTo
  <2> QED BY <2>1 DEF Nth, Rank, UpTo
<1>2. ASSUME NEW i \in places
      PROVE  \E j \in 1 .. Cardinality(places) : Nth(places, j) = i
  <2> DEFINE j == Rank(places, i)
             k == Nth(places, j)
  <2>1. j \in 1 .. Cardinality(places)
    BY PlacesFinite
  <2>2. k \in places /\ Rank(places, k) = Rank(places, i)
    BY <1>1, <2>1
  <2> HIDE DEF k
  <2>3. Rank(places, i) \in Int /\ i \in Int /\ k \in Int
    BY <2>1, <2>2
  <2>5. i < k => Rank(places, i) < Rank(places, k)
    BY <2>2, RankGrows
  <2>6. k < i => Rank(places, k) < Rank(places, i)
    BY <2>2, RankGrows
  <2>4. k = i
    BY <2>2, <2>3, <2>5, <2>6
  <2> QED BY <2>1, <2>4 DEF k
<1> QED BY <1>1, <1>2

LEMMA KeptSeq ==
    ASSUME NEW S, NEW list \in Seq(S), NEW places \in SUBSET (1 .. Len(list))
    PROVE  /\ Kept(list, places) \in Seq(S)
           /\ Len(Kept(list, places)) = Cardinality(places)
           /\ \A j \in 1 .. Cardinality(places) :
                 Nth(places, j) \in places /\ Kept(list, places)[j] = list[Nth(places, j)]
           /\ \A i \in places : \E j \in 1 .. Cardinality(places) : Kept(list, places)[j] = list[i]
           /\ \A j, k \in 1 .. Cardinality(places) :
                 Nth(places, j) = Nth(places, k) => j = k
<1>1. Len(list) \in Nat /\ Cardinality(places) \in Nat
  BY PlacesFinite
<1>2. \A j \in 1 .. Cardinality(places) : Nth(places, j) \in places
  BY <1>1, KeptPlaces
<1>3. \A j \in 1 .. Cardinality(places) : list[Nth(places, j)] \in S
  <2>1. \A i \in places : list[i] \in S
    OBVIOUS
  <2> QED BY <1>2, <2>1
<1>4. /\ DOMAIN Kept(list, places) = 1 .. Cardinality(places)
      /\ \A j \in 1 .. Cardinality(places) : Kept(list, places)[j] = list[Nth(places, j)]
  BY DEF Kept
<1>5. Kept(list, places) \in [1 .. Cardinality(places) -> S]
  BY <1>3 DEF Kept
<1>6. Kept(list, places) \in Seq(S) /\ Len(Kept(list, places)) = Cardinality(places)
  BY <1>1, <1>5
<1>7. \A i \in places : \E j \in 1 .. Cardinality(places) : Kept(list, places)[j] = list[i]
  <2>1. \A i \in places : \E j \in 1 .. Cardinality(places) : Nth(places, j) = i
    BY <1>1, KeptPlaces
  <2> QED BY <1>4, <2>1
<1>8. \A j, k \in 1 .. Cardinality(places) : Nth(places, j) = Nth(places, k) => j = k
  BY <1>1, KeptPlaces
<1> QED BY <1>2, <1>4, <1>6, <1>7, <1>8

LEMMA KeptIn ==
    ASSUME NEW S, NEW T, NEW list \in Seq(S), NEW places \in SUBSET (1 .. Len(list)),
           \A i \in places : list[i] \in T
    PROVE  /\ Kept(list, places) \in Seq(T)
           /\ DOMAIN Kept(list, places) = 1 .. Cardinality(places)
           /\ \A j \in DOMAIN Kept(list, places) :
                 \E i \in places : Kept(list, places)[j] = list[i]
           /\ \A i \in places :
                 \E j \in DOMAIN Kept(list, places) : Kept(list, places)[j] = list[i]
<1> DEFINE k == Kept(list, places)
           n == Cardinality(places)
<1>1. /\ k \in Seq(S) /\ Len(k) = n
      /\ \A j \in 1 .. n : Nth(places, j) \in places /\ k[j] = list[Nth(places, j)]
      /\ \A i \in places : \E j \in 1 .. n : k[j] = list[i]
  BY KeptSeq
<1> HIDE DEF k, n
<1>2. n \in Nat /\ k = [j \in 1 .. n |-> k[j]]
  BY <1>1
<1>3. \A j \in 1 .. n : k[j] \in T
  BY <1>1
<1>4. k \in [1 .. n -> T]
  BY <1>2, <1>3
<1>5. k \in Seq(T) /\ DOMAIN k = 1 .. n
  BY <1>2, <1>4
<1>6. \A j \in 1 .. n : \E i \in places : k[j] = list[i]
  BY <1>1
<1> QED BY <1>1, <1>5, <1>6 DEF k, n
=============================================================================
