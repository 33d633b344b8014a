--------------------------------- MODULE Ranks ---------------------------------
(***************************************************************************)
(* Facts about sets of natural numbers that the proofs of several modules  *)
(* need: a least element, and the element of each rank in a finite set of  *)
(* indices.  They stand for inductions over the length of a list.          *)
(***************************************************************************)
EXTENDS Integers, FiniteSets, FiniteSetTheorems, WellFoundedInduction, TLAPS

\* Every inhabited set of natural numbers has a least element.
LEMMA LeastElement ==
  ASSUME NEW I \in SUBSET Nat, I # {}
  PROVE  \E i \in I : \A j \in I : i <= j
  <1>1. PICK least \in I : \A i \in I : <<i, least>> \notin OpToRel(<, Nat)
    BY WFMin, NatLessThanWellFounded
  <1>2. ASSUME NEW i \in I PROVE least <= i
    <2>1. <<i, least>> \in Nat \X Nat /\ <<i, least>>[1] = i /\ <<i, least>>[2] = least
      OBVIOUS
    <2>2. ~(i < least)
      BY <1>1, <2>1 DEF OpToRel
    <2> QED
      BY <2>2
  <1> QED
    BY <1>2

UpTo(I, b) == {j \in I : j <= b}

\* Indices of a list are finitely many, and no more than the list is long.
LEMMA IndicesFinite ==
  ASSUME NEW m \in Nat, NEW I \in SUBSET (1 .. m)
  PROVE  /\ IsFiniteSet(I) /\ Cardinality(I) \in Nat /\ Cardinality(I) <= m
         /\ \A J \in SUBSET I : IsFiniteSet(J) /\ Cardinality(J) \in Nat
  <1>1. IsFiniteSet(1 .. m) /\ Cardinality(1 .. m) = m
    BY FS_Interval
  <1>2. IsFiniteSet(I) /\ Cardinality(I) <= m
    BY <1>1, FS_Subset
  <1> QED
    BY <1>2, FS_Subset, FS_CardinalityType

\* Of a set of indices, the number up to b grows by at most one with b, and does
\* so where b is in the set.
LEMMA UpToGrows ==
  ASSUME NEW m \in Nat, NEW I \in SUBSET (1 .. m), NEW b \in Nat \ {0}
  PROVE  Cardinality(UpTo(I, b)) =
           Cardinality(UpTo(I, b - 1)) + (IF b \in I THEN 1 ELSE 0)
  <1>0. \A j \in I : j \in Nat /\ (j <= b <=> j <= b - 1 \/ j = b)
    OBVIOUS
  <1>1. IsFiniteSet(UpTo(I, b - 1)) /\ b \notin UpTo(I, b - 1)
    BY IndicesFinite DEF UpTo
  <1>2. CASE b \in I
    <2>1. UpTo(I, b) = UpTo(I, b - 1) \union {b}
      BY <1>0, <1>2 DEF UpTo
    <2> QED
      BY <1>1, <1>2, <2>1, FS_AddElement
  <1>3. CASE b \notin I
    <2>1. UpTo(I, b) = UpTo(I, b - 1)
      BY <1>0, <1>3 DEF UpTo
    <2>2. Cardinality(UpTo(I, b - 1)) \in Nat
      BY IndicesFinite DEF UpTo
    <2> QED
      BY <1>3, <2>1, <2>2
  <1> QED
    BY <1>2, <1>3

\* A set of indices has an element of every rank.
LEMMA RankTaken ==
  ASSUME NEW m \in Nat, NEW I \in SUBSET (1 .. m), NEW n \in 1 .. Cardinality(I)
  PROVE  \E i \in I : Cardinality(UpTo(I, i)) = n
  <1> DEFINE Enough == {b \in Nat : Cardinality(UpTo(I, b)) >= n}
  <1>1. \A b \in Nat : Cardinality(UpTo(I, b)) \in Nat
    BY IndicesFinite DEF UpTo
  <1>2. UpTo(I, m) = I /\ UpTo(I, 0) = {}
    <2>1. \A j \in I : j <= m /\ ~(j <= 0)
      OBVIOUS
    <2> QED
      BY <2>1 DEF UpTo
  <1>3. n \in Nat /\ n >= 1 /\ n <= Cardinality(I) /\ Cardinality(I) \in Nat
    BY IndicesFinite
  <1>4. m \in Enough /\ 0 \notin Enough
    BY <1>2, <1>3, FS_EmptySet
  <1>5. PICK b \in Enough : \A c \in Enough : b <= c
    BY <1>4, LeastElement
  <1>6. b \in Nat \ {0} /\ b - 1 \in Nat /\ b - 1 \notin Enough
    BY <1>4, <1>5
  <1>7. Cardinality(UpTo(I, b)) = Cardinality(UpTo(I, b - 1)) + (IF b \in I THEN 1 ELSE 0)
    BY <1>6, UpToGrows
  <1>8. Cardinality(UpTo(I, b)) >= n /\ Cardinality(UpTo(I, b - 1)) < n
    BY <1>1, <1>3, <1>6
  <1>9. b \in I /\ Cardinality(UpTo(I, b)) = n
    BY <1>1, <1>3, <1>6, <1>7, <1>8
  <1> QED
    BY <1>9

\* No two elements have the same rank, and a larger element has a larger one.
LEMMA RanksAscend ==
  ASSUME NEW m \in Nat, NEW I \in SUBSET (1 .. m), NEW i \in I, NEW j \in I, i < j
  PROVE  Cardinality(UpTo(I, i)) < Cardinality(UpTo(I, j))
  <1>1. UpTo(I, i) \union {j} \subseteq UpTo(I, j) /\ j \notin UpTo(I, i)
    <2>1. /\ \A k \in I : k <= i => k <= j
          /\ j <= j /\ ~(j <= i)
      OBVIOUS
    <2> QED
      BY <2>1 DEF UpTo
  <1>2. IsFiniteSet(UpTo(I, i)) /\ IsFiniteSet(UpTo(I, j))
    BY IndicesFinite DEF UpTo
  <1>3. Cardinality(UpTo(I, i) \union {j}) = Cardinality(UpTo(I, i)) + 1
    BY <1>1, <1>2, FS_AddElement
  <1>4. Cardinality(UpTo(I, i) \union {j}) <= Cardinality(UpTo(I, j))
    BY <1>1, <1>2, FS_Subset
  <1> QED
    BY <1>2, <1>3, <1>4, FS_CardinalityType

\* The rank of an element, counted from zero.
Below(I, i) == {j \in I : j < i}

LEMMA BelowUpTo ==
  ASSUME NEW m \in Nat, NEW I \in SUBSET (1 .. m), NEW i \in I
  PROVE  /\ Cardinality(Below(I, i)) \in Nat
         /\ Cardinality(UpTo(I, i)) = Cardinality(Below(I, i)) + 1
         /\ Cardinality(Below(I, i)) < Cardinality(I)
  <1>0. \A j \in I : j \in Nat /\ (j <= i <=> j < i \/ j = i) /\ ~(i < i)
    OBVIOUS
  <1>1. UpTo(I, i) = Below(I, i) \union {i} /\ i \notin Below(I, i)
    BY <1>0 DEF UpTo, Below
  <1>2. IsFiniteSet(Below(I, i)) /\ Cardinality(Below(I, i)) \in Nat
    BY IndicesFinite DEF Below
  <1>3. Cardinality(UpTo(I, i)) = Cardinality(Below(I, i)) + 1
    BY <1>1, <1>2, FS_AddElement
  <1>4. Cardinality(UpTo(I, i)) <= Cardinality(I) /\ Cardinality(I) \in Nat
    BY IndicesFinite, FS_Subset DEF UpTo
  <1> QED
    BY <1>2, <1>3, <1>4

\* Ranks from zero differ, and each below the size of the set is taken.
LEMMA BelowRanks ==
  ASSUME NEW m \in Nat, NEW I \in SUBSET (1 .. m)
  PROVE  /\ \A i, j \in I : i < j => Cardinality(Below(I, i)) < Cardinality(Below(I, j))
         /\ \A i, j \in I : Cardinality(Below(I, i)) = Cardinality(Below(I, j)) => i = j
         /\ \A n \in Nat : n < Cardinality(I) => \E i \in I : Cardinality(Below(I, i)) = n
  <1>0. \A i \in I : /\ i \in Nat /\ Cardinality(Below(I, i)) \in Nat
                    /\ Cardinality(UpTo(I, i)) = Cardinality(Below(I, i)) + 1
    <2> TAKE i \in I
    <2>1. i \in Nat
      OBVIOUS
    <2> QED
      BY <2>1, BelowUpTo
  <1>1. ASSUME NEW i \in I, NEW j \in I, i < j
        PROVE  Cardinality(Below(I, i)) < Cardinality(Below(I, j))
    <2>1. Cardinality(UpTo(I, i)) < Cardinality(UpTo(I, j))
      BY <1>1, RanksAscend
    <2> QED
      BY <1>0, <2>1
  <1>2. ASSUME NEW i \in I, NEW j \in I, Cardinality(Below(I, i)) = Cardinality(Below(I, j))
        PROVE  i = j
    <2>1. ~(i < j) /\ ~(j < i)
      BY <1>0, <1>1, <1>2
    <2> QED
      BY <1>0, <2>1
  <1>3. ASSUME NEW n \in Nat, n < Cardinality(I)
        PROVE  \E i \in I : Cardinality(Below(I, i)) = n
    <2>1. n + 1 \in 1 .. Cardinality(I)
      BY <1>3, IndicesFinite
    <2>2. PICK i \in I : Cardinality(UpTo(I, i)) = n + 1
      BY <2>1, RankTaken
    <2>3. Cardinality(Below(I, i)) = n
      BY <1>0, <2>2
    <2> QED
      BY <2>3
  <1> QED
    BY <1>1, <1>2, <1>3
===============================================================================
