-------------------------------- MODULE Ranks --------------------------------
(***************************************************************************)
(* Ranks: how many numbers of a set are not above a number.  A finite set  *)
(* of positive numbers has one number of each rank up to its size, so that *)
(* `the number of rank k' enumerates the set upwards: this is how the      *)
(* write pipeline finds the next batch of the mutation queue, and how      *)
(* listeners hear of a snapshot in their order.                            *)
(***************************************************************************)
EXTENDS Naturals, FiniteSetTheorems, WellFoundedInduction, TLAPS

UpTo(D, j) == {i \in D : i <= j}
Rank(D, j) == Cardinality(UpTo(D, j))

\* The number of rank k.
Ranked(D, k) == CHOOSE j \in D : Rank(D, j) = k

\* A set of natural numbers has a smallest one.
LEMMA Smallest ==
    ASSUME NEW T \in SUBSET Nat, T # {}
    PROVE  \E x \in T : \A y \in T : x <= y
<1>1. PICK x \in T : \A y \in T : ~(<<y, x>> \in OpToRel(<, Nat))
  BY NatLessThanWellFounded, WFMin
<1>2. \A y \in T : ~(y < x)
  BY <1>1 DEF OpToRel
<1> QED
  BY <1>2

\* The numbers up to a bound are positive.
LEMMA NumberBounds ==
    ASSUME NEW N \in Nat, NEW D \in SUBSET (1..N)
    PROVE  \A i \in D : i \in Nat /\ 1 <= i /\ i <= N
  OBVIOUS

\* The numbers up to a larger number are more.
LEMMA UpToGrows ==
    ASSUME NEW D, \A i \in D : i \in Nat, NEW a \in D, NEW b \in D, a < b
    PROVE  UpTo(D, a) \subseteq UpTo(D, b) /\ b \in UpTo(D, b) /\ b \notin UpTo(D, a)
  BY DEF UpTo

\* All numbers are up to the bound, and none is up to zero.
LEMMA UpToEnds ==
    ASSUME NEW D, NEW N \in Nat, \A i \in D : i \in Nat /\ 1 <= i /\ i <= N
    PROVE  UpTo(D, N) = D /\ UpTo(D, 0) = {}
  BY DEF UpTo

\* One number further, at most that number is new.
LEMMA UpToNext ==
    ASSUME NEW D, \A i \in D : i \in Nat, NEW m \in Nat, m # 0
    PROVE  /\ m \in D => UpTo(D, m) = UpTo(D, m - 1) \cup {m} /\ m \notin UpTo(D, m - 1)
           /\ m \notin D => UpTo(D, m) = UpTo(D, m - 1)
<1>1. \A i \in D : i <= m <=> (i <= m - 1 \/ i = m)
  OBVIOUS
<1>2. ~(m <= m - 1)
  OBVIOUS
<1> QED
  BY <1>1, <1>2 DEF UpTo

\* Bounded sets of numbers are finite, and so are their ranks.
LEMMA RanksFinite ==
    ASSUME NEW N \in Nat, NEW D \in SUBSET (1..N)
    PROVE  /\ IsFiniteSet(D) /\ Cardinality(D) \in Nat
           /\ \A j : IsFiniteSet(UpTo(D, j)) /\ Rank(D, j) \in Nat
<1>1. IsFiniteSet(1..N)
  BY FS_Interval
<1>2. \A T \in SUBSET (1..N) : IsFiniteSet(T) /\ Cardinality(T) \in Nat
  BY <1>1, FS_Subset, FS_CardinalityType
<1>3. \A j : UpTo(D, j) \in SUBSET (1..N)
  BY DEF UpTo
<1>4. D \in SUBSET (1..N)
  OBVIOUS
<1> QED
  BY <1>2, <1>3, <1>4 DEF Rank

\* A larger number has a larger rank.
LEMMA RanksGrow ==
    ASSUME NEW N \in Nat, NEW D \in SUBSET (1..N), NEW a \in D, NEW b \in D, a < b
    PROVE  Rank(D, a) < Rank(D, b)
<1>1. UpTo(D, a) \in SUBSET UpTo(D, b) /\ b \in UpTo(D, b) /\ b \notin UpTo(D, a)
  BY NumberBounds, UpToGrows
<1>2. /\ IsFiniteSet(UpTo(D, b))
      /\ Rank(D, a) \in Nat /\ Rank(D, b) \in Nat
  BY RanksFinite
<1>3. Rank(D, a) <= Rank(D, b) /\ Rank(D, a) # Rank(D, b)
  BY <1>1, <1>2, FS_Subset DEF Rank
<1> QED
  BY <1>2, <1>3

\* The ranks of a set's numbers are at most its size, and at least 1.
LEMMA RanksBounded ==
    ASSUME NEW N \in Nat, NEW D \in SUBSET (1..N), NEW j \in D
    PROVE  Rank(D, j) \in 1..Cardinality(D)
<1>1. IsFiniteSet(D) /\ IsFiniteSet(UpTo(D, j)) /\ Rank(D, j) \in Nat /\ Cardinality(D) \in Nat
  BY RanksFinite
<1>2. UpTo(D, j) \in SUBSET D
  BY DEF UpTo
<1>3. Rank(D, j) <= Cardinality(D)
  BY <1>1, <1>2, FS_Subset DEF Rank
<1>4. j \in UpTo(D, j)
  BY NumberBounds DEF UpTo
<1>5. Rank(D, j) # 0
  BY <1>1, <1>4, FS_EmptySet DEF Rank
<1> QED
  BY <1>1, <1>3, <1>5

\* Every rank up to the size of the set is that of one of its numbers.
LEMMA RanksTaken ==
    ASSUME NEW N \in Nat, NEW D \in SUBSET (1..N), NEW k \in 1..Cardinality(D)
    PROVE  \E j \in D : Rank(D, j) = k
<1> DEFINE T == {m \in 0..N : Rank(D, m) >= k}
<1>1. IsFiniteSet(D) /\ Cardinality(D) \in Nat
  BY RanksFinite
<1>2. k \in Nat /\ k # 0 /\ k <= Cardinality(D)
  BY <1>1
<1>3. UpTo(D, N) = D /\ UpTo(D, 0) = {}
  BY NumberBounds, UpToEnds
<1>4. Rank(D, N) = Cardinality(D) /\ Rank(D, 0) = 0
  BY <1>3, FS_EmptySet DEF Rank
<1>5. N \in T /\ T \in SUBSET Nat
  BY <1>1, <1>2, <1>4
<1>6. PICK m \in T : \A y \in T : m <= y
  <2> HIDE DEF T
  <2> QED
    BY <1>5, Smallest
<1>7. m \in Nat /\ m <= N /\ Rank(D, m) >= k
  BY <1>6
<1>8. m # 0
  BY <1>2, <1>4, <1>7
<1>9. m - 1 \notin T /\ m - 1 \in 0..N
  <2> HIDE DEF T
  <2> QED
    BY <1>6, <1>7, <1>8
<1>10. Rank(D, m - 1) \in Nat /\ Rank(D, m) \in Nat /\ IsFiniteSet(UpTo(D, m - 1))
  BY RanksFinite
<1>11. Rank(D, m - 1) < k
  BY <1>2, <1>9, <1>10
<1>12. m \in D
  <2>1. m \notin D => Rank(D, m) = Rank(D, m - 1)
    BY <1>7, <1>8, NumberBounds, UpToNext DEF Rank
  <2> QED
    BY <1>2, <1>7, <1>10, <1>11, <2>1
<1>13. Rank(D, m) = Rank(D, m - 1) + 1
  <2>1. UpTo(D, m) = UpTo(D, m - 1) \cup {m} /\ m \notin UpTo(D, m - 1)
    BY <1>7, <1>8, <1>12, NumberBounds, UpToNext
  <2> QED
    BY <1>10, <2>1, FS_AddElement DEF Rank
<1> QED
  BY <1>2, <1>7, <1>10, <1>11, <1>12, <1>13

\* What `Ranked' chooses.
LEMMA RankedRank ==
    ASSUME NEW N \in Nat, NEW D \in SUBSET (1..N), NEW k \in 1..Cardinality(D)
    PROVE  /\ Ranked(D, k) \in D
           /\ Rank(D, Ranked(D, k)) = k
           /\ \A j \in D : Rank(D, j) = k => j = Ranked(D, k)
<1>1. PICK i \in D : Rank(D, i) = k
  BY RanksTaken
<1>2. Ranked(D, k) = CHOOSE j \in D : Rank(D, j) = k
  BY DEF Ranked
<1>3. Ranked(D, k) \in D /\ Rank(D, Ranked(D, k)) = k
  BY <1>1, <1>2
<1>4. ASSUME NEW j \in D, Rank(D, j) = k, j # Ranked(D, k) PROVE FALSE
  <2>1. j \in Nat /\ Ranked(D, k) \in Nat
    BY <1>3, NumberBounds
  <2>2. j < Ranked(D, k) \/ Ranked(D, k) < j
    BY <1>4, <2>1
  <2>3. Rank(D, j) < Rank(D, Ranked(D, k)) \/ Rank(D, Ranked(D, k)) < Rank(D, j)
    BY <1>3, <2>2, RanksGrow
  <2>4. Rank(D, j) \in Nat
    BY RanksFinite
  <2> QED
    BY <1>3, <1>4, <2>3, <2>4
<1> QED
  BY <1>3, <1>4

\* Numbers are numbered upwards.
LEMMA RankedGrows ==
    ASSUME NEW N \in Nat, NEW D \in SUBSET (1..N), NEW j \in D, NEW k \in 1..Cardinality(D), k < Rank(D, j)
    PROVE  Ranked(D, k) < j
<1>1. Ranked(D, k) \in D /\ Rank(D, Ranked(D, k)) = k
  BY RankedRank
<1>2. Rank(D, j) \in Nat /\ Rank(D, Ranked(D, k)) \in Nat /\ j \in Nat /\ Ranked(D, k) \in Nat
  BY <1>1, RanksFinite, NumberBounds
<1>3. j < Ranked(D, k) => Rank(D, j) < k
  BY <1>1, RanksGrow
<1> QED
  BY <1>1, <1>2, <1>3
==============================================================================
