------------------------ MODULE WritePipeline_proofs ------------------------
(***************************************************************************)
(* Proofs about the write pipeline, for any documents, any size of the     *)
(* pipeline and any number of writes and failures.                         *)
(***************************************************************************)
EXTENDS WritePipeline, Ranks, FiniteSetTheorems, SequenceTheorems, TLAPS

-----------------------------------------------------------------------------
(* Batch ids, and the k-th of a set of them.                               *)

Ids(D) == D \subseteq 1..MaxBatchId

\* Ids are positive and bounded.
LEMMA IdBounds ==
    ASSUME NEW D, Ids(D)
    PROVE  \A i \in D : i \in Nat /\ 1 <= i /\ i <= MaxBatchId
  BY PipelineAssumption DEF Ids

\* Bounded sets of ids are finite, and so are their ranks.
LEMMA RankType ==
    ASSUME NEW D, Ids(D)
    PROVE  /\ IsFiniteSet(D) /\ Cardinality(D) \in Nat
           /\ \A j : IsFiniteSet(UpTo(D, j)) /\ Rank(D, j) \in Nat
  BY PipelineAssumption, RanksFinite DEF Ids

\* A larger id has a larger rank.
LEMMA RankGrows ==
    ASSUME NEW D, Ids(D), NEW a \in D, NEW b \in D, a < b
    PROVE  Rank(D, a) < Rank(D, b)
  BY PipelineAssumption, RanksGrow DEF Ids

\* The ranks of a set's ids are at most its size, and at least 1.
LEMMA RankBounds ==
    ASSUME NEW D, Ids(D), NEW j \in D
    PROVE  Rank(D, j) \in 1..Cardinality(D)
  BY PipelineAssumption, RanksBounded DEF Ids

\* `Nth' chooses by the rank.
LEMMA NthIsRanked == ASSUME NEW D, NEW k PROVE Nth(D, k) = Ranked(D, k)
  BY DEF Nth, Ranked, Rank, UpTo

\* What `Nth' chooses.
LEMMA NthRank ==
    ASSUME NEW D, Ids(D), NEW k \in 1..Cardinality(D)
    PROVE  /\ Nth(D, k) \in D
           /\ Rank(D, Nth(D, k)) = k
           /\ \A j \in D : Rank(D, j) = k => j = Nth(D, k)
  BY PipelineAssumption, NthIsRanked, RankedRank DEF Ids

\* Ids are numbered upwards.
LEMMA NthGrows ==
    ASSUME NEW D, Ids(D), NEW j \in D, NEW k \in 1..Cardinality(D), k < Rank(D, j)
    PROVE  Nth(D, k) < j
  BY PipelineAssumption, NthIsRanked, RankedGrows DEF Ids

-----------------------------------------------------------------------------
(* What FillWritePipeline adds.                                            *)

QueueOK(q) == Ids(DOMAIN q) /\ \A j \in DOMAIN q : q[j] \in Writes

Last(p) == IF p = <<>> THEN 0 ELSE p[Len(p)].id
Rest(q, p) == {j \in DOMAIN q : j > Last(p)}
Size(q, p) ==
    LET room == MaxPendingWrites - Len(p)
    IN  IF Cardinality(Rest(q, p)) < room THEN Cardinality(Rest(q, p)) ELSE room
Item(q, D, k) == [id |-> Nth(D, k), write |-> q[Nth(D, k)]]

\* `Added' in these terms.
LEMMA AddedItems ==
    ASSUME NEW q, NEW p
    PROVE  Added(q, p) = [k \in 1..Size(q, p) |-> Item(q, Rest(q, p), k)]
  BY DEF Added, Size, Rest, Last, Item

\* The batches added are batches of the queue, and they fit.
LEMMA AddedType ==
    ASSUME NEW q, QueueOK(q), NEW p \in Seq(Batch), Len(p) <= MaxPendingWrites
    PROVE  /\ Added(q, p) \in Seq(Batch)
           /\ Len(Added(q, p)) = Size(q, p)
           /\ Size(q, p) \in Nat
           /\ Size(q, p) <= MaxPendingWrites - Len(p)
           /\ Size(q, p) <= Cardinality(Rest(q, p))
           /\ \A k \in 1..Size(q, p) : Added(q, p)[k] = Item(q, Rest(q, p), k)
<1> DEFINE D == Rest(q, p)
           n == Size(q, p)
<1>1. Ids(D) /\ D \subseteq DOMAIN q
  BY DEF Rest, Ids, QueueOK
<1>2. Cardinality(D) \in Nat
  BY <1>1, RankType
<1>3. Len(p) \in Nat /\ MaxPendingWrites \in Nat
  BY PipelineAssumption
<1>4. n \in Nat /\ n <= MaxPendingWrites - Len(p) /\ n <= Cardinality(D)
  BY <1>2, <1>3 DEF Size
<1> HIDE DEF D, n
<1>5. \A k \in 1..n : Item(q, D, k) \in Batch
  <2> SUFFICES ASSUME NEW k \in 1..n PROVE Item(q, D, k) \in Batch
    OBVIOUS
  <2>1. k \in 1..Cardinality(D)
    BY <1>2, <1>4
  <2>2. Nth(D, k) \in D
    BY <1>1, <2>1, NthRank
  <2>3. Nth(D, k) \in 1..MaxBatchId /\ q[Nth(D, k)] \in Writes
    BY <1>1, <2>2 DEF Ids, QueueOK
  <2> QED
    BY <2>3 DEF Item, Batch
<1>6. Added(q, p) = [k \in 1..n |-> Item(q, D, k)]
  BY AddedItems DEF D, n
<1>7. Added(q, p) \in Seq(Batch) /\ Len(Added(q, p)) = n
  BY <1>4, <1>5, <1>6
<1>8. \A k \in 1..n : Added(q, p)[k] = Item(q, D, k)
  BY <1>6
<1> QED
  BY <1>4, <1>7, <1>8 DEF D, n

\* p is the front of queue q: its batches are q's, in the order of their ids,
\* and every other batch of q is younger.
Front(p, q) ==
    /\ p \in Seq(Batch) /\ Len(p) <= MaxPendingWrites
    /\ \A i \in 1..Len(p) : p[i].id \in DOMAIN q /\ p[i].write = q[p[i].id]
    /\ \A i \in 1..Len(p) : \A k \in 1..Len(p) : i < k => p[i].id < p[k].id
    /\ \A j \in DOMAIN q : (\E i \in 1..Len(p) : p[i].id = j)
                            \/ (\A i \in 1..Len(p) : p[i].id < j)

\* Filling an empty pipeline takes the front of the queue.
LEMMA AddedFront ==
    ASSUME NEW q, QueueOK(q)
    PROVE  Front(Added(q, <<>>), q)
<1> DEFINE D == DOMAIN q
           a == Added(q, <<>>)
           n == Size(q, <<>>)
<1>1. Ids(D)
  BY DEF QueueOK
<1>2. Rest(q, <<>>) = D
  BY <1>1, IdBounds DEF Rest, Last
<1>3. <<>> \in Seq(Batch) /\ Len(<<>>) = 0 /\ Len(<<>>) <= MaxPendingWrites
  BY PipelineAssumption
<1>31. MaxPendingWrites - Len(<<>>) = MaxPendingWrites
  BY <1>3, PipelineAssumption
<1>4. /\ a \in Seq(Batch) /\ Len(a) = n /\ n \in Nat
      /\ n <= MaxPendingWrites /\ n <= Cardinality(D)
      /\ \A k \in 1..n : a[k] = Item(q, D, k)
  <2> HIDE DEF D
  <2> QED
    BY <1>2, <1>3, <1>31, AddedType
<1>5. Cardinality(D) \in Nat
  BY <1>1, RankType
<1> HIDE DEF a, n, D
<1>6. \A k \in 1..n : /\ a[k].id = Nth(D, k) /\ a[k].write = q[Nth(D, k)]
                      /\ k \in 1..Cardinality(D)
                      /\ Nth(D, k) \in D /\ Rank(D, Nth(D, k)) = k
  <2> SUFFICES ASSUME NEW k \in 1..n
               PROVE  /\ a[k].id = Nth(D, k) /\ a[k].write = q[Nth(D, k)]
                      /\ k \in 1..Cardinality(D)
                      /\ Nth(D, k) \in D /\ Rank(D, Nth(D, k)) = k
    OBVIOUS
  <2>1. k \in 1..Cardinality(D)
    BY <1>4, <1>5
  <2> QED
    BY <1>1, <1>4, <2>1, NthRank DEF Item
<1>7. ASSUME NEW i \in 1..n, NEW k \in 1..n, i < k PROVE a[i].id < a[k].id
  <2>1. Nth(D, k) \in D /\ i \in 1..Cardinality(D) /\ i < Rank(D, Nth(D, k))
    BY <1>6, <1>7
  <2> QED
    BY <1>1, <1>6, <2>1, NthGrows
<1>8. ASSUME NEW j \in D, NEW i \in 1..n, \A k \in 1..n : a[k].id # j PROVE a[i].id < j
  <2>1. Rank(D, j) \in 1..Cardinality(D)
    BY <1>1, RankBounds
  <2>2. j = Nth(D, Rank(D, j))
    BY <1>1, <2>1, NthRank
  <2>3. ~(Rank(D, j) <= n)
    <3> SUFFICES ASSUME Rank(D, j) <= n PROVE FALSE
      OBVIOUS
    <3>1. Rank(D, j) \in 1..n
      BY <1>4, <1>5, <2>1
    <3> QED
      BY <1>6, <1>8, <2>2, <3>1
  <2>4. i < Rank(D, j) /\ i \in 1..Cardinality(D)
    BY <1>4, <1>5, <2>1, <2>3
  <2> QED
    BY <1>1, <1>6, <2>4, NthGrows
<1>9. \A j \in D : (\E i \in 1..n : a[i].id = j) \/ (\A i \in 1..n : a[i].id < j)
  BY <1>8
<1> QED
  BY <1>4, <1>6, <1>7, <1>9 DEF Front, a, n, D

\* The i-th batch of a front has rank i.
LEMMA FrontRank ==
    ASSUME NEW q, QueueOK(q), NEW p, Front(p, q), NEW i \in 1..Len(p)
    PROVE  Rank(DOMAIN q, p[i].id) = i
<1> DEFINE D == DOMAIN q
           S == UpTo(D, p[i].id)
           f == [k \in 1..i |-> p[k].id]
<1>1. \A j \in D : j \in Nat
  BY IdBounds DEF QueueOK
<1>2. Len(p) \in Nat /\ i \in Nat /\ i <= Len(p)
  BY DEF Front
<1>3. \A k \in 1..i : k \in 1..Len(p) /\ (k = i \/ k < i)
  BY <1>2
<1>4. \A k \in 1..i : p[k].id \in D /\ p[k].id \in Nat /\ (k = i \/ p[k].id < p[i].id)
  BY <1>1, <1>3 DEF Front
<1>5. \A k \in 1..i : p[k].id \in S
  BY <1>1, <1>4 DEF UpTo
<1>6. ASSUME NEW j \in S PROVE \E k \in 1..i : p[k].id = j
  <2>1. j \in D /\ j \in Nat /\ j <= p[i].id /\ p[i].id \in Nat
    BY <1>1, <1>2, <1>4 DEF UpTo
  <2>2. PICK k \in 1..Len(p) : p[k].id = j
    BY <2>1 DEF Front
  <2>3. ~(i < k)
    BY <2>1, <2>2 DEF Front
  <2> QED
    BY <1>2, <2>2, <2>3
<1>7. ASSUME NEW k \in 1..i, NEW l \in 1..i, p[k].id = p[l].id PROVE k = l
  <2>1. ~(k < l) /\ ~(l < k)
    BY <1>3, <1>4, <1>7 DEF Front
  <2> QED
    BY <2>1
<1> HIDE DEF S
<1>8. f \in Bijection(1..i, S)
  BY <1>5, <1>6, <1>7 DEF Bijection, Injection, Surjection, IsInjective
<1>9. IsFiniteSet(1..i) /\ Cardinality(1..i) = i
  BY <1>2, FS_Interval
<1>10. Cardinality(S) = i
  BY <1>8, <1>9, FS_Bijection DEF ExistsBijection
<1> QED
  BY <1>10 DEF Rank, S

\* The sizes of two finite sets without common elements add up.
LEMMA DisjointSizes ==
    ASSUME NEW S, IsFiniteSet(S), NEW T, IsFiniteSet(T), S \cap T = {}
    PROVE  Cardinality(S \cup T) = Cardinality(S) + Cardinality(T)
<1>1. Cardinality(S \cap T) = 0
  BY FS_EmptySet
<1>2. Cardinality(S) \in Nat /\ Cardinality(T) \in Nat
  BY FS_CardinalityType
<1>3. Cardinality(S \cup T) = Cardinality(S) + Cardinality(T) - Cardinality(S \cap T)
  BY FS_Union
<1> QED
  BY <1>1, <1>2, <1>3

\* The rank of what is left, behind a front.
LEMMA RestRank ==
    ASSUME NEW q, QueueOK(q), NEW p, Front(p, q)
    PROVE  /\ Ids(Rest(q, p)) /\ Rest(q, p) \subseteq DOMAIN q
           /\ Cardinality(DOMAIN q) = Len(p) + Cardinality(Rest(q, p))
           /\ \A j \in Rest(q, p) : Rank(DOMAIN q, j) = Len(p) + Rank(Rest(q, p), j)
<1> DEFINE D == DOMAIN q
           R == Rest(q, p)
           P == UpTo(D, Last(p))
<1>1. Ids(D) /\ \A j \in D : j \in Nat /\ 1 <= j /\ j <= MaxBatchId
  BY IdBounds DEF QueueOK
<1>2. Ids(R) /\ R \subseteq D
  BY <1>1 DEF Ids, Rest
<1>3. p \in Seq(Batch) /\ Len(p) \in Nat
  BY DEF Front
<1>4. Last(p) \in Nat /\ Rank(D, Last(p)) = Len(p)
  <2>1. CASE p = <<>>
    <3>1. Last(p) = 0 /\ Len(p) = 0
      BY <2>1 DEF Last
    <3>2. UpTo(D, 0) = {}
      BY <1>1, UpToEnds, PipelineAssumption
    <3> QED
      BY <3>1, <3>2, FS_EmptySet DEF Rank
  <2>2. CASE p # <<>>
    <3>1. Len(p) \in 1..Len(p) /\ Last(p) = p[Len(p)].id
      BY <1>3, <2>2 DEF Last
    <3>2. Last(p) \in D
      BY <3>1 DEF Front
    <3> QED
      BY <1>1, <3>1, <3>2, FrontRank
  <2> QED
    BY <2>1, <2>2
<1>5. IsFiniteSet(P) /\ IsFiniteSet(R) /\ \A j : IsFiniteSet(UpTo(R, j))
  BY <1>1, <1>2, RankType
<1>6. Cardinality(P) = Len(p)
  BY <1>4 DEF Rank
<1>7. D = P \cup R /\ P \cap R = {}
  <2>1. \A i \in D : i \in R <=> ~(i <= Last(p))
    BY <1>1, <1>4 DEF Rest
  <2>2. \A i : i \in P <=> i \in D /\ i <= Last(p)
    BY DEF UpTo
  <2> HIDE DEF D, R, P
  <2> QED
    BY <1>2, <2>1, <2>2
<1>8. \A j \in R : UpTo(D, j) = P \cup UpTo(R, j) /\ P \cap UpTo(R, j) = {}
  <2> SUFFICES ASSUME NEW j \in R
               PROVE  UpTo(D, j) = P \cup UpTo(R, j) /\ P \cap UpTo(R, j) = {}
    OBVIOUS
  <2>1. j \in Nat /\ Last(p) < j
    BY <1>1, <1>2, <1>4 DEF Rest
  <2>2. \A i \in D : i <= Last(p) => i <= j
    BY <1>1, <1>4, <2>1
  <2>3. \A i \in D : i \in R <=> ~(i <= Last(p))
    BY <1>1, <1>4 DEF Rest
  <2> HIDE DEF R
  <2> QED
    BY <1>2, <2>2, <2>3 DEF UpTo
<1> HIDE DEF D, R, P
<1>9. Cardinality(D) = Len(p) + Cardinality(R)
  BY <1>5, <1>6, <1>7, DisjointSizes
<1>10. \A j \in R : Cardinality(UpTo(D, j)) = Len(p) + Cardinality(UpTo(R, j))
  BY <1>5, <1>6, <1>8, DisjointSizes
<1> QED
  BY <1>2, <1>9, <1>10 DEF D, R, Rank

\* What filling an empty pipeline takes, from its ids.
LEMMA AddedFromEmpty ==
    ASSUME NEW q, QueueOK(q)
    PROVE  /\ Size(q, <<>>) = IF Cardinality(DOMAIN q) < MaxPendingWrites
                              THEN Cardinality(DOMAIN q) ELSE MaxPendingWrites
           /\ Added(q, <<>>) \in Seq(Batch)
           /\ Len(Added(q, <<>>)) = Size(q, <<>>)
           /\ \A k \in 1..Size(q, <<>>) : Added(q, <<>>)[k] = Item(q, DOMAIN q, k)
<1> DEFINE D == DOMAIN q
<1>1. Ids(D)
  BY DEF QueueOK
<1>2. Rest(q, <<>>) = D
  BY <1>1, IdBounds DEF Rest, Last
<1> HIDE DEF D
<1>3. <<>> \in Seq(Batch) /\ Len(<<>>) = 0 /\ Len(<<>>) <= MaxPendingWrites
  BY PipelineAssumption
<1>4. MaxPendingWrites - Len(<<>>) = MaxPendingWrites
  BY <1>3, PipelineAssumption
<1>5. Size(q, <<>>) = IF Cardinality(D) < MaxPendingWrites
                      THEN Cardinality(D) ELSE MaxPendingWrites
  BY <1>2, <1>4 DEF Size
<1>6. /\ Added(q, <<>>) \in Seq(Batch) /\ Len(Added(q, <<>>)) = Size(q, <<>>)
      /\ \A k \in 1..Size(q, <<>>) : Added(q, <<>>)[k] = Item(q, D, k)
  BY <1>2, <1>3, AddedType
<1> QED
  BY <1>5, <1>6 DEF D

\* Two sums that are the smaller of a number and a sum.
LEMMA RoomLeft ==
    ASSUME NEW c \in Nat, NEW l \in Nat, NEW max \in Nat, l <= max
    PROVE  (IF l + c < max THEN l + c ELSE max)
              = l + (IF c < max - l THEN c ELSE max - l)
  OBVIOUS

\* Filling up a front gives what filling an empty pipeline gives.
LEMMA FrontFilled ==
    ASSUME NEW q, QueueOK(q), NEW p, Front(p, q)
    PROVE  p \o Added(q, p) = Added(q, <<>>)
<1> DEFINE D == DOMAIN q
           R == Rest(q, p)
           a == Added(q, p)
           b == Added(q, <<>>)
           m == Len(p)
           n == Size(q, p)
<1>1. Ids(D) /\ Ids(R) /\ R \subseteq D
  BY RestRank DEF QueueOK
<1>2. p \in Seq(Batch) /\ m \in Nat /\ m <= MaxPendingWrites
  BY DEF Front
<1>3. /\ a \in Seq(Batch) /\ Len(a) = n /\ n \in Nat /\ n <= Cardinality(R)
      /\ \A k \in 1..n : a[k] = Item(q, R, k)
  BY <1>2, AddedType
<1>4. Cardinality(R) \in Nat
  BY <1>1, RankType
<1>5. Cardinality(D) = m + Cardinality(R)
  BY RestRank
<1>6. n = IF Cardinality(R) < MaxPendingWrites - m THEN Cardinality(R)
          ELSE MaxPendingWrites - m
  BY DEF Size
<1>7. /\ Size(q, <<>>) = IF Cardinality(D) < MaxPendingWrites
                         THEN Cardinality(D) ELSE MaxPendingWrites
      /\ b \in Seq(Batch) /\ Len(b) = Size(q, <<>>)
      /\ \A k \in 1..Size(q, <<>>) : b[k] = Item(q, D, k)
  BY AddedFromEmpty
<1>71. MaxPendingWrites \in Nat
  BY PipelineAssumption
<1>72. \A i \in 1..m : /\ p[i].id \in D /\ Rank(D, p[i].id) = i
                       /\ p[i].write = q[p[i].id] /\ p[i] \in Batch
  <2> SUFFICES ASSUME NEW i \in 1..m
               PROVE  /\ p[i].id \in D /\ Rank(D, p[i].id) = i
                      /\ p[i].write = q[p[i].id] /\ p[i] \in Batch
    OBVIOUS
  <2>1. Rank(D, p[i].id) = i
    BY FrontRank
  <2>2. p[i].id \in D /\ p[i].write = q[p[i].id]
    BY DEF Front
  <2>3. p[i] \in Batch
    BY <1>2
  <2> QED
    BY <2>1, <2>2, <2>3
<1>73. \A j \in R : Rank(D, j) = m + Rank(R, j)
  BY RestRank
<1> HIDE DEF D, R, a, b, m, n
<1>8. Size(q, <<>>) = m + n
  BY <1>2, <1>4, <1>5, <1>6, <1>7, <1>71, RoomLeft
<1>9. /\ b \in Seq(Batch) /\ Len(b) = m + n
      /\ \A k \in 1..(m + n) : b[k] = Item(q, D, k)
  BY <1>7, <1>8
<1>10. /\ p \o a \in Seq(Batch) /\ Len(p \o a) = m + n
       /\ \A i \in 1..m : (p \o a)[i] = p[i]
       /\ \A i \in (m + 1)..(m + n) : (p \o a)[i] = a[i - m]
  <2>1. /\ Len(p \o a) = Len(p) + Len(a)
        /\ \A i \in 1..(Len(p) + Len(a)) :
              (p \o a)[i] = IF i <= Len(p) THEN p[i] ELSE a[i - Len(p)]
    BY <1>2, <1>3
  <2>2. Len(p) = m
    BY DEF m
  <2>3. \A i \in 1..m : i \in 1..(m + n) /\ i <= m
    BY <1>2, <1>3
  <2>4. \A i \in (m + 1)..(m + n) : i \in 1..(m + n) /\ ~(i <= m)
    BY <1>2, <1>3
  <2>5. p \o a \in Seq(Batch)
    BY <1>2, <1>3
  <2> QED
    BY <1>3, <2>1, <2>2, <2>3, <2>4, <2>5
<1>11. ASSUME NEW i \in 1..m PROVE (p \o a)[i] = b[i]
  <2>1. i \in 1..Cardinality(D) /\ i \in 1..(m + n)
    BY <1>2, <1>3, <1>4, <1>5
  <2>2. p[i].id = Nth(D, i)
    BY <1>1, <1>72, <2>1, NthRank
  <2>3. p[i] = [id |-> p[i].id, write |-> p[i].write]
    BY <1>72 DEF Batch
  <2>4. p[i] = Item(q, D, i)
    BY <1>72, <2>2, <2>3 DEF Item
  <2> QED
    BY <1>9, <1>10, <2>1, <2>4
<1>12. ASSUME NEW i \in (m + 1)..(m + n) PROVE (p \o a)[i] = b[i]
  <2> DEFINE k == i - m
  <2>1. k \in 1..n /\ k \in 1..Cardinality(R) /\ i = m + k /\ i \in Nat
    BY <1>2, <1>3, <1>4
  <2>2. i \in 1..Cardinality(D) /\ i \in 1..(m + n)
    BY <1>2, <1>3, <1>4, <1>5
  <2>3. (p \o a)[i] = a[k]
    BY <1>10
  <2> HIDE DEF k
  <2>4. Nth(R, k) \in R /\ Rank(R, Nth(R, k)) = k
    BY <1>1, <2>1, NthRank
  <2>5. Nth(R, k) \in D /\ Rank(D, Nth(R, k)) = i
    BY <1>1, <1>73, <2>1, <2>4
  <2>6. Nth(R, k) = Nth(D, i)
    BY <1>1, <2>2, <2>5, NthRank
  <2> QED
    BY <1>3, <1>9, <2>1, <2>2, <2>3, <2>6 DEF Item
<1>13. \A i \in 1..(m + n) : i \in 1..m \/ i \in (m + 1)..(m + n)
  BY <1>2, <1>3
<1>14. \A i \in 1..Len(p \o a) : (p \o a)[i] = b[i]
  BY <1>10, <1>11, <1>12, <1>13
<1> QED
  BY <1>9, <1>10, <1>14, SeqEqual DEF a, b

\* A pipeline that was filled up is the front of the queue.
LEMMA FillsUp ==
    ASSUME NEW q, QueueOK(q), NEW p, Front(p, q)
    PROVE  /\ p \o Added(q, p) = Added(q, <<>>)
           /\ Added(q, p) \in Seq(Batch) /\ Added(q, <<>>) \in Seq(Batch)
<1>1. p \in Seq(Batch) /\ Len(p) <= MaxPendingWrites
  BY DEF Front
<1> QED
  BY <1>1, FrontFilled, AddedType, AddedFromEmpty

\* The front of an empty queue is empty, and only that.
LEMMA EmptyFront ==
    ASSUME NEW q, QueueOK(q)
    PROVE  Added(q, <<>>) = <<>> <=> DOMAIN q = {}
<1>1. Cardinality(DOMAIN q) \in Nat /\ IsFiniteSet(DOMAIN q)
  BY RankType DEF QueueOK
<1>2. Cardinality(DOMAIN q) = 0 <=> DOMAIN q = {}
  BY <1>1, FS_EmptySet
<1>3. Len(Added(q, <<>>)) = 0 <=> Cardinality(DOMAIN q) = 0
  BY <1>1, AddedFromEmpty, PipelineAssumption
<1>4. Added(q, <<>>) = <<>> <=> Len(Added(q, <<>>)) = 0
  BY AddedFromEmpty, EmptySeq
<1> QED
  BY <1>2, <1>3, <1>4

\* A new batch goes behind the front.
LEMMA EnqueuedFront ==
    ASSUME NEW q, QueueOK(q), NEW p, Front(p, q), NEW w \in Writes,
           NEW j \in 1..MaxBatchId, \A i \in DOMAIN q : i < j,
           NEW r, r = [i \in DOMAIN q \cup {j} |-> IF i = j THEN w ELSE q[i]]
    PROVE  QueueOK(r) /\ Front(p, r)
<1>1. DOMAIN r = DOMAIN q \cup {j} /\ r[j] = w
  OBVIOUS
<1>2. \A i \in DOMAIN q : i \in Nat /\ i # j
  BY IdBounds DEF QueueOK
<1>3. \A i \in DOMAIN q : r[i] = q[i]
  BY <1>2
<1>4. QueueOK(r)
  BY <1>1, <1>3 DEF QueueOK, Ids
<1>5. \A i \in 1..Len(p) : p[i].id \in DOMAIN r /\ p[i].write = r[p[i].id] /\ p[i].id < j
  BY <1>1, <1>3 DEF Front
<1> QED
  BY <1>1, <1>4, <1>5 DEF Front

\* The front without its first batch is the front of the queue without it.
LEMMA DequeuedFront ==
    ASSUME NEW q, QueueOK(q), NEW p, Front(p, q), p # <<>>
    PROVE  /\ QueueOK(Without(q, Head(p))) /\ Front(Tail(p), Without(q, Head(p)))
           /\ Head(p) = p[1] /\ Head(p) \in Batch
           /\ Head(p).id \in DOMAIN q /\ Head(p).write = q[Head(p).id]
<1> DEFINE b == Head(p)
           t == Tail(p)
           r == Without(q, b)
<1>1. p \in Seq(Batch) /\ Len(p) \in Nat /\ Len(p) <= MaxPendingWrites /\ 1 <= Len(p)
  <2>1. p \in Seq(Batch) /\ Len(p) \in Nat /\ Len(p) <= MaxPendingWrites
    BY DEF Front
  <2> QED
    BY <2>1, EmptySeq
<1>2. b = p[1] /\ b \in Batch /\ 1 \in 1..Len(p)
  BY <1>1
<1>3. /\ t \in Seq(Batch) /\ Len(t) = Len(p) - 1
      /\ \A i \in 1..Len(t) : t[i] = p[i + 1]
  BY <1>1
<1>4. b.id \in DOMAIN q /\ b.write = q[b.id]
  BY <1>2 DEF Front
<1>5. DOMAIN r = DOMAIN q \ {b.id} /\ \A j \in DOMAIN r : r[j] = q[j]
  BY DEF Without
<1>6. QueueOK(r)
  BY <1>5 DEF QueueOK, Ids
<1>7. \A j \in DOMAIN q : j \in Nat
  BY IdBounds DEF QueueOK
<1>8. \A i \in 1..Len(t) : i + 1 \in 1..Len(p) /\ i + 1 > 1
  BY <1>1, <1>3
<1> HIDE DEF b, t, r
<1>9. \A i \in 1..Len(t) : /\ t[i].id \in DOMAIN q /\ t[i].write = q[t[i].id]
                           /\ b.id < t[i].id
  BY <1>2, <1>3, <1>8 DEF Front
<1>10. \A i \in 1..Len(t) : t[i].id \in DOMAIN r /\ t[i].write = r[t[i].id]
  BY <1>4, <1>5, <1>7, <1>9
<1>11. \A i \in 1..Len(t) : \A k \in 1..Len(t) : i < k => t[i].id < t[k].id
  <2> SUFFICES ASSUME NEW i \in 1..Len(t), NEW k \in 1..Len(t), i < k
               PROVE  t[i].id < t[k].id
    OBVIOUS
  <2>1. i + 1 < k + 1
    OBVIOUS
  <2> QED
    BY <1>3, <1>8, <2>1 DEF Front
<1>12. ASSUME NEW j \in DOMAIN r
       PROVE  (\E i \in 1..Len(t) : t[i].id = j) \/ (\A i \in 1..Len(t) : t[i].id < j)
  <2>1. j \in DOMAIN q /\ j # b.id
    BY <1>5
  <2>2. CASE \E i \in 1..Len(p) : p[i].id = j
    <3>1. PICK i \in 1..Len(p) : p[i].id = j
      BY <2>2
    <3>2. i - 1 \in 1..Len(t) /\ (i - 1) + 1 = i
      BY <1>1, <1>2, <1>3, <2>1, <3>1
    <3> QED
      BY <1>3, <3>1, <3>2
  <2>3. CASE \A i \in 1..Len(p) : p[i].id < j
    BY <1>3, <1>8, <2>3
  <2> QED
    BY <2>1, <2>2, <2>3 DEF Front
<1>13. Len(t) <= MaxPendingWrites
  BY <1>1, <1>3, PipelineAssumption
<1>14. Front(t, r)
  BY <1>3, <1>10, <1>11, <1>12, <1>13 DEF Front
<1> QED
  BY <1>2, <1>4, <1>6, <1>14 DEF b, t, r

\* The largest id of the mutation queue, and so the next id after a restart.
LEMMA NextIdAfterRestart ==
    ASSUME QueueOK(queue)
    PROVE  /\ NextBatchIdFromDb \in Nat \ {0} /\ NextBatchIdFromDb <= MaxBatchId + 1
           /\ \A j \in DOMAIN queue : j < NextBatchIdFromDb
<1> DEFINE D == DOMAIN queue
           c == Cardinality(D)
           max == CHOOSE j \in D : \A i \in D : i <= j
<1>1. Ids(D) /\ \A j \in D : j \in Nat /\ 1 <= j /\ j <= MaxBatchId
  BY IdBounds DEF QueueOK
<1>2. CASE D = {}
  BY <1>2, PipelineAssumption DEF NextBatchIdFromDb
<1>3. CASE D # {}
  <2>1. c \in Nat /\ IsFiniteSet(D)
    BY <1>1, RankType
  <2>2. c # 0
    BY <1>3, <2>1, FS_EmptySet
  <2>3. c \in 1..c
    BY <2>1, <2>2
  <2> HIDE DEF D
  <2>4. PICK j \in D : Rank(D, j) = c
    BY <1>1, <2>3, NthRank
  <2>5. ASSUME NEW i \in D PROVE i <= j
    <3>1. j < i => c < Rank(D, i)
      BY <1>1, <2>4, RankGrows
    <3>2. Rank(D, i) \in 1..c
      BY <1>1, RankBounds
    <3> QED
      BY <1>1, <2>1, <3>1, <3>2
  <2>6. max \in D /\ \A i \in D : i <= max
    BY <2>5
  <2>7. NextBatchIdFromDb = 1 + max
    BY <1>3 DEF NextBatchIdFromDb, D
  <2> HIDE DEF max
  <2>8. max \in Nat /\ max <= MaxBatchId
    BY <1>1, <2>6
  <2>9. \A i \in D : i < 1 + max
    BY <1>1, <2>6, <2>8
  <2> QED
    BY <2>7, <2>8, <2>9, PipelineAssumption DEF D
<1> QED
  BY <1>2, <1>3

-----------------------------------------------------------------------------
(* Answers and requests as parts of the pipeline.                          *)

\* r is a part of p from its beginning, and there is more of p.
Begins(r, p) == Len(r) < Len(p) /\ \A i \in 1..Len(r) : r[i] = p[i]

\* Taking the front off a sequence in two parts.
LEMMA TailOfTwo ==
    ASSUME NEW S, NEW r \in Seq(S), NEW t \in Seq(S), r # <<>>
    PROVE  /\ r \o t # <<>> /\ Head(r \o t) = Head(r)
           /\ Tail(r \o t) = Tail(r) \o t
<1>1. Len(r) \in Nat \ {0} /\ Len(t) \in Nat
  BY EmptySeq
<1>2. /\ r \o t \in Seq(S) /\ Len(r \o t) = Len(r) + Len(t)
      /\ \A i \in 1..(Len(r) + Len(t)) :
            (r \o t)[i] = IF i <= Len(r) THEN r[i] ELSE t[i - Len(r)]
  BY ConcatProperties
<1>3. r \o t # <<>>
  BY <1>1, <1>2
<1>4. Head(r \o t) = Head(r)
  BY <1>1, <1>2, <1>3
<1>5. /\ Tail(r \o t) \in Seq(S) /\ Len(Tail(r \o t)) = Len(r) + Len(t) - 1
      /\ \A i \in 1..(Len(r) + Len(t) - 1) : Tail(r \o t)[i] = (r \o t)[i + 1]
  BY <1>2, <1>3, HeadTailProperties
<1>6. /\ Tail(r) \in Seq(S) /\ Len(Tail(r)) = Len(r) - 1
      /\ \A i \in 1..(Len(r) - 1) : Tail(r)[i] = r[i + 1]
  BY HeadTailProperties
<1>7. /\ Tail(r) \o t \in Seq(S) /\ Len(Tail(r) \o t) = Len(r) - 1 + Len(t)
      /\ \A i \in 1..(Len(r) - 1 + Len(t)) :
            (Tail(r) \o t)[i] = IF i <= Len(r) - 1 THEN Tail(r)[i] ELSE t[i - (Len(r) - 1)]
  BY <1>6, ConcatProperties
<1>8. ASSUME NEW i \in 1..(Len(r) + Len(t) - 1)
      PROVE  Tail(r \o t)[i] = (Tail(r) \o t)[i]
  <2>1. /\ i + 1 \in 1..(Len(r) + Len(t)) /\ i \in 1..(Len(r) - 1 + Len(t))
        /\ (i + 1 <= Len(r) <=> i <= Len(r) - 1)
        /\ i + 1 - Len(r) = i - (Len(r) - 1)
        /\ i <= Len(r) - 1 => i \in 1..(Len(r) - 1)
    BY <1>1
  <2>2. Tail(r \o t)[i] = IF i + 1 <= Len(r) THEN r[i + 1] ELSE t[i + 1 - Len(r)]
    BY <1>2, <1>5, <2>1
  <2>3. (Tail(r) \o t)[i] = IF i <= Len(r) - 1 THEN r[i + 1] ELSE t[i - (Len(r) - 1)]
    BY <1>6, <1>7, <2>1
  <2> QED
    BY <2>1, <2>2, <2>3
<1>9. Len(r) + Len(t) - 1 = Len(r) - 1 + Len(t)
  BY <1>1
<1>10. Tail(r \o t) = Tail(r) \o t
  BY <1>5, <1>7, <1>8, <1>9, SeqEqual
<1> QED
  BY <1>3, <1>4, <1>10

\* Moving the front of the second part to the end of the first.
LEMMA MoveBetween ==
    ASSUME NEW S, NEW r \in Seq(S), NEW t \in Seq(S), t # <<>>
    PROVE  Append(r, Head(t)) \o Tail(t) = r \o t
<1>1. Len(t) \in Nat \ {0} /\ 1 \in 1..Len(t) /\ Len(t) \in 1..Len(t)
  BY EmptySeq
<1>2. Head(t) = t[1] /\ Head(t) \in S /\ Tail(t) \in Seq(S) /\ <<Head(t)>> \in Seq(S)
  BY HeadTailProperties
<1>3. t = <<Head(t)>> \o Tail(t)
  <2>1. SubSeq(t, 1, Len(t)) = t
    BY SubSeqFull
  <2>2. SubSeq(t, 1, Len(t)) = <<t[1]>> \o SubSeq(t, 1 + 1, Len(t))
    BY <1>1, SubSeqRecursiveFirst
  <2>3. SubSeq(t, 2, Len(t)) = Tail(t)
    BY TailIsSubSeq
  <2>4. 1 + 1 = 2
    OBVIOUS
  <2> QED
    BY <1>2, <2>1, <2>2, <2>3, <2>4
<1>4. Append(r, Head(t)) = r \o <<Head(t)>>
  BY <1>2, AppendIsConcat
<1>5. (r \o <<Head(t)>>) \o Tail(t) = r \o (<<Head(t)>> \o Tail(t))
  BY <1>2, ConcatAssociative
<1> QED
  BY <1>3, <1>4, <1>5, Zenon

\* The first of two parts is a beginning.
LEMMA FirstPartBegins ==
    ASSUME NEW S, NEW r \in Seq(S), NEW t \in Seq(S), t # <<>>
    PROVE  Begins(r, r \o t) /\ (r \o t)[Len(r) + 1] = Head(t)
<1>1. Len(t) \in Nat \ {0} /\ Len(r) \in Nat
  BY EmptySeq
<1>2. Head(t) = t[1]
  OBVIOUS
<1>3. /\ Len(r \o t) = Len(r) + Len(t)
      /\ \A i \in 1..(Len(r) + Len(t)) :
            (r \o t)[i] = IF i <= Len(r) THEN r[i] ELSE t[i - Len(r)]
  BY ConcatProperties
<1>4. \A i \in 1..Len(r) : i \in 1..(Len(r) + Len(t)) /\ i <= Len(r)
  BY <1>1
<1>5. /\ Len(r) + 1 \in 1..(Len(r) + Len(t)) /\ ~(Len(r) + 1 <= Len(r))
      /\ Len(r) + 1 - Len(r) = 1
  BY <1>1
<1>6. Len(r) < Len(r) + Len(t)
  BY <1>1
<1> QED
  BY <1>2, <1>3, <1>4, <1>5, <1>6 DEF Begins

\* A beginning stays one when the sequence gets longer.
LEMMA BeginsLonger ==
    ASSUME NEW S, NEW r \in Seq(S), NEW p \in Seq(S), NEW t \in Seq(S), Begins(r, p)
    PROVE  Begins(r, p \o t) /\ (p \o t)[Len(r) + 1] = p[Len(r) + 1]
<1>1. Len(p) \in Nat /\ Len(r) \in Nat /\ Len(t) \in Nat /\ Len(r) < Len(p)
  BY DEF Begins
<1>2. /\ Len(p \o t) = Len(p) + Len(t)
      /\ \A i \in 1..(Len(p) + Len(t)) :
            (p \o t)[i] = IF i <= Len(p) THEN p[i] ELSE t[i - Len(p)]
  BY ConcatProperties
<1>3. \A i \in 1..(Len(r) + 1) : i \in 1..(Len(p) + Len(t)) /\ i <= Len(p)
  BY <1>1
<1>4. \A i \in 1..(Len(r) + 1) : (p \o t)[i] = p[i]
  BY <1>2, <1>3
<1>5. \A i \in 1..Len(r) : i \in 1..(Len(r) + 1)
  BY <1>1
<1>6. Len(r) + 1 \in 1..(Len(r) + 1) /\ Len(r) < Len(p) + Len(t)
  BY <1>1
<1> QED
  BY <1>2, <1>4, <1>5, <1>6 DEF Begins

\* Taking the front off a sequence and off its beginning.
LEMMA BeginsTail ==
    ASSUME NEW S, NEW r \in Seq(S), NEW p \in Seq(S), Begins(r, p), r # <<>>
    PROVE  /\ p # <<>> /\ Head(p) = Head(r) /\ Begins(Tail(r), Tail(p))
           /\ Tail(p)[Len(Tail(r)) + 1] = p[Len(r) + 1]
<1>1. Len(r) \in Nat \ {0} /\ Len(p) \in Nat /\ Len(r) < Len(p)
  BY EmptySeq DEF Begins
<1>2. p # <<>>
  BY <1>1
<1>3. /\ Tail(r) \in Seq(S) /\ Len(Tail(r)) = Len(r) - 1
      /\ \A i \in 1..(Len(r) - 1) : Tail(r)[i] = r[i + 1]
  BY HeadTailProperties
<1>4. /\ Tail(p) \in Seq(S) /\ Len(Tail(p)) = Len(p) - 1
      /\ \A i \in 1..(Len(p) - 1) : Tail(p)[i] = p[i + 1]
  BY <1>2, HeadTailProperties
<1>5. Head(p) = p[1] /\ Head(r) = r[1] /\ 1 \in 1..Len(r)
  BY <1>1, <1>2
<1>6. \A i \in 1..(Len(r) - 1) : i \in 1..(Len(p) - 1) /\ i + 1 \in 1..Len(r)
  BY <1>1
<1>7. \A i \in 1..(Len(r) - 1) : Tail(r)[i] = Tail(p)[i]
  BY <1>3, <1>4, <1>6 DEF Begins
<1>8. Len(r) \in 1..(Len(p) - 1) /\ Len(r) - 1 + 1 = Len(r) /\ Len(r) - 1 < Len(p) - 1
  BY <1>1
<1> QED
  BY <1>2, <1>3, <1>4, <1>5, <1>7, <1>8 DEF Begins

\* A beginning is a subsequence.
LEMMA BeginsSubSeq ==
    ASSUME NEW S, NEW r \in Seq(S), NEW p \in Seq(S), Begins(r, p)
    PROVE  \E i \in DOMAIN p : r = SubSeq(p, 1, i - 1)
<1>1. Len(r) \in Nat /\ Len(p) \in Nat /\ Len(r) < Len(p)
  BY DEF Begins
<1>2. DOMAIN p = 1..Len(p) /\ Len(r) + 1 \in 1..Len(p) /\ Len(r) + 1 - 1 = Len(r)
  BY <1>1
<1>3. \A i \in 1..Len(r) : p[i] \in S /\ 1 + i - 1 = i
  BY <1>1
<1>4. /\ SubSeq(p, 1, Len(r)) \in Seq(S)
      /\ Len(SubSeq(p, 1, Len(r))) = IF 1 <= Len(r) THEN Len(r) - 1 + 1 ELSE 0
      /\ \A i \in 1..(Len(r) - 1 + 1) : SubSeq(p, 1, Len(r))[i] = p[1 + i - 1]
  BY <1>1, <1>3, SubSeqProperties
<1>5. Len(SubSeq(p, 1, Len(r))) = Len(r) /\ Len(r) - 1 + 1 = Len(r)
  BY <1>1, <1>4
<1>6. \A i \in 1..Len(r) : r[i] = SubSeq(p, 1, Len(r))[i]
  BY <1>3, <1>4, <1>5 DEF Begins
<1>7. r = SubSeq(p, 1, Len(r))
  BY <1>4, <1>5, <1>6, SeqEqual
<1> QED
  BY <1>2, <1>7

-----------------------------------------------------------------------------
(* The inductive invariant.                                                *)

\* Ids are handed out upwards, and there are enough for the posted writes.
BatchIds ==
    /\ nextId + Len(tasks) <= MaxBatchId + 1
    /\ \A j \in DOMAIN queue : j < nextId

\* The stages of a stream: nothing is read before the handshake is complete,
\* requests are those of the present stream once it is open, and the idleness
\* timer runs on an established stream only.
StreamOK ==
    /\ handshake # "none" => stream = "Open"
    /\ handshake # "complete" => results = <<>> /\ ~denied
    /\ handshake \in {"asked", "answered"} \/ denied => sent = <<>>
    /\ idle => stream = "Open" /\ handshake = "complete" /\ pipeline = <<>>
    /\ pipeline # <<>> => IsStarted(stream)

\* AnswersMatchPipeline, element by element.
Answers ==
    handshake = "complete" =>
        IF denied THEN Begins(results, pipeline) ELSE results \o sent = pipeline

\* Answers are for batches the server has applied, the permanent error is for
\* one it has not.
Answered ==
    /\ \A i \in 1..Len(results) : results[i].id \in applied
    /\ denied => pipeline[Len(results) + 1].id \notin applied

Inv == TypeOK /\ BatchIds /\ PipelineHeadsQueue /\ StreamOK /\ Answers /\ Answered

\* The variables' types, in the form the steps use them.
LEMMA Types ==
    ASSUME TypeOK
    PROVE  /\ QueueOK(queue)
           /\ pipeline \in Seq(Batch) /\ sent \in Seq(Batch) /\ results \in Seq(Batch)
           /\ tasks \in Seq(Writes) /\ nextId \in Nat \ {0}
  BY DEF TypeOK, QueueOK, Ids, RangeOf

\* The pipeline is a front of the queue.
LEMMA PipelineFront ==
    ASSUME TypeOK, PipelineHeadsQueue
    PROVE  Front(pipeline, queue)
  BY Types, AddedFront DEF PipelineHeadsQueue

\* An answer belongs to the batch at the same place in the pipeline.
LEMMA AnswersInOrder ==
    ASSUME TypeOK, StreamOK, Answers
    PROVE  \A i \in 1..Len(results) : i \in 1..Len(pipeline) /\ results[i] = pipeline[i]
<1>1. pipeline \in Seq(Batch) /\ sent \in Seq(Batch) /\ results \in Seq(Batch)
  BY Types
<1>2. CASE handshake # "complete"
  <2>1. results = <<>> /\ Len(<<>>) = 0
    BY <1>2 DEF StreamOK
  <2> QED
    BY <2>1
<1>3. CASE handshake = "complete" /\ denied
  <2>1. Begins(results, pipeline)
    BY <1>3 DEF Answers
  <2>2. Len(results) \in Nat /\ Len(pipeline) \in Nat
    BY <1>1
  <2> QED
    BY <2>1, <2>2 DEF Begins
<1>4. CASE handshake = "complete" /\ ~denied
  <2>1. results \o sent = pipeline
    BY <1>4 DEF Answers
  <2>2. /\ Len(pipeline) = Len(results) + Len(sent)
        /\ \A i \in 1..(Len(results) + Len(sent)) :
              pipeline[i] = IF i <= Len(results) THEN results[i] ELSE sent[i - Len(results)]
    BY <1>1, <2>1, ConcatProperties
  <2>3. \A i \in 1..Len(results) : i \in 1..(Len(results) + Len(sent)) /\ i <= Len(results)
    BY <1>1
  <2> QED
    BY <2>2, <2>3
<1> QED
  BY <1>2, <1>3, <1>4

\* An answer, or a permanent error, finds a batch in the pipeline.
LEMMA FrontAnswered ==
    ASSUME TypeOK, StreamOK, Answers, Answered
    PROVE  /\ results # <<>> => /\ pipeline # <<>> /\ Head(pipeline) = Head(results)
                                /\ Head(pipeline).id \in applied
                                /\ handshake = "complete" /\ stream = "Open"
           /\ denied => /\ pipeline # <<>>
                        /\ handshake = "complete" /\ stream = "Open"
           /\ denied /\ results = <<>> => Head(pipeline).id \notin applied
<1>1. pipeline \in Seq(Batch) /\ results \in Seq(Batch)
  BY Types
<1>2. ASSUME results # <<>> PROVE /\ pipeline # <<>> /\ Head(pipeline) = Head(results)
                                  /\ Head(pipeline).id \in applied
  <2>1. 1 \in 1..Len(results) /\ Head(results) = results[1]
    BY <1>1, <1>2, EmptySeq
  <2>2. 1 \in 1..Len(pipeline) /\ results[1] = pipeline[1]
    BY <2>1, AnswersInOrder
  <2>3. pipeline # <<>>
    BY <2>2
  <2> QED
    BY <1>1, <2>1, <2>2, <2>3 DEF Answered
<1>3. ASSUME denied PROVE pipeline # <<>>
  <2>1. Len(results) < Len(pipeline) /\ Len(results) \in Nat /\ Len(pipeline) \in Nat
    BY <1>1, <1>3 DEF StreamOK, Answers, Begins
  <2> QED
    BY <2>1
<1>4. ASSUME denied, results = <<>> PROVE Head(pipeline).id \notin applied
  <2>1. Len(results) + 1 = 1
    BY <1>4
  <2> QED
    BY <1>1, <1>3, <1>4, <2>1 DEF Answered
<1>5. results # <<>> \/ denied => handshake = "complete" /\ stream = "Open"
  BY DEF StreamOK
<1> QED
  BY <1>2, <1>3, <1>4, <1>5

-----------------------------------------------------------------------------
(* Every step preserves it.                                                *)

StreamStates == {"Initial", "Starting", "Open", "Backoff", "Error"}

\* Starting a stream when it is needed.
LEMMA StartedFacts ==
    ASSUME NEW s \in StreamStates, NEW p
    PROVE  /\ Started(s, p) \in StreamStates
           /\ Started("Open", p) = "Open"
           /\ p # <<>> => IsStarted(Started(s, p))
  BY DEF StreamStates, Started, IsStarted

\* A posted write becomes a batch.
LEMMA WriteStep ==
    ASSUME Inv, WriteMutations
    PROVE  Inv'
<1> DEFINE new == Added(queue', pipeline)
           ready == stream = "Open" /\ handshake = "complete"
<1>1. TypeOK /\ BatchIds /\ PipelineHeadsQueue /\ StreamOK /\ Answers /\ Answered
  BY DEF Inv
<1>2. /\ QueueOK(queue) /\ Front(pipeline, queue)
      /\ pipeline \in Seq(Batch) /\ sent \in Seq(Batch) /\ results \in Seq(Batch)
      /\ tasks \in Seq(Writes) /\ nextId \in Nat \ {0}
  BY <1>1, Types, PipelineFront
<1>3. /\ tasks # <<>> /\ tasks' = Tail(tasks) /\ nextId' = nextId + 1
      /\ queue' = [j \in DOMAIN queue \cup {nextId} |->
                      IF j = nextId THEN Head(tasks) ELSE queue[j]]
      /\ callbacks' = callbacks \cup {nextId}
      /\ UNCHANGED <<cache, handshake, results, denied, server, applied, told, faults>>
  BY DEF WriteMutations
<1>4. FillWritePipeline(queue', pipeline, stream)
  BY DEF WriteMutations
<1>5. /\ pipeline' = pipeline \o new
      /\ sent' = IF ready /\ ~denied THEN sent \o new ELSE sent
      /\ stream' = Started(stream, pipeline')
  BY <1>4 DEF FillWritePipeline
<1>6. idle' = /\ stream = "Open"
              /\ pipeline \o new = <<>> \/ (idle /\ ~(ready /\ new # <<>>))
  BY <1>4, Zenon DEF FillWritePipeline
<1>7. /\ Head(tasks) \in Writes /\ tasks' \in Seq(Writes)
      /\ Len(tasks') = Len(tasks) - 1 /\ Len(tasks) \in Nat \ {0}
  BY <1>2, <1>3, EmptySeq, HeadTailProperties
<1>8. nextId \in 1..MaxBatchId
  BY <1>1, <1>2, <1>7, PipelineAssumption DEF BatchIds
<1>9. QueueOK(queue') /\ Front(pipeline, queue')
  <2>1. QueueOK(queue) /\ Front(pipeline, queue) /\ Head(tasks) \in Writes
    BY <1>2, <1>7
  <2>2. \A i \in DOMAIN queue : i < nextId
    BY <1>1 DEF BatchIds
  <2>3. queue' = [j \in DOMAIN queue \cup {nextId} |->
                      IF j = nextId THEN Head(tasks) ELSE queue[j]]
    BY <1>3
  <2> QED
    BY <1>8, <2>1, <2>2, <2>3, EnqueuedFront
<1>10. pipeline \o new = Added(queue', <<>>) /\ new \in Seq(Batch) /\ Added(queue', <<>>) \in Seq(Batch)
  BY <1>9, FillsUp
<1>11. DOMAIN queue' = DOMAIN queue \cup {nextId}
  BY <1>3
<1>12. pipeline' # <<>>
  BY <1>5, <1>9, <1>10, <1>11, EmptyFront
<1> HIDE DEF new
<1>13. PipelineHeadsQueue'
  BY <1>5, <1>10 DEF PipelineHeadsQueue
<1>14. TypeOK'
  <2>1. sent' \in Seq(Batch) /\ pipeline' \in Seq(Batch)
    BY <1>2, <1>5, <1>10, ConcatProperties
  <2>2. stream' \in StreamStates
    BY <1>1, <1>5, StartedFacts DEF TypeOK, StreamStates
  <2>3. idle' \in BOOLEAN
    BY <1>6, Zenon
  <2>4. nextId' \in Nat \ {0} /\ callbacks' \subseteq 1..MaxBatchId
    BY <1>1, <1>2, <1>3, <1>8 DEF TypeOK
  <2>5. DOMAIN queue' \subseteq 1..MaxBatchId /\ RangeOf(queue') \subseteq Writes
    BY <1>9 DEF QueueOK, Ids, RangeOf
  <2> QED
    BY <1>1, <1>3, <1>7, <2>1, <2>2, <2>3, <2>4, <2>5 DEF TypeOK, StreamStates
<1>15. BatchIds'
  <2>1. nextId' + Len(tasks') = nextId + Len(tasks)
    BY <1>2, <1>3, <1>7
  <2>2. \A j \in DOMAIN queue' : j < nextId'
    BY <1>1, <1>2, <1>3, <1>8, <1>11, IdBounds DEF BatchIds, QueueOK
  <2> QED
    BY <1>1, <2>1, <2>2 DEF BatchIds
<1>16. StreamOK'
  <2>1. ~idle'
    <3> SUFFICES ASSUME idle' PROVE FALSE
      OBVIOUS
    <3>1. idle /\ ~(ready /\ new # <<>>)
      BY <1>5, <1>6, <1>12, Zenon
    <3>2. ready /\ pipeline = <<>>
      BY <1>1, <3>1 DEF StreamOK
    <3>3. pipeline' = new
      BY <1>5, <1>10, <3>2, ConcatEmptySeq
    <3> QED
      BY <1>12, <3>1, <3>2, <3>3
  <2>2. handshake' # "none" => stream' = "Open"
    BY <1>1, <1>3, <1>5, StartedFacts DEF StreamOK, StreamStates
  <2>3. IsStarted(stream')
    BY <1>1, <1>5, <1>12, StartedFacts DEF TypeOK, StreamStates
  <2>4. handshake' \in {"asked", "answered"} \/ denied' => sent' = <<>>
    BY <1>1, <1>3, <1>5 DEF StreamOK
  <2>5. handshake' # "complete" => results' = <<>> /\ ~denied'
    BY <1>1, <1>3 DEF StreamOK
  <2> QED
    BY <2>1, <2>2, <2>3, <2>4, <2>5 DEF StreamOK
<1>17. ASSUME denied
       PROVE  /\ Begins(results', pipeline')
              /\ pipeline'[Len(results') + 1] = pipeline[Len(results) + 1]
  <2>1. Begins(results, pipeline)
    BY <1>1, <1>17 DEF StreamOK, Answers
  <2> QED
    BY <1>2, <1>3, <1>5, <1>10, <2>1, BeginsLonger
<1>18. Answers'
  <2> SUFFICES ASSUME handshake' = "complete", ~denied'
               PROVE  results' \o sent' = pipeline'
    BY <1>3, <1>17 DEF Answers
  <2>1. ready /\ ~denied /\ results \o sent = pipeline
    BY <1>1, <1>3 DEF StreamOK, Answers
  <2>2. results \in Seq(Batch) /\ sent \in Seq(Batch) /\ new \in Seq(Batch)
    BY <1>2, <1>10
  <2>3. (results \o sent) \o new = results \o (sent \o new)
    BY <2>2, ConcatAssociative
  <2> QED
    BY <1>3, <1>5, <2>1, <2>3
<1>19. Answered'
  BY <1>1, <1>3, <1>17 DEF Answered
<1> QED
  BY <1>13, <1>14, <1>15, <1>16, <1>18, <1>19 DEF Inv

\* Reporting a batch's outcome keeps the types of what is reported.
LEMMA TellTypes ==
    ASSUME TypeOK, NEW b \in Batch, NEW how \in {"ok", "error"}, Tell(b, how)
    PROVE  callbacks' \subseteq 1..MaxBatchId /\ told' \subseteq Writes \X {"ok", "error"}
<1>1. b.write \in Writes
  BY DEF Batch
<1>2. <<b.write, how>> \in Writes \X {"ok", "error"}
  BY <1>1
<1>3. /\ callbacks' = callbacks \ {b.id}
      /\ told' = IF b.id \in callbacks THEN told \cup {<<b.write, how>>} ELSE told
  BY DEF Tell
<1>4. callbacks \subseteq 1..MaxBatchId /\ told \subseteq Writes \X {"ok", "error"}
  BY DEF TypeOK
<1> QED
  BY <1>2, <1>3, <1>4, Zenon

\* An answer takes the front of the pipeline out of the queue.
LEMMA ResultStep ==
    ASSUME Inv, MutationResult
    PROVE  Inv'
<1> DEFINE b == Head(pipeline)
           rest == Tail(pipeline)
           new == Added(queue', rest)
<1>1. TypeOK /\ BatchIds /\ PipelineHeadsQueue /\ StreamOK /\ Answers /\ Answered
  BY DEF Inv
<1>2. /\ QueueOK(queue) /\ Front(pipeline, queue)
      /\ pipeline \in Seq(Batch) /\ sent \in Seq(Batch) /\ results \in Seq(Batch)
      /\ tasks \in Seq(Writes) /\ nextId \in Nat \ {0}
  BY <1>1, Types, PipelineFront
<1>3. /\ results # <<>> /\ results' = Tail(results)
      /\ queue' = Without(queue, b) /\ cache' = Apply(b.write, cache)
      /\ applied' = applied \ {b.id}
      /\ UNCHANGED <<tasks, nextId, handshake, denied, server, faults>>
  BY DEF MutationResult
<1>4. FillWritePipeline(queue', rest, stream) /\ Tell(b, "ok")
  BY DEF MutationResult
<1>5. pipeline # <<>> /\ Head(results) = b /\ handshake = "complete" /\ stream = "Open"
  BY <1>1, <1>3, FrontAnswered
<1>6. /\ pipeline' = rest \o new /\ sent' = IF denied THEN sent ELSE sent \o new
      /\ stream' = Started(stream, pipeline')
  BY <1>4, <1>5 DEF FillWritePipeline
<1>7. idle' = /\ stream = "Open"
              /\ \/ rest \o new = <<>>
                 \/ idle /\ ~(stream = "Open" /\ handshake = "complete" /\ new # <<>>)
  BY <1>4, Zenon DEF FillWritePipeline
<1>8. QueueOK(queue') /\ Front(rest, queue') /\ b \in Batch /\ b = pipeline[1]
  BY <1>2, <1>3, <1>5, DequeuedFront
<1>9. /\ rest \o new = Added(queue', <<>>) /\ new \in Seq(Batch)
      /\ Added(queue', <<>>) \in Seq(Batch)
  BY <1>8, FillsUp
<1>10. DOMAIN queue' \subseteq DOMAIN queue
  BY <1>3 DEF Without
<1>11. /\ results' \in Seq(Batch) /\ Len(results') = Len(results) - 1
       /\ \A i \in 1..Len(results') : results'[i] = results[i + 1]
       /\ rest \in Seq(Batch)
  BY <1>2, <1>3, <1>5, HeadTailProperties
<1>12. stream' = "Open"
  BY <1>5, <1>6, StartedFacts DEF StreamStates
<1> HIDE DEF new, b
<1>13. PipelineHeadsQueue'
  BY <1>6, <1>9 DEF PipelineHeadsQueue
<1>14. TypeOK'
  <2>1. sent' \in Seq(Batch) /\ pipeline' \in Seq(Batch)
    BY <1>2, <1>6, <1>9, ConcatProperties
  <2>2. callbacks' \subseteq 1..MaxBatchId /\ told' \subseteq Writes \X {"ok", "error"}
    BY <1>1, <1>4, <1>8, TellTypes
  <2>3. idle' \in BOOLEAN
    BY <1>7, Zenon
  <2>4. cache' \subseteq Docs
    BY <1>1, <1>3, <1>8 DEF TypeOK, Apply, Batch, Writes
  <2>5. DOMAIN queue' \subseteq 1..MaxBatchId /\ RangeOf(queue') \subseteq Writes
    BY <1>8 DEF QueueOK, Ids, RangeOf
  <2>6. applied' \subseteq 1..MaxBatchId
    BY <1>1, <1>3 DEF TypeOK
  <2> QED
    BY <1>1, <1>3, <1>11, <1>12, <2>1, <2>2, <2>3, <2>4, <2>5, <2>6 DEF TypeOK
<1>15. BatchIds'
  BY <1>1, <1>3, <1>10 DEF BatchIds
<1>16. StreamOK'
  <2>1. ~idle
    BY <1>1, <1>5 DEF StreamOK
  <2>2. idle' => pipeline' = <<>>
    BY <1>6, <1>7, <2>1, Zenon
  <2>3. denied' => sent' = <<>>
    BY <1>1, <1>3, <1>6 DEF StreamOK
  <2> QED
    BY <1>3, <1>5, <1>12, <2>2, <2>3 DEF StreamOK, IsStarted
<1>17. ASSUME denied
       PROVE  /\ Begins(results', pipeline')
              /\ pipeline'[Len(results') + 1] = pipeline[Len(results) + 1]
  <2>1. Begins(results, pipeline)
    BY <1>1, <1>5, <1>17 DEF Answers
  <2>2. Begins(Tail(results), rest) /\ rest[Len(Tail(results)) + 1] = pipeline[Len(results) + 1]
    BY <1>2, <1>3, <2>1, BeginsTail
  <2>3. Begins(results', rest) /\ rest[Len(results') + 1] = pipeline[Len(results) + 1]
    BY <1>3, <2>2
  <2>4. Begins(results', rest \o new) /\ (rest \o new)[Len(results') + 1] = rest[Len(results') + 1]
    BY <1>9, <1>11, <2>3, BeginsLonger
  <2> QED
    BY <1>6, <2>3, <2>4
<1>18. Answers'
  <2> SUFFICES ASSUME ~denied
               PROVE  results' \o sent' = pipeline'
    BY <1>3, <1>17 DEF Answers
  <2>1. results \o sent = pipeline
    BY <1>1, <1>5 DEF Answers
  <2>2. rest = Tail(results) \o sent
    BY <1>2, <1>3, <2>1, TailOfTwo
  <2>3. results' \in Seq(Batch) /\ sent \in Seq(Batch) /\ new \in Seq(Batch)
    BY <1>2, <1>9, <1>11
  <2>4. (results' \o sent) \o new = results' \o (sent \o new)
    BY <2>3, ConcatAssociative
  <2> QED
    BY <1>3, <1>6, <2>2, <2>4
<1>19. Answered'
  <2>1. ASSUME NEW i \in 1..Len(results') PROVE results'[i].id \in applied'
    <3>1. i + 1 \in 1..Len(results) /\ i + 1 > 1 /\ i + 1 \in Nat
      BY <1>2, <1>11
    <3>2. results[i + 1].id \in applied
      BY <1>1, <3>1 DEF Answered
    <3>3. i + 1 \in 1..Len(pipeline) /\ results[i + 1] = pipeline[i + 1]
      BY <1>1, <3>1, AnswersInOrder
    <3>4. 1 \in 1..Len(pipeline) /\ 1 < i + 1
      BY <1>2, <3>1, <3>3
    <3>5. pipeline[1].id < pipeline[i + 1].id
      BY <1>2, <3>3, <3>4 DEF Front
    <3>6. pipeline[1].id \in Nat
      BY <1>2, <3>4, IdBounds DEF Front, QueueOK
    <3>7. results[i + 1].id # b.id
      BY <1>8, <3>3, <3>5, <3>6
    <3> QED
      BY <1>3, <1>11, <3>2, <3>7
  <2>2. denied' => pipeline'[Len(results') + 1].id \notin applied'
    BY <1>1, <1>3, <1>17 DEF Answered
  <2> QED
    BY <2>1, <2>2 DEF Answered
<1> QED
  BY <1>13, <1>14, <1>15, <1>16, <1>18, <1>19 DEF Inv

\* A permanent error takes the front of the pipeline out of the queue.
LEMMA RejectStep ==
    ASSUME Inv, WriteRejected
    PROVE  Inv'
<1> DEFINE b == Head(pipeline)
           rest == Tail(pipeline)
           new == Added(queue', rest)
<1>1. TypeOK /\ BatchIds /\ PipelineHeadsQueue /\ StreamOK /\ Answers /\ Answered
  BY DEF Inv
<1>2. /\ QueueOK(queue) /\ Front(pipeline, queue)
      /\ pipeline \in Seq(Batch) /\ sent \in Seq(Batch)
  BY <1>1, Types, PipelineFront
<1>3. /\ denied /\ handshake' = "none" /\ results' = <<>>
      /\ queue' = Without(queue, b) /\ applied' = applied \ {b.id}
      /\ UNCHANGED <<tasks, nextId, cache, server, faults>>
  BY DEF WriteRejected, Close
<1>31. denied' = FALSE
  BY Zenon DEF WriteRejected, Close
<1>4. FillWritePipeline(queue', rest, "Initial") /\ Tell(b, "error")
  BY DEF WriteRejected
<1>5. pipeline # <<>>
  BY <1>1, <1>3, FrontAnswered
<1>6. /\ pipeline' = rest \o new /\ sent' = sent
      /\ stream' = Started("Initial", pipeline')
  BY <1>4 DEF FillWritePipeline
<1>7. idle' = FALSE
  BY <1>4, Zenon DEF FillWritePipeline
<1>8. QueueOK(queue') /\ Front(rest, queue') /\ b \in Batch
  BY <1>2, <1>3, <1>5, DequeuedFront
<1>9. /\ rest \o new = Added(queue', <<>>) /\ Added(queue', <<>>) \in Seq(Batch)
  BY <1>8, FillsUp
<1>10. DOMAIN queue' \subseteq DOMAIN queue
  BY <1>3 DEF Without
<1> HIDE DEF new, b
<1>11. PipelineHeadsQueue'
  BY <1>6, <1>9 DEF PipelineHeadsQueue
<1>12. TypeOK'
  <2>1. sent' \in Seq(Batch) /\ pipeline' \in Seq(Batch) /\ results' \in Seq(Batch)
    BY <1>2, <1>3, <1>6, <1>9, EmptySeq, Zenon
  <2>2. callbacks' \subseteq 1..MaxBatchId /\ told' \subseteq Writes \X {"ok", "error"}
    BY <1>1, <1>4, <1>8, TellTypes
  <2>3. idle' \in BOOLEAN /\ denied' \in BOOLEAN
    BY <1>7, <1>31, Zenon
  <2>4. stream' \in StreamStates
    BY <1>6, StartedFacts DEF StreamStates
  <2>5. DOMAIN queue' \subseteq 1..MaxBatchId /\ RangeOf(queue') \subseteq Writes
    BY <1>8 DEF QueueOK, Ids, RangeOf
  <2>6. applied' \subseteq 1..MaxBatchId
    BY <1>1, <1>3 DEF TypeOK
  <2> QED
    BY <1>1, <1>3, <2>1, <2>2, <2>3, <2>4, <2>5, <2>6 DEF TypeOK, StreamStates
<1>13. BatchIds'
  BY <1>1, <1>3, <1>10 DEF BatchIds
<1>14. StreamOK' /\ Answers' /\ Answered'
  <2>1. ~idle' /\ ~denied'
    BY <1>7, <1>31, Zenon
  <2>2. pipeline' # <<>> => IsStarted(stream')
    BY <1>6, StartedFacts DEF StreamStates
  <2> QED
    BY <1>3, <2>1, <2>2, EmptySeq DEF StreamOK, Answers, Answered
<1> QED
  BY <1>11, <1>12, <1>13, <1>14 DEF Inv

\* The stream is closed and the pipeline is filled again from nothing.
Refilled ==
    /\ Close
    /\ FillWritePipeline(queue, <<>>, "Initial")
    /\ UNCHANGED queue

\* After that the pipeline is the front of the queue, and nothing is waited for.
LEMMA RefillStep ==
    ASSUME Inv, Refilled
    PROVE  /\ PipelineHeadsQueue' /\ StreamOK' /\ Answers' /\ Answered'
           /\ QueueOK(queue') /\ sent' = sent /\ pipeline' \in Seq(Batch)
           /\ results' \in Seq(Batch) /\ handshake' = "none"
           /\ stream' \in StreamStates /\ idle' \in BOOLEAN /\ denied' \in BOOLEAN
<1>1. QueueOK(queue)
  BY Types DEF Inv
<1>2. /\ handshake' = "none" /\ results' = <<>> /\ queue' = queue
      /\ FillWritePipeline(queue, <<>>, "Initial")
  BY DEF Refilled, Close
<1>3. denied' = FALSE
  BY Zenon DEF Refilled, Close
<1>4. /\ pipeline' = <<>> \o Added(queue, <<>>) /\ sent' = sent
      /\ stream' = Started("Initial", pipeline')
  BY <1>2 DEF FillWritePipeline
<1>5. idle' = FALSE
  BY <1>2, Zenon DEF FillWritePipeline
<1>6. Added(queue, <<>>) \in Seq(Batch)
  BY <1>1, AddedFromEmpty
<1>7. pipeline' = Added(queue, <<>>)
  BY <1>4, <1>6, ConcatEmptySeq
<1>8. pipeline' \in Seq(Batch) /\ results' \in Seq(Batch)
  BY <1>2, <1>6, <1>7, EmptySeq, Zenon
<1>9. ~idle' /\ ~denied' /\ idle' \in BOOLEAN /\ denied' \in BOOLEAN
  BY <1>3, <1>5, Zenon
<1>10. stream' \in StreamStates /\ (pipeline' # <<>> => IsStarted(stream'))
  BY <1>4, StartedFacts DEF StreamStates
<1>11. PipelineHeadsQueue'
  BY <1>2, <1>7 DEF PipelineHeadsQueue
<1>12. StreamOK' /\ Answers' /\ Answered'
  BY <1>2, <1>9, <1>10, EmptySeq DEF StreamOK, Answers, Answered
<1> QED
  BY <1>1, <1>2, <1>4, <1>8, <1>9, <1>10, <1>11, <1>12

\* The network or the process starts again.
LEMMA RestartStep ==
    ASSUME Inv, RestartNetwork \/ Restart
    PROVE  Inv'
<1>1. Refilled
  BY DEF Refilled, RestartNetwork, Restart
<1>2. /\ PipelineHeadsQueue' /\ StreamOK' /\ Answers' /\ Answered'
      /\ QueueOK(queue') /\ sent' = sent /\ pipeline' \in Seq(Batch)
      /\ results' \in Seq(Batch) /\ handshake' = "none"
      /\ stream' \in StreamStates /\ idle' \in BOOLEAN /\ denied' \in BOOLEAN
  BY <1>1, RefillStep
<1>3. TypeOK /\ BatchIds /\ QueueOK(queue)
  BY Types DEF Inv
<1>4. /\ faults < MaxFaults /\ faults' = faults + 1
      /\ UNCHANGED <<queue, cache, server, applied, told>>
  BY DEF RestartNetwork, Restart
<1>5. /\ tasks' \in Seq(Writes) /\ callbacks' \subseteq 1..MaxBatchId
      /\ nextId' \in Nat \ {0} /\ BatchIds'
  <2>1. CASE RestartNetwork
    BY <1>3, <2>1 DEF RestartNetwork, TypeOK, BatchIds
  <2>2. CASE Restart
    <3>1. tasks' = <<>> /\ callbacks' = {} /\ nextId' = NextBatchIdFromDb
      BY <2>2 DEF Restart
    <3>2. /\ nextId' \in Nat \ {0} /\ nextId' <= MaxBatchId + 1
          /\ \A j \in DOMAIN queue' : j < nextId'
      BY <1>3, <1>4, <3>1, NextIdAfterRestart
    <3>3. Len(tasks') = 0 /\ tasks' \in Seq(Writes)
      BY <3>1, EmptySeq
    <3>4. nextId' + Len(tasks') <= MaxBatchId + 1
      <4>1. \A n \in Nat : n + 0 = n
        OBVIOUS
      <4>2. nextId' + Len(tasks') = nextId'
        BY <3>2, <3>3, <4>1
      <4> QED
        BY <3>2, <4>2
    <3> QED
      BY <3>1, <3>2, <3>3, <3>4 DEF BatchIds
  <2> QED
    BY <2>1, <2>2
<1>6. DOMAIN queue' \subseteq 1..MaxBatchId /\ RangeOf(queue') \subseteq Writes
  BY <1>2 DEF QueueOK, Ids, RangeOf
<1>7. faults' \in 0..MaxFaults
  BY <1>3, <1>4, PipelineAssumption DEF TypeOK
<1>8. sent' \in Seq(Batch)
  BY <1>2, <1>3 DEF TypeOK
<1>9. TypeOK'
  BY <1>2, <1>3, <1>4, <1>5, <1>6, <1>7, <1>8 DEF TypeOK, StreamStates
<1> QED
  BY <1>2, <1>5, <1>9 DEF Inv

\* The app posts a write.
LEMMA PostStep ==
    ASSUME Inv, NEW d \in Docs, SetData(d) \/ Delete(d)
    PROVE  Inv'
<1> USE DEF Inv
<1>1. PICK w \in Writes : tasks' = Append(tasks, w)
  BY DEF SetData, Delete, Writes
<1>2. /\ nextId + Len(tasks) <= MaxBatchId
      /\ UNCHANGED <<queue, nextId, cache, callbacks, pipeline, stream, handshake,
                     idle, wireVars, applied, told, faults>>
  BY DEF SetData, Delete
<1>3. tasks \in Seq(Writes) /\ nextId \in Nat \ {0}
  BY Types
<1>4. tasks' \in Seq(Writes) /\ Len(tasks') = Len(tasks) + 1
  BY <1>1, <1>3, AppendProperties
<1>5. Len(tasks) \in Nat /\ MaxBatchId \in Nat
  BY <1>3, PipelineAssumption
<1>6. nextId' + Len(tasks') <= MaxBatchId + 1
  BY <1>2, <1>3, <1>4, <1>5
<1>7. TypeOK'
  BY <1>2, <1>4 DEF TypeOK, wireVars
<1>8. BatchIds'
  BY <1>2, <1>6 DEF BatchIds
<1>9. PipelineHeadsQueue' /\ StreamOK' /\ Answers' /\ Answered'
  BY <1>2 DEF PipelineHeadsQueue, StreamOK, Answers, Answered, wireVars
<1> QED
  BY <1>7, <1>8, <1>9

\* The stages of the stream.
LEMMA StreamStep ==
    ASSUME Inv, \/ BackoffElapsed \/ StreamOpens \/ HandshakeComplete
                \/ StreamBreaks \/ IdleTimeout \/ ServerGreets
    PROVE  Inv'
<1>1. TypeOK /\ BatchIds /\ PipelineHeadsQueue /\ StreamOK /\ Answers /\ Answered
  BY DEF Inv
<1>2. pipeline \in Seq(Batch) /\ sent \in Seq(Batch) /\ results \in Seq(Batch)
  BY <1>1, Types
<1>3. /\ UNCHANGED <<tasks, queue, nextId, cache, callbacks, pipeline, server,
                     applied, told>>
      /\ faults' \in 0..MaxFaults
  BY <1>1, PipelineAssumption DEF TypeOK, BackoffElapsed, StreamOpens, HandshakeComplete,
     StreamBreaks, IdleTimeout, ServerGreets, wireVars
<1>4. BatchIds' /\ PipelineHeadsQueue'
  BY <1>1, <1>3 DEF BatchIds, PipelineHeadsQueue
<1>5. CASE BackoffElapsed
  <2>1. stream = "Backoff" /\ stream' = "Starting" /\ UNCHANGED <<handshake, idle, sent, results, denied>>
    BY <1>5 DEF BackoffElapsed, wireVars
  <2>2. TypeOK'
    BY <1>1, <1>3, <2>1 DEF TypeOK
  <2>3. StreamOK' /\ Answers' /\ Answered'
    BY <1>1, <1>3, <2>1 DEF StreamOK, Answers, Answered, IsStarted
  <2> QED
    BY <1>4, <2>2, <2>3 DEF Inv
<1>6. CASE StreamOpens
  <2>1. /\ stream = "Starting" /\ stream' = "Open" /\ handshake' = "asked" /\ sent' = <<>>
        /\ UNCHANGED <<idle, results, denied>>
    BY <1>6 DEF StreamOpens
  <2>2. sent' \in Seq(Batch)
    BY <2>1, EmptySeq, Zenon
  <2>3. TypeOK'
    BY <1>1, <1>3, <2>1, <2>2 DEF TypeOK
  <2>4. StreamOK' /\ Answers' /\ Answered'
    BY <1>1, <1>3, <2>1 DEF StreamOK, Answers, Answered, IsStarted
  <2> QED
    BY <1>4, <2>3, <2>4 DEF Inv
<1>7. CASE HandshakeComplete
  <2>1. /\ handshake = "answered" /\ handshake' = "complete" /\ sent' = sent \o pipeline
        /\ UNCHANGED <<stream, idle, results, denied>>
    BY <1>7 DEF HandshakeComplete
  <2>2. sent = <<>> /\ results = <<>> /\ ~denied
    BY <1>1, <2>1 DEF StreamOK
  <2>3. sent' = pipeline /\ results' \o sent' = pipeline'
    BY <1>2, <1>3, <2>1, <2>2, ConcatEmptySeq
  <2>4. TypeOK'
    BY <1>1, <1>2, <1>3, <2>1, <2>3 DEF TypeOK
  <2>5. StreamOK' /\ Answers' /\ Answered'
    BY <1>1, <1>3, <2>1, <2>2, <2>3 DEF StreamOK, Answers, Answered
  <2> QED
    BY <1>4, <2>4, <2>5 DEF Inv
<1>8. CASE StreamBreaks \/ IdleTimeout
  <2>1. handshake' = "none" /\ results' = <<>> /\ UNCHANGED sent
    BY <1>8 DEF StreamBreaks, IdleTimeout, Close
  <2>2. denied' = FALSE /\ idle' = FALSE
    BY <1>8, Zenon DEF StreamBreaks, IdleTimeout, Close
  <2>3. denied' \in BOOLEAN /\ idle' \in BOOLEAN /\ ~denied' /\ ~idle'
    BY <2>2, Zenon
  <2>4. results' \in Seq(Batch)
    BY <2>1, EmptySeq, Zenon
  <2>5. stream' \in StreamStates /\ (pipeline' # <<>> => IsStarted(stream'))
    <3>1. CASE StreamBreaks
      BY <1>3, <3>1, StartedFacts DEF StreamBreaks, StreamStates
    <3>2. CASE IdleTimeout
      BY <1>1, <1>3, <3>2 DEF IdleTimeout, StreamOK, StreamStates
    <3> QED
      BY <1>8, <3>1, <3>2
  <2>6. TypeOK'
    BY <1>1, <1>3, <2>1, <2>3, <2>4, <2>5 DEF TypeOK, StreamStates
  <2>7. StreamOK' /\ Answers' /\ Answered'
    BY <2>1, <2>3, <2>5, EmptySeq DEF StreamOK, Answers, Answered
  <2> QED
    BY <1>4, <2>6, <2>7 DEF Inv
<1>9. CASE ServerGreets
  <2>1. /\ handshake = "asked" /\ handshake' = "answered"
        /\ UNCHANGED <<stream, idle, sent, results, denied>>
    BY <1>9 DEF ServerGreets, wireVars
  <2>2. TypeOK'
    BY <1>1, <1>3, <2>1 DEF TypeOK
  <2>3. StreamOK' /\ Answers' /\ Answered'
    BY <1>1, <1>3, <2>1 DEF StreamOK, Answers, Answered
  <2> QED
    BY <1>4, <2>2, <2>3 DEF Inv
<1> QED
  BY <1>5, <1>6, <1>7, <1>8, <1>9

\* The server applies a write, and answers on the present stream.
LEMMA ApplyStep ==
    ASSUME Inv, ServerApplies
    PROVE  Inv'
<1> DEFINE h == Head(sent)
<1>1. TypeOK /\ BatchIds /\ PipelineHeadsQueue /\ StreamOK /\ Answers /\ Answered
  BY DEF Inv
<1>2. pipeline \in Seq(Batch) /\ sent \in Seq(Batch) /\ results \in Seq(Batch)
  BY <1>1, Types
<1>3. /\ sent # <<>> /\ ~denied /\ sent' = Tail(sent)
      /\ server' = Apply(h.write, server) /\ applied' = applied \cup {h.id}
      /\ results' = IF handshake = "complete" THEN Append(results, h) ELSE results
      /\ UNCHANGED <<clientVars, denied, told, faults>>
  BY DEF ServerApplies
<1>4. UNCHANGED <<tasks, queue, nextId, cache, callbacks, pipeline, stream, handshake, idle>>
  BY <1>3 DEF clientVars
<1>5. h \in Batch /\ sent' \in Seq(Batch)
  BY <1>2, <1>3, HeadTailProperties
<1> HIDE DEF h
<1>6. results' \in Seq(Batch)
  BY <1>2, <1>3, <1>5, AppendProperties
<1>7. BatchIds' /\ PipelineHeadsQueue'
  BY <1>1, <1>4 DEF BatchIds, PipelineHeadsQueue
<1>8. TypeOK'
  <2>1. server' \subseteq Docs /\ applied' \subseteq 1..MaxBatchId
    BY <1>1, <1>3, <1>5 DEF TypeOK, Apply, Batch, Writes
  <2> QED
    BY <1>1, <1>3, <1>4, <1>5, <1>6, <2>1 DEF TypeOK
<1>9. StreamOK'
  BY <1>1, <1>3, <1>4 DEF StreamOK
<1>10. Answers'
  <2> SUFFICES ASSUME handshake = "complete" PROVE results' \o sent' = pipeline'
    BY <1>3, <1>4 DEF Answers
  <2>1. results \o sent = pipeline
    BY <1>1, <1>3 DEF Answers
  <2>2. Append(results, Head(sent)) \o Tail(sent) = results \o sent
    BY <1>2, <1>3, MoveBetween
  <2> QED
    BY <1>3, <1>4, <2>1, <2>2 DEF h
<1>11. Answered'
  <2>1. ASSUME NEW i \in 1..Len(results') PROVE results'[i].id \in applied'
    <3>1. CASE handshake # "complete"
      BY <1>1, <1>3, <3>1 DEF Answered
    <3>2. CASE handshake = "complete"
      <4>1. /\ Len(results') = Len(results) + 1 /\ results'[Len(results) + 1] = h
            /\ \A k \in 1..Len(results) : results'[k] = results[k]
        BY <1>2, <1>3, <1>5, <3>2, AppendProperties
      <4>2. i \in 1..Len(results) \/ i = Len(results) + 1
        BY <1>2, <4>1
      <4> QED
        BY <1>1, <1>3, <4>1, <4>2 DEF Answered
    <3> QED
      BY <3>1, <3>2
  <2> QED
    BY <1>3, <2>1 DEF Answered
<1> QED
  BY <1>7, <1>8, <1>9, <1>10, <1>11 DEF Inv

\* The server refuses a write it has not applied.
LEMMA RefuseStep ==
    ASSUME Inv, ServerRefuses
    PROVE  Inv'
<1>1. TypeOK /\ BatchIds /\ PipelineHeadsQueue /\ StreamOK /\ Answers /\ Answered
  BY DEF Inv
<1>2. pipeline \in Seq(Batch) /\ sent \in Seq(Batch) /\ results \in Seq(Batch)
  BY <1>1, Types
<1>3. /\ sent # <<>> /\ ~denied /\ Head(sent).id \notin applied
      /\ faults < MaxFaults /\ faults' = faults + 1 /\ sent' = <<>>
      /\ UNCHANGED <<clientVars, results, server, applied, told>>
  BY DEF ServerRefuses
<1>4. denied' \in BOOLEAN /\ (denied' <=> handshake = "complete")
  BY Zenon DEF ServerRefuses
<1>5. UNCHANGED <<tasks, queue, nextId, cache, callbacks, pipeline, stream, handshake, idle>>
  BY <1>3 DEF clientVars
<1>6. sent' \in Seq(Batch)
  BY <1>3, EmptySeq, Zenon
<1>7. faults' \in 0..MaxFaults
  BY <1>1, <1>3, PipelineAssumption DEF TypeOK
<1>8. TypeOK'
  BY <1>1, <1>3, <1>4, <1>5, <1>6, <1>7 DEF TypeOK
<1>9. BatchIds' /\ PipelineHeadsQueue'
  BY <1>1, <1>5 DEF BatchIds, PipelineHeadsQueue
<1>10. StreamOK'
  BY <1>1, <1>3, <1>4, <1>5 DEF StreamOK
<1>11. ASSUME handshake = "complete"
       PROVE  Begins(results, pipeline) /\ pipeline[Len(results) + 1] = Head(sent)
  <2>1. results \o sent = pipeline
    BY <1>1, <1>3, <1>11 DEF Answers
  <2> QED
    BY <1>2, <1>3, <2>1, FirstPartBegins
<1>12. Answers'
  BY <1>3, <1>4, <1>5, <1>11 DEF Answers
<1>13. Answered'
  BY <1>1, <1>3, <1>4, <1>5, <1>11 DEF Answered
<1> QED
  BY <1>8, <1>9, <1>10, <1>12, <1>13 DEF Inv

-----------------------------------------------------------------------------

\* The invariant holds at start-up.
LEMMA InvInit == Init => Inv
<1> SUFFICES ASSUME Init PROVE Inv
  OBVIOUS
<1> USE DEF Init
<1>1. tasks \in Seq(Writes) /\ pipeline \in Seq(Batch) /\ sent \in Seq(Batch) /\ results \in Seq(Batch)
  BY EmptySeq, Zenon
<1>2. DOMAIN queue = {} /\ Len(tasks) = 0 /\ Len(results) = 0
  OBVIOUS
<1>3. idle \in BOOLEAN /\ denied \in BOOLEAN /\ ~idle /\ ~denied
  BY Zenon
<1>4. TypeOK
  BY <1>1, <1>2, <1>3, PipelineAssumption DEF TypeOK, RangeOf
<1>5. BatchIds
  BY <1>2, PipelineAssumption DEF BatchIds
<1>6. PipelineHeadsQueue
  BY <1>2, <1>4, Types, EmptyFront DEF PipelineHeadsQueue
<1>7. StreamOK /\ Answers /\ Answered
  BY <1>2, <1>3 DEF StreamOK, Answers, Answered
<1> QED
  BY <1>4, <1>5, <1>6, <1>7 DEF Inv

\* And every step preserves it.
LEMMA InvNext == Inv /\ [Next]_vars => Inv'
<1> SUFFICES ASSUME Inv, [Next]_vars PROVE Inv'
  OBVIOUS
<1>1. CASE Next
  BY <1>1, PostStep, WriteStep, ResultStep, RejectStep, StreamStep, RestartStep,
     ApplyStep, RefuseStep DEF Next, Client, Server
<1>2. CASE UNCHANGED vars
  BY <1>2 DEF vars, clientVars, wireVars, Inv, TypeOK, BatchIds, PipelineHeadsQueue,
     StreamOK, Answers, Answered
<1> QED
  BY <1>1, <1>2

\* So it always holds.
LEMMA Invariance == Spec => []Inv
  BY InvInit, InvNext, PTL DEF Spec

-----------------------------------------------------------------------------
(* Theorems.                                                               *)

\* The state has the shape the worker queue's tasks rely on.
THEOREM TypeCorrect == Spec => []TypeOK
<1>1. Inv => TypeOK
  BY DEF Inv
<1> QED
  BY <1>1, Invariance, PTL

\* FillWritePipeline keeps the pipeline the front of the mutation queue, with
\* pipelines and queues of every size, through lost streams, rejected writes,
\* network changes and restarts that hand out batch ids again.
THEOREM PipelineIsFrontOfQueue == Spec => []PipelineHeadsQueue
<1>1. Inv => PipelineHeadsQueue
  BY DEF Inv
<1> QED
  BY <1>1, Invariance, PTL

\* OnWriteStreamMutationResult and HandleWriteError take the front of the
\* pipeline, and that is the batch the server has answered.
THEOREM AnswersAreForTheFront == Spec => []AnswersMatchPipeline
<1>1. Inv => AnswersMatchPipeline
  <2> SUFFICES ASSUME Inv, handshake = "complete", denied
               PROVE  \E i \in DOMAIN pipeline : results = SubSeq(pipeline, 1, i - 1)
    BY DEF AnswersMatchPipeline, Inv, Answers
  <2>1. pipeline \in Seq(Batch) /\ results \in Seq(Batch)
    BY Types DEF Inv
  <2>2. Begins(results, pipeline)
    BY DEF Inv, Answers
  <2> QED
    BY <2>1, <2>2, BeginsSubSeq
<1> QED
  BY <1>1, Invariance, PTL

\* A stream is stopped for idleness only when no write waits, and while one
\* waits the stream is on its way: OnWriteStreamClose's assertion holds.
THEOREM StreamServesWrites == Spec => []StreamWhileNeeded
<1>1. Inv => StreamWhileNeeded
  <2> SUFFICES ASSUME Inv PROVE StreamWhileNeeded
    OBVIOUS
  <2>1. QueueOK(queue) /\ StreamOK /\ pipeline = Added(queue, <<>>)
    BY Types DEF Inv, PipelineHeadsQueue
  <2>2. pipeline = <<>> <=> DOMAIN queue = {}
    BY <2>1, EmptyFront
  <2> QED
    BY <2>1, <2>2 DEF StreamOK, StreamWhileNeeded
<1> QED
  BY <1>1, Invariance, PTL

\* NotifyUser reports success for a write the server has applied, and an error
\* for one it has not, whatever was sent twice or lost on the way.
THEOREM CompletionsAreTrue == Spec => OutcomesAreTrue
<1>1. Inv /\ [Next]_vars =>
        [\A w \in Writes :
            /\ <<w, "ok">> \in told' \ told =>
                  \E j \in DOMAIN queue : queue[j] = w /\ j \in applied
            /\ <<w, "error">> \in told' \ told =>
                  \E j \in DOMAIN queue : queue[j] = w /\ j \notin applied]_vars
  <2> SUFFICES ASSUME Inv, Next, NEW w \in Writes
               PROVE  /\ <<w, "ok">> \in told' \ told =>
                            \E j \in DOMAIN queue : queue[j] = w /\ j \in applied
                      /\ <<w, "error">> \in told' \ told =>
                            \E j \in DOMAIN queue : queue[j] = w /\ j \notin applied
    OBVIOUS
  <2>1. TypeOK /\ StreamOK /\ Answers /\ Answered /\ QueueOK(queue) /\ Front(pipeline, queue)
    BY Types, PipelineFront DEF Inv
  <2>2. CASE MutationResult
    <3>1. results # <<>> /\ Tell(Head(pipeline), "ok")
      BY <2>2 DEF MutationResult
    <3>2. pipeline # <<>> /\ Head(pipeline).id \in applied
      BY <2>1, <3>1, FrontAnswered
    <3>3. Head(pipeline).id \in DOMAIN queue /\ Head(pipeline).write = queue[Head(pipeline).id]
      BY <2>1, <3>2, DequeuedFront
    <3>4. \A x \in told' \ told : x = <<Head(pipeline).write, "ok">>
      BY <3>1 DEF Tell
    <3> QED
      BY <3>2, <3>3, <3>4
  <2>3. CASE WriteRejected
    <3>1. denied /\ results = <<>> /\ Tell(Head(pipeline), "error")
      BY <2>3 DEF WriteRejected
    <3>2. pipeline # <<>> /\ Head(pipeline).id \notin applied
      BY <2>1, <3>1, FrontAnswered
    <3>3. Head(pipeline).id \in DOMAIN queue /\ Head(pipeline).write = queue[Head(pipeline).id]
      BY <2>1, <3>2, DequeuedFront
    <3>4. \A x \in told' \ told : x = <<Head(pipeline).write, "error">>
      BY <3>1 DEF Tell
    <3> QED
      BY <3>2, <3>3, <3>4
  <2>4. CASE ~MutationResult /\ ~WriteRejected
    <3>1. told' = told
      BY <2>4 DEF Next, Client, Server, SetData, Delete, WriteMutations, BackoffElapsed,
         StreamOpens, HandshakeComplete, IdleTimeout, ServerGreets, ServerApplies,
         StreamBreaks, RestartNetwork, Restart, ServerRefuses
    <3> QED
      BY <3>1
  <2> QED
    BY <2>2, <2>3, <2>4
<1> QED
  BY <1>1, Invariance, PTL DEF Spec, OutcomesAreTrue

-----------------------------------------------------------------------------
(* Refinement of DocumentStore.  It needs the order of a document's writes *)
(* in the worker's tasks and in the mutation queue.                        *)

\* Write w may come behind write v.
Follows(v, w) == w # v /\ ~(v[1] = "del" /\ w = <<"put", v[2]>>)

\* Every write is there once, and a document's setData before its delete.
Order ==
    /\ \A i \in 1..Len(tasks) : \A k \in 1..Len(tasks) :
          i < k => Follows(tasks[i], tasks[k])
    /\ \A j \in DOMAIN queue : \A i \in 1..Len(tasks) : Follows(queue[j], tasks[i])
    /\ \A j \in DOMAIN queue : \A k \in DOMAIN queue :
          j < k => Follows(queue[j], queue[k])

\* The writes posted, by their place.
LEMMA PostedWrites ==
    ASSUME TypeOK
    PROVE  /\ RangeOf(tasks) = {tasks[i] : i \in 1..Len(tasks)}
           /\ \A w \in RangeOf(tasks) \cup RangeOf(queue) :
                 w \in Writes /\ w = <<w[1], w[2]>> /\ w[1] \in {"put", "del"} /\ w[2] \in Docs
<1>1. tasks \in Seq(Writes) /\ RangeOf(queue) \subseteq Writes
  BY DEF TypeOK
<1>2. DOMAIN tasks = 1..Len(tasks) /\ \A i \in 1..Len(tasks) : tasks[i] \in Writes
  BY <1>1
<1>3. \A w \in Writes : w = <<w[1], w[2]>> /\ w[1] \in {"put", "del"} /\ w[2] \in Docs
  BY DEF Writes
<1> QED
  BY <1>1, <1>2, <1>3 DEF RangeOf

\* A write may be posted: none of the writes before it forbids it.
LEMMA PostedFollows ==
    ASSUME TypeOK, NEW d \in Docs, SetData(d) \/ Delete(d)
    PROVE  \E w \in Writes : /\ tasks' = Append(tasks, w)
                             /\ \A v \in RangeOf(tasks) \cup RangeOf(queue) : Follows(v, w)
<1>1. CASE SetData(d)
  <2>1. /\ tasks' = Append(tasks, <<"put", d>>) /\ <<"put", d>> \in Writes
        /\ \A w \in {<<"put", d>>, <<"del", d>>} :
              w \notin RangeOf(tasks) /\ w \notin RangeOf(queue)
    BY <1>1 DEF SetData, Writes
  <2>2. \A v \in RangeOf(tasks) \cup RangeOf(queue) : Follows(v, <<"put", d>>)
    BY <2>1, PostedWrites DEF Follows
  <2> QED
    BY <2>1, <2>2
<1>2. CASE Delete(d)
  <2>1. /\ tasks' = Append(tasks, <<"del", d>>) /\ <<"del", d>> \in Writes
        /\ <<"del", d>> \notin RangeOf(tasks) /\ <<"del", d>> \notin RangeOf(queue)
    BY <1>2 DEF Delete, Writes
  <2>2. \A v \in RangeOf(tasks) \cup RangeOf(queue) : Follows(v, <<"del", d>>)
    BY <2>1 DEF Follows
  <2> QED
    BY <2>1, <2>2
<1> QED
  BY <1>1, <1>2

\* Every step keeps the order.
LEMMA OrderNext == Inv /\ Order /\ [Next]_vars => Order'
<1> SUFFICES ASSUME Inv, Order, [Next]_vars PROVE Order'
  OBVIOUS
<1>1. TypeOK /\ BatchIds /\ tasks \in Seq(Writes) /\ nextId \in Nat /\ QueueOK(queue)
  BY Types DEF Inv
<1>2. ASSUME NEW d \in Docs, SetData(d) \/ Delete(d) PROVE Order'
  <2>1. PICK w \in Writes : /\ tasks' = Append(tasks, w)
                            /\ \A v \in RangeOf(tasks) \cup RangeOf(queue) : Follows(v, w)
    BY <1>1, <1>2, PostedFollows
  <2>2. queue' = queue
    BY <1>2 DEF SetData, Delete
  <2>3. /\ Len(tasks') = Len(tasks) + 1 /\ tasks'[Len(tasks) + 1] = w
        /\ \A i \in 1..Len(tasks) : tasks'[i] = tasks[i]
    BY <1>1, <2>1, AppendProperties
  <2>4. \A i \in 1..Len(tasks') : i \in 1..Len(tasks) \/ i = Len(tasks) + 1
    BY <1>1, <2>3
  <2>5. \A i \in 1..Len(tasks) : Follows(tasks[i], w)
    BY <1>1, <2>1, PostedWrites
  <2>6. \A j \in DOMAIN queue : Follows(queue[j], w)
    BY <2>1 DEF RangeOf
  <2>7. \A i \in 1..Len(tasks') : \A k \in 1..Len(tasks') :
           i < k => i \in 1..Len(tasks)
    BY <1>1, <2>3
  <2>8. \A i \in 1..Len(tasks') : \A k \in 1..Len(tasks') :
           i < k => Follows(tasks'[i], tasks'[k])
    BY <2>3, <2>4, <2>5, <2>7 DEF Order
  <2>9. \A j \in DOMAIN queue : \A i \in 1..Len(tasks') : Follows(queue[j], tasks'[i])
    BY <2>3, <2>4, <2>6 DEF Order
  <2> QED
    BY <2>2, <2>8, <2>9 DEF Order
<1>3. CASE WriteMutations
  <2>1. /\ tasks # <<>> /\ tasks' = Tail(tasks)
        /\ queue' = [j \in DOMAIN queue \cup {nextId} |->
                        IF j = nextId THEN Head(tasks) ELSE queue[j]]
    BY <1>3 DEF WriteMutations
  <2>2. /\ Head(tasks) = tasks[1] /\ 1 \in 1..Len(tasks)
        /\ Len(tasks') = Len(tasks) - 1
        /\ \A i \in 1..Len(tasks') : tasks'[i] = tasks[i + 1]
    BY <1>1, <2>1, EmptySeq, HeadTailProperties
  <2>3. \A i \in 1..Len(tasks') : i + 1 \in 1..Len(tasks) /\ 1 < i + 1
    BY <1>1, <2>2
  <2>4. \A i \in 1..Len(tasks') : \A k \in 1..Len(tasks') : i < k => i + 1 < k + 1
    BY <1>1, <2>2
  <2>5. \A j \in DOMAIN queue : j \in Nat /\ j < nextId /\ j # nextId
    BY <1>1, IdBounds DEF BatchIds, QueueOK
  <2>6. /\ DOMAIN queue' = DOMAIN queue \cup {nextId} /\ queue'[nextId] = tasks[1]
        /\ \A j \in DOMAIN queue : queue'[j] = queue[j]
    BY <2>1, <2>2, <2>5
  <2>7. \A i \in 1..Len(tasks') : \A k \in 1..Len(tasks') :
           i < k => Follows(tasks'[i], tasks'[k])
    BY <2>2, <2>3, <2>4 DEF Order
  <2>8. \A j \in DOMAIN queue' : \A i \in 1..Len(tasks') : Follows(queue'[j], tasks'[i])
    BY <2>2, <2>3, <2>6 DEF Order
  <2>9. \A j \in DOMAIN queue' : \A k \in DOMAIN queue' :
           j < k => j \in DOMAIN queue
    BY <1>1, <2>5, <2>6
  <2>10. \A j \in DOMAIN queue' : \A k \in DOMAIN queue' :
           j < k => Follows(queue'[j], queue'[k])
    BY <2>2, <2>6, <2>9 DEF Order
  <2> QED
    BY <2>7, <2>8, <2>10 DEF Order
<1>4. CASE MutationResult \/ WriteRejected
  <2>1. queue' = Without(queue, Head(pipeline)) /\ tasks' = tasks
    BY <1>4 DEF MutationResult, WriteRejected
  <2>2. /\ DOMAIN queue' \subseteq DOMAIN queue
        /\ \A j \in DOMAIN queue' : queue'[j] = queue[j]
    BY <2>1 DEF Without
  <2> QED
    BY <2>1, <2>2 DEF Order
<1>5. CASE Restart
  <2>1. tasks' = <<>> /\ queue' = queue /\ Len(<<>>) = 0
    BY <1>5 DEF Restart
  <2> QED
    BY <2>1 DEF Order
<1>6. CASE UNCHANGED <<tasks, queue>>
  BY <1>6 DEF Order
<1>7. \/ \E d \in Docs : SetData(d) \/ Delete(d)
      \/ WriteMutations \/ MutationResult \/ WriteRejected \/ Restart
      \/ UNCHANGED <<tasks, queue>>
  BY DEF Next, Client, Server, vars, clientVars, BackoffElapsed, StreamOpens,
     HandshakeComplete, IdleTimeout, ServerGreets, ServerApplies, StreamBreaks,
     RestartNetwork, ServerRefuses
<1> QED
  BY <1>2, <1>3, <1>4, <1>5, <1>6, <1>7

\* The order always holds.
LEMMA OrderInvariance == Spec => []Order
<1>1. Init => Order
  <2> SUFFICES ASSUME Init PROVE Order
    OBVIOUS
  <2>1. Len(tasks) = 0 /\ DOMAIN queue = {}
    BY DEF Init
  <2> QED
    BY <2>1 DEF Order
<1> QED
  BY <1>1, OrderNext, Invariance, PTL DEF Spec

\* The write of the pipeline's front is the oldest one to its document.
LEMMA FrontIsOldest ==
    ASSUME Inv, Order, pipeline # <<>>, queue' = Without(queue, Head(pipeline)), tasks' = tasks
    PROVE  LET w == Head(pipeline).write IN
           /\ w \in Writes /\ w \in RangeOf(queue) /\ w \notin RangeOf(tasks)
           /\ RangeOf(queue') = RangeOf(queue) \ {w} /\ RangeOf(tasks') = RangeOf(tasks)
           /\ w[1] = "del" => <<"put", w[2]>> \notin RangeOf(tasks) \cup RangeOf(queue)
<1> DEFINE b == Head(pipeline)
           w == b.write
<1>1. TypeOK /\ QueueOK(queue) /\ Front(pipeline, queue) /\ pipeline \in Seq(Batch)
  BY Types, PipelineFront DEF Inv
<1>2. b = pipeline[1] /\ b \in Batch /\ b.id \in DOMAIN queue /\ w = queue[b.id]
  BY <1>1, DequeuedFront
<1>3. w \in Writes /\ w = <<w[1], w[2]>>
  BY <1>2 DEF Batch, Writes
<1>4. 1 \in 1..Len(pipeline) /\ Len(pipeline) \in Nat
  BY <1>1, EmptySeq
<1>5. DOMAIN queue' = DOMAIN queue \ {b.id} /\ \A j \in DOMAIN queue' : queue'[j] = queue[j]
  BY DEF Without
<1> HIDE DEF b
<1>6. ASSUME NEW j \in DOMAIN queue, j # b.id PROVE b.id < j
  <2>1. CASE \E i \in 1..Len(pipeline) : pipeline[i].id = j
    <3>1. PICK i \in 1..Len(pipeline) : pipeline[i].id = j
      BY <2>1
    <3>2. 1 < i
      BY <1>2, <1>4, <1>6, <3>1
    <3> QED
      BY <1>1, <1>2, <1>4, <3>1, <3>2 DEF Front
  <2>2. CASE \A i \in 1..Len(pipeline) : pipeline[i].id < j
    BY <1>2, <1>4, <2>2
  <2> QED
    BY <1>1, <2>1, <2>2 DEF Front
<1>7. \A j \in DOMAIN queue : j # b.id => Follows(w, queue[j])
  BY <1>2, <1>6 DEF Order
<1>8. \A v \in RangeOf(tasks) : Follows(w, v)
  BY <1>1, <1>2, PostedWrites DEF Order
<1>9. w \in RangeOf(queue) /\ RangeOf(queue') = RangeOf(queue) \ {w}
  <2>1. w \in RangeOf(queue)
    BY <1>2 DEF RangeOf
  <2>2. ASSUME NEW v \in RangeOf(queue') PROVE v \in RangeOf(queue) \ {w}
    <3>1. PICK j \in DOMAIN queue' : v = queue'[j]
      BY DEF RangeOf
    <3> QED
      BY <1>5, <1>7, <3>1 DEF RangeOf, Follows
  <2>3. ASSUME NEW v \in RangeOf(queue) \ {w} PROVE v \in RangeOf(queue')
    <3>1. PICK j \in DOMAIN queue : v = queue[j]
      BY DEF RangeOf
    <3>2. j \in DOMAIN queue' /\ queue'[j] = v
      BY <1>2, <1>5, <3>1
    <3> QED
      BY <3>2 DEF RangeOf
  <2> QED
    BY <2>1, <2>2, <2>3
<1>10. w \notin RangeOf(tasks)
  BY <1>8 DEF Follows
<1>11. w[1] = "del" => <<"put", w[2]>> \notin RangeOf(tasks) \cup RangeOf(queue)
  <2> SUFFICES ASSUME w[1] = "del"
               PROVE  <<"put", w[2]>> \notin RangeOf(tasks) \cup RangeOf(queue)
    OBVIOUS
  <2>1. <<"put", w[2]>> # w
    BY <1>3
  <2>2. <<"put", w[2]>> \notin RangeOf(tasks)
    BY <1>8 DEF Follows
  <2>3. ASSUME NEW j \in DOMAIN queue PROVE queue[j] # <<"put", w[2]>>
    BY <1>2, <1>7, <2>1 DEF Follows
  <2> QED
    BY <2>2, <2>3 DEF RangeOf
<1> QED
  BY <1>3, <1>9, <1>10, <1>11 DEF b

\* The write of the next task is the oldest one to its document that is not
\* in the mutation queue.
LEMMA TaskIsOldest ==
    ASSUME Inv, Order, WriteMutations
    PROVE  LET h == Head(tasks) IN
           /\ h \in Writes /\ h \in RangeOf(tasks) /\ h \notin RangeOf(queue)
           /\ RangeOf(queue') = RangeOf(queue) \cup {h}
           /\ RangeOf(tasks) = RangeOf(tasks') \cup {h}
           /\ h[1] = "del" => <<"put", h[2]>> \notin RangeOf(tasks)
<1> DEFINE h == Head(tasks)
<1>1. /\ TypeOK /\ TypeOK' /\ BatchIds /\ QueueOK(queue)
      /\ tasks \in Seq(Writes) /\ nextId \in Nat
  BY Types, WriteStep DEF Inv
<1>2. /\ tasks # <<>> /\ tasks' = Tail(tasks)
      /\ queue' = [j \in DOMAIN queue \cup {nextId} |-> IF j = nextId THEN h ELSE queue[j]]
  BY DEF WriteMutations
<1>3. /\ h = tasks[1] /\ h \in Writes /\ 1 \in 1..Len(tasks) /\ Len(tasks) \in Nat
      /\ tasks' \in Seq(Writes) /\ Len(tasks') = Len(tasks) - 1
      /\ \A i \in 1..Len(tasks') : tasks'[i] = tasks[i + 1]
  BY <1>1, <1>2, EmptySeq, HeadTailProperties
<1> HIDE DEF h
<1>4. RangeOf(tasks) = {tasks[i] : i \in 1..Len(tasks)}
  BY <1>1, PostedWrites
<1>5. RangeOf(tasks') = {tasks'[i] : i \in 1..Len(tasks')}
  BY <1>3 DEF RangeOf
<1>6. \A i \in 1..Len(tasks') : i + 1 \in 1..Len(tasks)
  BY <1>3
<1>7. \A i \in 1..Len(tasks) : i = 1 \/ (i - 1 \in 1..Len(tasks') /\ (i - 1) + 1 = i)
  BY <1>3
<1>8. RangeOf(tasks) = RangeOf(tasks') \cup {h}
  <2>1. ASSUME NEW v \in RangeOf(tasks) PROVE v \in RangeOf(tasks') \cup {h}
    <3>1. PICK i \in 1..Len(tasks) : v = tasks[i]
      BY <1>4
    <3> QED
      BY <1>3, <1>5, <1>7, <3>1
  <2>2. ASSUME NEW v \in RangeOf(tasks') PROVE v \in RangeOf(tasks)
    <3>1. PICK i \in 1..Len(tasks') : v = tasks'[i]
      BY <1>5
    <3> QED
      BY <1>3, <1>4, <1>6, <3>1
  <2>3. h \in RangeOf(tasks)
    BY <1>3, <1>4
  <2> QED
    BY <2>1, <2>2, <2>3
<1>9. \A j \in DOMAIN queue : j # nextId
  BY <1>1, IdBounds DEF BatchIds, QueueOK
<1>10. /\ DOMAIN queue' = DOMAIN queue \cup {nextId} /\ queue'[nextId] = h
       /\ \A j \in DOMAIN queue : queue'[j] = queue[j]
  BY <1>2, <1>9
<1>11. RangeOf(queue') = RangeOf(queue) \cup {h}
  BY <1>10 DEF RangeOf
<1>12. h \notin RangeOf(queue)
  BY <1>3 DEF Order, Follows, RangeOf
<1>13. ASSUME h[1] = "del", NEW i \in 1..Len(tasks), tasks[i] = <<"put", h[2]>> PROVE FALSE
  <2>1. i # 1
    BY <1>3, <1>13
  <2>2. 1 < i
    BY <2>1
  <2> QED
    BY <1>3, <1>13, <2>2 DEF Order, Follows
<1> QED
  BY <1>3, <1>4, <1>8, <1>11, <1>12, <1>13 DEF h

\* What is appended to the tasks is added to the writes.
LEMMA AppendRange ==
    ASSUME NEW t \in Seq(Writes), NEW w \in Writes
    PROVE  RangeOf(Append(t, w)) = RangeOf(t) \cup {w}
<1> DEFINE a == Append(t, w)
<1>1. /\ a \in Seq(Writes) /\ Len(a) = Len(t) + 1 /\ a[Len(t) + 1] = w
      /\ \A i \in 1..Len(t) : a[i] = t[i]
  BY AppendProperties
<1>2. DOMAIN a = 1..Len(a) /\ DOMAIN t = 1..Len(t)
  BY <1>1
<1>3. 1..(Len(t) + 1) = (1..Len(t)) \cup {Len(t) + 1}
  OBVIOUS
<1> HIDE DEF a
<1>4. DOMAIN a = DOMAIN t \cup {Len(t) + 1}
  BY <1>1, <1>2, <1>3
<1>5. RangeOf(a) = RangeOf(t) \cup {w}
  BY <1>1, <1>2, <1>4 DEF RangeOf
<1> QED
  BY <1>5 DEF a

\* Every step is one of DocumentStore, or is not seen there.
LEMMA StoreStep == Inv /\ Order /\ [Next]_vars => [Store!Next]_(Store!storeVars)
<1> SUFFICES ASSUME Inv, Order, [Next]_vars PROVE [Store!Next]_(Store!storeVars)
  OBVIOUS
<1>1. TypeOK /\ StreamOK /\ Answers /\ Answered /\ tasks \in Seq(Writes)
  BY Types DEF Inv
<1>2. Writes = Store!Writes
  BY DEF Writes, Store!Writes, Store!Puts, Store!Dels
<1>3. ASSUME NEW d \in Docs, SetData(d) PROVE Store!ClientPuts(d)
  <2>1. /\ d \notin cache /\ cache' = cache /\ queue' = queue
        /\ tasks' = Append(tasks, <<"put", d>>) /\ <<"put", d>> \in Writes
        /\ \A w \in {<<"put", d>>, <<"del", d>>} :
              w \notin RangeOf(tasks) /\ w \notin RangeOf(queue)
    BY <1>3 DEF SetData, Writes
  <2>2. RangeOf(tasks') = RangeOf(tasks) \cup {<<"put", d>>} /\ RangeOf(queue') = RangeOf(queue)
    BY <1>1, <2>1, AppendRange
  <2> QED
    BY <2>1, <2>2 DEF Store!ClientPuts, Store!SetData, Store!Write, Store!Watching, Store!Widened
<1>4. ASSUME NEW d \in Docs, Delete(d) PROVE Store!ClientDeletes(d)
  <2>1. /\ cache' = cache /\ queue' = queue
        /\ tasks' = Append(tasks, <<"del", d>>) /\ <<"del", d>> \in Writes
        /\ d \in cache \/ <<"put", d>> \in RangeOf(tasks) \cup RangeOf(queue)
        /\ <<"del", d>> \notin RangeOf(tasks) \cup RangeOf(queue)
    BY <1>4 DEF Delete, Writes
  <2>2. RangeOf(tasks') = RangeOf(tasks) \cup {<<"del", d>>} /\ RangeOf(queue') = RangeOf(queue)
    BY <1>1, <2>1, AppendRange
  <2>3. d \in Store!view
    BY <2>1 DEF Store!view
  <2> QED
    BY <2>1, <2>2, <2>3
       DEF Store!ClientDeletes, Store!Delete, Store!Write, Store!Watching, Store!Widened
<1>5. ASSUME WriteMutations PROVE Store!Persist(Head(tasks)) /\ Head(tasks) \in Writes
  <2>1. cache' = cache
    BY <1>5 DEF WriteMutations
  <2> QED
    BY <1>5, <2>1, TaskIsOldest DEF Store!Persist, Store!OldestIn
<1>6. ASSUME MutationResult
      PROVE  Store!Acknowledge(Head(pipeline).write) /\ Head(pipeline).write \in Writes
  <2>1. /\ results # <<>> /\ queue' = Without(queue, Head(pipeline)) /\ tasks' = tasks
        /\ cache' = Apply(Head(pipeline).write, cache)
    BY <1>6 DEF MutationResult
  <2>2. pipeline # <<>>
    BY <1>1, <2>1, FrontAnswered
  <2> QED
    BY <2>1, <2>2, FrontIsOldest
       DEF Store!Acknowledge, Store!Remove, Store!OldestIn, Store!Watching, Store!Widened, Apply
<1>7. ASSUME WriteRejected
      PROVE  Store!Reject(Head(pipeline).write) /\ Head(pipeline).write \in Writes
  <2>1. /\ denied /\ queue' = Without(queue, Head(pipeline)) /\ tasks' = tasks
        /\ cache' = cache
    BY <1>7 DEF WriteRejected
  <2>2. pipeline # <<>>
    BY <1>1, <2>1, FrontAnswered
  <2> QED
    BY <2>1, <2>2, FrontIsOldest DEF Store!Reject, Store!Remove, Store!OldestIn
<1>8. ASSUME Restart PROVE Store!Crash
  <2>1. cache' = cache /\ queue' = queue /\ tasks' = <<>>
    BY <1>8 DEF Restart
  <2>2. RangeOf(tasks') = {} /\ RangeOf(queue') = RangeOf(queue)
    BY <2>1 DEF RangeOf
  <2>3. Store!Recover
    BY <2>1, <2>2 DEF Store!Recover
  <2> QED
    BY <2>3 DEF Store!Crash
<1>9. ASSUME UNCHANGED <<tasks, queue, cache>> PROVE UNCHANGED Store!storeVars
  BY <1>9 DEF Store!storeVars, RangeOf
<1>10. \/ \E d \in Docs : SetData(d) \/ Delete(d)
       \/ WriteMutations \/ MutationResult \/ WriteRejected \/ Restart
       \/ UNCHANGED <<tasks, queue, cache>>
  BY DEF Next, Client, Server, vars, clientVars, BackoffElapsed, StreamOpens,
     HandshakeComplete, IdleTimeout, ServerGreets, ServerApplies, StreamBreaks,
     RestartNetwork, ServerRefuses
<1> QED
  BY <1>2, <1>3, <1>4, <1>5, <1>6, <1>7, <1>8, <1>9, <1>10 DEF Store!Next

\* The client's way of writing implements the store the board is modelled on:
\* saved writes survive a killed process, each is acknowledged or rejected
\* once, and a document's writes are in the order they were made in.
THEOREM PipelineImplementsStore == Spec => ImplementsDocumentStore
<1>1. Init => Store!Init
  BY DEF Init, Store!Init, RangeOf
<1> QED
  BY <1>1, StoreStep, Invariance, OrderInvariance, PTL
     DEF Spec, ImplementsDocumentStore, Store!Spec
-----------------------------------------------------------------------------
(* The server and the client's cache.  The server is ahead of the client   *)
(* by the batches it has applied, and it may apply one of them again.      *)

\* What is on its way to the server is in the mutation queue.
SentOK ==
    \A i \in 1..Len(sent) : /\ sent[i].id \in DOMAIN queue
                            /\ sent[i].write = queue[sent[i].id]

\* The server differs from the cache in documents only it has applied a pending
\* write to; the answers on their way end in the server's state.
Agree ==
    /\ applied \subseteq DOMAIN queue
    /\ \A d \in Docs : (\A j \in applied : queue[j][2] # d)
                          => (d \in server <=> d \in cache)
    /\ \A i \in 1..Len(results) :
          (\A k \in (i + 1)..Len(results) : results[k].write[2] # results[i].write[2])
             => (results[i].write[2] \in server <=> results[i].write[1] = "put")

\* Requests of a stream that is served are batches of the queue.
LEMMA SentPart ==
    ASSUME NEW q, NEW p, Front(p, q), NEW r \in Seq(Batch), NEW s \in Seq(Batch), r \o s = p
    PROVE  \A i \in 1..Len(s) : s[i].id \in DOMAIN q /\ s[i].write = q[s[i].id]
<1> SUFFICES ASSUME NEW i \in 1..Len(s) PROVE s[i].id \in DOMAIN q /\ s[i].write = q[s[i].id]
  OBVIOUS
<1>1. /\ Len(p) = Len(r) + Len(s)
      /\ \A k \in 1..(Len(r) + Len(s)) :
            p[k] = IF k <= Len(r) THEN r[k] ELSE s[k - Len(r)]
  BY ConcatProperties
<1>2. Len(r) + i \in 1..Len(p) /\ ~(Len(r) + i <= Len(r)) /\ (Len(r) + i) - Len(r) = i
  BY <1>1
<1>3. p[Len(r) + i] = s[i]
  BY <1>1, <1>2
<1> QED
  BY <1>2, <1>3 DEF Front

\* Filling the pipeline, answers and refusals keep that.
LEMMA SentStep == ASSUME Inv, Inv', SentOK, [Next]_vars PROVE SentOK'
<1>1. /\ TypeOK /\ StreamOK /\ Answers /\ BatchIds /\ QueueOK(queue)
      /\ sent \in Seq(Batch) /\ nextId \in Nat
  BY Types DEF Inv
<1>2. /\ TypeOK' /\ PipelineHeadsQueue' /\ StreamOK' /\ Answers'
      /\ QueueOK(queue') /\ sent' \in Seq(Batch) /\ results' \in Seq(Batch)
  BY DEF Inv, TypeOK, QueueOK, Ids, RangeOf
<1>3. Front(pipeline', queue')
  BY <1>2, AddedFront DEF PipelineHeadsQueue
<1>4. CASE sent' = <<>>
  <2>1. Len(sent') = 0
    BY <1>4
  <2> QED
    BY <2>1 DEF SentOK
<1>5. CASE handshake' = "complete"
  <2>1. CASE denied'
    BY <1>2, <1>4, <2>1 DEF StreamOK
  <2>2. CASE ~denied'
    <3>1. results' \o sent' = pipeline'
      BY <1>2, <1>5, <2>2 DEF Answers
    <3> QED
      BY <1>2, <1>3, <3>1, SentPart DEF SentOK
  <2> QED
    BY <2>1, <2>2
<1>6. CASE UNCHANGED <<sent, queue>>
  BY <1>6 DEF SentOK
<1>7. CASE WriteMutations
  <2>1. CASE handshake' # "complete"
    <3>1. /\ queue' = [j \in DOMAIN queue \cup {nextId} |->
                          IF j = nextId THEN Head(tasks) ELSE queue[j]]
          /\ handshake' = handshake /\ FillWritePipeline(queue', pipeline, stream)
      BY <1>7 DEF WriteMutations
    <3>2. sent' = sent
      BY <2>1, <3>1 DEF FillWritePipeline
    <3>3. \A j \in DOMAIN queue : j \in DOMAIN queue' /\ queue'[j] = queue[j]
      BY <1>1, <3>1, IdBounds DEF BatchIds, QueueOK
    <3> QED
      BY <3>2, <3>3 DEF SentOK
  <2> QED
    BY <1>5, <2>1
<1>8. CASE MutationResult
  <2>1. results # <<>> /\ handshake' = handshake
    BY <1>8 DEF MutationResult
  <2> QED
    BY <1>1, <1>5, <2>1 DEF StreamOK
<1>9. CASE WriteRejected
  <2>1. denied /\ sent' = sent
    BY <1>9 DEF WriteRejected, FillWritePipeline
  <2> QED
    BY <1>1, <1>4, <2>1 DEF StreamOK
<1>10. CASE HandshakeComplete
  BY <1>5, <1>10 DEF HandshakeComplete
<1>11. CASE StreamOpens \/ ServerRefuses
  BY <1>4, <1>11 DEF StreamOpens, ServerRefuses
<1>12. CASE ServerApplies
  <2>1. sent # <<>> /\ sent' = Tail(sent) /\ queue' = queue
    BY <1>12 DEF ServerApplies, clientVars
  <2>2. /\ Len(sent') = Len(sent) - 1
        /\ \A i \in 1..Len(sent') : i + 1 \in 1..Len(sent) /\ sent'[i] = sent[i + 1]
    BY <1>1, <2>1, EmptySeq, HeadTailProperties
  <2> QED
    BY <2>1, <2>2 DEF SentOK
<1>13. CASE \/ BackoffElapsed \/ IdleTimeout \/ StreamBreaks \/ ServerGreets
            \/ UNCHANGED vars
  BY <1>6, <1>13 DEF BackoffElapsed, IdleTimeout, StreamBreaks, ServerGreets, wireVars,
     vars, clientVars
<1>14. CASE RestartNetwork \/ Restart
  BY <1>6, <1>14 DEF RestartNetwork, Restart, FillWritePipeline
<1>15. ASSUME NEW d \in Docs, SetData(d) \/ Delete(d) PROVE SentOK'
  BY <1>6, <1>15 DEF SetData, Delete, wireVars
<1> QED
  BY <1>7, <1>8, <1>9, <1>10, <1>11, <1>12, <1>13, <1>14, <1>15 DEF Next, Client, Server

\* What a write does to a document, and to the others.
LEMMA ApplyFacts ==
    ASSUME NEW w \in Writes, NEW docs
    PROVE  /\ w[2] \in Apply(w, docs) <=> w[1] = "put"
           /\ \A d : d # w[2] => (d \in Apply(w, docs) <=> d \in docs)
<1>1. w[1] \in {"put", "del"}
  BY DEF Writes
<1> QED
  BY <1>1 DEF Apply

\* An answer brings the cache to where the server is, or has been.
LEMMA AgreeResult == ASSUME Inv, Agree, MutationResult PROVE Agree'
<1> DEFINE b == Head(pipeline)
<1>1. TypeOK /\ StreamOK /\ Answers /\ Answered /\ QueueOK(queue) /\ Front(pipeline, queue)
      /\ results \in Seq(Batch)
  BY Types, PipelineFront DEF Inv
<1>2. /\ results # <<>> /\ results' = Tail(results)
      /\ queue' = Without(queue, b) /\ cache' = Apply(b.write, cache)
      /\ applied' = applied \ {b.id} /\ server' = server
  BY DEF MutationResult
<1>3. pipeline # <<>> /\ Head(results) = b
  BY <1>1, <1>2, FrontAnswered
<1>4. b \in Batch /\ b.id \in DOMAIN queue /\ b.write = queue[b.id]
  BY <1>1, <1>3, DequeuedFront
<1>5. /\ Len(results) \in Nat /\ Len(results') = Len(results) - 1 /\ results[1] = b
      /\ 1 \in 1..Len(results)
      /\ \A i \in 1..Len(results') : i + 1 \in 1..Len(results) /\ results'[i] = results[i + 1]
  BY <1>1, <1>2, <1>3, EmptySeq, HeadTailProperties
<1>6. DOMAIN queue' = DOMAIN queue \ {b.id} /\ \A j \in DOMAIN queue' : queue'[j] = queue[j]
  BY <1>2 DEF Without
<1>7. b.write \in Writes /\ b.write[2] \in Docs
  BY <1>4 DEF Batch, Writes
<1> HIDE DEF b
<1>8. applied' \subseteq DOMAIN queue'
  BY <1>2, <1>6 DEF Agree
<1>9. \A i \in 2..Len(results) : results[i].id \in applied' /\ queue'[results[i].id] = results[i].write
  <2> SUFFICES ASSUME NEW i \in 2..Len(results)
               PROVE  results[i].id \in applied' /\ queue'[results[i].id] = results[i].write
    OBVIOUS
  <2>1. i \in 1..Len(results) /\ 1 < i /\ i \in Nat
    BY <1>5
  <2>2. 1 \in 1..Len(pipeline) /\ i \in 1..Len(pipeline) /\ results[i] = pipeline[i] /\ pipeline[1] = b
    BY <1>1, <1>5, <2>1, AnswersInOrder
  <2>3. b.id < results[i].id /\ results[i].id \in DOMAIN queue /\ results[i].write = queue[results[i].id]
    BY <1>1, <2>1, <2>2 DEF Front
  <2>4. b.id # results[i].id
    BY <1>1, <1>4, <2>3, IdBounds DEF QueueOK
  <2>5. results[i].id \in applied
    BY <1>1, <2>1 DEF Answered
  <2> QED
    BY <1>2, <1>6, <1>8, <2>3, <2>4, <2>5
<1>10. ASSUME NEW d \in Docs, \A j \in applied' : queue'[j][2] # d
       PROVE  d \in server' <=> d \in cache'
  <2>1. CASE d = b.write[2]
    <3>1. \A i \in 2..Len(results) : results[i].write[2] # b.write[2]
      BY <1>9, <1>10, <2>1
    <3>2. b.write[2] \in server <=> b.write[1] = "put"
      <4>1. 1 + 1 = 2
        OBVIOUS
      <4> QED
        BY <1>5, <3>1, <4>1 DEF Agree
    <3> QED
      BY <1>2, <1>7, <2>1, <3>2, ApplyFacts
  <2>2. CASE d # b.write[2]
    <3>1. \A j \in applied : queue[j][2] # d
      BY <1>2, <1>4, <1>6, <1>8, <1>10, <2>2
    <3>2. d \in server <=> d \in cache
      BY <3>1 DEF Agree
    <3> QED
      BY <1>2, <1>7, <2>2, <3>2, ApplyFacts
  <2> QED
    BY <2>1, <2>2
<1>11. ASSUME NEW i \in 1..Len(results'),
              \A k \in (i + 1)..Len(results') : results'[k].write[2] # results'[i].write[2]
       PROVE  results'[i].write[2] \in server' <=> results'[i].write[1] = "put"
  <2>1. i + 1 \in 1..Len(results) /\ results'[i] = results[i + 1]
    BY <1>5
  <2>2. ASSUME NEW k \in ((i + 1) + 1)..Len(results) PROVE results[k].write[2] # results[i + 1].write[2]
    <3>1. k - 1 \in (i + 1)..Len(results') /\ k - 1 \in 1..Len(results') /\ (k - 1) + 1 = k
      BY <1>5
    <3>2. results'[k - 1] = results[k]
      BY <1>5, <3>1
    <3> QED
      BY <1>11, <2>1, <3>1, <3>2
  <2>3. results[i + 1].write[2] \in server <=> results[i + 1].write[1] = "put"
    BY <2>1, <2>2 DEF Agree
  <2> QED
    BY <1>2, <2>1, <2>3
<1> QED
  BY <1>8, <1>10, <1>11 DEF Agree

\* A write the server has not applied leaves no trace when it is refused.
LEMMA AgreeReject == ASSUME Inv, Agree, WriteRejected PROVE Agree'
<1> DEFINE b == Head(pipeline)
<1>1. TypeOK /\ StreamOK /\ Answers /\ Answered
  BY DEF Inv
<1>2. /\ denied /\ results = <<>> /\ results' = <<>>
      /\ queue' = Without(queue, b) /\ applied' = applied \ {b.id}
      /\ UNCHANGED <<server, cache>>
  BY DEF WriteRejected, Close
<1>3. b.id \notin applied
  BY <1>1, <1>2, FrontAnswered
<1>4. applied' = applied
  BY <1>2, <1>3
<1>5. DOMAIN queue' = DOMAIN queue \ {b.id} /\ \A j \in DOMAIN queue' : queue'[j] = queue[j]
  BY <1>2 DEF Without
<1> HIDE DEF b
<1>6. \A j \in applied : j \in DOMAIN queue' /\ queue'[j] = queue[j]
  BY <1>3, <1>5 DEF Agree
<1>7. Len(results') = 0
  BY <1>2
<1> QED
  BY <1>2, <1>4, <1>6, <1>7 DEF Agree

\* A write that is applied, for the first time or again, decides on its document.
LEMMA AgreeApply == ASSUME Inv, SentOK, Agree, ServerApplies PROVE Agree'
<1> DEFINE h == Head(sent)
<1>1. TypeOK /\ StreamOK /\ sent \in Seq(Batch) /\ results \in Seq(Batch)
  BY Types DEF Inv
<1>2. /\ sent # <<>>
      /\ server' = Apply(h.write, server) /\ applied' = applied \cup {h.id}
      /\ results' = IF handshake = "complete" THEN Append(results, h) ELSE results
      /\ UNCHANGED <<queue, cache>>
  BY DEF ServerApplies, clientVars
<1>3. h = sent[1] /\ 1 \in 1..Len(sent) /\ h \in Batch
  BY <1>1, <1>2, EmptySeq, HeadTailProperties
<1>4. h.id \in DOMAIN queue /\ h.write = queue[h.id]
  BY <1>3 DEF SentOK
<1>5. h.write \in Writes
  BY <1>3 DEF Batch
<1> HIDE DEF h
<1>6. applied' \subseteq DOMAIN queue'
  BY <1>2, <1>4 DEF Agree
<1>7. ASSUME NEW d \in Docs, \A j \in applied' : queue'[j][2] # d
      PROVE  d \in server' <=> d \in cache'
  <2>1. d # h.write[2] /\ \A j \in applied : queue[j][2] # d
    BY <1>2, <1>4, <1>7
  <2>2. d \in server <=> d \in cache
    BY <2>1 DEF Agree
  <2> QED
    BY <1>2, <1>5, <2>1, <2>2, ApplyFacts
<1>8. ASSUME NEW i \in 1..Len(results'),
             \A k \in (i + 1)..Len(results') : results'[k].write[2] # results'[i].write[2]
      PROVE  results'[i].write[2] \in server' <=> results'[i].write[1] = "put"
  <2>1. handshake = "complete"
    <3> SUFFICES ASSUME handshake # "complete" PROVE FALSE
      OBVIOUS
    <3>1. results' = <<>>
      BY <1>1, <1>2 DEF StreamOK
    <3> QED
      BY <1>8, <3>1
  <2>2. /\ Len(results) \in Nat /\ Len(results') = Len(results) + 1
        /\ results'[Len(results) + 1] = h
        /\ \A k \in 1..Len(results) : results'[k] = results[k]
    BY <1>1, <1>2, <1>3, <2>1, AppendProperties
  <2>3. CASE i = Len(results) + 1
    BY <1>2, <1>5, <2>2, <2>3, ApplyFacts
  <2>4. CASE i # Len(results) + 1
    <3>1. i \in 1..Len(results) /\ Len(results) + 1 \in (i + 1)..Len(results')
      BY <2>2, <2>4
    <3>2. results[i].write[2] # h.write[2]
      BY <1>8, <2>2, <3>1
    <3>3. \A k \in (i + 1)..Len(results) : k \in (i + 1)..Len(results') /\ k \in 1..Len(results)
      BY <2>2, <3>1
    <3>4. \A k \in (i + 1)..Len(results) : results[k].write[2] # results[i].write[2]
      BY <1>8, <2>2, <3>1, <3>3
    <3>5. results[i].write[2] \in server <=> results[i].write[1] = "put"
      BY <3>1, <3>4 DEF Agree
    <3> QED
      BY <1>2, <1>5, <2>2, <3>1, <3>2, <3>5, ApplyFacts
  <2> QED
    BY <2>3, <2>4
<1> QED
  BY <1>6, <1>7, <1>8 DEF Agree

\* Every step keeps server and cache together.
LEMMA AgreeStep == ASSUME Inv, SentOK, Agree, [Next]_vars PROVE Agree'
<1>1. TypeOK /\ BatchIds /\ StreamOK /\ QueueOK(queue) /\ nextId \in Nat
  BY Types DEF Inv
<1>2. CASE UNCHANGED <<queue, cache, server, applied>> /\ results' \in {results, <<>>}
  <2>1. CASE results' = results
    BY <1>2, <2>1 DEF Agree
  <2>2. CASE results' = <<>>
    <3>1. Len(results') = 0
      BY <2>2
    <3> QED
      BY <1>2, <3>1 DEF Agree
  <2> QED
    BY <1>2, <2>1, <2>2
<1>3. CASE WriteMutations
  <2>1. /\ queue' = [j \in DOMAIN queue \cup {nextId} |->
                        IF j = nextId THEN Head(tasks) ELSE queue[j]]
        /\ UNCHANGED <<cache, results, server, applied>>
    BY <1>3 DEF WriteMutations
  <2>2. \A j \in DOMAIN queue : j \in DOMAIN queue' /\ queue'[j] = queue[j]
    BY <1>1, <2>1, IdBounds DEF BatchIds, QueueOK
  <2> QED
    BY <2>1, <2>2 DEF Agree
<1>4. CASE \/ BackoffElapsed \/ StreamOpens \/ HandshakeComplete \/ IdleTimeout
           \/ StreamBreaks \/ ServerGreets \/ ServerRefuses \/ UNCHANGED vars
  BY <1>2, <1>4 DEF BackoffElapsed, StreamOpens, HandshakeComplete, IdleTimeout,
     StreamBreaks, ServerGreets, ServerRefuses, Close, wireVars, vars, clientVars
<1>5. CASE RestartNetwork \/ Restart
  BY <1>2, <1>5 DEF RestartNetwork, Restart, Close
<1>6. ASSUME NEW d \in Docs, SetData(d) \/ Delete(d) PROVE Agree'
  BY <1>2, <1>6 DEF SetData, Delete, wireVars
<1> QED
  BY <1>3, <1>4, <1>5, <1>6, AgreeResult, AgreeReject, AgreeApply DEF Next, Client, Server

\* Writes that are sent twice, answers that are lost and writes that are refused
\* leave no difference between the server and the remote document cache
\* (OnWriteStreamMutationResult, HandleWriteError).
THEOREM NoDifferenceIsLeft == Spec => []ServerAgrees
<1>1. Init => SentOK /\ Agree
  <2> SUFFICES ASSUME Init PROVE SentOK /\ Agree
    OBVIOUS
  <2>1. Len(sent) = 0 /\ Len(results) = 0 /\ applied = {} /\ server = cache
    BY DEF Init
  <2> QED
    BY <2>1 DEF SentOK, Agree
<1>2. Inv /\ Inv' /\ SentOK /\ Agree /\ [Next]_vars => SentOK' /\ Agree'
  BY SentStep, AgreeStep
<1>3. Agree => ServerAgrees
  BY DEF Agree, ServerAgrees, RangeOf
<1> QED
  BY <1>1, <1>2, <1>3, Invariance, PTL DEF Spec
=============================================================================
