------------------------- MODULE DocumentStore_proofs -------------------------
(***************************************************************************)
(* Proofs about the document store, for any documents and any number of    *)
(* outstanding reads.                                                      *)
(*                                                                         *)
(* Everything rests on three facts about the local view: an acknowledged   *)
(* write leaves it as it is, a rejected one changes it at one document     *)
(* only, and a crash loses nothing that is saved.                          *)
(***************************************************************************)
EXTENDS DocumentStore, TLAPS

StoreTypeOK ==
    /\ server \subseteq Docs
    /\ muts \subseteq Writes
    /\ saved \subseteq muts

ReadsTypeOK == reads \in Seq(SUBSET SUBSET Docs)

RefusedOK == refused \in BOOLEAN

-----------------------------------------------------------------------------
(* Types.                                                                  *)

\* A view is a set of documents.
LEMMA ViewType == view \in SUBSET Docs /\ view' \in SUBSET Docs
  BY DEF view

\* Adding a view to every outstanding read keeps the reads well formed.
LEMMA WidenedType ==
    ASSUME ReadsTypeOK
    PROVE  Widened \in Seq(SUBSET SUBSET Docs)
<1> DEFINE f == [i \in 1..Len(reads) |-> reads[i] \cup {view'}]
<1>1. \A i \in 1..Len(reads) : reads[i] \cup {view'} \in SUBSET SUBSET Docs
  BY ViewType DEF ReadsTypeOK
<1>2. f \in [1..Len(reads) -> SUBSET SUBSET Docs]
  BY <1>1
<1>3. f \in Seq(SUBSET SUBSET Docs)
  BY <1>2 DEF ReadsTypeOK
<1>4. DOMAIN reads = 1..Len(reads)
  BY DEF ReadsTypeOK
<1> QED
  BY <1>3, <1>4 DEF Widened

\* So does amending the views of every read at one document.
LEMMA AmendedType ==
    ASSUME ReadsTypeOK, NEW d
    PROVE  [i \in DOMAIN reads |-> reads[i] \cup {Amended(v, d) : v \in reads[i]}]
              \in Seq(SUBSET SUBSET Docs)
<1> DEFINE f == [i \in 1..Len(reads) |-> reads[i] \cup {Amended(v, d) : v \in reads[i]}]
<1>1. \A i \in 1..Len(reads) :
         reads[i] \cup {Amended(v, d) : v \in reads[i]} \in SUBSET SUBSET Docs
  <2> SUFFICES ASSUME NEW i \in 1..Len(reads), NEW v \in reads[i]
               PROVE  Amended(v, d) \in SUBSET Docs
    BY DEF ReadsTypeOK
  <2>1. v \in SUBSET Docs
    BY DEF ReadsTypeOK
  <2> QED
    BY <2>1, ViewType DEF Amended
<1>2. f \in [1..Len(reads) -> SUBSET SUBSET Docs]
  BY <1>1
<1>3. f \in Seq(SUBSET SUBSET Docs)
  BY <1>2 DEF ReadsTypeOK
<1>4. DOMAIN reads = 1..Len(reads)
  BY DEF ReadsTypeOK
<1> QED
  BY <1>3, <1>4

\* Every step keeps documents and writes well formed: what is saved is pending.
LEMMA StoreTypeStep == StoreTypeOK /\ [Next]_storeVars => StoreTypeOK'
<1> SUFFICES ASSUME StoreTypeOK, [Next]_storeVars PROVE StoreTypeOK'
  OBVIOUS
<1>1. ASSUME NEW d \in Docs, ClientPuts(d) \/ ClientDeletes(d) PROVE StoreTypeOK'
  BY <1>1 DEF StoreTypeOK, ClientPuts, ClientDeletes, SetData, Delete, Write,
              Writes, Puts, Dels
<1>2. ASSUME NEW m \in Writes, Acknowledge(m) \/ Reject(m) PROVE StoreTypeOK'
  BY <1>2 DEF StoreTypeOK, Acknowledge, Reject, Remove, Writes, Puts, Dels
<1>3. ASSUME NEW m \in Writes, Persist(m) PROVE StoreTypeOK'
  BY <1>3 DEF StoreTypeOK, Persist
<1>4. CASE ClientReads
  BY <1>4 DEF StoreTypeOK, ClientReads, NoWrite
<1>5. CASE Deny \/ \E s \in SUBSET Docs : Answer(s)
  BY <1>5 DEF StoreTypeOK, Deny, Answer
<1>6. CASE Crash
  BY <1>6 DEF StoreTypeOK, Crash, Recover
<1>7. CASE UNCHANGED storeVars
  BY <1>7 DEF StoreTypeOK, storeVars
<1> QED
  BY <1>1, <1>2, <1>3, <1>4, <1>5, <1>6, <1>7 DEF Next

\* Every step keeps the reads well formed.
LEMMA ReadsTypeStep == ReadsTypeOK /\ [Next]_storeVars => ReadsTypeOK'
<1> SUFFICES ASSUME ReadsTypeOK, [Next]_storeVars PROVE ReadsTypeOK'
  OBVIOUS
<1>1. CASE Watching
  BY <1>1, WidenedType DEF Watching, ReadsTypeOK
<1>2. CASE GetDocuments
  <2>1. {view'} \in SUBSET SUBSET Docs
    BY ViewType
  <2> QED
    BY <1>2, <2>1, WidenedType DEF GetDocuments, ReadsTypeOK
<1>3. ASSUME NEW m \in Writes, Reject(m) PROVE ReadsTypeOK'
  BY <1>3, AmendedType DEF Reject, ReadsTypeOK
<1>4. CASE reads # <<>> /\ reads' = Tail(reads)
  BY <1>4 DEF ReadsTypeOK
<1>5. CASE reads' = <<>>
  BY <1>5 DEF ReadsTypeOK
<1>6. CASE UNCHANGED reads
  BY <1>6 DEF ReadsTypeOK
<1> QED
  BY <1>1, <1>2, <1>3, <1>4, <1>5, <1>6 DEF Next, ClientPuts, ClientDeletes,
     ClientReads, Answer, Deny, Persist, Acknowledge, Crash, storeVars

\* `refused' stays a Boolean.
LEMMA RefusedStep == RefusedOK /\ [Next]_storeVars => RefusedOK'
<1> SUFFICES ASSUME RefusedOK, [Next]_storeVars PROVE RefusedOK'
  OBVIOUS
<1>1. refused' = refused \/ refused' = TRUE \/ refused' = FALSE \/ Deny
  BY DEF Next, ClientPuts, ClientDeletes, ClientReads, GetDocuments, Answer,
         Persist, Acknowledge, Reject, Crash, storeVars
<1>2. CASE Deny
  <2>1. refused' = (refused \/ Len(reads) = 1)
    BY <1>2 DEF Deny
  <2> QED
    BY <2>1, Zenon DEF RefusedOK
<1> QED
  BY <1>1, <1>2, Zenon DEF RefusedOK

\* The store's state is well formed: the writes in the persistent queue are
\* always among those that the local view shows (WriteLocally,
\* ApplyBatchResult, RejectBatch, Start).
THEOREM TypeCorrect == Spec => []TypeOK
<1>1. Init => StoreTypeOK /\ ReadsTypeOK /\ RefusedOK
  <2> SUFFICES ASSUME Init PROVE StoreTypeOK /\ ReadsTypeOK /\ RefusedOK
    OBVIOUS
  <2>1. StoreTypeOK /\ ReadsTypeOK
    BY DEF Init, StoreTypeOK, ReadsTypeOK
  <2>2. RefusedOK
    BY Zenon DEF Init, RefusedOK
  <2> QED
    BY <2>1, <2>2
<1>2. StoreTypeOK /\ ReadsTypeOK /\ RefusedOK => TypeOK
  BY Zenon DEF TypeOK, StoreTypeOK, ReadsTypeOK, RefusedOK
<1> QED
  BY <1>1, <1>2, StoreTypeStep, ReadsTypeStep, RefusedStep, PTL DEF Spec

-----------------------------------------------------------------------------
(* What a step does to the local view.                                     *)

\* An acknowledged write leaves the local view as it is.
LEMMA ViewAfterAcknowledge ==
    ASSUME StoreTypeOK, NEW m \in Writes, Acknowledge(m)
    PROVE  view' = view
<1>1. PICK d \in Docs : m = <<"put", d>> \/ m = <<"del", d>>
  BY DEF Writes, Puts, Dels
<1>2. CASE m = <<"put", d>>
  BY <1>2 DEF StoreTypeOK, Acknowledge, Remove, view
<1>3. CASE m = <<"del", d>>
  <2>1. /\ server' = server \ {d}
        /\ muts' = muts \ {<<"del", d>>}
        /\ <<"put", d>> \notin muts
        /\ <<"del", d>> \in muts
    BY <1>3 DEF StoreTypeOK, Acknowledge, Remove, OldestIn
  <2> QED
    BY <2>1 DEF view
<1> QED
  BY <1>1, <1>2, <1>3

\* A rejected write changes the local view at its document only.
LEMMA ViewAfterReject ==
    ASSUME NEW m \in Writes, Reject(m)
    PROVE  view' = Amended(view, m[2])
<1>1. PICK d \in Docs : m = <<"put", d>> \/ m = <<"del", d>>
  BY DEF Writes, Puts, Dels
<1>2. server' = server /\ muts' = muts \ {m} /\ m[2] = d
  BY <1>1 DEF Reject, Remove
<1>3. \A e \in Docs : e # d => (e \in view' <=> e \in view)
  BY <1>1, <1>2 DEF view
<1> QED
  BY <1>2, <1>3, ViewType DEF Amended

\* Reads, answers and the saving of a write do not change the local view.
LEMMA ViewUnchanged ==
    ASSUME UNCHANGED <<server, muts>>
    PROVE  view' = view
  BY DEF view

-----------------------------------------------------------------------------
(* The properties.                                                         *)

\* An acknowledgement is never seen by the user (HandleSuccessfulWrite).
THEOREM AcknowledgementsUnseen == Spec => AcknowledgementsAreInvisible
<1>1. StoreTypeOK =>
        [(\E m \in Writes : Acknowledge(m)) => view' = view]_storeVars
  BY ViewAfterAcknowledge
<1>2. Init => StoreTypeOK
  BY DEF Init, StoreTypeOK
<1> QED
  BY <1>1, <1>2, StoreTypeStep, PTL DEF Spec, AcknowledgementsAreInvisible

\* Every step tells the reads in progress of the view it leaves.
LEMMA ReadsStayCurrent ==
    StoreTypeOK /\ ReadsTypeOK /\ ReadsMayBeCurrent /\ [Next]_storeVars
        => ReadsMayBeCurrent'
<1> SUFFICES ASSUME StoreTypeOK, ReadsTypeOK, ReadsMayBeCurrent, [Next]_storeVars
             PROVE  ReadsMayBeCurrent'
  OBVIOUS
<1>1. CASE Watching
  BY <1>1 DEF Watching, Widened, ReadsMayBeCurrent
<1>2. CASE GetDocuments
  <2>1. Widened \in Seq(SUBSET SUBSET Docs) /\ DOMAIN Widened = DOMAIN reads
    BY WidenedType DEF Widened
  <2>2. \A i \in DOMAIN Widened : view' \in Widened[i]
    BY DEF Widened
  <2>3. reads' = Append(Widened, {view'})
    BY <1>2 DEF GetDocuments
  <2> HIDE DEF Widened
  <2>4. \A i \in DOMAIN reads' : i \in DOMAIN Widened \/ reads'[i] = {view'}
    BY <2>1, <2>3
  <2>5. \A i \in DOMAIN Widened : reads'[i] = Widened[i]
    BY <2>1, <2>3
  <2> QED
    BY <2>2, <2>4, <2>5 DEF ReadsMayBeCurrent
<1>3. ASSUME NEW m \in Writes, Reject(m) PROVE ReadsMayBeCurrent'
  <2> SUFFICES ASSUME NEW i \in DOMAIN reads PROVE view' \in reads'[i]
    BY <1>3 DEF Reject, ReadsMayBeCurrent
  <2>1. view \in reads[i]
    BY DEF ReadsMayBeCurrent
  <2>2. view' = Amended(view, m[2])
    BY <1>3, ViewAfterReject
  <2>3. reads'[i] = reads[i] \cup {Amended(v, m[2]) : v \in reads[i]}
    BY <1>3 DEF Reject
  <2> QED
    BY <2>1, <2>2, <2>3
<1>4. CASE reads # <<>> /\ reads' = Tail(reads) /\ UNCHANGED <<server, muts>>
  <2> SUFFICES ASSUME NEW i \in DOMAIN reads' PROVE view' \in reads'[i]
    BY DEF ReadsMayBeCurrent
  <2>1. i + 1 \in DOMAIN reads /\ reads'[i] = reads[i + 1]
    BY <1>4 DEF ReadsTypeOK
  <2> QED
    BY <1>4, <2>1, ViewUnchanged DEF ReadsMayBeCurrent
<1>5. CASE reads' = <<>>
  BY <1>5 DEF ReadsMayBeCurrent
<1>6. CASE UNCHANGED <<server, muts, reads>>
  BY <1>6, ViewUnchanged DEF ReadsMayBeCurrent
<1> QED
  BY <1>1, <1>2, <1>3, <1>4, <1>5, <1>6 DEF Next, ClientPuts, ClientDeletes,
     ClientReads, Answer, Deny, Persist, Acknowledge, Crash, storeVars

\* No read is bound to be answered with something stale (OnViewSnapshots).
THEOREM ReadsAreNeverBoundToBeStale == Spec => []ReadsMayBeCurrent
<1>1. Init => StoreTypeOK /\ ReadsTypeOK /\ ReadsMayBeCurrent
  BY DEF Init, StoreTypeOK, ReadsTypeOK, ReadsMayBeCurrent
<1> QED
  BY <1>1, StoreTypeStep, ReadsTypeStep, ReadsStayCurrent, PTL DEF Spec

\* Which steps take a write out of the queue, or add one.
LEMMA QueueSteps ==
    ASSUME StoreTypeOK, Next
    PROVE  \/ \E d \in Docs : ClientPuts(d)
           \/ \E d \in Docs : ClientDeletes(d)
           \/ \E m \in Writes : Acknowledge(m)
           \/ \E m \in Writes : Reject(m)
           \/ Crash
           \/ UNCHANGED <<server, muts>>
  BY DEF Next, ClientReads, NoWrite, Answer, Deny, Persist

\* A saved deletion is undone by its own rejection only.
LEMMA SavedDeletion ==
    ASSUME StoreTypeOK, Next, NEW d \in Docs, <<"del", d>> \in saved, d \in view'
    PROVE  Reject(<<"del", d>>)
<1>1. <<"del", d>> \in muts /\ <<"del", d>> \notin muts'
  BY DEF StoreTypeOK, view
<1>2. d \notin view
  BY <1>1 DEF view
<1>3. ASSUME NEW m \in Writes, Acknowledge(m) PROVE FALSE
  BY <1>2, <1>3, ViewAfterAcknowledge
<1>4. ASSUME NEW m \in Writes, Reject(m) PROVE Reject(<<"del", d>>)
  <2>1. m = <<"del", d>>
    BY <1>1, <1>4 DEF Reject, Remove
  <2> QED
    BY <1>4, <2>1
<1>5. ASSUME Crash PROVE FALSE
  BY <1>1, <1>5 DEF Crash, Recover
<1> QED
  BY <1>1, <1>3, <1>4, <1>5, QueueSteps DEF ClientPuts, ClientDeletes, SetData,
     Delete, Write

\* A document whose setData is saved goes by a deletion or by the rejection of
\* that setData only.
LEMMA SavedPut ==
    ASSUME StoreTypeOK, Next, NEW d \in Docs,
           <<"put", d>> \in saved, d \in view, d \notin view'
    PROVE  <<"del", d>> \in muts' \ muts \/ Reject(<<"put", d>>)
<1>1. <<"put", d>> \in muts /\ <<"del", d>> \notin muts
  BY DEF StoreTypeOK, view
<1>2. (<<"put", d>> \notin muts' /\ d \notin server') \/ <<"del", d>> \in muts'
  BY DEF view
<1>3. ASSUME NEW m \in Writes, Acknowledge(m) PROVE FALSE
  BY <1>3, ViewAfterAcknowledge
<1>4. ASSUME NEW m \in Writes, Reject(m) PROVE Reject(<<"put", d>>)
  <2>1. m = <<"put", d>>
    BY <1>1, <1>2, <1>4 DEF Reject, Remove
  <2> QED
    BY <1>4, <2>1
<1>5. ASSUME Crash PROVE FALSE
  <2>1. saved \subseteq muts' /\ muts' \subseteq muts
    BY <1>5 DEF Crash, Recover, StoreTypeOK
  <2> QED
    BY <1>1, <1>2, <2>1
<1>6. ASSUME NEW e \in Docs, ClientPuts(e) PROVE FALSE
  BY <1>1, <1>2, <1>6 DEF ClientPuts, SetData, Write
<1>7. ASSUME UNCHANGED <<server, muts>> PROVE FALSE
  BY <1>7, ViewUnchanged
<1>8. ASSUME NEW e \in Docs, ClientDeletes(e) PROVE <<"del", d>> \in muts' \ muts
  BY <1>1, <1>2, <1>8 DEF ClientDeletes, Delete, Write
<1> QED
  BY <1>3, <1>4, <1>5, <1>6, <1>7, <1>8, QueueSteps

\* A saved write outlives the process and takes effect whatever the order of
\* acknowledgements (WriteLocally, StartMutationQueue, AcknowledgeBatch).
THEOREM SavedWritesTakeEffect == Spec => SavedWritesSurvive
<1> DEFINE Survive ==
      \A d \in Docs :
         /\ <<"del", d>> \in saved /\ d \in view' => Reject(<<"del", d>>)
         /\ <<"put", d>> \in saved /\ d \in view \ view' =>
               <<"del", d>> \in muts' \ muts \/ Reject(<<"put", d>>)
<1>1. StoreTypeOK /\ [Next]_storeVars => [Survive]_storeVars
  BY SavedDeletion, SavedPut
<1>2. Init => StoreTypeOK
  BY DEF Init, StoreTypeOK
<1> QED
  BY <1>1, <1>2, StoreTypeStep, PTL DEF Spec, SavedWritesSurvive
=============================================================================
