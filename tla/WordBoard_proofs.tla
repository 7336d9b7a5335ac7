--------------------------- MODULE WordBoard_proofs ---------------------------
(***************************************************************************)
(* Proofs about the word board, for any number of words, screens, fetches, *)
(* deletions and failures.                                                 *)
(*                                                                         *)
(* The invariant says where a word can be at all: a word reaches the       *)
(* store, the fetches, the list, a detail screen and an alert only after   *)
(* its image request was answered (`Known'), and from then on its picture  *)
(* is stored until its deletion is confirmed (`Backed').                   *)
(* `FreshInv' is about the answers to fetches, `LoaderInv' about the HUD   *)
(* that requests and deletions share.                                      *)
(***************************************************************************)
EXTENDS WordBoard, SequenceTheorems, TLAPS

Answered == {w \in Words : stage[w] = "answered"}

StageOK == stage \in [Words -> Pipeline!Stages]

StoreKnown ==
    /\ server \subseteq Answered
    /\ saved \subseteq muts
    /\ \A w \in Words : <<"put", w>> \in muts => w \in Answered

ReadsKnown == reads \in Seq(SUBSET SUBSET Answered)

ScreensKnown ==
    /\ list \subseteq Answered
    /\ top.screen = "detail" => top.word \in Answered
    /\ sheet.screen = "alert" => sheet.word \in Answered

DeletionsKnown ==
    /\ \A d \in deletions : d.word \in confirmed
    /\ confirmed \subseteq Answered

Known == StageOK /\ StoreKnown /\ ReadsKnown /\ ScreensKnown /\ DeletionsKnown

Backed ==
    \A w \in Words \ confirmed : stage[w] \in {"linking", "answered"} => w \in files

-----------------------------------------------------------------------------
(* Sequences of answers.                                                   *)

\* A fetch's answers may be counted among more views.
LEMMA SeqOfMore ==
    ASSUME NEW S, NEW T, S \subseteq T, NEW q \in Seq(SUBSET SUBSET S)
    PROVE  q \in Seq(SUBSET SUBSET T)
  OBVIOUS

\* Adding a view to every outstanding fetch keeps the sequence well formed.
LEMMA SeqWidened ==
    ASSUME NEW S, NEW x \in S, NEW q \in Seq(SUBSET S)
    PROVE  [i \in DOMAIN q |-> q[i] \cup {x}] \in Seq(SUBSET S)
<1> DEFINE f == [i \in 1..Len(q) |-> q[i] \cup {x}]
<1>1. f \in [1..Len(q) -> SUBSET S]
  OBVIOUS
<1>2. f \in Seq(SUBSET S)
  BY <1>1
<1> QED
  BY <1>2

\* So does adding, to every fetch, its views with document d as in view x.
LEMMA SeqAmended ==
    ASSUME NEW S, NEW x \in SUBSET S, NEW d, NEW q \in Seq(SUBSET SUBSET S)
    PROVE  [i \in DOMAIN q |-> q[i] \cup {(v \ {d}) \cup (x \cap {d}) : v \in q[i]}]
              \in Seq(SUBSET SUBSET S)
<1> DEFINE f == [i \in 1..Len(q) |-> q[i] \cup {(v \ {d}) \cup (x \cap {d}) : v \in q[i]}]
<1>1. \A i \in 1..Len(q) :
         q[i] \cup {(v \ {d}) \cup (x \cap {d}) : v \in q[i]} \in SUBSET SUBSET S
  <2> SUFFICES ASSUME NEW i \in 1..Len(q), NEW v \in q[i]
               PROVE  (v \ {d}) \cup (x \cap {d}) \in SUBSET S
    OBVIOUS
  <2> QED
    OBVIOUS
<1>2. f \in [1..Len(q) -> SUBSET SUBSET S]
  BY <1>1
<1>3. f \in Seq(SUBSET SUBSET S)
  BY <1>2
<1> QED
  BY <1>3

\* The local view has only known words when the store has.
LEMMA ViewKnown == StoreKnown => view \subseteq Answered
  BY DEF StoreKnown, view, Store!view

\* Whatever a step does with the fetches (leave them, widen them, amend them,
\* add one, answer or deny the oldest), they are answered with known words.
LEMMA ReadsStep ==
    ASSUME ReadsKnown, StoreKnown', Answered \subseteq Answered',
           \/ UNCHANGED reads
           \/ Store!Watching
           \/ Store!GetDocuments
           \/ \E m \in Store!Writes : Store!Reject(m)
           \/ reads # <<>> /\ reads' = Tail(reads)
    PROVE  ReadsKnown'
<1>1. reads \in Seq(SUBSET SUBSET Answered')
  BY SeqOfMore DEF ReadsKnown
<1>2. view' \in SUBSET Answered'
  BY DEF StoreKnown, view, Store!view
<1>3. Store!Widened \in Seq(SUBSET SUBSET Answered')
  BY <1>1, <1>2, SeqWidened DEF Store!Widened, view
<1>4. CASE UNCHANGED reads
  BY <1>1, <1>4 DEF ReadsKnown
<1>5. CASE Store!Watching
  BY <1>3, <1>5 DEF ReadsKnown, Store!Watching
<1>6. CASE Store!GetDocuments
  <2>1. {view'} \in SUBSET SUBSET Answered'
    BY <1>2
  <2>2. Append(Store!Widened, {view'}) \in Seq(SUBSET SUBSET Answered')
    BY <1>3, <2>1
  <2> QED
    BY <1>6, <2>2 DEF ReadsKnown, Store!GetDocuments, view
<1>7. CASE reads # <<>> /\ reads' = Tail(reads)
  BY <1>1, <1>7 DEF ReadsKnown
<1>8. ASSUME NEW m \in Store!Writes, Store!Reject(m) PROVE ReadsKnown'
  BY <1>1, <1>2, <1>8, SeqAmended DEF ReadsKnown, Store!Reject, Store!Amended, view
<1> QED
  BY <1>4, <1>5, <1>6, <1>7, <1>8
-----------------------------------------------------------------------------
(* The image requests.                                                     *)

\* A request that has not been answered moves on; the others stay.
LEMMA MoveKnown ==
    ASSUME StageOK, NEW r \in Words, NEW s, s # "answered",
           NEW t \in Pipeline!Stages, NEW q, Pipeline!Move(r, s, t, q)
    PROVE  /\ StageOK'
           /\ Answered \subseteq Answered'
           /\ t = "answered" => r \in Answered'
  BY DEF StageOK, Answered, Pipeline!Move

\* When only requests move, what was known stays known.
LEMMA OnlyRequestsMove ==
    ASSUME Known, StageOK', Answered \subseteq Answered',
           UNCHANGED <<server, muts, saved, reads, list, top, sheet, deletions, confirmed>>
    PROVE  Known'
<1>1. StoreKnown'
  BY DEF Known, StoreKnown
<1>2. ReadsKnown'
  BY <1>1, ReadsStep DEF Known
<1> QED
  BY <1>1, <1>2 DEF Known, ScreensKnown, DeletionsKnown

-----------------------------------------------------------------------------
(* Every step keeps words where they are known.                            *)

\* What the user does moves words only between places where they are known.
LEMMA UserStepKnown == Known /\ UserStep => Known'
<1> SUFFICES ASSUME Known, UserStep PROVE Known'
  OBVIOUS
<1> USE DEF uiVars, pipelineVars, storeVars, hudVars, historyVars
<1>same. UNCHANGED <<stage, server, muts, saved>>
           => Answered' = Answered /\ StoreKnown' /\ StageOK'
  BY DEF Known, Answered, StoreKnown, StageOK
<1>1. ASSUME UNCHANGED <<stage, server, muts, saved, deletions, confirmed>>,
             UNCHANGED reads \/ Store!GetDocuments,
             ScreensKnown'
      PROVE  Known'
  <2>1. ReadsKnown'
    BY <1>1, <1>same, ReadsStep DEF Known
  <2> QED
    BY <1>1, <1>same, <2>1 DEF Known, DeletionsKnown
<1>2. CASE UpdateData
  BY <1>1, <1>2, <1>same
     DEF UpdateData, FetchBoard, Store!NoWrite, Known, ScreensKnown
<1>3. CASE TestStart
  BY <1>1, <1>3, <1>same DEF TestStart, TestPage, Screen, Known, ScreensKnown
<1>4. CASE Back
  BY <1>1, <1>4, <1>same
     DEF Back, ReturnToBoard, FetchBoard, Store!NoWrite, Board, Screen, Known, ScreensKnown
<1>5. CASE CancelForm \/ SaveEmpty \/ CloseNotice \/ CancelDelete \/ AddComment \/ CloseComment
  BY <1>1, <1>5, <1>same
     DEF CancelForm, SaveEmpty, CloseNotice, CancelDelete, AddComment, CloseComment,
         NoSheet, Notice, Form, CommentSheet, Screen, Known, ScreensKnown
<1>6. CASE DeleteWord
  BY <1>1, <1>6, <1>same DEF DeleteWord, OnTop, Alert, Screen, Known, ScreensKnown
<1>7. ASSUME NEW v \in Views, Writing(v) PROVE Known'
  BY <1>1, <1>7, <1>same DEF Writing, Form, Screen, Known, ScreensKnown
<1>8. ASSUME NEW v \in Views, NEW w \in Words, SelectRow(v, w) PROVE Known'
  BY <1>1, <1>8, <1>same DEF SelectRow, Detail, Screen, Known, ScreensKnown
<1>9. ASSUME NEW w \in Words, SaveBoard(w) PROVE Known'
  <2>1. StageOK' /\ Answered \subseteq Answered'
    BY <1>9, MoveKnown DEF SaveBoard, Pipeline!ImagesFetch, Pipeline!BadUrl, Known,
       Pipeline!Stages, Pipeline!InFlight, Pipeline!Ended
  <2> QED
    BY <1>9, <2>1, OnlyRequestsMove DEF SaveBoard
<1>10. ASSUME NEW n \in DeleteIds, ConfirmDelete(n) PROVE Known'
  <2>1. UNCHANGED <<stage, server, saved, list, top>> /\ sheet' = NoSheet
    BY <1>10 DEF ConfirmDelete, Store!Delete, Store!Write
  <2>2. sheet.word \in Answered
    BY <1>10 DEF ConfirmDelete, Presented, Known, ScreensKnown
  <2>3. Answered' = Answered /\ StageOK'
    BY <2>1 DEF Answered, Known, StageOK
  <2>4. muts' = muts \cup {<<"del", sheet.word>>}
    BY <1>10 DEF ConfirmDelete, Store!Delete, Store!Write
  <2>5. StoreKnown'
    BY <2>1, <2>3, <2>4 DEF Known, StoreKnown
  <2>6. ReadsKnown'
    BY <1>10, <2>3, <2>5, ReadsStep DEF ConfirmDelete, Known
  <2>7. ScreensKnown'
    BY <2>1, <2>3 DEF NoSheet, Screen, Known, ScreensKnown
  <2>8. DeletionsKnown'
    BY <1>10, <2>2, <2>3 DEF ConfirmDelete, Deletion, Known, DeletionsKnown
  <2> QED
    BY <2>3, <2>5, <2>6, <2>7, <2>8 DEF Known
<1> QED
  BY <1>2, <1>3, <1>4, <1>5, <1>6, <1>7, <1>8, <1>9, <1>10 DEF UserStep

\* So do the callbacks of an image request; the last one makes its word known.
LEMMA RequestStepKnown ==
    ASSUME Known, NEW w \in Words, RequestStep(w)
    PROVE  Known'
<1> USE DEF uiVars, pipelineVars, storeVars, hudVars, historyVars,
            Pipeline!Stages, Pipeline!InFlight, Pipeline!Ended
<1>1. CASE PhotoFound(w)
  BY <1>1, MoveKnown, OnlyRequestsMove DEF PhotoFound, Pipeline!PhotoFound, Known
<1>2. CASE NoPhoto(w)
  BY <1>2, MoveKnown, OnlyRequestsMove DEF NoPhoto, Pipeline!NoPhoto, Known
<1>3. CASE RequestDropped(w)
  BY <1>3, MoveKnown, OnlyRequestsMove
     DEF RequestDropped, Pipeline!SearchDropped, Pipeline!PutFailed, Pipeline!UrlFailed, Known
<1>4. CASE UploadProgress(w)
  <2>1. StageOK' /\ Answered \subseteq Answered'
    <3>1. CASE Pipeline!StoreObject(w)
      BY <3>1 DEF Pipeline!StoreObject, Known, StageOK, Answered
    <3>2. CASE Pipeline!PutDone(w)
      BY <3>2, MoveKnown DEF Pipeline!PutDone, Known
    <3> QED
      BY <1>4, <3>1, <3>2 DEF UploadProgress
  <2> QED
    BY <1>4, <2>1, OnlyRequestsMove DEF UploadProgress
<1>5. CASE WordAdded(w)
  <2>1. StageOK' /\ Answered \subseteq Answered' /\ w \in Answered'
    BY <1>5, MoveKnown DEF WordAdded, Pipeline!UrlReady, Known
  <2>2. UNCHANGED <<server, saved>> /\ muts' = muts \cup {<<"put", w>>}
    BY <1>5 DEF WordAdded, Store!SetData, Store!Write
  <2>3. StoreKnown'
    BY <2>1, <2>2 DEF Known, StoreKnown
  <2>4. ReadsKnown'
    BY <1>5, <2>1, <2>3, ReadsStep DEF WordAdded, Known
  <2>5. ScreensKnown'
    BY <1>5, <2>1 DEF WordAdded, NoSheet, Screen, Known, ScreensKnown
  <2>6. DeletionsKnown'
    BY <1>5, <2>1 DEF WordAdded, Known, DeletionsKnown
  <2> QED
    BY <2>1, <2>3, <2>4, <2>5, <2>6 DEF Known
<1> QED
  BY <1>1, <1>2, <1>3, <1>4, <1>5 DEF RequestStep

\* So do the steps of a Storage deletion.
LEMMA DeletionStepKnown ==
    ASSUME Known, NEW d \in deletions, DeletionStep(d)
    PROVE  Known'
<1> USE DEF uiVars, pipelineVars, storeVars, hudVars, historyVars
<1>1. UNCHANGED <<stage, server, muts, saved, list, sheet, confirmed>>
  BY DEF DeletionStep, ObjectRemoved, DeleteSucceeded, DeleteFailed, ReturnToBoard,
         FetchBoard, Store!NoWrite
<1>2. Answered' = Answered /\ StageOK' /\ StoreKnown'
  BY <1>1 DEF Known, Answered, StageOK, StoreKnown
<1>3. UNCHANGED <<reads, top>> \/ (Store!GetDocuments /\ top' = Board)
  BY DEF DeletionStep, ObjectRemoved, DeleteSucceeded, DeleteFailed, ReturnToBoard,
         FetchBoard
<1>4. ReadsKnown'
  BY <1>2, <1>3, ReadsStep DEF Known
<1>5. ScreensKnown'
  BY <1>1, <1>2, <1>3 DEF Known, ScreensKnown, Board, Screen
<1>6. DeletionsKnown'
  <2>1. \A e \in deletions' : \E f \in deletions : e.word = f.word
    BY DEF DeletionStep, ObjectRemoved, Deletion, DeleteSucceeded, DeleteFailed
  <2> QED
    BY <1>1, <1>2, <2>1 DEF Known, DeletionsKnown
<1> QED
  BY <1>2, <1>4, <1>5, <1>6 DEF Known

\* The store's own steps only remove writes and apply known ones.
LEMMA StoreStepKnown ==
    ASSUME Known,
           StoreStep \/ LoadFailed \/ (\E m \in Store!Writes : WriteRejected(m))
    PROVE  Known'
<1> USE DEF uiVars, pipelineVars, storeVars, hudVars, historyVars
<1>1. UNCHANGED <<stage, list, top, sheet, deletions, confirmed>>
  BY DEF StoreStep, LoadFailed, WriteRejected
<1>2. Answered' = Answered /\ StageOK' /\ ScreensKnown' /\ DeletionsKnown'
  BY <1>1 DEF Known, Answered, StageOK, ScreensKnown, DeletionsKnown
<1>3. StoreKnown'
  <2>1. ASSUME NEW m \in Store!Writes, Store!Acknowledge(m) PROVE StoreKnown'
    <3>1. muts' = muts \ {m} /\ saved' = saved \ {m} /\ m \in muts
      BY <2>1 DEF Store!Acknowledge, Store!Remove, Known, StoreKnown
    <3>2. server' \subseteq server \/ \E w \in Words : /\ m = <<"put", w>>
                                                      /\ server' = server \cup {w}
      BY <2>1 DEF Store!Acknowledge, Store!Writes, Store!Puts, Store!Dels
    <3> QED
      BY <1>2, <3>1, <3>2 DEF Known, StoreKnown
  <2>2. ASSUME NEW m \in Store!Writes, Store!Persist(m) \/ WriteRejected(m)
        PROVE  StoreKnown'
    BY <1>2, <2>2 DEF Known, StoreKnown, Store!Persist, WriteRejected, Store!Reject,
       Store!Remove
  <2>3. CASE LoadFailed
    BY <1>2, <2>3 DEF Known, StoreKnown, LoadFailed, Store!Deny
  <2> QED
    BY <2>1, <2>2, <2>3 DEF StoreStep
<1>4. ReadsKnown'
  <2>1. \/ UNCHANGED reads \/ Store!Watching \/ (reads # <<>> /\ reads' = Tail(reads))
        \/ \E m \in Store!Writes : Store!Reject(m)
    BY DEF StoreStep, Store!Persist, Store!Acknowledge, LoadFailed, Store!Deny,
           WriteRejected
  <2> QED
    BY <1>2, <1>3, <2>1, ReadsStep DEF Known
<1> QED
  BY <1>2, <1>3, <1>4 DEF Known

\* A fetch's answer holds known words.
LEMMA BoardsLoadedKnown ==
    ASSUME Known, NEW s, BoardsLoaded(s)
    PROVE  Known'
<1> USE DEF uiVars, pipelineVars, storeVars, hudVars, historyVars
<1>1. UNCHANGED <<stage, server, muts, saved, top, sheet, deletions, confirmed>>
  BY DEF BoardsLoaded, Store!Answer
<1>2. Answered' = Answered /\ StageOK' /\ StoreKnown' /\ DeletionsKnown'
  BY <1>1 DEF Known, Answered, StageOK, StoreKnown, DeletionsKnown
<1>3. ReadsKnown'
  BY <1>2, ReadsStep DEF Known, BoardsLoaded, Store!Answer
<1>4. list' \subseteq Answered
  BY DEF BoardsLoaded, Store!Answer, Known, ReadsKnown
<1> QED
  BY <1>1, <1>2, <1>3, <1>4 DEF Known, ScreensKnown

\* A new process knows what the store recovers.
LEMMA RestartKnown == Known /\ Restart => Known'
<1> SUFFICES ASSUME Known, Restart PROVE Known'
  OBVIOUS
<1>1. StageOK' /\ Answered' = Answered
  BY DEF Restart, Pipeline!Killed, Known, StageOK, Answered, Pipeline!Stages,
         Pipeline!InFlight, Pipeline!Ended
<1>2. StoreKnown'
  <2>1. server' = server /\ muts' \subseteq muts /\ saved' = muts'
    BY DEF Restart, Store!Recover, Known, StoreKnown
  <2> QED
    BY <1>1, <2>1 DEF Known, StoreKnown
<1>3. ReadsKnown'
  <2>1. view' \in SUBSET Answered'
    BY <1>2 DEF StoreKnown, view, Store!view
  <2>2. <<{view'}, {view'}>> \in Seq(SUBSET SUBSET Answered')
    BY <2>1
  <2> QED
    BY <2>2 DEF Restart, ReadsKnown
<1>4. ScreensKnown' /\ DeletionsKnown'
  BY <1>1 DEF Restart, Board, NoSheet, Screen, ScreensKnown, Known, DeletionsKnown
<1> QED
  BY <1>1, <1>2, <1>3, <1>4 DEF Known

\* Words are known wherever they are, in every reachable state.
LEMMA AlwaysKnown == Spec => []Known
<1>1. Init => Known
  <2> SUFFICES ASSUME Init PROVE Known
    OBVIOUS
  <2> USE DEF Init
  <2>1. StageOK
    BY DEF Pipeline!Init, StageOK, Pipeline!Stages
  <2>2. reads \in Seq(SUBSET SUBSET Answered)
    <3>1. {{}} \in SUBSET SUBSET Answered
      OBVIOUS
    <3> QED
      BY <3>1
  <2> QED
    BY <2>1, <2>2 DEF Known, StoreKnown, ReadsKnown, ScreensKnown, DeletionsKnown, Board,
       NoSheet, Screen
<1>2. Known /\ [Next]_vars => Known'
  <2> SUFFICES ASSUME Known, [Next]_vars PROVE Known'
    OBVIOUS
  <2>1. CASE UNCHANGED vars \/ LoaderStep
    <3>1. UNCHANGED <<stage, server, muts, saved, reads, list, top, sheet, deletions, confirmed>>
      BY <2>1 DEF vars, LoaderStep, uiVars, pipelineVars, storeVars, historyVars
    <3>2. StageOK' /\ Answered' = Answered
      BY <3>1 DEF Known, StageOK, Answered
    <3> QED
      BY <3>1, <3>2, OnlyRequestsMove
  <2> QED
    BY <2>1, UserStepKnown, BoardsLoadedKnown, RequestStepKnown, DeletionStepKnown,
       StoreStepKnown, RestartKnown DEF Next
<1> QED
  BY <1>1, <1>2, PTL DEF Spec
-----------------------------------------------------------------------------
(* Every word shown has its picture.                                       *)

\* An image request gains its picture before it is linked, and no step takes
\* the picture of a word whose deletion was not confirmed.
LEMMA BackedStep == Known /\ Backed /\ [Next]_vars => Backed'
<1> SUFFICES ASSUME Known, Backed, [Next]_vars PROVE Backed'
  OBVIOUS
<1> USE DEF uiVars, pipelineVars, storeVars, hudVars, historyVars
<1>1. ASSUME UNCHANGED <<stage, files>>, confirmed \subseteq confirmed'
      PROVE  Backed'
  BY <1>1 DEF Backed
<1>2. ASSUME UNCHANGED <<files, confirmed>>, NEW r \in Words, NEW t \in Pipeline!Stages,
             stage' = [stage EXCEPT ![r] = t],
             t \in {"linking", "answered"} => r \in files
      PROVE  Backed'
  BY <1>2 DEF Backed, Known, StageOK
<1>3. CASE UserStep
  <2>1. ASSUME NEW w \in Words, SaveBoard(w) PROVE Backed'
    BY <1>2, <2>1 DEF SaveBoard, Pipeline!ImagesFetch, Pipeline!BadUrl, Pipeline!Move,
       Pipeline!Stages, Pipeline!InFlight, Pipeline!Ended
  <2>2. ASSUME NEW n \in DeleteIds, ConfirmDelete(n) PROVE Backed'
    BY <1>1, <2>2 DEF ConfirmDelete
  <2>3. CASE UpdateData \/ TestStart \/ Back \/ CancelForm \/ SaveEmpty \/ CloseNotice
             \/ DeleteWord \/ CancelDelete \/ AddComment \/ CloseComment
    BY <1>1, <2>3 DEF UpdateData, TestStart, Back, CancelForm, SaveEmpty, CloseNotice,
       DeleteWord, CancelDelete, AddComment, CloseComment
  <2>4. ASSUME NEW v \in Views, Writing(v) \/ \E w \in Words : SelectRow(v, w)
        PROVE  Backed'
    BY <1>1, <2>4 DEF Writing, SelectRow
  <2> QED
    BY <1>3, <2>1, <2>2, <2>3, <2>4 DEF UserStep
<1>4. ASSUME NEW w \in Words, RequestStep(w) PROVE Backed'
  <2> USE DEF Pipeline!Move, Pipeline!Stages, Pipeline!InFlight, Pipeline!Ended
  <2>1. CASE PhotoFound(w) \/ NoPhoto(w)
    BY <1>2, <2>1 DEF PhotoFound, Pipeline!PhotoFound, NoPhoto, Pipeline!NoPhoto
  <2>2. CASE RequestDropped(w)
    BY <1>2, <2>2 DEF RequestDropped, Pipeline!SearchDropped, Pipeline!PutFailed,
       Pipeline!UrlFailed
  <2>3. CASE UploadProgress(w)
    <3>1. CASE Pipeline!StoreObject(w)
      BY <2>3, <3>1 DEF UploadProgress, Pipeline!StoreObject, Backed
    <3>2. CASE Pipeline!PutDone(w)
      BY <1>2, <2>3, <3>2 DEF UploadProgress, Pipeline!PutDone
    <3> QED
      BY <2>3, <3>1, <3>2 DEF UploadProgress
  <2>4. CASE WordAdded(w)
    BY <1>2, <2>4 DEF WordAdded, Pipeline!UrlReady
  <2> QED
    BY <1>4, <2>1, <2>2, <2>3, <2>4 DEF RequestStep
<1>5. ASSUME NEW d \in deletions, DeletionStep(d) PROVE Backed'
  <2>1. CASE ObjectRemoved(d)
    <3>1. d.word \in confirmed
      BY DEF Known, DeletionsKnown
    <3> QED
      BY <2>1, <3>1 DEF ObjectRemoved, Backed
  <2>2. CASE DeleteSucceeded(d) \/ DeleteFailed(d)
    BY <1>1, <2>2 DEF DeleteSucceeded, DeleteFailed
  <2> QED
    BY <1>5, <2>1, <2>2 DEF DeletionStep
<1>6. CASE StoreStep \/ LoadFailed \/ LoaderStep \/ UNCHANGED vars
  BY <1>1, <1>6 DEF StoreStep, LoadFailed, LoaderStep, vars
<1>7. ASSUME NEW s, BoardsLoaded(s) PROVE Backed'
  BY <1>1, <1>7 DEF BoardsLoaded
<1>8. ASSUME NEW m, WriteRejected(m) PROVE Backed'
  BY <1>1, <1>8 DEF WriteRejected
<1>9. CASE Restart
  BY <1>9 DEF Restart, Pipeline!Killed, Backed, Known, StageOK
<1> QED
  BY <1>3, <1>4, <1>5, <1>6, <1>7, <1>8, <1>9 DEF Next

\* Every word in the local view or in the list has its picture in Cloud
\* Storage unless its deletion was confirmed, whatever requests, deletions,
\* fetches, rejections and restarts overlap.
THEOREM WordsHaveImages == Spec => []ImageBacked
<1>1. Init => Backed
  BY DEF Init, Pipeline!Init, Backed
<1>2. Known /\ Backed => ImageBacked
  BY ViewKnown DEF Known, ScreensKnown, Backed, ImageBacked, Answered
<1> QED
  BY <1>1, <1>2, AlwaysKnown, BackedStep, PTL DEF Spec
-----------------------------------------------------------------------------
(* How the local view changes.                                             *)

\* A step that leaves the server's documents and the pending writes alone
\* leaves the local view alone.
LEMMA ViewSame == UNCHANGED <<server, muts>> => view' = view
  BY DEF view, Store!view

\* setData adds at most its own word to the local view.
LEMMA ViewAfterSetData ==
    ASSUME NEW w \in Words, Store!SetData(w)
    PROVE  view \subseteq view' /\ view' \subseteq view \cup {w}
  BY DEF view, Store!view, Store!SetData, Store!Write

\* delete() takes its word out of the local view, and no other.
LEMMA ViewAfterDelete ==
    ASSUME NEW w \in Words, Store!Delete(w)
    PROVE  view' = view \ {w}
  BY DEF view, Store!view, Store!Delete, Store!Write

\* An acknowledgement does not change the local view, because the writes to a
\* document are acknowledged in the order they were made in.
LEMMA ViewAfterAcknowledge ==
    ASSUME NEW m \in Store!Writes, StoreKnown, Store!Acknowledge(m)
    PROVE  view' = view
<1> USE DEF Store!Acknowledge, Store!Remove, Store!OldestIn, StoreKnown
<1>1. CASE m \in Store!Puts
  <2>1. PICK w \in Words : m = <<"put", w>>
    BY <1>1 DEF Store!Puts
  <2>2. server' = server \cup {w} /\ muts' = muts \ {<<"put", w>>}
    BY <2>1
  <2>3. <<"put", w>> \in muts
    BY <2>1
  <2> QED
    BY <2>2, <2>3 DEF view, Store!view
<1>2. CASE m \in Store!Dels
  <2>1. PICK w \in Words : m = <<"del", w>>
    BY <1>2 DEF Store!Dels
  <2>2. server' = server \ {w} /\ muts' = muts \ {<<"del", w>>}
    BY <2>1
  <2>3. <<"del", w>> \in muts /\ <<"put", w>> \notin muts
    BY <2>1
  <2> QED
    BY <2>2, <2>3 DEF view, Store!view
<1> QED
  BY <1>1, <1>2 DEF Store!Writes

\* A rejected setData takes at most its own word away, a rejected delete()
\* brings at most its own word back.
LEMMA ViewAfterReject ==
    ASSUME NEW m \in Store!Writes, StoreKnown, Store!Reject(m)
    PROVE  \E w \in Words :
              \/ m = <<"put", w>> /\ view' \subseteq view /\ view \subseteq view' \cup {w}
              \/ m = <<"del", w>> /\ view \subseteq view' /\ view' \subseteq view \cup {w}
<1> USE DEF Store!Reject, Store!Remove, StoreKnown
<1>1. CASE m \in Store!Puts
  <2>1. PICK w \in Words : m = <<"put", w>>
    BY <1>1 DEF Store!Puts
  <2>2. server' = server /\ muts' = muts \ {<<"put", w>>}
    BY <2>1
  <2>3. view' \subseteq view /\ view \subseteq view' \cup {w}
    BY <2>2 DEF view, Store!view
  <2> QED
    BY <2>1, <2>3
<1>2. CASE m \in Store!Dels
  <2>1. PICK w \in Words : m = <<"del", w>>
    BY <1>2 DEF Store!Dels
  <2>2. server' = server /\ muts' = muts \ {<<"del", w>>}
    BY <2>1
  <2>3. view \subseteq view' /\ view' \subseteq view \cup {w}
    BY <2>2 DEF view, Store!view
  <2> QED
    BY <2>1, <2>3
<1> QED
  BY <1>1, <1>2 DEF Store!Writes

\* Which steps change the local view at all.
LEMMA ViewSteps ==
    ASSUME Known, [Next]_vars
    PROVE  \/ UNCHANGED view
           \/ \E w \in Words : WordAdded(w)
           \/ \E n \in DeleteIds : ConfirmDelete(n)
           \/ \E m \in Store!Writes : WriteRejected(m)
           \/ Restart
<1> USE DEF uiVars, pipelineVars, storeVars, hudVars, historyVars
<1>1. CASE UserStep
  <2>1. CASE UpdateData \/ TestStart \/ Back \/ CancelForm \/ SaveEmpty \/ CloseNotice
             \/ DeleteWord \/ CancelDelete \/ AddComment \/ CloseComment
    BY <2>1, ViewSame DEF UpdateData, TestStart, Back, ReturnToBoard, FetchBoard,
       Store!NoWrite, CancelForm, SaveEmpty, CloseNotice, DeleteWord, CancelDelete,
       AddComment, CloseComment
  <2>2. ASSUME NEW v \in Views, NEW w \in Words, SelectRow(v, w)
        PROVE  UNCHANGED view
    BY <2>2, ViewSame DEF SelectRow
  <2>3. ASSUME NEW v \in Views, Writing(v) PROVE UNCHANGED view
    BY <2>3, ViewSame DEF Writing
  <2>4. ASSUME NEW w \in Words, SaveBoard(w) PROVE UNCHANGED view
    BY <2>4, ViewSame DEF SaveBoard
  <2> QED
    BY <1>1, <2>1, <2>2, <2>3, <2>4 DEF UserStep
<1>2. ASSUME NEW w \in Words, RequestStep(w) PROVE UNCHANGED view \/ WordAdded(w)
  BY <1>2, ViewSame DEF RequestStep, PhotoFound, NoPhoto, RequestDropped, UploadProgress
<1>3. ASSUME NEW d \in deletions, DeletionStep(d) PROVE UNCHANGED view
  BY <1>3, ViewSame DEF DeletionStep, ObjectRemoved, DeleteSucceeded, DeleteFailed,
     ReturnToBoard, FetchBoard, Store!NoWrite
<1>4. CASE StoreStep
  <2>1. ASSUME NEW m \in Store!Writes, Store!Persist(m) PROVE UNCHANGED view
    BY <2>1, ViewSame DEF Store!Persist
  <2> QED
    BY <1>4, <2>1, ViewAfterAcknowledge DEF StoreStep, Known
<1>5. CASE LoadFailed \/ LoaderStep \/ UNCHANGED vars
  BY <1>5, ViewSame DEF LoadFailed, Store!Deny, LoaderStep, vars
<1>6. ASSUME NEW s, BoardsLoaded(s) PROVE UNCHANGED view
  BY <1>6, ViewSame DEF BoardsLoaded, Store!Answer
<1> QED
  BY <1>1, <1>2, <1>3, <1>4, <1>5, <1>6 DEF Next

\* A failure is counted.
LEMMA AlwaysCounted == Spec => [](faults \in Nat)
<1>1. Init => faults \in Nat
  BY DEF Init
<1>2. faults \in Nat /\ [Next]_vars => (faults \in Nat)'
  <2> SUFFICES ASSUME faults \in Nat, [Next]_vars
               PROVE  UNCHANGED faults \/ Fault
    BY DEF Fault
  <2> USE DEF historyVars
  <2>1. UserStep => UNCHANGED faults \/ Fault
    BY DEF UserStep, UpdateData, TestStart, Back, CancelForm, SaveEmpty, CloseNotice,
           AddComment, CloseComment, DeleteWord, CancelDelete, Writing, SaveBoard, SelectRow, ConfirmDelete
  <2>2. ASSUME NEW w \in Words, RequestStep(w) PROVE UNCHANGED faults \/ Fault
    BY <2>2 DEF RequestStep, PhotoFound, NoPhoto, RequestDropped, UploadProgress, WordAdded
  <2>3. ASSUME NEW d \in deletions, DeletionStep(d) PROVE UNCHANGED faults \/ Fault
    BY <2>3 DEF DeletionStep, ObjectRemoved, DeleteSucceeded, DeleteFailed
  <2> QED
    BY <2>1, <2>2, <2>3 DEF Next, vars, BoardsLoaded, LoadFailed, StoreStep, WriteRejected,
       LoaderStep, Restart
<1> QED
  BY <1>1, <1>2, PTL DEF Spec

\* What a killed process leaves: a word is missing in the new view only if
\* its setData was lost, and is back only if its deletion was lost.
LEMMA ViewAfterRestart ==
    ASSUME Known, faults \in Nat, Restart
    PROVE  /\ \A w \in view' \ view : LostWrite(<<"del", w>>)
           /\ \A w \in view \ view' : LostWrite(<<"put", w>>)
<1>1. server' = server /\ muts' \subseteq muts
  BY DEF Restart, Store!Recover, Known, StoreKnown
<1>2. faults' # faults
  BY DEF Restart, Fault
<1> QED
  BY <1>1, <1>2 DEF view, Store!view, LostWrite

\* A deleted word comes back only when its own deletion is rejected by the
\* server or lost with the process: no late addContent, no acknowledgement
\* and no overlapping request puts it on the board again.
THEOREM DeletedStaysDeleted == Spec => NoResurrection
<1> DEFINE A == \A w \in confirmed : w \in view' \ view => LostWrite(<<"del", w>>)
<1>1. Known /\ faults \in Nat /\ [Next]_vars => [A]_vars
  <2> SUFFICES ASSUME Known, faults \in Nat, [Next]_vars PROVE A
    OBVIOUS
  <2>1. ASSUME NEW w \in Words, WordAdded(w) PROVE A
    <3>1. w \notin confirmed
      BY <2>1 DEF WordAdded, Pipeline!UrlReady, Pipeline!Move, Known, DeletionsKnown, Answered
    <3> QED
      BY <2>1, <3>1, ViewAfterSetData DEF WordAdded
  <2>2. ASSUME NEW n \in DeleteIds, ConfirmDelete(n) PROVE A
    <3>1. sheet.word \in Words
      BY <2>2 DEF ConfirmDelete, Presented, Known, ScreensKnown, Answered
    <3> QED
      BY <2>2, <3>1, ViewAfterDelete DEF ConfirmDelete
  <2>3. ASSUME NEW m \in Store!Writes, WriteRejected(m) PROVE A
    <3>1. Store!Reject(m) /\ StoreKnown
      BY <2>3 DEF WriteRejected, Known
    <3>2. LostWrite(m)
      BY <2>3, <3>1 DEF WriteRejected, Fault, Store!Reject, Store!Remove, LostWrite, StoreKnown
    <3> QED
      BY <3>1, <3>2, ViewAfterReject
  <2> QED
    BY <2>1, <2>2, <2>3, ViewSteps, ViewAfterRestart
<1> QED
  BY <1>1, AlwaysKnown, AlwaysCounted, PTL DEF Spec, NoResurrection

\* A saved word leaves the board only by its confirmed deletion, or when its
\* own setData is rejected by the server or lost with the process.
THEOREM SavedWordsStay == Spec => SavedWordStays
<1> DEFINE A == \A w \in view \ view' : w \in confirmed' \/ LostWrite(<<"put", w>>)
<1>1. Known /\ faults \in Nat /\ [Next]_vars => [A]_vars
  <2> SUFFICES ASSUME Known, faults \in Nat, [Next]_vars PROVE A
    OBVIOUS
  <2>1. ASSUME NEW w \in Words, WordAdded(w) PROVE A
    BY <2>1, ViewAfterSetData DEF WordAdded
  <2>2. ASSUME NEW n \in DeleteIds, ConfirmDelete(n) PROVE A
    <3>1. sheet.word \in Words
      BY <2>2 DEF ConfirmDelete, Presented, Known, ScreensKnown, Answered
    <3> QED
      BY <2>2, <3>1, ViewAfterDelete DEF ConfirmDelete
  <2>3. ASSUME NEW m \in Store!Writes, WriteRejected(m) PROVE A
    <3>1. Store!Reject(m) /\ StoreKnown
      BY <2>3 DEF WriteRejected, Known
    <3>2. LostWrite(m)
      BY <2>3, <3>1 DEF WriteRejected, Fault, Store!Reject, Store!Remove, LostWrite, StoreKnown
    <3> QED
      BY <3>1, <3>2, ViewAfterReject
  <2> QED
    BY <2>1, <2>2, <2>3, ViewSteps, ViewAfterRestart
<1> QED
  BY <1>1, AlwaysKnown, AlwaysCounted, PTL DEF Spec, SavedWordStays
-----------------------------------------------------------------------------
(* The list shows the local view when the board is on top and every fetch  *)
(* is answered.                                                            *)
(*                                                                         *)
(* FreshWhenIdle is not inductive: the answer that makes the list current  *)
(* was fixed when the last fetch was asked for.  `LastAnswerCurrent' says  *)
(* so.  The one handler that writes without fetching while the board is on *)
(* top is an alert's that outlived its detail screen; `Disposed' says that *)
(* its word has already been deleted.                                      *)

\* A list s that shows view v, rows of r aside; v and r are the local view and
\* the words of rejected deletions.
Shows(s, v, r) == v \subseteq s /\ s \ v \subseteq r
Current(s) == Shows(s, view, reinstated)

\* The word's deletion has taken effect on the local view.
Disposed(w) == w \notin view \/ w \in reinstated

LastAnswerCurrent ==
    top = Board /\ ~refused =>
        IF reads = <<>> THEN Current(list)
                        ELSE \A s \in reads[Len(reads)] : Current(s)

DeletionsDisposed == \A d \in deletions : Disposed(d.word)

\* An alert is over its detail screen, or over the board when that screen has
\* been popped by the answer to an earlier deletion.
AlertsPlaced ==
    sheet.screen = "alert" =>
        \/ top = Detail(sheet.view, sheet.word)
        \/ top = Board /\ Disposed(sheet.word)

\* A detail screen deletes only its own word.
DeletionsOwned ==
    \A d \in deletions : top.screen = "detail" /\ top.view = d.view => top.word = d.word

ScreensPlaced == top \in Tops /\ AlertsPlaced /\ DeletionsOwned

FreshInv == LastAnswerCurrent /\ DeletionsDisposed /\ ScreensPlaced

-----------------------------------------------------------------------------
(* Fetches.                                                                *)

\* A handler that fetches: the answer to the last fetch is the view it leaves.
LEMMA FetchIsCurrent ==
    ASSUME ReadsKnown, Store!GetDocuments
    PROVE  LastAnswerCurrent'
<1>1. Store!Widened \in Seq(SUBSET SUBSET (Answered \cup view'))
  <2>1. reads \in Seq(SUBSET SUBSET (Answered \cup view'))
    BY SeqOfMore DEF ReadsKnown
  <2> QED
    BY <2>1, SeqWidened DEF Store!Widened, view
<1>2. reads' = Append(Store!Widened, {view'})
  BY DEF Store!GetDocuments, view
<1>3. reads' # <<>> /\ reads'[Len(reads')] = {view'}
  BY <1>1, <1>2
<1>4. Shows(view', view', reinstated')
  BY DEF Shows
<1> QED
  BY <1>3, <1>4 DEF LastAnswerCurrent, Current

\* A step that keeps what is current current, and adds to the outstanding
\* fetches at most a current view, keeps the last answer current.
LEMMA WatchedStaysCurrent ==
    ASSUME ReadsKnown, LastAnswerCurrent, UNCHANGED <<top, list, refused>>,
           UNCHANGED reads \/ Store!Watching,
           \A s : Shows(s, view, reinstated) => Shows(s, view', reinstated')
    PROVE  LastAnswerCurrent'
<1> SUFFICES ASSUME top = Board, ~refused
             PROVE  IF reads' = <<>>
                    THEN Shows(list, view', reinstated')
                    ELSE \A s \in reads'[Len(reads')] : Shows(s, view', reinstated')
  BY DEF LastAnswerCurrent, Current
<1>1. IF reads = <<>>
      THEN Shows(list, view, reinstated)
      ELSE \A s \in reads[Len(reads)] : Shows(s, view, reinstated)
  BY DEF LastAnswerCurrent, Current
<1>2. CASE UNCHANGED reads
  BY <1>1, <1>2
<1>3. CASE Store!Watching
  <2>1. /\ Len(reads') = Len(reads)
        /\ reads = <<>> => reads' = <<>>
        /\ reads # <<>> =>
              reads' # <<>> /\ reads'[Len(reads')] = reads[Len(reads)] \cup {view'}
    <3>1. reads' = [i \in 1..Len(reads) |-> reads[i] \cup {view'}]
      BY <1>3 DEF Store!Watching, Store!Widened, ReadsKnown, view
    <3>2. Len(reads) \in Nat
      BY DEF ReadsKnown
    <3> QED
      BY <3>1, <3>2 DEF ReadsKnown
  <2>2. Shows(view', view', reinstated')
    BY DEF Shows
  <2> QED
    BY <1>1, <2>1, <2>2
<1> QED
  BY <1>2, <1>3

\* The last element outlives the first.
LEMMA LastOfTail ==
    ASSUME NEW S, NEW q \in Seq(S), q # <<>>, Len(q) # 1
    PROVE  Tail(q) # <<>> /\ Tail(q)[Len(Tail(q))] = q[Len(q)]
<1>1. Len(q) \in Nat /\ Len(q) > 1
  <2>1. Len(q) \in Nat /\ Len(q) # 0
    BY EmptySeq, LenProperties
  <2>2. \A n \in Nat : n # 0 /\ n # 1 => n > 1
    OBVIOUS
  <2> QED
    BY <2>1, <2>2
<1>2. Tail(q) \in Seq(S) /\ Len(Tail(q)) = Len(q) - 1
  BY HeadTailProperties
<1>3. Tail(q)[Len(q) - 1] = q[Len(q)]
  BY <1>1, <1>2, HeadTailProperties
<1>4. Tail(q) # <<>>
  <2>1. Len(Tail(q)) # 0
    BY <1>1, <1>2
  <2> QED
    BY <1>2, <2>1, EmptySeq
<1> QED
  BY <1>2, <1>3, <1>4

\* The oldest fetch is answered or denied, and another one is still to come.
LEMMA OlderFetchEnds ==
    ASSUME ReadsKnown, LastAnswerCurrent, UNCHANGED top, refused => refused',
           UNCHANGED <<view, reinstated>>, reads # <<>>, Len(reads) # 1,
           reads' = Tail(reads)
    PROVE  LastAnswerCurrent'
<1>1. reads' # <<>> /\ reads'[Len(reads')] = reads[Len(reads)]
  BY LastOfTail DEF ReadsKnown
<1> SUFFICES ASSUME top = Board, ~refused, NEW s \in reads[Len(reads)]
             PROVE  Shows(s, view, reinstated)
  BY <1>1 DEF LastAnswerCurrent, Current
<1> QED
  BY DEF LastAnswerCurrent, Current

-----------------------------------------------------------------------------
(* Steps that leave the store alone.                                       *)

\* Nothing that FreshInv speaks of changes.
LEMMA QuietStep ==
    ASSUME FreshInv, UNCHANGED <<top, sheet, list, deletions, reads, refused>>,
           UNCHANGED <<view, reinstated>>
    PROVE  FreshInv'
  BY DEF FreshInv, LastAnswerCurrent, Current, DeletionsDisposed, Disposed, ScreensPlaced,
         AlertsPlaced, DeletionsOwned

\* Only screens change.
LEMMA OnlyScreensChange ==
    ASSUME FreshInv, ScreensPlaced', top' = Board => top = Board,
           UNCHANGED <<list, deletions, reads, refused>>, UNCHANGED <<view, reinstated>>
    PROVE  FreshInv'
  BY DEF FreshInv, LastAnswerCurrent, Current, DeletionsDisposed, Disposed

\* A deletion moves on or ends.
LEMMA OnlyDeletionsChange ==
    ASSUME FreshInv, UNCHANGED <<top, sheet, list, reads, refused>>,
           UNCHANGED <<view, reinstated>>,
           \A e \in deletions' : \E d \in deletions : e.view = d.view /\ e.word = d.word
    PROVE  FreshInv'
<1>1. LastAnswerCurrent'
  BY DEF FreshInv, LastAnswerCurrent, Current
<1>2. DeletionsDisposed' /\ ScreensPlaced'
  BY DEF FreshInv, DeletionsDisposed, Disposed, ScreensPlaced, AlertsPlaced, DeletionsOwned
<1> QED
  BY <1>1, <1>2 DEF FreshInv

\* A handler fetches, without a write.
LEMMA ScreensChangeAndFetch ==
    ASSUME Known, FreshInv, ScreensPlaced', Store!GetDocuments,
           deletions' \subseteq deletions, UNCHANGED <<view, reinstated>>
    PROVE  FreshInv'
  BY FetchIsCurrent DEF FreshInv, DeletionsDisposed, Disposed, Known

-----------------------------------------------------------------------------
(* Every step.                                                             *)

\* What the user does.
LEMMA UserStepFresh == Known /\ FreshInv /\ UserStep => FreshInv'
<1> SUFFICES ASSUME Known, FreshInv, UserStep PROVE FreshInv'
  OBVIOUS
<1> USE DEF uiVars, pipelineVars, storeVars, hudVars, historyVars
<1>same. UNCHANGED <<server, muts>> => UNCHANGED view
  BY ViewSame
<1>1. CASE UpdateData
  <2>1. ScreensPlaced'
    BY <1>1, <1>same DEF UpdateData, FetchBoard, Store!NoWrite, FreshInv, ScreensPlaced,
       AlertsPlaced, DeletionsOwned, Disposed
  <2> QED
    BY <1>1, <1>same, <2>1, ScreensChangeAndFetch
       DEF UpdateData, FetchBoard, Store!NoWrite
<1>2. CASE Back
  <2>1. ScreensPlaced'
    BY <1>2 DEF Back, ReturnToBoard, Board, NoSheet, Screen, ScreensPlaced, AlertsPlaced,
       DeletionsOwned, Tops
  <2> QED
    BY <1>2, <1>same, <2>1, ScreensChangeAndFetch
       DEF Back, ReturnToBoard, FetchBoard, Store!NoWrite
<1>3. CASE TestStart
  <2>1. ScreensPlaced' /\ top' # Board
    BY <1>3 DEF TestStart, OnTop, TestPage, Board, NoSheet, Screen, ScreensPlaced,
       AlertsPlaced, DeletionsOwned, Tops
  <2> QED
    BY <1>3, <1>same, <2>1, OnlyScreensChange DEF TestStart
<1>4. CASE CancelForm \/ SaveEmpty \/ CloseNotice \/ CancelDelete \/ AddComment \/ CloseComment
  <2>1. ScreensPlaced'
    BY <1>4 DEF CancelForm, SaveEmpty, CloseNotice, CancelDelete, AddComment, CloseComment,
       NoSheet, Notice, Form, CommentSheet, Screen, FreshInv, ScreensPlaced, AlertsPlaced, DeletionsOwned
  <2> QED
    BY <1>4, <1>same, <2>1, OnlyScreensChange
       DEF CancelForm, SaveEmpty, CloseNotice, CancelDelete, AddComment, CloseComment
<1>5. CASE DeleteWord
  <2>1. top = Detail(top.view, top.word)
    BY <1>5 DEF DeleteWord, OnTop, FreshInv, ScreensPlaced, Tops, Board, TestPage, Detail,
       Screen
  <2>2. ScreensPlaced'
    BY <1>5, <2>1 DEF DeleteWord, Alert, Screen, FreshInv, ScreensPlaced, AlertsPlaced,
       DeletionsOwned
  <2> QED
    BY <1>5, <1>same, <2>2, OnlyScreensChange DEF DeleteWord
<1>6. ASSUME NEW v \in Views, Writing(v) PROVE FreshInv'
  <2>1. ScreensPlaced'
    BY <1>6 DEF Writing, Form, Screen, FreshInv, ScreensPlaced, AlertsPlaced, DeletionsOwned
  <2> QED
    BY <1>6, <1>same, <2>1, OnlyScreensChange DEF Writing
<1>7. ASSUME NEW v \in Views, NEW w \in Words, SelectRow(v, w) PROVE FreshInv'
  <2>1. \A d \in deletions : d.view # v
    BY <1>7, BoardAssumption DEF SelectRow, Fresh, Alive
  <2>2. ScreensPlaced' /\ top' # Board
    BY <1>7, <2>1 DEF SelectRow, OnTop, NoSheet, Detail, Board, Screen, ScreensPlaced,
       AlertsPlaced, DeletionsOwned, Tops
  <2> QED
    BY <1>7, <1>same, <2>2, OnlyScreensChange DEF SelectRow
<1>8. ASSUME NEW w \in Words, SaveBoard(w) PROVE FreshInv'
  BY <1>8, <1>same, QuietStep DEF SaveBoard
<1>9. ASSUME NEW n \in DeleteIds, ConfirmDelete(n) PROVE FreshInv'
  <2>1. /\ UNCHANGED <<top, list, refused, reinstated>>
        /\ sheet' = NoSheet
        /\ Store!Watching
        /\ deletions' = deletions \cup {Deletion(n, sheet.view, sheet.word, FALSE)}
    BY <1>9 DEF ConfirmDelete
  <2>2. view' = view \ {sheet.word}
    <3>1. sheet.word \in Words
      BY <1>9 DEF ConfirmDelete, Presented, Known, ScreensKnown, Answered
    <3> QED
      BY <1>9, <3>1, ViewAfterDelete DEF ConfirmDelete
  <2>3. \/ top = Detail(sheet.view, sheet.word)
        \/ top = Board /\ Disposed(sheet.word)
    BY <1>9 DEF ConfirmDelete, Presented, FreshInv, ScreensPlaced, AlertsPlaced
  <2>4. LastAnswerCurrent'
    <3>1. CASE top # Board
      BY <2>1, <3>1 DEF LastAnswerCurrent
    <3>2. CASE top = Board
      <4>1. Disposed(sheet.word)
        BY <2>3, <3>2 DEF Board, Detail, Screen
      <4>2. \A s : Shows(s, view, reinstated) => Shows(s, view', reinstated')
        BY <2>1, <2>2, <4>1 DEF Shows, Disposed
      <4> QED
        BY <2>1, <4>2, WatchedStaysCurrent DEF Known, FreshInv
    <3> QED
      BY <3>1, <3>2
  <2>5. DeletionsDisposed'
    BY <2>1, <2>2 DEF FreshInv, DeletionsDisposed, Disposed, Deletion
  <2>6. ScreensPlaced'
    BY <2>1, <2>3 DEF FreshInv, ScreensPlaced, AlertsPlaced, DeletionsOwned, NoSheet, Board,
       Detail, Screen, Deletion
  <2> QED
    BY <2>4, <2>5, <2>6 DEF FreshInv
<1> QED
  BY <1>1, <1>2, <1>3, <1>4, <1>5, <1>6, <1>7, <1>8, <1>9 DEF UserStep

\* The callbacks of an image request: the last one writes, and fetches.
LEMMA RequestStepFresh ==
    ASSUME Known, FreshInv, NEW w \in Words, RequestStep(w)
    PROVE  FreshInv'
<1> USE DEF uiVars, storeVars, historyVars
<1>same. UNCHANGED <<server, muts>> => UNCHANGED view
  BY ViewSame
<1>1. CASE PhotoFound(w) \/ NoPhoto(w) \/ RequestDropped(w) \/ UploadProgress(w)
  BY <1>1, <1>same, QuietStep DEF PhotoFound, NoPhoto, RequestDropped, UploadProgress
<1>2. CASE WordAdded(w)
  <2>1. /\ UNCHANGED <<top, deletions, reinstated>> /\ sheet' = NoSheet
        /\ Store!GetDocuments
        /\ view' \subseteq view \cup {w}
    BY <1>2, ViewAfterSetData DEF WordAdded
  <2>2. LastAnswerCurrent'
    BY <2>1, FetchIsCurrent DEF Known
  <2>3. \A d \in deletions : d.word # w
    BY <1>2 DEF WordAdded, Pipeline!UrlReady, Pipeline!Move, Known, DeletionsKnown, Answered
  <2>4. DeletionsDisposed'
    BY <2>1, <2>3 DEF FreshInv, DeletionsDisposed, Disposed
  <2>5. ScreensPlaced'
    BY <2>1 DEF FreshInv, ScreensPlaced, AlertsPlaced, DeletionsOwned, NoSheet, Screen
  <2> QED
    BY <2>2, <2>4, <2>5 DEF FreshInv
<1> QED
  BY <1>1, <1>2 DEF RequestStep

\* A Storage deletion and its callback, which may pop the detail screen from
\* under a second alert for the same word.
LEMMA DeletionStepFresh ==
    ASSUME Known, FreshInv, NEW d \in deletions, DeletionStep(d)
    PROVE  FreshInv'
<1> USE DEF storeVars, historyVars
<1>same. UNCHANGED <<server, muts>> => UNCHANGED view
  BY ViewSame
<1>1. CASE ObjectRemoved(d)
  <2>1. \A e \in deletions' : \E c \in deletions : e.view = c.view /\ e.word = c.word
    BY <1>1 DEF ObjectRemoved, Deletion
  <2> QED
    BY <1>1, <1>same, <2>1, OnlyDeletionsChange DEF ObjectRemoved
<1>2. CASE DeleteFailed(d)
  BY <1>2, <1>same, OnlyDeletionsChange DEF DeleteFailed
<1>3. CASE DeleteSucceeded(d) /\ UNCHANGED <<top, storeVars>>
  BY <1>3, <1>same, OnlyDeletionsChange DEF DeleteSucceeded
<1>4. CASE DeleteSucceeded(d) /\ top.view = d.view /\ ReturnToBoard
  <2>1. /\ top' = Board /\ UNCHANGED <<sheet, reinstated>> /\ deletions' \subseteq deletions
        /\ Store!GetDocuments /\ UNCHANGED view
    BY <1>4, <1>same DEF DeleteSucceeded, ReturnToBoard, FetchBoard, Store!NoWrite
  <2>2. sheet.screen = "alert" => Disposed(sheet.word)
    <3>1. CASE top = Detail(sheet.view, sheet.word)
      <4>1. sheet.word = d.word
        BY <1>4, <3>1 DEF FreshInv, ScreensPlaced, DeletionsOwned, Detail, Screen
      <4> QED
        BY <4>1 DEF FreshInv, DeletionsDisposed
    <3> QED
      BY <3>1 DEF FreshInv, ScreensPlaced, AlertsPlaced
  <2>3. ScreensPlaced'
    BY <2>1, <2>2 DEF ScreensPlaced, AlertsPlaced, DeletionsOwned, Disposed, Tops, Board, Screen
  <2> QED
    BY <2>1, <2>3, ScreensChangeAndFetch
<1> QED
  BY <1>1, <1>2, <1>3, <1>4 DEF DeletionStep, DeleteSucceeded

\* Writes are saved and acknowledged, which the local view does not show.
LEMMA StoreStepFresh == Known /\ FreshInv /\ StoreStep => FreshInv'
<1> SUFFICES ASSUME Known, FreshInv, NEW m \in Store!Writes,
                    Store!Persist(m) \/ Store!Acknowledge(m),
                    UNCHANGED <<uiVars, historyVars>>
             PROVE  FreshInv'
  BY DEF StoreStep
<1> USE DEF uiVars, historyVars
<1>1. CASE Store!Persist(m)
  BY <1>1, ViewSame, QuietStep DEF Store!Persist
<1>2. CASE Store!Acknowledge(m)
  <2>1. UNCHANGED view
    BY <1>2, ViewAfterAcknowledge DEF Known
  <2>2. LastAnswerCurrent'
    BY <1>2, <2>1, WatchedStaysCurrent DEF Store!Acknowledge, Known, FreshInv
  <2> QED
    BY <2>1, <2>2 DEF FreshInv, DeletionsDisposed, Disposed, ScreensPlaced, AlertsPlaced,
       DeletionsOwned
<1> QED
  BY <1>1, <1>2

\* A rejected deletion reinstates its word.
LEMMA WriteRejectedFresh ==
    ASSUME Known, FreshInv, NEW m \in Store!Writes, WriteRejected(m)
    PROVE  FreshInv'
<1> USE DEF uiVars
<1>1. UNCHANGED <<top, sheet, deletions>> /\ refused'
  BY DEF WriteRejected, Store!Reject
<1>2. reinstated \subseteq reinstated' /\ view' \subseteq view \cup reinstated'
  <2>1. PICK w \in Words :
           \/ m = <<"put", w>> /\ view' \subseteq view
           \/ m = <<"del", w>> /\ view' \subseteq view \cup {w}
    BY ViewAfterReject DEF WriteRejected, Known
  <2>2. reinstated' = reinstated \cup (IF m[1] = "del" THEN {m[2]} ELSE {})
    BY DEF WriteRejected
  <2> QED
    BY <2>1, <2>2
<1>3. \A w : Disposed(w) => Disposed(w)'
  BY <1>2 DEF Disposed
<1> QED
  BY <1>1, <1>3 DEF FreshInv, LastAnswerCurrent, DeletionsDisposed, ScreensPlaced,
     AlertsPlaced, DeletionsOwned

\* The answer to the last fetch makes the list current; an older one, or one
\* that is denied, leaves that to the fetches still to come.
LEMMA FetchEndsFresh ==
    ASSUME Known, FreshInv, LoadFailed \/ \E s : BoardsLoaded(s)
    PROVE  FreshInv'
<1> USE DEF uiVars
<1>1. /\ UNCHANGED <<top, sheet, deletions, server, muts, reinstated>>
      /\ reads # <<>> /\ reads' = Tail(reads)
  BY DEF LoadFailed, Store!Deny, BoardsLoaded, Store!Answer, historyVars
<1>2. UNCHANGED view
  BY <1>1, ViewSame
<1>3. LastAnswerCurrent'
  <2>1. CASE Len(reads) # 1
    <3>1. refused => refused'
      BY DEF LoadFailed, Store!Deny, BoardsLoaded, Store!Answer
    <3> QED
      BY <1>1, <1>2, <2>1, <3>1, OlderFetchEnds DEF Known, FreshInv
  <2>2. CASE Len(reads) = 1 /\ LoadFailed
    BY <2>2 DEF LoadFailed, Store!Deny, LastAnswerCurrent
  <2>3. CASE Len(reads) = 1 /\ \E s : BoardsLoaded(s)
    <3>1. PICK s : BoardsLoaded(s)
      BY <2>3
    <3>2. s \in reads[Len(reads)] /\ list' = s /\ UNCHANGED refused
      BY <2>3, <3>1 DEF BoardsLoaded, Store!Answer, Known, ReadsKnown
    <3>3. reads' = <<>>
      <4>1. reads' \in Seq(SUBSET SUBSET Answered) /\ Len(reads') = 0
        BY <1>1, <2>3, HeadTailProperties DEF Known, ReadsKnown
      <4> QED
        BY <4>1, EmptySeq
    <3> QED
      BY <1>1, <1>2, <3>2, <3>3 DEF FreshInv, LastAnswerCurrent, Current
  <2> QED
    BY <2>1, <2>2, <2>3
<1> QED
  BY <1>1, <1>2, <1>3 DEF FreshInv, DeletionsDisposed, Disposed, ScreensPlaced,
     AlertsPlaced, DeletionsOwned

\* A new process has fetched what it recovered.
LEMMA RestartFresh == Restart => FreshInv'
<1> SUFFICES ASSUME Restart PROVE FreshInv'
  OBVIOUS
<1>1. /\ top' = Board /\ sheet' = NoSheet /\ deletions' = {}
      /\ reads' = <<{view'}, {view'}>>
  BY DEF Restart
<1>2. reads' # <<>> /\ reads'[Len(reads')] = {view'}
  BY <1>1
<1>3. Shows(view', view', reinstated')
  BY DEF Shows
<1>4. LastAnswerCurrent'
  BY <1>2, <1>3 DEF LastAnswerCurrent, Current
<1> QED
  BY <1>1, <1>4 DEF FreshInv, DeletionsDisposed, ScreensPlaced, AlertsPlaced,
     DeletionsOwned, NoSheet, Board, Screen, Tops

\* The last answer is current, and screens are where they belong.
LEMMA AlwaysFresh == Spec => []FreshInv
<1>1. Init => FreshInv
  <2> SUFFICES ASSUME Init PROVE FreshInv
    OBVIOUS
  <2>1. reads = <<{{}}, {{}}>> /\ view = {}
    BY DEF Init, view, Store!view
  <2>2. reads # <<>> /\ reads[Len(reads)] = {{}}
    BY <2>1
  <2>3. LastAnswerCurrent
    BY <2>1, <2>2 DEF LastAnswerCurrent, Current, Shows
  <2> QED
    BY <2>3 DEF Init, FreshInv, DeletionsDisposed, ScreensPlaced, AlertsPlaced,
       DeletionsOwned, NoSheet, Board, Screen, Tops
<1>2. Known /\ FreshInv /\ [Next]_vars => FreshInv'
  <2> SUFFICES ASSUME Known, FreshInv, [Next]_vars PROVE FreshInv'
    OBVIOUS
  <2>1. CASE UNCHANGED vars \/ LoaderStep
    BY <2>1, ViewSame, QuietStep DEF vars, LoaderStep, uiVars, storeVars, historyVars
  <2> QED
    BY <2>1, UserStepFresh, RequestStepFresh, DeletionStepFresh, StoreStepFresh,
       WriteRejectedFresh, FetchEndsFresh, RestartFresh DEF Next
<1> QED
  BY <1>1, <1>2, AlwaysKnown, PTL DEF Spec

\* When the board is on top and every fetch has been answered, the list shows
\* the local view, rows of once rejected deletions aside, unless the server
\* has refused a request since the last fetch.
THEOREM BoardIsFresh == Spec => []FreshWhenIdle
<1>1. FreshInv => FreshWhenIdle
  BY DEF FreshInv, LastAnswerCurrent, Current, Shows, FreshWhenIdle
<1> QED
  BY <1>1, AlwaysFresh, PTL

-----------------------------------------------------------------------------
(* Types of what is on the screen.                                         *)

Deletions == [id : DeleteIds, view : Views, word : Words, removed : BOOLEAN]

ScreensOK == sheet \in Sheets /\ deletions \subseteq Deletions

\* What the screens say of themselves.
LEMMA ScreenFacts ==
    /\ \A s \in Sheets : /\ s.screen \in {"form", "notice"} => s.view \in Views
                         /\ s.screen = "alert" => s.view \in Views /\ s.word \in Words
    /\ \A t \in Tops : t.screen = "detail" => t.view \in Views /\ t.word \in Words
    /\ NoSheet \in Sheets
    /\ \A v \in Views : Form(v) \in Sheets /\ Notice(v) \in Sheets
    /\ \A v \in Views, w \in Words : Alert(v, w) \in Sheets /\ CommentSheet(v, w) \in Sheets
<1>1. \A s \in Sheets : s.screen \in {"form", "notice"} => s.view \in Views
  BY DEF Sheets, NoSheet, Form, Notice, Alert, CommentSheet, Screen
<1>2. \A s \in Sheets : s.screen = "alert" => s.view \in Views /\ s.word \in Words
  BY DEF Sheets, NoSheet, Form, Notice, Alert, CommentSheet, Screen
<1>3. \A t \in Tops : t.screen = "detail" => t.view \in Views /\ t.word \in Words
  BY DEF Tops, Board, TestPage, Detail, Screen
<1>4. NoSheet \in Sheets
  BY DEF Sheets
<1>5. \A v \in Views : Form(v) \in Sheets /\ Notice(v) \in Sheets
  BY DEF Sheets
<1>6. \A v \in Views, w \in Words : Alert(v, w) \in Sheets /\ CommentSheet(v, w) \in Sheets
  <2> SUFFICES ASSUME NEW v \in Views, NEW w \in Words
               PROVE  Alert(v, w) \in Sheets /\ CommentSheet(v, w) \in Sheets
    BY Zenon
  <2>1. Alert(v, w) \in {Alert(u, x) : u \in Views, x \in Words}
    OBVIOUS
  <2>2. CommentSheet(v, w) \in {CommentSheet(u, x) : u \in Views, x \in Words}
    OBVIOUS
  <2> QED
    BY <2>1, <2>2 DEF Sheets
<1> QED
  BY <1>1, <1>2, <1>3, <1>4, <1>5, <1>6, Zenon

\* A deletion has its fields.
LEMMA DeletionFields ==
    ASSUME NEW n \in DeleteIds, NEW v \in Views, NEW w \in Words, NEW r \in BOOLEAN
    PROVE  Deletion(n, v, w, r) \in Deletions
  BY Zenon DEF Deletion, Deletions

\* Every step presents a sheet there is, of a screen there is.
LEMMA ScreensStep == top \in Tops /\ ScreensOK /\ [Next]_vars => ScreensOK'
<1> SUFFICES ASSUME top \in Tops, ScreensOK, [Next]_vars PROVE ScreensOK'
  OBVIOUS
<1> USE DEF uiVars
<1>1. sheet \in Sheets /\ deletions \subseteq Deletions
  BY DEF ScreensOK
<1>2. ASSUME sheet' \in Sheets, deletions' \subseteq deletions PROVE ScreensOK'
  BY <1>1, <1>2 DEF ScreensOK
<1>3. CASE UserStep
  <2>1. CASE UpdateData \/ TestStart \/ Back \/ \E w \in Words : SaveBoard(w)
    BY <1>1, <1>2, <2>1 DEF UpdateData, TestStart, Back, SaveBoard
  <2>2. CASE CancelForm \/ CloseComment \/ CancelDelete
    BY <1>1, <1>2, <2>2, ScreenFacts DEF CancelForm, CloseComment, CancelDelete
  <2>3. CASE SaveEmpty \/ CloseNotice
    <3>1. sheet.view \in Views
      BY <1>1, <2>3, ScreenFacts DEF SaveEmpty, CloseNotice, Presented
    <3> QED
      BY <1>2, <2>3, <3>1, ScreenFacts DEF SaveEmpty, CloseNotice
  <2>4. CASE AddComment \/ DeleteWord
    <3>1. top.view \in Views /\ top.word \in Words
      BY <2>4, ScreenFacts DEF AddComment, DeleteWord, OnTop
    <3> QED
      BY <1>2, <2>4, <3>1, ScreenFacts DEF AddComment, DeleteWord
  <2>5. ASSUME NEW v \in Views, Writing(v) PROVE ScreensOK'
    BY <1>2, <2>5, ScreenFacts DEF Writing
  <2>6. ASSUME NEW v \in Views, NEW w \in Words, SelectRow(v, w) PROVE ScreensOK'
    BY <1>1, <1>2, <2>6 DEF SelectRow
  <2>7. ASSUME NEW n \in DeleteIds, ConfirmDelete(n) PROVE ScreensOK'
    <3>1. sheet.view \in Views /\ sheet.word \in Words
      BY <1>1, <2>7, ScreenFacts DEF ConfirmDelete, Presented
    <3>2. Deletion(n, sheet.view, sheet.word, FALSE) \in Deletions
      BY <3>1, DeletionFields
    <3>3. sheet' = NoSheet /\ deletions' = deletions \cup {Deletion(n, sheet.view, sheet.word, FALSE)}
      BY <2>7 DEF ConfirmDelete
    <3> QED
      BY <1>1, <3>2, <3>3, ScreenFacts DEF ScreensOK
  <2> QED
    BY <1>3, <2>1, <2>2, <2>3, <2>4, <2>5, <2>6, <2>7 DEF UserStep
<1>4. ASSUME NEW w \in Words, RequestStep(w) PROVE ScreensOK'
  <2>1. sheet' \in {sheet, NoSheet} /\ deletions' = deletions
    BY <1>4 DEF RequestStep, PhotoFound, NoPhoto, RequestDropped, UploadProgress, WordAdded
  <2> QED
    BY <1>1, <1>2, <2>1, ScreenFacts
<1>5. ASSUME NEW d \in deletions, DeletionStep(d) PROVE ScreensOK'
  <2>1. CASE ObjectRemoved(d)
    <3>1. d.id \in DeleteIds /\ d.view \in Views /\ d.word \in Words
      BY <1>1 DEF Deletions
    <3>2. Deletion(d.id, d.view, d.word, TRUE) \in Deletions
      BY <3>1, DeletionFields
    <3>3. sheet' = sheet /\ deletions' = (deletions \ {d}) \cup {Deletion(d.id, d.view, d.word, TRUE)}
      BY <2>1 DEF ObjectRemoved
    <3> QED
      BY <1>1, <3>2, <3>3 DEF ScreensOK
  <2>2. CASE DeleteSucceeded(d) \/ DeleteFailed(d)
    BY <1>1, <1>2, <2>2 DEF DeleteSucceeded, DeleteFailed
  <2> QED
    BY <1>5, <2>1, <2>2 DEF DeletionStep
<1>6. CASE Restart
  BY <1>2, <1>6, ScreenFacts DEF Restart
<1>7. CASE LoadFailed \/ StoreStep \/ LoaderStep \/ UNCHANGED vars
  BY <1>1, <1>2, <1>7 DEF LoadFailed, StoreStep, LoaderStep, vars
<1>8. ASSUME NEW s, BoardsLoaded(s) PROVE ScreensOK'
  BY <1>1, <1>2, <1>8 DEF BoardsLoaded
<1>9. ASSUME NEW m, WriteRejected(m) PROVE ScreensOK'
  BY <1>1, <1>2, <1>9 DEF WriteRejected
<1> QED
  BY <1>3, <1>4, <1>5, <1>6, <1>7, <1>8, <1>9 DEF Next

-----------------------------------------------------------------------------
(* The HUD under the board's handlers.                                     *)

\* Every step makes at most one call of the shared HUD, with a view there is,
\* or is a step of the HUD's own.
LEMMA HudSteps ==
    ASSUME ScreensOK, [Next]_vars
    PROVE  \/ UNCHANGED hudVars
           \/ \E v \in Views : HUD!ShowLoader(v)
           \/ HUD!HideLoader \/ HUD!BackgroundHide
           \/ HUD!AnimationFinished \/ HUD!BackgroundStep \/ HUD!HudRelaunched
<1> DEFINE Call == \/ UNCHANGED hudVars
                   \/ \E v \in Views : HUD!ShowLoader(v)
                   \/ HUD!HideLoader \/ HUD!BackgroundHide
                   \/ HUD!AnimationFinished \/ HUD!BackgroundStep \/ HUD!HudRelaunched
<1> SUFFICES Call
  OBVIOUS
<1>1. CASE UserStep
  <2>1. ASSUME NEW w \in Words, SaveBoard(w) PROVE Call
    <3>1. sheet.view \in Views /\ HUD!ShowLoader(sheet.view)
      BY <2>1, ScreenFacts DEF SaveBoard, Presented, ScreensOK
    <3> QED
      BY <3>1
  <2>2. ASSUME NEW n \in DeleteIds, ConfirmDelete(n) PROVE Call
    <3>1. sheet.view \in Views /\ HUD!ShowLoader(sheet.view)
      BY <2>2, ScreenFacts DEF ConfirmDelete, Presented, ScreensOK
    <3> QED
      BY <3>1
  <2>3. CASE UpdateData \/ TestStart \/ Back \/ CancelForm \/ SaveEmpty \/ CloseNotice
             \/ DeleteWord \/ CancelDelete \/ AddComment \/ CloseComment
    BY <2>3, Zenon DEF UpdateData, TestStart, Back, CancelForm, SaveEmpty, CloseNotice,
       DeleteWord, CancelDelete, AddComment, CloseComment
  <2>4. ASSUME NEW v \in Views, Writing(v) \/ \E w \in Words : SelectRow(v, w) PROVE Call
    BY <2>4, Zenon DEF Writing, SelectRow
  <2> QED
    BY <1>1, <2>1, <2>2, <2>3, <2>4, Zenon DEF UserStep
<1>2. ASSUME NEW w \in Words, RequestStep(w) PROVE Call
  BY <1>2, Zenon DEF RequestStep, PhotoFound, NoPhoto, RequestDropped, UploadProgress, WordAdded
<1>3. ASSUME NEW d \in deletions, DeletionStep(d) PROVE Call
  BY <1>3, Zenon DEF DeletionStep, ObjectRemoved, DeleteSucceeded, DeleteFailed
<1>4. CASE Restart
  BY <1>4, Zenon DEF Restart
<1>5. CASE LoadFailed \/ StoreStep \/ LoaderStep \/ UNCHANGED vars
  BY <1>5, Zenon DEF LoadFailed, StoreStep, LoaderStep, vars
<1>6. ASSUME NEW s, BoardsLoaded(s) PROVE Call
  BY <1>6, Zenon DEF BoardsLoaded
<1>7. ASSUME NEW m, WriteRejected(m) PROVE Call
  BY <1>7, Zenon DEF WriteRejected
<1> HIDE DEF Call
<1> QED
  BY <1>1, <1>2, <1>3, <1>4, <1>5, <1>6, <1>7, Zenon DEF Next

\* A count that has grown is not zero.
LEMMA OneMore == \A n \in Nat : n + 1 > 0
  OBVIOUS

\* The HUD's flags stay Boolean.
LEMMA HudFlagsStep == ScreensOK /\ HUD!FlagsOK /\ [Next]_vars => HUD!FlagsOK'
<1> SUFFICES ASSUME ScreensOK, HUD!FlagsOK, [Next]_vars PROVE HUD!FlagsOK'
  OBVIOUS
<1> USE DEF HUD!FlagsOK, HUD!hudVars, hudVars
<1>1. CASE UNCHANGED hudVars
  BY <1>1, Zenon
<1>2. ASSUME NEW v \in Views, HUD!ShowLoader(v) PROVE HUD!FlagsOK'
  BY <1>2, Zenon DEF HUD!ShowLoader
<1>3. CASE HUD!HideLoader
  BY <1>3, Zenon DEF HUD!HideLoader
<1>4. CASE HUD!BackgroundHide \/ HUD!BackgroundStep
  BY <1>4, Zenon DEF HUD!BackgroundHide, HUD!BackgroundStep, HUD!BackgroundPostpones, HUD!BackgroundDismisses
<1>5. CASE HUD!AnimationFinished
  BY <1>5, Zenon DEF HUD!AnimationFinished, HUD!Presented, HUD!Dismissed, HUD!Removed
<1>6. CASE HUD!HudRelaunched
  BY <1>6, Zenon DEF HUD!HudRelaunched
<1> QED
  BY <1>1, <1>2, <1>3, <1>4, <1>5, <1>6, HudSteps, Zenon

\* So do its target, its count of fades and the background call's position.
LEMMA HudCountersStep == ScreensOK /\ HUD!CountersOK /\ [Next]_vars => HUD!CountersOK'
<1> SUFFICES ASSUME ScreensOK, HUD!CountersOK, [Next]_vars PROVE HUD!CountersOK'
  OBVIOUS
<1> USE DEF HUD!CountersOK, HUD!BackgroundSteps, HUD!hudVars, hudVars
<1>1. CASE UNCHANGED hudVars
  BY <1>1
<1>2. ASSUME NEW v \in Views, HUD!ShowLoader(v) PROVE HUD!CountersOK'
  BY <1>2 DEF HUD!ShowLoader
<1>3. CASE HUD!HideLoader
  BY <1>3 DEF HUD!HideLoader
<1>4. CASE HUD!BackgroundHide \/ HUD!BackgroundStep
  BY <1>4 DEF HUD!BackgroundHide, HUD!BackgroundStep, HUD!BackgroundPostpones, HUD!BackgroundDismisses
<1>5. CASE HUD!AnimationFinished
  BY <1>5 DEF HUD!AnimationFinished, HUD!Presented, HUD!Dismissed, HUD!Removed
<1>6. CASE HUD!HudRelaunched
  BY <1>6 DEF HUD!HudRelaunched
<1> QED
  BY <1>1, <1>2, <1>3, <1>4, <1>5, <1>6, HudSteps, Zenon

\* While a fade is said to run, its completion is to come.
LEMMA UnwedgedStep ==
    ScreensOK /\ anims \in Nat /\ HUD!NotWedged /\ [Next]_vars => HUD!NotWedged'
<1> SUFFICES ASSUME ScreensOK, anims \in Nat, HUD!NotWedged, [Next]_vars PROVE HUD!NotWedged'
  OBVIOUS
<1> USE DEF HUD!NotWedged, HUD!hudVars, hudVars
<1>1. CASE UNCHANGED hudVars
  BY <1>1, Zenon
<1>2. ASSUME NEW v \in Views, HUD!ShowLoader(v) PROVE HUD!NotWedged'
  BY <1>2, OneMore, Zenon DEF HUD!ShowLoader
<1>3. CASE HUD!HideLoader
  BY <1>3, OneMore, Zenon DEF HUD!HideLoader
<1>4. CASE HUD!BackgroundHide \/ HUD!BackgroundStep
  BY <1>4, OneMore, Zenon
     DEF HUD!BackgroundHide, HUD!BackgroundStep, HUD!BackgroundPostpones, HUD!BackgroundDismisses
<1>5. CASE HUD!AnimationFinished
  BY <1>5, Zenon DEF HUD!AnimationFinished, HUD!Presented, HUD!Dismissed, HUD!Removed
<1>6. CASE HUD!HudRelaunched
  BY <1>6, Zenon DEF HUD!HudRelaunched
<1> QED
  BY <1>1, <1>2, <1>3, <1>4, <1>5, <1>6, HudSteps, Zenon

-----------------------------------------------------------------------------
(* The loader goes when the work has ended.                                *)

Busy == deletions # {} \/ \E w \in Words : stage[w] \in Pipeline!InFlight

\* The HUD covers nothing, or a fade's completion is to come that takes it away.
Leaving == HUD!Target = NoView \/ (anims > 0 /\ (dismissAfter \/ ~presenting))

\* The last showLoader(false) on the main thread has the last word.
LoaderReleased == ~Busy /\ ~lapsed => Leaving

\* A view the HUD has lost does not come to life again.
LEMMA Outlived == [Next]_vars /\ target \in Alive' => target \in Alive
<1> SUFFICES ASSUME [Next]_vars, target \in Alive' PROVE target \in Alive
  OBVIOUS
<1> USE DEF Alive, uiVars
<1>1. ASSUME UNCHANGED <<top, sheet>>, \A e \in deletions' : \E d \in deletions : e.view = d.view
      PROVE  target \in Alive
  BY <1>1
<1>2. CASE UserStep
  <2>1. CASE UpdateData \/ \E w \in Words : SaveBoard(w)
    BY <1>1, <2>1 DEF UpdateData, SaveBoard
  <2>2. CASE TestStart \/ Back
    BY <2>2 DEF TestStart, Back, ReturnToBoard, TestPage, Board, Screen
  <2>3. CASE CancelForm \/ CloseComment \/ CancelDelete \/ SaveEmpty \/ CloseNotice
    BY <2>3 DEF CancelForm, CloseComment, CancelDelete, SaveEmpty, CloseNotice, NoSheet, Form,
       Notice, Screen
  <2>4. CASE AddComment \/ DeleteWord
    BY <2>4 DEF AddComment, DeleteWord, CommentSheet, Alert, Screen
  <2>5. ASSUME NEW v \in Views, Writing(v) PROVE target \in Alive
    BY <2>5 DEF Writing, Fresh, Form, Screen
  <2>6. ASSUME NEW v \in Views, NEW w \in Words, SelectRow(v, w) PROVE target \in Alive
    BY <2>6 DEF SelectRow, Fresh, Detail, Screen
  <2>7. ASSUME NEW n \in DeleteIds, ConfirmDelete(n) PROVE target \in Alive
    BY <2>7 DEF ConfirmDelete, Deletion, NoSheet, Screen
  <2> QED
    BY <1>2, <2>1, <2>2, <2>3, <2>4, <2>5, <2>6, <2>7 DEF UserStep
<1>3. ASSUME NEW w \in Words, RequestStep(w) PROVE target \in Alive
  <2>1. sheet' \in {sheet, NoSheet} /\ UNCHANGED <<top, deletions>>
    BY <1>3 DEF RequestStep, PhotoFound, NoPhoto, RequestDropped, UploadProgress, WordAdded
  <2> QED
    BY <2>1 DEF NoSheet, Screen
<1>4. ASSUME NEW d \in deletions, DeletionStep(d) PROVE target \in Alive
  <2>1. CASE ObjectRemoved(d)
    <3>1. Deletion(d.id, d.view, d.word, TRUE).view = d.view
      BY DEF Deletion
    <3> QED
      BY <1>1, <2>1, <3>1 DEF ObjectRemoved
  <2>2. CASE DeleteSucceeded(d) \/ DeleteFailed(d)
    <3>1. /\ top' \in {top, Board} /\ sheet' = sheet /\ deletions' = deletions \ {d}
      BY <2>2 DEF DeleteSucceeded, DeleteFailed, ReturnToBoard
    <3> QED
      BY <3>1 DEF Board, Screen
  <2> QED
    BY <1>4, <2>1, <2>2 DEF DeletionStep
<1>5. CASE Restart
  BY <1>5 DEF Restart, Board, NoSheet, Screen
<1>6. CASE LoadFailed \/ StoreStep \/ LoaderStep \/ UNCHANGED vars
  BY <1>1, <1>6 DEF LoadFailed, StoreStep, LoaderStep, vars
<1>7. ASSUME NEW s, BoardsLoaded(s) PROVE target \in Alive
  BY <1>1, <1>7 DEF BoardsLoaded
<1>8. ASSUME NEW m, WriteRejected(m) PROVE target \in Alive
  BY <1>1, <1>8 DEF WriteRejected
<1> QED
  BY <1>2, <1>3, <1>4, <1>5, <1>6, <1>7, <1>8 DEF Next

\* A view that the HUD covers nothing of stays so unless the HUD is shown.
LEMMA LostStaysLost ==
    ASSUME [Next]_vars, target' \in {target, NoView}, HUD!Target = NoView
    PROVE  HUD!Target' = NoView
  BY Outlived, BoardAssumption DEF HUD!Target

\* showLoader(false) on the main thread.
LEMMA HideReleases ==
    ASSUME [Next]_vars, anims \in Nat, HUD!NotWedged, HUD!HideLoader
    PROVE  Leaving'
<1>1. CASE transitioning
  BY <1>1, Zenon DEF HUD!HideLoader, HUD!NotWedged, Leaving
<1>2. CASE ~transitioning /\ HUD!Target = NoView
  <2>1. target' = target
    BY <1>2, Zenon DEF HUD!HideLoader, HUD!hudVars
  <2> QED
    BY <1>2, <2>1, LostStaysLost DEF Leaving
<1>3. CASE ~transitioning /\ HUD!Target # NoView
  BY <1>3, OneMore, Zenon DEF HUD!HideLoader, HUD!hudVars, Leaving
<1> QED
  BY <1>1, <1>2, <1>3, Zenon

\* The HUD's own steps.
LEMMA FadesRelease ==
    ASSUME [Next]_vars, anims \in Nat, Leaving, HUD!AnimationFinished \/ HUD!BackgroundStep
    PROVE  Leaving'
<1>1. CASE HUD!Target = NoView
  <2>1. target' = target \/ target' = NoView
    BY Zenon DEF HUD!AnimationFinished, HUD!Presented, HUD!Dismissed, HUD!Removed,
       HUD!BackgroundStep, HUD!BackgroundPostpones, HUD!BackgroundDismisses
  <2> QED
    BY <1>1, <2>1, LostStaysLost DEF Leaving
<1>2. CASE HUD!Target # NoView /\ anims > 0 /\ (dismissAfter \/ ~presenting)
  <2>1. ASSUME target' = NoView PROVE Leaving'
    BY <2>1 DEF Leaving, HUD!Target
  <2>2. CASE HUD!AnimationFinished
    BY <1>2, <2>1, <2>2, Zenon DEF HUD!AnimationFinished, HUD!Presented, HUD!Dismissed, HUD!Removed, Leaving
  <2>3. CASE HUD!BackgroundStep
    BY <1>2, <2>3, OneMore, Zenon
       DEF HUD!BackgroundStep, HUD!BackgroundPostpones, HUD!BackgroundDismisses, Leaving
  <2> QED
    BY <2>2, <2>3
<1> QED
  BY <1>1, <1>2, Zenon DEF Leaving

\* A request that has moved is in flight if its new stage is.
LEMMA MovedIsBusy ==
    ASSUME StageOK, NEW r \in Words, NEW s, NEW t \in Pipeline!InFlight, NEW q, Pipeline!Move(r, s, t, q)
    PROVE  Busy'
<1>1. stage'[r] = t
  BY DEF StageOK, Pipeline!Move
<1> QED
  BY <1>1 DEF Busy

\* The HUD stays as it is, and no work ends.
LEMMA QuietReleases ==
    ASSUME [Next]_vars, LoaderReleased, UNCHANGED hudVars, UNCHANGED <<stage, deletions, lapsed>>
    PROVE  LoaderReleased'
<1>1. ASSUME Leaving PROVE Leaving'
  <2>1. CASE HUD!Target = NoView
    BY <2>1, LostStaysLost DEF Leaving, hudVars
  <2>2. CASE anims > 0 /\ (dismissAfter \/ ~presenting)
    BY <2>2, Zenon DEF Leaving, hudVars
  <2> QED
    BY <1>1, <2>1, <2>2, Zenon DEF Leaving
<1>2. Busy' <=> Busy
  BY DEF Busy
<1> QED
  BY <1>1, <1>2, Zenon DEF LoaderReleased

\* Every piece of work that has shown the HUD hides it on the main thread when
\* it ends, or is noted as lapsed.
LEMMA ReleasedStep ==
    ASSUME StageOK, anims \in Nat, HUD!NotWedged, LoaderReleased, [Next]_vars
    PROVE  LoaderReleased'
<1>1. ASSUME Busy' \/ lapsed' = TRUE \/ Leaving' PROVE LoaderReleased'
  BY <1>1, Zenon DEF LoaderReleased
<1>2. ASSUME UNCHANGED hudVars, UNCHANGED <<stage, deletions, lapsed>> PROVE LoaderReleased'
  BY <1>2, QuietReleases
<1>3. CASE UserStep
  <2>1. ASSUME NEW w \in Words, SaveBoard(w) PROVE LoaderReleased'
    <3>1. CASE Pipeline!ImagesFetch(w)
      <4>1. "searching" \in Pipeline!InFlight
        BY DEF Pipeline!InFlight
      <4> QED
        BY <1>1, <3>1, <4>1, MovedIsBusy, Zenon DEF Pipeline!ImagesFetch
    <3>2. CASE lapsed' = TRUE
      BY <1>1, <3>2
    <3> QED
      BY <2>1, <3>1, <3>2, Zenon DEF SaveBoard
  <2>2. ASSUME NEW n \in DeleteIds, ConfirmDelete(n) PROVE LoaderReleased'
    <3>1. deletions' # {}
      BY <2>2 DEF ConfirmDelete
    <3> QED
      BY <1>1, <3>1 DEF Busy
  <2>3. CASE UpdateData \/ TestStart \/ Back \/ CancelForm \/ SaveEmpty \/ CloseNotice
             \/ DeleteWord \/ CancelDelete \/ AddComment \/ CloseComment
    BY <1>2, <2>3, Zenon DEF UpdateData, TestStart, Back, CancelForm, SaveEmpty, CloseNotice,
       DeleteWord, CancelDelete, AddComment, CloseComment, uiVars, pipelineVars, historyVars
  <2>4. ASSUME NEW v \in Views, Writing(v) \/ \E w \in Words : SelectRow(v, w) PROVE LoaderReleased'
    BY <1>2, <2>4, Zenon DEF Writing, SelectRow, uiVars, pipelineVars, historyVars
  <2> QED
    BY <1>3, <2>1, <2>2, <2>3, <2>4, Zenon DEF UserStep
<1>4. ASSUME NEW w \in Words, RequestStep(w) PROVE LoaderReleased'
  <2>1. "uploading" \in Pipeline!InFlight /\ "linking" \in Pipeline!InFlight
    BY DEF Pipeline!InFlight
  <2>2. CASE PhotoFound(w)
    BY <1>1, <2>1, <2>2, MovedIsBusy, Zenon DEF PhotoFound, Pipeline!PhotoFound
  <2>3. CASE NoPhoto(w) \/ RequestDropped(w)
    BY <1>1, <2>3, Zenon DEF NoPhoto, RequestDropped
  <2>4. CASE UploadProgress(w)
    <3>1. CASE Pipeline!StoreObject(w)
      <4>1. stage'[w] \in Pipeline!InFlight
        BY <2>1, <3>1 DEF Pipeline!StoreObject
      <4> QED
        BY <1>1, <4>1, Zenon DEF Busy
    <3>2. CASE Pipeline!PutDone(w)
      BY <1>1, <2>1, <3>2, MovedIsBusy, Zenon DEF Pipeline!PutDone
    <3> QED
      BY <2>4, <3>1, <3>2 DEF UploadProgress
  <2>5. CASE WordAdded(w)
    BY <1>1, <2>5, HideReleases, Zenon DEF WordAdded
  <2> QED
    BY <1>4, <2>2, <2>3, <2>4, <2>5 DEF RequestStep
<1>5. ASSUME NEW d \in deletions, DeletionStep(d) PROVE LoaderReleased'
  <2>1. CASE ObjectRemoved(d)
    <3>1. deletions' # {}
      BY <2>1 DEF ObjectRemoved
    <3> QED
      BY <1>1, <3>1 DEF Busy
  <2>2. CASE DeleteSucceeded(d)
    BY <1>1, <2>2, HideReleases, Zenon DEF DeleteSucceeded
  <2>3. CASE DeleteFailed(d)
    BY <1>1, <2>3, Zenon DEF DeleteFailed
  <2> QED
    BY <1>5, <2>1, <2>2, <2>3 DEF DeletionStep
<1>6. CASE Restart
  <2>1. target' = NoView
    BY <1>6, Zenon DEF Restart, HUD!HudRelaunched
  <2> QED
    BY <1>1, <2>1 DEF Leaving, HUD!Target
<1>7. CASE LoaderStep
  <2>1. Busy' <=> Busy
    BY <1>7 DEF LoaderStep, Busy, uiVars, pipelineVars
  <2>2. (HUD!AnimationFinished \/ HUD!BackgroundStep) /\ lapsed' = lapsed
    BY <1>7, Zenon DEF LoaderStep, historyVars
  <2>3. Leaving => Leaving'
    BY <2>2, FadesRelease, Zenon
  <2> QED
    BY <2>1, <2>2, <2>3, Zenon DEF LoaderReleased
<1>8. CASE LoadFailed \/ StoreStep \/ UNCHANGED vars
  BY <1>2, <1>8, Zenon DEF LoadFailed, StoreStep, vars, uiVars, pipelineVars, historyVars
<1>9. ASSUME NEW s, BoardsLoaded(s) PROVE LoaderReleased'
  BY <1>2, <1>9, Zenon DEF BoardsLoaded, pipelineVars, historyVars
<1>10. ASSUME NEW m, WriteRejected(m) PROVE LoaderReleased'
  BY <1>2, <1>10, Zenon DEF WriteRejected, uiVars, pipelineVars
<1> QED
  BY <1>3, <1>4, <1>5, <1>6, <1>7, <1>8, <1>9, <1>10, Zenon DEF Next

\* What the HUD and the screens are, together.
LoaderInv ==
    /\ ScreensOK /\ HUD!FlagsOK /\ HUD!CountersOK
    /\ HUD!NotWedged /\ LoaderReleased

\* The invariants of the screens and of the HUD.
LEMMA AlwaysLoader == Spec => []LoaderInv
<1>1. Init => LoaderInv
  <2> SUFFICES ASSUME Init PROVE LoaderInv
    OBVIOUS
  <2>1. ScreensOK
    BY ScreenFacts DEF Init, ScreensOK
  <2>2. HUD!FlagsOK /\ HUD!NotWedged
    BY Zenon DEF Init, HUD!HudInit, HUD!FlagsOK, HUD!NotWedged
  <2>3. HUD!CountersOK /\ HUD!Target = NoView
    BY DEF Init, HUD!HudInit, HUD!CountersOK, HUD!BackgroundSteps, HUD!Target
  <2> QED
    BY <2>1, <2>2, <2>3, Zenon DEF LoaderInv, LoaderReleased, Leaving
<1>2. Known /\ FreshInv /\ LoaderInv /\ [Next]_vars => LoaderInv'
  <2> SUFFICES ASSUME Known, FreshInv, LoaderInv, [Next]_vars PROVE LoaderInv'
    OBVIOUS
  <2>1. top \in Tops /\ StageOK
    BY DEF FreshInv, ScreensPlaced, Known
  <2>2. ScreensOK /\ HUD!FlagsOK /\ HUD!CountersOK /\ HUD!NotWedged /\ LoaderReleased
    BY Zenon DEF LoaderInv
  <2>3. anims \in Nat
    BY <2>2 DEF HUD!CountersOK
  <2>4. ScreensOK' /\ HUD!FlagsOK' /\ HUD!CountersOK'
    BY <2>1, <2>2, ScreensStep, HudFlagsStep, HudCountersStep, Zenon
  <2>5. HUD!NotWedged' /\ LoaderReleased'
    BY <2>1, <2>2, <2>3, UnwedgedStep, ReleasedStep, Zenon
  <2> QED
    BY <2>4, <2>5, Zenon DEF LoaderInv
<1> QED
  BY <1>1, <1>2, AlwaysKnown, AlwaysFresh, PTL DEF Spec

\* Whatever saves, deletions, screens and failures overlap, and although one
\* call of showLoader(false) is made off the main thread, the shared HUD is gone
\* when all work has ended, unless a request ended without showLoader(false)
\* on the main thread after the last such call.
THEOREM LoaderComesToRest == Spec => []LoaderQuiesces
<1>1. LoaderInv => LoaderQuiesces
  <2> SUFFICES ASSUME LoaderInv, NothingInFlight, ~lapsed PROVE HUD!Target = NoView
    BY Zenon DEF LoaderQuiesces
  <2>1. ~Busy
    BY Zenon DEF NothingInFlight, Busy
  <2>2. ~(anims > 0)
    BY DEF NothingInFlight
  <2> QED
    BY <2>1, <2>2, Zenon DEF LoaderInv, LoaderReleased, Leaving
<1> QED
  BY <1>1, AlwaysLoader, PTL

-----------------------------------------------------------------------------
(* Types of the rest.                                                      *)

RequestsOK == queue \in [Words -> Pipeline!Queues] /\ files \subseteq Words

WritesOK == muts \subseteq Store!Writes /\ reinstated \subseteq Words

MarksOK == refused \in BOOLEAN /\ lapsed \in BOOLEAN

\* Requests move on the main queue or on the session's, and only words have
\* pictures.
LEMMA RequestsStep == RequestsOK /\ [Next]_vars => RequestsOK'
<1> SUFFICES ASSUME RequestsOK, [Next]_vars PROVE RequestsOK'
  OBVIOUS
<1> USE DEF RequestsOK, pipelineVars
<1>1. ASSUME NEW r \in Words, NEW s, NEW t, NEW q \in Pipeline!Queues, Pipeline!Move(r, s, t, q),
             UNCHANGED files
      PROVE  RequestsOK'
  BY <1>1 DEF Pipeline!Move
<1>2. ASSUME UNCHANGED <<queue, files>> PROVE RequestsOK'
  BY <1>2
<1>3. "main" \in Pipeline!Queues /\ "session" \in Pipeline!Queues
  BY DEF Pipeline!Queues
<1> HIDE DEF RequestsOK
<1>4. CASE UserStep
  <2>1. ASSUME NEW w \in Words, SaveBoard(w) PROVE RequestsOK'
    BY <1>1, <1>3, <2>1, Zenon DEF SaveBoard, Pipeline!ImagesFetch, Pipeline!BadUrl
  <2>2. CASE UpdateData \/ TestStart \/ Back \/ CancelForm \/ SaveEmpty \/ CloseNotice
             \/ DeleteWord \/ CancelDelete \/ AddComment \/ CloseComment
    BY <1>2, <2>2 DEF UpdateData, TestStart, Back, CancelForm, SaveEmpty, CloseNotice,
       DeleteWord, CancelDelete, AddComment, CloseComment
  <2>3. ASSUME NEW v \in Views, Writing(v) \/ \E w \in Words : SelectRow(v, w) PROVE RequestsOK'
    BY <1>2, <2>3 DEF Writing, SelectRow
  <2>4. ASSUME NEW n \in DeleteIds, ConfirmDelete(n) PROVE RequestsOK'
    BY <1>2, <2>4 DEF ConfirmDelete
  <2> QED
    BY <1>4, <2>1, <2>2, <2>3, <2>4 DEF UserStep
<1>5. ASSUME NEW w \in Words, RequestStep(w) PROVE RequestsOK'
  <2>1. CASE PhotoFound(w) \/ NoPhoto(w)
    BY <1>1, <1>3, <2>1, Zenon DEF PhotoFound, NoPhoto, Pipeline!PhotoFound, Pipeline!NoPhoto
  <2>2. CASE RequestDropped(w)
    BY <1>1, <1>3, <2>2, Zenon
       DEF RequestDropped, Pipeline!SearchDropped, Pipeline!PutFailed, Pipeline!UrlFailed
  <2>3. CASE Pipeline!StoreObject(w)
    BY <2>3 DEF Pipeline!StoreObject, RequestsOK
  <2>4. CASE Pipeline!PutDone(w) \/ WordAdded(w)
    BY <1>1, <1>3, <2>4, Zenon DEF Pipeline!PutDone, WordAdded, Pipeline!UrlReady
  <2> QED
    BY <1>5, <2>1, <2>2, <2>3, <2>4, Zenon DEF RequestStep, UploadProgress
<1>6. ASSUME NEW d \in deletions, DeletionStep(d) PROVE RequestsOK'
  <2>1. files' \subseteq files /\ queue' = queue
    BY <1>6 DEF DeletionStep, ObjectRemoved, DeleteSucceeded, DeleteFailed
  <2> QED
    BY <2>1 DEF RequestsOK
<1>7. CASE Restart
  BY <1>2, <1>7 DEF Restart, Pipeline!Killed
<1>8. CASE LoadFailed \/ StoreStep \/ LoaderStep \/ UNCHANGED vars
  BY <1>2, <1>8 DEF LoadFailed, StoreStep, LoaderStep, vars
<1>9. ASSUME NEW s, BoardsLoaded(s) PROVE RequestsOK'
  BY <1>2, <1>9 DEF BoardsLoaded
<1>10. ASSUME NEW m, WriteRejected(m) PROVE RequestsOK'
  BY <1>2, <1>10 DEF WriteRejected
<1> QED
  BY <1>4, <1>5, <1>6, <1>7, <1>8, <1>9, <1>10 DEF Next

\* Only words are written, and only a word's deletion is rejected.
LEMMA WritesStep == Known /\ ScreensOK /\ WritesOK /\ [Next]_vars => WritesOK'
<1> SUFFICES ASSUME Known, ScreensOK, WritesOK, [Next]_vars PROVE WritesOK'
  OBVIOUS
<1> USE DEF storeVars, historyVars
<1>1. ASSUME muts' \subseteq muts, reinstated' = reinstated PROVE WritesOK'
  BY <1>1 DEF WritesOK
<1>2. ASSUME NEW w \in Words, muts' = muts \cup {<<"put", w>>} \/ muts' = muts \cup {<<"del", w>>},
             reinstated' = reinstated
      PROVE  WritesOK'
  <2>1. <<"put", w>> \in Store!Writes /\ <<"del", w>> \in Store!Writes
    BY DEF Store!Writes, Store!Puts, Store!Dels
  <2> QED
    BY <1>2, <2>1 DEF WritesOK
<1>3. CASE UserStep
  <2>1. ASSUME NEW n \in DeleteIds, ConfirmDelete(n) PROVE WritesOK'
    <3>1. sheet.word \in Words
      BY <2>1, ScreenFacts DEF ConfirmDelete, Presented, ScreensOK
    <3> QED
      BY <1>2, <2>1, <3>1 DEF ConfirmDelete, Store!Delete, Store!Write
  <2>2. CASE UpdateData \/ TestStart \/ Back \/ CancelForm \/ SaveEmpty \/ CloseNotice
             \/ DeleteWord \/ CancelDelete \/ AddComment \/ CloseComment
    BY <1>1, <2>2 DEF UpdateData, TestStart, Back, CancelForm, SaveEmpty, CloseNotice,
       DeleteWord, CancelDelete, AddComment, CloseComment, ReturnToBoard, FetchBoard, Store!NoWrite
  <2>3. ASSUME NEW v \in Views, Writing(v) \/ \E w \in Words : SelectRow(v, w) PROVE WritesOK'
    BY <1>1, <2>3 DEF Writing, SelectRow
  <2>4. ASSUME NEW w \in Words, SaveBoard(w) PROVE WritesOK'
    BY <1>1, <2>4 DEF SaveBoard
  <2> QED
    BY <1>3, <2>1, <2>2, <2>3, <2>4 DEF UserStep
<1>4. ASSUME NEW w \in Words, RequestStep(w) PROVE WritesOK'
  <2>1. CASE WordAdded(w)
    BY <1>2, <2>1 DEF WordAdded, Store!SetData, Store!Write
  <2>2. CASE PhotoFound(w) \/ NoPhoto(w) \/ RequestDropped(w) \/ UploadProgress(w)
    BY <1>1, <2>2 DEF PhotoFound, NoPhoto, RequestDropped, UploadProgress
  <2> QED
    BY <1>4, <2>1, <2>2 DEF RequestStep
<1>5. ASSUME NEW d \in deletions, DeletionStep(d) PROVE WritesOK'
  BY <1>1, <1>5 DEF DeletionStep, ObjectRemoved, DeleteSucceeded, DeleteFailed, ReturnToBoard,
     FetchBoard, Store!NoWrite
<1>6. CASE Restart
  <2>1. muts' \subseteq muts /\ reinstated' = reinstated
    BY <1>6 DEF Restart, Store!Recover, Known, StoreKnown
  <2> QED
    BY <1>1, <2>1
<1>7. CASE LoadFailed \/ LoaderStep \/ UNCHANGED vars
  BY <1>1, <1>7 DEF LoadFailed, Store!Deny, LoaderStep, vars
<1>8. CASE StoreStep
  BY <1>1, <1>8 DEF StoreStep, Store!Persist, Store!Acknowledge, Store!Remove
<1>9. ASSUME NEW s, BoardsLoaded(s) PROVE WritesOK'
  BY <1>1, <1>9 DEF BoardsLoaded, Store!Answer
<1>10. ASSUME NEW m \in Store!Writes, WriteRejected(m) PROVE WritesOK'
  <2>1. m[2] \in Words
    BY DEF Store!Writes, Store!Puts, Store!Dels
  <2> QED
    BY <1>10, <2>1 DEF WriteRejected, Store!Reject, Store!Remove, WritesOK
<1> QED
  BY <1>3, <1>4, <1>5, <1>6, <1>7, <1>8, <1>9, <1>10 DEF Next

\* The history's marks are Boolean.
LEMMA MarksStep == MarksOK /\ [Next]_vars => MarksOK'
<1> SUFFICES ASSUME MarksOK, [Next]_vars PROVE MarksOK'
  OBVIOUS
<1> USE DEF storeVars, historyVars
<1>1. ASSUME refused' = refused \/ refused' \in BOOLEAN, lapsed' = lapsed \/ lapsed' \in BOOLEAN
      PROVE  MarksOK'
  BY <1>1, Zenon DEF MarksOK
<1>2. CASE UserStep
  <2>1. CASE UpdateData \/ TestStart \/ Back
    BY <1>1, <2>1, Zenon DEF UpdateData, TestStart, Back, ReturnToBoard, FetchBoard, Store!GetDocuments
  <2>2. CASE CancelForm \/ SaveEmpty \/ CloseNotice \/ DeleteWord \/ CancelDelete \/ AddComment \/ CloseComment
    BY <1>1, <2>2, Zenon DEF CancelForm, SaveEmpty, CloseNotice, DeleteWord, CancelDelete, AddComment, CloseComment
  <2>3. ASSUME NEW v \in Views, Writing(v) \/ \E w \in Words : SelectRow(v, w) PROVE MarksOK'
    BY <1>1, <2>3, Zenon DEF Writing, SelectRow
  <2>4. ASSUME NEW w \in Words, SaveBoard(w) PROVE MarksOK'
    BY <1>1, <2>4, Zenon DEF SaveBoard
  <2>5. ASSUME NEW n \in DeleteIds, ConfirmDelete(n) PROVE MarksOK'
    BY <1>1, <2>5, Zenon DEF ConfirmDelete
  <2> QED
    BY <1>2, <2>1, <2>2, <2>3, <2>4, <2>5, Zenon DEF UserStep
<1>3. ASSUME NEW w \in Words, RequestStep(w) PROVE MarksOK'
  BY <1>1, <1>3, Zenon DEF RequestStep, PhotoFound, NoPhoto, RequestDropped, UploadProgress,
     WordAdded, Store!GetDocuments
<1>4. ASSUME NEW d \in deletions, DeletionStep(d) PROVE MarksOK'
  BY <1>1, <1>4, Zenon DEF DeletionStep, ObjectRemoved, DeleteSucceeded, DeleteFailed, ReturnToBoard,
     FetchBoard, Store!GetDocuments
<1>5. CASE Restart
  BY <1>1, <1>5, Zenon DEF Restart
<1>6. CASE LoadFailed \/ LoaderStep \/ UNCHANGED vars
  <2>1. refused' = refused \/ refused' = (refused \/ Len(reads) = 1)
    BY <1>6, Zenon DEF LoadFailed, Store!Deny, LoaderStep, vars
  <2>2. lapsed' = lapsed
    BY <1>6, Zenon DEF LoadFailed, LoaderStep, vars
  <2> QED
    BY <1>1, <2>1, <2>2, Zenon
<1>7. CASE StoreStep
  BY <1>1, <1>7, Zenon DEF StoreStep, Store!Persist, Store!Acknowledge
<1>8. ASSUME NEW s, BoardsLoaded(s) PROVE MarksOK'
  BY <1>1, <1>8, Zenon DEF BoardsLoaded, Store!Answer
<1>9. ASSUME NEW m, WriteRejected(m) PROVE MarksOK'
  BY <1>1, <1>9, Zenon DEF WriteRejected, Store!Reject
<1> QED
  BY <1>2, <1>3, <1>4, <1>5, <1>6, <1>7, <1>8, <1>9, Zenon DEF Next

\* The board's state is well formed, that of the pipeline, the store and the
\* HUD included, for any number of words, screens, fetches and failures: no
\* handler presents a screen, or names a word, that there is not.
THEOREM BoardTypeCorrect == Spec => []TypeOK
<1> DEFINE Rest == RequestsOK /\ WritesOK /\ MarksOK
<1>1. Init => Rest
  <2> SUFFICES ASSUME Init PROVE Rest
    OBVIOUS
  <2>1. RequestsOK
    BY DEF Init, Pipeline!Init, RequestsOK, Pipeline!Queues
  <2>2. WritesOK
    BY DEF Init, WritesOK
  <2>3. MarksOK
    BY Zenon DEF Init, MarksOK
  <2> QED
    BY <2>1, <2>2, <2>3
<1>2. Known /\ LoaderInv /\ Rest /\ [Next]_vars => Rest'
  BY RequestsStep, WritesStep, MarksStep, Zenon DEF LoaderInv
<1>3. Known /\ FreshInv /\ LoaderInv /\ Rest /\ faults \in Nat => TypeOK
  <2> SUFFICES ASSUME Known, FreshInv, LoaderInv, Rest, faults \in Nat PROVE TypeOK
    OBVIOUS
  <2>1. top \in Tops
    BY DEF FreshInv, ScreensPlaced
  <2>2. sheet \in Sheets
        /\ deletions \subseteq [id : DeleteIds, view : Views, word : Words, removed : BOOLEAN]
    BY Zenon DEF LoaderInv, ScreensOK, Deletions
  <2>3. Answered \subseteq Words
    BY DEF Answered
  <2>4. list \subseteq Words /\ confirmed \subseteq Words /\ server \subseteq Words
    BY <2>3 DEF Known, ScreensKnown, DeletionsKnown, StoreKnown
  <2>5. Pipeline!TypeOK
    BY DEF Known, StageOK, RequestsOK, Pipeline!TypeOK
  <2>6. reads \in Seq(SUBSET SUBSET Words)
    BY <2>3, SeqOfMore DEF Known, ReadsKnown
  <2>7. muts \subseteq Store!Writes /\ saved \subseteq muts /\ reinstated \subseteq Words
    BY DEF Known, StoreKnown, WritesOK
  <2>8. Store!TypeOK
    BY <2>4, <2>6, <2>7, Zenon DEF Store!TypeOK, MarksOK
  <2>9. HUD!HudTypeOK
    BY Zenon DEF LoaderInv, HUD!HudTypeOK
  <2> QED
    BY <2>1, <2>2, <2>4, <2>5, <2>7, <2>8, <2>9, Zenon DEF TypeOK, MarksOK
<1> HIDE DEF Rest
<1> QED
  BY <1>1, <1>2, <1>3, AlwaysKnown, AlwaysFresh, AlwaysLoader, AlwaysCounted, PTL DEF Spec

-----------------------------------------------------------------------------
(* What the board guarantees to the parts it is composed of.               *)

\* While the HUD turns showLoader away, the completion of a fade is to come:
\* what LoaderHUD shows for callers in any order holds for the board's handlers,
\* the dismissal of addContent off the main thread included.
THEOREM BoardNeverWedgesLoader == Spec => []HUD!NotWedged
<1>1. LoaderInv => HUD!NotWedged
  BY Zenon DEF LoaderInv
<1> QED
  BY <1>1, AlwaysLoader, PTL

\* Only words of confirmed deletions are deleted.
DeletesConfirmed == \A w \in Words : <<"del", w>> \in muts => w \in confirmed

\* A deletion is written when it is confirmed.
LEMMA DeletesConfirmedStep ==
    Known /\ DeletesConfirmed /\ [Next]_vars => DeletesConfirmed'
<1> SUFFICES ASSUME Known, DeletesConfirmed, [Next]_vars PROVE DeletesConfirmed'
  OBVIOUS
<1> USE DEF storeVars, historyVars
<1>1. ASSUME muts' \subseteq muts, confirmed \subseteq confirmed' PROVE DeletesConfirmed'
  BY <1>1 DEF DeletesConfirmed
<1>2. CASE UserStep
  <2>1. ASSUME NEW n \in DeleteIds, ConfirmDelete(n) PROVE DeletesConfirmed'
    <3>1. muts' = muts \cup {<<"del", sheet.word>>} /\ confirmed' = confirmed \cup {sheet.word}
      BY <2>1 DEF ConfirmDelete, Store!Delete, Store!Write
    <3> QED
      BY <3>1 DEF DeletesConfirmed
  <2>2. CASE UpdateData \/ TestStart \/ Back \/ CancelForm \/ SaveEmpty \/ CloseNotice
             \/ DeleteWord \/ CancelDelete \/ AddComment \/ CloseComment
    BY <1>1, <2>2 DEF UpdateData, TestStart, Back, CancelForm, SaveEmpty, CloseNotice,
       DeleteWord, CancelDelete, AddComment, CloseComment, ReturnToBoard, FetchBoard, Store!NoWrite
  <2>3. ASSUME NEW v \in Views, Writing(v) \/ \E w \in Words : SelectRow(v, w)
        PROVE  DeletesConfirmed'
    BY <1>1, <2>3 DEF Writing, SelectRow
  <2>4. ASSUME NEW w \in Words, SaveBoard(w) PROVE DeletesConfirmed'
    BY <1>1, <2>4 DEF SaveBoard
  <2> QED
    BY <1>2, <2>1, <2>2, <2>3, <2>4 DEF UserStep
<1>3. ASSUME NEW w \in Words, RequestStep(w) PROVE DeletesConfirmed'
  <2>1. CASE WordAdded(w)
    <3>1. muts' = muts \cup {<<"put", w>>} /\ confirmed' = confirmed
      BY <2>1 DEF WordAdded, Store!SetData, Store!Write
    <3> QED
      BY <3>1 DEF DeletesConfirmed
  <2>2. CASE PhotoFound(w) \/ NoPhoto(w) \/ RequestDropped(w) \/ UploadProgress(w)
    BY <1>1, <2>2 DEF PhotoFound, NoPhoto, RequestDropped, UploadProgress
  <2> QED
    BY <1>3, <2>1, <2>2 DEF RequestStep
<1>4. ASSUME NEW d \in deletions, DeletionStep(d) PROVE DeletesConfirmed'
  BY <1>1, <1>4 DEF DeletionStep, ObjectRemoved, DeleteSucceeded, DeleteFailed, ReturnToBoard,
     FetchBoard, Store!NoWrite
<1>5. CASE Restart
  BY <1>1, <1>5 DEF Restart, Store!Recover, Known, StoreKnown
<1>6. CASE LoadFailed \/ LoaderStep \/ UNCHANGED vars
  BY <1>1, <1>6 DEF LoadFailed, Store!Deny, LoaderStep, vars
<1>7. CASE StoreStep
  BY <1>1, <1>7 DEF StoreStep, Store!Persist, Store!Acknowledge, Store!Remove
<1>8. ASSUME NEW s, BoardsLoaded(s) PROVE DeletesConfirmed'
  BY <1>1, <1>8 DEF BoardsLoaded, Store!Answer
<1>9. ASSUME NEW m, WriteRejected(m) PROVE DeletesConfirmed'
  BY <1>1, <1>9 DEF WriteRejected, Store!Reject, Store!Remove
<1> QED
  BY <1>2, <1>3, <1>4, <1>5, <1>6, <1>7, <1>8, <1>9 DEF Next

\* addContent puts a word that the store has not, nor is about to write or to
\* delete: the condition under which ClientPuts of DocumentStore, and with it
\* every promise of the Firestore client's modules, is stated.
PutsAreNew ==
    [][\A w \in Words : WordAdded(w) =>
          w \notin server /\ <<"put", w>> \notin muts /\ <<"del", w>> \notin muts]_vars

\* A word's document is put once, before anything else is written to it, however
\* saves, deletions, rejections and restarts overlap.
THEOREM WordsArePutOnce == Spec => PutsAreNew
<1>1. Init => DeletesConfirmed
  BY DEF Init, DeletesConfirmed
<1>2. Known /\ DeletesConfirmed /\ [Next]_vars =>
        [\A w \in Words : WordAdded(w) =>
            w \notin server /\ <<"put", w>> \notin muts /\ <<"del", w>> \notin muts]_vars
  <2> SUFFICES ASSUME Known, DeletesConfirmed, NEW w \in Words, WordAdded(w)
               PROVE  w \notin server /\ <<"put", w>> \notin muts /\ <<"del", w>> \notin muts
    OBVIOUS
  <2>1. stage[w] = "linking"
    BY DEF WordAdded, Pipeline!UrlReady, Pipeline!Move
  <2>2. w \notin Answered
    BY <2>1 DEF Answered
  <2> QED
    BY <2>2 DEF Known, StoreKnown, DeletionsKnown, DeletesConfirmed
<1> QED
  BY <1>1, <1>2, AlwaysKnown, DeletesConfirmedStep, PTL DEF Spec, PutsAreNew
=============================================================================
