------------------------- MODULE ImagePipeline_proofs -------------------------
(***************************************************************************)
(* Proofs about the image requests, for any number of them at once.        *)
(***************************************************************************)
EXTENDS ImagePipeline, TLAPS

StagesOK == stage \in [Requests -> Stages]

IInv == StagesOK /\ AnswerHasFile

\* A request that moves on leaves the others where they are.
LEMMA MoveOne ==
    ASSUME StagesOK, NEW r \in Requests, NEW s, NEW t \in Stages, NEW q, Move(r, s, t, q)
    PROVE  /\ StagesOK'
           /\ stage[r] = s /\ stage'[r] = t
           /\ \A p \in Requests : p # r => stage'[p] = stage[p]
  BY DEF StagesOK, Move

\* Every callback of a request keeps its stage and its picture together.
LEMMA RequestStep ==
    ASSUME IInv, NEW r \in Requests,
           ImagesFetch(r) \/ BadUrl(r) \/ StoreObject(r) \/ Callback(r)
    PROVE  IInv'
<1> USE DEF Stages, InFlight, Ended
<1>1. CASE StoreObject(r)
  BY <1>1 DEF StoreObject, IInv, StagesOK, AnswerHasFile
<1>2. ASSUME NEW s, NEW t \in Stages, NEW q, Move(r, s, t, q), UNCHANGED files,
             r \in files => t \in {"linking", "answered", "dropped"},
             t \in {"linking", "answered"} => r \in files
      PROVE  IInv'
  <2>1. /\ StagesOK' /\ stage'[r] = t
        /\ \A p \in Requests : p # r => stage'[p] = stage[p]
    BY <1>2, MoveOne DEF IInv
  <2> QED
    BY <1>2, <2>1 DEF IInv, AnswerHasFile
<1>3. stage[r] \in {"idle", "searching"} => r \notin files
  BY DEF IInv, AnswerHasFile
<1>4. CASE ImagesFetch(r) \/ BadUrl(r)
  BY <1>2, <1>3, <1>4 DEF ImagesFetch, BadUrl, Move
<1>5. CASE SearchDropped(r) \/ NoPhoto(r) \/ PhotoFound(r)
  BY <1>2, <1>3, <1>5 DEF SearchDropped, NoPhoto, PhotoFound, Move
<1>6. CASE PutDone(r) \/ PutFailed(r) \/ UrlReady(r) \/ UrlFailed(r)
  BY <1>2, <1>6 DEF PutDone, PutFailed, UrlReady, UrlFailed
<1> QED
  BY <1>1, <1>4, <1>5, <1>6 DEF Callback

\* However many requests run at once and whichever of their calls fail, a URL
\* is delivered for a stored picture only, and a picture is stored only for a
\* search that found one (imagesFetch, imageUpload).
THEOREM AnswersHaveFiles == Spec => []AnswerHasFile
<1>1. Init => IInv
  BY DEF Init, IInv, StagesOK, AnswerHasFile, Stages
<1>2. IInv /\ [Next]_pipelineVars => IInv'
  <2> SUFFICES ASSUME IInv, [Next]_pipelineVars PROVE IInv'
    OBVIOUS
  <2>1. CASE Next
    BY <2>1, RequestStep DEF Next
  <2>2. CASE UNCHANGED pipelineVars
    BY <2>2 DEF pipelineVars, IInv, StagesOK, AnswerHasFile
  <2> QED
    BY <2>1, <2>2
<1>3. IInv => AnswerHasFile
  BY DEF IInv
<1> QED
  BY <1>1, <1>2, <1>3, PTL DEF Spec
=============================================================================
