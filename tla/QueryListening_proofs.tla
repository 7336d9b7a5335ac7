------------------------ MODULE QueryListening_proofs ------------------------
(***************************************************************************)
(* Proofs about the listeners and the watch stream, for any documents and  *)
(* any number of calls, writes and failures.                               *)
(*                                                                         *)
(* First the stream and its listeners (`StreamInv'), who waits for what    *)
(* (`WaitsForSync') and late messages (`SyncInv'); then the way of a call  *)
(* (`CallsInv'), what its answer shows (`ViewsInv') and the refinement of  *)
(* DocumentStore; last the types.                                          *)
(***************************************************************************)
EXTENDS QueryListening, Ranks, FiniteSetTheorems, SequenceTheorems, TLAPS

-----------------------------------------------------------------------------
(* Some of the listeners, in their order.                                  *)

Increasing(s) == \A i \in 1..Len(s) : \A k \in 1..Len(s) : i < k => s[i] < s[k]

\* `Those' leaves out the others and nobody else, and keeps the order.
LEMMA ThoseFacts ==
    ASSUME NEW L, NEW ls \in Seq(L), NEW S
    PROVE  /\ Those(ls, S) \in Seq(L)
           /\ RangeOf(Those(ls, S)) = RangeOf(ls) \cap S
           /\ Increasing(ls) => Increasing(Those(ls, S))
<1> DEFINE at == {i \in DOMAIN ls : ls[i] \in S}
           n == Cardinality(at)
           s == Those(ls, S)
<1>1. Len(ls) \in Nat /\ DOMAIN ls = 1..Len(ls) /\ at \in SUBSET (1..Len(ls))
  OBVIOUS
<1>2. IsFiniteSet(at) /\ n \in Nat
  BY <1>1, RanksFinite
<1>3. s = [k \in 1..n |-> ls[Ranked(at, k)]]
  BY DEF Those, Ranked, Rank, UpTo
<1> HIDE DEF at, n, s
<1>4. \A k \in 1..n : Ranked(at, k) \in at /\ Rank(at, Ranked(at, k)) = k
  BY <1>1, RankedRank DEF n
<1>5. \A i \in at : i \in 1..Len(ls) /\ ls[i] \in L /\ ls[i] \in S /\ i \in Nat
  BY <1>1 DEF at
<1>6. s \in Seq(L) /\ Len(s) = n /\ DOMAIN s = 1..n /\ \A k \in 1..n : s[k] = ls[Ranked(at, k)]
  BY <1>2, <1>3, <1>4, <1>5
<1>7. ASSUME NEW i \in 1..Len(ls), ls[i] \in S PROVE \E k \in 1..n : s[k] = ls[i]
  <2>1. i \in at
    BY <1>1, <1>7 DEF at
  <2>2. Rank(at, i) \in 1..n
    BY <1>1, <2>1, RanksBounded DEF n
  <2>3. i = Ranked(at, Rank(at, i))
    BY <1>1, <2>1, <2>2, RankedRank DEF n
  <2> QED
    BY <1>6, <2>2, <2>3
<1>8. RangeOf(s) = RangeOf(ls) \cap S
  <2>1. \A x \in RangeOf(s) : x \in RangeOf(ls) \cap S
    BY <1>1, <1>4, <1>5, <1>6 DEF RangeOf
  <2>2. \A x \in RangeOf(ls) \cap S : x \in RangeOf(s)
    BY <1>1, <1>6, <1>7 DEF RangeOf
  <2> QED
    BY <2>1, <2>2
<1>9. ASSUME Increasing(ls), NEW i \in 1..n, NEW k \in 1..n, i < k PROVE s[i] < s[k]
  <2>1. i < Rank(at, Ranked(at, k)) /\ Ranked(at, k) \in at
    BY <1>4, <1>9
  <2>2. Ranked(at, i) < Ranked(at, k)
    BY <1>1, <2>1, RankedGrows DEF n
  <2>3. Ranked(at, i) \in 1..Len(ls) /\ Ranked(at, k) \in 1..Len(ls)
    BY <1>4, <1>5
  <2> QED
    BY <1>6, <1>9, <2>2, <2>3 DEF Increasing
<1> QED
  BY <1>6, <1>8, <1>9 DEF Increasing, s

\* Erasing a listener leaves the others, in their order.
LEMMA ErasedListeners ==
    ASSUME NEW L, NEW ls \in Seq(L), NEW r
    PROVE  /\ Erased(ls, r) \in Seq(L)
           /\ RangeOf(Erased(ls, r)) = RangeOf(ls) \ {r}
           /\ Increasing(ls) => Increasing(Erased(ls, r))
<1>1. RangeOf(ls) \cap (RangeOf(ls) \ {r}) = RangeOf(ls) \ {r}
  OBVIOUS
<1> QED
  BY <1>1, ThoseFacts DEF Erased

\* Where nobody listens nobody is erased.
LEMMA NothingToErase == ASSUME NEW r PROVE Erased(<<>>, r) = <<>>
<1> DEFINE s == Erased(<<>>, r)
<1>1. <<>> \in Seq({})
  BY EmptySeq, Zenon
<1>2. s \in Seq({})
  BY <1>1, ErasedListeners
<1> HIDE DEF s
<1>3. Len(s) = 0
  BY <1>2
<1>4. s = <<>>
  BY <1>2, <1>3, EmptySeq
<1> QED
  BY <1>4 DEF s

-----------------------------------------------------------------------------
(* The stream and its listeners.                                           *)

StreamInv ==
    /\ StreamWhileListened
    /\ idle => stream = "Open"
    /\ failed => IsStarted(stream) /\ online = "Offline"

-----------------------------------------------------------------------------

\* Snapshots leave the listeners as they are.
LEMMA NotifyListeners == ASSUME NEW ls, Notify(ls) PROVE listeners' = ls
  BY DEF Notify, Raise

\* Every handler that adds or removes a listener, ends a stream or starts one
\* keeps stream, timers and listeners together.
LEMMA StreamStep == StreamInv /\ [Next]_vars => StreamInv'
<1> SUFFICES ASSUME StreamInv, [Next]_vars PROVE StreamInv'
  OBVIOUS
<1> USE DEF StreamInv, StreamWhileListened, IsStarted, listening
<1>1. CASE UNCHANGED <<listeners, stream, idle, online, failed, timer>>
  BY <1>1
<1>2. CASE AddQueryListener
  <2>1. listeners' = Append(listeners, Head(tasks).read)
    BY <1>2 DEF AddQueryListener, Notify, Raise
  <2>2. CASE listening
    BY <1>2, <2>2 DEF AddQueryListener, streamVars, onlineVars
  <2>3. CASE ~listening /\ ~IsStarted(stream)
    <3>1. /\ stream' \in {"Starting", "Backoff"}
          /\ ~idle' /\ online' = "Unknown" /\ failed' = failed
      BY <1>2, <2>3 DEF AddQueryListener, EmptyWire, WatchStreamStart
    <3> QED
      BY <2>3, <3>1
  <2>4. CASE ~listening /\ stream = "Open"
    <3>1. Send([op |-> "watch", listen |-> listens']) /\ UNCHANGED onlineVars
      BY <1>2, <2>4 DEF AddQueryListener
    <3>2. ~idle'
      BY <3>1, Zenon DEF Send
    <3> QED
      BY <2>4, <3>1, <3>2 DEF Send, onlineVars
  <2>5. CASE ~listening /\ stream \in {"Starting", "Backoff"}
    BY <1>2, <2>5 DEF AddQueryListener, streamVars, onlineVars
  <2> QED
    BY <2>2, <2>3, <2>4, <2>5
<1>3. CASE RemoveQueryListener
  BY <1>3, NothingToErase DEF RemoveQueryListener, Send, UpdateState, streamVars, onlineVars
<1>4. CASE StreamBreaks
  BY <1>4 DEF StreamBreaks, EmptyWire, WatchStreamFailure, WatchStreamStart,
              UpdateState, Notify, Raise
<1>5. CASE IdleTimeout
  BY <1>5 DEF IdleTimeout, EmptyWire, UpdateState, viewVars
<1>6. CASE OnlineStateTimeout
  BY <1>6 DEF OnlineStateTimeout, Notify, Raise, streamVars
<1>7. CASE RestartNetwork
  <2>1. /\ listeners' = listeners
        /\ stream' = IF listening THEN "Starting" ELSE "Initial"
        /\ ~idle' /\ ~failed' /\ online' = "Unknown"
    BY <1>7 DEF RestartNetwork, EmptyWire, viewVars
  <2>2. timer' => listening
    BY <1>7, Zenon DEF RestartNetwork
  <2> QED
    BY <2>1, <2>2
<1>8. CASE OnWatchStreamOpen
  BY <1>8 DEF OnWatchStreamOpen, viewVars, onlineVars
<1>9. CASE BackoffElapsed
  BY <1>9 DEF BackoffElapsed, viewVars, onlineVars
<1>10. CASE TargetResponse \/ TargetCurrent \/ RaiseWatchSnapshot
  <2>1. \E kind : Message(kind)
    BY <1>10, Zenon DEF TargetResponse, TargetCurrent, RaiseWatchSnapshot
  <2>2. listeners' = listeners
    BY <1>10 DEF TargetResponse, TargetCurrent, RaiseWatchSnapshot, Notify, Raise
  <2>3. ~failed' /\ ~timer' /\ UNCHANGED <<stream, idle>>
    BY <2>1 DEF Message, UpdateState
  <2> QED
    BY <2>2, <2>3
<1>11. CASE TargetError
  BY <1>11 DEF TargetError, Message, UpdateState
<1>12. CASE WriteMutations
  BY <1>12 DEF WriteMutations, Notify, Raise, streamVars
<1>13. ASSUME NEW w \in Writes, HandleSuccessfulWrite(w) \/ HandleRejectedWrite(w)
       PROVE  StreamInv'
  <2>1. UNCHANGED <<stream, idle, online, failed, timer>> /\ Notify(listeners)
    BY <1>13 DEF HandleSuccessfulWrite, HandleRejectedWrite, streamVars
  <2> QED
    BY <1>1, <2>1, NotifyListeners
<1>14. CASE GetDocuments \/ Deliver \/ Server \/ ServerSnapshot \/ UNCHANGED vars
  BY <1>1, <1>14 DEF GetDocuments, Deliver, Server, ServerAnswers, ServerCurrent,
     ServerSnapshot, vars, viewVars, streamVars, onlineVars
<1>15. ASSUME NEW d \in Docs, SetData(d) \/ Delete(d) PROVE StreamInv'
  BY <1>1, <1>15 DEF SetData, Delete, PostWrite, viewVars, streamVars, onlineVars
<1> QED
  BY <1>2, <1>3, <1>4, <1>5, <1>6, <1>7, <1>8, <1>9, <1>10, <1>11, <1>12, <1>13,
     <1>14, <1>15 DEF Next, Worker, Connection

\* A stream that has a listener is neither stopped nor left to idle, and the
\* online timer runs while the client waits for a first message only: what
\* OnWatchStreamClose and OnlineStateTracker assert.
THEOREM StreamServesListeners == Spec => []StreamWhileListened
<1>1. Init => StreamInv
  BY DEF Init, StreamInv, StreamWhileListened, listening
<1>2. StreamInv => StreamWhileListened
  BY DEF StreamInv
<1> QED
  BY <1>1, <1>2, StreamStep, PTL DEF Spec
-----------------------------------------------------------------------------

\* No listener is left waiting by a step that raises snapshots.
LEMMA NotifyServes == ASSUME NEW ls, Notify(ls) PROVE WaitsForSync'
<1>1. listeners' = ls
  BY NotifyListeners
<1> SUFFICES ASSUME NEW r \in RangeOf(ls), r \notin raised'
             PROVE  current' = 0 /\ online' # "Offline"
  BY <1>1 DEF WaitsForSync, RangeOf
<1> DEFINE docs == Under(server', saved')
           atOnce == online' = "Offline"
           news == docs # local \/ (current' = 0) # (current = 0)
           Hears(q) == IF q \in raised THEN news ELSE current' # 0 \/ atOnce
<1>2. raised' = raised \cup {q \in RangeOf(ls) : Hears(q)}
  BY Zenon DEF Notify, Raise
<1>3. r \notin raised /\ ~Hears(r)
  BY <1>2, Zenon
<1> QED
  BY <1>3, Zenon

\* The listeners are a sequence.
Listed == \E S : listeners \in Seq(S)

\* Every step keeps the listeners a sequence, and leaves nobody waiting for
\* what has happened.
LEMMA WaitsStep ==
    Listed /\ WaitsForSync /\ [Next]_vars => Listed' /\ WaitsForSync'
<1> SUFFICES ASSUME Listed, WaitsForSync, [Next]_vars
             PROVE  Listed' /\ WaitsForSync'
  OBVIOUS
<1>1. CASE Notify(listeners)
  BY <1>1, NotifyListeners, NotifyServes DEF Listed
<1>2. CASE listeners' = <<>>
  <2>1. RangeOf(listeners') = {}
    BY <1>2 DEF RangeOf
  <2>2. listeners' \in Seq({})
    BY <1>2
  <2> QED
    BY <2>1, <2>2 DEF Listed, WaitsForSync
<1>3. CASE UNCHANGED <<listeners, raised, current>> /\ (online' = "Offline" => online = "Offline")
  BY <1>3 DEF Listed, WaitsForSync, RangeOf
<1>4. CASE AddQueryListener
  <2>1. Notify(Append(listeners, Head(tasks).read))
    BY <1>4 DEF AddQueryListener
  <2>2. PICK S : listeners \in Seq(S)
    BY DEF Listed
  <2>3. Append(listeners, Head(tasks).read) \in Seq(S \cup {Head(tasks).read})
    BY <2>2
  <2> QED
    BY <2>1, <2>3, NotifyListeners, NotifyServes DEF Listed
<1>5. CASE RemoveQueryListener
  <2>1. PICK S : listeners \in Seq(S)
    BY DEF Listed
  <2>2. /\ listeners' = Erased(listeners, Head(tasks).read)
        /\ UNCHANGED raised
        /\ listeners' = <<>> \/ UNCHANGED <<current, online>>
    BY <1>5 DEF RemoveQueryListener, onlineVars
  <2>3. listeners' \in Seq(S) /\ RangeOf(listeners') \subseteq RangeOf(listeners)
    BY <2>1, <2>2, ErasedListeners
  <2>4. CASE UNCHANGED <<current, online>>
    BY <2>2, <2>3, <2>4 DEF Listed, WaitsForSync, RangeOf
  <2> QED
    BY <1>2, <2>2, <2>4
<1>6. CASE WriteMutations \/ StreamBreaks \/ OnlineStateTimeout
             \/ RaiseWatchSnapshot
  BY <1>1, <1>6 DEF WriteMutations, StreamBreaks, OnlineStateTimeout,
     RaiseWatchSnapshot
<1>7. ASSUME NEW w \in Writes, HandleSuccessfulWrite(w) \/ HandleRejectedWrite(w)
      PROVE  Listed' /\ WaitsForSync'
  BY <1>1, <1>7 DEF HandleSuccessfulWrite, HandleRejectedWrite
<1>8. CASE TargetError
  BY <1>2, <1>8 DEF TargetError
<1>9. CASE TargetResponse \/ TargetCurrent
  <2>1. \E kind : Message(kind)
    BY <1>9, Zenon DEF TargetResponse, TargetCurrent
  <2> QED
    BY <1>3, <1>9, <2>1 DEF TargetResponse, TargetCurrent, Message, UpdateState
<1>10. CASE IdleTimeout \/ RestartNetwork
  BY <1>3, <1>10 DEF IdleTimeout, RestartNetwork, UpdateState, viewVars
<1>11. CASE GetDocuments \/ Deliver \/ Server \/ ServerSnapshot \/ BackoffElapsed \/ OnWatchStreamOpen
              \/ UNCHANGED vars
  BY <1>3, <1>11 DEF GetDocuments, Deliver, Server, ServerAnswers, ServerCurrent,
     ServerSnapshot, BackoffElapsed, OnWatchStreamOpen, vars, viewVars, onlineVars
<1>12. ASSUME NEW d \in Docs, SetData(d) \/ Delete(d)
       PROVE  Listed' /\ WaitsForSync'
  BY <1>3, <1>12 DEF SetData, Delete, PostWrite, viewVars, onlineVars
<1> QED
  BY <1>4, <1>5, <1>6, <1>7, <1>8, <1>9, <1>10, <1>11, <1>12 DEF Next, Worker, Connection

\* A listener without a snapshot waits for the server while the client may be
\* online, and for nothing else (AddQueryListener, OnViewSnapshot,
\* OnOnlineStateChanged).
THEOREM NobodyWaitsInVain == Spec => []WaitsForSync
<1>1. Init => Listed /\ WaitsForSync
  <2> SUFFICES ASSUME Init PROVE Listed /\ WaitsForSync
    OBVIOUS
  <2>1. listeners \in Seq({}) /\ RangeOf(listeners) = {}
    BY DEF Init, RangeOf
  <2> QED
    BY <2>1 DEF Listed, WaitsForSync
<1> QED
  BY <1>1, WaitsStep, PTL DEF Spec

-----------------------------------------------------------------------------
(* Late messages.  Responses and CURRENTs share the way back, and a        *)
(* response that is due tells a late CURRENT from that of the present      *)
(* listen.                                                                 *)

Requests == [op : {"watch", "unwatch"}, listen : Nat]
Messages == [kind : {"added", "removed", "current", "snapshot", "error"}, listen : Nat]

\* The places of the responses among messages msgs: the others answer no request.
Notices == {"current", "snapshot"}
Responses(msgs) == {i \in 1..Len(msgs) : msgs[i].kind \notin Notices}

\* Listen l is the present one.
Present(l) == l = listens /\ listening

\* The wire belongs to an open stream.
WireOK ==
    /\ toServer \in Seq(Requests) /\ toClient \in Seq(Messages)
    /\ listens \in Nat /\ serving \in Nat /\ pending \in Int
    /\ stream # "Open" => toServer = <<>> /\ toClient = <<>> /\ serving = 0 /\ marked = 0

\* outstanding_responses_ counts the requests and responses under way.
Counted ==
    /\ pending = Len(toServer) + Cardinality(Responses(toClient))
    /\ \A i \in 1..Len(toClient) : toClient[i].kind # "error"

\* The last request asks for the present listen, or ends the last one.
LastRequest ==
    toServer # <<>> => \/ toServer[Len(toServer)].op = "unwatch"
                       \/ Present(toServer[Len(toServer)].listen)

\* An ADDED, and a CURRENT sent or owed, that is not of the present listen has a
\* request or a response behind it.
Late ==
    /\ serving # 0 => Present(serving) \/ toServer # <<>>
    /\ \A i \in 1..Len(toClient) : toClient[i].kind \in {"added", "current"} =>
          \/ Present(toClient[i].listen) \/ toServer # <<>>
          \/ \E k \in Responses(toClient) : k > i

\* A device that may not read hears of no CURRENT.
Refused ==
    /\ serving = 0 /\ marked = 0
    /\ \A i \in 1..Len(toClient) : toClient[i].kind # "current"

SyncInv ==
    /\ Listed /\ WireOK
    /\ allowed => Counted /\ LastRequest /\ Late /\ RemovedTargetIsForgotten
    /\ ~allowed => Refused

\* Responses are finitely many.
LEMMA ResponsesFinite ==
    ASSUME NEW M, NEW s \in Seq(M)
    PROVE  IsFiniteSet(Responses(s)) /\ Cardinality(Responses(s)) \in Nat
<1>1. Len(s) \in Nat /\ Responses(s) \in SUBSET (1..Len(s))
  BY DEF Responses
<1>2. IsFiniteSet(1..Len(s))
  BY <1>1, FS_Interval
<1> QED
  BY <1>1, <1>2, FS_Subset, FS_CardinalityType

\* A message at the end.
LEMMA ResponsesAppend ==
    ASSUME NEW M, NEW s \in Seq(M), NEW m \in M
    PROVE  /\ Responses(s) \subseteq Responses(Append(s, m))
           /\ m.kind \in Notices => Responses(Append(s, m)) = Responses(s)
           /\ m.kind \notin Notices =>
                 /\ Len(s) + 1 \in Responses(Append(s, m))
                 /\ Cardinality(Responses(Append(s, m))) = Cardinality(Responses(s)) + 1
<1> DEFINE a == Append(s, m)
           n == Len(s)
<1>1. /\ Len(a) = n + 1 /\ a[n + 1] = m /\ \A i \in 1..n : a[i] = s[i]
      /\ n \in Nat
  BY AppendProperties
<1>2. \A i \in 1..(n + 1) : i \in 1..n \/ i = n + 1
  BY <1>1
<1>3. n + 1 \in 1..(n + 1) /\ n + 1 \notin 1..n /\ \A i \in 1..n : i \in 1..(n + 1)
  BY <1>1
<1> HIDE DEF a
<1>4. \A i \in 1..n : i \in Responses(a) <=> i \in Responses(s)
  BY <1>1, <1>3 DEF Responses
<1>5. Responses(s) \subseteq 1..n /\ Responses(a) \subseteq 1..(n + 1)
  BY <1>1 DEF Responses
<1>6. n + 1 \in Responses(a) <=> m.kind \notin Notices
  BY <1>1, <1>3 DEF Responses
<1>7. m.kind \in Notices => Responses(a) = Responses(s)
  BY <1>2, <1>3, <1>4, <1>5, <1>6
<1>8. m.kind \notin Notices => Responses(a) = Responses(s) \cup {n + 1}
  BY <1>2, <1>3, <1>4, <1>5, <1>6
<1>9. n + 1 \notin Responses(s)
  BY <1>3, <1>5
<1>10. m.kind \notin Notices => Cardinality(Responses(a)) = Cardinality(Responses(s)) + 1
  BY <1>8, <1>9, ResponsesFinite, FS_AddElement
<1> QED
  BY <1>4, <1>5, <1>6, <1>7, <1>10 DEF a

\* A message less at the front.
LEMMA ResponsesTail ==
    ASSUME NEW M, NEW s \in Seq(M), s # <<>>
    PROVE  /\ \A i \in Responses(s) : i # 1 => i - 1 \in Responses(Tail(s))
           /\ Head(s).kind \in Notices =>
                 Cardinality(Responses(Tail(s))) = Cardinality(Responses(s))
           /\ Head(s).kind \notin Notices =>
                 Cardinality(Responses(Tail(s))) = Cardinality(Responses(s)) - 1
<1> DEFINE t == Tail(s)
           n == Len(s)
           R == Responses(s) \ {1}
           f == [i \in Responses(t) |-> i + 1]
<1>1. n \in Nat \ {0} /\ Head(s) = s[1] /\ t \in Seq(M)
  BY EmptySeq, HeadTailProperties
<1>2. Len(t) = n - 1 /\ \A i \in 1..(n - 1) : t[i] = s[i + 1]
  BY HeadTailProperties
<1>3. \A i \in 1..(n - 1) : i + 1 \in 1..n /\ i + 1 # 1 /\ i \in Nat
  BY <1>1
<1>4. \A i \in 1..n : i # 1 => i - 1 \in 1..(n - 1) /\ (i - 1) + 1 = i
  BY <1>1
<1> HIDE DEF t
<1>5. \A i \in Responses(t) : i \in 1..(n - 1) /\ i + 1 \in R
  BY <1>2, <1>3 DEF Responses
<1>6. \A i \in R : i - 1 \in Responses(t) /\ (i - 1) + 1 = i
  BY <1>2, <1>4 DEF Responses
<1> HIDE DEF R
<1>7. f \in Bijection(Responses(t), R)
  <2>1. \A i \in Responses(t) : i \in Nat
    BY <1>3, <1>5
  <2>2. \A i \in Responses(t) : \A k \in Responses(t) : i + 1 = k + 1 => i = k
    BY <2>1
  <2> QED
    BY <1>5, <1>6, <2>2 DEF Bijection, Injection, Surjection, IsInjective
<1>8. IsFiniteSet(Responses(t)) /\ IsFiniteSet(Responses(s))
  BY <1>1, ResponsesFinite
<1>9. Cardinality(R) = Cardinality(Responses(t))
  BY <1>7, <1>8, FS_Bijection DEF ExistsBijection
<1>10. 1 \in Responses(s) <=> Head(s).kind \notin Notices
  BY <1>1 DEF Responses
<1>11. Head(s).kind \in Notices => R = Responses(s)
  BY <1>10 DEF R
<1>12. Head(s).kind \notin Notices => Cardinality(R) = Cardinality(Responses(s)) - 1
  BY <1>8, <1>10, FS_RemoveElement DEF R
<1>13. \A i \in Responses(s) : i # 1 => i - 1 \in Responses(t)
  BY <1>6 DEF R
<1> QED
  BY <1>9, <1>11, <1>12, <1>13 DEF t

\* A step that leaves the wire, the target's state and the listen as they are.
LEMMA QuietKeeps ==
    ASSUME SyncInv, Listed', listening' <=> listening,
           UNCHANGED <<toServer, toClient, serving, pending, marked, listens, allowed>>,
           stream' # "Open" => stream # "Open"
    PROVE  SyncInv'
<1>1. WireOK'
  BY DEF SyncInv, WireOK
<1>2. \A l : Present(l)' <=> Present(l)
  BY DEF Present
<1>3. ASSUME allowed
      PROVE  Counted' /\ LastRequest' /\ Late' /\ RemovedTargetIsForgotten'
  BY <1>3 DEF SyncInv, Counted, LastRequest, Late, Responses, Present, RemovedTargetIsForgotten
<1>4. ~allowed => Refused'
  BY DEF SyncInv, Refused
<1> QED
  BY <1>1, <1>3, <1>4 DEF SyncInv

\* A step after which nothing is on the wire.
LEMMA EmptyKeeps ==
    ASSUME SyncInv, Listed', EmptyWire, UNCHANGED allowed, listens' \in Nat
    PROVE  SyncInv'
<1>1. /\ toServer' = <<>> /\ toClient' = <<>> /\ serving' = 0 /\ pending' = 0
      /\ marked' = 0
  BY DEF EmptyWire
<1>2. toServer' \in Seq(Requests) /\ toClient' \in Seq(Messages)
  BY <1>1, EmptySeq, Zenon
<1>3. Len(toServer') = 0 /\ Len(toClient') = 0
  BY <1>1
<1>4. Responses(toClient') = {}
  BY <1>3 DEF Responses
<1>5. Cardinality(Responses(toClient')) = 0
  BY <1>4, FS_EmptySet
<1>6. WireOK'
  BY <1>1, <1>2 DEF WireOK
<1>7. Counted' /\ LastRequest' /\ Late' /\ RemovedTargetIsForgotten'
  BY <1>1, <1>3, <1>5 DEF Counted, LastRequest, Late, RemovedTargetIsForgotten
<1>8. ~allowed => Refused'
  BY <1>1, <1>3 DEF Refused
<1> QED
  BY <1>6, <1>7, <1>8 DEF SyncInv

\* The invariant of a stream that is not open: nothing is on the wire.
LEMMA ClosedWire ==
    ASSUME SyncInv, stream # "Open", allowed
    PROVE  toServer = <<>> /\ toClient = <<>> /\ serving = 0 /\ pending = 0 /\ marked = 0
<1>1. toServer = <<>> /\ toClient = <<>> /\ serving = 0 /\ marked = 0 /\ Counted
  BY DEF SyncInv, WireOK
<1>2. Len(toServer) = 0 /\ Responses(toClient) = {}
  BY <1>1 DEF Responses
<1>3. Cardinality(Responses(toClient)) = 0
  BY <1>2, FS_EmptySet
<1> QED
  BY <1>1, <1>2, <1>3 DEF Counted

\* A request at the end: everything under way is followed by it.
LEMMA SendKeeps ==
    ASSUME SyncInv, Listed', NEW r \in Requests,
           toServer' = Append(toServer, r), pending' = pending + 1,
           UNCHANGED <<stream, marked, toClient, serving, allowed>>,
           stream = "Open", listens' \in Nat,
           r.op = "unwatch" \/ (r.listen = listens' /\ listening')
    PROVE  SyncInv'
<1>1. /\ toServer' = Append(toServer, r) /\ pending' = pending + 1
      /\ UNCHANGED <<stream, marked, toClient, serving>>
  OBVIOUS
<1>2. toServer \in Seq(Requests) /\ pending \in Int
  BY DEF SyncInv, WireOK
<1>3. /\ toServer' \in Seq(Requests) /\ toServer' # <<>>
      /\ Len(toServer') = Len(toServer) + 1 /\ toServer'[Len(toServer) + 1] = r
  BY <1>1, <1>2, AppendProperties
<1>4. WireOK'
  BY <1>1, <1>2, <1>3 DEF SyncInv, WireOK
<1>5. allowed => Counted' /\ RemovedTargetIsForgotten'
  <2> SUFFICES ASSUME allowed PROVE Counted' /\ RemovedTargetIsForgotten'
    OBVIOUS
  <2>1. Counted /\ Cardinality(Responses(toClient)) \in Nat /\ Len(toServer) \in Nat
    BY <1>2, ResponsesFinite DEF SyncInv, WireOK
  <2>2. pending' = Len(toServer') + Cardinality(Responses(toClient))
    BY <1>1, <1>3, <2>1 DEF Counted
  <2>3. pending' # 0
    BY <1>1, <2>1 DEF Counted
  <2> QED
    BY <1>1, <2>1, <2>2, <2>3 DEF Counted, RemovedTargetIsForgotten
<1>6. LastRequest' /\ Late'
  BY <1>3 DEF LastRequest, Late, Present
<1>7. ~allowed => Refused'
  BY <1>1 DEF SyncInv, Refused
<1> QED
  BY <1>4, <1>5, <1>6, <1>7 DEF SyncInv

\* A message at the front is taken off the wire.
LEMMA TakeKeeps ==
    ASSUME SyncInv, toClient # <<>>, toClient' = Tail(toClient),
           UNCHANGED <<toServer, serving, listens, stream>>,
           listening' <=> listening, pending' \in Int,
           stream # "Open" => marked' = 0
    PROVE  /\ WireOK'
           /\ allowed => /\ LastRequest' /\ Late'
                         /\ \A i \in 1..Len(toClient') : toClient'[i].kind # "error"
           /\ ~allowed => \A i \in 1..Len(toClient') : toClient'[i].kind # "current"
<1>1. toClient \in Seq(Messages)
  BY DEF SyncInv, WireOK
<1>2. /\ toClient' \in Seq(Messages) /\ Len(toClient') = Len(toClient) - 1
      /\ \A i \in 1..Len(toClient') : toClient'[i] = toClient[i + 1]
      /\ Len(toClient) \in Nat \ {0}
  BY <1>1, EmptySeq, HeadTailProperties
<1>3. \A i \in 1..Len(toClient') : i + 1 \in 1..Len(toClient) /\ i + 1 > 1 /\ i \in Nat
  BY <1>2
<1>4. WireOK'
  BY <1>2 DEF SyncInv, WireOK
<1>5. ASSUME allowed
      PROVE  LastRequest' /\ Late' /\ \A i \in 1..Len(toClient') : toClient'[i].kind # "error"
  <2>1. Counted /\ LastRequest /\ Late
    BY <1>5 DEF SyncInv
  <2>2. LastRequest' /\ (serving' # 0 => Present(serving)' \/ toServer' # <<>>)
    BY <2>1 DEF LastRequest, Late, Present
  <2>3. ASSUME NEW i \in 1..Len(toClient'), toClient'[i].kind \in {"added", "current"}
        PROVE  \/ toClient'[i].listen = listens' /\ listening'
               \/ toServer' # <<>>
               \/ \E k \in Responses(toClient') : k > i
    <3>1. \/ Present(toClient[i + 1].listen) \/ toServer # <<>>
          \/ \E k \in Responses(toClient) : k > i + 1
      BY <1>2, <1>3, <2>1, <2>3 DEF Late
    <3>2. CASE \E k \in Responses(toClient) : k > i + 1
      <4>1. PICK k \in Responses(toClient) : k > i + 1
        BY <3>2
      <4>2. k \in Nat /\ i \in Nat
        BY <1>2, <1>3 DEF Responses
      <4>3. k # 1 /\ k - 1 > i
        BY <4>1, <4>2
      <4>4. k - 1 \in Responses(toClient')
        BY <1>1, <4>1, <4>3, ResponsesTail
      <4> QED
        BY <4>3, <4>4
    <3>3. CASE Present(toClient[i + 1].listen)
      BY <1>2, <3>3 DEF Present
    <3> QED
      BY <3>1, <3>2, <3>3
  <2>4. \A i \in 1..Len(toClient') : toClient'[i].kind # "error"
    BY <1>2, <1>3, <2>1 DEF Counted
  <2>5. Late'
    BY <2>2, <2>3 DEF Late, Present
  <2> QED
    BY <2>2, <2>4, <2>5
<1>6. ~allowed => \A i \in 1..Len(toClient') : toClient'[i].kind # "current"
  BY <1>2, <1>3 DEF SyncInv, Refused
<1> QED
  BY <1>4, <1>5, <1>6

\* Listeners come.
LEMMA AddStep ==
    ASSUME SyncInv, Listed', AddQueryListener
    PROVE  SyncInv'
<1>1. PICK S : listeners \in Seq(S)
  BY DEF SyncInv, Listed
<1>2. listeners' = Append(listeners, Head(tasks).read)
  BY NotifyListeners DEF AddQueryListener
<1>3. listening'
  <2>1. listeners \in Seq(S \cup {Head(tasks).read})
    BY <1>1
  <2>2. Append(listeners, Head(tasks).read) # <<>>
    BY <2>1, AppendProperties
  <2> QED
    BY <1>2, <2>2 DEF listening
<1>4. UNCHANGED allowed
  BY DEF AddQueryListener
<1>5. CASE listening
  <2>1. UNCHANGED <<listens, streamVars>>
    BY <1>5 DEF AddQueryListener
  <2> QED
    BY <1>3, <1>4, <1>5, <2>1, QuietKeeps DEF streamVars, wireVars
<1>6. CASE ~listening
  <2>1. listens' = listens + 1 /\ listens \in Nat
    BY <1>6 DEF AddQueryListener, SyncInv, WireOK
  <2>2. listens' \in Nat
    BY <2>1
  <2>3. CASE ~IsStarted(stream)
    <3>1. EmptyWire
      BY <1>6, <2>3 DEF AddQueryListener, IsStarted
    <3> QED
      BY <1>3, <1>4, <2>1, <2>2, <3>1, EmptyKeeps
  <2>4. CASE stream = "Open"
    <3> DEFINE r == [op |-> "watch", listen |-> listens']
    <3>1. Send(r)
      BY <1>6, <2>4 DEF AddQueryListener, IsStarted
    <3>2. r \in Requests /\ r.listen = listens'
      BY <2>2 DEF Requests
    <3>3. /\ toServer' = Append(toServer, r) /\ pending' = pending + 1
          /\ UNCHANGED <<stream, marked, toClient, serving>>
      BY <3>1 DEF Send
    <3> HIDE DEF r
    <3> QED
      BY <1>3, <1>4, <2>1, <2>2, <2>4, <3>2, <3>3, SendKeeps
  <2>5. CASE stream \in {"Starting", "Backoff"}
    <3>1. UNCHANGED <<stream, pending, marked, toServer, toClient, serving>>
      BY <1>6, <2>5 DEF AddQueryListener, IsStarted, streamVars, wireVars
    <3>2. WireOK' /\ (~allowed => Refused')
      BY <2>1, <2>2, <3>1 DEF SyncInv, WireOK, Refused
    <3>3. ASSUME allowed PROVE Counted' /\ LastRequest' /\ Late' /\ RemovedTargetIsForgotten'
      <4>1. toServer = <<>> /\ toClient = <<>> /\ serving = 0 /\ marked = 0
        BY <2>5, <3>3, ClosedWire
      <4>2. Len(toClient') = 0
        BY <3>1, <4>1
      <4>3. Counted'
        BY <3>1, <3>3 DEF SyncInv, Counted
      <4> QED
        BY <3>1, <4>1, <4>2, <4>3 DEF LastRequest, Late, RemovedTargetIsForgotten
    <3> QED
      BY <1>3, <1>4, <2>2, <3>2, <3>3 DEF SyncInv
  <2> QED
    BY <2>3, <2>4, <2>5 DEF IsStarted
<1> QED
  BY <1>5, <1>6

\* And listeners go.
LEMMA RemoveStep ==
    ASSUME SyncInv, Listed', RemoveQueryListener
    PROVE  SyncInv'
<1> DEFINE rest == Erased(listeners, Head(tasks).read)
<1>1. listeners' = rest /\ UNCHANGED <<listens, allowed>>
  BY DEF RemoveQueryListener
<1>2. listens \in Nat
  BY DEF SyncInv, WireOK
<1>3. CASE rest # <<>> \/ ~listening
  <2>1. UNCHANGED streamVars
    BY <1>3 DEF RemoveQueryListener
  <2>2. listening' <=> listening
    <3>1. ~listening => rest = <<>>
      BY NothingToErase DEF listening
    <3> QED
      BY <1>1, <1>3, <3>1 DEF listening
  <2> QED
    BY <1>1, <2>1, <2>2, QuietKeeps DEF streamVars, wireVars
<1>4. CASE rest = <<>> /\ listening
  <2>1. ~listening'
    BY <1>1, <1>4 DEF listening
  <2>3. CASE stream = "Open"
    <3> DEFINE r == [op |-> "unwatch", listen |-> listens]
    <3>1. Send(r)
      BY <1>4, <2>3 DEF RemoveQueryListener
    <3>2. r \in Requests /\ r.op = "unwatch"
      BY <1>2 DEF Requests
    <3>3. /\ toServer' = Append(toServer, r) /\ pending' = pending + 1
          /\ UNCHANGED <<stream, marked, toClient, serving>>
      BY <3>1 DEF Send
    <3> HIDE DEF r
    <3> QED
      BY <1>1, <1>2, <2>1, <2>3, <3>2, <3>3, SendKeeps
  <2>4. CASE stream # "Open"
    <3>1. UNCHANGED <<stream, pending, marked, toServer, toClient, serving>>
      BY <1>4, <2>4 DEF RemoveQueryListener, streamVars, wireVars
    <3>2. WireOK' /\ (~allowed => Refused')
      BY <1>1, <2>1, <3>1 DEF SyncInv, WireOK, Refused
    <3>3. ASSUME allowed PROVE Counted' /\ LastRequest' /\ Late' /\ RemovedTargetIsForgotten'
      <4>1. toServer = <<>> /\ toClient = <<>> /\ serving = 0 /\ marked = 0
        BY <2>4, <3>3, ClosedWire
      <4>2. Len(toClient') = 0
        BY <3>1, <4>1
      <4>3. Counted'
        BY <3>1, <3>3 DEF SyncInv, Counted
      <4> QED
        BY <3>1, <4>1, <4>2, <4>3 DEF LastRequest, Late, RemovedTargetIsForgotten
    <3> QED
      BY <1>1, <2>1, <3>2, <3>3 DEF SyncInv
  <2> QED
    BY <2>3, <2>4
<1> QED
  BY <1>3, <1>4

\* Messages of the server arrive.
LEMMA MessageStep ==
    ASSUME SyncInv, Listed',
           TargetResponse \/ TargetCurrent \/ RaiseWatchSnapshot \/ TargetError
    PROVE  SyncInv'
<1>1. /\ toClient # <<>> /\ toClient' = Tail(toClient)
      /\ UNCHANGED <<toServer, serving, listens, stream, allowed>>
  <2>1. \E kind : Message(kind)
    BY Zenon DEF TargetResponse, TargetCurrent, RaiseWatchSnapshot, TargetError
  <2> QED
    BY <2>1 DEF Message
<1>2. /\ toClient \in Seq(Messages) /\ toServer \in Seq(Requests)
      /\ pending \in Int /\ listens \in Nat
  BY DEF SyncInv, WireOK
<1>3. /\ Cardinality(Responses(toClient)) \in Nat /\ Len(toServer) \in Nat
      /\ Cardinality(Responses(Tail(toClient))) \in Nat
      /\ IsFiniteSet(Responses(toClient))
  <2>1. Tail(toClient) \in Seq(Messages)
    BY <1>1, <1>2, HeadTailProperties
  <2>2. IsFiniteSet(Responses(toClient)) /\ Cardinality(Responses(toClient)) \in Nat
    BY <1>2, ResponsesFinite
  <2>3. Cardinality(Responses(Tail(toClient))) \in Nat
    BY <2>1, ResponsesFinite
  <2>4. Len(toServer) \in Nat
    BY <1>2
  <2> QED
    BY <2>2, <2>3, <2>4
<1>4. Head(toClient) = toClient[1] /\ 1 \in 1..Len(toClient)
  BY <1>1, <1>2, EmptySeq
<1>5. stream = "Open"
  BY <1>1 DEF SyncInv, WireOK
<1>6. CASE TargetResponse
  <2>1. /\ Head(toClient).kind \in {"added", "removed"} /\ pending' = pending - 1
        /\ marked' = IF Head(toClient).kind = "removed" /\ pending' = 0 THEN 0 ELSE marked
        /\ UNCHANGED listeners
    <3>1. Message("added") \/ Message("removed")
      BY <1>6 DEF TargetResponse
    <3>2. Head(toClient).kind \in {"added", "removed"}
      BY <3>1 DEF Message
    <3> QED
      BY <1>6, <3>2 DEF TargetResponse
  <2>2. (listening' <=> listening) /\ Head(toClient).kind \notin Notices
    BY <2>1 DEF listening, Notices
  <2>3. /\ WireOK'
        /\ allowed => /\ LastRequest' /\ Late'
                      /\ \A i \in 1..Len(toClient') : toClient'[i].kind # "error"
        /\ ~allowed => \A i \in 1..Len(toClient') : toClient'[i].kind # "current"
    BY <1>1, <1>2, <1>5, <2>1, <2>2, TakeKeeps
  <2>4. Cardinality(Responses(toClient')) = Cardinality(Responses(toClient)) - 1
    BY <1>1, <1>2, <2>2, ResponsesTail
  <2>5. allowed => pending' = Len(toServer') + Cardinality(Responses(toClient'))
    BY <1>1, <1>2, <1>3, <2>1, <2>4 DEF SyncInv, Counted
  <2>6. ASSUME allowed, ~listening, pending' = 0, Head(toClient).kind = "added"
        PROVE  FALSE
    <3>1. Len(toServer) = 0 /\ Cardinality(Responses(toClient')) = 0
      BY <1>1, <1>3, <2>5, <2>6
    <3>2. toServer = <<>> /\ Responses(Tail(toClient)) = {}
      <4>1. IsFiniteSet(Responses(Tail(toClient)))
        BY <1>1, <1>2, HeadTailProperties, ResponsesFinite
      <4> QED
        BY <1>1, <1>2, <3>1, <4>1, FS_EmptySet, EmptySeq
    <3>3. \A k \in Responses(toClient) : k = 1
      BY <1>1, <1>2, <3>2, ResponsesTail
    <3>4. ~ \E k \in Responses(toClient) : k > 1
      BY <3>3
    <3>5. Late
      BY <2>6 DEF SyncInv
    <3> QED
      BY <1>4, <2>6, <3>2, <3>4, <3>5 DEF Late, Present
  <2>7. allowed => RemovedTargetIsForgotten'
    BY <2>1, <2>2, <2>6 DEF SyncInv, RemovedTargetIsForgotten
  <2>8. ~allowed => Refused'
    BY <1>1, <2>1, <2>3 DEF SyncInv, Refused
  <2> QED
    BY <1>1, <2>3, <2>5, <2>7, <2>8 DEF SyncInv, Counted
<1>7. CASE TargetCurrent \/ RaiseWatchSnapshot
  <2>1. /\ Head(toClient).kind \in Notices /\ UNCHANGED pending
        /\ UNCHANGED marked \/ (listening /\ Head(toClient).kind = "current")
        /\ listeners' = listeners
    BY <1>7, NotifyListeners DEF TargetCurrent, RaiseWatchSnapshot, Message, Notices
  <2>2. listening' <=> listening
    BY <2>1 DEF listening
  <2>3. /\ WireOK'
        /\ allowed => /\ LastRequest' /\ Late'
                      /\ \A i \in 1..Len(toClient') : toClient'[i].kind # "error"
        /\ ~allowed => \A i \in 1..Len(toClient') : toClient'[i].kind # "current"
    BY <1>1, <1>2, <1>5, <2>1, <2>2, TakeKeeps
  <2>4. Cardinality(Responses(toClient')) = Cardinality(Responses(toClient))
    BY <1>1, <1>2, <2>1, ResponsesTail
  <2>5. allowed => Counted'
    BY <1>1, <2>1, <2>3, <2>4 DEF SyncInv, Counted
  <2>6. allowed => RemovedTargetIsForgotten'
    BY <2>1, <2>2 DEF SyncInv, RemovedTargetIsForgotten
  <2>7. ~allowed => Refused'
    BY <1>1, <1>4, <2>1, <2>3 DEF SyncInv, Refused
  <2> QED
    BY <1>1, <2>3, <2>5, <2>6, <2>7 DEF SyncInv
<1>8. CASE TargetError
  <2>1. /\ Head(toClient).kind = "error" /\ listeners' = <<>>
        /\ pending' \in {0, pending} /\ marked' \in {0, marked}
    BY <1>8 DEF TargetError, Message
  <2>2. ~allowed
    BY <1>4, <2>1 DEF SyncInv, Counted
  <2>3. /\ toClient' \in Seq(Messages) /\ Len(toClient') = Len(toClient) - 1
        /\ \A i \in 1..Len(toClient') : toClient'[i] = toClient[i + 1]
        /\ Len(toClient) \in Nat
    BY <1>1, <1>2, HeadTailProperties
  <2>4. \A i \in 1..Len(toClient') : i + 1 \in 1..Len(toClient)
    BY <2>3
  <2>5. Refused'
    BY <1>1, <2>1, <2>2, <2>3, <2>4 DEF SyncInv, Refused
  <2>6. WireOK'
    BY <1>1, <1>2, <1>5, <2>1, <2>3 DEF SyncInv, WireOK
  <2> QED
    BY <1>1, <2>2, <2>5, <2>6 DEF SyncInv
<1> QED
  BY <1>6, <1>7, <1>8

\* The stream opens: the present listen is sent.
LEMMA OpenStep ==
    ASSUME SyncInv, Listed', OnWatchStreamOpen
    PROVE  SyncInv'
<1> DEFINE r == [op |-> "watch", listen |-> listens]
<1>1. /\ stream = "Starting" /\ stream' = "Open" /\ pending' = Len(toServer')
      /\ toServer' = IF listening THEN <<r>> ELSE <<>>
      /\ UNCHANGED <<listeners, listens, marked, toClient, serving, allowed>>
  BY DEF OnWatchStreamOpen, viewVars
<1>2. listens \in Nat /\ toClient = <<>> /\ serving = 0 /\ marked = 0
  BY <1>1 DEF SyncInv, WireOK
<1>3. r \in Requests /\ r.listen = listens
  BY <1>2 DEF Requests
<1> HIDE DEF r
<1>4. /\ toServer' \in Seq(Requests) /\ Len(toServer') \in Nat
      /\ toServer' # <<>> => listening /\ toServer'[Len(toServer')] = r
  <2>1. CASE listening
    BY <1>1, <1>3, <2>1
  <2>2. CASE ~listening
    BY <1>1, <2>2, EmptySeq
  <2> QED
    BY <2>1, <2>2
<1>5. Len(toClient') = 0
  BY <1>1, <1>2
<1>6. toClient' \in Seq(Messages)
  BY <1>1 DEF SyncInv, WireOK
<1>7. WireOK'
  BY <1>1, <1>2, <1>4, <1>6 DEF WireOK
<1>8. Counted'
  <2>1. Responses(toClient') = {}
    BY <1>5 DEF Responses
  <2>2. Cardinality(Responses(toClient')) = 0
    BY <2>1, FS_EmptySet
  <2> QED
    BY <1>1, <1>4, <1>5, <2>2 DEF Counted
<1>9. LastRequest' /\ Late' /\ RemovedTargetIsForgotten'
  BY <1>1, <1>2, <1>3, <1>4, <1>5
     DEF LastRequest, Late, Present, listening, RemovedTargetIsForgotten
<1>10. ~allowed => Refused'
  BY <1>1 DEF SyncInv, Refused
<1> QED
  BY <1>1, <1>7, <1>8, <1>9, <1>10 DEF SyncInv

\* A notice at the end: no response, and a CURRENT of the listen it is owed to.
LEMMA NoticeLast ==
    ASSUME NEW m \in Messages, NEW s \in Seq(Messages), m.kind \in Notices,
           m.kind = "current" => Present(m.listen) \/ toServer # <<>>,
           \A i \in 1..Len(s) : s[i].kind # "error",
           \A i \in 1..Len(s) : s[i].kind \in {"added", "current"} =>
              \/ Present(s[i].listen) \/ toServer # <<>>
              \/ \E k \in Responses(s) : k > i
    PROVE  /\ Append(s, m) \in Seq(Messages)
           /\ Responses(Append(s, m)) = Responses(s)
           /\ \A i \in 1..Len(Append(s, m)) : Append(s, m)[i].kind # "error"
           /\ \A i \in 1..Len(Append(s, m)) :
                 Append(s, m)[i].kind \in {"added", "current"} =>
                    \/ Present(Append(s, m)[i].listen) \/ toServer # <<>>
                    \/ \E k \in Responses(s) : k > i
<1> DEFINE a == Append(s, m)
<1>1. /\ a \in Seq(Messages) /\ Len(a) = Len(s) + 1 /\ Len(s) \in Nat
      /\ \A i \in 1..Len(s) : a[i] = s[i]
      /\ a[Len(s) + 1] = m
  BY AppendProperties
<1>2. Responses(a) = Responses(s)
  BY ResponsesAppend
<1> HIDE DEF a
<1>3. \A i \in 1..Len(a) : i \in 1..Len(s) \/ i = Len(s) + 1
  BY <1>1
<1>4. \A i \in 1..Len(a) : a[i].kind # "error"
  BY <1>1, <1>3 DEF Notices
<1>5. ASSUME NEW i \in 1..Len(a), a[i].kind \in {"added", "current"}
      PROVE  \/ Present(a[i].listen) \/ toServer # <<>>
             \/ \E k \in Responses(s) : k > i
  <2>1. CASE i \in 1..Len(s)
    BY <1>1, <1>5, <2>1
  <2>2. CASE i = Len(s) + 1
    BY <1>1, <1>5, <2>2 DEF Notices
  <2> QED
    BY <1>3, <2>1, <2>2
<1> QED
  BY <1>1, <1>2, <1>4, <1>5 DEF a

\* The server takes a request, sends the CURRENT it owes, or a snapshot.
LEMMA ServerStep ==
    ASSUME SyncInv, Listed', Server \/ ServerSnapshot
    PROVE  SyncInv'
<1>1. UNCHANGED <<listeners, listens, marked, stream, pending, allowed>>
  BY DEF Server, ServerAnswers, ServerCurrent, ServerSnapshot, viewVars
<1>2. /\ toClient \in Seq(Messages) /\ toServer \in Seq(Requests)
      /\ pending \in Int /\ listens \in Nat /\ serving \in Nat
  BY DEF SyncInv, WireOK
<1>3. allowed => RemovedTargetIsForgotten'
  BY <1>1 DEF SyncInv, RemovedTargetIsForgotten, listening
<1>4. \A l : Present(l) <=> l = listens' /\ listening'
  BY <1>1 DEF Present, listening
<1>5. CASE ServerAnswers
  <2> DEFINE r == Head(toServer)
             kind == IF r.op = "unwatch" THEN "removed" ELSE IF allowed THEN "added" ELSE "error"
             m == [kind |-> kind, listen |-> r.listen]
  <2>1. /\ toServer # <<>> /\ toServer' = Tail(toServer)
        /\ toClient' = Append(toClient, m)
        /\ serving' = IF kind = "added" THEN r.listen ELSE 0
    BY <1>5 DEF ServerAnswers
  <2>2. /\ r \in Requests /\ r = toServer[1] /\ toServer' \in Seq(Requests)
        /\ Len(toServer') = Len(toServer) - 1 /\ Len(toServer) \in Nat \ {0}
        /\ \A i \in 1..Len(toServer') : toServer'[i] = toServer[i + 1]
    BY <1>2, <2>1, EmptySeq, HeadTailProperties
  <2>3. /\ m \in Messages /\ m.kind \notin Notices /\ m.kind = kind
        /\ m.listen = r.listen /\ r.listen \in Nat
    BY <2>2 DEF Messages, Requests, Notices
  <2> HIDE DEF m, r
  <2>4. /\ toClient' \in Seq(Messages) /\ Len(toClient') = Len(toClient) + 1
        /\ \A i \in 1..Len(toClient) : toClient'[i] = toClient[i]
        /\ toClient'[Len(toClient) + 1] = m /\ Len(toClient) \in Nat
    BY <1>2, <2>1, <2>3, AppendProperties
  <2>5. /\ Len(toClient) + 1 \in Responses(toClient')
        /\ Cardinality(Responses(toClient')) = Cardinality(Responses(toClient)) + 1
    BY <1>2, <2>1, <2>3, ResponsesAppend
  <2>6. \A i \in 1..Len(toClient') : i \in 1..Len(toClient) \/ i = Len(toClient) + 1
    BY <2>4
  <2>7. WireOK'
    <3>1. stream = "Open"
      BY <2>1 DEF SyncInv, WireOK
    <3> QED
      BY <1>1, <1>2, <2>1, <2>2, <2>3, <2>4, <3>1 DEF WireOK
  <2>8. ASSUME allowed PROVE Counted' /\ LastRequest' /\ Late'
    <3>1. Counted /\ LastRequest /\ Late
      BY <2>8 DEF SyncInv
    <3>2. Cardinality(Responses(toClient)) \in Nat
      BY <1>2, ResponsesFinite
    <3>3. pending' = Len(toServer') + Cardinality(Responses(toClient'))
      BY <1>1, <2>2, <2>5, <3>1, <3>2 DEF Counted
    <3>4. kind # "error"
      BY <2>8
    <3>5. \A i \in 1..Len(toClient') : toClient'[i].kind # "error"
      BY <2>3, <2>4, <2>6, <3>1, <3>4 DEF Counted
    <3>6. ASSUME toServer' # <<>>
          PROVE  toServer'[Len(toServer')] = toServer[Len(toServer)]
      <4>1. Len(toServer') \in Nat \ {0}
        BY <2>2, <3>6, EmptySeq
      <4>2. Len(toServer') \in 1..Len(toServer') /\ Len(toServer') + 1 = Len(toServer)
        BY <2>2, <4>1
      <4> QED
        BY <2>2, <4>2
    <3>7. LastRequest'
      BY <1>4, <2>1, <3>1, <3>6 DEF LastRequest, Present
    <3>8. kind = "added" => (r.listen = listens' /\ listening') \/ toServer' # <<>>
      <4> SUFFICES ASSUME kind = "added", toServer' = <<>>
                   PROVE  r.listen = listens' /\ listening'
        OBVIOUS
      <4>1. Len(toServer) = 1
        BY <2>2
      <4>2. r.op # "unwatch"
        OBVIOUS
      <4>3. Present(r.listen)
        BY <2>1, <2>2, <3>1, <4>1, <4>2 DEF LastRequest
      <4> QED
        BY <1>4, <4>3
    <3>9. ASSUME NEW i \in 1..Len(toClient'), toClient'[i].kind \in {"added", "current"}
          PROVE  \/ toClient'[i].listen = listens' /\ listening'
                 \/ toServer' # <<>> \/ \E k \in Responses(toClient') : k > i
      <4>1. CASE i \in 1..Len(toClient)
        <5>1. Len(toClient) + 1 > i
          BY <2>4, <4>1
        <5> QED
          BY <2>5, <5>1
      <4>2. CASE i = Len(toClient) + 1
        <5>1. kind = "added" /\ toClient'[i].listen = r.listen
          BY <2>3, <2>4, <3>9, <4>2 DEF Notices
        <5> QED
          BY <3>8, <5>1
      <4> QED
        BY <2>6, <4>1, <4>2
    <3>10. Late'
      BY <2>1, <3>8, <3>9 DEF Late, Present
    <3> QED
      BY <3>3, <3>5, <3>7, <3>10 DEF Counted
  <2>9. ~allowed => Refused'
    BY <1>1, <2>1, <2>3, <2>4, <2>6 DEF SyncInv, Refused, Notices
  <2> QED
    BY <1>1, <1>3, <2>7, <2>8, <2>9 DEF SyncInv
<1>6. CASE ServerCurrent \/ ServerSnapshot
  <2> DEFINE c == [kind |-> "current", listen |-> serving]
             m == [kind |-> "snapshot", listen |-> serving]
             sent == Append(toClient, c)
  <2>1. /\ serving # 0 /\ serving' \in {0, serving} /\ UNCHANGED toServer
        /\ toClient' = Append(sent, m) \/ toClient' = Append(toClient, m)
    BY <1>6 DEF ServerCurrent, ServerSnapshot
  <2>2. /\ c \in Messages /\ c.kind = "current" /\ c.listen = serving
        /\ m \in Messages /\ m.kind = "snapshot"
        /\ c.kind \in Notices /\ m.kind \in Notices
    BY <1>2 DEF Messages, Notices
  <2> HIDE DEF c, m
  <2>3. allowed /\ stream = "Open"
    BY <2>1 DEF SyncInv, Refused, WireOK
  <2>4. Counted /\ LastRequest /\ Late
    BY <2>3 DEF SyncInv
  <2>5. Present(serving) \/ toServer # <<>>
    BY <2>1, <2>4 DEF Late
  <2>6. /\ \A i \in 1..Len(toClient) : toClient[i].kind # "error"
        /\ \A i \in 1..Len(toClient) : toClient[i].kind \in {"added", "current"} =>
              \/ Present(toClient[i].listen) \/ toServer # <<>>
              \/ \E k \in Responses(toClient) : k > i
    BY <2>4 DEF Counted, Late
  <2> DEFINE Good(s) ==
        /\ s \in Seq(Messages) /\ Responses(s) = Responses(toClient)
        /\ \A i \in 1..Len(s) : s[i].kind # "error"
        /\ \A i \in 1..Len(s) : s[i].kind \in {"added", "current"} =>
              \/ Present(s[i].listen) \/ toServer # <<>>
              \/ \E k \in Responses(s) : k > i
  <2>7. Good(sent)
    BY <1>2, <2>2, <2>5, <2>6, NoticeLast
  <2> HIDE DEF sent
  <2>8. Good(Append(sent, m))
    BY <2>2, <2>7, NoticeLast
  <2>9. Good(Append(toClient, m))
    BY <1>2, <2>2, <2>6, NoticeLast
  <2>10. PICK s : s = toClient' /\ Good(s)
    BY <2>1, <2>8, <2>9
  <2>11. WireOK'
    BY <1>1, <1>2, <2>1, <2>3, <2>10 DEF WireOK
  <2>12. Counted'
    BY <1>1, <2>1, <2>4, <2>10 DEF Counted
  <2>13. LastRequest'
    BY <1>4, <2>1, <2>4 DEF LastRequest, Present
  <2>14. Late'
    <3>1. ASSUME NEW i \in 1..Len(toClient'), toClient'[i].kind \in {"added", "current"}
          PROVE  \/ toClient'[i].listen = listens' /\ listening'
                 \/ toServer' # <<>> \/ \E k \in Responses(toClient') : k > i
      BY <1>4, <2>1, <2>10, <3>1
    <3>2. serving' # 0 => (serving' = listens' /\ listening') \/ toServer' # <<>>
      BY <1>4, <2>1, <2>5
    <3> QED
      BY <3>1, <3>2 DEF Late, Present
  <2> QED
    BY <1>1, <1>3, <2>3, <2>11, <2>12, <2>13, <2>14 DEF SyncInv
<1> QED
  BY <1>5, <1>6 DEF Server

\* Every step keeps late messages apart.
LEMMA SyncStep == WaitsForSync /\ SyncInv /\ [Next]_vars => SyncInv'
<1> SUFFICES ASSUME WaitsForSync, SyncInv, [Next]_vars PROVE SyncInv'
  OBVIOUS
<1>1. Listed' /\ Listed
  BY WaitsStep DEF SyncInv
<1> DEFINE Same  == UNCHANGED <<toServer, toClient, serving, pending, marked,
                                listens, allowed, listeners>>
           Quiet == /\ Same
                    /\ stream' # "Open" => stream # "Open"
<1>2. CASE Quiet
  <2>1. listening' <=> listening
    BY <1>2 DEF listening
  <2> QED
    BY <1>1, <1>2, <2>1, QuietKeeps
<1>3. CASE EmptyWire /\ UNCHANGED <<allowed, listens, listeners>>
  <2>1. listens' \in Nat
    BY <1>3 DEF SyncInv, WireOK
  <2>2. EmptyWire /\ UNCHANGED allowed
    BY <1>3
  <2> QED
    BY <1>1, <2>1, <2>2, EmptyKeeps
<1>4. CASE StreamBreaks
  BY <1>3, <1>4, NotifyListeners DEF StreamBreaks
<1>5. CASE IdleTimeout \/ RestartNetwork
  BY <1>3, <1>5 DEF IdleTimeout, RestartNetwork, viewVars
<1>6. CASE WriteMutations
  BY <1>2, <1>6, NotifyListeners DEF WriteMutations, streamVars, wireVars
<1>7. CASE OnlineStateTimeout
  BY <1>2, <1>7, NotifyListeners DEF OnlineStateTimeout, streamVars, wireVars
<1>8. ASSUME NEW w \in Writes, HandleSuccessfulWrite(w) \/ HandleRejectedWrite(w)
      PROVE  SyncInv'
  BY <1>2, <1>8, NotifyListeners
     DEF HandleSuccessfulWrite, HandleRejectedWrite, streamVars, wireVars
<1>9. CASE GetDocuments \/ Deliver \/ BackoffElapsed \/ UNCHANGED vars
  BY <1>2, <1>9 DEF GetDocuments, Deliver, BackoffElapsed, vars, viewVars,
     streamVars, wireVars
<1>10. ASSUME NEW d \in Docs, SetData(d) \/ Delete(d)
       PROVE  SyncInv'
  BY <1>2, <1>10 DEF SetData, Delete, PostWrite, viewVars, streamVars, wireVars
<1>11. CASE AddQueryListener
  BY <1>1, <1>11, AddStep
<1>12. CASE RemoveQueryListener
  BY <1>1, <1>12, RemoveStep
<1>13. CASE TargetResponse \/ TargetCurrent \/ RaiseWatchSnapshot \/ TargetError
  BY <1>1, <1>13, MessageStep
<1>14. CASE OnWatchStreamOpen
  BY <1>1, <1>14, OpenStep
<1>15. CASE Server \/ ServerSnapshot
  BY <1>1, <1>15, ServerStep
<1> HIDE DEF Same, Quiet
<1> QED
  BY <1>4, <1>5, <1>6, <1>7, <1>8, <1>9, <1>10, <1>11, <1>12, <1>13, <1>14, <1>15
     DEF Next, Worker, Connection

\* Late messages are kept apart for ever.
LEMMA SyncInvariance == Spec => []SyncInv
<1>1. Init => Listed /\ WaitsForSync /\ SyncInv
  <2> SUFFICES ASSUME Init PROVE Listed /\ WaitsForSync /\ SyncInv
    OBVIOUS
  <2>1. /\ listeners = <<>> /\ toServer = <<>> /\ toClient = <<>>
        /\ listens = 0 /\ serving = 0 /\ pending = 0 /\ marked = 0
    BY DEF Init
  <2>2. listeners \in Seq({}) /\ RangeOf(listeners) = {}
    BY <2>1 DEF RangeOf
  <2>3. Listed /\ WaitsForSync /\ ~listening
    BY <2>1, <2>2 DEF Listed, WaitsForSync, listening
  <2>4. toServer \in Seq(Requests) /\ toClient \in Seq(Messages)
    BY <2>1, EmptySeq, Zenon
  <2>5. WireOK
    BY <2>1, <2>4 DEF WireOK
  <2>6. Len(toServer) = 0 /\ Len(toClient) = 0 /\ 1..Len(toClient) = {}
    BY <2>1
  <2>7. Cardinality(Responses(toClient)) = 0
    BY <2>6, FS_EmptySet DEF Responses
  <2>8. Counted /\ LastRequest /\ Late /\ RemovedTargetIsForgotten /\ Refused
    BY <2>1, <2>6, <2>7 DEF Counted, LastRequest, Late, RemovedTargetIsForgotten, Refused
  <2> QED
    BY <2>1, <2>3, <2>5, <2>8 DEF SyncInv
<1> QED
  BY <1>1, SyncStep, WaitsStep, PTL DEF Spec

\* What marks the target current is the CURRENT of the present listen.
LEMMA MarkStep == SyncInv /\ [Next]_vars => marked' \in {marked, 0, listens}
<1> SUFFICES ASSUME SyncInv, [Next]_vars PROVE marked' \in {marked, 0, listens}
  OBVIOUS
<1>1. CASE TargetCurrent
  <2>1. /\ toClient # <<>> /\ Head(toClient).kind = "current"
        /\ marked' = IF pending = 0 /\ listening THEN Head(toClient).listen ELSE marked
    BY <1>1 DEF TargetCurrent, Message
  <2>2. toClient \in Seq(Messages) /\ toServer \in Seq(Requests)
    BY DEF SyncInv, WireOK
  <2>3. Head(toClient) = toClient[1] /\ 1 \in 1..Len(toClient)
    BY <2>1, <2>2, EmptySeq
  <2>4. allowed
    BY <2>1, <2>3 DEF SyncInv, Refused
  <2>5. Counted /\ Late
    BY <2>4 DEF SyncInv
  <2>6. /\ Cardinality(Responses(toClient)) \in Nat /\ Len(toServer) \in Nat
        /\ IsFiniteSet(Responses(toClient))
    BY <2>2, ResponsesFinite
  <2>7. ASSUME pending = 0, listening PROVE Head(toClient).listen = listens
    <3>1. Len(toServer) = 0 /\ Cardinality(Responses(toClient)) = 0
      BY <2>5, <2>6, <2>7 DEF Counted
    <3>2. Responses(toClient) = {} /\ toServer = <<>>
      BY <2>2, <2>6, <3>1, FS_EmptySet, EmptySeq
    <3> QED
      BY <2>1, <2>3, <2>5, <3>2 DEF Late, Present
  <2> QED
    BY <2>1, <2>7
<1>2. CASE TargetResponse \/ RaiseWatchSnapshot \/ TargetError
  BY <1>2 DEF TargetResponse, RaiseWatchSnapshot, TargetError
<1>3. CASE AddQueryListener \/ RemoveQueryListener
  BY <1>3 DEF AddQueryListener, RemoveQueryListener, EmptyWire, Send, streamVars
<1>4. CASE StreamBreaks \/ IdleTimeout \/ RestartNetwork
  BY <1>4 DEF StreamBreaks, IdleTimeout, RestartNetwork, EmptyWire
<1>5. CASE \/ WriteMutations \/ GetDocuments \/ Deliver \/ BackoffElapsed
           \/ OnWatchStreamOpen \/ OnlineStateTimeout \/ Server \/ ServerSnapshot
           \/ UNCHANGED vars
  BY <1>5 DEF WriteMutations, GetDocuments, Deliver, BackoffElapsed, OnWatchStreamOpen,
     OnlineStateTimeout, Server, ServerAnswers, ServerCurrent, ServerSnapshot, vars, streamVars
<1>6. ASSUME NEW d \in Docs, SetData(d) \/ Delete(d) PROVE UNCHANGED marked
  BY <1>6 DEF SetData, Delete, PostWrite, streamVars
<1>7. ASSUME NEW w \in Writes, HandleSuccessfulWrite(w) \/ HandleRejectedWrite(w)
      PROVE  UNCHANGED marked
  BY <1>7 DEF HandleSuccessfulWrite, HandleRejectedWrite, streamVars
<1> QED
  BY <1>1, <1>2, <1>3, <1>4, <1>5, <1>6, <1>7 DEF Next, Worker, Connection

\* A CURRENT that arrives after its listen has ended marks nothing, although the
\* next listen has the same target id (TargetState::IsPending,
\* WatchChangeAggregator::IsActiveTarget).
THEOREM LateCurrentsMarkNothing == Spec => LateCurrentIsIgnored
<1>1. SyncInv /\ [Next]_vars => [marked' \in {marked, 0, listens}]_vars
  BY MarkStep
<1> QED
  BY <1>1, SyncInvariance, PTL DEF Spec, LateCurrentIsIgnored

\* A target that nobody listens to has no state left once every response has
\* come (WatchChangeAggregator::RemoveTarget).
THEOREM RemovedTargetsAreForgotten == Spec => []RemovedTargetIsForgotten
<1>1. SyncInv => RemovedTargetIsForgotten
  BY DEF SyncInv, Refused, RemovedTargetIsForgotten
<1> QED
  BY <1>1, SyncInvariance, PTL

-----------------------------------------------------------------------------
(* The calls.  A call's way is: a task that adds its listener, the         *)
(* listener, posts on the main queue, the completion.  Calls are numbered  *)
(* in the order they are made in, and go this way without overtaking each  *)
(* other.                                                                  *)

TaskRecords == [op : {"write"}, write : Writes] \cup [op : {"listen", "remove"}, read : Reads]
Posts == [read : Reads, ok : BOOLEAN, docs : SUBSET Docs]
Views == SUBSET SUBSET Docs

Asks(t, r) == t.op = "listen" /\ t.read = r
Posted(r) == \E i \in 1..Len(main) : main[i].read = r

CallTypes ==
    /\ tasks \in Seq(TaskRecords) /\ main \in Seq(Posts) /\ listeners \in Seq(Reads)
    /\ raised \subseteq Reads /\ muted \subseteq Reads
    /\ answered \in Seq(Reads) /\ since \in Seq(Views) /\ Len(since) <= MaxReads

\* The first calls are completed, each once.
AnsweredInOrder ==
    /\ Len(answered) <= Len(since)
    /\ \A i \in 1..Len(answered) : answered[i] = i
    /\ \A r \in muted : r <= Len(answered)
    /\ \A r \in raised : r <= Len(since)

\* Posts for completed calls are muted, the others are posted for first in the
\* order of the calls, and an error is a call's last post.
Posting(ls) ==
    \A i \in 1..Len(main) :
       /\ main[i].read <= Len(since)
       /\ main[i].read <= Len(answered) => main[i].read \in muted
       /\ main[i].read > Len(answered) + 1 =>
             \E j \in 1..(i - 1) : main[j].read = main[i].read - 1
       /\ ~main[i].ok => /\ main[i].read \notin RangeOf(ls)
                         /\ \A j \in (i + 1)..Len(main) : main[j].read # main[i].read

\* Listeners come in the order of the calls, and those that wait for their first
\* snapshot behind all for whom something is posted.
Listening(ls) ==
    /\ Increasing(ls)
    /\ \A r \in RangeOf(ls) : r <= Len(since)
    /\ \A r \in RangeOf(ls) \cap raised : r \in muted \/ Posted(r)
    /\ \A r \in RangeOf(ls) \ raised :
          r > Len(answered) /\ \A i \in 1..Len(main) : main[i].read < r

\* Listeners to be added are those of the last calls; one to be removed is muted.
Asking(ts, ls) ==
    \A i \in 1..Len(ts) :
       /\ ts[i].op = "listen" =>
             /\ Len(answered) < ts[i].read /\ ts[i].read <= Len(since)
             /\ \A r \in raised \cup RangeOf(ls) : r < ts[i].read
             /\ \A j \in 1..Len(main) : main[j].read < ts[i].read
             /\ \A k \in 1..Len(ts) : i < k /\ ts[k].op = "listen" => ts[i].read < ts[k].read
       /\ ts[i].op = "remove" => ts[i].read \in muted

\* No call is lost on its way.
Covering(ts, ls) ==
    \A r \in (Len(answered) + 1)..Len(since) :
       \/ Posted(r)
       \/ r \in RangeOf(ls) \ raised
       \/ \E i \in 1..Len(ts) : Asks(ts[i], r)

CallsInv ==
    /\ CallTypes /\ AnsweredInOrder
    /\ Posting(listeners) /\ Listening(listeners)
    /\ Asking(tasks, listeners) /\ Covering(tasks, listeners)

\* Numbers of calls are numbers.
LEMMA Numbers ==
    ASSUME CallTypes
    PROVE  /\ \A r \in Reads : r \in Nat /\ r >= 1
           /\ Len(answered) \in Nat /\ Len(since) \in Nat /\ Len(main) \in Nat
           /\ Len(tasks) \in Nat /\ Len(listeners) \in Nat
           /\ \A i \in 1..Len(main) : main[i].read \in Reads
           /\ \A i \in 1..Len(tasks) : /\ tasks[i].op = "listen" => tasks[i].read \in Reads
                                       /\ tasks[i].op = "remove" => tasks[i].read \in Reads
<1>1. \A r \in Reads : r \in Nat /\ r >= 1
  BY ListeningAssumption DEF Reads
<1>2. /\ Len(answered) \in Nat /\ Len(since) \in Nat /\ Len(main) \in Nat
      /\ Len(tasks) \in Nat /\ Len(listeners) \in Nat
  BY DEF CallTypes
<1>3. \A i \in 1..Len(main) : main[i] \in Posts
  BY DEF CallTypes
<1>4. \A i \in 1..Len(main) : main[i].read \in Reads
  BY <1>3 DEF Posts
<1>5. \A i \in 1..Len(tasks) : tasks[i] \in TaskRecords
  BY DEF CallTypes
<1>6. \A i \in 1..Len(tasks) : /\ tasks[i].op = "listen" => tasks[i].read \in Reads
                               /\ tasks[i].op = "remove" => tasks[i].read \in Reads
  BY <1>5 DEF TaskRecords
<1> QED
  BY <1>1, <1>2, <1>4, <1>6

\* What is in a sequence.
LEMMA InRange ==
    ASSUME NEW L, NEW ls \in Seq(L)
    PROVE  /\ RangeOf(ls) \subseteq L
           /\ \A r : r \in RangeOf(ls) <=> \E i \in 1..Len(ls) : ls[i] = r
<1>1. DOMAIN ls = 1..Len(ls) /\ \A i \in 1..Len(ls) : ls[i] \in L
  OBVIOUS
<1> QED
  BY <1>1 DEF RangeOf

\* A post has its fields.
LEMMA PostFields ==
    ASSUME NEW R, NEW B, NEW C, NEW r \in R, NEW b \in B, NEW c \in C
    PROVE  [read |-> r, ok |-> b, docs |-> c] \in [read : R, ok : B, docs : C]
  OBVIOUS

\* Posts for the calls of sequence s go behind the others.
LEMMA PostsAdded ==
    ASSUME main \in Seq(Posts), NEW s \in Seq(Reads), NEW o \in BOOLEAN, NEW D \in SUBSET Docs,
           main' = main \o [i \in DOMAIN s |-> [read |-> s[i], ok |-> o, docs |-> D]]
    PROVE  /\ main' \in Seq(Posts) /\ Len(main') = Len(main) + Len(s)
           /\ \A i \in 1..Len(main) : main'[i] = main[i]
           /\ \A k \in 1..Len(s) : main'[Len(main) + k] = [read |-> s[k], ok |-> o, docs |-> D]
<1> DEFINE a == [i \in DOMAIN s |-> [read |-> s[i], ok |-> o, docs |-> D]]
<1>1. DOMAIN s = 1..Len(s) /\ Len(s) \in Nat /\ \A k \in 1..Len(s) : s[k] \in Reads
  OBVIOUS
<1>2. ASSUME NEW k \in 1..Len(s) PROVE [read |-> s[k], ok |-> o, docs |-> D] \in Posts
  <2>1. s[k] \in Reads
    BY <1>1
  <2>2. [read |-> s[k], ok |-> o, docs |-> D] \in [read : Reads, ok : BOOLEAN, docs : SUBSET Docs]
    BY <2>1, PostFields, Zenon
  <2> QED
    BY <2>2, Zenon DEF Posts
<1>3. a \in Seq(Posts) /\ Len(a) = Len(s)
  BY <1>1, <1>2
<1>4. \A k \in 1..Len(s) : a[k] = [read |-> s[k], ok |-> o, docs |-> D]
  BY <1>1
<1> HIDE DEF a
<1>5. main' = main \o a
  BY DEF a
<1>6. /\ main' \in Seq(Posts) /\ Len(main') = Len(main) + Len(a)
      /\ \A i \in 1..(Len(main) + Len(a)) :
            main'[i] = IF i <= Len(main) THEN main[i] ELSE a[i - Len(main)]
  <2>1. main \o a \in Seq(Posts)
    BY <1>3, ConcatProperties
  <2>2. Len(main \o a) = Len(main) + Len(a)
    BY <1>3, ConcatProperties
  <2>3. \A i \in 1..(Len(main) + Len(a)) :
           (main \o a)[i] = IF i <= Len(main) THEN main[i] ELSE a[i - Len(main)]
    BY <1>3, ConcatProperties
  <2> QED
    BY <1>5, <2>1, <2>2, <2>3
<1>7. \A i \in 1..Len(main) : i \in 1..(Len(main) + Len(a)) /\ i <= Len(main)
  BY <1>3
<1>8. \A k \in 1..Len(s) : /\ Len(main) + k \in 1..(Len(main) + Len(a))
                           /\ ~(Len(main) + k <= Len(main)) /\ (Len(main) + k) - Len(main) = k
  BY <1>3
<1> QED
  BY <1>3, <1>4, <1>6, <1>7, <1>8

\* A post that goes behind the others may do so: what is posted for the first
\* time has its predecessor before it.
LEMMA PostMayFollow ==
    ASSUME CallTypes, AnsweredInOrder, NEW ls \in Seq(Reads), NEW ts, Posting(ls), Listening(ls),
           Asking(ts, ls), Covering(ts, ls),
           NEW s \in Seq(Reads), Increasing(s), RangeOf(s) \subseteq RangeOf(ls),
           RangeOf(ls) \ raised \subseteq RangeOf(s) \/ RangeOf(s) \subseteq raised,
           NEW k \in 1..Len(s)
    PROVE  /\ s[k] <= Len(since)
           /\ s[k] <= Len(answered) => s[k] \in muted
           /\ s[k] > Len(answered) + 1 =>
                 Posted(s[k] - 1) \/ \E l \in 1..(k - 1) : s[l] = s[k] - 1
<1> DEFINE q == s[k]
<1>1. q \in Reads /\ q \in Nat /\ Len(answered) \in Nat /\ Len(since) \in Nat
  BY Numbers
<1>2. q \in RangeOf(ls) /\ q \in RangeOf(s)
  BY InRange
<1>3. q <= Len(since)
  BY <1>2 DEF Listening
<1> HIDE DEF q
<1>4. CASE q \in raised
  <2>1. q \in muted \/ Posted(q)
    BY <1>2, <1>4 DEF Listening
  <2>2. q \in muted => q <= Len(answered)
    BY DEF AnsweredInOrder
  <2>3. ASSUME Posted(q)
        PROVE  /\ q <= Len(answered) => q \in muted
               /\ q > Len(answered) + 1 => Posted(q - 1)
    <3>1. PICK i \in 1..Len(main) : main[i].read = q
      BY <2>3 DEF Posted
    <3>2. q > Len(answered) + 1 => \E j \in 1..(i - 1) : main[j].read = q - 1
      BY <3>1 DEF Posting
    <3>3. \A j \in 1..(i - 1) : j \in 1..Len(main)
      BY Numbers
    <3> QED
      BY <3>1, <3>2, <3>3 DEF Posting, Posted
  <2>4. ~(q <= Len(answered) /\ q > Len(answered) + 1)
    BY <1>1
  <2> QED
    BY <1>3, <2>1, <2>2, <2>3, <2>4 DEF q
<1>5. CASE q \notin raised
  <2>1. q > Len(answered)
    BY <1>2, <1>5 DEF Listening
  <2>2. ASSUME q > Len(answered) + 1, ~Posted(q - 1) PROVE \E l \in 1..(k - 1) : s[l] = q - 1
    <3>1. q - 1 \in (Len(answered) + 1)..Len(since)
      BY <1>1, <1>3, <2>2
    <3>2. ASSUME NEW i \in 1..Len(ts), Asks(ts[i], q - 1) PROVE FALSE
      <4>1. q < q - 1
        BY <1>2, <3>2 DEF Asks, Asking
      <4> QED
        BY <1>1, <4>1
    <3>3. q - 1 \in RangeOf(ls) \ raised
      BY <2>2, <3>1, <3>2 DEF Covering
    <3>4. q - 1 \in RangeOf(s)
      BY <1>2, <1>5, <3>3
    <3>5. PICK l \in 1..Len(s) : s[l] = q - 1
      BY <3>4, InRange
    <3>6. ~(k < l) /\ k # l
      BY <1>1, <3>5 DEF Increasing, q
    <3>7. l \in 1..(k - 1)
      BY <3>6
    <3> QED
      BY <3>5, <3>7
  <2>3. ~(q <= Len(answered))
    BY <1>1, <2>1
  <2> QED
    BY <1>3, <2>2, <2>3 DEF q
<1> QED
  BY <1>4, <1>5

\* The order of the posts, when such posts are added.
LEMMA PostsInOrder ==
    ASSUME CallTypes, AnsweredInOrder, NEW ls \in Seq(Reads), NEW ts, Posting(ls), Listening(ls),
           Asking(ts, ls), Covering(ts, ls),
           NEW s \in Seq(Reads), Increasing(s), RangeOf(s) \subseteq RangeOf(ls),
           RangeOf(ls) \ raised \subseteq RangeOf(s) \/ RangeOf(s) \subseteq raised,
           Len(main') = Len(main) + Len(s),
           \A i \in 1..Len(main) : main'[i] = main[i],
           \A k \in 1..Len(s) : main'[Len(main) + k].read = s[k],
           NEW i \in 1..Len(main')
    PROVE  /\ main'[i].read <= Len(since)
           /\ main'[i].read <= Len(answered) => main'[i].read \in muted
           /\ main'[i].read > Len(answered) + 1 =>
                 \E j \in 1..(i - 1) : main'[j].read = main'[i].read - 1
<1>1. Len(main) \in Nat /\ Len(s) \in Nat /\ i \in Nat
  BY Numbers
<1>2. CASE i <= Len(main)
  <2>1. i \in 1..Len(main) /\ main'[i] = main[i]
    BY <1>1, <1>2
  <2>2. \A j \in 1..(i - 1) : j \in 1..Len(main) /\ main'[j] = main[j]
    BY <1>1, <1>2
  <2> QED
    BY <2>1, <2>2 DEF Posting
<1>3. CASE i > Len(main)
  <2>1. PICK k \in 1..Len(s) : i = Len(main) + k
    <3>1. i - Len(main) \in 1..Len(s) /\ i = Len(main) + (i - Len(main))
      BY <1>1, <1>3
    <3> QED
      BY <3>1
  <2>2. main'[i].read = s[k]
    BY <2>1
  <2>3. /\ s[k] <= Len(since)
        /\ s[k] <= Len(answered) => s[k] \in muted
        /\ s[k] > Len(answered) + 1 =>
              Posted(s[k] - 1) \/ \E l \in 1..(k - 1) : s[l] = s[k] - 1
    BY PostMayFollow
  <2>4. ASSUME Posted(s[k] - 1) PROVE \E j \in 1..(i - 1) : main'[j].read = s[k] - 1
    <3>1. PICK j \in 1..Len(main) : main[j].read = s[k] - 1
      BY <2>4 DEF Posted
    <3>2. j \in 1..(i - 1) /\ main'[j] = main[j]
      BY <1>1, <1>3
    <3> QED
      BY <3>1, <3>2
  <2>5. ASSUME NEW l \in 1..(k - 1), s[l] = s[k] - 1
        PROVE  \E j \in 1..(i - 1) : main'[j].read = s[k] - 1
    <3>1. l \in 1..Len(s) /\ Len(main) + l \in 1..(i - 1)
      BY <1>1, <2>1
    <3>2. main'[Len(main) + l].read = s[l]
      BY <3>1
    <3> QED
      BY <2>5, <3>1, <3>2
  <2> QED
    BY <2>2, <2>3, <2>4, <2>5
<1> QED
  BY <1>1, <1>2, <1>3

\* Who hears: those without a snapshot all or none.
LEMMA NotifyFacts ==
    ASSUME NEW ls \in Seq(Reads), Increasing(ls), Notify(ls)
    PROVE  \E s \in Seq(Reads) :
              /\ Increasing(s) /\ RangeOf(s) \subseteq RangeOf(ls)
              /\ RangeOf(ls) \ raised \subseteq RangeOf(s) \/ RangeOf(s) \subseteq raised
              /\ raised' = raised \cup RangeOf(s)
              /\ main' = main \o [i \in DOMAIN s |->
                             [read |-> s[i], ok |-> TRUE, docs |-> Under(server', saved')]]
<1> DEFINE docs == Under(server', saved')
           atOnce == online' = "Offline"
           news == docs # local \/ (current' = 0) # (current = 0)
           Hears(q) == IF q \in raised THEN news ELSE current' # 0 \/ atOnce
           hearers == {r \in RangeOf(ls) : Hears(r)}
           s == Those(ls, hearers)
<1>1. /\ raised' = raised \cup hearers
      /\ main' = main \o [i \in DOMAIN s |-> [read |-> s[i], ok |-> TRUE, docs |-> docs]]
  BY Zenon DEF Notify, Raise
<1>2. \/ \A r \in RangeOf(ls) : r \notin raised => Hears(r)
      \/ \A r \in RangeOf(ls) : r \notin raised => ~Hears(r)
  BY Zenon
<1>3. hearers \subseteq RangeOf(ls)
  BY Zenon
<1>4. RangeOf(ls) \ raised \subseteq hearers \/ hearers \subseteq raised
  BY <1>2, Zenon
<1> HIDE DEF Hears
<1> HIDE DEF hearers
<1>5. s \in Seq(Reads) /\ RangeOf(s) = RangeOf(ls) \cap hearers /\ Increasing(s)
  BY ThoseFacts
<1>6. RangeOf(s) = hearers
  BY <1>3, <1>5
<1> HIDE DEF s
<1> QED
  BY <1>1, <1>3, <1>4, <1>5, <1>6, Zenon

\* Snapshots, for listeners ls while tasks ts are left: the calls go on.
LEMMA NotifyCalls ==
    ASSUME CallTypes, AnsweredInOrder, NEW ls \in Seq(Reads), NEW ts \in Seq(TaskRecords),
           Posting(ls), Listening(ls), Asking(ts, ls), Covering(ts, ls),
           Notify(ls), tasks' = ts, UNCHANGED <<answered, muted>>,
           since' \in Seq(Views), Len(since') = Len(since)
    PROVE  CallsInv'
<1> DEFINE D == Under(server', saved')
<1>1. PICK s \in Seq(Reads) :
         /\ Increasing(s) /\ RangeOf(s) \subseteq RangeOf(ls)
         /\ RangeOf(ls) \ raised \subseteq RangeOf(s) \/ RangeOf(s) \subseteq raised
         /\ raised' = raised \cup RangeOf(s)
         /\ main' = main \o [i \in DOMAIN s |-> [read |-> s[i], ok |-> TRUE, docs |-> D]]
  <2>1. Increasing(ls)
    BY DEF Listening
  <2> QED
    BY <2>1, NotifyFacts
<1>2. D \in SUBSET Docs
  BY DEF Under
<1> HIDE DEF D
<1>3. listeners' = ls
  BY NotifyListeners
<1>4. /\ main' \in Seq(Posts) /\ Len(main') = Len(main) + Len(s)
      /\ \A i \in 1..Len(main) : main'[i] = main[i]
      /\ \A k \in 1..Len(s) : main'[Len(main) + k] = [read |-> s[k], ok |-> TRUE, docs |-> D]
  <2>1. main \in Seq(Posts)
    BY DEF CallTypes
  <2> QED
    BY <1>1, <1>2, <2>1, PostsAdded
<1>5. \A k \in 1..Len(s) : main'[Len(main) + k].read = s[k] /\ main'[Len(main) + k].ok
  <2> TAKE k \in 1..Len(s)
  <2> DEFINE p == [read |-> s[k], ok |-> TRUE, docs |-> D]
  <2>1. main'[Len(main) + k] = p
    BY <1>4
  <2>2. p.read = s[k]
    OBVIOUS
  <2>3. p.ok
    BY Zenon
  <2> HIDE DEF p
  <2> QED
    BY <2>1, <2>2, <2>3, Zenon
<1>6. /\ Len(main) \in Nat /\ Len(s) \in Nat /\ Len(main') \in Nat /\ DOMAIN s = 1..Len(s)
      /\ Len(answered) \in Nat /\ Len(since) \in Nat
      /\ \A i \in 1..Len(main') : i \in 1..Len(main) \/ \E k \in 1..Len(s) : i = Len(main) + k
  <2>1. Len(main) \in Nat /\ Len(s) \in Nat /\ DOMAIN s = 1..Len(s)
        /\ Len(answered) \in Nat /\ Len(since) \in Nat
    BY Numbers
  <2>2. ASSUME NEW i \in 1..Len(main'), i \notin 1..Len(main) PROVE \E k \in 1..Len(s) : i = Len(main) + k
    <3>1. i - Len(main) \in 1..Len(s) /\ i = Len(main) + (i - Len(main))
      BY <1>4, <2>1, <2>2
    <3> QED
      BY <3>1
  <2> QED
    BY <1>4, <2>1, <2>2
<1>7. \A r : r \in RangeOf(s) <=> \E k \in 1..Len(s) : s[k] = r
  BY InRange
<1>8. \A i \in 1..Len(main') : i \in 1..Len(main) \/ main'[i].read \in RangeOf(s)
  BY <1>5, <1>6, <1>7
<1>9. \A r \in RangeOf(ls) : r \in Reads /\ r \in Nat
  BY Numbers, InRange
<1>10. CallTypes'
  <2>1. RangeOf(s) \subseteq Reads
    BY InRange
  <2> QED
    BY <1>1, <1>3, <1>4, <2>1 DEF CallTypes
<1>11. AnsweredInOrder'
  <2>1. \A r \in RangeOf(s) : r <= Len(since)
    BY <1>1 DEF Listening
  <2> QED
    BY <1>1, <2>1 DEF AnsweredInOrder
<1>12. Posting(ls)'
  <2> SUFFICES ASSUME NEW i \in 1..Len(main')
               PROVE  /\ main'[i].read <= Len(since)
                      /\ main'[i].read <= Len(answered) => main'[i].read \in muted
                      /\ main'[i].read > Len(answered) + 1 =>
                            \E j \in 1..(i - 1) : main'[j].read = main'[i].read - 1
                      /\ ~main'[i].ok => /\ main'[i].read \notin RangeOf(ls)
                                         /\ \A j \in (i + 1)..Len(main') : main'[j].read # main'[i].read
    BY Zenon DEF Posting
  <2>1. /\ main'[i].read <= Len(since)
        /\ main'[i].read <= Len(answered) => main'[i].read \in muted
        /\ main'[i].read > Len(answered) + 1 =>
              \E j \in 1..(i - 1) : main'[j].read = main'[i].read - 1
    BY <1>1, <1>4, <1>5, PostsInOrder
  <2>2. ASSUME ~main'[i].ok PROVE /\ main'[i].read \notin RangeOf(ls)
                                  /\ \A j \in (i + 1)..Len(main') : main'[j].read # main'[i].read
    <3>1. i \in 1..Len(main) /\ main'[i] = main[i]
      BY <1>4, <1>5, <1>6, <2>2, Zenon
    <3>2. ~main[i].ok
      BY <2>2, <3>1, Zenon
    <3>3. main[i].read \notin RangeOf(ls) /\ \A j \in (i + 1)..Len(main) : main[j].read # main[i].read
      BY <3>1, <3>2, Zenon DEF Posting
    <3>4. ASSUME NEW j \in (i + 1)..Len(main') PROVE main'[j].read # main'[i].read
      <4>1. j \in 1..Len(main') /\ (j \in 1..Len(main) => j \in (i + 1)..Len(main))
        BY <1>6, <3>1
      <4>2. CASE j \in 1..Len(main)
        BY <1>4, <3>1, <3>3, <4>1, <4>2
      <4>3. CASE main'[j].read \in RangeOf(s)
        BY <1>1, <3>1, <3>3, <4>3
      <4> QED
        BY <1>8, <4>1, <4>2, <4>3
    <3> QED
      BY <3>1, <3>3, <3>4
  <2> QED
    BY <2>1, <2>2, Zenon
<1>13. Listening(ls)'
  <2>1. Increasing(ls) /\ \A r \in RangeOf(ls) : r <= Len(since)
    BY DEF Listening
  <2>2. ASSUME NEW r \in RangeOf(ls), r \in raised' PROVE r \in muted \/ Posted(r)'
    <3>1. CASE r \in RangeOf(s)
      <4>1. PICK k \in 1..Len(s) : s[k] = r
        BY <1>7, <3>1
      <4>2. Len(main) + k \in 1..Len(main') /\ main'[Len(main) + k].read = r
        BY <1>4, <1>5, <1>6, <4>1
      <4> QED
        BY <4>2 DEF Posted
    <3>2. CASE r \in raised
      <4>1. r \in muted \/ Posted(r)
        BY <3>2 DEF Listening
      <4>2. ASSUME Posted(r) PROVE Posted(r)'
        <5>1. PICK i \in 1..Len(main) : main[i].read = r
          BY <4>2 DEF Posted
        <5>2. i \in 1..Len(main') /\ main'[i].read = r
          BY <1>4, <1>6, <5>1
        <5> QED
          BY <5>2 DEF Posted
      <4> QED
        BY <4>1, <4>2
    <3> QED
      BY <1>1, <2>2, <3>1, <3>2
  <2>3. ASSUME NEW r \in RangeOf(ls), r \notin raised'
        PROVE  r > Len(answered) /\ \A i \in 1..Len(main') : main'[i].read < r
    <3>1. r \notin raised /\ r \notin RangeOf(s)
      BY <1>1, <2>3
    <3>2. r > Len(answered) /\ \A i \in 1..Len(main) : main[i].read < r
      BY <3>1 DEF Listening
    <3>3. RangeOf(s) \subseteq raised
      BY <1>1, <3>1
    <3>4. ASSUME NEW q \in RangeOf(s) PROVE q < r
      <4>1. q \in RangeOf(ls) /\ q \in raised
        BY <1>1, <3>3
      <4>2. q \in muted \/ Posted(q)
        BY <4>1 DEF Listening
      <4>3. ASSUME q \in muted PROVE q < r
        <5>1. q <= Len(answered)
          BY <4>3 DEF AnsweredInOrder
        <5> QED
          BY <1>6, <1>9, <3>2, <4>1, <5>1
      <4> QED
        BY <3>2, <4>2, <4>3 DEF Posted
    <3>5. \A i \in 1..Len(main') : main'[i].read < r
      BY <1>4, <1>8, <3>2, <3>4
    <3> QED
      BY <3>2, <3>5
  <2> QED
    BY <2>1, <2>2, <2>3 DEF Listening
<1>14. Asking(ts, ls)'
  <2> SUFFICES ASSUME NEW i \in 1..Len(ts)
               PROVE  /\ ts[i].op = "listen" =>
                            /\ Len(answered) < ts[i].read /\ ts[i].read <= Len(since)
                            /\ \A r \in raised' \cup RangeOf(ls) : r < ts[i].read
                            /\ \A j \in 1..Len(main') : main'[j].read < ts[i].read
                            /\ \A k \in 1..Len(ts) : i < k /\ ts[k].op = "listen" => ts[i].read < ts[k].read
                      /\ ts[i].op = "remove" => ts[i].read \in muted
    BY Zenon DEF Asking
  <2>1. ASSUME ts[i].op = "listen", NEW j \in 1..Len(main') PROVE main'[j].read < ts[i].read
    <3>1. \A r \in RangeOf(s) : r < ts[i].read
      BY <1>1, <2>1 DEF Asking
    <3>2. \A k \in 1..Len(main) : main[k].read < ts[i].read
      BY <2>1 DEF Asking
    <3> QED
      BY <1>4, <1>8, <3>1, <3>2
  <2>2. ts[i].op = "listen" => \A r \in raised' \cup RangeOf(ls) : r < ts[i].read
    BY <1>1 DEF Asking
  <2>3. /\ ts[i].op = "listen" =>
              /\ Len(answered) < ts[i].read /\ ts[i].read <= Len(since)
              /\ \A k \in 1..Len(ts) : i < k /\ ts[k].op = "listen" => ts[i].read < ts[k].read
        /\ ts[i].op = "remove" => ts[i].read \in muted
    BY DEF Asking
  <2> QED
    BY <2>1, <2>2, <2>3, Zenon
<1>15. Covering(ts, ls)'
  <2> SUFFICES ASSUME NEW r \in (Len(answered) + 1)..Len(since)
               PROVE  \/ Posted(r)'
                      \/ r \in RangeOf(ls) \ raised'
                      \/ \E i \in 1..Len(ts) : Asks(ts[i], r)
    BY DEF Covering
  <2>1. ASSUME Posted(r) PROVE Posted(r)'
    <3>1. PICK i \in 1..Len(main) : main[i].read = r
      BY <2>1 DEF Posted
    <3>2. i \in 1..Len(main') /\ main'[i].read = r
      BY <1>4, <1>6, <3>1
    <3> QED
      BY <3>2 DEF Posted
  <2>2. ASSUME r \in RangeOf(s) PROVE Posted(r)'
    <3>1. PICK k \in 1..Len(s) : s[k] = r
      BY <1>7, <2>2
    <3>2. Len(main) + k \in 1..Len(main') /\ main'[Len(main) + k].read = r
      BY <1>4, <1>5, <1>6, <3>1
    <3> QED
      BY <3>2 DEF Posted
  <2>3. r \in RangeOf(ls) \ raised => r \in RangeOf(s) \/ r \in RangeOf(ls) \ raised'
    BY <1>1
  <2> QED
    BY <2>1, <2>2, <2>3 DEF Covering
<1> QED
  BY <1>3, <1>10, <1>11, <1>12, <1>13, <1>14, <1>15 DEF CallsInv

\* A sequence with one more element.
LEMMA RangeAppend ==
    ASSUME NEW L, NEW s \in Seq(L), NEW x \in L
    PROVE  RangeOf(Append(s, x)) = RangeOf(s) \cup {x}
<1> DEFINE a == Append(s, x)
<1>1. a \in Seq(L) /\ Len(a) = Len(s) + 1 /\ Len(s) \in Nat /\ a[Len(a)] = x
      /\ \A i \in 1..Len(s) : a[i] = s[i]
  OBVIOUS
<1> HIDE DEF a
<1>2. \A q : q \in RangeOf(s) <=> \E i \in 1..Len(s) : s[i] = q
  BY InRange
<1>3. \A q : q \in RangeOf(a) <=> \E i \in 1..Len(a) : a[i] = q
  BY <1>1, InRange
<1>4. Len(a) \in 1..Len(a) /\ \A i \in 1..Len(s) : i \in 1..Len(a)
  BY <1>1
<1>5. \A i \in 1..Len(a) : i \in 1..Len(s) \/ i = Len(a)
  BY <1>1
<1>6. \A q : q \in RangeOf(a) <=> q \in RangeOf(s) \/ q = x
  BY <1>1, <1>2, <1>3, <1>4, <1>5
<1> QED
  BY <1>6 DEF a

\* The tasks behind the first one.
LEMMA TasksLeft ==
    ASSUME CallsInv, tasks # <<>>, NEW ts, ts = Tail(tasks)
    PROVE  /\ ts \in Seq(TaskRecords)
           /\ 1 \in 1..Len(tasks) /\ Head(tasks) = tasks[1]
           /\ Len(ts) \in Nat /\ Len(ts) = Len(tasks) - 1
           /\ \A i \in 1..Len(ts) : i + 1 \in 1..Len(tasks) /\ ts[i] = tasks[i + 1]
           /\ \A r : (\E i \in 1..Len(tasks) : Asks(tasks[i], r)) =>
                        Asks(Head(tasks), r) \/ \E k \in 1..Len(ts) : Asks(ts[k], r)
           /\ Asking(ts, listeners)
<1>1. tasks \in Seq(TaskRecords) /\ Len(tasks) \in Nat /\ Len(tasks) # 0
  BY EmptySeq DEF CallsInv, CallTypes
<1>2. 1 \in 1..Len(tasks) /\ Head(tasks) = tasks[1]
  BY <1>1
<1>3. ts \in Seq(TaskRecords) /\ Len(ts) = Len(tasks) - 1
      /\ \A i \in 1..Len(ts) : ts[i] = tasks[i + 1]
  BY <1>1
<1>4. Len(ts) \in Nat /\ \A i \in 1..Len(ts) : i + 1 \in 1..Len(tasks)
  BY <1>1, <1>3
<1>5. ASSUME NEW r, NEW i \in 1..Len(tasks), Asks(tasks[i], r), ~Asks(tasks[1], r)
      PROVE  \E k \in 1..Len(ts) : Asks(ts[k], r)
  <2>1. i # 1
    BY <1>5
  <2>2. i - 1 \in 1..Len(ts) /\ (i - 1) + 1 = i
    BY <1>1, <1>3, <2>1
  <2>3. ts[i - 1] = tasks[i]
    BY <1>3, <2>2
  <2> QED
    BY <1>5, <2>2, <2>3
<1>6. \A i \in 1..Len(ts) : \A k \in 1..Len(ts) : i < k => i + 1 < k + 1
  BY <1>4
<1>7. Asking(ts, listeners)
  <2>1. Asking(tasks, listeners)
    BY DEF CallsInv
  <2> QED
    BY <1>3, <1>4, <1>6, <2>1 DEF Asking
<1> QED
  BY <1>2, <1>3, <1>4, <1>5, <1>7

\* A task that adds no listener is done.
LEMMA TaskDone ==
    ASSUME CallsInv, tasks # <<>>, Head(tasks).op # "listen", NEW ts, ts = Tail(tasks)
    PROVE  Asking(ts, listeners) /\ Covering(ts, listeners) /\ ts \in Seq(TaskRecords)
<1>1. \A r : ~Asks(Head(tasks), r)
  BY DEF Asks
<1>2. Covering(tasks, listeners)
  BY DEF CallsInv
<1>3. \A r : (\E i \in 1..Len(tasks) : Asks(tasks[i], r)) => \E k \in 1..Len(ts) : Asks(ts[k], r)
  BY <1>1, TasksLeft
<1>4. Covering(ts, listeners)
  BY <1>2, <1>3 DEF Covering
<1> QED
  BY <1>4, TasksLeft

\* A listener that joins.
LEMMA Joined ==
    ASSUME CallsInv, tasks # <<>>, Head(tasks).op = "listen", NEW ts, ts = Tail(tasks),
           NEW ls, ls = Append(listeners, Head(tasks).read)
    PROVE  /\ ls \in Seq(Reads) /\ ts \in Seq(TaskRecords)
           /\ Posting(ls) /\ Listening(ls) /\ Asking(ts, ls) /\ Covering(ts, ls)
<1> DEFINE r == Head(tasks).read
<1>1. /\ 1 \in 1..Len(tasks) /\ Head(tasks) = tasks[1] /\ ts \in Seq(TaskRecords)
      /\ \A i \in 1..Len(ts) : i + 1 \in 1..Len(tasks) /\ ts[i] = tasks[i + 1]
  BY TasksLeft
<1>2. \A q : (\E i \in 1..Len(tasks) : Asks(tasks[i], q)) => q = r \/ \E k \in 1..Len(ts) : Asks(ts[k], q)
  <2>1. \A q : Asks(Head(tasks), q) => q = r
    BY DEF Asks
  <2>2. \A q : (\E i \in 1..Len(tasks) : Asks(tasks[i], q)) =>
                  Asks(Head(tasks), q) \/ \E k \in 1..Len(ts) : Asks(ts[k], q)
    BY TasksLeft
  <2> QED
    BY <2>1, <2>2
<1>3. Asking(ts, listeners)
  BY TasksLeft
<1>4. CallTypes /\ AnsweredInOrder /\ Posting(listeners) /\ Listening(listeners)
      /\ Asking(tasks, listeners) /\ Covering(tasks, listeners)
  BY DEF CallsInv
<1>5. r \in Reads /\ r \in Nat /\ Len(listeners) \in Nat
  BY <1>1, <1>4, Numbers
<1>6. /\ Len(answered) < r /\ r <= Len(since)
      /\ \A q \in raised \cup RangeOf(listeners) : q < r
      /\ \A j \in 1..Len(main) : main[j].read < r
      /\ \A k \in 1..Len(tasks) : 1 < k /\ tasks[k].op = "listen" => r < tasks[k].read
  BY <1>1, <1>4 DEF Asking
<1>7. \A i \in 1..Len(ts) : ts[i].op = "listen" => r < ts[i].read
  <2>1. \A i \in 1..Len(ts) : 1 < i + 1
    OBVIOUS
  <2> QED
    BY <1>1, <1>6, <2>1
<1> HIDE DEF r
<1>8. /\ ls \in Seq(Reads) /\ Len(ls) = Len(listeners) + 1 /\ ls[Len(ls)] = r
      /\ \A i \in 1..Len(listeners) : ls[i] = listeners[i]
  <2>1. ls = Append(listeners, r) /\ listeners \in Seq(Reads)
    BY <1>4 DEF r, CallTypes
  <2> QED
    BY <1>5, <2>1
<1>9. RangeOf(ls) = RangeOf(listeners) \cup {r}
  <2>1. listeners \in Seq(Reads)
    BY <1>4 DEF CallTypes
  <2> QED
    BY <1>5, <2>1, RangeAppend DEF r
<1>10. r \notin raised
  BY <1>5, <1>6
<1>11. Posting(ls)
  <2>1. \A i \in 1..Len(main) : main[i].read # r
    BY <1>5, <1>6
  <2> QED
    BY <1>4, <1>9, <2>1, Zenon DEF Posting
<1>12. Increasing(ls)
  <2> SUFFICES ASSUME NEW i \in 1..Len(ls), NEW k \in 1..Len(ls), i < k PROVE ls[i] < ls[k]
    BY DEF Increasing
  <2>1. i \in 1..Len(listeners)
    BY <1>5, <1>8
  <2>2. listeners[i] \in RangeOf(listeners) /\ ls[i] = listeners[i]
    <3>1. listeners \in Seq(Reads)
      BY <1>4 DEF CallTypes
    <3> QED
      BY <1>8, <2>1, <3>1, InRange
  <2>3. CASE k = Len(ls)
    BY <1>6, <1>8, <2>2, <2>3
  <2>4. CASE k # Len(ls)
    <3>1. k \in 1..Len(listeners)
      BY <1>5, <1>8, <2>4
    <3> QED
      BY <1>4, <1>8, <2>1, <3>1 DEF Listening, Increasing
  <2> QED
    BY <2>3, <2>4
<1>13. Listening(ls)
  <2>1. r > Len(answered) /\ \A i \in 1..Len(main) : main[i].read < r
    <3>1. Len(answered) \in Nat
      BY <1>4, Numbers
    <3> QED
      BY <1>5, <1>6, <3>1
  <2>2. \A q \in RangeOf(ls) : q <= Len(since)
    BY <1>4, <1>6, <1>9 DEF Listening
  <2>3. \A q \in RangeOf(ls) \cap raised : q \in muted \/ Posted(q)
    BY <1>4, <1>9, <1>10 DEF Listening
  <2>4. \A q \in RangeOf(ls) \ raised : q > Len(answered) /\ \A i \in 1..Len(main) : main[i].read < q
    BY <1>4, <1>9, <2>1 DEF Listening
  <2> QED
    BY <1>12, <2>2, <2>3, <2>4 DEF Listening
<1>14. Asking(ts, ls)
  BY <1>3, <1>7, <1>9 DEF Asking
<1>15. Covering(ts, ls)
  BY <1>2, <1>4, <1>9, <1>10 DEF Covering
<1> QED
  BY <1>1, <1>8, <1>11, <1>13, <1>14, <1>15

\* A listener that goes.
LEMMA Left ==
    ASSUME CallsInv, tasks # <<>>, Head(tasks).op = "remove", NEW ts, ts = Tail(tasks),
           NEW ls, ls = Erased(listeners, Head(tasks).read)
    PROVE  /\ ls \in Seq(Reads) /\ ts \in Seq(TaskRecords)
           /\ Posting(ls) /\ Listening(ls) /\ Asking(ts, ls) /\ Covering(ts, ls)
<1> DEFINE r == Head(tasks).read
<1>1. CallTypes /\ AnsweredInOrder /\ Posting(listeners) /\ Listening(listeners)
      /\ Asking(tasks, listeners)
  BY DEF CallsInv
<1>2. r \in muted
  <2>1. 1 \in 1..Len(tasks) /\ Head(tasks) = tasks[1]
    BY TasksLeft
  <2> QED
    BY <1>1, <2>1 DEF Asking
<1>3. r <= Len(answered) /\ r \in Nat /\ Len(answered) \in Nat
  BY <1>1, <1>2, Numbers DEF AnsweredInOrder, CallTypes
<1>4. Asking(ts, listeners) /\ Covering(ts, listeners) /\ ts \in Seq(TaskRecords)
  BY TaskDone
<1> HIDE DEF r
<1>5. ls \in Seq(Reads) /\ RangeOf(ls) = RangeOf(listeners) \ {r} /\ Increasing(ls)
  <2>1. listeners \in Seq(Reads) /\ Increasing(listeners)
    BY <1>1 DEF CallTypes, Listening
  <2> QED
    BY <2>1, ErasedListeners DEF r
<1>6. RangeOf(ls) \subseteq RangeOf(listeners)
  BY <1>5
<1>7. Posting(ls)
  BY <1>1, <1>6, Zenon DEF Posting
<1>8. Listening(ls)
  BY <1>1, <1>5, <1>6 DEF Listening
<1>9. Asking(ts, ls)
  BY <1>4, <1>6 DEF Asking
<1>10. Covering(ts, ls)
  <2>1. \A q \in (Len(answered) + 1)..Len(since) : q # r
    BY <1>3
  <2> QED
    BY <1>4, <1>5, <2>1 DEF Covering
<1> QED
  BY <1>4, <1>5, <1>7, <1>8, <1>9, <1>10

\* The query is refused: its listeners have an error as their last post.
LEMMA ErrorCalls ==
    ASSUME CallsInv, TargetError
    PROVE  CallsInv'
<1>1. CallTypes /\ AnsweredInOrder /\ Posting(listeners) /\ Listening(listeners)
      /\ Asking(tasks, listeners) /\ Covering(tasks, listeners) /\ listeners \in Seq(Reads)
      /\ Increasing(listeners)
  BY DEF CallsInv, CallTypes, Listening
<1>2. /\ main' = main \o [i \in DOMAIN listeners |-> [read |-> listeners[i], ok |-> FALSE, docs |-> {}]]
      /\ listeners' = <<>> /\ raised' = raised
      /\ tasks' = tasks /\ answered' = answered /\ muted' = muted /\ since' = since
  BY DEF TargetError, Message, historyVars
<1> DEFINE s == listeners
<1>3. /\ main' \in Seq(Posts) /\ Len(main') = Len(main) + Len(s)
      /\ \A i \in 1..Len(main) : main'[i] = main[i]
      /\ \A k \in 1..Len(s) : main'[Len(main) + k] = [read |-> s[k], ok |-> FALSE, docs |-> {}]
  <2>1. main \in Seq(Posts)
    BY <1>1 DEF CallTypes
  <2>2. FALSE \in BOOLEAN /\ {} \in SUBSET Docs
    BY Zenon
  <2> QED
    BY <1>1, <1>2, <2>1, <2>2, PostsAdded
<1>4. \A k \in 1..Len(s) : main'[Len(main) + k].read = s[k]
  <2> TAKE k \in 1..Len(s)
  <2> DEFINE p == [read |-> s[k], ok |-> FALSE, docs |-> {}]
  <2>1. main'[Len(main) + k] = p
    BY <1>3
  <2>2. p.read = s[k]
    OBVIOUS
  <2> HIDE DEF p
  <2> QED
    BY <2>1, <2>2
<1>5. /\ Len(main) \in Nat /\ Len(s) \in Nat /\ Len(main') \in Nat
      /\ Len(answered) \in Nat /\ Len(since) \in Nat
      /\ \A i \in 1..Len(main') : i \in 1..Len(main) \/ \E k \in 1..Len(s) : i = Len(main) + k
  <2>1. Len(main) \in Nat /\ Len(s) \in Nat /\ Len(answered) \in Nat /\ Len(since) \in Nat
    BY <1>1, Numbers
  <2>2. ASSUME NEW i \in 1..Len(main'), i \notin 1..Len(main) PROVE \E k \in 1..Len(s) : i = Len(main) + k
    <3>1. i - Len(main) \in 1..Len(s) /\ i = Len(main) + (i - Len(main))
      BY <1>3, <2>1, <2>2
    <3> QED
      BY <3>1
  <2> QED
    BY <1>3, <2>1, <2>2
<1>6. \A r : r \in RangeOf(s) <=> \E k \in 1..Len(s) : s[k] = r
  BY <1>1, InRange
<1>7. \A i \in 1..Len(main') : i \in 1..Len(main) \/ main'[i].read \in RangeOf(s)
  BY <1>4, <1>5, <1>6
<1> HIDE DEF s
<1>8. <<>> \in Seq(Reads) /\ Len(<<>>) = 0
  BY EmptySeq, Zenon
<1>9. RangeOf(<<>>) = {}
  <2>1. \A r : r \in RangeOf(<<>>) <=> \E i \in 1..0 : <<>>[i] = r
    BY <1>8, InRange
  <2> QED
    BY <2>1
<1>10. CallTypes'
  BY <1>1, <1>2, <1>3, <1>8 DEF CallTypes
<1>11. AnsweredInOrder'
  BY <1>1, <1>2 DEF AnsweredInOrder
<1>12. \A i \in 1..Len(main') :
          /\ main'[i].read <= Len(since)
          /\ main'[i].read <= Len(answered) => main'[i].read \in muted
          /\ main'[i].read > Len(answered) + 1 =>
                \E j \in 1..(i - 1) : main'[j].read = main'[i].read - 1
  BY <1>1, <1>3, <1>4, PostsInOrder DEF s
<1>13. ASSUME NEW i \in 1..Len(main'), ~main'[i].ok, NEW j \in (i + 1)..Len(main')
       PROVE  main'[j].read # main'[i].read
  <2>1. j \in 1..Len(main') /\ (i > Len(main) => j > Len(main))
    BY <1>5
  <2>2. CASE i \in 1..Len(main)
    <3>1. main'[i] = main[i]
      BY <1>3, <2>2
    <3>2. ~main[i].ok
      BY <1>13, <3>1, Zenon
    <3>3. main[i].read \notin RangeOf(listeners) /\ \A k \in (i + 1)..Len(main) : main[k].read # main[i].read
      BY <1>1, <2>2, <3>2, Zenon DEF Posting
    <3>4. j \in 1..Len(main) => j \in (i + 1)..Len(main)
      BY <1>5
    <3>5. j \in 1..Len(main) => main'[j].read # main'[i].read
      BY <1>3, <3>1, <3>3, <3>4
    <3>6. main'[j].read \in RangeOf(s) => main'[j].read # main'[i].read
      BY <3>1, <3>3 DEF s
    <3> QED
      BY <1>7, <2>1, <3>5, <3>6
  <2>3. ASSUME NEW k \in 1..Len(s), i = Len(main) + k PROVE main'[j].read # main'[i].read
    <3>1. j - Len(main) \in 1..Len(s) /\ Len(main) + (j - Len(main)) = j /\ k < j - Len(main)
      BY <1>3, <1>5, <2>3
    <3>2. s[k] < s[j - Len(main)]
      BY <1>1, <3>1 DEF Increasing, s
    <3>3. s[k] \in Nat /\ s[j - Len(main)] \in Nat
      BY <1>1, <3>1, Numbers, InRange DEF s
    <3>4. main'[i].read = s[k] /\ main'[j].read = s[j - Len(main)]
      BY <1>4, <2>3, <3>1
    <3> QED
      BY <3>2, <3>3, <3>4
  <2> QED
    BY <1>5, <2>2, <2>3
<1>14. Posting(<<>>)'
  <2> SUFFICES ASSUME NEW i \in 1..Len(main')
               PROVE  /\ main'[i].read <= Len(since)
                      /\ main'[i].read <= Len(answered) => main'[i].read \in muted
                      /\ main'[i].read > Len(answered) + 1 =>
                            \E j \in 1..(i - 1) : main'[j].read = main'[i].read - 1
                      /\ ~main'[i].ok => /\ main'[i].read \notin RangeOf(<<>>)
                                         /\ \A j \in (i + 1)..Len(main') : main'[j].read # main'[i].read
    BY <1>2, Zenon DEF Posting
  <2> QED
    BY <1>9, <1>12, <1>13, Zenon
<1>15. Listening(<<>>)'
  <2>1. Increasing(<<>>)
    BY <1>8 DEF Increasing
  <2> QED
    BY <1>9, <2>1 DEF Listening
<1>16. Asking(tasks, <<>>)'
  <2> SUFFICES ASSUME NEW i \in 1..Len(tasks)
               PROVE  /\ tasks[i].op = "listen" =>
                            /\ Len(answered) < tasks[i].read /\ tasks[i].read <= Len(since)
                            /\ \A r \in raised \cup RangeOf(<<>>) : r < tasks[i].read
                            /\ \A j \in 1..Len(main') : main'[j].read < tasks[i].read
                            /\ \A k \in 1..Len(tasks) :
                                  i < k /\ tasks[k].op = "listen" => tasks[i].read < tasks[k].read
                      /\ tasks[i].op = "remove" => tasks[i].read \in muted
    BY <1>2, Zenon DEF Asking
  <2>1. ASSUME tasks[i].op = "listen", NEW j \in 1..Len(main') PROVE main'[j].read < tasks[i].read
    <3>1. \A r \in RangeOf(s) : r < tasks[i].read
      BY <1>1, <2>1 DEF Asking, s
    <3>2. \A k \in 1..Len(main) : main[k].read < tasks[i].read
      BY <1>1, <2>1 DEF Asking
    <3> QED
      BY <1>3, <1>7, <3>1, <3>2
  <2>2. /\ tasks[i].op = "listen" =>
              /\ Len(answered) < tasks[i].read /\ tasks[i].read <= Len(since)
              /\ \A r \in raised : r < tasks[i].read
              /\ \A k \in 1..Len(tasks) :
                    i < k /\ tasks[k].op = "listen" => tasks[i].read < tasks[k].read
        /\ tasks[i].op = "remove" => tasks[i].read \in muted
    BY <1>1 DEF Asking
  <2> QED
    BY <1>9, <2>1, <2>2, Zenon
<1>17. Covering(tasks, <<>>)'
  <2> SUFFICES ASSUME NEW r \in (Len(answered) + 1)..Len(since)
               PROVE  Posted(r)' \/ \E i \in 1..Len(tasks) : Asks(tasks[i], r)
    BY <1>2, <1>9 DEF Covering
  <2>1. ASSUME Posted(r) PROVE Posted(r)'
    <3>1. PICK i \in 1..Len(main) : main[i].read = r
      BY <2>1 DEF Posted
    <3>2. i \in 1..Len(main') /\ main'[i].read = r
      BY <1>3, <1>5, <3>1
    <3> QED
      BY <3>2 DEF Posted
  <2>2. ASSUME r \in RangeOf(s) PROVE Posted(r)'
    <3>1. PICK k \in 1..Len(s) : s[k] = r
      BY <1>6, <2>2
    <3>2. Len(main) + k \in 1..Len(main') /\ main'[Len(main) + k].read = r
      BY <1>3, <1>4, <1>5, <3>1
    <3> QED
      BY <3>2 DEF Posted
  <2> QED
    BY <1>1, <2>1, <2>2 DEF Covering, s
<1> QED
  BY <1>2, <1>10, <1>11, <1>14, <1>15, <1>16, <1>17 DEF CallsInv

\* The next post is for a call that is completed, or for the next call.
LEMMA NextPost ==
    ASSUME CallsInv, main # <<>>
    PROVE  /\ 1 \in 1..Len(main) /\ Head(main) = main[1] /\ Head(main) \in Posts
           /\ Head(main).read \in muted => Head(main).read <= Len(answered)
           /\ Head(main).read \notin muted => Head(main).read = Len(answered) + 1
           /\ Head(main).read <= Len(since)
           /\ Tail(main) \in Seq(Posts) /\ Len(Tail(main)) = Len(main) - 1
           /\ \A i \in 1..Len(Tail(main)) : i + 1 \in 1..Len(main) /\ Tail(main)[i] = main[i + 1]
           /\ \A i \in 1..Len(main) : i = 1 \/ i - 1 \in 1..Len(Tail(main))
<1>1. CallTypes /\ main \in Seq(Posts) /\ Posting(listeners) /\ AnsweredInOrder
  BY DEF CallsInv, CallTypes
<1>2. Len(main) \in Nat /\ Len(main) # 0
  BY <1>1, EmptySeq
<1>3. 1 \in 1..Len(main) /\ Head(main) = main[1] /\ Head(main) \in Posts
  BY <1>1, <1>2
<1>4. Tail(main) \in Seq(Posts) /\ Len(Tail(main)) = Len(main) - 1
      /\ \A i \in 1..Len(Tail(main)) : Tail(main)[i] = main[i + 1]
  BY <1>1, <1>2
<1>5. \A i \in 1..Len(Tail(main)) : i + 1 \in 1..Len(main)
  BY <1>2, <1>4
<1>6. \A i \in 1..Len(main) : i = 1 \/ i - 1 \in 1..Len(Tail(main))
  BY <1>2, <1>4
<1>7. main[1].read \in Nat /\ Len(answered) \in Nat
  BY <1>1, <1>3, Numbers
<1>8. /\ main[1].read <= Len(since)
      /\ main[1].read <= Len(answered) => main[1].read \in muted
      /\ main[1].read > Len(answered) + 1 => \E j \in 1..(1 - 1) : main[j].read = main[1].read - 1
  BY <1>1, <1>3 DEF Posting
<1>9. ~(main[1].read > Len(answered) + 1)
  BY <1>8
<1>10. main[1].read \notin muted => main[1].read = Len(answered) + 1
  BY <1>7, <1>8, <1>9
<1>11. main[1].read \in muted => main[1].read <= Len(answered)
  BY <1>1 DEF AnsweredInOrder
<1> QED
  BY <1>3, <1>4, <1>5, <1>6, <1>8, <1>10, <1>11

\* A post for a completed call is dropped.
LEMMA DropCalls ==
    ASSUME CallsInv, main # <<>>, Head(main).read \in muted, main' = Tail(main),
           UNCHANGED <<tasks, listeners, raised, muted, answered, since>>
    PROVE  CallsInv'
<1> DEFINE n == Len(answered)
<1>1. CallTypes /\ AnsweredInOrder /\ Posting(listeners) /\ Listening(listeners)
      /\ Asking(tasks, listeners) /\ Covering(tasks, listeners)
  BY DEF CallsInv
<1>2. /\ 1 \in 1..Len(main) /\ main[1].read \in muted /\ main[1].read <= n
      /\ main' \in Seq(Posts) /\ Len(main') = Len(main) - 1
      /\ \A i \in 1..Len(main') : i + 1 \in 1..Len(main) /\ main'[i] = main[i + 1]
      /\ \A i \in 1..Len(main) : i = 1 \/ i - 1 \in 1..Len(main')
  BY NextPost
<1>3. n \in Nat /\ Len(main) \in Nat /\ \A i \in 1..Len(main) : main[i].read \in Nat
  BY <1>1, Numbers
<1> HIDE DEF n
<1>4. ASSUME NEW r, Posted(r), r \notin muted PROVE Posted(r)'
  <2>1. PICK i \in 1..Len(main) : main[i].read = r
    BY <1>4 DEF Posted
  <2>2. i # 1
    BY <1>2, <1>4, <2>1
  <2>3. i - 1 \in 1..Len(main') /\ (i - 1) + 1 = i
    BY <1>2, <2>2
  <2>4. main'[i - 1].read = r
    BY <1>2, <2>1, <2>3
  <2> QED
    BY <2>3, <2>4 DEF Posted
<1>5. CallTypes'
  BY <1>1, <1>2 DEF CallTypes
<1>6. AnsweredInOrder'
  BY <1>1 DEF AnsweredInOrder
<1>7. Posting(listeners)'
  <2> SUFFICES ASSUME NEW i \in 1..Len(main')
               PROVE  /\ main'[i].read <= Len(since)
                      /\ main'[i].read <= n => main'[i].read \in muted
                      /\ main'[i].read > n + 1 =>
                            \E j \in 1..(i - 1) : main'[j].read = main'[i].read - 1
                      /\ ~main'[i].ok => /\ main'[i].read \notin RangeOf(listeners)
                                         /\ \A j \in (i + 1)..Len(main') : main'[j].read # main'[i].read
    BY Zenon DEF Posting, n
  <2>1. i + 1 \in 1..Len(main) /\ main'[i] = main[i + 1]
    BY <1>2
  <2>2. /\ main[i + 1].read <= Len(since)
        /\ main[i + 1].read <= n => main[i + 1].read \in muted
        /\ main[i + 1].read > n + 1 =>
              \E j \in 1..((i + 1) - 1) : main[j].read = main[i + 1].read - 1
        /\ ~main[i + 1].ok => /\ main[i + 1].read \notin RangeOf(listeners)
                              /\ \A j \in ((i + 1) + 1)..Len(main) : main[j].read # main[i + 1].read
    BY <1>1, <2>1, Zenon DEF Posting, n
  <2>3. ASSUME main[i + 1].read > n + 1 PROVE \E j \in 1..(i - 1) : main'[j].read = main'[i].read - 1
    <3>1. PICK j \in 1..((i + 1) - 1) : main[j].read = main[i + 1].read - 1
      BY <2>2, <2>3
    <3>2. j # 1
      BY <1>2, <1>3, <2>1, <2>3, <3>1
    <3>3. j - 1 \in 1..(i - 1) /\ j - 1 \in 1..Len(main') /\ (j - 1) + 1 = j
      BY <1>2, <1>3, <3>2
    <3>4. main'[j - 1] = main[j]
      BY <1>2, <3>3
    <3> QED
      BY <2>1, <3>1, <3>3, <3>4
  <2>4. ASSUME ~main[i + 1].ok, NEW j \in (i + 1)..Len(main') PROVE main'[j].read # main'[i].read
    <3>1. j \in 1..Len(main') /\ j + 1 \in ((i + 1) + 1)..Len(main)
      BY <1>2, <1>3
    <3>2. main[j + 1].read # main[i + 1].read
      BY <2>2, <2>4, <3>1, Zenon
    <3> QED
      BY <1>2, <2>1, <3>1, <3>2
  <2> QED
    BY <2>1, <2>2, <2>3, <2>4, Zenon
<1>8. \A i \in 1..Len(main') : \E j \in 1..Len(main) : main'[i] = main[j]
  BY <1>2
<1>9. Listening(listeners)'
  <2>1. \A r \in RangeOf(listeners) \cap raised : r \in muted \/ Posted(r)'
    BY <1>1, <1>4 DEF Listening
  <2>2. \A r \in RangeOf(listeners) \ raised :
           r > n /\ \A i \in 1..Len(main') : main'[i].read < r
    BY <1>1, <1>8 DEF Listening, n
  <2> QED
    BY <1>1, <2>1, <2>2 DEF Listening, n
<1>10. Asking(tasks, listeners)'
  BY <1>1, <1>8 DEF Asking
<1>11. Covering(tasks, listeners)'
  <2>1. \A r \in (n + 1)..Len(since) : r \notin muted
    BY <1>1, <1>3 DEF AnsweredInOrder, n
  <2> QED
    BY <1>1, <1>4, <2>1 DEF Covering, n
<1> QED
  BY <1>5, <1>6, <1>7, <1>9, <1>10, <1>11 DEF CallsInv

\* One more task.
LEMMA OneMoreTask ==
    ASSUME tasks \in Seq(TaskRecords), NEW t \in TaskRecords, tasks' = Append(tasks, t)
    PROVE  /\ tasks' \in Seq(TaskRecords) /\ Len(tasks') = Len(tasks) + 1 /\ Len(tasks) \in Nat
           /\ tasks'[Len(tasks) + 1] = t
           /\ \A i \in 1..Len(tasks) : i \in 1..Len(tasks') /\ tasks'[i] = tasks[i]
           /\ \A i \in 1..Len(tasks') : i \in 1..Len(tasks) \/ i = Len(tasks) + 1
<1>1. /\ tasks' \in Seq(TaskRecords) /\ Len(tasks') = Len(tasks) + 1 /\ Len(tasks) \in Nat
      /\ tasks'[Len(tasks) + 1] = t
      /\ \A i \in 1..Len(tasks) : tasks'[i] = tasks[i]
  OBVIOUS
<1>2. \A i \in 1..Len(tasks) : i \in 1..Len(tasks')
  BY <1>1
<1>3. \A i \in 1..Len(tasks') : i \in 1..Len(tasks) \/ i = Len(tasks) + 1
  BY <1>1
<1> QED
  BY <1>1, <1>2, <1>3

\* The next call is completed.
LEMMA CompleteCalls ==
    ASSUME CallsInv, main # <<>>, Head(main).read \notin muted, Deliver
    PROVE  CallsInv'
<1> DEFINE n == Len(answered)
           b == Head(main)
<1>1. CallTypes /\ AnsweredInOrder /\ Posting(listeners) /\ Listening(listeners)
      /\ Asking(tasks, listeners) /\ Covering(tasks, listeners)
  BY DEF CallsInv
<1>2. /\ main' = Tail(main) /\ answered' = Append(answered, b.read)
      /\ since' = [since EXCEPT ![b.read] = {}]
      /\ \/ b.ok /\ muted' = muted \cup {b.read} /\ tasks' = Append(tasks, [op |-> "remove", read |-> b.read])
         \/ ~b.ok /\ muted' = muted /\ tasks' = tasks
      /\ listeners' = listeners /\ raised' = raised
  BY Zenon DEF Deliver
<1>3. /\ 1 \in 1..Len(main) /\ b = main[1] /\ b.read = n + 1 /\ n + 1 <= Len(since)
      /\ main' \in Seq(Posts) /\ Len(main') = Len(main) - 1
      /\ \A i \in 1..Len(main') : i + 1 \in 1..Len(main) /\ main'[i] = main[i + 1]
      /\ \A i \in 1..Len(main) : i = 1 \/ i - 1 \in 1..Len(main')
  <2>1. main' = Tail(main)
    BY <1>2
  <2> QED
    BY <2>1, NextPost
<1>4. n \in Nat /\ Len(since) \in Nat /\ Len(main) \in Nat /\ \A i \in 1..Len(main) : main[i].read \in Nat
  BY <1>1, Numbers
<1>5. n + 1 \in Reads
  BY <1>1, <1>3, Numbers
<1>6. /\ answered' \in Seq(Reads) /\ Len(answered') = n + 1 /\ answered'[n + 1] = n + 1
      /\ \A i \in 1..n : answered'[i] = answered[i]
  <2>1. answered \in Seq(Reads) /\ answered' = Append(answered, n + 1)
    BY <1>1, <1>2, <1>3 DEF CallTypes
  <2> QED
    BY <1>5, <2>1
<1>7. since' \in Seq(Views) /\ Len(since') = Len(since)
  <2>1. since \in Seq(Views) /\ since' = [since EXCEPT ![n + 1] = {}] /\ {} \in Views
    BY <1>1, <1>2, <1>3 DEF CallTypes, Views
  <2>2. n + 1 \in 1..Len(since)
    BY <1>3, <1>4
  <2> QED
    BY <2>1, <2>2, ExceptSeq
<1> HIDE DEF n, b
<1>8. \/ b.ok /\ muted' = muted \cup {n + 1} /\ tasks' = Append(tasks, [op |-> "remove", read |-> n + 1])
      \/ ~b.ok /\ muted' = muted /\ tasks' = tasks
  BY <1>2, <1>3, Zenon
<1>9. /\ tasks' \in Seq(TaskRecords)
      /\ \A i \in 1..Len(tasks) : i \in 1..Len(tasks') /\ tasks'[i] = tasks[i]
      /\ \A i \in 1..Len(tasks') : i \in 1..Len(tasks)
                                   \/ (tasks'[i] = [op |-> "remove", read |-> n + 1] /\ n + 1 \in muted')
  <2>1. tasks \in Seq(TaskRecords)
    BY <1>1 DEF CallTypes
  <2>2. CASE tasks' = tasks
    <3>1. \A i \in 1..Len(tasks') : i \in 1..Len(tasks)
      BY <2>2
    <3>2. \A i \in 1..Len(tasks) : i \in 1..Len(tasks') /\ tasks'[i] = tasks[i]
      BY <2>2
    <3>3. tasks' \in Seq(TaskRecords)
      BY <2>1, <2>2
    <3> QED
      BY <3>1, <3>2, <3>3
  <2>3. CASE tasks' = Append(tasks, [op |-> "remove", read |-> n + 1]) /\ muted' = muted \cup {n + 1}
    <3> DEFINE t == [op |-> "remove", read |-> n + 1]
    <3>1. t \in TaskRecords
      BY <1>5 DEF TaskRecords
    <3>2. n + 1 \in muted'
      BY <2>3
    <3> HIDE DEF t
    <3>3. tasks' = Append(tasks, t)
      BY <2>3 DEF t
    <3>4. /\ tasks' \in Seq(TaskRecords)
          /\ \A i \in 1..Len(tasks) : i \in 1..Len(tasks') /\ tasks'[i] = tasks[i]
          /\ \A i \in 1..Len(tasks') : i \in 1..Len(tasks) \/ tasks'[i] = t
      BY <2>1, <3>1, <3>3, OneMoreTask
    <3> QED
      BY <3>2, <3>4 DEF t
  <2> QED
    BY <1>8, <2>2, <2>3, Zenon
<1>10. muted \subseteq muted' /\ muted' \subseteq muted \cup {n + 1}
  BY <1>8, Zenon
<1>11. ASSUME NEW r, Posted(r), r # n + 1 PROVE Posted(r)'
  <2>1. PICK i \in 1..Len(main) : main[i].read = r
    BY <1>11 DEF Posted
  <2>2. i # 1
    BY <1>3, <1>11, <2>1
  <2>3. i - 1 \in 1..Len(main') /\ (i - 1) + 1 = i
    BY <1>3, <2>2
  <2>4. main'[i - 1].read = r
    BY <1>3, <2>1, <2>3
  <2> QED
    BY <2>3, <2>4 DEF Posted
<1>12. CallTypes'
  <2>1. muted' \subseteq Reads
    BY <1>1, <1>5, <1>10 DEF CallTypes
  <2> QED
    BY <1>1, <1>2, <1>3, <1>6, <1>7, <1>9, <2>1 DEF CallTypes
<1>13. AnsweredInOrder'
  <2>1. \A i \in 1..Len(answered') : answered'[i] = i
    <3>1. \A i \in 1..(n + 1) : i \in 1..n \/ i = n + 1
      BY <1>4
    <3> QED
      BY <1>1, <1>6, <3>1 DEF AnsweredInOrder, n
  <2>2. \A r \in muted' : r <= n + 1
    <3>1. \A r \in muted : r <= n /\ r \in Nat
      BY <1>1, Numbers DEF AnsweredInOrder, CallTypes, n
    <3>2. \A r \in muted : r <= n + 1
      BY <1>4, <3>1
    <3> QED
      BY <1>4, <1>10, <3>2
  <2> QED
    BY <1>1, <1>2, <1>3, <1>6, <1>7, <2>1, <2>2 DEF AnsweredInOrder
<1>14. ~b.ok => /\ n + 1 \notin RangeOf(listeners)
               /\ \A i \in 1..Len(main') : main'[i].read # n + 1
  <2> SUFFICES ASSUME ~b.ok PROVE /\ n + 1 \notin RangeOf(listeners)
                                  /\ \A i \in 1..Len(main') : main'[i].read # n + 1
    BY Zenon
  <2>1. ~main[1].ok
    BY <1>3, Zenon
  <2>2. main[1].read \notin RangeOf(listeners) /\ \A j \in (1 + 1)..Len(main) : main[j].read # main[1].read
    BY <1>1, <1>3, <2>1, Zenon DEF Posting
  <2>3. \A i \in 1..Len(main') : i + 1 \in (1 + 1)..Len(main)
    BY <1>3, <1>4
  <2> QED
    BY <1>3, <2>2, <2>3
<1>15. b.ok => n + 1 \in muted'
  BY <1>8, Zenon
<1>16. Posting(listeners)'
  <2> SUFFICES ASSUME NEW i \in 1..Len(main')
               PROVE  /\ main'[i].read <= Len(since)
                      /\ main'[i].read <= n + 1 => main'[i].read \in muted'
                      /\ main'[i].read > (n + 1) + 1 =>
                            \E j \in 1..(i - 1) : main'[j].read = main'[i].read - 1
                      /\ ~main'[i].ok => /\ main'[i].read \notin RangeOf(listeners)
                                         /\ \A j \in (i + 1)..Len(main') : main'[j].read # main'[i].read
    BY <1>2, <1>6, <1>7, Zenon DEF Posting
  <2>1. i + 1 \in 1..Len(main) /\ main'[i] = main[i + 1]
    BY <1>3
  <2>2. /\ main[i + 1].read <= Len(since)
        /\ main[i + 1].read <= n => main[i + 1].read \in muted
        /\ main[i + 1].read > n + 1 =>
              \E j \in 1..((i + 1) - 1) : main[j].read = main[i + 1].read - 1
        /\ ~main[i + 1].ok => /\ main[i + 1].read \notin RangeOf(listeners)
                              /\ \A j \in ((i + 1) + 1)..Len(main) : main[j].read # main[i + 1].read
    BY <1>1, <2>1, Zenon DEF Posting, n
  <2>3. ASSUME main[i + 1].read > (n + 1) + 1 PROVE \E j \in 1..(i - 1) : main'[j].read = main'[i].read - 1
    <3>1. main[i + 1].read > n + 1 /\ main[i + 1].read \in Nat
      BY <1>4, <2>1, <2>3
    <3>2. PICK j \in 1..((i + 1) - 1) : main[j].read = main[i + 1].read - 1
      BY <2>2, <3>1
    <3>3. j # 1
      <4>1. main[i + 1].read - 1 # n + 1
        BY <1>4, <2>3, <3>1
      <4> QED
        BY <1>3, <3>2, <4>1
    <3>4. j - 1 \in 1..(i - 1) /\ j - 1 \in 1..Len(main') /\ (j - 1) + 1 = j
      BY <1>3, <1>4, <3>3
    <3>5. main'[j - 1] = main[j]
      BY <1>3, <3>4
    <3> QED
      BY <2>1, <3>2, <3>4, <3>5
  <2>4. ASSUME ~main[i + 1].ok, NEW j \in (i + 1)..Len(main') PROVE main'[j].read # main'[i].read
    <3>1. j \in 1..Len(main') /\ j + 1 \in ((i + 1) + 1)..Len(main)
      BY <1>3, <1>4
    <3>2. main[j + 1].read # main[i + 1].read
      BY <2>2, <2>4, <3>1, Zenon
    <3> QED
      BY <1>3, <2>1, <3>1, <3>2
  <2>5. ASSUME main[i + 1].read <= n + 1 PROVE main[i + 1].read \in muted'
    <3>1. main[i + 1].read <= n \/ main[i + 1].read = n + 1
      BY <1>4, <2>1, <2>5
    <3>2. CASE main[i + 1].read <= n
      BY <1>10, <2>2, <3>2
    <3>3. CASE main[i + 1].read = n + 1
      BY <1>14, <1>15, <2>1, <3>3, Zenon
    <3> QED
      BY <3>1, <3>2, <3>3
  <2> QED
    BY <2>1, <2>2, <2>3, <2>4, <2>5, Zenon
<1>17. \A i \in 1..Len(main') : \E j \in 1..Len(main) : main'[i] = main[j]
  BY <1>3
<1>18. Listening(listeners)'
  <2>1. ASSUME NEW r \in RangeOf(listeners) \cap raised PROVE r \in muted' \/ Posted(r)'
    <3>1. r \in muted \/ Posted(r)
      BY <1>1 DEF Listening
    <3>2. r = n + 1 => r \in muted'
      BY <1>14, <1>15, Zenon
    <3> QED
      BY <1>10, <1>11, <3>1, <3>2
  <2>2. ASSUME NEW r \in RangeOf(listeners) \ raised
        PROVE  r > n + 1 /\ \A i \in 1..Len(main') : main'[i].read < r
    <3>1. \A i \in 1..Len(main) : main[i].read < r
      BY <1>1 DEF Listening
    <3>2. n + 1 < r
      BY <1>3, <3>1
    <3>3. r \in Nat
      BY <1>1, Numbers, InRange DEF CallTypes
    <3> QED
      BY <1>4, <1>17, <3>1, <3>2, <3>3
  <2> QED
    BY <1>1, <1>2, <1>6, <1>7, <2>1, <2>2 DEF Listening
<1>19. Asking(tasks, listeners)'
  <2> SUFFICES ASSUME NEW i \in 1..Len(tasks')
               PROVE  /\ tasks'[i].op = "listen" =>
                            /\ n + 1 < tasks'[i].read /\ tasks'[i].read <= Len(since)
                            /\ \A r \in raised \cup RangeOf(listeners) : r < tasks'[i].read
                            /\ \A j \in 1..Len(main') : main'[j].read < tasks'[i].read
                            /\ \A k \in 1..Len(tasks') :
                                  i < k /\ tasks'[k].op = "listen" => tasks'[i].read < tasks'[k].read
                      /\ tasks'[i].op = "remove" => tasks'[i].read \in muted'
    BY <1>2, <1>6, <1>7, Zenon DEF Asking
  <2>1. CASE i \notin 1..Len(tasks)
    <3>1. tasks'[i] = [op |-> "remove", read |-> n + 1] /\ n + 1 \in muted'
      BY <1>9, <2>1
    <3> QED
      BY <3>1
  <2>2. CASE i \in 1..Len(tasks)
    <3>1. tasks'[i] = tasks[i]
      BY <1>9, <2>2
    <3>2. \A k \in 1..Len(tasks') : tasks'[k].op = "listen" => k \in 1..Len(tasks) /\ tasks'[k] = tasks[k]
      BY <1>9
    <3>3. /\ tasks[i].op = "listen" =>
                /\ tasks[i].read <= Len(since)
                /\ \A r \in raised \cup RangeOf(listeners) : r < tasks[i].read
                /\ \A j \in 1..Len(main) : main[j].read < tasks[i].read
                /\ \A k \in 1..Len(tasks) :
                      i < k /\ tasks[k].op = "listen" => tasks[i].read < tasks[k].read
          /\ tasks[i].op = "remove" => tasks[i].read \in muted
      BY <1>1, <2>2 DEF Asking
    <3>4. tasks[i].op = "listen" => n + 1 < tasks[i].read /\ \A j \in 1..Len(main') : main'[j].read < tasks[i].read
      BY <1>3, <1>17, <3>3
    <3> QED
      BY <1>10, <3>1, <3>2, <3>3, <3>4
  <2> QED
    BY <2>1, <2>2
<1>20. Covering(tasks, listeners)'
  <2> SUFFICES ASSUME NEW r \in ((n + 1) + 1)..Len(since)
               PROVE  \/ Posted(r)'
                      \/ r \in RangeOf(listeners) \ raised
                      \/ \E i \in 1..Len(tasks') : Asks(tasks'[i], r)
    BY <1>2, <1>6, <1>7 DEF Covering
  <2>1. r \in (n + 1)..Len(since) /\ r # n + 1
    BY <1>4
  <2>2. \/ Posted(r)
        \/ r \in RangeOf(listeners) \ raised
        \/ \E i \in 1..Len(tasks) : Asks(tasks[i], r)
    BY <1>1, <2>1 DEF Covering, n
  <2>3. (\E i \in 1..Len(tasks) : Asks(tasks[i], r)) => \E i \in 1..Len(tasks') : Asks(tasks'[i], r)
    BY <1>9
  <2> QED
    BY <1>11, <2>1, <2>2, <2>3
<1> QED
  BY <1>12, <1>13, <1>16, <1>18, <1>19, <1>20 DEF CallsInv

\* A call is made.
LEMMA CallCalls ==
    ASSUME CallsInv, GetDocuments
    PROVE  CallsInv'
<1> DEFINE N == Len(since)
           t == [op |-> "listen", read |-> N + 1]
<1>1. CallTypes /\ AnsweredInOrder /\ Posting(listeners) /\ Listening(listeners)
      /\ Asking(tasks, listeners) /\ Covering(tasks, listeners)
  BY DEF CallsInv
<1>2. /\ N < MaxReads /\ tasks' = Append(tasks, t) /\ since' = Append(since, {view})
      /\ main' = main /\ listeners' = listeners /\ raised' = raised /\ muted' = muted /\ answered' = answered
  BY DEF GetDocuments, viewVars
<1>3. N \in Nat /\ Len(answered) \in Nat /\ N + 1 \in Reads
  BY <1>1, <1>2, Numbers, ListeningAssumption DEF Reads
<1>4. since' \in Seq(Views) /\ Len(since') = N + 1 /\ N + 1 <= MaxReads
  <2>1. since \in Seq(Views) /\ {view} \in Views
    BY <1>1 DEF CallTypes, Views, view, Under
  <2> QED
    BY <1>2, <1>3, <2>1, ListeningAssumption
<1>5. /\ tasks' \in Seq(TaskRecords) /\ Len(tasks') = Len(tasks) + 1 /\ Len(tasks) \in Nat
      /\ tasks'[Len(tasks) + 1] = t
      /\ \A i \in 1..Len(tasks) : i \in 1..Len(tasks') /\ tasks'[i] = tasks[i]
      /\ \A i \in 1..Len(tasks') : i \in 1..Len(tasks) \/ i = Len(tasks) + 1
  <2>1. tasks \in Seq(TaskRecords) /\ t \in TaskRecords
    BY <1>1, <1>3 DEF CallTypes, TaskRecords
  <2> QED
    BY <1>2, <2>1, OneMoreTask
<1>6. t.op = "listen" /\ t.read = N + 1
  OBVIOUS
<1> HIDE DEF N, t
<1>7. CallTypes'
  BY <1>1, <1>2, <1>4, <1>5 DEF CallTypes
<1>8. AnsweredInOrder'
  <2>1. Len(answered) <= N + 1
    BY <1>1, <1>3 DEF AnsweredInOrder, N
  <2>2. \A r \in raised : r <= N + 1
    <3>1. \A r \in raised : r <= N /\ r \in Nat
      BY <1>1, Numbers DEF AnsweredInOrder, CallTypes, N
    <3> QED
      BY <1>3, <3>1
  <2> QED
    BY <1>1, <1>2, <1>4, <2>1, <2>2 DEF AnsweredInOrder
<1>9. \A i \in 1..Len(main) : main[i].read <= N /\ main[i].read \in Nat
  BY <1>1, Numbers DEF Posting, N
<1>10. \A r \in RangeOf(listeners) : r <= N /\ r \in Nat
  BY <1>1, Numbers, InRange DEF Listening, CallTypes, N
<1>11. \A r \in raised : r <= N /\ r \in Nat
  BY <1>1, Numbers DEF AnsweredInOrder, CallTypes, N
<1>12. Posting(listeners)'
  <2>1. \A i \in 1..Len(main) : main[i].read <= N + 1
    BY <1>3, <1>9
  <2> QED
    BY <1>1, <1>2, <1>4, <2>1, Zenon DEF Posting
<1>13. Listening(listeners)'
  <2>1. \A r \in RangeOf(listeners) : r <= N + 1
    BY <1>3, <1>10
  <2>2. \A r : Posted(r)' <=> Posted(r)
    BY <1>2 DEF Posted
  <2> QED
    BY <1>1, <1>2, <1>4, <2>1, <2>2 DEF Listening
<1>14. Asking(tasks, listeners)'
  <2> SUFFICES ASSUME NEW i \in 1..Len(tasks')
               PROVE  /\ tasks'[i].op = "listen" =>
                            /\ Len(answered) < tasks'[i].read /\ tasks'[i].read <= N + 1
                            /\ \A r \in raised \cup RangeOf(listeners) : r < tasks'[i].read
                            /\ \A j \in 1..Len(main) : main[j].read < tasks'[i].read
                            /\ \A k \in 1..Len(tasks') :
                                  i < k /\ tasks'[k].op = "listen" => tasks'[i].read < tasks'[k].read
                      /\ tasks'[i].op = "remove" => tasks'[i].read \in muted
    BY <1>2, <1>4, Zenon DEF Asking
  <2>1. CASE i = Len(tasks) + 1
    <3>1. tasks'[i].op = "listen" /\ tasks'[i].read = N + 1
      BY <1>5, <1>6, <2>1
    <3>2. Len(answered) < N + 1
      BY <1>1, <1>3 DEF AnsweredInOrder, N
    <3>3. \A r \in raised \cup RangeOf(listeners) : r < N + 1
      BY <1>3, <1>10, <1>11
    <3>4. \A j \in 1..Len(main) : main[j].read < N + 1
      BY <1>3, <1>9
    <3>5. \A k \in 1..Len(tasks') : ~(i < k)
      BY <1>5, <2>1
    <3>6. N + 1 <= N + 1
      BY <1>3
    <3> QED
      BY <3>1, <3>2, <3>3, <3>4, <3>5, <3>6
  <2>2. CASE i \in 1..Len(tasks)
    <3>1. tasks'[i] = tasks[i]
      BY <1>5, <2>2
    <3>2. /\ tasks[i].op = "listen" =>
                /\ Len(answered) < tasks[i].read /\ tasks[i].read <= N
                /\ \A r \in raised \cup RangeOf(listeners) : r < tasks[i].read
                /\ \A j \in 1..Len(main) : main[j].read < tasks[i].read
                /\ \A k \in 1..Len(tasks) :
                      i < k /\ tasks[k].op = "listen" => tasks[i].read < tasks[k].read
          /\ tasks[i].op = "remove" => tasks[i].read \in muted
      BY <1>1, <2>2 DEF Asking, N
    <3>3. tasks[i].op = "listen" => tasks[i].read \in Nat
      BY <1>1, <2>2, Numbers
    <3>4. tasks[i].op = "listen" => tasks[i].read <= N + 1 /\ tasks[i].read < N + 1
      BY <1>3, <3>2, <3>3
    <3>5. ASSUME tasks[i].op = "listen", NEW k \in 1..Len(tasks'), i < k, tasks'[k].op = "listen"
          PROVE  tasks[i].read < tasks'[k].read
      <4>1. CASE k \in 1..Len(tasks)
        BY <1>5, <3>2, <3>5, <4>1
      <4>2. CASE k = Len(tasks) + 1
        BY <1>5, <1>6, <3>4, <3>5, <4>2
      <4> QED
        BY <1>5, <4>1, <4>2
    <3> QED
      BY <3>1, <3>2, <3>4, <3>5
  <2> QED
    BY <1>5, <2>1, <2>2
<1>15. Covering(tasks, listeners)'
  <2> SUFFICES ASSUME NEW r \in (Len(answered) + 1)..(N + 1)
               PROVE  \/ Posted(r)
                      \/ r \in RangeOf(listeners) \ raised
                      \/ \E i \in 1..Len(tasks') : Asks(tasks'[i], r)
    <3>1. \A r : Posted(r)' <=> Posted(r)
      BY <1>2 DEF Posted
    <3> QED
      BY <1>2, <1>4, <3>1 DEF Covering
  <2>1. CASE r = N + 1
    <3>1. Len(tasks) + 1 \in 1..Len(tasks')
      BY <1>5
    <3>2. Asks(tasks'[Len(tasks) + 1], r)
      BY <1>5, <1>6, <2>1 DEF Asks
    <3> QED
      BY <3>1, <3>2
  <2>2. CASE r # N + 1
    <3>1. r \in (Len(answered) + 1)..N
      BY <1>3, <2>2
    <3>2. \/ Posted(r)
          \/ r \in RangeOf(listeners) \ raised
          \/ \E i \in 1..Len(tasks) : Asks(tasks[i], r)
      BY <1>1, <3>1 DEF Covering, N
    <3> QED
      BY <1>5, <3>2
  <2> QED
    BY <2>1, <2>2
<1> QED
  BY <1>7, <1>8, <1>12, <1>13, <1>14, <1>15 DEF CallsInv

\* A step that does nothing to listeners and posts, and adds at most a write to
\* the tasks.
LEMMA QuietCalls ==
    ASSUME CallsInv, UNCHANGED <<main, listeners, raised, muted, answered>>,
           since' \in Seq(Views), Len(since') = Len(since),
           tasks' = tasks \/ \E w \in Writes : tasks' = Append(tasks, [op |-> "write", write |-> w])
    PROVE  CallsInv'
<1>1. CallTypes /\ AnsweredInOrder /\ Posting(listeners) /\ Listening(listeners)
      /\ Asking(tasks, listeners) /\ Covering(tasks, listeners)
  BY DEF CallsInv
<1>2. /\ tasks' \in Seq(TaskRecords)
      /\ \A i \in 1..Len(tasks) : i \in 1..Len(tasks') /\ tasks'[i] = tasks[i]
      /\ \A i \in 1..Len(tasks') : i \in 1..Len(tasks) \/ tasks'[i].op = "write"
  <2>1. tasks \in Seq(TaskRecords)
    BY <1>1 DEF CallTypes
  <2>2. CASE tasks' = tasks
    BY <2>1, <2>2
  <2>3. ASSUME NEW w \in Writes, tasks' = Append(tasks, [op |-> "write", write |-> w])
        PROVE  /\ tasks' \in Seq(TaskRecords)
               /\ \A i \in 1..Len(tasks) : i \in 1..Len(tasks') /\ tasks'[i] = tasks[i]
               /\ \A i \in 1..Len(tasks') : i \in 1..Len(tasks) \/ tasks'[i].op = "write"
    <3> DEFINE t == [op |-> "write", write |-> w]
    <3>1. t \in TaskRecords /\ t.op = "write"
      BY DEF TaskRecords
    <3> HIDE DEF t
    <3>2. tasks' = Append(tasks, t)
      BY <2>3 DEF t
    <3> QED
      BY <2>1, <3>1, <3>2, OneMoreTask
  <2> QED
    BY <2>2, <2>3
<1>3. CallTypes'
  BY <1>1, <1>2 DEF CallTypes
<1>4. AnsweredInOrder'
  BY <1>1 DEF AnsweredInOrder
<1>5. Posting(listeners)'
  BY <1>1, Zenon DEF Posting
<1>6. \A r : Posted(r)' <=> Posted(r)
  BY DEF Posted
<1>7. Listening(listeners)'
  BY <1>1, <1>6 DEF Listening
<1>8. Asking(tasks, listeners)'
  <2> SUFFICES ASSUME NEW i \in 1..Len(tasks')
               PROVE  /\ tasks'[i].op = "listen" =>
                            /\ Len(answered) < tasks'[i].read /\ tasks'[i].read <= Len(since)
                            /\ \A r \in raised \cup RangeOf(listeners) : r < tasks'[i].read
                            /\ \A j \in 1..Len(main) : main[j].read < tasks'[i].read
                            /\ \A k \in 1..Len(tasks') :
                                  i < k /\ tasks'[k].op = "listen" => tasks'[i].read < tasks'[k].read
                      /\ tasks'[i].op = "remove" => tasks'[i].read \in muted
    BY Zenon DEF Asking
  <2>1. CASE tasks'[i].op = "write"
    BY <2>1
  <2>2. CASE i \in 1..Len(tasks)
    <3>1. tasks'[i] = tasks[i]
      BY <1>2, <2>2
    <3>2. \A k \in 1..Len(tasks') : tasks'[k].op = "listen" => k \in 1..Len(tasks) /\ tasks'[k] = tasks[k]
      BY <1>2
    <3>3. /\ tasks[i].op = "listen" =>
                /\ Len(answered) < tasks[i].read /\ tasks[i].read <= Len(since)
                /\ \A r \in raised \cup RangeOf(listeners) : r < tasks[i].read
                /\ \A j \in 1..Len(main) : main[j].read < tasks[i].read
                /\ \A k \in 1..Len(tasks) :
                      i < k /\ tasks[k].op = "listen" => tasks[i].read < tasks[k].read
          /\ tasks[i].op = "remove" => tasks[i].read \in muted
      BY <1>1, <2>2 DEF Asking
    <3> QED
      BY <3>1, <3>2, <3>3
  <2> QED
    BY <1>2, <2>1, <2>2
<1>9. Covering(tasks, listeners)'
  <2>1. \A r : (\E i \in 1..Len(tasks) : Asks(tasks[i], r)) => \E i \in 1..Len(tasks') : Asks(tasks'[i], r)
    BY <1>2
  <2> QED
    BY <1>1, <1>6, <2>1 DEF Covering
<1> QED
  BY <1>3, <1>4, <1>5, <1>7, <1>8, <1>9 DEF CallsInv

\* The views of the calls, when each has some more.
LEMMA ViewsGrow ==
    ASSUME since \in Seq(Views)
    PROVE  /\ Watching => since' \in Seq(Views) /\ Len(since') = Len(since)
           /\ \A d : since' = [r \in DOMAIN since |-> since[r] \cup
                                 {(v \ {d}) \cup (view' \cap {d}) : v \in since[r]}] =>
                        since' \in Seq(Views) /\ Len(since') = Len(since)
<1>1. view' \in SUBSET Docs
  BY DEF view, Under
<1>2. Len(since) \in Nat /\ DOMAIN since = 1..Len(since) /\ \A r \in 1..Len(since) : since[r] \in Views
  OBVIOUS
<1>3. ASSUME Watching PROVE since' \in Seq(Views) /\ Len(since') = Len(since)
  <2> DEFINE F(r) == IF r \in RangeOf(answered) THEN {} ELSE since[r] \cup {view'}
  <2>1. \A r \in 1..Len(since) : F(r) \in Views
    BY <1>1, <1>2 DEF Views
  <2>2. since' = [r \in 1..Len(since) |-> F(r)]
    BY <1>2, <1>3 DEF Watching
  <2> HIDE DEF F
  <2> QED
    BY <1>2, <2>1, <2>2
<1>4. ASSUME NEW d, since' = [r \in DOMAIN since |-> since[r] \cup
                                 {(v \ {d}) \cup (view' \cap {d}) : v \in since[r]}]
      PROVE  since' \in Seq(Views) /\ Len(since') = Len(since)
  <2> DEFINE F(r) == since[r] \cup {(v \ {d}) \cup (view' \cap {d}) : v \in since[r]}
  <2>1. \A r \in 1..Len(since) : F(r) \in Views
    BY <1>1, <1>2 DEF Views
  <2>2. since' = [r \in 1..Len(since) |-> F(r)]
    BY <1>2, <1>4
  <2> HIDE DEF F
  <2> QED
    BY <1>2, <2>1, <2>2
<1> QED
  BY <1>3, <1>4

\* The actions that raise snapshots, with the listeners and the tasks they leave.
LEMMA RaiseCalls ==
    ASSUME CallsInv,
           \/ WriteMutations \/ AddQueryListener \/ RaiseWatchSnapshot
           \/ StreamBreaks \/ OnlineStateTimeout
           \/ \E w \in Writes : HandleSuccessfulWrite(w) \/ HandleRejectedWrite(w)
    PROVE  CallsInv'
<1>1. CallTypes /\ AnsweredInOrder /\ Posting(listeners) /\ Listening(listeners)
      /\ Asking(tasks, listeners) /\ Covering(tasks, listeners)
      /\ tasks \in Seq(TaskRecords) /\ listeners \in Seq(Reads) /\ since \in Seq(Views)
  BY DEF CallsInv, CallTypes
<1>2. CASE WriteMutations
  <2>1. /\ tasks # <<>> /\ Head(tasks).op # "listen" /\ tasks' = Tail(tasks) /\ Notify(listeners)
        /\ UNCHANGED <<answered, muted, since>>
    BY <1>2 DEF WriteMutations, Task, historyVars
  <2> DEFINE ts == Tail(tasks)
  <2>2. Asking(ts, listeners) /\ Covering(ts, listeners) /\ ts \in Seq(TaskRecords)
    BY <2>1, TaskDone
  <2>3. tasks' = ts
    BY <2>1
  <2> HIDE DEF ts
  <2> QED
    BY <1>1, <2>1, <2>2, <2>3, NotifyCalls
<1>3. CASE AddQueryListener
  <2>1. /\ tasks # <<>> /\ Head(tasks).op = "listen" /\ tasks' = Tail(tasks)
        /\ Notify(Append(listeners, Head(tasks).read))
        /\ UNCHANGED <<answered, muted, since>>
    BY <1>3 DEF AddQueryListener, Task, historyVars
  <2> DEFINE ts == Tail(tasks)
             ls == Append(listeners, Head(tasks).read)
  <2>2. /\ ls \in Seq(Reads) /\ ts \in Seq(TaskRecords)
        /\ Posting(ls) /\ Listening(ls) /\ Asking(ts, ls) /\ Covering(ts, ls)
    BY <2>1, Joined
  <2>3. tasks' = ts /\ Notify(ls)
    BY <2>1
  <2> HIDE DEF ts, ls
  <2> QED
    BY <1>1, <2>1, <2>2, <2>3, NotifyCalls
<1>4. ASSUME Notify(listeners), tasks' = tasks, UNCHANGED <<answered, muted>>,
             since' \in Seq(Views), Len(since') = Len(since)
      PROVE  CallsInv'
  BY <1>1, <1>4, NotifyCalls
<1>5. CASE RaiseWatchSnapshot
  <2>1. Notify(listeners) /\ tasks' = tasks /\ UNCHANGED <<answered, muted, since>>
    BY <1>5 DEF RaiseWatchSnapshot, Message, historyVars
  <2> QED
    BY <1>1, <1>4, <2>1
<1>6. CASE StreamBreaks
  <2>1. Notify(listeners) /\ tasks' = tasks /\ UNCHANGED <<answered, muted, since>>
    BY <1>6 DEF StreamBreaks, historyVars
  <2> QED
    BY <1>1, <1>4, <2>1
<1>7. CASE OnlineStateTimeout
  <2>1. Notify(listeners) /\ tasks' = tasks /\ UNCHANGED <<answered, muted, since>>
    BY <1>7 DEF OnlineStateTimeout, historyVars
  <2> QED
    BY <1>1, <1>4, <2>1
<1>8. ASSUME NEW w \in Writes, HandleSuccessfulWrite(w) PROVE CallsInv'
  <2>1. Notify(listeners) /\ tasks' = tasks /\ UNCHANGED <<answered, muted, since>>
    BY <1>8 DEF HandleSuccessfulWrite, historyVars
  <2> QED
    BY <1>1, <1>4, <2>1
<1>9. ASSUME NEW w \in Writes, HandleRejectedWrite(w) PROVE CallsInv'
  <2>1. Notify(listeners) /\ tasks' = tasks /\ UNCHANGED <<answered, muted>>
    BY <1>9 DEF HandleRejectedWrite
  <2>2. since' = [r \in DOMAIN since |-> since[r] \cup
                    {(v \ {w[2]}) \cup (view' \cap {w[2]}) : v \in since[r]}]
    BY <1>9 DEF HandleRejectedWrite
  <2>3. since' \in Seq(Views) /\ Len(since') = Len(since)
    BY <1>1, <2>2, ViewsGrow
  <2> QED
    BY <1>4, <2>1, <2>3
<1> QED
  BY <1>2, <1>3, <1>5, <1>6, <1>7, <1>8, <1>9

\* A listener is removed.
LEMMA RemoveCalls ==
    ASSUME CallsInv, RemoveQueryListener
    PROVE  CallsInv'
<1>1. /\ tasks # <<>> /\ Head(tasks).op = "remove" /\ tasks' = Tail(tasks)
      /\ listeners' = Erased(listeners, Head(tasks).read)
      /\ UNCHANGED <<main, raised, muted, answered, since>>
  BY DEF RemoveQueryListener, Task, historyVars
<1>a. PICK ts, ls : ts = Tail(tasks) /\ ls = Erased(listeners, Head(tasks).read)
  OBVIOUS
<1>2. /\ ls \in Seq(Reads) /\ ts \in Seq(TaskRecords)
      /\ Posting(ls) /\ Listening(ls) /\ Asking(ts, ls) /\ Covering(ts, ls)
  BY <1>a, <1>1, Left
<1>3. tasks' = ts /\ listeners' = ls
  BY <1>a, <1>1
<1>4. \A r : Posted(r)' <=> Posted(r)
  BY <1>1 DEF Posted
<1>5. CallTypes' /\ AnsweredInOrder'
  BY <1>1, <1>2, <1>3 DEF CallsInv, CallTypes, AnsweredInOrder
<1>6. Posting(ls)'
  BY <1>1, <1>2, Zenon DEF Posting
<1>7. Listening(ls)'
  BY <1>1, <1>2, <1>4 DEF Listening
<1>8. Asking(ts, ls)'
  BY <1>1, <1>2 DEF Asking
<1>9. Covering(ts, ls)'
  BY <1>1, <1>2, <1>4 DEF Covering
<1> QED
  BY <1>3, <1>5, <1>6, <1>7, <1>8, <1>9 DEF CallsInv

\* No step lets a call overtake another one, or get lost.
LEMMA CallsStep == CallsInv /\ [Next]_vars => CallsInv'
<1> SUFFICES ASSUME CallsInv, [Next]_vars PROVE CallsInv'
  OBVIOUS
<1>1. since \in Seq(Views)
  BY DEF CallsInv, CallTypes
<1>2. ASSUME UNCHANGED <<main, listeners, raised, muted, answered, since, tasks>> PROVE CallsInv'
  BY <1>1, <1>2, QuietCalls
<1>3. CASE GetDocuments
  BY <1>3, CallCalls
<1>4. ASSUME NEW w \in Writes, PostWrite(w) PROVE CallsInv'
  <2>1. /\ UNCHANGED <<main, listeners, raised, muted, answered>> /\ Watching
        /\ tasks' = Append(tasks, [op |-> "write", write |-> w])
    BY <1>4 DEF PostWrite, viewVars
  <2>2. since' \in Seq(Views) /\ Len(since') = Len(since)
    BY <1>1, <2>1, ViewsGrow
  <2> QED
    BY <2>1, <2>2, QuietCalls
<1>5. ASSUME NEW d \in Docs, SetData(d) \/ Delete(d) PROVE CallsInv'
  <2>1. <<"put", d>> \in Writes /\ <<"del", d>> \in Writes
    BY DEF Writes
  <2> QED
    BY <1>4, <1>5, <2>1 DEF SetData, Delete
<1>6. CASE Deliver
  <2>1. main # <<>> /\ main' = Tail(main) /\ UNCHANGED <<listeners, raised>>
    BY <1>6 DEF Deliver
  <2>2. CASE Head(main).read \in muted
    <3>1. UNCHANGED <<tasks, muted, answered, since>>
      BY <1>6, <2>2 DEF Deliver, historyVars
    <3> QED
      BY <2>1, <2>2, <3>1, DropCalls
  <2>3. CASE Head(main).read \notin muted
    BY <1>6, <2>1, <2>3, CompleteCalls
  <2> QED
    BY <2>2, <2>3
<1>7. CASE TargetError
  BY <1>7, ErrorCalls
<1>8. CASE RemoveQueryListener
  BY <1>8, RemoveCalls
<1>9. CASE TargetResponse \/ TargetCurrent
  BY <1>2, <1>9 DEF TargetResponse, TargetCurrent, Message, historyVars
<1>10. CASE BackoffElapsed
  BY <1>2, <1>10 DEF BackoffElapsed, queueVars, viewVars, historyVars
<1>11. CASE IdleTimeout
  BY <1>2, <1>11 DEF IdleTimeout, queueVars, viewVars, historyVars
<1>12. CASE RestartNetwork
  BY <1>2, <1>12 DEF RestartNetwork, queueVars, viewVars, historyVars
<1>13. CASE OnWatchStreamOpen
  BY <1>2, <1>13 DEF OnWatchStreamOpen, queueVars, viewVars, historyVars
<1>14. CASE Server \/ ServerSnapshot
  BY <1>2, <1>14 DEF Server, ServerAnswers, ServerCurrent, ServerSnapshot, queueVars, viewVars,
     historyVars
<1>15. CASE UNCHANGED vars
  BY <1>2, <1>15 DEF vars, queueVars, viewVars, historyVars
<1> QED
  BY <1>3, <1>5, <1>6, <1>7, <1>8, <1>9, <1>10, <1>11, <1>12, <1>13, <1>14, <1>15, RaiseCalls
     DEF Next, Worker, Connection

\* At first there are no calls.
LEMMA CallsInit == Init => CallsInv
<1> SUFFICES ASSUME Init PROVE CallsInv
  OBVIOUS
<1>1. /\ tasks = <<>> /\ main = <<>> /\ listeners = <<>> /\ raised = {} /\ muted = {}
      /\ answered = <<>> /\ since = <<>>
  BY DEF Init
<1>2. \A S : <<>> \in Seq(S)
  BY EmptySeq, Zenon
<1>3. Len(<<>>) = 0
  OBVIOUS
<1>4. RangeOf(<<>>) = {}
  BY DEF RangeOf
<1>5. CallTypes
  BY <1>1, <1>2, <1>3, ListeningAssumption DEF CallTypes
<1>6. AnsweredInOrder /\ Posting(listeners) /\ Covering(tasks, listeners)
  BY <1>1, <1>3 DEF AnsweredInOrder, Posting, Covering
<1>7. Listening(listeners)
  BY <1>1, <1>3, <1>4 DEF Listening, Increasing
<1>8. Asking(tasks, listeners)
  BY <1>1, <1>3 DEF Asking
<1> QED
  BY <1>5, <1>6, <1>7, <1>8 DEF CallsInv

-----------------------------------------------------------------------------
(* The documents.  The worker's view passes, task by task, through what    *)
(* the documents are under the writes before each task; the app's view is  *)
(* the last of them.                                                       *)

WritesAt(i, w) == tasks[i].op = "write" /\ tasks[i].write = w
AsksAt(i, r) == Asks(tasks[i], r)

\* The writes the worker knows of when it has done its first j tasks, and what it
\* sees then.
Known(j) == {w \in Writes : w \in saved \/ \E i \in 1..j : WritesAt(i, w)}
Seen(j) == Under(server, Known(j))

\* Write w may be made after write v.
Follows(v, w) == w # v /\ \A d \in Docs : ~(v = <<"del", d>> /\ w = <<"put", d>>)

DocTypes == server \subseteq Docs /\ saved \subseteq Writes

\* A document is put once, and before it is deleted.
WriteOrder ==
    /\ \A v \in Writes, w \in Writes : \A i \in 1..Len(tasks), k \in 1..Len(tasks) :
          i < k /\ WritesAt(i, v) /\ WritesAt(k, w) => Follows(v, w)
    /\ \A v \in saved, w \in Writes : \A i \in 1..Len(tasks) : WritesAt(i, w) => Follows(v, w)
    /\ \A d \in server : /\ <<"put", d>> \notin saved
                         /\ \A i \in 1..Len(tasks) : ~WritesAt(i, <<"put", d>>)

\* What the worker sees from the time on when it has done a call's task is a view
\* of the time after the call.
Viewed ==
    \A r \in (Len(answered) + 1)..Len(since) : \A j \in 0..Len(tasks) :
       (\A k \in (j + 1)..Len(tasks) : ~AsksAt(k, r)) => Seen(j) \in since[r]

\* So is what is posted for it.
Snapshots ==
    \A i \in 1..Len(main) :
       main[i].ok /\ main[i].read > Len(answered) => main[i].docs \in since[main[i].read]

ViewsInv == DocTypes /\ WriteOrder /\ Viewed /\ Snapshots

\* What is seen depends on the writes that are known.
LEMMA SameSeen ==
    ASSUME NEW j, NEW k, server' = server, \A w \in Writes : w \in Known(j)' <=> w \in Known(k)
    PROVE  Seen(j)' = Seen(k)
<1>1. \A d \in Docs : <<"put", d>> \in Writes /\ <<"del", d>> \in Writes
  BY DEF Writes
<1>2. \A d \in Docs : d \in Seen(j)' <=> d \in Seen(k)
  BY <1>1 DEF Seen, Under
<1>3. Seen(j)' \subseteq Docs /\ Seen(k) \subseteq Docs
  BY DEF Seen, Under
<1> QED
  BY <1>2, <1>3

\* The tasks' writes.
LEMMA WritesOf ==
    ASSUME NEW ts \in Seq(TaskRecords), NEW w
    PROVE  w \in {t.write : t \in {u \in RangeOf(ts) : u.op = "write"}} <=>
              \E i \in 1..Len(ts) : ts[i].op = "write" /\ ts[i].write = w
<1>1. \A t : t \in RangeOf(ts) <=> \E i \in 1..Len(ts) : ts[i] = t
  BY InRange
<1> QED
  BY <1>1

\* The writes that are pending.
LEMMA MutsKnown ==
    ASSUME DocTypes, tasks \in Seq(TaskRecords), NEW l, l = Len(tasks)
    PROVE  muts = Known(l) /\ view = Seen(l) /\ muts \subseteq Writes
<1>1. \A w : w \in muts <=> w \in saved \/ \E i \in 1..l : WritesAt(i, w)
  BY WritesOf DEF muts, WritesAt
<1>2. ASSUME NEW w \in muts PROVE w \in Writes
  <2>1. CASE w \in saved
    BY <2>1 DEF DocTypes
  <2>2. ASSUME NEW i \in 1..l, WritesAt(i, w) PROVE w \in Writes
    <3>1. tasks[i] \in TaskRecords
      OBVIOUS
    <3> QED
      BY <2>2, <3>1 DEF WritesAt, TaskRecords
  <2> QED
    BY <1>1, <2>1, <2>2
<1>3. muts = Known(l)
  BY <1>1, <1>2 DEF Known
<1> QED
  BY <1>2, <1>3 DEF view, Seen

\* And after a step.
LEMMA MutsKnownNext ==
    ASSUME DocTypes', tasks' \in Seq(TaskRecords), NEW l, l = Len(tasks')
    PROVE  muts' = Known(l)' /\ view' = Seen(l)' /\ muts' \subseteq Writes
<1>1. \A w : w \in muts' <=> w \in saved' \/ \E i \in 1..l : WritesAt(i, w)'
  <2> TAKE w
  <2> DEFINE ws == {t.write : t \in {u \in RangeOf(tasks') : u.op = "write"}}
  <2>1. w \in ws <=> \E i \in 1..l : tasks'[i].op = "write" /\ tasks'[i].write = w
    BY WritesOf
  <2>2. muts' = saved' \cup ws
    BY DEF muts, RangeOf
  <2> HIDE DEF ws
  <2> QED
    BY <2>1, <2>2 DEF WritesAt
<1>2. ASSUME NEW w \in muts' PROVE w \in Writes
  <2>1. CASE w \in saved'
    BY <2>1 DEF DocTypes
  <2>2. ASSUME NEW i \in 1..l, WritesAt(i, w)' PROVE w \in Writes
    <3>1. tasks'[i] \in TaskRecords
      OBVIOUS
    <3> QED
      BY <2>2, <3>1 DEF WritesAt, TaskRecords
  <2> QED
    BY <1>1, <2>1, <2>2
<1>3. muts' = Known(l)'
  BY <1>1, <1>2 DEF Known
<1>4. view' = Seen(l)'
  BY <1>3 DEF view, Seen, Under
<1> QED
  BY <1>2, <1>3, <1>4

\* The worker does a task: what it sees moves on by one task.
LEMMA TaskViews ==
    ASSUME CallsInv, DocTypes, WriteOrder, Viewed, tasks # <<>>, tasks' = Tail(tasks), server' = server,
           UNCHANGED <<since, answered>>,
           \/ saved' = saved /\ Head(tasks).op # "write"
           \/ saved' = saved \cup {Head(tasks).write} /\ Head(tasks).op = "write"
    PROVE  DocTypes' /\ WriteOrder' /\ Viewed' /\ muts' = muts
<1>1. /\ 1 \in 1..Len(tasks) /\ Head(tasks) = tasks[1] /\ tasks \in Seq(TaskRecords)
      /\ tasks' \in Seq(TaskRecords) /\ Len(tasks') \in Nat /\ Len(tasks') = Len(tasks) - 1
      /\ \A i \in 1..Len(tasks') : i + 1 \in 1..Len(tasks) /\ tasks'[i] = tasks[i + 1]
  <2>1. tasks \in Seq(TaskRecords)
    BY DEF CallsInv, CallTypes
  <2> QED
    BY <2>1, TasksLeft
<1>2. Len(tasks) \in Nat
  BY <1>1
<1>3. \A i \in 1..Len(tasks') : i + 1 \in 1..Len(tasks) /\ 1 < i + 1
  BY <1>1
<1>4. \A w : \A i \in 1..Len(tasks') : WritesAt(i, w)' <=> WritesAt(i + 1, w)
  BY <1>1 DEF WritesAt
<1>5. \A r : \A i \in 1..Len(tasks') : AsksAt(i, r)' <=> AsksAt(i + 1, r)
  BY <1>1 DEF AsksAt, Asks
<1>6. \A w : w \in saved' <=> w \in saved \/ WritesAt(1, w)
  BY <1>1 DEF WritesAt
<1>7. \A w : WritesAt(1, w) => w \in Writes
  <2>1. tasks[1] \in TaskRecords
    BY <1>1
  <2> QED
    BY <2>1 DEF WritesAt, TaskRecords
<1>8. ASSUME NEW j \in 0..Len(tasks'), NEW w \in Writes PROVE w \in Known(j)' <=> w \in Known(j + 1)
  <2>1. \A i \in 1..j : i \in 1..Len(tasks') /\ i + 1 \in 1..(j + 1)
    BY <1>1
  <2>2. \A i \in 1..(j + 1) : i = 1 \/ (i - 1 \in 1..j /\ (i - 1) + 1 = i)
    OBVIOUS
  <2>3. (\E i \in 1..(j + 1) : WritesAt(i, w)) <=> WritesAt(1, w) \/ \E i \in 1..j : WritesAt(i + 1, w)
    <3>1. 1 \in 1..(j + 1)
      OBVIOUS
    <3>2. ASSUME NEW i \in 1..(j + 1), WritesAt(i, w), ~WritesAt(1, w)
          PROVE  \E k \in 1..j : WritesAt(k + 1, w)
      <4>1. i - 1 \in 1..j /\ (i - 1) + 1 = i
        BY <2>2, <3>2
      <4>2. WritesAt((i - 1) + 1, w)
        BY <3>2, <4>1
      <4> QED
        BY <4>1, <4>2
    <3> QED
      BY <2>1, <3>1, <3>2
  <2>4. (\E i \in 1..j : WritesAt(i + 1, w)) <=> \E i \in 1..j : WritesAt(i, w)'
    BY <1>4, <2>1
  <2> QED
    BY <1>6, <2>3, <2>4 DEF Known
<1>9. DocTypes'
  BY <1>6, <1>7 DEF DocTypes
<1>10. WriteOrder'
  <2>1. ASSUME NEW v \in Writes, NEW w \in Writes, NEW i \in 1..Len(tasks'), NEW k \in 1..Len(tasks'),
               i < k, WritesAt(i, v)', WritesAt(k, w)'
        PROVE  Follows(v, w)
    <3>1. WritesAt(i + 1, v) /\ WritesAt(k + 1, w) /\ i + 1 < k + 1
      BY <1>4, <2>1
    <3> QED
      BY <1>3, <3>1 DEF WriteOrder
  <2>2. ASSUME NEW v \in saved', NEW w \in Writes, NEW i \in 1..Len(tasks'), WritesAt(i, w)'
        PROVE  Follows(v, w)
    <3>1. WritesAt(i + 1, w)
      BY <1>4, <2>2
    <3>2. CASE v \in saved
      BY <1>3, <3>1, <3>2 DEF WriteOrder
    <3>3. CASE WritesAt(1, v)
      BY <1>1, <1>3, <1>7, <3>1, <3>3 DEF WriteOrder
    <3> QED
      BY <1>6, <3>2, <3>3
  <2>3. ASSUME NEW d \in server
        PROVE  <<"put", d>> \notin saved' /\ \A i \in 1..Len(tasks') : ~WritesAt(i, <<"put", d>>)'
    BY <1>1, <1>3, <1>4, <1>6 DEF WriteOrder
  <2> QED
    BY <2>1, <2>2, <2>3 DEF WriteOrder
<1>11. Viewed'
  <2> SUFFICES ASSUME NEW r \in (Len(answered) + 1)..Len(since), NEW j \in 0..Len(tasks'),
                      \A k \in (j + 1)..Len(tasks') : ~AsksAt(k, r)'
               PROVE  Seen(j)' \in since[r]
    BY DEF Viewed
  <2>1. j + 1 \in 0..Len(tasks)
    BY <1>1
  <2>2. ASSUME NEW k \in ((j + 1) + 1)..Len(tasks), AsksAt(k, r) PROVE FALSE
    <3>1. k - 1 \in (j + 1)..Len(tasks') /\ k - 1 \in 1..Len(tasks') /\ (k - 1) + 1 = k
      BY <1>1, <1>2
    <3>2. AsksAt(k - 1, r)' <=> AsksAt((k - 1) + 1, r)
      BY <1>5, <3>1
    <3> QED
      BY <2>2, <3>1, <3>2
  <2>3. Seen(j + 1) \in since[r]
    BY <2>1, <2>2 DEF Viewed
  <2>4. Seen(j)' = Seen(j + 1)
    BY <1>8, SameSeen
  <2> QED
    BY <2>3, <2>4
<1>12. muts' = muts
  <2>1. PICK l : l = Len(tasks')
    OBVIOUS
  <2>2. l \in 0..Len(tasks') /\ l + 1 = Len(tasks)
    BY <1>1, <1>2, <2>1
  <2>3. \A w \in Writes : w \in Known(l)' <=> w \in Known(l + 1)
    BY <1>8, <2>2
  <2>4. muts' = Known(l)' /\ muts' \subseteq Writes
    BY <1>1, <1>9, <2>1, MutsKnownNext
  <2>5. muts = Known(l + 1) /\ muts \subseteq Writes
    BY <1>1, <2>2, MutsKnown
  <2> QED
    BY <2>3, <2>4, <2>5
<1> QED
  BY <1>9, <1>10, <1>11, <1>12

\* A task is added: what the worker sees before it is as it was.
LEMMA AddedViews ==
    ASSUME tasks \in Seq(TaskRecords), NEW t \in TaskRecords, tasks' = Append(tasks, t),
           UNCHANGED <<server, saved>>, NEW l, l = Len(tasks)
    PROVE  /\ \A w : \A i \in 1..Len(tasks) : WritesAt(i, w)' <=> WritesAt(i, w)
           /\ \A r : \A i \in 1..Len(tasks) : AsksAt(i, r)' <=> AsksAt(i, r)
           /\ \A w : WritesAt(l + 1, w)' <=> t.op = "write" /\ t.write = w
           /\ \A r : AsksAt(l + 1, r)' <=> Asks(t, r)
           /\ \A j \in 0..l : Seen(j)' = Seen(j)
           /\ t.op # "write" => Seen(l + 1)' = Seen(l)
           /\ DocTypes => DocTypes'
<1>1. /\ tasks' \in Seq(TaskRecords) /\ Len(tasks') = Len(tasks) + 1 /\ Len(tasks) \in Nat
      /\ tasks'[Len(tasks) + 1] = t
      /\ \A i \in 1..Len(tasks) : i \in 1..Len(tasks') /\ tasks'[i] = tasks[i]
  BY OneMoreTask
<1>2. \A w : \A i \in 1..Len(tasks) : WritesAt(i, w)' <=> WritesAt(i, w)
  BY <1>1 DEF WritesAt
<1>3. \A r : \A i \in 1..Len(tasks) : AsksAt(i, r)' <=> AsksAt(i, r)
  BY <1>1 DEF AsksAt, Asks
<1>4. l = Len(tasks)
  OBVIOUS
<1>5. \A w : WritesAt(l + 1, w)' <=> t.op = "write" /\ t.write = w
  BY <1>1, <1>4 DEF WritesAt
<1>6. \A r : AsksAt(l + 1, r)' <=> Asks(t, r)
  BY <1>1, <1>4 DEF AsksAt, Asks
<1>7. ASSUME NEW j \in 0..l PROVE Seen(j)' = Seen(j)
  <2>1. \A i \in 1..j : i \in 1..Len(tasks)
    BY <1>1, <1>4
  <2>2. \A w \in Writes : w \in Known(j)' <=> w \in Known(j)
    BY <1>2, <2>1 DEF Known
  <2> QED
    BY <2>2, SameSeen
<1>8. ASSUME t.op # "write" PROVE Seen(l + 1)' = Seen(l)
  <2>1. \A i \in 1..(l + 1) : i \in 1..l \/ i = l + 1
    BY <1>1, <1>4
  <2>2. \A i \in 1..l : i \in 1..(l + 1)
    BY <1>1, <1>4
  <2>3. \A w : ~WritesAt(l + 1, w)'
    BY <1>5, <1>8
  <2>4. \A w \in Writes : w \in Known(l + 1)' <=> w \in Known(l)
    BY <1>2, <1>4, <2>1, <2>2, <2>3 DEF Known
  <2> QED
    BY <2>4, SameSeen
<1>9. DocTypes => DocTypes'
  BY DEF DocTypes
<1> QED
  BY <1>2, <1>3, <1>4, <1>5, <1>6, <1>7, <1>8, <1>9

\* Snapshots show what the worker sees when it has done no more tasks.
LEMMA NotifyViews ==
    ASSUME CallsInv, Snapshots, NEW ls \in Seq(Reads), NEW ts, Listening(ls), Asking(ts, ls),
           Notify(ls), tasks' = ts, answered' = answered, Len(since') = Len(since),
           \A r \in (Len(answered) + 1)..Len(since) : since[r] \subseteq since'[r],
           DocTypes', Viewed', Len(ts) \in Nat
    PROVE  Snapshots'
<1> DEFINE D == Under(server', saved')
           n == Len(answered)
<1>1. PICK s \in Seq(Reads) :
         /\ RangeOf(s) \subseteq RangeOf(ls)
         /\ main' = main \o [i \in DOMAIN s |-> [read |-> s[i], ok |-> TRUE, docs |-> D]]
  <2>1. Increasing(ls)
    BY DEF Listening
  <2> QED
    BY <2>1, NotifyFacts
<1>2. D \in SUBSET Docs
  BY DEF Under
<1>3. D = Seen(0)'
  <2>1. saved' \subseteq Writes
    BY DEF DocTypes
  <2>2. \A i \in 1..0 : FALSE
    OBVIOUS
  <2>3. Known(0)' = saved'
    BY <2>1, <2>2 DEF Known
  <2> QED
    BY <2>3 DEF Seen, Under
<1> HIDE DEF D
<1>4. CallTypes /\ Posting(listeners) /\ main \in Seq(Posts)
  BY DEF CallsInv, CallTypes
<1>5. /\ Len(main') = Len(main) + Len(s)
      /\ \A i \in 1..Len(main) : main'[i] = main[i]
      /\ \A k \in 1..Len(s) : main'[Len(main) + k] = [read |-> s[k], ok |-> TRUE, docs |-> D]
  BY <1>1, <1>2, <1>4, PostsAdded
<1>6. n \in Nat /\ Len(since) \in Nat /\ Len(main) \in Nat /\ Len(s) \in Nat
  BY <1>4, Numbers
<1> HIDE DEF n
<1> SUFFICES ASSUME NEW i \in 1..Len(main'), main'[i].ok, main'[i].read > n
             PROVE  main'[i].docs \in since'[main'[i].read]
  BY Zenon DEF Snapshots, n
<1>7. CASE i <= Len(main)
  <2>1. i \in 1..Len(main)
    BY <1>5, <1>6, <1>7
  <2>2. main'[i] = main[i]
    BY <1>5, <2>1
  <2>3. main[i].read <= Len(since) /\ main[i].read \in Nat
    BY <1>4, <2>1, Numbers DEF Posting
  <2>4. main[i].docs \in since[main[i].read]
    BY <2>1, <2>2, Zenon DEF Snapshots, n
  <2>5. main[i].read > n
    BY <2>2
  <2>6. main[i].read \in (n + 1)..Len(since)
    BY <1>6, <2>3, <2>5
  <2>7. since[main[i].read] \subseteq since'[main[i].read]
    BY <2>6 DEF n
  <2> QED
    BY <2>2, <2>4, <2>7
<1>8. CASE i > Len(main)
  <2>1. i - Len(main) \in 1..Len(s) /\ i = Len(main) + (i - Len(main))
    BY <1>5, <1>6, <1>8
  <2>2. PICK k \in 1..Len(s) : i = Len(main) + k
    BY <2>1
  <2> DEFINE p == [read |-> s[k], ok |-> TRUE, docs |-> D]
  <2>3. main'[i] = p
    BY <1>5, <2>2
  <2>4. p.read = s[k] /\ p.docs = D
    OBVIOUS
  <2> HIDE DEF p
  <2>5. s[k] \in Reads /\ s[k] \in Nat /\ s[k] \in RangeOf(ls)
    BY <1>1, <1>4, Numbers, InRange
  <2>6. s[k] > n /\ s[k] <= Len(since)
    BY <2>3, <2>4, <2>5 DEF Listening
  <2>7. s[k] \in (n + 1)..Len(since)
    BY <1>6, <2>5, <2>6
  <2>8. \A l \in 1..Len(ts) : ~Asks(ts[l], s[k])
    BY <2>5 DEF Asking, Asks
  <2>9. \A l \in (0 + 1)..Len(tasks') : ~AsksAt(l, s[k])'
    BY <2>8 DEF AsksAt, Asks
  <2>10. 0 \in 0..Len(tasks')
    OBVIOUS
  <2>11. Seen(0)' \in since'[s[k]]
    <3>1. PICK q : q = s[k]
      OBVIOUS
    <3>2. q \in (Len(answered') + 1)..Len(since') /\ \A l \in (0 + 1)..Len(tasks') : ~AsksAt(l, q)'
      BY <2>7, <2>9, <3>1 DEF n
    <3>3. Seen(0)' \in since'[q]
      BY <2>10, <3>2 DEF Viewed
    <3> QED
      BY <3>1, <3>3
  <2> QED
    BY <1>3, <2>3, <2>4, <2>11
<1> QED
  BY <1>6, <1>7, <1>8

\* A call sees the view of its time.
LEMMA GetViews ==
    ASSUME CallsInv, ViewsInv, GetDocuments
    PROVE  ViewsInv' /\ muts' = muts /\ view \in since'[Len(since) + 1]
<1> DEFINE N == Len(since)
           t == [op |-> "listen", read |-> N + 1]
<1>1. /\ N < MaxReads /\ tasks' = Append(tasks, t) /\ since' = Append(since, {view})
      /\ main' = main /\ answered' = answered /\ server' = server /\ saved' = saved
  BY DEF GetDocuments, docVars
<1>2. CallTypes /\ tasks \in Seq(TaskRecords) /\ since \in Seq(Views) /\ N \in Nat /\ Len(tasks) \in Nat
  BY DEF CallsInv, CallTypes
<1>3. N + 1 \in Reads /\ Len(answered) \in Nat /\ Len(answered) <= N
  BY <1>1, <1>2, Numbers, ListeningAssumption DEF Reads, CallsInv, AnsweredInOrder
<1>4. t \in TaskRecords /\ t.op # "write" /\ \A r : Asks(t, r) <=> r = N + 1
  BY <1>3 DEF TaskRecords, Asks
<1>5. PICK l : l = Len(tasks)
  OBVIOUS
<1>6. since'[N + 1] = {view} /\ Len(since') = N + 1 /\ \A r \in 1..N : since'[r] = since[r]
  <2>1. {view} \in Views
    BY DEF Views, view, Under
  <2> QED
    BY <1>1, <1>2, <2>1
<1> HIDE DEF N, t
<1>7. /\ \A w : \A i \in 1..l : WritesAt(i, w)' <=> WritesAt(i, w)
      /\ \A r : \A i \in 1..l : AsksAt(i, r)' <=> AsksAt(i, r)
      /\ \A w : ~WritesAt(l + 1, w)'
      /\ \A r : AsksAt(l + 1, r)' <=> r = N + 1
      /\ \A j \in 0..l : Seen(j)' = Seen(j)
      /\ Seen(l + 1)' = Seen(l)
      /\ DocTypes'
  BY <1>1, <1>2, <1>4, <1>5, AddedViews DEF ViewsInv
<1>8. Len(tasks') = l + 1 /\ tasks' \in Seq(TaskRecords) /\ l \in Nat
  BY <1>1, <1>2, <1>4, <1>5
<1>9. \A i \in 1..(l + 1) : i \in 1..l \/ i = l + 1
  BY <1>8
<1>10. WriteOrder'
  <2>1. \A w : \A i \in 1..Len(tasks') : WritesAt(i, w)' => i \in 1..Len(tasks) /\ WritesAt(i, w)
    BY <1>5, <1>7, <1>8, <1>9
  <2>2. WriteOrder
    BY DEF ViewsInv
  <2> QED
    BY <1>1, <2>1, <2>2 DEF WriteOrder
<1>11. view = Seen(l) /\ muts = Known(l)
  BY <1>2, <1>5, MutsKnown DEF ViewsInv
<1>12. Viewed'
  <2> SUFFICES ASSUME NEW r \in (Len(answered) + 1)..(N + 1), NEW j \in 0..(l + 1),
                      \A k \in (j + 1)..(l + 1) : ~AsksAt(k, r)'
               PROVE  Seen(j)' \in since'[r]
    BY <1>1, <1>6, <1>8 DEF Viewed
  <2>1. CASE r = N + 1
    <3>1. j = l + 1
      <4>1. ~(l + 1 \in (j + 1)..(l + 1))
        BY <1>7, <2>1
      <4> QED
        BY <1>8, <4>1
    <3> QED
      BY <1>6, <1>7, <1>11, <2>1, <3>1
  <2>2. CASE r # N + 1
    <3>1. r \in (Len(answered) + 1)..Len(since) /\ r \in 1..N
      BY <1>2, <1>3, <2>2 DEF N
    <3>2. since'[r] = since[r]
      BY <1>6, <3>1
    <3>3. Viewed
      BY DEF ViewsInv
    <3>4. CASE j = l + 1
      <4>1. \A k \in (l + 1)..Len(tasks) : FALSE
        BY <1>5, <1>8
      <4>2. l \in 0..Len(tasks)
        BY <1>5, <1>8
      <4>3. Seen(l) \in since[r]
        BY <3>1, <3>3, <4>1, <4>2 DEF Viewed
      <4> QED
        BY <1>7, <3>2, <3>4, <4>3
    <3>5. CASE j # l + 1
      <4>1. j \in 0..l /\ j \in 0..Len(tasks)
        BY <1>5, <1>8, <3>5
      <4>2. \A k \in (j + 1)..Len(tasks) : k \in (j + 1)..(l + 1) /\ k \in 1..l
        BY <1>5, <1>8, <4>1
      <4>3. \A k \in (j + 1)..Len(tasks) : ~AsksAt(k, r)
        BY <1>7, <4>2
      <4>4. Seen(j) \in since[r]
        BY <3>1, <3>3, <4>1, <4>3 DEF Viewed
      <4> QED
        BY <1>7, <3>2, <4>1, <4>4
    <3> QED
      BY <3>4, <3>5
  <2> QED
    BY <2>1, <2>2
<1>13. Snapshots'
  <2> SUFFICES ASSUME NEW i \in 1..Len(main), main[i].ok, main[i].read > Len(answered)
               PROVE  main[i].docs \in since'[main[i].read]
    BY <1>1, Zenon DEF Snapshots
  <2>1. main[i].docs \in since[main[i].read]
    BY Zenon DEF ViewsInv, Snapshots
  <2>2. main[i].read \in Nat /\ main[i].read <= N /\ main[i].read >= 1
    BY <1>2, Numbers DEF CallsInv, Posting, N
  <2>3. since'[main[i].read] = since[main[i].read]
    BY <1>2, <1>6, <2>2 DEF N
  <2> QED
    BY <2>1, <2>3
<1>14. muts' = muts
  <2>1. PICK m : m = l + 1
    OBVIOUS
  <2>2. muts' = Known(m)'
    BY <1>7, <1>8, <2>1, MutsKnownNext
  <2>3. \A i \in 1..l : i \in 1..m
    BY <1>8, <2>1
  <2>4. Known(m)' = Known(l)
    BY <1>1, <1>7, <1>9, <2>1, <2>3 DEF Known
  <2> QED
    BY <1>11, <2>2, <2>4
<1>15. view \in since'[Len(since) + 1]
  BY <1>6 DEF N
<1> QED
  BY <1>7, <1>10, <1>12, <1>13, <1>14, <1>15 DEF ViewsInv

\* The calls that are completed.
LEMMA AnsweredAre ==
    ASSUME CallsInv
    PROVE  \A r \in (Len(answered) + 1)..Len(since) : r \notin RangeOf(answered)
<1>1. answered \in Seq(Reads) /\ \A i \in 1..Len(answered) : answered[i] = i
  BY DEF CallsInv, CallTypes, AnsweredInOrder
<1>2. \A r : r \in RangeOf(answered) => \E i \in 1..Len(answered) : answered[i] = r
  BY <1>1, InRange
<1>3. \A r \in (Len(answered) + 1)..Len(since) : \A i \in 1..Len(answered) : i # r
  BY <1>1
<1> QED
  BY <1>1, <1>2, <1>3

\* A write of the app may follow those before it, and every call sees it.
LEMMA PostViews ==
    ASSUME CallsInv, ViewsInv, NEW w \in Writes, PostWrite(w),
           \A v \in muts : Follows(v, w),
           \A d \in server : w # <<"put", d>>
    PROVE  /\ ViewsInv' /\ muts' = muts \cup {w}
           /\ \A r \in (Len(answered) + 1)..Len(since) : since'[r] = since[r] \cup {view'}
<1> DEFINE t == [op |-> "write", write |-> w]
<1>1. /\ tasks' = Append(tasks, t) /\ Watching
      /\ main' = main /\ answered' = answered /\ server' = server /\ saved' = saved
  BY DEF PostWrite, docVars
<1>2. CallTypes /\ tasks \in Seq(TaskRecords) /\ since \in Seq(Views) /\ Len(tasks) \in Nat
      /\ Len(answered) \in Nat /\ Len(since) \in Nat
  BY DEF CallsInv, CallTypes
<1>3. DocTypes /\ WriteOrder /\ Viewed /\ Snapshots
  BY DEF ViewsInv
<1>4. t \in TaskRecords /\ t.op = "write" /\ t.write = w /\ \A r : ~Asks(t, r)
  BY DEF TaskRecords, Asks
<1>5. PICK l : l = Len(tasks)
  OBVIOUS
<1> HIDE DEF t
<1>6. /\ \A v : \A i \in 1..l : WritesAt(i, v)' <=> WritesAt(i, v)
      /\ \A r : \A i \in 1..l : AsksAt(i, r)' <=> AsksAt(i, r)
      /\ \A v : WritesAt(l + 1, v)' <=> w = v
      /\ \A r : ~AsksAt(l + 1, r)'
      /\ \A j \in 0..l : Seen(j)' = Seen(j)
      /\ DocTypes'
  BY <1>1, <1>2, <1>3, <1>4, <1>5, AddedViews
<1>7. Len(tasks') = l + 1 /\ tasks' \in Seq(TaskRecords) /\ l \in Nat
  BY <1>1, <1>2, <1>4, <1>5
<1>8. \A i \in 1..(l + 1) : i \in 1..l \/ i = l + 1
  BY <1>7
<1>9. \A v \in Writes : v \in muts <=> v \in saved \/ \E i \in 1..l : WritesAt(i, v)
  <2>1. muts = Known(l)
    BY <1>2, <1>3, <1>5, MutsKnown
  <2> QED
    BY <2>1 DEF Known
<1>10. WriteOrder'
  <2>1. ASSUME NEW u \in Writes, NEW v \in Writes, NEW i \in 1..(l + 1), NEW k \in 1..(l + 1),
               i < k, WritesAt(i, u)', WritesAt(k, v)'
        PROVE  Follows(u, v)
    <3>1. i \in 1..l
      BY <1>7, <2>1
    <3>2. WritesAt(i, u) /\ u \in muts
      BY <1>6, <1>9, <2>1, <3>1
    <3>3. CASE k \in 1..l
      <4>1. WritesAt(k, v)
        BY <1>6, <2>1, <3>3
      <4> QED
        BY <1>3, <1>5, <2>1, <3>1, <3>2, <3>3, <4>1 DEF WriteOrder
    <3>4. CASE k = l + 1
      BY <1>6, <2>1, <3>2, <3>4
    <3> QED
      BY <1>8, <3>3, <3>4
  <2>2. ASSUME NEW u \in saved, NEW v \in Writes, NEW i \in 1..(l + 1), WritesAt(i, v)'
        PROVE  Follows(u, v)
    <3>1. u \in muts
      BY <1>3, <1>9 DEF DocTypes
    <3>2. CASE i \in 1..l
      BY <1>3, <1>5, <1>6, <2>2, <3>2 DEF WriteOrder
    <3>3. CASE i = l + 1
      BY <1>6, <2>2, <3>1, <3>3
    <3> QED
      BY <1>8, <3>2, <3>3
  <2>3. ASSUME NEW d \in server
        PROVE  <<"put", d>> \notin saved /\ \A i \in 1..(l + 1) : ~WritesAt(i, <<"put", d>>)'
    <3>1. <<"put", d>> \notin saved /\ \A i \in 1..l : ~WritesAt(i, <<"put", d>>)
      BY <1>3, <1>5 DEF WriteOrder
    <3>2. ~WritesAt(l + 1, <<"put", d>>)'
      BY <1>6
    <3> QED
      BY <1>6, <1>8, <3>1, <3>2
  <2> QED
    BY <1>1, <1>7, <2>1, <2>2, <2>3 DEF WriteOrder
<1>11. PICK m : m = l + 1
  OBVIOUS
<1>12. muts' = Known(m)' /\ view' = Seen(m)'
  BY <1>6, <1>7, <1>11, MutsKnownNext
<1>13. muts' = muts \cup {w}
  <2>1. muts = Known(l)
    BY <1>2, <1>3, <1>5, MutsKnown
  <2>2. \A i \in 1..l : i \in 1..m
    BY <1>7, <1>11
  <2>3. m \in 1..m
    BY <1>7, <1>11
  <2>4. \A v \in Writes : v \in Known(m)' <=> v \in Known(l) \/ v = w
    BY <1>1, <1>6, <1>8, <1>11, <2>2, <2>3 DEF Known
  <2>5. Known(m)' \subseteq Writes /\ Known(l) \subseteq Writes
    BY DEF Known
  <2> QED
    BY <1>12, <2>1, <2>4, <2>5
<1>14. \A r \in (Len(answered) + 1)..Len(since) : since'[r] = since[r] \cup {view'}
  <2>1. \A r \in (Len(answered) + 1)..Len(since) : r \in DOMAIN since /\ r \notin RangeOf(answered)
    <3>1. \A r \in (Len(answered) + 1)..Len(since) : r \in 1..Len(since)
      BY <1>2
    <3>2. DOMAIN since = 1..Len(since)
      BY <1>2
    <3> QED
      BY <3>1, <3>2, AnsweredAre
  <2> QED
    BY <1>1, <2>1 DEF Watching
<1>15. Len(since') = Len(since)
  BY <1>1, <1>2, ViewsGrow
<1>16. Viewed'
  <2> SUFFICES ASSUME NEW r \in (Len(answered) + 1)..Len(since), NEW j \in 0..m,
                      \A k \in (j + 1)..m : ~AsksAt(k, r)'
               PROVE  Seen(j)' \in since'[r]
    BY <1>1, <1>7, <1>11, <1>15 DEF Viewed
  <2>1. CASE j = m
    BY <1>12, <1>14, <2>1
  <2>2. CASE j # m
    <3>1. j \in 0..l /\ j \in 0..Len(tasks)
      BY <1>5, <1>7, <1>11, <2>2
    <3>2. \A k \in (j + 1)..Len(tasks) : k \in (j + 1)..m /\ k \in 1..l
      BY <1>5, <1>7, <1>11, <3>1
    <3>3. \A k \in (j + 1)..Len(tasks) : ~AsksAt(k, r)
      BY <1>6, <3>2
    <3>4. Seen(j) \in since[r]
      BY <1>3, <3>1, <3>3 DEF Viewed
    <3>5. Seen(j)' = Seen(j)
      BY <1>6, <3>1
    <3> QED
      BY <1>14, <3>4, <3>5
  <2> QED
    BY <2>1, <2>2
<1>17. Snapshots'
  <2> SUFFICES ASSUME NEW i \in 1..Len(main), main[i].ok, main[i].read > Len(answered)
               PROVE  main[i].docs \in since'[main[i].read]
    BY <1>1, Zenon DEF Snapshots
  <2>1. main[i].docs \in since[main[i].read]
    BY <1>3, Zenon DEF Snapshots
  <2>2. main[i].read \in Nat /\ main[i].read <= Len(since) /\ main[i].read > Len(answered)
    BY <1>2, Numbers DEF CallsInv, Posting
  <2>3. main[i].read \in (Len(answered) + 1)..Len(since)
    BY <1>2, <2>2
  <2> QED
    BY <1>14, <2>1, <2>3
<1> QED
  BY <1>6, <1>10, <1>13, <1>14, <1>16, <1>17 DEF ViewsInv

\* The app's writes.
LEMMA AppWrites ==
    ASSUME CallsInv, ViewsInv, NEW d \in Docs, SetData(d) \/ Delete(d)
    PROVE  /\ ViewsInv'
           /\ \A r \in (Len(answered) + 1)..Len(since) : since'[r] = since[r] \cup {view'}
           /\ SetData(d) => muts' = muts \cup {<<"put", d>>}
           /\ Delete(d) => muts' = muts \cup {<<"del", d>>}
<1>1. <<"put", d>> \in Writes /\ <<"del", d>> \in Writes
  BY DEF Writes
<1>2. "put" # "del"
  OBVIOUS
<1>3. ASSUME SetData(d)
      PROVE  /\ ViewsInv' /\ muts' = muts \cup {<<"put", d>>}
             /\ \A r \in (Len(answered) + 1)..Len(since) : since'[r] = since[r] \cup {view'}
  <2>1. d \notin server /\ <<"put", d>> \notin muts /\ <<"del", d>> \notin muts /\ PostWrite(<<"put", d>>)
    BY <1>3 DEF SetData
  <2>2. \A v \in muts : Follows(v, <<"put", d>>)
    BY <2>1 DEF Follows
  <2>3. \A e \in server : <<"put", d>> # <<"put", e>>
    BY <2>1
  <2> QED
    BY <1>1, <2>1, <2>2, <2>3, PostViews
<1>4. ASSUME Delete(d)
      PROVE  /\ ViewsInv' /\ muts' = muts \cup {<<"del", d>>}
             /\ \A r \in (Len(answered) + 1)..Len(since) : since'[r] = since[r] \cup {view'}
  <2>1. d \in view /\ PostWrite(<<"del", d>>)
    BY <1>4 DEF Delete
  <2>2. <<"del", d>> \notin muts
    BY <2>1 DEF view, Under
  <2>3. \A v \in muts : Follows(v, <<"del", d>>)
    BY <2>2 DEF Follows
  <2>4. \A e \in server : <<"del", d>> # <<"put", e>>
    OBVIOUS
  <2> QED
    BY <1>1, <2>1, <2>3, <2>4, PostViews
<1>5. ~(SetData(d) /\ Delete(d))
  <2>1. SUFFICES ASSUME SetData(d), Delete(d) PROVE FALSE
    OBVIOUS
  <2>2. d \notin server /\ <<"put", d>> \notin muts
    BY <2>1 DEF SetData
  <2>3. d \in view
    BY <2>1 DEF Delete
  <2> QED
    BY <2>2, <2>3 DEF view, Under
<1> QED
  BY <1>3, <1>4, <1>5

\* A step of neither documents nor tasks, that takes posts away at most.
LEMMA SameViews ==
    ASSUME ViewsInv, UNCHANGED <<tasks, server, saved, since, answered>>
    PROVE  DocTypes' /\ WriteOrder' /\ Viewed' /\ muts' = muts
<1>1. DocTypes /\ WriteOrder /\ Viewed
  BY DEF ViewsInv
<1>2. \A i, w : WritesAt(i, w)' <=> WritesAt(i, w)
  BY DEF WritesAt
<1>3. \A i, r : AsksAt(i, r)' <=> AsksAt(i, r)
  BY DEF AsksAt, Asks
<1>4. \A j : Seen(j)' = Seen(j)
  <2> TAKE j
  <2>1. \A w \in Writes : w \in Known(j)' <=> w \in Known(j)
    BY <1>2 DEF Known
  <2> QED
    BY <2>1, SameSeen
<1>5. DocTypes'
  BY <1>1 DEF DocTypes
<1>6. WriteOrder'
  BY <1>1, <1>2 DEF WriteOrder
<1>7. Viewed'
  BY <1>1, <1>3, <1>4 DEF Viewed
<1>8. muts' = muts
  BY DEF muts, RangeOf
<1> QED
  BY <1>5, <1>6, <1>7, <1>8

\* A post for a completed call is dropped.
LEMMA DropViews ==
    ASSUME CallsInv, ViewsInv, main # <<>>, main' = Tail(main),
           UNCHANGED <<tasks, server, saved, since, answered>>
    PROVE  ViewsInv' /\ muts' = muts
<1>1. \A i \in 1..Len(main') : i + 1 \in 1..Len(main) /\ main'[i] = main[i + 1]
  BY NextPost
<1>2. Snapshots'
  <2> SUFFICES ASSUME NEW i \in 1..Len(main'), main'[i].ok, main'[i].read > Len(answered)
               PROVE  main'[i].docs \in since[main'[i].read]
    BY Zenon DEF Snapshots
  <2> QED
    BY <1>1, Zenon DEF ViewsInv, Snapshots
<1> QED
  BY <1>2, SameViews DEF ViewsInv

\* A call is completed, with a view of the time after it if all is well.
LEMMA CompleteViews ==
    ASSUME CallsInv, ViewsInv, main # <<>>, Head(main).read \notin muted, Deliver
    PROVE  /\ ViewsInv' /\ muts' = muts
           /\ Head(main).read = Len(answered) + 1 /\ Len(answered) + 1 \in 1..Len(since)
           /\ Head(main).ok => Head(main).docs \in since[Len(answered) + 1]
<1> DEFINE n == Len(answered)
           b == Head(main)
<1>1. /\ main' = Tail(main) /\ answered' = Append(answered, b.read)
      /\ since' = [since EXCEPT ![b.read] = {}]
      /\ \/ tasks' = Append(tasks, [op |-> "remove", read |-> b.read])
         \/ tasks' = tasks
      /\ server' = server /\ saved' = saved
  BY Zenon DEF Deliver, docVars
<1>2. CallTypes /\ tasks \in Seq(TaskRecords) /\ since \in Seq(Views) /\ answered \in Seq(Reads)
      /\ Len(tasks) \in Nat /\ n \in Nat /\ Len(since) \in Nat
  BY DEF CallsInv, CallTypes
<1>3. /\ 1 \in 1..Len(main) /\ b = main[1] /\ b.read = n + 1 /\ n + 1 <= Len(since)
      /\ \A i \in 1..Len(main') : i + 1 \in 1..Len(main) /\ main'[i] = main[i + 1]
  <2>1. main' = Tail(main)
    BY <1>1
  <2> QED
    BY <2>1, NextPost
<1>4. DocTypes /\ WriteOrder /\ Viewed /\ Snapshots
  BY DEF ViewsInv
<1>5. n + 1 \in 1..Len(since) /\ n + 1 \in Reads
  BY <1>2, <1>3, Numbers, ListeningAssumption DEF CallTypes, Reads
<1>6. Len(answered') = n + 1
  BY <1>1, <1>2, <1>3, <1>5
<1>7. Len(since') = Len(since) /\ \A r \in ((n + 1) + 1)..Len(since) : since'[r] = since[r]
  <2>1. since' = [since EXCEPT ![n + 1] = {}] /\ {} \in Views
    BY <1>1, <1>3 DEF Views
  <2>2. Len(since') = Len(since) /\ \A r \in 1..Len(since) : r # n + 1 => since'[r] = since[r]
    BY <1>2, <1>5, <2>1, ExceptSeq
  <2>3. \A r \in ((n + 1) + 1)..Len(since) : r \in 1..Len(since) /\ r # n + 1
    BY <1>2
  <2> QED
    BY <2>2, <2>3
<1>8. b.ok => b.docs \in since[n + 1]
  <2>1. main[1].read > Len(answered)
    BY <1>2, <1>3
  <2> QED
    BY <1>3, <1>4, <2>1, Zenon DEF Snapshots
<1> HIDE DEF n, b
<1>9. Snapshots'
  <2> SUFFICES ASSUME NEW i \in 1..Len(main'), main'[i].ok, main'[i].read > n + 1
               PROVE  main'[i].docs \in since'[main'[i].read]
    BY <1>6, Zenon DEF Snapshots
  <2>1. i + 1 \in 1..Len(main) /\ main'[i] = main[i + 1]
    BY <1>3
  <2>2. main[i + 1].read \in Nat /\ main[i + 1].read <= Len(since)
    BY <1>2, <2>1, Numbers DEF CallsInv, Posting
  <2>3. main[i + 1].read > n + 1
    BY <2>1
  <2>4. main[i + 1].read > Len(answered) /\ main[i + 1].read \in ((n + 1) + 1)..Len(since)
    BY <1>2, <2>2, <2>3 DEF n
  <2>5. main[i + 1].docs \in since[main[i + 1].read]
    BY <1>4, <2>1, <2>4, Zenon DEF Snapshots
  <2> QED
    BY <1>7, <2>1, <2>4, <2>5
<1>10. PICK l : l = Len(tasks)
  OBVIOUS
<1>11. CASE tasks' = tasks
  <2>1. \A i, w : WritesAt(i, w)' <=> WritesAt(i, w)
    BY <1>11 DEF WritesAt
  <2>2. \A i, r : AsksAt(i, r)' <=> AsksAt(i, r)
    BY <1>11 DEF AsksAt, Asks
  <2>3. \A j : Seen(j)' = Seen(j)
    <3> TAKE j
    <3>1. \A w \in Writes : w \in Known(j)' <=> w \in Known(j)
      BY <1>1, <2>1 DEF Known
    <3> QED
      BY <1>1, <3>1, SameSeen
  <2>4. DocTypes'
    BY <1>1, <1>4 DEF DocTypes
  <2>5. WriteOrder'
    BY <1>1, <1>4, <1>11, <2>1 DEF WriteOrder
  <2>6. Viewed'
    <3> SUFFICES ASSUME NEW r \in ((n + 1) + 1)..Len(since), NEW j \in 0..Len(tasks),
                        \A k \in (j + 1)..Len(tasks) : ~AsksAt(k, r)'
                 PROVE  Seen(j)' \in since'[r]
      BY <1>6, <1>7, <1>11 DEF Viewed
    <3>1. r \in (Len(answered) + 1)..Len(since)
      BY <1>2 DEF n
    <3>2. Seen(j) \in since[r]
      BY <1>4, <2>2, <3>1 DEF Viewed
    <3> QED
      BY <1>7, <2>3, <3>2
  <2>7. muts' = muts
    BY <1>1, <1>11 DEF muts, RangeOf
  <2> QED
    BY <1>3, <1>5, <1>8, <1>9, <2>4, <2>5, <2>6, <2>7 DEF ViewsInv, n, b
<1>12. CASE tasks' = Append(tasks, [op |-> "remove", read |-> b.read])
  <2> DEFINE t == [op |-> "remove", read |-> n + 1]
  <2>1. t \in TaskRecords /\ t.op # "write" /\ \A r : ~Asks(t, r)
    BY <1>5 DEF TaskRecords, Asks
  <2>2. tasks' = Append(tasks, t)
    BY <1>3, <1>12
  <2> HIDE DEF t
  <2>3. /\ \A w : \A i \in 1..l : WritesAt(i, w)' <=> WritesAt(i, w)
        /\ \A r : \A i \in 1..l : AsksAt(i, r)' <=> AsksAt(i, r)
        /\ \A w : ~WritesAt(l + 1, w)'
        /\ \A r : ~AsksAt(l + 1, r)'
        /\ \A j \in 0..l : Seen(j)' = Seen(j)
        /\ Seen(l + 1)' = Seen(l)
        /\ DocTypes'
    BY <1>1, <1>2, <1>4, <1>10, <2>1, <2>2, AddedViews
  <2>4. Len(tasks') = l + 1 /\ tasks' \in Seq(TaskRecords) /\ l \in Nat
    BY <1>2, <1>10, <2>1, <2>2
  <2>5. \A i \in 1..(l + 1) : i \in 1..l \/ i = l + 1
    BY <2>4
  <2>6. WriteOrder'
    <3>1. \A w : \A i \in 1..Len(tasks') : WritesAt(i, w)' => i \in 1..Len(tasks) /\ WritesAt(i, w)
      BY <1>10, <2>3, <2>4, <2>5
    <3> QED
      BY <1>1, <1>4, <3>1 DEF WriteOrder
  <2>7. Viewed'
    <3> SUFFICES ASSUME NEW r \in ((n + 1) + 1)..Len(since), NEW j \in 0..(l + 1),
                        \A k \in (j + 1)..(l + 1) : ~AsksAt(k, r)'
                 PROVE  Seen(j)' \in since'[r]
      BY <1>6, <1>7, <2>4 DEF Viewed
    <3>1. r \in (Len(answered) + 1)..Len(since)
      BY <1>2 DEF n
    <3>2. CASE j = l + 1
      <4>1. \A k \in (l + 1)..Len(tasks) : FALSE
        BY <1>10, <2>4
      <4>2. l \in 0..Len(tasks)
        BY <1>10, <2>4
      <4>3. Seen(l) \in since[r]
        BY <1>4, <3>1, <4>1, <4>2 DEF Viewed
      <4> QED
        BY <1>7, <2>3, <3>2, <4>3
    <3>3. CASE j # l + 1
      <4>1. j \in 0..l /\ j \in 0..Len(tasks)
        BY <1>10, <2>4, <3>3
      <4>2. \A k \in (j + 1)..Len(tasks) : k \in (j + 1)..(l + 1) /\ k \in 1..l
        BY <1>10, <2>4, <4>1
      <4>3. \A k \in (j + 1)..Len(tasks) : ~AsksAt(k, r)
        BY <2>3, <4>2
      <4>4. Seen(j) \in since[r]
        BY <1>4, <3>1, <4>1, <4>3 DEF Viewed
      <4> QED
        BY <1>7, <2>3, <4>1, <4>4
    <3> QED
      BY <3>2, <3>3
  <2>8. muts' = muts
    <3>1. PICK m : m = l + 1
      OBVIOUS
    <3>2. muts' = Known(m)'
      BY <2>3, <2>4, <3>1, MutsKnownNext
    <3>3. muts = Known(l)
      BY <1>2, <1>4, <1>10, MutsKnown
    <3>4. \A i \in 1..l : i \in 1..m
      BY <2>4, <3>1
    <3>5. Known(m)' = Known(l)
      BY <1>1, <2>3, <2>5, <3>1, <3>4 DEF Known
    <3> QED
      BY <3>2, <3>3, <3>5
  <2> QED
    BY <1>3, <1>5, <1>8, <1>9, <2>3, <2>6, <2>7, <2>8 DEF ViewsInv, n, b
<1> QED
  BY <1>1, <1>11, <1>12 DEF b

\* A write that has its answer leaves the mutation queue; it is there once.
LEMMA WriteGone ==
    ASSUME CallsInv, ViewsInv, NEW w \in Writes, Oldest(w), saved' = saved \ {w}, tasks' = tasks,
           server' \subseteq Docs
    PROVE  /\ DocTypes' /\ muts' = muts \ {w} /\ w \in muts
           /\ \A j \in 0..Len(tasks) : Known(j)' = Known(j) \ {w} /\ w \in Known(j)
           /\ \A d \in Docs : w = <<"del", d>> => <<"put", d>> \notin muts
           /\ \A d \in Docs : w = <<"put", d>> => d \notin server
           /\ \A d \in Docs : \A j \in 0..Len(tasks) :
                 <<"put", d>> \in Known(j) => <<"put", d>> \in muts
<1>1. CallTypes /\ tasks \in Seq(TaskRecords) /\ DocTypes /\ WriteOrder /\ Len(tasks) \in Nat
  BY DEF CallsInv, CallTypes, ViewsInv
<1>2. w \in saved
  BY DEF Oldest
<1>3. \A i \in 1..Len(tasks) : ~WritesAt(i, w)
  BY <1>1, <1>2 DEF WriteOrder, Follows
<1>4. \A i, v : WritesAt(i, v)' <=> WritesAt(i, v)
  BY DEF WritesAt
<1>5. ASSUME NEW j \in 0..Len(tasks) PROVE Known(j)' = Known(j) \ {w} /\ w \in Known(j)
  <2>1. \A i \in 1..j : ~WritesAt(i, w)
    <3>1. \A i \in 1..j : i \in 1..Len(tasks)
      BY <1>1
    <3> QED
      BY <1>3, <3>1
  <2> QED
    BY <1>2, <1>4, <2>1 DEF Known
<1>6. DocTypes'
  BY <1>1 DEF DocTypes
<1>7. PICK l : l = Len(tasks)
  OBVIOUS
<1>8. muts = Known(l)
  BY <1>1, <1>7, MutsKnown
<1>9. muts' = Known(l)'
  BY <1>1, <1>6, <1>7, MutsKnownNext
<1>10. muts' = muts \ {w} /\ w \in muts
  BY <1>1, <1>5, <1>7, <1>8, <1>9
<1>11. ASSUME NEW d \in Docs, w = <<"del", d>> PROVE <<"put", d>> \notin muts
  <2>1. <<"put", d>> \in Writes
    BY DEF Writes
  <2>2. <<"put", d>> \notin saved
    BY <1>11 DEF Oldest
  <2>3. \A i \in 1..l : ~WritesAt(i, <<"put", d>>)
    BY <1>1, <1>2, <1>7, <1>11, <2>1 DEF WriteOrder, Follows
  <2> QED
    BY <1>8, <2>2, <2>3 DEF Known
<1>12. ASSUME NEW d \in Docs, w = <<"put", d>> PROVE d \notin server
  BY <1>1, <1>2, <1>12 DEF WriteOrder
<1>13. ASSUME NEW d \in Docs, NEW j \in 0..Len(tasks), <<"put", d>> \in Known(j)
       PROVE  <<"put", d>> \in muts
  <2>1. \A i \in 1..j : i \in 1..l
    BY <1>1, <1>7
  <2> QED
    BY <1>8, <1>13, <2>1 DEF Known
<1> QED
  BY <1>5, <1>6, <1>10, <1>11, <1>12, <1>13

\* The order of writes, when one has its answer.
LEMMA GoneOrder ==
    ASSUME CallsInv, ViewsInv, NEW w \in Writes, Oldest(w), saved' = saved \ {w}, tasks' = tasks,
           \A d \in server' : d \in server \/ w = <<"put", d>>
    PROVE  WriteOrder'
<1>1. WriteOrder
  BY DEF ViewsInv
<1>2. w \in saved
  BY DEF Oldest
<1>3. \A i \in 1..Len(tasks) : ~WritesAt(i, w)
  BY <1>1, <1>2 DEF WriteOrder, Follows
<1>4. \A i, v : WritesAt(i, v)' <=> WritesAt(i, v)
  BY DEF WritesAt
<1>5. ASSUME NEW d \in server'
      PROVE  <<"put", d>> \notin saved' /\ \A i \in 1..Len(tasks) : ~WritesAt(i, <<"put", d>>)
  <2>1. CASE d \in server
    BY <1>1, <2>1 DEF WriteOrder
  <2>2. CASE w = <<"put", d>>
    BY <1>3, <2>2
  <2> QED
    BY <1>5, <2>1, <2>2
<1>6. \A v \in saved', u \in Writes : \A i \in 1..Len(tasks) : WritesAt(i, u) => Follows(v, u)
  BY <1>1 DEF WriteOrder
<1>7. \A v \in Writes, u \in Writes : \A i \in 1..Len(tasks), k \in 1..Len(tasks) :
          i < k /\ WritesAt(i, v) /\ WritesAt(k, u) => Follows(v, u)
  BY <1>1 DEF WriteOrder
<1> QED
  BY <1>4, <1>5, <1>6, <1>7 DEF WriteOrder

\* A write has a kind and a document.
LEMMA WriteIs ==
    ASSUME NEW w \in Writes
    PROVE  /\ w[2] \in Docs
           /\ (w = <<"put", w[2]>> /\ w[1] = "put") \/ (w = <<"del", w[2]>> /\ w[1] = "del")
  BY DEF Writes

\* What the server takes over is seen as before, by the worker after each task
\* and by the app.
LEMMA AckViews ==
    ASSUME CallsInv, ViewsInv, NEW w \in Writes, HandleSuccessfulWrite(w)
    PROVE  /\ DocTypes' /\ WriteOrder' /\ Viewed'
           /\ w \in saved /\ muts' = muts \ {w} /\ view' = view
           /\ \A d \in Docs : w = <<"del", d>> => <<"put", d>> \notin muts
<1>1. /\ Oldest(w) /\ saved' = saved \ {w} /\ tasks' = tasks /\ since' = since /\ answered' = answered
      /\ server' = IF w[1] = "put" THEN server \cup {w[2]} ELSE server \ {w[2]}
  BY DEF HandleSuccessfulWrite, historyVars
<1>2. PICK d \in Docs : (w = <<"put", d>> /\ w[1] = "put" /\ w[2] = d) \/ (w = <<"del", d>> /\ w[1] = "del" /\ w[2] = d)
  BY WriteIs
<1>3. (w = <<"put", d>> /\ server' = server \cup {d}) \/ (w = <<"del", d>> /\ server' = server \ {d})
  BY <1>1, <1>2
<1>4. server' \subseteq Docs /\ \A e \in server' : e \in server \/ w = <<"put", e>>
  BY <1>3 DEF ViewsInv, DocTypes
<1>5. /\ DocTypes' /\ muts' = muts \ {w} /\ w \in muts
      /\ \A j \in 0..Len(tasks) : Known(j)' = Known(j) \ {w} /\ w \in Known(j)
      /\ \A e \in Docs : w = <<"del", e>> => <<"put", e>> \notin muts
      /\ \A e \in Docs : w = <<"put", e>> => e \notin server
      /\ \A e \in Docs : \A j \in 0..Len(tasks) :
            <<"put", e>> \in Known(j) => <<"put", e>> \in muts
  BY <1>1, <1>4, WriteGone
<1>6. WriteOrder'
  BY <1>1, <1>4, GoneOrder
<1>7. ASSUME NEW j \in 0..Len(tasks) PROVE Seen(j)' = Seen(j)
  <2>1. Known(j)' = Known(j) \ {w} /\ w \in Known(j)
    BY <1>5
  <2>2. Seen(j)' = {e \in Docs : /\ e \in server' \/ <<"put", e>> \in Known(j)'
                                 /\ <<"del", e>> \notin Known(j)'}
    BY DEF Seen, Under
  <2>3. Seen(j) = {e \in Docs : /\ e \in server \/ <<"put", e>> \in Known(j)
                                /\ <<"del", e>> \notin Known(j)}
    BY DEF Seen, Under
  <2>4. ASSUME w = <<"put", d>>, server' = server \cup {d}, NEW e \in Docs
        PROVE  e \in Seen(j)' <=> e \in Seen(j)
    <3>1. <<"del", e>> \in Known(j)' <=> <<"del", e>> \in Known(j)
      BY <2>1, <2>4
    <3>2. (e \in server' \/ <<"put", e>> \in Known(j)') <=> (e \in server \/ <<"put", e>> \in Known(j))
      BY <2>1, <2>4
    <3> QED
      BY <2>2, <2>3, <3>1, <3>2
  <2>5. ASSUME w = <<"del", d>>, server' = server \ {d}, NEW e \in Docs
        PROVE  e \in Seen(j)' <=> e \in Seen(j)
    <3>1. CASE e = d
      <4>1. <<"put", d>> \notin Known(j)
        BY <1>5, <2>5
      <4>2. e \notin server' /\ <<"put", e>> \notin Known(j)'
        BY <2>1, <2>5, <3>1, <4>1
      <4>3. <<"del", e>> \in Known(j)
        BY <2>1, <2>5, <3>1
      <4> QED
        BY <2>2, <2>3, <4>2, <4>3
    <3>2. CASE e # d
      <4>1. <<"del", e>> \in Known(j)' <=> <<"del", e>> \in Known(j)
        BY <2>1, <2>5, <3>2
      <4>2. (e \in server' \/ <<"put", e>> \in Known(j)') <=> (e \in server \/ <<"put", e>> \in Known(j))
        BY <2>1, <2>5, <3>2
      <4> QED
        BY <2>2, <2>3, <4>1, <4>2
    <3> QED
      BY <3>1, <3>2
  <2>6. \A e \in Docs : e \in Seen(j)' <=> e \in Seen(j)
    BY <1>3, <2>4, <2>5
  <2>7. Seen(j)' \subseteq Docs /\ Seen(j) \subseteq Docs
    BY <2>2, <2>3
  <2> QED
    BY <2>6, <2>7
<1>8. Viewed'
  <2>1. \A i, r : AsksAt(i, r)' <=> AsksAt(i, r)
    BY <1>1 DEF AsksAt, Asks
  <2> SUFFICES ASSUME NEW r \in (Len(answered) + 1)..Len(since), NEW j \in 0..Len(tasks),
                      \A k \in (j + 1)..Len(tasks) : ~AsksAt(k, r)'
               PROVE  Seen(j)' \in since[r]
    BY <1>1 DEF Viewed
  <2> QED
    BY <1>7, <2>1 DEF ViewsInv, Viewed
<1>9. view' = view
  <2>1. PICK l : l = Len(tasks)
    OBVIOUS
  <2>2. tasks \in Seq(TaskRecords) /\ l \in 0..Len(tasks) /\ DocTypes
    BY <2>1 DEF CallsInv, CallTypes, ViewsInv
  <2>3. view = Seen(l)
    BY <2>1, <2>2, MutsKnown
  <2>4. view' = Seen(l)'
    BY <1>1, <1>5, <2>1, <2>2, MutsKnownNext
  <2> QED
    BY <1>7, <2>2, <2>3, <2>4
<1>10. w \in saved
  BY <1>1 DEF Oldest
<1> QED
  BY <1>5, <1>6, <1>8, <1>9, <1>10

\* What the server does not take is undone, for every call that is open.
LEMMA RejectViews ==
    ASSUME CallsInv, ViewsInv, NEW w \in Writes, HandleRejectedWrite(w)
    PROVE  /\ DocTypes' /\ WriteOrder' /\ Viewed'
           /\ w \in saved /\ muts' = muts \ {w}
           /\ \A d \in Docs : w = <<"del", d>> => <<"put", d>> \notin muts
           /\ \A r \in 1..Len(since) : since'[r] = since[r] \cup
                 {(v \ {w[2]}) \cup (view' \cap {w[2]}) : v \in since[r]}
<1>1. /\ Oldest(w) /\ saved' = saved \ {w} /\ tasks' = tasks /\ answered' = answered
      /\ server' = server
      /\ since' = [r \in DOMAIN since |-> since[r] \cup
                      {(v \ {w[2]}) \cup (view' \cap {w[2]}) : v \in since[r]}]
  BY DEF HandleRejectedWrite
<1>2. PICK d \in Docs : (w = <<"put", d>> \/ w = <<"del", d>>) /\ w[2] = d
  BY WriteIs
<1>3. server \subseteq Docs
  BY DEF ViewsInv, DocTypes
<1>4. /\ DocTypes' /\ muts' = muts \ {w} /\ w \in muts
      /\ \A j \in 0..Len(tasks) : Known(j)' = Known(j) \ {w} /\ w \in Known(j)
      /\ \A e \in Docs : w = <<"del", e>> => <<"put", e>> \notin muts
      /\ \A e \in Docs : w = <<"put", e>> => e \notin server
      /\ \A e \in Docs : \A j \in 0..Len(tasks) :
            <<"put", e>> \in Known(j) => <<"put", e>> \in muts
  BY <1>1, <1>3, WriteGone
<1>5. WriteOrder'
  BY <1>1, GoneOrder
<1>6. tasks \in Seq(TaskRecords) /\ since \in Seq(Views) /\ DocTypes /\ Len(tasks) \in Nat
  BY DEF CallsInv, CallTypes, ViewsInv
<1>7. PICK l : l = Len(tasks)
  OBVIOUS
<1>8. view' = Seen(l)' /\ l \in 0..Len(tasks)
  BY <1>1, <1>4, <1>6, <1>7, MutsKnownNext
<1>9. \A j : Seen(j)' = {e \in Docs : /\ e \in server \/ <<"put", e>> \in Known(j)'
                                      /\ <<"del", e>> \notin Known(j)'}
  BY <1>1 DEF Seen, Under
<1>10. \A j : Seen(j) = {e \in Docs : /\ e \in server \/ <<"put", e>> \in Known(j)
                                     /\ <<"del", e>> \notin Known(j)}
  BY DEF Seen, Under
<1>11. ASSUME NEW j \in 0..Len(tasks) PROVE d \in Seen(j)' <=> d \in server
  <2>1. Known(j)' = Known(j) \ {w} /\ w \in Known(j)
    BY <1>4
  <2>2. CASE w = <<"put", d>>
    <3>1. <<"put", d>> \notin Known(j)' /\ d \notin server
      BY <1>4, <2>1, <2>2
    <3> QED
      BY <1>9, <3>1
  <2>3. CASE w = <<"del", d>>
    <3>1. <<"put", d>> \notin Known(j)' /\ <<"del", d>> \notin Known(j)'
      BY <1>4, <2>1, <2>3
    <3> QED
      BY <1>9, <3>1
  <2> QED
    BY <1>2, <2>2, <2>3
<1>12. ASSUME NEW j \in 0..Len(tasks) PROVE Seen(j)' = (Seen(j) \ {d}) \cup (view' \cap {d})
  <2>1. Known(j)' = Known(j) \ {w} /\ w \in Known(j)
    BY <1>4
  <2>2. d \in Seen(j)' <=> d \in view'
    BY <1>8, <1>11
  <2>3. ASSUME NEW e \in Docs, e # d PROVE e \in Seen(j)' <=> e \in Seen(j)
    <3>1. <<"put", e>> # w /\ <<"del", e>> # w
      BY <1>2, <2>3
    <3>2. /\ <<"put", e>> \in Known(j)' <=> <<"put", e>> \in Known(j)
          /\ <<"del", e>> \in Known(j)' <=> <<"del", e>> \in Known(j)
      BY <2>1, <3>1
    <3>3. e \in Seen(j)' <=> /\ e \in server \/ <<"put", e>> \in Known(j)'
                             /\ <<"del", e>> \notin Known(j)'
      BY <1>9
    <3>4. e \in Seen(j) <=> /\ e \in server \/ <<"put", e>> \in Known(j)
                            /\ <<"del", e>> \notin Known(j)
      BY <1>10
    <3> QED
      BY <3>2, <3>3, <3>4
  <2>4. Seen(j)' \subseteq Docs /\ Seen(j) \subseteq Docs
    BY <1>9, <1>10
  <2> QED
    BY <2>2, <2>3, <2>4
<1>13. \A r \in 1..Len(since) : since'[r] = since[r] \cup
                 {(v \ {w[2]}) \cup (view' \cap {w[2]}) : v \in since[r]}
  <2>1. DOMAIN since = 1..Len(since)
    BY <1>6
  <2> QED
    BY <1>1, <2>1
<1>14. Len(since') = Len(since)
  BY <1>1, <1>6, ViewsGrow
<1>15. Viewed'
  <2>1. \A i, r : AsksAt(i, r)' <=> AsksAt(i, r)
    BY <1>1 DEF AsksAt, Asks
  <2> SUFFICES ASSUME NEW r \in (Len(answered) + 1)..Len(since), NEW j \in 0..Len(tasks),
                      \A k \in (j + 1)..Len(tasks) : ~AsksAt(k, r)'
               PROVE  Seen(j)' \in since'[r]
    BY <1>1, <1>14 DEF Viewed
  <2>2. Seen(j) \in since[r]
    BY <2>1 DEF ViewsInv, Viewed
  <2>3. r \in 1..Len(since)
    BY Numbers DEF CallsInv
  <2>4. Seen(j)' = (Seen(j) \ {w[2]}) \cup (view' \cap {w[2]})
    BY <1>2, <1>12
  <2> QED
    BY <1>13, <2>2, <2>3, <2>4
<1>16. w \in saved
  BY <1>1 DEF Oldest
<1> QED
  BY <1>4, <1>5, <1>13, <1>15, <1>16

-----------------------------------------------------------------------------
(* DocumentStore.  Its outstanding reads are the calls that are open.      *)

open == [i \in 1..(Len(since) - Len(answered)) |-> since[Len(answered) + i]]

\* The views of the open calls.
LEMMA OpenCalls ==
    ASSUME NEW s \in Seq(Views), NEW n \in Nat, n <= Len(s), NEW f,
           f = [i \in 1..(Len(s) - n) |-> s[n + i]]
    PROVE  /\ f \in Seq(Views) /\ Len(f) = Len(s) - n /\ Len(f) \in Nat /\ DOMAIN f = 1..(Len(s) - n)
           /\ \A i \in 1..(Len(s) - n) : f[i] = s[n + i] /\ n + i \in (n + 1)..Len(s)
<1>1. Len(s) \in Nat /\ Len(s) - n \in Nat
  OBVIOUS
<1>2. \A i \in 1..(Len(s) - n) : n + i \in 1..Len(s) /\ n + i \in (n + 1)..Len(s)
  BY <1>1
<1>3. \A i \in 1..(Len(s) - n) : s[n + i] \in Views
  BY <1>2
<1>4. f \in Seq(Views) /\ Len(f) = Len(s) - n /\ DOMAIN f = 1..(Len(s) - n)
  BY <1>1, <1>3
<1> QED
  BY <1>1, <1>2, <1>4

\* Before a step and after it.
LEMMA OpenFacts ==
    ASSUME CallsInv
    PROVE  /\ open \in Seq(Views) /\ Len(open) = Len(since) - Len(answered) /\ Len(open) \in Nat
           /\ DOMAIN open = 1..(Len(since) - Len(answered))
           /\ \A i \in 1..(Len(since) - Len(answered)) :
                 /\ open[i] = since[Len(answered) + i]
                 /\ Len(answered) + i \in (Len(answered) + 1)..Len(since)
<1>1. since \in Seq(Views) /\ Len(answered) \in Nat /\ Len(answered) <= Len(since)
  BY DEF CallsInv, CallTypes, AnsweredInOrder
<1> QED
  BY <1>1, OpenCalls DEF open

\* The same after a step.
LEMMA OpenFactsNext ==
    ASSUME CallsInv'
    PROVE  /\ open' \in Seq(Views) /\ Len(open') = Len(since') - Len(answered') /\ Len(open') \in Nat
           /\ DOMAIN open' = 1..(Len(since') - Len(answered'))
           /\ \A i \in 1..(Len(since') - Len(answered')) :
                 /\ open'[i] = since'[Len(answered') + i]
                 /\ Len(answered') + i \in (Len(answered') + 1)..Len(since')
<1>1. since' \in Seq(Views) /\ Len(answered') \in Nat /\ Len(answered') <= Len(since')
  BY DEF CallsInv, CallTypes, AnsweredInOrder
<1>2. open' = [i \in 1..(Len(since') - Len(answered')) |-> since'[Len(answered') + i]]
  BY DEF open
<1> QED
  BY <1>1, <1>2, OpenCalls

\* Both speak of the same view.
LEMMA StoreView == Store!view = view /\ Store!view' = view'
  BY DEF Store!view, view, Under

\* Each open call may be answered with the present view.
LEMMA OpenSeesView ==
    ASSUME CallsInv, ViewsInv
    PROVE  \A r \in (Len(answered) + 1)..Len(since) : view \in since[r]
<1>1. PICK l : l = Len(tasks)
  OBVIOUS
<1>2. tasks \in Seq(TaskRecords) /\ DocTypes /\ Viewed
  BY DEF CallsInv, CallTypes, ViewsInv
<1>3. view = Seen(l)
  BY <1>1, <1>2, MutsKnown
<1>4. l \in 0..Len(tasks) /\ \A k \in (l + 1)..Len(tasks) : FALSE
  BY <1>1, <1>2
<1> QED
  BY <1>2, <1>3, <1>4 DEF Viewed

\* A step that concerns neither calls nor documents.
LEMMA Stutters ==
    ASSUME UNCHANGED <<server, saved, since, answered, refused>>, muts' = muts
    PROVE  UNCHANGED Store!storeVars
  BY DEF Store!storeVars

\* The views of the open calls when every one has the new view as well.
LEMMA OpenWatch ==
    ASSUME CallsInv, CallsInv', answered' = answered, Len(since') = Len(since),
           \A r \in (Len(answered) + 1)..Len(since) : since'[r] = since[r] \cup {view'}
    PROVE  Store!Watching
<1> DEFINE W == [i \in DOMAIN open |-> open[i] \cup {view'}]
<1>1. \A i \in 1..(Len(since) - Len(answered)) : open'[i] = open[i] \cup {view'}
  BY OpenFacts, OpenFactsNext
<1>2. open' = W
  <2>1. DOMAIN open' = DOMAIN open /\ DOMAIN open = 1..(Len(since) - Len(answered))
    BY OpenFacts, OpenFactsNext
  <2>2. open' = [i \in DOMAIN open' |-> open'[i]]
    BY DEF open
  <2> QED
    BY <1>1, <2>1, <2>2
<1>3. Store!Widened = W
  BY StoreView DEF Store!Widened, open
<1> QED
  BY <1>2, <1>3 DEF Store!Watching, open

\* A call of the app.
LEMMA StoreReads ==
    ASSUME CallsInv, CallsInv', ViewsInv, GetDocuments
    PROVE  Store!ClientReads
<1>1. muts' = muts
  BY GetViews
<1>2. /\ Len(since) < MaxReads /\ since' = Append(since, {view}) /\ refused' = FALSE
      /\ server' = server /\ saved' = saved /\ answered' = answered
  BY DEF GetDocuments, docVars
<1>3. view' = view
  BY <1>1, <1>2 DEF view, Under
<1>4. since \in Seq(Views) /\ Len(since) \in Nat /\ Len(answered) \in Nat /\ Len(answered) <= Len(since)
  BY DEF CallsInv, CallTypes, AnsweredInOrder
<1>5. Len(since') = Len(since) + 1 /\ since'[Len(since) + 1] = {view}
      /\ \A r \in 1..Len(since) : since'[r] = since[r]
  <2>1. {view} \in Views
    BY DEF Views, view, Under
  <2> QED
    BY <1>2, <1>4, <2>1
<1> DEFINE W == [i \in DOMAIN open |-> open[i] \cup {view'}]
           n == Len(answered)
           m == Len(since) - n
<1>6. m \in Nat /\ n + (m + 1) = Len(since) + 1 /\ \A i \in 1..m : n + i \in 1..Len(since)
  BY <1>4
<1>7. W = open
  <2>1. \A i \in 1..m : view \in open[i]
    BY OpenFacts, OpenSeesView
  <2>2. \A i \in DOMAIN open : open[i] \cup {view'} = open[i]
    BY <1>3, <2>1, OpenFacts
  <2>3. open = [i \in DOMAIN open |-> open[i]]
    BY DEF open
  <2> QED
    BY <2>2, <2>3
<1>8. open' = Append(open, {view'})
  <2>1. open \in Seq(Views) /\ Len(open) = m /\ \A i \in 1..m : open[i] = since[n + i]
    BY OpenFacts
  <2>2. open' \in Seq(Views) /\ Len(open') = Len(since') - Len(answered')
        /\ \A i \in 1..(Len(since') - Len(answered')) : open'[i] = since'[Len(answered') + i]
    BY OpenFactsNext
  <2>3. Len(since') - Len(answered') = m + 1
    BY <1>2, <1>4, <1>5
  <2>4. Len(open') = m + 1 /\ \A i \in 1..(m + 1) : open'[i] = since'[n + i]
    BY <1>2, <2>2, <2>3
  <2> DEFINE A == Append(open, {view'})
  <2>5. {view'} \in Views
    BY DEF Views, view, Under
  <2>6. A \in Seq(Views) /\ Len(A) = m + 1 /\ A[m + 1] = {view'} /\ \A i \in 1..m : A[i] = open[i]
    BY <2>1, <2>5
  <2> HIDE DEF A, n, m
  <2>7. ASSUME NEW i \in 1..(m + 1) PROVE open'[i] = A[i]
    <3>1. CASE i = m + 1
      BY <1>3, <1>5, <1>6, <2>4, <2>6, <3>1
    <3>2. CASE i \in 1..m
      BY <1>5, <1>6, <2>1, <2>4, <2>6, <3>2
    <3>3. i = m + 1 \/ i \in 1..m
      BY <1>6
    <3> QED
      BY <3>1, <3>2, <3>3
  <2>8. open' = A
    BY <2>2, <2>4, <2>6, <2>7, SeqEqual
  <2> QED
    BY <2>8 DEF A
<1>9. Store!Widened = W
  BY StoreView DEF Store!Widened, open
<1>10. Len(open) < MaxReads
  <2>1. Len(open) = m
    BY OpenFacts
  <2> QED
    BY <1>2, <1>4, <2>1, ListeningAssumption
<1>11. open' = Append(Store!Widened, {Store!view'})
  BY <1>7, <1>8, <1>9, StoreView
<1>12. Store!GetDocuments
  BY <1>2, <1>10, <1>11 DEF Store!GetDocuments, open
<1> QED
  BY <1>1, <1>2, <1>12 DEF Store!ClientReads, Store!NoWrite

\* The app's writes.
LEMMA StoreWrites ==
    ASSUME CallsInv, CallsInv', ViewsInv, NEW d \in Docs, SetData(d) \/ Delete(d)
    PROVE  Store!ClientPuts(d) \/ Store!ClientDeletes(d)
<1>1. server' = server /\ saved' = saved /\ refused' = refused /\ answered' = answered
  BY DEF SetData, Delete, PostWrite, docVars
<1>2. \A r \in (Len(answered) + 1)..Len(since) : since'[r] = since[r] \cup {view'}
  BY AppWrites
<1>3. Len(since') = Len(since)
  <2>1. since \in Seq(Views) /\ Watching
    BY DEF SetData, Delete, PostWrite, CallsInv, CallTypes
  <2> QED
    BY <2>1, ViewsGrow
<1>4. Store!Watching
  BY <1>1, <1>2, <1>3, OpenWatch
<1>5. CASE SetData(d)
  <2>1. muts' = muts \cup {<<"put", d>>}
    BY <1>5, AppWrites
  <2>2. d \notin server /\ <<"put", d>> \notin muts /\ <<"del", d>> \notin muts
    BY <1>5 DEF SetData
  <2> QED
    BY <1>1, <1>4, <2>1, <2>2 DEF Store!ClientPuts, Store!SetData, Store!Write
<1>6. CASE Delete(d)
  <2>1. muts' = muts \cup {<<"del", d>>}
    BY <1>6, AppWrites
  <2>2. d \in Store!view
    BY <1>6, StoreView DEF Delete
  <2> QED
    BY <1>1, <1>4, <2>1, <2>2 DEF Store!ClientDeletes, Store!Delete, Store!Write
<1> QED
  BY <1>5, <1>6

\* A call is completed: the oldest one that is open.
LEMMA StoreAnswers ==
    ASSUME CallsInv, CallsInv', ViewsInv, main # <<>>, Head(main).read \notin muted, Deliver
    PROVE  (\E s \in SUBSET Docs : Store!Answer(s)) \/ Store!Deny
<1> DEFINE n == Len(answered)
           b == Head(main)
<1>1. /\ muts' = muts /\ b.read = n + 1 /\ n + 1 \in 1..Len(since)
      /\ b.ok => b.docs \in since[n + 1]
  BY CompleteViews
<1>2. /\ answered' = Append(answered, b.read) /\ since' = [since EXCEPT ![b.read] = {}]
      /\ b.ok => refused' = refused
      /\ ~b.ok => refused' = (refused \/ b.read = Len(since))
      /\ server' = server /\ saved' = saved
  BY Zenon DEF Deliver, docVars
<1>3. since \in Seq(Views) /\ answered \in Seq(Reads) /\ n \in Nat /\ Len(since) \in Nat /\ n + 1 \in Reads
  BY <1>1, ListeningAssumption DEF CallsInv, CallTypes, Reads
<1>4. Len(answered') = n + 1
  BY <1>1, <1>2, <1>3
<1>5. Len(since') = Len(since) /\ \A r \in 1..Len(since) : r # n + 1 => since'[r] = since[r]
  <2>1. since' = [since EXCEPT ![n + 1] = {}] /\ {} \in Views
    BY <1>1, <1>2 DEF Views
  <2> QED
    BY <1>1, <1>3, <2>1, ExceptSeq
<1>6. b.docs \in SUBSET Docs
  <2>1. b \in Posts
    BY NextPost
  <2> QED
    BY <2>1 DEF Posts
<1> HIDE DEF b
<1>7. /\ open \in Seq(Views) /\ Len(open) = Len(since) - n /\ Len(open) \in Nat
      /\ \A i \in 1..(Len(since) - n) : open[i] = since[n + i]
  BY OpenFacts
<1>8. /\ open' \in Seq(Views) /\ Len(open') = Len(since) - (n + 1)
      /\ \A i \in 1..(Len(since) - (n + 1)) : open'[i] = since'[(n + 1) + i]
  <2>1. open' \in Seq(Views) /\ Len(open') = Len(since') - Len(answered')
        /\ \A i \in 1..(Len(since') - Len(answered')) : open'[i] = since'[Len(answered') + i]
    BY OpenFactsNext
  <2> QED
    BY <1>4, <1>5, <2>1
<1> HIDE DEF n
<1>9. Len(open) # 0 /\ 1 \in 1..(Len(since) - n)
  BY <1>1, <1>3, <1>7
<1>10. open # <<>> /\ Head(open) = since[n + 1]
  BY <1>7, <1>9
<1>11. open' = Tail(open)
  <2>1. Tail(open) \in Seq(Views) /\ Len(Tail(open)) = Len(open) - 1
        /\ \A i \in 1..(Len(open) - 1) : Tail(open)[i] = open[i + 1]
    BY <1>7, <1>9
  <2>2. Len(open) - 1 = Len(since) - (n + 1)
    BY <1>3, <1>7
  <2>3. ASSUME NEW i \in 1..(Len(since) - (n + 1)) PROVE open'[i] = Tail(open)[i]
    <3>1. i + 1 \in 1..(Len(since) - n) /\ n + (i + 1) = (n + 1) + i
          /\ (n + 1) + i \in 1..Len(since) /\ (n + 1) + i # n + 1
      BY <1>3
    <3>2. Tail(open)[i] = since[(n + 1) + i]
      BY <1>7, <2>1, <2>2, <3>1
    <3>3. open'[i] = since[(n + 1) + i]
      BY <1>5, <1>8, <3>1
    <3> QED
      BY <3>2, <3>3
  <2> QED
    BY <1>8, <2>1, <2>2, <2>3, SeqEqual
<1>12. CASE b.ok
  <2>1. b.docs \in Head(open)
    BY <1>1, <1>10, <1>12, Zenon
  <2>2. refused' = refused
    BY <1>2, <1>12, Zenon
  <2>3. PICK s \in SUBSET Docs : s = b.docs
    BY <1>6
  <2>4. Store!Answer(s)
    BY <1>1, <1>2, <1>10, <1>11, <2>1, <2>2, <2>3 DEF Store!Answer, open
  <2> QED
    BY <2>4
<1>13. CASE ~b.ok
  <2>1. b.read = Len(since) <=> Len(open) = 1
    BY <1>1, <1>3, <1>7
  <2>2. refused' = (refused \/ Len(open) = 1)
    BY <1>2, <1>13, <2>1, Zenon
  <2>3. Store!Deny
    BY <1>1, <1>2, <1>10, <1>11, <2>2, Zenon DEF Store!Deny, open
  <2> QED
    BY <2>3
<1> QED
  BY <1>12, <1>13

\* A write is saved: the oldest one that is not.
LEMMA StorePersists ==
    ASSUME CallsInv, ViewsInv, WriteMutations
    PROVE  \E m \in Store!Writes : Store!Persist(m)
<1> DEFINE m == Head(tasks).write
<1>1. /\ tasks # <<>> /\ Head(tasks).op = "write" /\ tasks' = Tail(tasks) /\ saved' = saved \cup {m}
      /\ server' = server /\ UNCHANGED <<since, answered, refused>>
  BY DEF WriteMutations, Task, historyVars
<1>2. tasks \in Seq(TaskRecords) /\ DocTypes /\ WriteOrder /\ Viewed /\ Len(tasks) \in Nat
  BY DEF CallsInv, CallTypes, ViewsInv
<1>3. muts' = muts
  BY <1>1, <1>2, TaskViews
<1>4. 1 \in 1..Len(tasks) /\ Head(tasks) = tasks[1] /\ tasks[1] \in TaskRecords
  <2>1. PICK ts : ts = Tail(tasks)
    OBVIOUS
  <2>2. 1 \in 1..Len(tasks) /\ Head(tasks) = tasks[1]
    BY <1>1, <2>1, TasksLeft
  <2> QED
    BY <1>2, <2>2
<1>5. m \in Writes
  BY <1>1, <1>4 DEF TaskRecords
<1>6. WritesAt(1, m)
  BY <1>1, <1>4 DEF WritesAt
<1> HIDE DEF m
<1>7. m \notin saved
  BY <1>2, <1>4, <1>5, <1>6 DEF WriteOrder, Follows
<1>8. PICK l : l = Len(tasks)
  OBVIOUS
<1>9. muts = Known(l)
  BY <1>2, <1>8, MutsKnown
<1>10. m \in muts
  BY <1>4, <1>5, <1>6, <1>8, <1>9 DEF Known
<1>11. ASSUME NEW d \in Docs, m = <<"del", d>> PROVE <<"put", d>> \notin muts \ saved
  <2> SUFFICES ASSUME <<"put", d>> \in muts, <<"put", d>> \notin saved PROVE FALSE
    OBVIOUS
  <2>1. PICK i \in 1..l : WritesAt(i, <<"put", d>>)
    BY <1>9 DEF Known
  <2>2. i # 1
    BY <1>6, <1>11, <2>1 DEF WritesAt
  <2>3. 1 < i /\ <<"put", d>> \in Writes
    BY <1>2, <1>8, <2>2 DEF Writes
  <2>4. Follows(m, <<"put", d>>)
    BY <1>2, <1>4, <1>5, <1>6, <1>8, <2>1, <2>3 DEF WriteOrder
  <2> QED
    BY <1>11, <2>4 DEF Follows
<1>12. Store!OldestIn(m, muts \ saved)
  <2>1. m[2] \in Docs /\ ((m = <<"put", m[2]>> /\ m[1] = "put") \/ (m = <<"del", m[2]>> /\ m[1] = "del"))
    BY <1>5, WriteIs
  <2> QED
    BY <1>11, <2>1 DEF Store!OldestIn
<1>13. m \in Store!Writes
  BY <1>5 DEF Writes, Store!Writes, Store!Puts, Store!Dels
<1>14. Store!Persist(m)
  BY <1>1, <1>3, <1>7, <1>10, <1>12 DEF Store!Persist
<1> QED
  BY <1>13, <1>14

\* A write has its answer.
LEMMA StoreWriteAnswered ==
    ASSUME CallsInv, CallsInv', ViewsInv, NEW w \in Writes,
           HandleSuccessfulWrite(w) \/ HandleRejectedWrite(w)
    PROVE  w \in Store!Writes /\ (Store!Acknowledge(w) \/ Store!Reject(w))
<1>1. w \in Store!Writes
  BY DEF Writes, Store!Writes, Store!Puts, Store!Dels
<1>2. w[2] \in Docs /\ ((w = <<"put", w[2]>> /\ w[1] = "put") \/ (w = <<"del", w[2]>> /\ w[1] = "del"))
  BY WriteIs
<1>3. saved' = saved \ {w} /\ answered' = answered
  BY DEF HandleSuccessfulWrite, HandleRejectedWrite, historyVars
<1>4. w \in saved /\ muts' = muts \ {w} /\ \A d \in Docs : w = <<"del", d>> => <<"put", d>> \notin muts
  BY AckViews, RejectViews
<1>5. Store!Remove(w)
  BY <1>2, <1>3, <1>4 DEF Store!Remove, Store!OldestIn
<1>6. CASE HandleSuccessfulWrite(w)
  <2>1. since' = since /\ refused' = refused
        /\ server' = IF w[1] = "put" THEN server \cup {w[2]} ELSE server \ {w[2]}
    BY <1>6 DEF HandleSuccessfulWrite, historyVars
  <2>2. view' = view
    BY <1>6, AckViews
  <2>3. \A r \in (Len(answered) + 1)..Len(since) : since'[r] = since[r] \cup {view'}
    BY <2>1, <2>2, OpenSeesView
  <2>4. Store!Watching
    BY <1>3, <2>1, <2>3, OpenWatch
  <2> QED
    BY <1>1, <1>5, <2>1, <2>4 DEF Store!Acknowledge
<1>7. CASE HandleRejectedWrite(w)
  <2>1. server' = server /\ refused' = TRUE
    BY <1>7 DEF HandleRejectedWrite
  <2>2. Len(since') = Len(since)
    <3>1. since \in Seq(Views)
      BY DEF CallsInv, CallTypes
    <3>2. since' = [r \in DOMAIN since |-> since[r] \cup
                      {(v \ {w[2]}) \cup (view' \cap {w[2]}) : v \in since[r]}]
      BY <1>7 DEF HandleRejectedWrite
    <3> QED
      BY <3>1, <3>2, ViewsGrow
  <2>3. \A r \in 1..Len(since) : since'[r] = since[r] \cup
           {(v \ {w[2]}) \cup (view' \cap {w[2]}) : v \in since[r]}
    BY <1>7, RejectViews
  <2> DEFINE A == [i \in DOMAIN open |-> open[i] \cup {(v \ {w[2]}) \cup (view' \cap {w[2]}) : v \in open[i]}]
  <2>4. ASSUME NEW i \in 1..(Len(since) - Len(answered))
        PROVE  open'[i] = open[i] \cup {(v \ {w[2]}) \cup (view' \cap {w[2]}) : v \in open[i]}
    <3>1. open'[i] = since'[Len(answered) + i]
      BY <1>3, <2>2, OpenFactsNext
    <3>2. open[i] = since[Len(answered) + i] /\ Len(answered) + i \in (Len(answered) + 1)..Len(since)
      BY OpenFacts
    <3>3. Len(answered) + i \in 1..Len(since)
      BY <3>2, Numbers DEF CallsInv
    <3> QED
      BY <2>3, <3>1, <3>2, <3>3
  <2>5. open' = A
    <3>1. DOMAIN open' = DOMAIN open /\ DOMAIN open = 1..(Len(since) - Len(answered))
      BY <1>3, <2>2, OpenFacts, OpenFactsNext
    <3>2. open' = [i \in DOMAIN open' |-> open'[i]]
      BY DEF open
    <3> QED
      BY <2>4, <3>1, <3>2
  <2>6. open' = [i \in DOMAIN open |-> open[i] \cup {Store!Amended(v, w[2]) : v \in open[i]}]
    BY <2>5, StoreView DEF Store!Amended
  <2>7. Store!Reject(w)
    BY <1>5, <2>1, <2>6 DEF Store!Reject, open
  <2> QED
    BY <1>1, <2>7
<1> QED
  BY <1>6, <1>7

\* Steps that leave documents, tasks and calls alone and raise snapshots.
LEMMA RaiseViews ==
    ASSUME CallsInv, ViewsInv, Notify(listeners), UNCHANGED <<tasks, server, saved, since, answered>>
    PROVE  ViewsInv' /\ muts' = muts
<1>1. DocTypes' /\ WriteOrder' /\ Viewed' /\ muts' = muts
  BY SameViews
<1>2. Listening(listeners) /\ Asking(tasks, listeners) /\ listeners \in Seq(Reads)
      /\ Len(tasks) \in Nat /\ Snapshots
  BY DEF CallsInv, CallTypes, ViewsInv
<1>3. Snapshots'
  BY <1>1, <1>2, NotifyViews
<1> QED
  BY <1>1, <1>3 DEF ViewsInv

\* A step that does not post either.
LEMMA QuietViews ==
    ASSUME ViewsInv, UNCHANGED <<tasks, main, server, saved, since, answered>>
    PROVE  ViewsInv' /\ muts' = muts
<1>1. DocTypes' /\ WriteOrder' /\ Viewed' /\ muts' = muts
  BY SameViews
<1>2. Snapshots'
  BY Zenon DEF ViewsInv, Snapshots
<1> QED
  BY <1>1, <1>2 DEF ViewsInv

\* An error shows no documents.
LEMMA ErrorViews ==
    ASSUME CallsInv, ViewsInv, TargetError
    PROVE  ViewsInv' /\ muts' = muts
<1>1. /\ main' = main \o [i \in DOMAIN listeners |-> [read |-> listeners[i], ok |-> FALSE, docs |-> {}]]
      /\ UNCHANGED <<tasks, server, saved, since, answered>>
  BY DEF TargetError, Message, docVars, historyVars
<1>2. DocTypes' /\ WriteOrder' /\ Viewed' /\ muts' = muts
  BY <1>1, SameViews
<1>3. main \in Seq(Posts) /\ listeners \in Seq(Reads) /\ Len(main) \in Nat /\ Len(listeners) \in Nat
  BY DEF CallsInv, CallTypes
<1>4. /\ Len(main') = Len(main) + Len(listeners)
      /\ \A i \in 1..Len(main) : main'[i] = main[i]
      /\ \A k \in 1..Len(listeners) :
            main'[Len(main) + k] = [read |-> listeners[k], ok |-> FALSE, docs |-> {}]
  <2>1. FALSE \in BOOLEAN /\ {} \in SUBSET Docs
    BY Zenon
  <2> QED
    BY <1>1, <1>3, <2>1, PostsAdded
<1>5. Snapshots'
  <2> SUFFICES ASSUME NEW i \in 1..Len(main'), main'[i].ok, main'[i].read > Len(answered)
               PROVE  main'[i].docs \in since[main'[i].read]
    BY <1>1, Zenon DEF Snapshots
  <2>1. CASE i \in 1..Len(main)
    BY <1>4, <2>1, Zenon DEF ViewsInv, Snapshots
  <2>2. CASE i \notin 1..Len(main)
    <3>1. i - Len(main) \in 1..Len(listeners) /\ i = Len(main) + (i - Len(main))
      BY <1>3, <1>4, <2>2
    <3>2. PICK k \in 1..Len(listeners) : i = Len(main) + k
      BY <3>1
    <3> DEFINE p == [read |-> listeners[k], ok |-> FALSE, docs |-> {}]
    <3>3. main'[i] = p
      BY <1>4, <3>2
    <3>4. ~p.ok
      BY Zenon
    <3> HIDE DEF p
    <3> QED
      BY <3>3, <3>4, Zenon
  <2> QED
    BY <2>1, <2>2
<1> QED
  BY <1>2, <1>5 DEF ViewsInv

\* The worker's tasks.
LEMMA WorkViews ==
    ASSUME CallsInv, ViewsInv, WriteMutations \/ AddQueryListener \/ RemoveQueryListener
    PROVE  ViewsInv' /\ muts' = muts
<1>1. DocTypes /\ WriteOrder /\ Viewed /\ Snapshots
  BY DEF ViewsInv
<1>2. /\ tasks # <<>> /\ tasks' = Tail(tasks) /\ server' = server /\ UNCHANGED <<since, answered>>
      /\ \/ saved' = saved /\ Head(tasks).op # "write"
         \/ saved' = saved \cup {Head(tasks).write} /\ Head(tasks).op = "write"
  BY DEF WriteMutations, AddQueryListener, RemoveQueryListener, Task, docVars, historyVars
<1>3. DocTypes' /\ WriteOrder' /\ Viewed' /\ muts' = muts
  BY <1>1, <1>2, TaskViews
<1>4. PICK ts : ts = Tail(tasks)
  OBVIOUS
<1>5. ts \in Seq(TaskRecords) /\ Len(ts) \in Nat
  BY <1>2, <1>4, TasksLeft
<1>6. CASE WriteMutations
  <2>1. Head(tasks).op # "listen" /\ Notify(listeners)
    BY <1>6 DEF WriteMutations, Task
  <2>2. Asking(ts, listeners)
    BY <1>2, <1>4, <2>1, TaskDone
  <2>3. Listening(listeners) /\ listeners \in Seq(Reads)
    BY DEF CallsInv, CallTypes
  <2>4. Snapshots'
    BY <1>1, <1>2, <1>3, <1>4, <1>5, <2>1, <2>2, <2>3, NotifyViews
  <2> QED
    BY <1>3, <2>4 DEF ViewsInv
<1>7. CASE AddQueryListener
  <2>1. PICK ls : ls = Append(listeners, Head(tasks).read)
    OBVIOUS
  <2>2. Head(tasks).op = "listen" /\ Notify(Append(listeners, Head(tasks).read))
    BY <1>7 DEF AddQueryListener, Task
  <2>3. Notify(ls)
    BY <2>1, <2>2 DEF Notify, Raise
  <2>4. ls \in Seq(Reads) /\ Listening(ls) /\ Asking(ts, ls)
    BY <1>2, <1>4, <2>1, <2>2, Joined
  <2>5. Snapshots'
    BY <1>1, <1>2, <1>3, <1>4, <1>5, <2>3, <2>4, NotifyViews
  <2> QED
    BY <1>3, <2>5 DEF ViewsInv
<1>8. CASE RemoveQueryListener
  <2>1. main' = main
    BY <1>8 DEF RemoveQueryListener
  <2>2. Snapshots'
    BY <1>1, <1>2, <2>1, Zenon DEF Snapshots
  <2> QED
    BY <1>3, <2>2 DEF ViewsInv
<1> QED
  BY <1>6, <1>7, <1>8

\* Answers to writes.
LEMMA AnswerViews ==
    ASSUME CallsInv, ViewsInv, NEW w \in Writes, HandleSuccessfulWrite(w) \/ HandleRejectedWrite(w)
    PROVE  ViewsInv'
<1>1. Notify(listeners) /\ tasks' = tasks /\ answered' = answered
  BY DEF HandleSuccessfulWrite, HandleRejectedWrite, historyVars
<1>2. Listening(listeners) /\ Asking(tasks, listeners) /\ listeners \in Seq(Reads)
      /\ Len(tasks) \in Nat /\ Snapshots /\ since \in Seq(Views)
  BY DEF CallsInv, CallTypes, ViewsInv
<1>3. DocTypes' /\ WriteOrder' /\ Viewed'
  BY AckViews, RejectViews
<1>4. Len(since') = Len(since) /\ \A r \in (Len(answered) + 1)..Len(since) : since[r] \subseteq since'[r]
  <2>1. CASE HandleSuccessfulWrite(w)
    BY <2>1 DEF HandleSuccessfulWrite, historyVars
  <2>2. CASE HandleRejectedWrite(w)
    <3>1. since' = [r \in DOMAIN since |-> since[r] \cup
                      {(v \ {w[2]}) \cup (view' \cap {w[2]}) : v \in since[r]}]
      BY <2>2 DEF HandleRejectedWrite
    <3>2. Len(since') = Len(since)
      BY <1>2, <3>1, ViewsGrow
    <3>3. \A r \in (Len(answered) + 1)..Len(since) : r \in 1..Len(since)
      BY Numbers DEF CallsInv
    <3>4. \A r \in 1..Len(since) : since[r] \subseteq since'[r]
      BY <2>2, RejectViews
    <3> QED
      BY <3>2, <3>3, <3>4
  <2> QED
    BY <2>1, <2>2
<1>5. Snapshots'
  BY <1>1, <1>2, <1>3, <1>4, NotifyViews
<1> QED
  BY <1>3, <1>5 DEF ViewsInv

\* Every step keeps the invariant, and is a step of the store or of none of its
\* concern.
LEMMA ViewsStep ==
    ASSUME CallsInv, CallsInv', ViewsInv, [Next]_vars
    PROVE  ViewsInv' /\ [Store!Next]_Store!storeVars
<1>1. ASSUME UNCHANGED <<server, saved, since, answered, refused>>, ViewsInv', muts' = muts
      PROVE  ViewsInv' /\ [Store!Next]_Store!storeVars
  BY <1>1, Stutters
<1>2. ASSUME UNCHANGED <<tasks, main, server, saved, since, answered, refused>>
      PROVE  ViewsInv' /\ [Store!Next]_Store!storeVars
  BY <1>1, <1>2, QuietViews
<1>3. CASE GetDocuments
  BY <1>3, GetViews, StoreReads DEF Store!Next
<1>4. ASSUME NEW d \in Docs, SetData(d) \/ Delete(d) PROVE ViewsInv' /\ [Store!Next]_Store!storeVars
  BY <1>4, AppWrites, StoreWrites DEF Store!Next
<1>5. CASE Deliver
  <2>1. main # <<>> /\ main' = Tail(main) /\ UNCHANGED <<server, saved>>
    BY <1>5 DEF Deliver, docVars
  <2>2. CASE Head(main).read \in muted
    <3>1. UNCHANGED <<tasks, since, answered, refused>>
      BY <1>5, <2>2 DEF Deliver, historyVars
    <3> QED
      BY <1>1, <2>1, <3>1, DropViews
  <2>3. CASE Head(main).read \notin muted
    BY <1>5, <2>1, <2>3, CompleteViews, StoreAnswers DEF Store!Next
  <2> QED
    BY <2>2, <2>3
<1>6. CASE WriteMutations
  BY <1>6, WorkViews, StorePersists DEF Store!Next
<1>7. CASE AddQueryListener \/ RemoveQueryListener
  <2>1. UNCHANGED <<server, saved, since, answered, refused>>
    BY <1>7 DEF AddQueryListener, RemoveQueryListener, docVars, historyVars
  <2> QED
    BY <1>1, <1>7, <2>1, WorkViews
<1>8. ASSUME NEW w \in Writes, HandleSuccessfulWrite(w) \/ HandleRejectedWrite(w)
      PROVE  ViewsInv' /\ [Store!Next]_Store!storeVars
  BY <1>8, AnswerViews, StoreWriteAnswered DEF Store!Next
<1>9. CASE TargetError
  <2>1. UNCHANGED <<server, saved, since, answered, refused>>
    BY <1>9 DEF TargetError, Message, docVars, historyVars
  <2> QED
    BY <1>1, <1>9, <2>1, ErrorViews
<1>10. CASE RaiseWatchSnapshot \/ StreamBreaks \/ OnlineStateTimeout
  <2>1. UNCHANGED <<tasks, server, saved, since, answered, refused>> /\ Notify(listeners)
    BY <1>10 DEF RaiseWatchSnapshot, Message, StreamBreaks, OnlineStateTimeout, docVars, historyVars
  <2> QED
    BY <1>1, <2>1, RaiseViews
<1>11. CASE TargetResponse \/ TargetCurrent
  BY <1>2, <1>11 DEF TargetResponse, TargetCurrent, Message, docVars, historyVars
<1>12. CASE BackoffElapsed
  BY <1>2, <1>12 DEF BackoffElapsed, queueVars, docVars, historyVars
<1>13. CASE IdleTimeout
  BY <1>2, <1>13 DEF IdleTimeout, queueVars, docVars, historyVars
<1>14. CASE RestartNetwork
  BY <1>2, <1>14 DEF RestartNetwork, queueVars, docVars, historyVars
<1>15. CASE OnWatchStreamOpen
  BY <1>2, <1>15 DEF OnWatchStreamOpen, queueVars, docVars, historyVars
<1>16. CASE Server \/ ServerSnapshot
  BY <1>2, <1>16 DEF Server, ServerAnswers, ServerCurrent, ServerSnapshot, queueVars, docVars,
     historyVars
<1>17. CASE UNCHANGED vars
  BY <1>2, <1>17 DEF vars, queueVars, docVars, historyVars
<1> QED
  BY <1>3, <1>4, <1>5, <1>6, <1>7, <1>8, <1>9, <1>10, <1>11, <1>12, <1>13, <1>14, <1>15, <1>16, <1>17
     DEF Next, Worker, Connection

\* At first nothing is seen.
LEMMA ViewsInit == Init => ViewsInv /\ Store!Init
<1> SUFFICES ASSUME Init PROVE ViewsInv /\ Store!Init
  OBVIOUS
<1>1. /\ tasks = <<>> /\ main = <<>> /\ server = {} /\ saved = {} /\ since = <<>> /\ answered = <<>>
      /\ refused = TRUE
  BY DEF Init
<1>2. Len(<<>>) = 0
  OBVIOUS
<1>3. DocTypes /\ WriteOrder /\ Viewed /\ Snapshots
  BY <1>1, <1>2 DEF DocTypes, WriteOrder, Viewed, Snapshots
<1>4. muts = {}
  BY <1>1 DEF muts, RangeOf
<1>5. [i \in 1..(Len(since) - Len(answered)) |-> since[Len(answered) + i]] = <<>>
  BY <1>1, <1>2
<1>6. Store!Init
  BY <1>1, <1>4, <1>5, Zenon DEF Store!Init
<1> QED
  BY <1>3, <1>6 DEF ViewsInv

\* The invariants together.
LEMMA CallsInvariance == Spec => [](CallsInv /\ ViewsInv)
<1>1. Init => CallsInv /\ ViewsInv
  BY CallsInit, ViewsInit
<1>2. CallsInv /\ ViewsInv /\ [Next]_vars => (CallsInv /\ ViewsInv)'
  BY CallsStep, ViewsStep
<1> QED
  BY <1>1, <1>2, PTL DEF Spec

\* The snapshot that answers a call shows the documents of a moment after the
\* call, for any number of calls, writes and failures (AsyncEventListener,
\* ListenOnce, and the worker's order of tasks).
THEOREM AnswersShowViews == Spec => []AnswersAreViews
<1>1. ASSUME CallsInv, ViewsInv PROVE AnswersAreViews
  <2> SUFFICES ASSUME NEW i \in DOMAIN main, main[i].ok, main[i].read \notin muted
               PROVE  main[i].docs \in since[main[i].read]
    BY Zenon DEF AnswersAreViews
  <2>1. CallTypes /\ Posting(listeners) /\ main \in Seq(Posts)
    BY <1>1 DEF CallsInv, CallTypes
  <2>2. i \in 1..Len(main)
    BY <2>1
  <2>3. ~(main[i].read <= Len(answered))
    BY <2>1, <2>2 DEF Posting
  <2>4. main[i].read > Len(answered)
    BY <2>1, <2>2, <2>3, Numbers
  <2> QED
    BY <1>1, <2>2, <2>4, Zenon DEF ViewsInv, Snapshots
<1>2. CallsInv /\ ViewsInv => AnswersAreViews
  BY <1>1
<1> QED
  BY <1>2, CallsInvariance, PTL

\* The listeners, the watch stream and the worker's queue do what DocumentStore
\* says of reads and writes: every call is completed once, in the order of the
\* calls, with a view of the time since it was made.
THEOREM ListeningImplementsStore == Spec => ImplementsDocumentStore
<1>1. Init => Store!Init
  BY ViewsInit
<1>2. CallsInv /\ ViewsInv /\ (CallsInv /\ ViewsInv)' /\ [Next]_vars => [Store!Next]_Store!storeVars
  BY ViewsStep
<1> QED
  BY <1>1, <1>2, CallsInvariance, PTL DEF Spec, ImplementsDocumentStore, Store!Spec

-----------------------------------------------------------------------------
(* Types.  There are at most as many listens as calls: the first listener  *)
(* begins one.                                                             *)

ListensOK ==
    /\ listens \in Nat /\ listens <= Len(since)
    /\ listening => listens # 0
    /\ \A i \in 1..Len(tasks) : tasks[i].op = "listen" => listens < tasks[i].read

WireTypes ==
    /\ toServer \in Seq([op : {"watch", "unwatch"}, listen : Reads])
    /\ toClient \in Seq([kind : {"added", "removed", "current", "snapshot", "error"},
                             listen : Reads])
    /\ serving \in 0..MaxReads /\ current \in 0..MaxReads /\ marked \in 0..MaxReads

FlagTypes ==
    /\ idle \in BOOLEAN /\ failed \in BOOLEAN /\ timer \in BOOLEAN
    /\ allowed \in BOOLEAN /\ refused \in BOOLEAN

StateTypes ==
    /\ stream \in {"Initial", "Starting", "Open", "Backoff", "Error"}
    /\ online \in {"Unknown", "Online", "Offline"}
    /\ written \in 0..MaxWrites /\ faults \in 0..MaxFaults

\* States and counters.
LEMMA StateTypesStep == StateTypes /\ [Next]_vars => StateTypes'
<1> SUFFICES ASSUME StateTypes, [Next]_vars PROVE StateTypes'
  OBVIOUS
<1>1. ASSUME UNCHANGED <<stream, online, written, faults>> PROVE StateTypes'
  BY <1>1 DEF StateTypes
<1>2. CASE GetDocuments \/ Deliver
  BY <1>1, <1>2 DEF GetDocuments, Deliver, streamVars, onlineVars
<1>3. ASSUME NEW d \in Docs, SetData(d) \/ Delete(d) PROVE StateTypes'
  BY <1>3, ListeningAssumption DEF StateTypes, SetData, Delete, PostWrite, streamVars, onlineVars
<1>4. CASE WriteMutations
  BY <1>1, <1>4 DEF WriteMutations, streamVars
<1>5. CASE AddQueryListener
  <2>1. UNCHANGED <<written, faults>>
    BY <1>5 DEF AddQueryListener
  <2>2. \/ UNCHANGED <<stream, online>>
        \/ stream' \in {"Starting", "Backoff"} /\ online' = "Unknown"
    BY <1>5 DEF AddQueryListener, streamVars, onlineVars, Send, WatchStreamStart
  <2> QED
    BY <2>1, <2>2 DEF StateTypes
<1>6. CASE RemoveQueryListener
  <2>1. UNCHANGED <<written, faults, stream>> /\ online' \in {online, "Unknown"}
    BY <1>6 DEF RemoveQueryListener, streamVars, onlineVars, Send, UpdateState
  <2> QED
    BY <2>1 DEF StateTypes
<1>7. ASSUME NEW w \in Writes, HandleSuccessfulWrite(w) \/ HandleRejectedWrite(w) PROVE StateTypes'
  <2>1. UNCHANGED <<stream, online, written>> /\ (faults' = faults \/ (faults < MaxFaults /\ faults' = faults + 1))
    BY <1>7 DEF HandleSuccessfulWrite, HandleRejectedWrite, streamVars
  <2> QED
    BY <2>1, ListeningAssumption DEF StateTypes
<1>8. CASE TargetResponse \/ TargetCurrent \/ RaiseWatchSnapshot \/ TargetError
  <2>1. UNCHANGED <<stream, written, faults>> /\ online' = "Online"
    BY <1>8 DEF TargetResponse, TargetCurrent, RaiseWatchSnapshot, TargetError, Message, UpdateState
  <2> QED
    BY <2>1 DEF StateTypes
<1>9. CASE BackoffElapsed \/ OnWatchStreamOpen
  <2>1. UNCHANGED <<online, written, faults>> /\ stream' \in {"Starting", "Open"}
    BY <1>9 DEF BackoffElapsed, OnWatchStreamOpen, onlineVars
  <2> QED
    BY <2>1 DEF StateTypes
<1>10. CASE StreamBreaks \/ RestartNetwork
  <2>1. /\ stream' \in {"Backoff", "Error", "Starting", "Initial"}
        /\ online' \in {"Unknown", "Offline"}
        /\ faults < MaxFaults /\ faults' = faults + 1 /\ UNCHANGED written
    BY <1>10 DEF StreamBreaks, RestartNetwork, WatchStreamFailure, WatchStreamStart, UpdateState
  <2> QED
    BY <2>1, ListeningAssumption DEF StateTypes
<1>11. CASE IdleTimeout \/ OnlineStateTimeout
  <2>1. stream' \in {stream, "Initial"} /\ online' \in {"Unknown", "Offline"} /\ UNCHANGED <<written, faults>>
    BY <1>11 DEF IdleTimeout, OnlineStateTimeout, UpdateState, streamVars
  <2> QED
    BY <2>1 DEF StateTypes
<1>12. CASE Server \/ ServerSnapshot
  BY <1>1, <1>12 DEF Server, ServerAnswers, ServerCurrent, ServerSnapshot, onlineVars
<1>13. CASE UNCHANGED vars
  BY <1>1, <1>13 DEF vars, streamVars, onlineVars
<1> QED
  BY <1>2, <1>3, <1>4, <1>5, <1>6, <1>7, <1>8, <1>9, <1>10, <1>11, <1>12, <1>13
     DEF Next, Worker, Connection

\* Flags.
LEMMA FlagTypesStep == FlagTypes /\ [Next]_vars => FlagTypes'
<1> SUFFICES ASSUME FlagTypes, [Next]_vars PROVE FlagTypes'
  OBVIOUS
<1>1. ASSUME UNCHANGED <<idle, failed, timer, allowed>>, UNCHANGED refused \/ refused' \in BOOLEAN PROVE FlagTypes'
  BY <1>1, Zenon DEF FlagTypes
<1>2. CASE GetDocuments
  BY <1>1, <1>2, Zenon DEF GetDocuments, streamVars, onlineVars
<1>3. CASE Deliver
  <2>1. UNCHANGED <<idle, failed, timer, allowed>>
    BY <1>3, Zenon DEF Deliver, streamVars, onlineVars
  <2>2. UNCHANGED refused \/ refused' \in BOOLEAN
    BY <1>3, Zenon DEF Deliver, historyVars
  <2> QED
    BY <1>1, <2>1, <2>2, Zenon
<1>4. ASSUME NEW d \in Docs, SetData(d) \/ Delete(d) PROVE FlagTypes'
  BY <1>1, <1>4, Zenon DEF SetData, Delete, PostWrite, streamVars, onlineVars
<1>5. CASE WriteMutations
  BY <1>1, <1>5, Zenon DEF WriteMutations, streamVars, historyVars
<1>6. ASSUME NEW r PROVE Send(r) => idle' \in BOOLEAN
  BY Zenon DEF Send
<1>7. CASE AddQueryListener
  <2>1. UNCHANGED <<allowed, refused>>
    BY <1>7, Zenon DEF AddQueryListener, historyVars
  <2>2. \/ UNCHANGED <<idle, failed, timer>>
        \/ EmptyWire /\ WatchStreamStart
        \/ Send([op |-> "watch", listen |-> listens']) /\ UNCHANGED onlineVars
    BY <1>7, Zenon DEF AddQueryListener, streamVars, onlineVars
  <2>3. CASE UNCHANGED <<idle, failed, timer>>
    BY <2>1, <2>3, Zenon DEF FlagTypes
  <2>4. CASE EmptyWire /\ WatchStreamStart
    BY <2>1, <2>4, Zenon DEF FlagTypes, EmptyWire, WatchStreamStart
  <2>5. CASE Send([op |-> "watch", listen |-> listens']) /\ UNCHANGED onlineVars
    BY <2>1, <2>5, Zenon DEF FlagTypes, Send, onlineVars
  <2> QED
    BY <2>2, <2>3, <2>4, <2>5
<1>8. CASE RemoveQueryListener
  <2>1. UNCHANGED <<allowed, refused>>
    BY <1>8, Zenon DEF RemoveQueryListener, historyVars
  <2>2. \/ UNCHANGED <<idle, failed, timer>>
        \/ UpdateState("Unknown") /\ UNCHANGED streamVars
        \/ Send([op |-> "unwatch", listen |-> listens]) /\ UNCHANGED onlineVars
    BY <1>8, Zenon DEF RemoveQueryListener, streamVars, onlineVars
  <2>3. CASE UNCHANGED <<idle, failed, timer>>
    BY <2>1, <2>3, Zenon DEF FlagTypes
  <2>4. CASE UpdateState("Unknown") /\ UNCHANGED streamVars
    BY <2>1, <2>4, Zenon DEF FlagTypes, UpdateState, streamVars
  <2>5. CASE Send([op |-> "unwatch", listen |-> listens]) /\ UNCHANGED onlineVars
    BY <2>1, <2>5, Zenon DEF FlagTypes, Send, onlineVars
  <2> QED
    BY <2>2, <2>3, <2>4, <2>5
<1>9. ASSUME NEW w \in Writes, HandleSuccessfulWrite(w) \/ HandleRejectedWrite(w) PROVE FlagTypes'
  BY <1>1, <1>9, Zenon DEF HandleSuccessfulWrite, HandleRejectedWrite, streamVars, historyVars
<1>10. CASE TargetResponse \/ TargetCurrent \/ RaiseWatchSnapshot \/ TargetError
  <2>1. UpdateState("Online") /\ UNCHANGED <<idle, allowed, refused>>
    BY <1>10, Zenon DEF TargetResponse, TargetCurrent, RaiseWatchSnapshot, TargetError, Message, historyVars
  <2> QED
    BY <2>1, Zenon DEF FlagTypes, UpdateState
<1>11. CASE BackoffElapsed \/ OnWatchStreamOpen
  BY <1>1, <1>11, Zenon DEF BackoffElapsed, OnWatchStreamOpen, onlineVars, historyVars
<1>12. CASE StreamBreaks
  <2>1. idle' = FALSE /\ UNCHANGED <<allowed, refused>>
    BY <1>12, Zenon DEF StreamBreaks, EmptyWire, historyVars
  <2>2. WatchStreamFailure \/ UpdateState("Unknown")
    BY <1>12, Zenon DEF StreamBreaks
  <2>3. /\ timer' = TRUE \/ timer' = FALSE
        /\ failed' = TRUE \/ failed' = FALSE \/ failed' = failed
    BY <2>2, Zenon DEF WatchStreamFailure, WatchStreamStart, UpdateState
  <2> QED
    BY <2>1, <2>3, Zenon DEF FlagTypes
<1>13. CASE IdleTimeout
  BY <1>13, Zenon DEF IdleTimeout, EmptyWire, UpdateState, FlagTypes, historyVars
<1>14. CASE RestartNetwork
  BY <1>14, Zenon DEF RestartNetwork, EmptyWire, FlagTypes, listening, historyVars
<1>15. CASE OnlineStateTimeout
  BY <1>15, Zenon DEF OnlineStateTimeout, streamVars, FlagTypes, historyVars
<1>16. CASE Server \/ ServerSnapshot
  BY <1>1, <1>16, Zenon DEF Server, ServerAnswers, ServerCurrent, ServerSnapshot, onlineVars,
     historyVars
<1>17. CASE UNCHANGED vars
  BY <1>1, <1>17, Zenon DEF vars, streamVars, onlineVars, historyVars
<1> QED
  BY <1>2, <1>3, <1>4, <1>5, <1>7, <1>8, <1>9, <1>10, <1>11, <1>12, <1>13, <1>14, <1>15, <1>16, <1>17, Zenon
     DEF Next, Worker, Connection

\* A step that begins no listen.
LEMMA SameListens ==
    ASSUME CallsInv, CallsInv', ListensOK, listens' = listens, listening' => listening,
           Len(since) <= Len(since'),
           \A i \in 1..Len(tasks') : tasks'[i].op = "listen" =>
              \/ tasks'[i].read > Len(since)
              \/ \E k \in 1..Len(tasks) : tasks'[i] = tasks[k]
    PROVE  ListensOK'
<1>1. Len(since) \in Nat /\ Len(since') \in Nat
  BY DEF CallsInv, CallTypes
<1>2. \A i \in 1..Len(tasks') : tasks'[i].op = "listen" => tasks'[i].read \in Nat
  <2>1. \A i \in 1..Len(tasks') : tasks'[i] \in TaskRecords
    BY DEF CallsInv, CallTypes
  <2>2. \A r \in Reads : r \in Nat
    BY ListeningAssumption DEF Reads
  <2> QED
    BY <2>1, <2>2 DEF TaskRecords
<1>3. listens \in Nat /\ listens <= Len(since')
  BY <1>1 DEF ListensOK
<1>4. ASSUME NEW i \in 1..Len(tasks'), tasks'[i].op = "listen" PROVE listens < tasks'[i].read
  <2>1. CASE tasks'[i].read > Len(since)
    BY <1>1, <1>2, <1>4, <2>1 DEF ListensOK
  <2>2. CASE \E k \in 1..Len(tasks) : tasks'[i] = tasks[k]
    BY <1>4, <2>2 DEF ListensOK
  <2> QED
    BY <1>4, <2>1, <2>2
<1>5. listening' => listens # 0
  BY DEF ListensOK
<1> QED
  BY <1>3, <1>4, <1>5 DEF ListensOK

\* The first listener begins a listen.
LEMMA AddListens ==
    ASSUME CallsInv, CallsInv', ListensOK, AddQueryListener
    PROVE  ListensOK'
<1>1. /\ tasks # <<>> /\ Head(tasks).op = "listen" /\ tasks' = Tail(tasks) /\ since' = since
      /\ (listening /\ listens' = listens) \/ (~listening /\ listens' = listens + 1)
  BY DEF AddQueryListener, Task, historyVars
<1>2. PICK ts : ts = Tail(tasks)
  OBVIOUS
<1>3. /\ 1 \in 1..Len(tasks) /\ Head(tasks) = tasks[1] /\ Len(tasks) \in Nat
      /\ \A i \in 1..Len(ts) : i + 1 \in 1..Len(tasks) /\ ts[i] = tasks[i + 1]
  BY <1>1, <1>2, TasksLeft DEF CallsInv, CallTypes
<1>4. CASE listening /\ listens' = listens
  <2>1. \A i \in 1..Len(tasks') : \E k \in 1..Len(tasks) : tasks'[i] = tasks[k]
    BY <1>1, <1>2, <1>3
  <2>2. Len(since) <= Len(since')
    BY <1>1 DEF CallsInv, CallTypes
  <2> QED
    BY <1>4, <2>1, <2>2, SameListens
<1>5. CASE ~listening /\ listens' = listens + 1
  <2>1. Len(since) \in Nat /\ listens \in Nat
    BY DEF CallsInv, CallTypes, ListensOK
  <2>2. /\ Head(tasks).read \in Nat /\ listens < Head(tasks).read /\ Head(tasks).read <= Len(since)
    <3>1. Head(tasks).read \in Nat
      BY <1>1, <1>3, Numbers DEF CallsInv
    <3>2. listens < Head(tasks).read
      BY <1>1, <1>3 DEF ListensOK
    <3>3. Head(tasks).read <= Len(since)
      BY <1>1, <1>3 DEF CallsInv, Asking
    <3> QED
      BY <3>1, <3>2, <3>3
  <2>3. listens' \in Nat /\ listens' <= Len(since) /\ listens' # 0
    BY <1>5, <2>1, <2>2
  <2>4. ASSUME NEW i \in 1..Len(ts), ts[i].op = "listen" PROVE listens' < ts[i].read
    <3>1. i + 1 \in 1..Len(tasks) /\ 1 < i + 1
      BY <1>3
    <3>2. ts[i].read \in Nat
      BY <1>3, <2>4, Numbers DEF CallsInv
    <3>3. Head(tasks).read < tasks[i + 1].read
      BY <1>1, <1>3, <2>4, <3>1 DEF CallsInv, Asking
    <3> QED
      BY <1>3, <1>5, <2>1, <2>2, <3>2, <3>3
  <2> QED
    BY <1>1, <1>2, <2>3, <2>4 DEF ListensOK
<1> QED
  BY <1>1, <1>4, <1>5

\* There are never more listens than calls.
LEMMA ListensStep ==
    ASSUME CallsInv, CallsInv', ListensOK, [Next]_vars
    PROVE  ListensOK'
<1>1. /\ tasks \in Seq(TaskRecords) /\ since \in Seq(Views) /\ Len(since) \in Nat
      /\ Len(tasks) \in Nat
  BY DEF CallsInv, CallTypes
<1>2. ASSUME UNCHANGED <<tasks, listens>>, Len(since') = Len(since), listening' => listening
      PROVE  ListensOK'
  <2>1. Len(since) <= Len(since')
    BY <1>1, <1>2
  <2>2. \A i \in 1..Len(tasks') : \E k \in 1..Len(tasks) : tasks'[i] = tasks[k]
    BY <1>2
  <2> QED
    BY <1>2, <2>1, <2>2, SameListens
<1>3. ASSUME tasks # <<>>, tasks' = Tail(tasks), listens' = listens, since' = since,
             listening' => listening
      PROVE  ListensOK'
  <2>1. PICK ts : ts = Tail(tasks)
    OBVIOUS
  <2>2. \A i \in 1..Len(ts) : i + 1 \in 1..Len(tasks) /\ ts[i] = tasks[i + 1]
    BY <1>3, <2>1, TasksLeft
  <2>3. \A i \in 1..Len(tasks') : \E k \in 1..Len(tasks) : tasks'[i] = tasks[k]
    BY <1>3, <2>1, <2>2
  <2>4. Len(since) <= Len(since')
    BY <1>1, <1>3
  <2> QED
    BY <1>3, <2>3, <2>4, SameListens
<1>4. ASSUME NEW t \in TaskRecords, tasks' = Append(tasks, t), UNCHANGED <<listens, listeners>>,
             t.op # "listen" \/ t.read > Len(since), Len(since) <= Len(since')
      PROVE  ListensOK'
  <2>1. /\ tasks'[Len(tasks) + 1] = t
        /\ \A i \in 1..Len(tasks) : i \in 1..Len(tasks') /\ tasks'[i] = tasks[i]
        /\ \A i \in 1..Len(tasks') : i \in 1..Len(tasks) \/ i = Len(tasks) + 1
    BY <1>1, <1>4, OneMoreTask
  <2>2. \A i \in 1..Len(tasks') : tasks'[i].op = "listen" =>
              \/ tasks'[i].read > Len(since)
              \/ \E k \in 1..Len(tasks) : tasks'[i] = tasks[k]
    BY <1>4, <2>1
  <2>3. listening' => listening
    BY <1>4 DEF listening
  <2> QED
    BY <1>4, <2>2, <2>3, SameListens
<1>5. CASE GetDocuments
  <2> DEFINE t == [op |-> "listen", read |-> Len(since) + 1]
  <2>1. t \in TaskRecords
    BY <1>1, <1>5, ListeningAssumption DEF GetDocuments, TaskRecords, Reads
  <2>2. t.read > Len(since)
    BY <1>1
  <2>3. Len(since) <= Len(since')
    BY <1>1, <1>5 DEF GetDocuments
  <2>4. tasks' = Append(tasks, t) /\ UNCHANGED <<listens, listeners>>
    BY <1>5 DEF GetDocuments, viewVars
  <2> HIDE DEF t
  <2> QED
    BY <1>4, <2>1, <2>2, <2>3, <2>4
<1>6. ASSUME NEW d \in Docs, SetData(d) \/ Delete(d) PROVE ListensOK'
  <2>1. PICK w \in Writes : PostWrite(w)
    BY <1>6 DEF SetData, Delete, Writes
  <2> DEFINE t == [op |-> "write", write |-> w]
  <2>2. t \in TaskRecords /\ t.op # "listen"
    BY DEF TaskRecords
  <2>3. Len(since) <= Len(since')
    BY <1>1, <2>1, ViewsGrow DEF PostWrite
  <2>4. tasks' = Append(tasks, t) /\ UNCHANGED <<listens, listeners>>
    BY <2>1 DEF PostWrite, viewVars
  <2> HIDE DEF t
  <2> QED
    BY <1>4, <2>2, <2>3, <2>4
<1>7. CASE Deliver
  <2> DEFINE b == Head(main)
             t == [op |-> "remove", read |-> b.read]
  <2>1. main # <<>> /\ UNCHANGED <<listeners, listens>>
    BY <1>7 DEF Deliver
  <2>2. b.read \in Reads
    BY <2>1, NextPost DEF Posts
  <2>3. Len(since') = Len(since)
    <3>1. since' = since \/ since' = [since EXCEPT ![b.read] = {}]
      BY <1>7 DEF Deliver, historyVars
    <3>2. CASE since' = [since EXCEPT ![b.read] = {}]
      <4>1. DOMAIN since' = DOMAIN since
        BY <3>2
      <4>2. since' \in Seq(Views)
        BY DEF CallsInv, CallTypes
      <4> QED
        BY <1>1, <4>1, <4>2
    <3> QED
      BY <3>1, <3>2
  <2>4. tasks' = tasks \/ tasks' = Append(tasks, t)
    BY <1>7 DEF Deliver
  <2>5. t \in TaskRecords /\ t.op # "listen"
    BY <2>2 DEF TaskRecords
  <2>6. Len(since) <= Len(since')
    BY <1>1, <2>3
  <2> HIDE DEF t
  <2>7. listening' => listening
    BY <2>1 DEF listening
  <2> QED
    BY <1>2, <1>4, <2>1, <2>3, <2>4, <2>5, <2>6, <2>7
<1>8. CASE WriteMutations
  BY <1>3, <1>8, NotifyListeners DEF WriteMutations, Task, historyVars, listening
<1>9. CASE AddQueryListener
  BY <1>9, AddListens
<1>10. CASE RemoveQueryListener
  <2>1. /\ tasks # <<>> /\ tasks' = Tail(tasks) /\ listens' = listens /\ since' = since
        /\ listeners' = Erased(listeners, Head(tasks).read)
    BY <1>10 DEF RemoveQueryListener, Task, historyVars
  <2>2. listening' => listening
    BY <2>1, NothingToErase DEF listening
  <2> QED
    BY <1>3, <2>1, <2>2
<1>11. ASSUME NEW w \in Writes, HandleSuccessfulWrite(w) PROVE ListensOK'
  BY <1>2, <1>11, NotifyListeners DEF HandleSuccessfulWrite, historyVars, listening
<1>12. ASSUME NEW w \in Writes, HandleRejectedWrite(w) PROVE ListensOK'
  <2>1. UNCHANGED <<tasks, listens, listeners>>
    BY <1>12, NotifyListeners DEF HandleRejectedWrite
  <2>2. Len(since') = Len(since)
    BY <1>1, <1>12, ViewsGrow DEF HandleRejectedWrite
  <2> QED
    BY <1>2, <2>1, <2>2 DEF listening
<1>13. CASE TargetResponse \/ TargetCurrent \/ RaiseWatchSnapshot \/ TargetError
  <2>1. UNCHANGED <<tasks, listens, since>> /\ (listeners' = listeners \/ listeners' = <<>>)
    BY <1>13, NotifyListeners DEF TargetResponse, TargetCurrent, RaiseWatchSnapshot, TargetError, Message, historyVars
  <2> QED
    BY <1>2, <2>1 DEF listening
<1>14. CASE \/ BackoffElapsed \/ OnWatchStreamOpen \/ IdleTimeout \/ RestartNetwork \/ Server
            \/ ServerSnapshot \/ UNCHANGED vars
  <2>1. UNCHANGED <<tasks, listens, since, listeners>>
    BY <1>14 DEF BackoffElapsed, OnWatchStreamOpen, IdleTimeout, RestartNetwork, Server,
       ServerAnswers, ServerCurrent, ServerSnapshot, vars, queueVars, viewVars, historyVars
  <2> QED
    BY <1>2, <2>1 DEF listening
<1>15. CASE StreamBreaks \/ OnlineStateTimeout
  <2>1. UNCHANGED <<tasks, listens, since, listeners>>
    BY <1>15, NotifyListeners DEF StreamBreaks, OnlineStateTimeout, historyVars
  <2> QED
    BY <1>2, <2>1 DEF listening
<1> QED
  BY <1>5, <1>6, <1>7, <1>8, <1>9, <1>10, <1>11, <1>12, <1>13, <1>14, <1>15
     DEF Next, Worker, Connection

\* What is on the wire.
WatchRequests == [op : {"watch", "unwatch"}, listen : Reads]
WatchMessages == [kind : {"added", "removed", "current", "snapshot", "error"}, listen : Reads]

\* The present listen has the number of a call.
LEMMA PresentListen == ASSUME CallsInv, ListensOK, listening PROVE listens \in Reads
<1>1. listens \in Nat /\ listens # 0 /\ listens <= Len(since)
  BY DEF ListensOK
<1>2. Len(since) \in Nat /\ Len(since) <= MaxReads
  BY DEF CallsInv, CallTypes
<1> QED
  BY <1>1, <1>2, ListeningAssumption DEF Reads

\* The same after a step.
LEMMA PresentListenNext == ASSUME CallsInv', ListensOK', listening' PROVE listens' \in Reads
<1>1. listens' \in Nat /\ listens' # 0 /\ listens' <= Len(since')
  BY DEF ListensOK
<1>2. Len(since') \in Nat /\ Len(since') <= MaxReads
  BY DEF CallsInv, CallTypes
<1> QED
  BY <1>1, <1>2, ListeningAssumption DEF Reads

\* What a step does to the wire.
LEMMA WireStep ==
    ASSUME CallsInv, CallsInv', ListensOK, ListensOK', WireTypes, [Next]_vars
    PROVE  WireTypes'
<1>1. /\ toServer \in Seq(WatchRequests) /\ toClient \in Seq(WatchMessages)
      /\ serving \in 0..MaxReads /\ current \in 0..MaxReads /\ marked \in 0..MaxReads
  BY DEF WireTypes, WatchRequests, WatchMessages
<1>2. 0 \in 0..MaxReads /\ Reads \subseteq 0..MaxReads /\ \A l \in 0..MaxReads : l # 0 => l \in Reads
  BY ListeningAssumption DEF Reads
<1> DEFINE Goal == /\ toServer' \in Seq(WatchRequests) /\ toClient' \in Seq(WatchMessages)
                   /\ serving' \in 0..MaxReads /\ current' \in 0..MaxReads
                   /\ marked' \in 0..MaxReads
<1>3. SUFFICES Goal
  BY DEF WireTypes, WatchRequests, WatchMessages
<1>4. ASSUME UNCHANGED <<wireVars, marked>>, current' \in 0..MaxReads PROVE Goal
  BY <1>1, <1>4 DEF wireVars
<1>5. ASSUME EmptyWire, current' \in 0..MaxReads PROVE Goal
  <2>1. toServer' = <<>> /\ toClient' = <<>> /\ serving' = 0 /\ marked' = 0
    BY <1>5 DEF EmptyWire
  <2>2. toServer' \in Seq(WatchRequests) /\ toClient' \in Seq(WatchMessages)
    BY <2>1, EmptySeq, Zenon
  <2> QED
    BY <1>2, <1>5, <2>1, <2>2
<1>6. ASSUME NEW r \in WatchRequests, Send(r), current' \in 0..MaxReads PROVE Goal
  <2>1. toServer' = Append(toServer, r) /\ UNCHANGED <<toClient, serving, marked>>
    BY <1>6 DEF Send
  <2> QED
    BY <1>1, <1>6, <2>1
<1>7. CASE GetDocuments \/ Deliver \/ BackoffElapsed \/ UNCHANGED vars
  BY <1>1, <1>4, <1>7 DEF GetDocuments, Deliver, BackoffElapsed, vars, viewVars, streamVars
<1>8. ASSUME NEW d \in Docs, SetData(d) \/ Delete(d) PROVE Goal
  BY <1>1, <1>4, <1>8 DEF SetData, Delete, PostWrite, viewVars, streamVars
<1>9. CASE WriteMutations
  BY <1>1, <1>4, <1>9 DEF WriteMutations, streamVars
<1>10. ASSUME NEW w \in Writes, HandleSuccessfulWrite(w) \/ HandleRejectedWrite(w) PROVE Goal
  BY <1>1, <1>4, <1>10 DEF HandleSuccessfulWrite, HandleRejectedWrite, streamVars
<1>11. CASE AddQueryListener
  <2>1. current' = current
    BY <1>11 DEF AddQueryListener
  <2>2. \/ UNCHANGED streamVars
        \/ EmptyWire
        \/ Send([op |-> "watch", listen |-> listens'])
    BY <1>11 DEF AddQueryListener
  <2>3. ASSUME Send([op |-> "watch", listen |-> listens']) PROVE Goal
    <3>1. listening'
      <4>1. listeners' = Append(listeners, Head(tasks).read)
        BY <1>11, NotifyListeners DEF AddQueryListener
      <4>2. listeners \in Seq(Reads) /\ Head(tasks).read \in Reads
        <5>1. tasks # <<>> /\ Head(tasks).op = "listen"
          BY <1>11 DEF AddQueryListener, Task
        <5>2. 1 \in 1..Len(tasks) /\ Head(tasks) = tasks[1]
          BY <5>1, TasksLeft
        <5> QED
          BY <5>1, <5>2, Numbers DEF CallsInv, CallTypes
      <4> QED
        BY <4>1, <4>2 DEF listening
    <3>2. [op |-> "watch", listen |-> listens'] \in WatchRequests
      BY <3>1, PresentListenNext DEF WatchRequests
    <3> QED
      BY <1>1, <1>6, <2>1, <2>3, <3>2
  <2> QED
    BY <1>1, <1>4, <1>5, <2>1, <2>2, <2>3 DEF streamVars
<1>12. CASE RemoveQueryListener
  <2>1. current' \in 0..MaxReads
    BY <1>1, <1>2, <1>12 DEF RemoveQueryListener
  <2>2. UNCHANGED streamVars \/ (listening /\ Send([op |-> "unwatch", listen |-> listens]))
    BY <1>12 DEF RemoveQueryListener
  <2>3. ASSUME listening, Send([op |-> "unwatch", listen |-> listens]) PROVE Goal
    <3>1. [op |-> "unwatch", listen |-> listens] \in WatchRequests
      BY <2>3, PresentListen DEF WatchRequests
    <3> QED
      BY <1>6, <2>1, <2>3, <3>1
  <2> QED
    BY <1>4, <2>1, <2>2, <2>3 DEF streamVars
<1>13. CASE TargetResponse \/ TargetCurrent \/ RaiseWatchSnapshot \/ TargetError
  <2>1. toClient # <<>> /\ toClient' = Tail(toClient) /\ UNCHANGED <<toServer, serving>>
    BY <1>13 DEF TargetResponse, TargetCurrent, RaiseWatchSnapshot, TargetError, Message
  <2>2. Head(toClient) \in WatchMessages /\ toClient' \in Seq(WatchMessages)
    BY <1>1, <2>1
  <2>3. /\ current' \in {0, current, marked}
        /\ marked' \in {0, marked, Head(toClient).listen}
    BY <1>13 DEF TargetResponse, TargetCurrent, RaiseWatchSnapshot, TargetError
  <2>4. current' \in 0..MaxReads /\ marked' \in 0..MaxReads
    BY <1>1, <1>2, <2>2, <2>3 DEF WatchMessages
  <2> QED
    BY <1>1, <2>1, <2>2, <2>4
<1>14. CASE OnWatchStreamOpen
  <2>1. /\ UNCHANGED <<toClient, serving, current, marked>>
        /\ toServer' = IF listening THEN <<[op |-> "watch", listen |-> listens]>> ELSE <<>>
    BY <1>14 DEF OnWatchStreamOpen, viewVars
  <2>2. toServer' \in Seq(WatchRequests)
    <3>1. CASE listening
      <4>1. [op |-> "watch", listen |-> listens] \in WatchRequests
        BY <3>1, PresentListen DEF WatchRequests
      <4> QED
        BY <2>1, <3>1, <4>1
    <3>2. CASE ~listening
      BY <2>1, <3>2, EmptySeq, Zenon
    <3> QED
      BY <3>1, <3>2
  <2> QED
    BY <1>1, <2>1, <2>2
<1>15. CASE StreamBreaks
  BY <1>1, <1>2, <1>5, <1>15 DEF StreamBreaks, CurrentUnlessOffline
<1>16. CASE OnlineStateTimeout
  BY <1>1, <1>2, <1>4, <1>16 DEF OnlineStateTimeout, CurrentUnlessOffline, streamVars
<1>17. CASE IdleTimeout \/ RestartNetwork
  BY <1>1, <1>5, <1>17 DEF IdleTimeout, RestartNetwork, viewVars
<1>18. CASE ServerAnswers
  <2> DEFINE r == Head(toServer)
             kind == IF r.op = "unwatch" THEN "removed"
                     ELSE IF allowed THEN "added" ELSE "error"
             m == [kind |-> kind, listen |-> r.listen]
  <2>1. /\ toServer # <<>> /\ toServer' = Tail(toServer) /\ toClient' = Append(toClient, m)
        /\ serving' \in {0, r.listen} /\ UNCHANGED <<current, marked>>
    BY <1>18 DEF ServerAnswers, viewVars
  <2>2. r \in WatchRequests /\ toServer' \in Seq(WatchRequests)
    BY <1>1, <2>1
  <2>3. r.listen \in Reads
    BY <2>2 DEF WatchRequests
  <2>4. m \in WatchMessages
    BY <2>3 DEF WatchMessages
  <2> HIDE DEF m
  <2>5. toClient' \in Seq(WatchMessages)
    BY <1>1, <2>1, <2>4
  <2>6. serving' \in 0..MaxReads
    BY <1>2, <2>1, <2>3
  <2> QED
    BY <1>1, <2>1, <2>2, <2>5, <2>6
<1>19. CASE ServerCurrent \/ ServerSnapshot
  <2> DEFINE c == [kind |-> "current", listen |-> serving]
             n == [kind |-> "snapshot", listen |-> serving]
  <2>1. /\ serving # 0 /\ serving' \in {0, serving}
        /\ toClient' \in {Append(Append(toClient, c), n), Append(toClient, n)}
        /\ UNCHANGED <<toServer, current, marked>>
    BY <1>19 DEF ServerCurrent, ServerSnapshot, viewVars
  <2>2. c \in WatchMessages /\ n \in WatchMessages
    BY <1>1, <1>2, <2>1 DEF WatchMessages
  <2> HIDE DEF c, n
  <2>3. Append(toClient, c) \in Seq(WatchMessages)
    BY <1>1, <2>2
  <2>4. PICK ms \in Seq(WatchMessages) : ms = Append(toClient, c)
    BY <2>3
  <2>5. Append(ms, n) \in Seq(WatchMessages) /\ Append(toClient, n) \in Seq(WatchMessages)
    BY <1>1, <2>2
  <2>6. toClient' \in Seq(WatchMessages)
    BY <2>1, <2>4, <2>5, Zenon
  <2> QED
    BY <1>1, <1>2, <2>1, <2>6
<1> HIDE DEF Goal
<1> QED
  BY <1>7, <1>8, <1>9, <1>10, <1>11, <1>12, <1>13, <1>14, <1>15, <1>16, <1>17, <1>18, <1>19
     DEF Next, Worker, Connection, Server

\* At the start.
LEMMA TypesInit == Init => ListensOK /\ WireTypes /\ FlagTypes /\ StateTypes
<1> SUFFICES ASSUME Init PROVE ListensOK /\ WireTypes /\ FlagTypes /\ StateTypes
  OBVIOUS
<1>1. FlagTypes
  BY Zenon DEF Init, FlagTypes
<1>2. StateTypes
  BY ListeningAssumption DEF Init, StateTypes
<1>3. WireTypes
  <2>1. toServer = <<>> /\ toClient = <<>> /\ serving = 0 /\ current = 0 /\ marked = 0
    BY DEF Init
  <2>2. /\ toServer \in Seq([op : {"watch", "unwatch"}, listen : Reads])
        /\ toClient \in Seq([kind : {"added", "removed", "current", "snapshot", "error"},
                             listen : Reads])
    BY <2>1, EmptySeq, Zenon
  <2> QED
    BY <2>1, <2>2, ListeningAssumption DEF WireTypes
<1>4. ListensOK
  BY DEF Init, ListensOK, listening
<1> QED
  BY <1>1, <1>2, <1>3, <1>4

\* Every variable has its type, for any number of documents, calls, writes and
\* faults: requests, messages and snapshots name calls that were made, the
\* listens are no more than these, and outstanding_responses_ is not negative
\* for a device that may read.
THEOREM ListeningTypeCorrect == Spec => []TypeOK
<1> DEFINE Types == ListensOK /\ WireTypes /\ FlagTypes /\ StateTypes
<1>1. Init => Types
  BY TypesInit
<1>2. CallsInv /\ CallsInv' /\ Types /\ [Next]_vars => Types'
  BY ListensStep, WireStep, FlagTypesStep, StateTypesStep
<1>3. CallsInv /\ ViewsInv /\ Types /\ SyncInv => TypeOK
  <2> SUFFICES ASSUME CallsInv, ViewsInv, Types, SyncInv PROVE TypeOK
    OBVIOUS
  <2>1. CallTypes /\ DocTypes
    BY DEF CallsInv, ViewsInv
  <2>2. \A t \in RangeOf(tasks) : \/ t \in [op : {"write"}, write : Writes]
                                  \/ t \in [op : {"listen", "remove"}, read : Reads]
    BY <2>1 DEF CallTypes, RangeOf, TaskRecords
  <2>3. /\ main \in Seq([read : Reads, ok : BOOLEAN, docs : SUBSET Docs])
        /\ listeners \in Seq(Reads) /\ raised \subseteq Reads /\ muted \subseteq Reads
        /\ since \in Seq(SUBSET SUBSET Docs) /\ answered \in Seq(Reads)
    BY <2>1 DEF CallTypes, Posts, Views
  <2>4. listens \in 0..MaxReads
    <3>1. listens \in Nat /\ listens <= Len(since)
      BY DEF ListensOK
    <3>2. Len(since) \in Nat /\ Len(since) <= MaxReads
      BY <2>1 DEF CallTypes
    <3> QED
      BY <3>1, <3>2, ListeningAssumption
  <2>5. pending \in Int /\ (allowed => pending >= 0)
    <3>1. pending \in Int /\ toServer \in Seq(Requests) /\ toClient \in Seq(Messages)
      BY DEF SyncInv, WireOK
    <3>2. Len(toServer) \in Nat /\ Cardinality(Responses(toClient)) \in Nat
      BY <3>1, ResponsesFinite, FS_CardinalityType
    <3> QED
      BY <3>1, <3>2 DEF SyncInv, Counted
  <2>6. {idle, failed, timer, allowed, refused} \subseteq BOOLEAN
    BY Zenon DEF FlagTypes
  <2>7. /\ stream \in {"Initial", "Starting", "Open", "Backoff", "Error"}
        /\ online \in {"Unknown", "Online", "Offline"}
        /\ written \in 0..MaxWrites /\ faults \in 0..MaxFaults
    BY DEF StateTypes
  <2>8. /\ toServer \in Seq([op : {"watch", "unwatch"}, listen : Reads])
        /\ toClient \in Seq([kind : {"added", "removed", "current", "snapshot", "error"},
                             listen : Reads])
        /\ serving \in 0..MaxReads /\ current \in 0..MaxReads /\ marked \in 0..MaxReads
    BY DEF WireTypes
  <2>9. server \subseteq Docs /\ saved \subseteq Writes
    BY <2>1 DEF DocTypes
  <2> QED
    BY <2>2, <2>3, <2>4, <2>5, <2>6, <2>7, <2>8, <2>9, Zenon DEF TypeOK
<1> HIDE DEF Types
<1> QED
  BY <1>1, <1>2, <1>3, CallsInvariance, SyncInvariance, PTL DEF Spec
=============================================================================
