--------------------------- MODULE QueryListening ---------------------------
(***************************************************************************)
(* How the Firestore client answers the board's getDocuments calls.        *)
(*                                                                         *)
(* A call adds a listener for the query, and the listener's first snapshot *)
(* is the answer: it mutes the listener, posts its removal and completes   *)
(* the call.  The first listener of the query makes the client watch it on *)
(* the watch stream, removing the last one makes it stop.  A listener gets *)
(* its first snapshot once the server has said that the query is CURRENT,  *)
(* or at once when the client believes to be offline.                      *)
(*                                                                         *)
(* The app and the completions run on the main queue; the other actions of *)
(* the client are operations of its worker queue.  Both run one at a time, *)
(* in order.  How a write gets its answer is the subject of WritePipeline; *)
(* here the answer comes some time after the write is in the mutation      *)
(* queue.  Only this device writes the collection, so the server's         *)
(* documents are those of the remote document cache, what the watch stream *)
(* says of documents is known already, and none is ever in limbo.          *)
(***************************************************************************)
EXTENDS Integers, Sequences, FiniteSets

CONSTANTS
    Docs,
    MaxReads,   \* bound: getDocuments calls
    MaxWrites,  \* bound: setData and delete calls
    MaxFaults   \* bound: lost connections and rejected writes

ASSUME ListeningAssumption ==
    MaxReads \in Nat /\ MaxWrites \in Nat /\ MaxFaults \in Nat

VARIABLES
    tasks,      \* the app's tasks in the worker queue
    main,       \* snapshots and errors posted to the main queue
    server,     \* the server's documents
    saved,      \* the mutation queue
    listeners,  \* the query's listeners, in the order they were added
    raised,     \* listeners that have had their first snapshot
    muted,      \* listeners that take no further snapshot
    listens,    \* listens begun, a number for the present one
    current,    \* the listen whose CURRENT the view is current by, or 0
    stream,     \* state of the watch stream
    idle,       \* the stream's idleness timer is running
    pending,    \* outstanding_responses_ of the query's target
    marked,     \* the listen whose CURRENT has set the target's current_, or 0
    online,     \* OnlineState
    failed,     \* watch_stream_failures_ has reached kMaxWatchStreamFailures
    timer,      \* the online state timer is running
    toServer,   \* requests on the watch stream
    toClient,   \* the server's messages on the watch stream
    serving,    \* the listen whose CURRENT the server owes, or 0
    allowed,    \* the security rules let this device read the collection
    since,      \* history: for each call, the views since then while it is open
    answered,   \* history: the calls completed, in order
    refused,    \* history: as in DocumentStore
    written,    \* setData and delete calls made
    faults      \* faults that have happened

queueVars   == <<tasks, main>>
docVars     == <<server, saved>>
viewVars    == <<listeners, raised, muted, listens, current>>
onlineVars  == <<online, failed, timer>>
wireVars    == <<toServer, toClient, serving>>
streamVars  == <<stream, idle, pending, marked, wireVars>>
historyVars == <<since, answered, refused>>
vars == <<queueVars, docVars, viewVars, streamVars, onlineVars, allowed,
          historyVars, written, faults>>

Writes == {"put", "del"} \X Docs
Reads  == 1..MaxReads

RangeOf(f) == {f[x] : x \in DOMAIN f}

\* Documents docs with the writes of set S on top.
Under(docs, S) == {d \in Docs : /\ d \in docs \/ <<"put", d>> \in S
                                /\ <<"del", d>> \notin S}

\* What the worker sees, and what it will see when its tasks are done.
local == Under(server, saved)
muts  == saved \cup {t.write : t \in {u \in RangeOf(tasks) : u.op = "write"}}
view  == Under(server, muts)

listening == listeners # <<>>

\* The listeners of sequence ls that are in set S, in their order.
Those(ls, S) ==
    LET at     == {i \in DOMAIN ls : ls[i] \in S}
        Nth(k) == CHOOSE i \in at : Cardinality({j \in at : j <= i}) = k
    IN  [k \in 1..Cardinality(at) |-> ls[Nth(k)]]

\* Stream::IsStarted
IsStarted(s) == s \in {"Starting", "Open", "Backoff"}

-----------------------------------------------------------------------------
(* The app's calls.                                                        *)

Watching == since' = [r \in DOMAIN since |->
                         IF r \in RangeOf(answered) THEN {} ELSE since[r] \cup {view'}]

GetDocuments ==
    /\ Len(since) < MaxReads
    /\ tasks' = Append(tasks, [op |-> "listen", read |-> Len(since) + 1])
    /\ since' = Append(since, {view})
    /\ refused' = FALSE
    /\ UNCHANGED <<main, docVars, viewVars, streamVars, onlineVars, allowed,
                   written, answered, faults>>

PostWrite(w) ==
    /\ written < MaxWrites
    /\ written' = written + 1
    /\ tasks' = Append(tasks, [op |-> "write", write |-> w])
    /\ UNCHANGED <<main, docVars, viewVars, streamVars, onlineVars, allowed,
                   answered, refused, faults>>
    /\ Watching

SetData(d) ==
    /\ d \notin server /\ <<"put", d>> \notin muts /\ <<"del", d>> \notin muts
    /\ PostWrite(<<"put", d>>)

Delete(d) ==
    /\ d \in view
    /\ PostWrite(<<"del", d>>)

-----------------------------------------------------------------------------
(* Snapshots.                                                              *)

\* Listeners ls hear of documents docs and of the sync state after the step: one
\* that has had its first snapshot of every change, another one when the view
\* is in sync, or at once.
Raise(ls, docs, atOnce) ==
    LET news    == docs # local \/ (current' = 0) # (current = 0)
        hearers == {r \in RangeOf(ls) :
                       IF r \in raised THEN news ELSE current' # 0 \/ atOnce}
        hear    == Those(ls, hearers)
    IN  /\ listeners' = ls
        /\ raised' = raised \cup hearers
        /\ main' = main \o [i \in DOMAIN hear |->
                               [read |-> hear[i], ok |-> TRUE, docs |-> docs]]

\* Faulty form, for a mutant: a listener that waits is not told that the client
\* is offline.
NotifySynced(ls) == Raise(ls, Under(server', saved'), FALSE)

\* Faulty form, for a mutant: the mutation queue is left out of snapshots.
NotifyRemote(ls) == Raise(ls, server', online' = "Offline")

Notify(ls) == Raise(ls, Under(server', saved'), online' = "Offline")

\* Faulty form, for a mutant: every snapshot completes the call.
DeliverUnmuted ==
    /\ main # <<>>
    /\ main' = Tail(main)
    /\ LET b == Head(main) IN
       /\ answered' = Append(answered, b.read)
       /\ since' = [since EXCEPT ![b.read] = {}]
       /\ IF b.ok THEN /\ muted' = muted \cup {b.read}
                       /\ tasks' = Append(tasks, [op |-> "remove", read |-> b.read])
                       /\ UNCHANGED refused
                  ELSE /\ refused' = (refused \/ b.read = Len(since))
                       /\ UNCHANGED <<muted, tasks>>
    /\ UNCHANGED <<docVars, listeners, raised, listens, current, streamVars,
                   onlineVars, allowed, written, faults>>

\* AsyncEventListener::OnEvent on the main queue, and ListenOnce.
Deliver ==
    /\ main # <<>>
    /\ main' = Tail(main)
    /\ LET b == Head(main) IN
       \/ /\ b.read \in muted
          /\ UNCHANGED <<tasks, muted, historyVars>>
       \/ /\ b.read \notin muted
          /\ answered' = Append(answered, b.read)
          /\ since' = [since EXCEPT ![b.read] = {}]
          /\ IF b.ok THEN /\ muted' = muted \cup {b.read}
                          /\ tasks' = Append(tasks, [op |-> "remove", read |-> b.read])
                          /\ UNCHANGED refused
                     ELSE /\ refused' = (refused \/ b.read = Len(since))
                          /\ UNCHANGED <<muted, tasks>>
    /\ UNCHANGED <<docVars, listeners, raised, listens, current, streamVars,
                   onlineVars, allowed, written, faults>>

-----------------------------------------------------------------------------
(* The online state tracker.                                               *)

UpdateState(s) == online' = s /\ failed' = FALSE /\ timer' = FALSE

\* HandleWatchStreamStart; there has been no failure.
WatchStreamStart == online' = "Unknown" /\ timer' = TRUE /\ UNCHANGED failed

\* HandleWatchStreamFailure, and HandleWatchStreamStart of the next attempt.
WatchStreamFailure ==
    IF online = "Online" THEN WatchStreamStart
    ELSE online' = "Offline" /\ failed' = TRUE /\ timer' = FALSE

\* View::ApplyOnlineStateChange
CurrentUnlessOffline == current' = IF online' = "Offline" THEN 0 ELSE current

-----------------------------------------------------------------------------
(* Requests on the watch stream.                                           *)

\* Faulty form, for a mutant: writing does not cancel the idleness timer.
SendKeepsTimer(request) ==
    /\ toServer' = Append(toServer, request)
    /\ pending' = pending + 1
    /\ idle' = (idle \/ request.op = "unwatch")
    /\ UNCHANGED <<stream, marked, toClient, serving>>

\* Faulty form, for a mutant: the response to the request is not waited for.
SendUncounted(request) ==
    /\ toServer' = Append(toServer, request)
    /\ idle' = (request.op = "unwatch")
    /\ UNCHANGED <<stream, pending, marked, toClient, serving>>

\* SendWatchRequest, or SendUnwatchRequest and MarkIdle.
Send(request) ==
    /\ toServer' = Append(toServer, request)
    /\ pending' = pending + 1
    /\ idle' = (request.op = "unwatch")
    /\ UNCHANGED <<stream, marked, toClient, serving>>

\* A stream that ends, or starts: nothing is on the wire, and the aggregator
\* is a new one.
EmptyWire ==
    /\ toServer' = <<>> /\ toClient' = <<>> /\ serving' = 0
    /\ pending' = 0 /\ marked' = 0
    /\ idle' = FALSE

-----------------------------------------------------------------------------
(* The app's tasks on the worker queue.                                    *)

Task(op) == tasks # <<>> /\ Head(tasks).op = op /\ tasks' = Tail(tasks)

WriteMutations ==
    /\ Task("write")
    /\ saved' = saved \cup {Head(tasks).write}
    /\ UNCHANGED <<server, current, online>>
    /\ Notify(listeners)
    /\ UNCHANGED <<muted, listens, streamVars, failed, timer, allowed,
                   written, historyVars, faults>>

\* EventManager::AddQueryListener; RemoteStore::Listen for the first one.
AddQueryListener ==
    /\ Task("listen")
    /\ UNCHANGED <<docVars, current>>
    /\ \/ /\ listening
          /\ UNCHANGED <<listens, streamVars, onlineVars>>
       \/ /\ ~listening
          /\ listens' = listens + 1
          /\ \/ /\ ~IsStarted(stream)
                /\ stream' = IF stream = "Error" THEN "Backoff" ELSE "Starting"
                /\ EmptyWire
                /\ WatchStreamStart
             \/ /\ stream = "Open"
                /\ Send([op |-> "watch", listen |-> listens'])
                /\ UNCHANGED onlineVars
             \/ /\ stream \in {"Starting", "Backoff"}
                /\ UNCHANGED <<streamVars, onlineVars>>
    /\ Notify(Append(listeners, Head(tasks).read))
    /\ UNCHANGED <<muted, allowed, written, historyVars, faults>>

\* QueryListenersInfo::Erase: an error may have removed the listener before.
Erased(ls, r) == Those(ls, RangeOf(ls) \ {r})

\* EventManager::RemoveQueryListener; RemoteStore::StopListening for the last.
RemoveQueryListener ==
    /\ Task("remove")
    /\ LET rest == Erased(listeners, Head(tasks).read) IN
       /\ listeners' = rest
       /\ \/ /\ rest # <<>> \/ ~listening
             /\ UNCHANGED <<current, streamVars, onlineVars>>
          \/ /\ rest = <<>> /\ listening
             /\ current' = 0
             /\ \/ /\ stream = "Open"
                   /\ Send([op |-> "unwatch", listen |-> listens])
                   /\ UNCHANGED onlineVars
                \/ /\ stream # "Open"
                   /\ UpdateState("Unknown")
                   /\ UNCHANGED streamVars
    /\ UNCHANGED <<main, docVars, raised, muted, listens, allowed, written,
                   historyVars, faults>>

-----------------------------------------------------------------------------
(* Answers to writes.                                                      *)

Oldest(w) == w \in saved /\ (w[1] = "del" => <<"put", w[2]>> \notin saved)

HandleSuccessfulWrite(w) ==
    /\ Oldest(w)
    /\ saved' = saved \ {w}
    /\ server' = IF w[1] = "put" THEN server \cup {w[2]} ELSE server \ {w[2]}
    /\ UNCHANGED <<current, online>>
    /\ Notify(listeners)
    /\ UNCHANGED <<tasks, muted, listens, streamVars, failed, timer, allowed,
                   written, historyVars, faults>>

HandleRejectedWrite(w) ==
    /\ Oldest(w)
    /\ faults < MaxFaults
    /\ faults' = faults + 1
    /\ saved' = saved \ {w}
    /\ UNCHANGED <<server, current, online>>
    /\ Notify(listeners)
    /\ UNCHANGED <<tasks, muted, listens, streamVars, failed, timer, allowed,
                   written, answered>>
    /\ since' = [r \in DOMAIN since |-> since[r] \cup
                   {(v \ {w[2]}) \cup (view' \cap {w[2]}) : v \in since[r]}]
    /\ refused' = TRUE

-----------------------------------------------------------------------------
(* The watch stream and its timers.                                        *)

BackoffElapsed ==
    /\ stream = "Backoff"
    /\ stream' = "Starting"
    /\ UNCHANGED <<queueVars, docVars, viewVars, idle, pending, marked,
                   wireVars, onlineVars, allowed, written, historyVars, faults>>

\* Faulty form, for a mutant: the listen is not sent on a new stream.
OpensUnwatched ==
    /\ stream = "Starting"
    /\ stream' = "Open"
    /\ UNCHANGED <<queueVars, docVars, viewVars, idle, pending, marked,
                   wireVars, onlineVars, allowed, written, historyVars, faults>>

OnWatchStreamOpen ==
    /\ stream = "Starting"
    /\ stream' = "Open"
    /\ toServer' = IF listening THEN <<[op |-> "watch", listen |-> listens]>>
                                ELSE <<>>
    /\ pending' = Len(toServer')
    /\ UNCHANGED <<queueVars, docVars, viewVars, idle, marked, toClient, serving,
                   onlineVars, allowed, written, historyVars, faults>>

\* OnWatchStreamClose with an error.
StreamBreaks ==
    /\ stream \in {"Starting", "Open"}
    /\ faults < MaxFaults
    /\ faults' = faults + 1
    /\ EmptyWire
    /\ \/ /\ listening
          /\ stream' = "Backoff"
          /\ WatchStreamFailure
       \/ /\ ~listening
          /\ stream' = "Error"
          /\ UpdateState("Unknown")
    /\ CurrentUnlessOffline
    /\ UNCHANGED docVars
    /\ Notify(listeners)
    /\ UNCHANGED <<tasks, muted, listens, allowed, written, historyVars>>

\* The idleness timer stops the stream.
IdleTimeout ==
    /\ idle
    /\ stream' = "Initial"
    /\ EmptyWire
    /\ UpdateState("Unknown")
    /\ UNCHANGED <<queueVars, docVars, viewVars, allowed, written,
                   historyVars, faults>>

OnlineStateTimeout ==
    /\ timer
    /\ timer' = FALSE
    /\ online' = "Offline"
    /\ CurrentUnlessOffline
    /\ UNCHANGED docVars
    /\ Notify(listeners)
    /\ UNCHANGED <<tasks, muted, listens, streamVars, failed, allowed, written,
                   historyVars, faults>>

\* The device's connectivity changes.
RestartNetwork ==
    /\ faults < MaxFaults
    /\ faults' = faults + 1
    /\ EmptyWire
    /\ stream' = IF listening THEN "Starting" ELSE "Initial"
    /\ online' = "Unknown" /\ failed' = FALSE /\ timer' = listening
    /\ UNCHANGED <<queueVars, docVars, viewVars, allowed, written, historyVars>>

-----------------------------------------------------------------------------
(* Messages of the server: OnWatchStreamChange.                            *)

Message(kind) ==
    /\ toClient # <<>> /\ Head(toClient).kind = kind
    /\ toClient' = Tail(toClient)
    /\ UpdateState("Online")
    /\ UNCHANGED <<tasks, docVars, muted, listens, stream, idle, toServer,
                   serving, allowed, written, historyVars, faults>>

\* Faulty form, for a mutant: a target that is gone keeps its state.
ResponseKeepsMark ==
    /\ Message("added") \/ Message("removed")
    /\ pending' = pending - 1
    /\ UNCHANGED <<main, listeners, raised, current, marked>>

\* Target change ADDED or REMOVED: one response less is due.  REMOVED erases the
\* target's state if no other is due; ADDED clears its pending changes, which
\* current_ is not one of.
TargetResponse ==
    /\ Message("added") \/ Message("removed")
    /\ pending' = pending - 1
    /\ marked' = IF Head(toClient).kind = "removed" /\ pending' = 0 THEN 0 ELSE marked
    /\ UNCHANGED <<main, listeners, raised, current>>

\* Faulty form, for a mutant: responses that are due are not waited for.
CurrentWhilePending ==
    /\ Message("current")
    /\ marked' = IF listening THEN Head(toClient).listen ELSE marked
    /\ UNCHANGED <<main, listeners, raised, current, pending>>

\* Target change CURRENT: MarkCurrent, if the target is active.
TargetCurrent ==
    /\ Message("current")
    /\ marked' = IF pending = 0 /\ listening THEN Head(toClient).listen ELSE marked
    /\ UNCHANGED <<main, listeners, raised, current, pending>>

\* A global snapshot, with a resume token: the view of an active target takes
\* over its current_, set or not.
RaiseWatchSnapshot ==
    /\ Message("snapshot")
    /\ current' = IF pending = 0 /\ listening THEN marked ELSE current
    /\ Notify(listeners)
    /\ UNCHANGED <<pending, marked>>

\* ProcessTargetError, HandleRejectedListen, EventManager::OnError.
TargetError ==
    /\ Message("error")
    /\ main' = main \o [i \in DOMAIN listeners |->
                           [read |-> listeners[i], ok |-> FALSE, docs |-> {}]]
    /\ listeners' = <<>>
    /\ current' = 0
    /\ IF listening THEN pending' = 0 /\ marked' = 0
                    ELSE UNCHANGED <<pending, marked>>
    /\ UNCHANGED raised

-----------------------------------------------------------------------------
(* The server.  It takes a stream's requests in order, and its verdict on  *)
(* reading the collection does not change.                                 *)

ServerAnswers ==
    /\ toServer # <<>>
    /\ toServer' = Tail(toServer)
    /\ LET r    == Head(toServer)
           kind == IF r.op = "unwatch" THEN "removed"
                   ELSE IF allowed THEN "added" ELSE "error"
       IN  /\ toClient' = Append(toClient, [kind |-> kind, listen |-> r.listen])
           /\ serving' = IF kind = "added" THEN r.listen ELSE 0
    /\ UNCHANGED <<queueVars, docVars, viewVars, stream, idle, pending,
                   marked, onlineVars, allowed, written, historyVars, faults>>

\* A target that is added gets its documents, CURRENT and a global snapshot.
ServerCurrent ==
    /\ serving # 0
    /\ LET Say(kind) == [kind |-> kind, listen |-> serving]
       IN  toClient' = Append(Append(toClient, Say("current")), Say("snapshot"))
    /\ serving' = 0
    /\ UNCHANGED <<queueVars, docVars, viewVars, stream, idle, pending, marked,
                   toServer, onlineVars, allowed, written, historyVars, faults>>

\* A global snapshot may also come before CURRENT.  One that directly follows
\* another, or comes when the target is current, tells the client nothing new.
ServerSnapshot ==
    /\ serving # 0
    /\ toClient # <<>> => toClient[Len(toClient)].kind # "snapshot"
    /\ toClient' = Append(toClient, [kind |-> "snapshot", listen |-> serving])
    /\ UNCHANGED <<queueVars, docVars, viewVars, stream, idle, pending, marked,
                   toServer, serving, onlineVars, allowed, written, historyVars,
                   faults>>

-----------------------------------------------------------------------------

Init ==
    /\ tasks = <<>> /\ main = <<>>
    /\ server = {} /\ saved = {}
    /\ listeners = <<>> /\ raised = {} /\ muted = {}
    /\ listens = 0 /\ current = 0
    /\ stream = "Initial" /\ idle = FALSE /\ pending = 0 /\ marked = 0
    /\ online = "Unknown" /\ failed = FALSE /\ timer = FALSE
    /\ toServer = <<>> /\ toClient = <<>> /\ serving = 0
    /\ allowed \in BOOLEAN
    /\ since = <<>> /\ answered = <<>> /\ refused = TRUE
    /\ written = 0 /\ faults = 0

Worker == \/ WriteMutations \/ AddQueryListener \/ RemoveQueryListener
          \/ TargetResponse \/ TargetCurrent \/ RaiseWatchSnapshot \/ TargetError
          \/ BackoffElapsed
Connection == OnWatchStreamOpen \/ StreamBreaks
Server == ServerAnswers \/ ServerCurrent

Next ==
    \/ GetDocuments
    \/ \E d \in Docs : SetData(d) \/ Delete(d)
    \/ Deliver
    \/ Worker
    \/ \E w \in Writes : HandleSuccessfulWrite(w) \/ HandleRejectedWrite(w)
    \/ IdleTimeout \/ OnlineStateTimeout \/ RestartNetwork
    \/ Connection
    \/ Server \/ ServerSnapshot

Spec == Init /\ [][Next]_vars

\* Both queues run what is posted to them, the backoff's end included; a stream
\* that is started opens or breaks, and the server serves an open one.
FairSpec ==
    /\ Spec
    /\ WF_vars(Deliver) /\ WF_vars(Worker)
    /\ WF_vars(Connection) /\ WF_vars(Server)

-----------------------------------------------------------------------------

TypeOK ==
    /\ \A t \in RangeOf(tasks) :
          \/ t \in [op : {"write"}, write : Writes]
          \/ t \in [op : {"listen", "remove"}, read : Reads]
    /\ main \in Seq([read : Reads, ok : BOOLEAN, docs : SUBSET Docs])
    /\ server \subseteq Docs /\ saved \subseteq Writes
    /\ listeners \in Seq(Reads) /\ raised \subseteq Reads /\ muted \subseteq Reads
    /\ listens \in 0..MaxReads /\ current \in 0..MaxReads /\ marked \in 0..MaxReads
    /\ serving \in 0..MaxReads
    /\ stream \in {"Initial", "Starting", "Open", "Backoff", "Error"}
    /\ online \in {"Unknown", "Online", "Offline"}
    /\ pending \in Int /\ (allowed => pending >= 0)
    /\ toServer \in Seq([op : {"watch", "unwatch"}, listen : Reads])
    /\ toClient \in Seq([kind : {"added", "removed", "current", "snapshot", "error"},
                         listen : Reads])
    /\ {idle, failed, timer, allowed, refused} \subseteq BOOLEAN
    /\ since \in Seq(SUBSET SUBSET Docs) /\ answered \in Seq(Reads)
    /\ written \in 0..MaxWrites /\ faults \in 0..MaxFaults

\* The snapshot that will answer a call shows the documents of a moment after
\* the call: writes made before it are there, whatever became of the stream, of
\* other calls and of answers to writes in between.
AnswersAreViews ==
    \A i \in DOMAIN main :
       /\ main[i].ok /\ main[i].read \notin muted
       /\ \A j \in 1..(i - 1) : main[j].read # main[i].read
       => main[i].docs \in since[main[i].read]

\* Every listen of the query has the same target id.  A CURRENT that is still
\* on the wire when its listen ends never marks the target for a later listen:
\* the count of responses due tells them apart.
LateCurrentIsIgnored == [][marked' \in {marked, 0, listens}]_vars

\* A target that nobody listens to and that no response is due for leaves
\* nothing to the next listen.
RemovedTargetIsForgotten == ~listening /\ pending = 0 => marked = 0

\* What remote_event.h says of current() and remote_event.cc of a target freshly
\* added: a view is current only by the CURRENT of the present listen.
SyncIsOfThisListen == listening => current \in {0, listens}

\* Nobody waits for what has happened: a listener without a snapshot, one that
\* has joined a view late included, is waiting for the server while the client
\* may be online.
WaitsForSync ==
    \A r \in RangeOf(listeners) \ raised : current = 0 /\ online # "Offline"

\* What OnWatchStreamClose and OnlineStateTracker assert: a stream that has a
\* listener is neither stopped nor left to idle, and the online state timer
\* runs in state Unknown of a started stream only.
StreamWhileListened ==
    /\ listening => IsStarted(stream) /\ ~idle
    /\ timer => online = "Unknown" /\ IsStarted(stream) /\ ~failed

\* No call is left without an answer for ever: again and again, and so at last
\* when the app calls no more, every call is completed.
ReadsEnd == []<>(Len(answered) = Len(since))

Store == INSTANCE DocumentStore WITH
    reads <- [i \in 1..(Len(since) - Len(answered)) |-> since[Len(answered) + i]]

\* The client keeps what DocumentStore promises of reads: however many snapshots
\* and errors are posted for a listener before its removal gets through, its
\* call is completed once, and calls in the order they were made in.
ImplementsDocumentStore == Store!Spec
=============================================================================
