---------------------------- MODULE WritePipeline ----------------------------
(***************************************************************************)
(* How the Firestore client brings the board's writes to the server.       *)
(*                                                                         *)
(* setData and delete post a task to the client's worker queue.  The task  *)
(* gives the write a batch id, stores the batch in the persistent mutation *)
(* queue and moves what fits into the write pipeline; the pipeline is sent *)
(* on the write stream once its handshake is complete.  The server answers *)
(* in order and without naming the batch: an answer is for the front of    *)
(* the pipeline.  A stream that fails is opened again after a backoff and  *)
(* the whole pipeline is sent again, so that a write whose answer was lost *)
(* reaches the server twice.                                               *)
(*                                                                         *)
(* Every action but the app's and the server's is one operation of the     *)
(* worker queue, which runs them one at a time.  The network is enabled    *)
(* from start-up on: the app never disables it.                            *)
(***************************************************************************)
EXTENDS Naturals, Sequences, FiniteSets

CONSTANTS
    Docs,
    MaxPendingWrites,   \* kMaxPendingWrites, ten in the code
    MaxBatchId,         \* bound: batch ids handed out by one process
    MaxFaults           \* bound: lost connections, refusals, killed processes

ASSUME PipelineAssumption ==
    /\ MaxPendingWrites \in Nat \ {0}
    /\ MaxBatchId \in Nat /\ MaxFaults \in Nat

VARIABLES
    tasks,      \* writes posted to the worker queue
    queue,      \* mutation queue: the write under each batch id (persistent)
    nextId,     \* next_batch_id_
    cache,      \* remote document cache: documents that exist (persistent)
    callbacks,  \* mutation_callbacks_: ids of batches this process waits for
    pipeline,   \* write_pipeline_
    stream,     \* state of the write stream
    handshake,  \* handshake on the present stream
    idle,       \* the stream's idleness timer is running
    sent,       \* requests on their way to the server
    results,    \* the server's answers on their way back
    denied,     \* the answers are followed by a permanent error
    server,     \* the server's documents
    applied,    \* history: queued batches the server has applied
    told,       \* history: outcomes reported to the app's completions
    faults      \* faults that have happened

clientVars == <<tasks, queue, nextId, cache, callbacks, pipeline, stream,
                handshake, idle>>
wireVars   == <<sent, results, denied, server>>
vars       == <<clientVars, wireVars, applied, told, faults>>

Writes == {"put", "del"} \X Docs
Batch  == [id : 1..MaxBatchId, write : Writes]

RangeOf(f) == {f[x] : x \in DOMAIN f}

\* Stream::IsStarted
IsStarted(s) == s \in {"Starting", "Open", "Backoff"}

\* Stream::Start, if ShouldStartWriteStream.
Started(s, p) ==
    IF p = <<>> \/ IsStarted(s) THEN s
    ELSE IF s = "Error" THEN "Backoff" ELSE "Starting"

Apply(w, docs) == IF w[1] = "put" THEN docs \cup {w[2]} ELSE docs \ {w[2]}

-----------------------------------------------------------------------------
(* FillWritePipeline, for mutation queue q, pipeline p and stream state s. *)
(* What is written to a stream the server has ended is lost.               *)

\* The k-th smallest batch id of a set.
Nth(ids, k) == CHOOSE j \in ids : Cardinality({i \in ids : i <= j}) = k

\* GetNextMutationBatch again and again, while there is room: the batches of q
\* behind the last one of p, oldest first.
Added(q, p) ==
    LET last == IF p = <<>> THEN 0 ELSE p[Len(p)].id
        rest == {j \in DOMAIN q : j > last}
        room == MaxPendingWrites - Len(p)
        n    == IF Cardinality(rest) < room THEN Cardinality(rest) ELSE room
    IN  [k \in 1..n |-> [id |-> Nth(rest, k), write |-> q[Nth(rest, k)]]]

\* Faulty form, for a mutant: writing does not cancel the idleness timer.
FillKeepsTimer(q, p, s) ==
    LET new  == p \o Added(q, p)
        ready == s = "Open" /\ handshake = "complete"
    IN  /\ pipeline' = new
        /\ sent' = IF ready /\ ~denied THEN sent \o Added(q, p) ELSE sent
        /\ stream' = Started(s, new)
        /\ idle' = (s = "Open" /\ (new = <<>> \/ idle))

FillWritePipeline(q, p, s) ==
    LET new   == p \o Added(q, p)
        ready == s = "Open" /\ handshake = "complete"
    IN  /\ pipeline' = new
        /\ sent' = IF ready /\ ~denied THEN sent \o Added(q, p) ELSE sent
        /\ stream' = Started(s, new)
        /\ idle' = /\ s = "Open"
                   /\ new = <<>> \/ (idle /\ ~(ready /\ Added(q, p) # <<>>))

-----------------------------------------------------------------------------
(* The app, and the worker's task for one of its writes.                   *)

SetData(d) ==
    /\ d \notin cache
    /\ \A w \in {<<"put", d>>, <<"del", d>>} :
          w \notin RangeOf(tasks) /\ w \notin RangeOf(queue)
    /\ nextId + Len(tasks) <= MaxBatchId
    /\ tasks' = Append(tasks, <<"put", d>>)
    /\ UNCHANGED <<queue, nextId, cache, callbacks, pipeline, stream, handshake,
                   idle, wireVars, applied, told, faults>>

Delete(d) ==
    /\ d \in cache \/ <<"put", d>> \in RangeOf(tasks)
                   \/ <<"put", d>> \in RangeOf(queue)
    /\ <<"del", d>> \notin RangeOf(tasks) /\ <<"del", d>> \notin RangeOf(queue)
    /\ nextId + Len(tasks) <= MaxBatchId
    /\ tasks' = Append(tasks, <<"del", d>>)
    /\ UNCHANGED <<queue, nextId, cache, callbacks, pipeline, stream, handshake,
                   idle, wireVars, applied, told, faults>>

WriteMutations ==
    /\ tasks # <<>>
    /\ tasks' = Tail(tasks)
    /\ queue' = [j \in DOMAIN queue \cup {nextId} |->
                    IF j = nextId THEN Head(tasks) ELSE queue[j]]
    /\ nextId' = nextId + 1
    /\ callbacks' = callbacks \cup {nextId}
    /\ FillWritePipeline(queue', pipeline, stream)
    /\ UNCHANGED <<cache, handshake, results, denied, server, applied, told,
                   faults>>

-----------------------------------------------------------------------------
(* Batches leave the mutation queue.                                       *)

\* RemoveMutationBatch, by the batch's id.
Without(q, b) == [j \in DOMAIN q \ {b.id} |-> q[j]]

\* NotifyUser: a batch of an earlier process has no completion to call.
Tell(b, how) ==
    /\ told' = IF b.id \in callbacks THEN told \cup {<<b.write, how>>} ELSE told
    /\ callbacks' = callbacks \ {b.id}

\* Faulty form, for a mutant: no further batch is fetched.
ResultWithoutRefill ==
    /\ results # <<>>
    /\ results' = Tail(results)
    /\ LET b == Head(pipeline) IN
       /\ Tell(b, "ok")
       /\ queue' = Without(queue, b)
       /\ cache' = Apply(b.write, cache)
       /\ applied' = applied \ {b.id}
       /\ pipeline' = Tail(pipeline)
       /\ idle' = (Tail(pipeline) = <<>>)
    /\ UNCHANGED <<tasks, nextId, stream, handshake, sent, denied, server, faults>>

\* OnWriteStreamMutationResult: the answer is taken to be for the pipeline's
\* front.
MutationResult ==
    /\ results # <<>>
    /\ results' = Tail(results)
    /\ LET b == Head(pipeline) IN
       /\ Tell(b, "ok")
       /\ queue' = Without(queue, b)
       /\ cache' = Apply(b.write, cache)
       /\ applied' = applied \ {b.id}
       /\ FillWritePipeline(queue', Tail(pipeline), stream)
    /\ UNCHANGED <<tasks, nextId, handshake, denied, server, faults>>

-----------------------------------------------------------------------------
(* The write stream.  `Close' is what every end of a stream does: the      *)
(* answers on their way are not read any more, timers stop.                *)

Close ==
    /\ handshake' = "none"
    /\ results' = <<>>
    /\ denied' = FALSE

BackoffElapsed ==
    /\ stream = "Backoff"
    /\ stream' = "Starting"
    /\ UNCHANGED <<tasks, queue, nextId, cache, callbacks, pipeline, handshake,
                   idle, wireVars, applied, told, faults>>

\* OnStreamStart, and the handshake it sends.  What is left of an earlier
\* stream is not processed any more.
StreamOpens ==
    /\ stream = "Starting"
    /\ stream' = "Open"
    /\ handshake' = "asked"
    /\ sent' = <<>>
    /\ UNCHANGED <<tasks, queue, nextId, cache, callbacks, pipeline, idle,
                   results, denied, server, applied, told, faults>>

\* Faulty form, for a mutant: the pipeline is not sent on a new stream.
HandshakeWithoutResend ==
    /\ handshake = "answered"
    /\ handshake' = "complete"
    /\ UNCHANGED <<tasks, queue, nextId, cache, callbacks, pipeline, stream,
                   idle, wireVars, applied, told, faults>>

HandshakeComplete ==
    /\ handshake = "answered"
    /\ handshake' = "complete"
    /\ sent' = sent \o pipeline
    /\ UNCHANGED <<tasks, queue, nextId, cache, callbacks, pipeline, stream,
                   idle, results, denied, server, applied, told, faults>>

\* Faulty form, for a mutant: any error rejects the front of the pipeline.
BreakRejects ==
    /\ stream = "Open"
    /\ pipeline # <<>>
    /\ faults < MaxFaults
    /\ faults' = faults + 1
    /\ Close
    /\ LET b == Head(pipeline) IN
       /\ Tell(b, "error")
       /\ queue' = Without(queue, b)
       /\ applied' = applied \ {b.id}
       /\ FillWritePipeline(queue', Tail(pipeline), "Initial")
    /\ UNCHANGED <<tasks, nextId, cache, server>>

\* The stream ends with a transient error, or with any error before its
\* handshake is complete: OnWriteStreamClose starts it again if it is needed.
StreamBreaks ==
    /\ stream \in {"Starting", "Open"}
    /\ faults < MaxFaults
    /\ faults' = faults + 1
    /\ Close
    /\ stream' = Started("Error", pipeline)
    /\ idle' = FALSE
    /\ UNCHANGED <<tasks, queue, nextId, cache, callbacks, pipeline, sent,
                   server, applied, told>>

\* The stream ends with a permanent error: HandleWriteError rejects the front
\* of the pipeline, and the stream starts again without a backoff.
WriteRejected ==
    /\ denied /\ results = <<>>
    /\ Close
    /\ LET b == Head(pipeline) IN
       /\ Tell(b, "error")
       /\ queue' = Without(queue, b)
       /\ applied' = applied \ {b.id}
       /\ FillWritePipeline(queue', Tail(pipeline), "Initial")
    /\ UNCHANGED <<tasks, nextId, cache, server, faults>>

\* The idleness timer stops the stream.
IdleTimeout ==
    /\ idle
    /\ Close
    /\ stream' = "Initial"
    /\ idle' = FALSE
    /\ UNCHANGED <<tasks, queue, nextId, cache, callbacks, pipeline, sent,
                   server, applied, told, faults>>

\* The device's connectivity changes: RestartNetwork stops the stream, clears
\* the pipeline and fills it again from the mutation queue.
RestartNetwork ==
    /\ faults < MaxFaults
    /\ faults' = faults + 1
    /\ Close
    /\ FillWritePipeline(queue, <<>>, "Initial")
    /\ UNCHANGED <<tasks, queue, nextId, cache, callbacks, server, applied, told>>

\* Faulty form, for a mutant: the last id is handed out again.
LastBatchIdFromDb ==
    IF DOMAIN queue = {} THEN 0
    ELSE CHOOSE j \in DOMAIN queue : \A i \in DOMAIN queue : i <= j

\* LoadNextBatchIdFromDb
NextBatchIdFromDb ==
    IF DOMAIN queue = {} THEN 1
    ELSE 1 + CHOOSE j \in DOMAIN queue : \A i \in DOMAIN queue : i <= j

\* The process is killed and started again: LocalStore::Start, then
\* RemoteStore::Start.
Restart ==
    /\ faults < MaxFaults
    /\ faults' = faults + 1
    /\ tasks' = <<>>
    /\ callbacks' = {}
    /\ nextId' = NextBatchIdFromDb
    /\ Close
    /\ FillWritePipeline(queue, <<>>, "Initial")
    /\ UNCHANGED <<queue, cache, server, applied, told>>

-----------------------------------------------------------------------------
(* The server.  It serves a stream's requests in order, also for a while   *)
(* after the client has given the stream up; nobody reads its answers      *)
(* then.  A write it has accepted once it accepts again.                   *)

ServerGreets ==
    /\ handshake = "asked"
    /\ handshake' = "answered"
    /\ UNCHANGED <<tasks, queue, nextId, cache, callbacks, pipeline, stream,
                   idle, wireVars, applied, told, faults>>

ServerApplies ==
    /\ sent # <<>> /\ ~denied
    /\ sent' = Tail(sent)
    /\ server' = Apply(Head(sent).write, server)
    /\ applied' = applied \cup {Head(sent).id}
    /\ results' = IF handshake = "complete" THEN Append(results, Head(sent))
                                            ELSE results
    /\ UNCHANGED <<clientVars, denied, told, faults>>

ServerRefuses ==
    /\ sent # <<>> /\ ~denied
    /\ Head(sent).id \notin applied
    /\ faults < MaxFaults
    /\ faults' = faults + 1
    /\ denied' = (handshake = "complete")
    /\ sent' = <<>>
    /\ UNCHANGED <<clientVars, results, server, applied, told>>

-----------------------------------------------------------------------------

Init ==
    /\ tasks = <<>> /\ queue = <<>> /\ pipeline = <<>>
    /\ nextId = 1
    /\ cache = {} /\ callbacks = {}
    /\ stream = "Initial" /\ handshake = "none" /\ idle = FALSE
    /\ sent = <<>> /\ results = <<>> /\ denied = FALSE
    /\ server = {} /\ applied = {} /\ told = {}
    /\ faults = 0

Client == \/ WriteMutations \/ MutationResult \/ WriteRejected
          \/ BackoffElapsed \/ StreamOpens \/ HandshakeComplete
Server == ServerGreets \/ ServerApplies

Next ==
    \/ \E d \in Docs : SetData(d) \/ Delete(d)
    \/ Client
    \/ IdleTimeout
    \/ Server
    \/ StreamBreaks \/ RestartNetwork \/ Restart \/ ServerRefuses

Spec == Init /\ [][Next]_vars

\* The worker queue runs what is posted to it and its timers expire; a stream
\* that is started opens or ends, and the server serves an open one.
FairSpec ==
    /\ Spec
    /\ WF_vars(WriteMutations) /\ WF_vars(MutationResult) /\ WF_vars(WriteRejected)
    /\ WF_vars(BackoffElapsed) /\ WF_vars(StreamOpens) /\ WF_vars(HandshakeComplete)
    /\ WF_vars(ServerGreets) /\ WF_vars(ServerApplies)

-----------------------------------------------------------------------------

TypeOK ==
    /\ tasks \in Seq(Writes)
    /\ DOMAIN queue \subseteq 1..MaxBatchId /\ RangeOf(queue) \subseteq Writes
    /\ pipeline \in Seq(Batch)
    /\ nextId \in Nat \ {0}
    /\ cache \subseteq Docs /\ server \subseteq Docs
    /\ callbacks \subseteq 1..MaxBatchId /\ applied \subseteq 1..MaxBatchId
    /\ stream \in {"Initial", "Starting", "Open", "Backoff", "Error"}
    /\ handshake \in {"none", "asked", "answered", "complete"}
    /\ idle \in BOOLEAN /\ denied \in BOOLEAN
    /\ sent \in Seq(Batch) /\ results \in Seq(Batch)
    /\ told \subseteq Writes \X {"ok", "error"}
    /\ faults \in 0..MaxFaults

\* Through overflowing pipelines, lost streams, restarts and reused batch ids
\* the pipeline is the front of the mutation queue: no batch is overtaken,
\* taken twice, or left behind while there is room.
PipelineHeadsQueue == pipeline = Added(queue, <<>>)

\* An answer names no batch.  It is still taken for the right one: answers and
\* requests of the present stream are those of the pipeline, in its order, and
\* a permanent error is about the batch behind the answered ones.
AnswersMatchPipeline ==
    handshake = "complete" =>
        IF denied THEN \E i \in DOMAIN pipeline : results = SubSeq(pipeline, 1, i - 1)
        ELSE results \o sent = pipeline

\* What OnWriteStreamClose asserts of a graceful stop, and its counterpart: the
\* idleness timer runs only while there is nothing to write, and while there
\* is, the stream is open or on its way.
StreamWhileNeeded ==
    /\ idle => DOMAIN queue = {}
    /\ DOMAIN queue # {} => IsStarted(stream)

\* A completion that is called with success is that of a write the server has
\* applied, one called with an error that of a write it has never applied.
OutcomesAreTrue ==
    [][\A w \in Writes :
          /\ <<w, "ok">> \in told' \ told =>
                \E j \in DOMAIN queue : queue[j] = w /\ j \in applied
          /\ <<w, "error">> \in told' \ told =>
                \E j \in DOMAIN queue : queue[j] = w /\ j \notin applied
      ]_vars

\* Writes sent twice, and answers lost, leave no difference behind: a document
\* none of whose writes is pending exists on the server if and only if the
\* client believes so.
ServerAgrees ==
    \A d \in Docs : (\A w \in RangeOf(queue) : w[2] # d)
                        => (d \in server <=> d \in cache)

\* Every write in the mutation queue is answered in the end.
WritesSettle ==
    \A w \in Writes : w \in RangeOf(queue) ~> w \notin RangeOf(queue)

Store == INSTANCE DocumentStore WITH
    MaxReads <- 0,
    server   <- cache,
    muts     <- RangeOf(tasks) \cup RangeOf(queue),
    saved    <- RangeOf(queue),
    reads    <- <<>>,
    refused  <- TRUE

\* The client keeps what DocumentStore promises of writes: saved ones survive
\* a killed process, each is acknowledged or rejected once, and the writes to
\* a document in the order they were made.
ImplementsDocumentStore == Store!Spec
=============================================================================
