---------------------------- MODULE DocumentStore ----------------------------
(***************************************************************************)
(* What the Firestore client promises about one collection of documents    *)
(* that only this device writes.                                           *)
(*                                                                         *)
(* A write is applied to the local view at once, is saved in the device's  *)
(* mutation queue a moment later, and is acknowledged or rejected by the   *)
(* server at some time after that.  Writes are identified by their effect: *)
(* <<"put", d>> or <<"del", d>>.  A document is put once, so the writes    *)
(* to it come in that order; writes to different documents are             *)
(* independent.                                                            *)
(*                                                                         *)
(* getDocuments is answered on the main queue, first asked first answered, *)
(* with some local view of the time between the call and the answer: an    *)
(* outstanding read is the set of these views.                             *)
(***************************************************************************)
EXTENDS Naturals, Sequences

CONSTANTS
    Docs,
    MaxReads    \* bound: outstanding getDocuments calls

VARIABLES
    server,     \* documents the server has
    muts,       \* writes not yet acknowledged or rejected
    saved,      \* those of them in the persistent mutation queue
    reads,      \* the views each outstanding read may be answered with
    refused     \* the last read asked for was denied, or a write was
                \* rejected after it was asked for

storeVars == <<server, muts, saved, reads, refused>>

Puts == {"put"} \X Docs
Dels == {"del"} \X Docs
Writes == Puts \cup Dels

\* The local view: the server's documents under the pending writes.
view == {d \in Docs : /\ d \in server \/ <<"put", d>> \in muts
                      /\ <<"del", d>> \notin muts}

\* Write m is the oldest one of set S to its document.
OldestIn(m, S) == m[1] = "del" => <<"put", m[2]>> \notin S

-----------------------------------------------------------------------------
(* The calls of the app.  A handler is one step: a write it makes, then    *)
(* the reads in progress (`Watching') or one more (`GetDocuments').        *)

Write(m) ==
    /\ muts' = muts \cup {m}
    /\ UNCHANGED <<server, saved>>

SetData(d) == Write(<<"put", d>>)
Delete(d)  == Write(<<"del", d>>)
NoWrite    == UNCHANGED <<server, muts, saved>>

Widened == [i \in DOMAIN reads |-> reads[i] \cup {view'}]

Watching == reads' = Widened

GetDocuments ==
    /\ Len(reads) < MaxReads
    /\ reads' = Append(Widened, {view'})
    /\ refused' = FALSE

-----------------------------------------------------------------------------
(* The client's own steps and the server's.                                *)

\* The oldest read is answered with view s.
Answer(s) ==
    /\ reads # <<>>
    /\ s \in Head(reads)
    /\ reads' = Tail(reads)
    /\ UNCHANGED <<server, muts, saved, refused>>

\* The oldest read is answered with an error.
Deny ==
    /\ reads # <<>>
    /\ reads' = Tail(reads)
    /\ refused' = (refused \/ Len(reads) = 1)
    /\ UNCHANGED <<server, muts, saved>>

\* A write reaches the persistent mutation queue.
Persist(m) ==
    /\ m \in muts \ saved
    /\ OldestIn(m, muts \ saved)
    /\ saved' = saved \cup {m}
    /\ UNCHANGED <<server, muts, reads, refused>>

\* Faulty form, for a mutant: the persistent queue keeps the write.
RemoveFromMemoryOnly(m) ==
    /\ m \in saved
    /\ OldestIn(m, muts)
    /\ muts' = muts \ {m}
    /\ UNCHANGED saved

\* Write m leaves the mutation queue.
Remove(m) ==
    /\ m \in saved
    /\ OldestIn(m, muts)
    /\ muts' = muts \ {m}
    /\ saved' = saved \ {m}

\* Faulty form, for a mutant: younger writes may be acknowledged first.
AcknowledgeAnyOrder(m) ==
    /\ m \in saved
    /\ muts' = muts \ {m}
    /\ saved' = saved \ {m}
    /\ server' = IF m[1] = "put" THEN server \cup {m[2]} ELSE server \ {m[2]}
    /\ Watching
    /\ UNCHANGED refused

\* Faulty form, for a mutant: the write leaves the queue and has no effect.
AcknowledgeWithoutApplying(m) ==
    /\ Remove(m)
    /\ UNCHANGED <<server, refused>>
    /\ Watching

\* The server has applied a write.
Acknowledge(m) ==
    /\ Remove(m)
    /\ server' = IF m[1] = "put" THEN server \cup {m[2]} ELSE server \ {m[2]}
    /\ Watching
    /\ UNCHANGED refused

\* Faulty form, for a mutant: reads in progress are not told.
RejectUnwatched(m) ==
    /\ Remove(m)
    /\ UNCHANGED <<server, reads>>
    /\ refused' = TRUE

\* View v after the write to document d is rejected.
Amended(v, d) == (v \ {d}) \cup (view' \cap {d})

\* The server rejects a write: the local view loses its effect, whichever of
\* the writes not yet saved a read in progress has seen.
Reject(m) ==
    /\ Remove(m)
    /\ UNCHANGED server
    /\ reads' = [i \in DOMAIN reads |->
                    reads[i] \cup {Amended(v, m[2]) : v \in reads[i]}]
    /\ refused' = TRUE

\* What a new process finds of the writes of one that was killed: the saved
\* ones, and those of the others that were saved in the meantime.
Recover ==
    /\ \E kept \in SUBSET (muts \ saved) :
          /\ \A m \in kept : OldestIn(m, (muts \ saved) \ kept)
          /\ muts' = saved \cup kept
    /\ saved' = muts'
    /\ UNCHANGED server

-----------------------------------------------------------------------------
(* The store with a client that puts documents that are absent, deletes    *)
(* what it sees, and reads at any time.                                    *)

Init ==
    /\ server = {} /\ muts = {} /\ saved = {}
    /\ reads = <<>>
    /\ refused = TRUE

ClientPuts(d) ==
    /\ d \notin server /\ <<"put", d>> \notin muts /\ <<"del", d>> \notin muts
    /\ SetData(d) /\ Watching
    /\ UNCHANGED refused

ClientDeletes(d) ==
    /\ d \in view
    /\ Delete(d) /\ Watching
    /\ UNCHANGED refused

ClientReads == NoWrite /\ GetDocuments

Crash ==
    /\ Recover
    /\ reads' = <<>>
    /\ refused' = TRUE

Next ==
    \/ \E d \in Docs : ClientPuts(d) \/ ClientDeletes(d)
    \/ ClientReads
    \/ \E s \in SUBSET Docs : Answer(s)
    \/ Deny
    \/ \E m \in Writes : Persist(m) \/ Acknowledge(m) \/ Reject(m)
    \/ Crash

Spec == Init /\ [][Next]_storeVars

-----------------------------------------------------------------------------

TypeOK ==
    /\ server \subseteq Docs
    /\ muts \subseteq Writes
    /\ saved \subseteq muts
    /\ reads \in Seq(SUBSET SUBSET Docs)
    /\ refused \in BOOLEAN

\* An acknowledgement is never seen by the user: the write leaves the queue,
\* the server's documents take its effect over, and the local view is as it
\* was, a younger write to the same document included.
AcknowledgementsAreInvisible ==
    [][(\E m \in Writes : Acknowledge(m)) => view' = view]_storeVars

\* A read may always be answered with the present view: whatever has changed
\* since it was asked for, nobody is bound to be told something stale.
ReadsMayBeCurrent == \A i \in DOMAIN reads : view \in reads[i]

\* Once in the mutation queue, a write outlives the process.  A document
\* whose deletion is saved does not come back, and one whose setData is saved
\* does not go, by a crash or by the order acknowledgements come in: only if
\* that write is rejected or the app deletes the document.
SavedWritesSurvive ==
    [][\A d \in Docs :
          /\ <<"del", d>> \in saved /\ d \in view' => Reject(<<"del", d>>)
          /\ <<"put", d>> \in saved /\ d \in view \ view' =>
                <<"del", d>> \in muts' \ muts \/ Reject(<<"put", d>>)]_storeVars
=============================================================================
