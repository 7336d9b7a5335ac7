----------------------------- MODULE WordComments -----------------------------
(***************************************************************************)
(* The comments of one word: DetailViewController's table of them and the  *)
(* sheet that adds one.                                                    *)
(*                                                                         *)
(* Opening the word makes a new detail screen, which fetches.  A comment   *)
(* is written with addDocument, whose completion fetches again: it runs    *)
(* when the server has answered, not when the comment is in the local      *)
(* view.  The answer to a fetch replaces arr at once and reloads the table *)
(* in a later block of the main queue, so that the table can for a moment  *)
(* ask for rows of an arr that is gone.                                    *)
(*                                                                         *)
(* Everything the app does here runs on the main thread: `mainQueue' holds *)
(* the blocks that Firestore and fetchComment have put there.  Firestore's *)
(* worker runs the calls in the order they were made in, and answers the   *)
(* fetches in that order, each with the documents of its own moment.       *)
(*                                                                         *)
(* The process can be killed.  The comments that the worker has put into   *)
(* the mutation queue on disk are sent by the next process, which has no   *)
(* completion to run for them; the others are lost.                        *)
(***************************************************************************)
EXTENDS Naturals, Sequences

CONSTANTS
    Comments,
    Screens,        \* identities of detail screens
    NoScreen,
    MaxBlocks,      \* bound: calls and blocks outstanding when a screen opens
    MaxRestarts     \* bound: restarts of the process

ASSUME CommentsAssumption ==
    /\ NoScreen \notin Screens
    /\ MaxBlocks \in Nat /\ MaxRestarts \in Nat

VARIABLES
    open,           \* the detail screen on top of the navigation stack
    sheet,          \* is AddCommentViewController presented over it?
    arr,            \* each screen's comments
    drawn,          \* arr as it was at the table's last reloadData
    stored,         \* comments the server has
    tasks,          \* calls that Firestore's worker has not come to
    pending,        \* <<comment, screen>>: the mutation queue; the screen is the
                    \* one that addDocument's completion holds, if any
    fetches,        \* the screens whose fetch waits for its snapshot
    mainQueue,
    \* history
    rejected,       \* comments the server has rejected
    missed,         \* screens whose last fetch was denied
    restarts

screenVars == <<open, sheet, arr, drawn>>
clientVars == <<tasks, pending, fetches>>
vars == <<screenVars, stored, clientVars, mainQueue, rejected, missed, restarts>>

Block(k, s, cs) == [kind |-> k, screen |-> s, comments |-> cs]

\* Blocks for screen s that are still to run.
BlocksOf(s) == {i \in DOMAIN mainQueue : mainQueue[i].screen = s}

Listen(s)   == [op |-> "listen", screen |-> s]
Write(c, s) == [op |-> "write", screen |-> s, comment |-> c]

\* Screens that have a fetch that is not answered.
awaiting == {s \in Screens : \/ \E i \in DOMAIN tasks : tasks[i] = Listen(s)
                             \/ \E i \in DOMAIN fetches : fetches[i] = s}

\* A comment saved through screen s is not answered.
Saving(c, s) == <<c, s>> \in pending \/ \E i \in DOMAIN tasks : tasks[i] = Write(c, s)

\* The worker's view of the comments.
view == stored \cup {p[1] : p \in pending}

Written == view \cup rejected \cup {c \in Comments : \E s \in Screens : Saving(c, s)}

\* A closed screen lives on in addDocument's completion and in the block that
\* reloads its table; a fetch holds it weakly.
Alive(s) ==
    \/ s = open
    \/ \E c \in Comments : Saving(c, s)
    \/ \E i \in BlocksOf(s) : mainQueue[i].kind \in {"saved", "reload"}

-----------------------------------------------------------------------------
(* The user.                                                               *)

\* fetchComment, up to the call of getDocuments.
FetchComment(s) ==
    /\ tasks' = Append(tasks, Listen(s))
    /\ missed' = missed \ {s}

\* A row of the board is selected: viewDidLoad.
OpenWord(s) ==
    /\ open = NoScreen
    /\ ~Alive(s) /\ s \notin awaiting /\ BlocksOf(s) = {}
    /\ Len(tasks) + Len(fetches) + Len(mainQueue) < MaxBlocks
    /\ open' = s
    /\ arr' = [arr EXCEPT ![s] = {}]
    /\ drawn' = [drawn EXCEPT ![s] = {}]
    /\ FetchComment(s)
    /\ UNCHANGED <<sheet, stored, pending, fetches, mainQueue, rejected, restarts>>

\* Faulty form, for a mutant: the screen can be left under its sheet.
BackUnderSheet ==
    /\ open # NoScreen
    /\ open' = NoScreen
    /\ UNCHANGED <<sheet, arr, drawn, stored, clientVars, mainQueue, rejected,
                   missed, restarts>>

\* The back button, in reach while no sheet is up.
Back ==
    /\ open # NoScreen /\ ~sheet
    /\ open' = NoScreen
    /\ UNCHANGED <<sheet, arr, drawn, stored, clientVars, mainQueue, rejected,
                   missed, restarts>>

AddComment ==
    /\ open # NoScreen /\ ~sheet
    /\ sheet' = TRUE
    /\ UNCHANGED <<open, arr, drawn, stored, clientVars, mainQueue, rejected,
                   missed, restarts>>

\* The sheet is swiped away.
CancelComment ==
    /\ sheet
    /\ sheet' = FALSE
    /\ UNCHANGED <<open, arr, drawn, stored, clientVars, mainQueue, rejected,
                   missed, restarts>>

\* Save: the delegate calls addDocument, and the sheet is dismissed.
SaveComment(c) ==
    /\ sheet /\ c \notin Written
    /\ tasks' = Append(tasks, Write(c, open))
    /\ sheet' = FALSE
    /\ UNCHANGED <<open, arr, drawn, stored, pending, fetches, mainQueue,
                   rejected, missed, restarts>>

-----------------------------------------------------------------------------
(* Firestore: the worker runs calls, the server answers writes.            *)

\* The oldest call: the comment goes to the mutation queue, or a listener is
\* added for the fetch.
RunTask ==
    /\ tasks # <<>>
    /\ tasks' = Tail(tasks)
    /\ LET t == Head(tasks) IN
       \/ /\ t.op = "write"
          /\ pending' = pending \cup {<<t.comment, t.screen>>}
          /\ UNCHANGED fetches
       \/ /\ t.op = "listen"
          /\ fetches' = Append(fetches, t.screen)
          /\ UNCHANGED pending
    /\ UNCHANGED <<screenVars, stored, mainQueue, rejected, missed, restarts>>

\* Either answer runs addDocument's completion on the main queue, if the
\* process that made the call is still there.
Answered(p) ==
    /\ p \in pending
    /\ pending' = pending \ {p}
    /\ mainQueue' = IF p[2] = NoScreen THEN mainQueue
                    ELSE Append(mainQueue, Block("saved", p[2], {}))
    /\ UNCHANGED <<screenVars, tasks, fetches, missed, restarts>>

Acknowledge(p) ==
    /\ Answered(p)
    /\ stored' = stored \cup {p[1]}
    /\ UNCHANGED rejected

Reject(p) ==
    /\ Answered(p)
    /\ rejected' = rejected \cup {p[1]}
    /\ UNCHANGED stored

\* The oldest fetch gets its snapshot, which travels to the main queue.
AnswerFetch ==
    /\ fetches # <<>>
    /\ fetches' = Tail(fetches)
    /\ mainQueue' = Append(mainQueue, Block("loaded", Head(fetches), view))
    /\ UNCHANGED <<screenVars, stored, tasks, pending, rejected, missed, restarts>>

\* The oldest fetch fails: reloadComment returns before its completion.
DenyFetch ==
    /\ fetches # <<>>
    /\ fetches' = Tail(fetches)
    /\ UNCHANGED <<screenVars, stored, tasks, pending, mainQueue, rejected, restarts>>
    /\ missed' = missed \cup ({Head(fetches)} \ awaiting')

-----------------------------------------------------------------------------
(* The main queue runs its oldest block.                                   *)

NextBlock(k) == mainQueue # <<>> /\ Head(mainQueue).kind = k

\* Faulty form, for a mutant: the completion does not fetch.
CommentSavedWithoutFetch ==
    /\ NextBlock("saved")
    /\ mainQueue' = Tail(mainQueue)
    /\ UNCHANGED <<screenVars, stored, clientVars, rejected, missed, restarts>>

\* Faulty form, for a mutant: arr is cleared while its comments are on the table.
CommentSavedClearingFirst ==
    /\ NextBlock("saved")
    /\ mainQueue' = Tail(mainQueue)
    /\ arr' = [arr EXCEPT ![Head(mainQueue).screen] = {}]
    /\ FetchComment(Head(mainQueue).screen)
    /\ UNCHANGED <<open, sheet, drawn, stored, pending, fetches, rejected, restarts>>

\* addDocument's completion, with an error or without: fetchComment.
CommentSaved ==
    /\ NextBlock("saved")
    /\ mainQueue' = Tail(mainQueue)
    /\ FetchComment(Head(mainQueue).screen)
    /\ UNCHANGED <<screenVars, stored, pending, fetches, rejected, restarts>>

\* Faulty form, for a mutant: the table is not reloaded.
CommentsLoadedWithoutReload ==
    /\ NextBlock("loaded")
    /\ arr' = [arr EXCEPT ![Head(mainQueue).screen] = Head(mainQueue).comments]
    /\ mainQueue' = Tail(mainQueue)
    /\ UNCHANGED <<open, sheet, drawn, stored, clientVars, rejected, missed, restarts>>

\* The completion of reloadComment: arr is replaced, the reload deferred.
CommentsLoaded ==
    /\ NextBlock("loaded")
    /\ LET s == Head(mainQueue).screen IN
       \/ /\ Alive(s)
          /\ arr' = [arr EXCEPT ![s] = Head(mainQueue).comments]
          /\ mainQueue' = Append(Tail(mainQueue), Block("reload", s, {}))
       \/ /\ ~Alive(s)
          /\ mainQueue' = Tail(mainQueue)
          /\ UNCHANGED arr
    /\ UNCHANGED <<open, sheet, drawn, stored, clientVars, rejected, missed, restarts>>

\* commentTableView.reloadData().
ReloadData ==
    /\ NextBlock("reload")
    /\ LET s == Head(mainQueue).screen IN drawn' = [drawn EXCEPT ![s] = arr[s]]
    /\ mainQueue' = Tail(mainQueue)
    /\ UNCHANGED <<open, sheet, arr, stored, clientVars, rejected, missed, restarts>>

-----------------------------------------------------------------------------

\* The process is killed and started again: Firestore loads its mutation queue.
Restart ==
    /\ restarts < MaxRestarts
    /\ restarts' = restarts + 1
    /\ open' = NoScreen /\ sheet' = FALSE
    /\ arr' = [s \in Screens |-> {}]
    /\ drawn' = [s \in Screens |-> {}]
    /\ pending' = {<<p[1], NoScreen>> : p \in pending}
    /\ tasks' = <<>> /\ fetches' = <<>> /\ mainQueue' = <<>>
    /\ missed' = {}
    /\ UNCHANGED <<stored, rejected>>

-----------------------------------------------------------------------------

Init ==
    /\ open = NoScreen /\ sheet = FALSE
    /\ arr = [s \in Screens |-> {}]
    /\ drawn = [s \in Screens |-> {}]
    /\ stored = {} /\ pending = {}
    /\ tasks = <<>> /\ fetches = <<>> /\ mainQueue = <<>>
    /\ rejected = {} /\ missed = {}
    /\ restarts = 0

MainQueueStep == CommentSaved \/ CommentsLoaded \/ ReloadData

Next ==
    \/ \E s \in Screens : OpenWord(s)
    \/ Back \/ AddComment \/ CancelComment
    \/ \E c \in Comments : SaveComment(c)
    \/ \E p \in pending : Acknowledge(p) \/ Reject(p)
    \/ RunTask \/ AnswerFetch \/ DenyFetch
    \/ MainQueueStep
    \/ Restart

\* Both queues run what is posted to them, a fetch is answered, from the cache if need
\* be, and a device that stays on-line has every write answered.
Fairness ==
    /\ WF_vars(MainQueueStep) /\ WF_vars(RunTask)
    /\ WF_vars(AnswerFetch \/ DenyFetch)
    /\ \A c \in Comments, s \in Screens :
          WF_vars(<<c, s>> \in pending /\ (Acknowledge(<<c, s>>) \/ Reject(<<c, s>>)))

Spec == Init /\ [][Next]_vars /\ Fairness

-----------------------------------------------------------------------------
(* Properties.                                                             *)

Blocks == [kind : {"saved", "loaded", "reload"}, screen : Screens, comments : SUBSET Comments]
Tasks  == [op : {"listen"}, screen : Screens]
          \cup [op : {"write"}, screen : Screens, comment : Comments]

TypeOK ==
    /\ open \in Screens \cup {NoScreen}
    /\ sheet \in BOOLEAN
    /\ arr \in [Screens -> SUBSET Comments]
    /\ drawn \in [Screens -> SUBSET Comments]
    /\ stored \subseteq Comments
    /\ tasks \in Seq(Tasks)
    /\ pending \subseteq Comments \X (Screens \cup {NoScreen})
    /\ fetches \in Seq(Screens)
    /\ mainQueue \in Seq(Blocks)
    /\ rejected \subseteq Comments
    /\ missed \subseteq Screens
    /\ restarts \in 0..MaxRestarts

\* The rows the table knows of are rows of arr, also between the assignment
\* of arr and the deferred reloadData: cellForRowAt does not index beyond arr,
\* unless the server has rejected a comment that was on the screen.
RowsExist == \A s \in Screens : drawn[s] \ arr[s] \subseteq rejected

\* Nothing is under way that would change what screen s shows.
Settled(s) ==
    /\ \A c \in Comments : ~Saving(c, s)
    /\ s \notin awaiting /\ BlocksOf(s) = {}

\* When the writes and fetches of the open screen are answered, it shows the
\* local view: a comment saved through it, through an earlier screen of the
\* word that is closed by now, or before a restart, is not missing.
CommentsFresh ==
    open # NoScreen /\ Settled(open) /\ open \notin missed =>
        /\ view \subseteq drawn[open]
        /\ drawn[open] \ view \subseteq rejected

\* A comment that was saved is shown in the end, if the user stays, the
\* server takes it and no fetch is denied.
SavedCommentShown ==
    \A c \in Comments, s \in Screens :
        Saving(c, s) ~>
            c \in drawn[s] \/ open # s \/ c \in rejected \/ s \in missed
=============================================================================
