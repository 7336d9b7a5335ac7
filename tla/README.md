# BlindBoard in TLA+

BlindBoard is an iOS word list. A word is saved together with a picture found on
the web, opened to read it and its comments, and deleted. The list lives in
Cloud Firestore, the pictures in Cloud Storage, and one progress HUD tells the
user to wait. The program is small and sequential to read; what is hard about it
is what overlaps: requests with no time limit of their own, callbacks on several
queues, a user who keeps navigating, one HUD for all of them, and a process that
can die at any point.

This directory models that behaviour, model-checks it on small instances with TLC
and proves the main results for instances of any size with TLAPS. `PROJECT.json`
lists the runs, the mutants that show each property can fail, the source lines
behind every definition, the hazards and the theorems.

## 1. Inventory

| Component | State it keeps | Operations | Interacts through |
|---|---|---|---|
| `WordTableViewController` (the board) | `arr`, the rows | `viewDidLoad`, `viewWillAppear`, `updateData`, `fetchBoard`/`loadData`, `writing`, `didSelectRowAt`, `addContent`, `testStart` | is the delegate of the form; Firestore; image search; HUD |
| `AddWordViewController` (the form) | two text fields | `saveBoard`, swipe away | `delegate?.addContent`, HUD |
| `DetailViewController` | `board`, comments `arr` | `deleteWord`, `addComment`, `fetchComment`, `saveComment` | Firestore, Storage, HUD, navigation stack |
| `AddCommentViewController` | a text field | `saveComment` | delegate |
| `ImageService` | none | `imagesFetch`, `eraseWhiteSpace` | URLSession (its own serial queue) |
| `ImageUploader` | none | `imageUpload` | Cloud Storage (callbacks on the main queue) |
| `showLoader` / JGProgressHUD | one static HUD: target, transition flag, postponed dismissal | show, dismiss, end of a fade | every view controller |
| Firestore client, writes | mutation queue, remote document cache, write pipeline, write stream | `setData`, `delete`, results, rejections, reconnection, restart | worker queue, write stream, disk |
| Firestore client, reads | listeners, view, watched target, watch stream, online state | `getDocuments`, removal of a listener, watch messages, timers | main queue, worker queue, watch stream |
| `SceneDelegate`, `FirebaseConstant` | device id, collection | start-up | all of the above |
| Login, cells, headers, view models, layout | nothing that outlives a call | - | - |

What makes each part correct:

- *HUD*: it leaves the screen when it is told to and is never wedged in a fade.
- *Image search and upload*: a URL is delivered only for a stored picture.
- *Firestore client*: acknowledgements are invisible, a read is never bound to be
  stale, saved writes survive the process. For that, writes reach the server in order
  although streams break and answers name no batch, and every call of `getDocuments` is
  answered once, in order, with the documents of a moment after the call.
- *Board*: every word shown has a picture; deleted words do not come back and saved
  ones do not go; the list is current when nothing is outstanding; the HUD is gone
  when nothing is under way.

The hard behaviours, with their lines, are the `hazards` of `PROJECT.json`.

## 2. Modules

| Module | Models | Uses |
|---|---|---|
| `LoaderHUD` | the static JGProgressHUD and `showLoader` | - |
| `ImagePipeline` | `ImageService.imagesFetch`, `ImageUploader.imageUpload` | - |
| `DocumentStore` | what the Firestore client promises for one collection | - |
| `WritePipeline` | the mutation queue and the write stream | `DocumentStore`, which it implements |
| `QueryListening` | listeners, the watch stream, the online state | `DocumentStore`, which it implements |
| `WordBoard` | the board, the form, the deletion, navigation, a restart | the three above, by `INSTANCE` |
| `WordComments` | the comments of one word on its detail screens | - |
| `MCWordBoard` | `WordBoard` with the symmetry of its identities | `WordBoard` |
| `LoaderHUD_proofs`, `ImagePipeline_proofs`, `DocumentStore_proofs`, `WritePipeline_proofs`, `QueryListening_proofs`, `WordBoard_proofs`, `WordComments_proofs` | theorems | the module they are about |
| `Ranks` | lemmas on enumerating a finite set of numbers upwards, for two of the proof modules | - |

An operator marked *faulty form* is a plausible bug in the definition below it. No
specification uses it; `PROJECT.json` pairs each property with one, and with that form
in place of the definition TLC finds the property violated.

### LoaderHUD

`target`, `transitioning` and `dismissAfter` are JGProgressHUD's `_targetView`,
`_transitioning` and `_dismissAfterTransitionFinished`; `presenting` is kept by
the animation object. `target` is a *weak* reference, so `Target` is `NoView` as
soon as the view is not in `alive`. `anims` counts the fades whose completion has
not run. The Boolean that says whether a postponed dismissal is animated is not a
variable: the app always passes `true`, and the one moment in which it is not yet
written is the state `bg = "flagged"`.

`addContent` calls `showLoader(false)` from URLSession's queue when a search finds
no photo. The reads and writes of that call are separate steps (`BackgroundHide`,
`BackgroundPostpones`, `BackgroundDismisses`); each main-thread handler is one step
and falls between them. `OffMain` says whether such calls happen at all.
`BackgroundDismisses` takes three statements in one step: the last read of `targetView`,
`_transitioning = YES` and the start of the fade (`JGProgressHUD.m:530`, `550`, `553`). In
between, `_transitioning` is set and the completion that clears it is still to be
scheduled by the same call; `NotWedged` is about the state after it.

Interleavings that split a main-thread handler at each flag are not modelled. The
windows this closes are short, and what they lead to is reached in other ways: a
background call that reads `_transitioning` between two statements of
`cleanUpAfterPresentation` is in the state of one that read it before the fade began.

### ImagePipeline

One request per saved word. `stage` says how far it is, `queue` where its latest
step ran, `files` which pictures Cloud Storage has. Every `guard ... else { return }`
leads to `dropped`, because no completion is called; a search without photos leads
to `noPhoto` (the code recognises the empty image by `image == UIImage()`, which
the model takes to hold for two empty images). `PutFailed` may leave a stored
object behind.

### DocumentStore

`server` holds the server's documents, `muts` the writes under way, `saved` those of
them in the persistent queue, and the local view is the server's documents under
the writes. A read is the *set of views* it may be answered with: every view from
its call on. Reads are answered in order on the main queue. `OldestIn` keeps the
writes to one document in order. The real client sends all batches in order; the
model allows more. An error of one listener ends every listener of the query in the
real client; the model lets each fail for itself, which includes that. When a write is
rejected, a read may have seen any of the views since its call and only some of the
writes that are not saved yet, so that each of its views is also possible without the
rejected write (`Amended`). `refused` is
a history variable: since the last read was asked for, the server has refused it or
rejected a write.

`Write`, `Watching` and `GetDocuments` are parts of a step. A handler that writes
and fetches combines them, as in `WordBoard`; the module's own `Next` has a client
that does so in every order.

Pending writes are a set. The board can delete a word a second time, from an alert that
outlived its screen, while the first deletion is pending: the two are one element then,
and make one document disappear once. `WritePipeline` and `QueryListening` delete visible
documents only, so that this second deletion is `WordBoard`'s alone.

`WritePipeline` and `QueryListening` below are the client's own parts, and both are
checked to implement this module. What the board relies on is therefore translated
from the client's code twice: once as the promise, once as the mechanism.

### WritePipeline

One worker queue, one mutation queue in LevelDB, one write stream.

| Variable | Code |
|---|---|
| `tasks` | writes posted by `FirestoreClient::WriteMutations` |
| `queue`, `nextId` | `LevelDbMutationQueue`, its `next_batch_id_` |
| `cache` | the remote document cache (only which documents exist) |
| `callbacks`, `told` | `mutation_callbacks_`; the completions called so far |
| `pipeline` | `RemoteStore::write_pipeline_` |
| `stream`, `handshake`, `idle` | `Stream::state_`, the handshake, the idleness timer |
| `sent`, `results`, `denied`, `server`, `applied` | the wire and the server |

`FillWritePipeline` is the end of every handler that can make room or need a stream; it
fetches batches, sends them on a stream that is ready, starts the stream and sets or
cancels the idleness timer. An action is one operation of the worker queue.
`StreamBreaks` covers every end with a transient error and any error before the
handshake is complete (`HandleHandshakeError` only forgets the stream token then);
`WriteRejected` is the end with a permanent error. `IdleTimeout`, `RestartNetwork` (a
change of connectivity) and `Restart` (a killed process: pipeline, stream, callbacks
and posted tasks are gone, the queue and the cache are not) complete it.

Assumptions: the server serves a stream's requests in order and nothing of an old
stream once a new one is open; a write it has accepted once it accepts again, since it
is decided by rules on the same document; gRPC delivers the answers before the final
status. The server does not end a stream with status OK while writes are pending:
`OnWriteStreamClose` would stop the program. The app uses one user and never disables the
network. `ApplyBatchResult` applies an acknowledged batch unless the cached document is
newer than the acknowledgement (`local_store.cc:277`); with one writer it never is, and the
test is left out.

### QueryListening

`getDocuments` as the client does it: a task adds a listener (`AddQueryListener`), the
first listener of the query makes the client watch it, a snapshot or an error is posted
to the main queue (`main`), and `Deliver` is `ListenOnce::OnEvent` there. It completes the
call, mutes the listener and posts its removal, and until that removal gets through
further snapshots may be posted. `listens` numbers the listens of the query on the watch
stream: the code does not number them (each has the query's one target id), and
`pending` is what it has instead, the count of responses due. `marked` is the target's
`TargetState::current_` and `current` the view's `current_`, each as the number of the
listen whose CURRENT has set it, or 0.

The server's messages are handled as `HandleTargetChange` and `RaiseWatchSnapshot` do.
CURRENT sets `marked` if the target is active, that is listened to with no response due
(`TargetCurrent`). ADDED and REMOVED count down the responses due; REMOVED erases the
target's state when none is left, ADDED leaves `current_` as it is (`TargetResponse`). A
global snapshot hands `marked`, set or not, to the view of an active target
(`RaiseWatchSnapshot`). The server sends one after CURRENT, and may send others before it
(`ServerSnapshot`). Snapshots carry a resume token, so that the target has something to
report; one without a token, and one that directly follows another, changes nothing.

`online`, `failed` and `timer` are the `OnlineStateTracker`. `failed` stands for
`watch_stream_failures_`, because `kMaxWatchStreamFailures` is 1.

`Raise` is what every change of the view, of its sync state or of the online state does:
a listener that has had its first snapshot hears of every change, one that has not is
served when the view is in sync or the client is offline.

Assumptions: only this device writes the collection, so that documents on the watch
stream are those of the remote document cache already, and no document is in limbo (a
document is in limbo when the view is current and the server's target lacks it; the
server's target holds exactly what this device's acknowledged writes left). The rules'
verdict on reading the collection (`allowed`) does not change while the process lives.
The life of one process is modelled; a restart is in `WritePipeline` and `DocumentStore`.
Snapshots that differ only in their metadata (`has_pending_writes`) are not posted: they
go to listeners that have had their first snapshot, whose call they cannot complete again.

### WordBoard

`top` is the screen on top of the navigation stack, `sheet` what is presented over
it, `list` is `arr`, `deletions` the Storage deletions whose callback has not run.
One action per handler or callback:

| Action | Code |
|---|---|
| `UpdateData`, `BoardsLoaded`, `LoadFailed` | `updateData`, `fetchBoard`, `loadData` |
| `Writing`, `CancelForm`, `SaveEmpty`, `CloseNotice`, `SaveBoard` | `writing`, the form, `saveBoard` |
| `SelectRow`, `TestStart`, `Back` | `didSelectRowAt`, `testStart`, back and `viewWillAppear` |
| `PhotoFound`, `NoPhoto`, `RequestDropped`, `UploadProgress`, `WordAdded` | `addContent` and its two callbacks |
| `AddComment`, `CloseComment` | `addComment`, the comment sheet; what it saves is in `WordComments` |
| `DeleteWord`, `CancelDelete`, `ConfirmDelete` | `deleteWord` and its alert |
| `ObjectRemoved`, `DeleteSucceeded`, `DeleteFailed` | Cloud Storage and the delete callback |
| `StoreStep`, `WriteRejected`, `LoaderStep`, `Restart` | Firestore, the HUD, the process |

`Alive`, the set of views that strong references keep, is *derived*: the screen on
top, the presented one, and the detail screens held by a Storage callback. It is
substituted for LoaderHUD's variable `alive`.

`confirmed`, `reinstated` and `lapsed` are history: words whose deletion was
confirmed, words whose deletion was rejected, and whether some request has ended
without `showLoader(false)` on the main thread since that was last called. `faults`
counts what goes wrong outside the app and is bounded by `MaxFaults`.

Assumptions about code outside the repository:

- a page sheet can be swiped away, and the HUD, added to a view controller's view,
  does not cover the navigation bar: the user can leave while work goes on;
- a view whose alpha is being animated takes no touches, so buttons under the HUD
  work while it fades;
- `dismiss` on the board closes whatever is presented over the navigation
  controller; `popViewController` from a screen that has left the stack does
  nothing (its `navigationController` is nil);
- `URLSession.shared` runs callbacks one at a time; Storage callbacks run on the
  main queue;
- word ids and file names are UUIDs and do not repeat.

### WordComments

One word, its detail screens one after the other (`open` is the one on the stack), and
the sheet that adds a comment. A write belongs to the screen it was made through,
because the completion of `addDocument` fetches for that screen. `mainQueue` is the
main dispatch queue as far as Firestore and `fetchComment` use it: `saved` blocks are
completions of `addDocument`, `loaded` blocks are answers to a fetch with the snapshot
they carry, `reload` blocks are the deferred `reloadData`. A fetch holds its screen
weakly, a completion and a reload strongly (`Alive`).

Here the worker's queue is modelled too, because the order of writes, fetches and
snapshots matters: a call is a task until the worker comes to it (`RunTask`), a fetch then
waits for its snapshot (`AnswerFetch`), and the main queue takes that (`CommentsLoaded`).
Tasks, fetches and blocks are first in, first out. `DocumentStore` promises less about the
order, which is all the board needs.

`Restart` kills the process at any point. Tasks are lost, the mutation queue (`pending`) is
on disk and is sent by the next process, with no completion to run (its screen is
`NoScreen`).

`drawn` is what the table has: the `arr` of its last `reloadData`. Between two blocks of
the main queue the table may ask for any row of it.

## 3. Runs

| Run | Instance | Shows |
|---|---|---|
| `loader_main` | 4 views, main thread only | `OneFadeAtATime`, `DismissalTakesEffect` |
| `loader_off_main` | 2 views, a racing background dismissal, up to 3 fades before a new call | `TypeOK`, `NotWedged`, `FadesEnd` |
| `loader_lost_dismissal` | 1 view, racing dismissal | `DismissalTakesEffect` is *violated* |
| `upload_queue` | 1 request | `UploadsStartOnMain` is *violated* |
| `document_store` | 2 documents, 2 reads, crashes and rejections | `TypeOK`, `ReadsMayBeCurrent`, `AcknowledgementsAreInvisible`, `SavedWritesSurvive` |
| `write_pipeline` | 2 documents, 4 batch ids, a pipeline of 2, 2 faults, fair | `TypeOK`, `PipelineHeadsQueue`, `AnswersMatchPipeline`, `StreamWhileNeeded`, `ServerAgrees`, `OutcomesAreTrue`, `WritesSettle`, `ImplementsDocumentStore` |
| `query_listening` | 1 document, 2 calls, 3 writes, 1 fault, fair | `TypeOK`, `AnswersAreViews`, `RemovedTargetIsForgotten`, `LateCurrentIsIgnored`, `WaitsForSync`, `StreamWhileListened`, `ReadsEnd`, `ImplementsDocumentStore` |
| `listen_again` | 2 calls | `SyncIsOfThisListen` is *violated* |
| `board_overlap` | 2 words, 2 views, 1 deletion, 2 fetches, no faults | `TypeOK`, `ImageBacked`, `FreshWhenIdle`, `LoaderQuiesces` |
| `board_faults` | 1 word, 2 deletions, 3 fetches, 2 faults | `ImageBacked`, `FreshWhenIdle`, `NoResurrection`, `SavedWordStays` |
| `board_fair` | 1 word, 1 deletion, 1 fault, fair | `LoaderGoesAway` |
| `word_comments` | 2 comments, 2 screens, 3 calls or blocks before another opening, 1 restart, fair | `TypeOK`, `RowsExist`, `CommentsFresh`, `SavedCommentShown` |

Bounds. Two views are a form and a detail screen alive at once, the most the
navigation allows apart from detail screens held by callbacks; two words are two
requests competing for one HUD; `MaxReads` of at least 2 is the number of fetches a
start asks for; two faults are a failure and a failure of its repair (a rejected
write and a restart, a denied fetch and a lost deletion). In `write_pipeline` a pipeline
of 2 with up to 4 writes waiting overflows, and four batch ids reach the reuse of an id
after a restart. In `query_listening` two calls either share a listen or make two listens
on one stream with the first one's messages still under way; with three writes a document
is put, deleted and put again, or a write is rejected and made again. The theorems below do not
depend on any of these bounds. `MaxAnims` bounds how many fades are outstanding when
a caller starts another; only the off-main race gets above one.

Deadlock checking is off where the system may stop: an image request ends, and in
`WordBoard` words, faults and delete ids run out, as do the calls in the client's modules.

Symmetry (`Identities`) permutes words, views and delete ids and is used only in
the safety runs.

Fairness. `FinishAnimation` and `FinishOffMain`: UIKit runs every completion block
and a call once begun returns. `RequestStep`, `DeletionStep`: URLSession
and Cloud Storage bound their retries (`maxOperationRetryTime` and the request
time-out), so that every call is answered, with an error if need be. `BoardsLoaded`:
`getDocuments` falls back to the cache. Nothing is assumed of the user or of faults.
Only `SavedCommentShown` assumes that the server answers every write: off-line the
completion of `addDocument` does not run and the comment stays unseen on that screen,
as the code is written.

The two client runs assume that the worker and the main queue run what is posted to them,
that a stream that was started opens or ends with an error and a backoff elapses, and that
the server serves an open stream: requests are answered and CURRENT is sent, while nothing
is assumed of snapshots before it. `ReadsEnd` needs no more; in particular it does not
depend on the online timer. `WritesSettle` is under a bounded number of failures, after
which the connection stays up: off-line a write waits, as it should.

### Three disagreements with the libraries' documentation

- `addContent` dismisses the HUD off the main thread
  (`WordTableViewController.swift:129`), against JGProgressHUD's header. Run
  `loader_lost_dismissal` gives the schedule in which the dismissal is lost: the call
  reads `_transitioning`, the fade ends, and the postponed dismissal is written when
  nothing looks at it any more. `loader_off_main` shows that this is the worst of it:
  the HUD is never wedged.
- `imageUpload` starts the upload on URLSession's queue (`ImageUploader.swift:20`),
  against `StorageUploadTask`'s documentation (run `upload_queue`).
- A target that is removed and added again on one stream keeps its `current_`, although
  `remote_event.cc:156` says of the ADDED that any earlier state is reset, and
  `remote_event.h:158` that "current" is about the point at which the target was added.
  Run `listen_again`: the first call is answered and its unwatch sent, the second call
  watches again before the REMOVED arrives, so that REMOVED finds a response due and erases
  nothing (`remote_event.cc:168`), ADDED clears the pending changes only (`:86`), and a
  global snapshot before the new CURRENT makes the view current by the old one. The second
  call is answered early by it. While only this device writes, the answer is still a view
  of its time (`AnswersAreViews`, checked and proved with these snapshots); documents of
  another writer could be missing. The two ways in which the flag could be wrong in spite
  of the count of responses are excluded: `LateCurrentIsIgnored` and
  `RemovedTargetIsForgotten`.

### What the properties leave open

`LoaderQuiesces` and `LoaderGoesAway` exempt requests that end without
`showLoader(false)` on the main thread (`lapsed`): the early returns, the delete
callback with an error and the off-main dismissal do leave the HUD where it is, until the
next `showLoader(false)`. No property is about these cases.
`RowsExist` exempts rejected comments: when a comment that is on the screen is rejected,
`arr` does shrink before the table is reloaded.
`FreshWhenIdle` says nothing between a rejected write or a denied fetch and the next
fetch, since no handler reacts to either. Pictures without a word (an upload whose
URL is never delivered, a deletion whose file call fails) can stay in Cloud Storage;
the model has them and no property forbids them.

## 4. Proofs

Everything proved holds for any sets of words, views, delete ids and any bounds that
satisfy the modules' assumptions (`LoaderAssumption`, `BoardAssumption`,
`CommentsAssumption`, `PipelineAssumption`, `ListeningAssumption`): for the most part that
bounds are natural numbers and "none" is not an identity.

`LoaderHUD_proofs`: `TypeCorrect`, `NeverWedged`, `FadesRunOneAtATime`. The type invariant is split in flags, counters and views
because the provers treat them differently; `NotWedged` and `OneFadeAtATime` are
inductive together with it.

`WordBoard_proofs`: the invariant `Known` says where a word can be at all. Whatever
is in the store, in a fetch's answers, in the list, on a detail screen, in an alert or
among the confirmed deletions has an image request that was answered. With it,

- `WordsHaveImages`: `Backed` (a request that is linking or answered has its picture,
  unless its deletion was confirmed) is inductive, and with `Known` it gives
  `ImageBacked`. Without `Known` nothing would tie the list to the requests.
- `DeletedStaysDeleted` and `SavedWordsStay`: `ViewSteps` shows that only four kinds
  of step change the local view; what each does to it are the lemmas
  `ViewAfterSetData`, `ViewAfterDelete`, `ViewAfterReject` and `ViewAfterRestart`;
  `ViewAfterAcknowledge` needs the order of the writes. A late `setData` cannot bring
  a deleted word back because, by `Known`, a confirmed word's request is over.
- `BoardIsFresh`: `FreshWhenIdle` is not inductive, since the answer that makes the list
  current was fixed when the last fetch was asked for. `LastAnswerCurrent` says that every
  answer to the *last* fetch, or the list when no fetch is outstanding, shows the local
  view. It is kept by every handler that writes, because it also fetches, with one
  exception: an alert that outlived its detail screen deletes on the board without a
  fetch. `AlertsPlaced`, `DeletionsOwned` and `DeletionsDisposed` show that its word has
  already been deleted by then.
- `LoaderComesToRest` (`LoaderQuiesces`): `LoaderReleased` says that when no request and
  no deletion is under way and none has lapsed, the HUD covers nothing or the completion
  of a fade is outstanding that will find a fade out, or a postponed dismissal. It needs
  `NotWedged` (a postponed dismissal has a fade to wait for) and `Outlived`: a view that
  the HUD's weak reference has lost is never shown again, so that the HUD does not come
  back with it. No step of the background dismissal undoes it.
- `BoardTypeCorrect`, and two theorems on what the board guarantees to the modules it
  composes: `BoardNeverWedgesLoader`, and `WordsArePutOnce`, the condition under which
  `DocumentStore` (`ClientPuts`) and the client's modules below it speak of `setData`.

`WordComments_proofs`: `TypeCorrect`, and `RowsAlwaysExist` by the invariant `Ordered`:
what is drawn, `arr`, the snapshots in the main queue (oldest first) and the local view
contain each other in this order, rejected comments aside. `RowsExist` alone says
nothing of the next snapshot to arrive. `SettledScreensAreFresh` (`CommentsFresh`) adds
three parts. `WritesBeforeListen`: a comment of another screen that the worker has not come
to has a fetch of the open screen behind it. `LastAnswerFresh`: when nothing but blocks of
the main queue is left, the last of the snapshots, or `arr` if there is none, lacks no
comment. `Drawn`: the table has `arr` unless a reload is to come.

`ImagePipeline_proofs`: `AnswersHaveFiles`, by the stages in which the file is there. On the
board the same is part of `ImageBacked`.

`DocumentStore_proofs`: `TypeCorrect`, `AcknowledgementsUnseen`,
`ReadsAreNeverBoundToBeStale`, `SavedWritesTakeEffect`. Each rests on what a step does to
the local view; an acknowledgement leaves it alone because a document's `setData` goes
before its `delete`.

`WritePipeline_proofs`: `TypeCorrect`, `PipelineIsFrontOfQueue`, `AnswersAreForTheFront`,
`StreamServesWrites`, `CompletionsAreTrue`, `NoDifferenceIsLeft`, and
`PipelineImplementsStore`, the refinement.
The server's answers name no batch, so everything depends on the pipeline being the front of
the mutation queue in the order of batch ids. The proof says what a front is by the rank of
an id (how many ids of the queue are below it) and shows that filling up a front is the same
as filling an empty pipeline (`FrontFilled`), which is what the code does one batch at a
time. The invariant adds that batch ids are below the next one (`BatchIds`), what of the
pipeline is on the wire and was applied (`Answers`, `Answered`), and when the stream is
started, idle or waiting (`StreamOK`). The refinement also needs that a document's writes
are in order (`Order`). `NoDifferenceIsLeft` (`ServerAgrees`) follows from `Agree`: the
server and the cache differ only in documents of writes that were applied and are not
answered yet, and for each document the last answer on its way says how it ends there.

`QueryListening_proofs`: `StreamServesListeners`, `NobodyWaitsInVain`,
`LateCurrentsMarkNothing`, `RemovedTargetsAreForgotten`, `AnswersShowViews`,
`ListeningImplementsStore` and `ListeningTypeCorrect`. The first needs that the idleness
timer runs on an open stream only and that a failed stream is a started one of a client that
is offline (`StreamInv`). The third is the subtle one: all listens of the query share a
target id, and only the count of outstanding responses tells a late CURRENT from the present
one. `SyncInv` says that the count is that of requests and responses on the wire
(`Counted`), that the last request is about the present listen or ends one
(`LastRequest`), and that an ADDED or a CURRENT of another listen, sent or owed, has a
request or a response behind it (`Late`), so that the count is not zero when it arrives.
ADDED is there for `RemovedTargetIsForgotten`, the fourth, which is part of the invariant:
an ADDED never brings the count to zero when nobody listens, so that the last response is a
REMOVED, which erases the mark. For a device that may not read there is no CURRENT at all
(`Refused`). The count is a cardinality, which is why it takes lemmas on appending to and
taking from the wire.

The answers need two more invariants. `CallsInv` follows a call on its way from the task
that adds its listener over the listener and the posts on the main queue to its completion:
calls never overtake each other (`AnsweredInOrder`, `Listening`, `Asking`), the first post
for an open call comes behind one for the call before it, and an error is a call's last post
(`Posting`), and no call is lost (`Covering`). A listener is told of several snapshots
before its removal gets through, and a listener added late joins those that have had
theirs, so none of these parts is inductive alone. `ViewsInv` says what the worker sees:
`Seen(j)`, the documents under the saved writes and those of its first j tasks, is, from
the call's own task on, one of the views the call may be answered with (`Viewed`), and so is
each snapshot posted for it (`Snapshots`). That acknowledged and rejected writes keep this
true rests on the order of the writes to a document (`WriteOrder`). `AnswersAreViews` is
then immediate, and every step is a step of `DocumentStore` or leaves it alone:
`Deliver` of an open call's post answers the *oldest* read, which is what `Posting` is for.
`ListeningTypeCorrect` adds that there are no more listens than calls (`ListensOK`), and
takes from `SyncInv` that the count of responses due is not negative.

`Ranks` has what both client modules need about "the number of rank k" of a finite set:
it is there, it is unique, and it grows with k.

Every invariant, action property and refinement of the passing runs is proved. Only
model-checked are the liveness properties (`DismissalTakesEffect`, `FadesEnd`,
`LoaderGoesAway`, `SavedCommentShown`, `WritesSettle`, `ReadsEnd`): the
prover handles neither fairness nor `ENABLED`.

## 5. Not modelled, and the plan

Not modelled:

- login (never presented), cells, headers, view models and layout (no state), the
  picture's bytes and the documents' fields (values the app wrote itself, read back
  one by one);
- other devices writing the same collection: it is named after the device. With them go
  document changes on the watch stream, existence filters and limbo resolution;
- the order of rows. Words of one second are ordered by their random ids
  (`Query::Comparator`), the same in every answer;
- a comment sheet over a word that is being deleted. The comment is then written below a
  deleted document; `deleteWord` leaves a word's comments behind in any case, and no
  screen can show them because ids do not repeat;
- Firestore's garbage collection, bundles, indexes, transactions and snapshot listeners,
  which the app does not use, and the code of gRPC, LevelDB, SDWebImage and the other
  vendored libraries. They make up nearly all of the repository's lines and are used
  through the calls above or not at all.

Two things the client's code does that the models do not settle: a call of `getDocuments`
made while the watch stream is starting or backing off without a listener has no
ten-second limit (`RemoteStore::StopListening` cancels the online timer and
`RemoteStore::Listen` does not start it again), and `ProcessTargetError` applies an error
without looking at the pending responses, which matters only if the rules change between two
listens.

Planned, in this order:

1. Proofs of what the liveness properties rest on, as invariants: while a call or a write
   is open, which of the fair actions can take place next.
2. A comment sheet that outlives its detail screen, in `WordComments`.
