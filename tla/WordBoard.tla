------------------------------ MODULE WordBoard ------------------------------
(***************************************************************************)
(* The word board: the list of words, the form that adds one, the detail   *)
(* screen that deletes one, and the services they share.                   *)
(*                                                                         *)
(* This module composes LoaderHUD (the one static HUD), ImagePipeline      *)
(* (search, upload, link) and DocumentStore (the board's collection) with  *)
(* the view controllers.  A word is its identity (word.uid); its picture   *)
(* and its image request carry the same one.  A handler that runs on the   *)
(* main thread is one step, all the calls it makes included.               *)
(*                                                                         *)
(* The user moves freely: a page sheet can be swiped away and the          *)
(* navigation bar is never covered by the HUD, so work goes on while       *)
(* other screens are opened.                                               *)
(***************************************************************************)
EXTENDS Naturals, Sequences

CONSTANTS
    Words, NoWord,
    Views, NoView,
    DeleteIds,      \* bound: Storage deletions in flight
    MaxReads,       \* bound: fetches in flight
    MaxFaults       \* bound: failures of the network, the servers, the process

ASSUME BoardAssumption ==
    /\ NoWord \notin Words
    /\ NoView \notin Views
    /\ MaxReads \in Nat /\ MaxReads >= 2
    /\ MaxFaults \in Nat

VARIABLES
    \* the user interface
    top,            \* the screen on top of the navigation stack
    sheet,          \* what is presented over it
    list,           \* WordTableViewController.arr
    deletions,      \* Storage deletions whose callback has not run
    \* Cloud Storage and the image requests
    stage, queue, files,
    \* Firestore
    server, muts, saved, reads, refused,
    \* the HUD
    target, transitioning, presenting, dismissAfter, anims, bg,
    \* history, and the failures so far
    confirmed,      \* words the user has confirmed the deletion of
    reinstated,     \* words whose deletion the server has rejected
    lapsed,         \* some request has ended without showLoader(false) on the
                    \* main thread since that was last called
    faults

uiVars       == <<top, sheet, list, deletions>>
pipelineVars == <<stage, queue, files>>
storeVars    == <<server, muts, saved, reads, refused>>
hudVars      == <<target, transitioning, presenting, dismissAfter, anims, bg>>
historyVars  == <<confirmed, reinstated, lapsed, faults>>
vars == <<uiVars, pipelineVars, storeVars, hudVars, historyVars>>

-----------------------------------------------------------------------------
(* The screens.                                                            *)

Screen(s, v, w) == [screen |-> s, view |-> v, word |-> w]

Board     == Screen("board", NoView, NoWord)
TestPage  == Screen("test", NoView, NoWord)
NoSheet   == Screen("none", NoView, NoWord)

Detail(v, w) == Screen("detail", v, w)
Form(v)      == Screen("form", v, NoWord)
Notice(v)    == Screen("notice", v, NoWord)     \* "No content!" over the form
Alert(v, w)  == Screen("alert", v, w)           \* asks to confirm a deletion
CommentSheet(v, w) == Screen("comment", v, w)

\* A detail screen outlives its place on the stack: its alert's handler and
\* its Storage callback hold it.
Alive == ({top.view, sheet.view} \cup {d.view : d \in deletions}) \ {NoView}

HUD      == INSTANCE LoaderHUD WITH alive <- Alive, OffMain <- TRUE, MaxAnims <- 1
Pipeline == INSTANCE ImagePipeline WITH Requests <- Words
Store    == INSTANCE DocumentStore WITH Docs <- Words

view == Store!view

\* The identity of a view just loaded.
Fresh(v) == v \in Views /\ v \notin Alive /\ v # target

\* The user can act on the screen on top, and on the presented one.
OnTop(s)     == top.screen = s /\ sheet = NoSheet
Presented(s) == sheet.screen = s

\* Something outside the app's control goes wrong.
Fault == faults < MaxFaults /\ faults' = faults + 1

-----------------------------------------------------------------------------
(* WordTableViewController and AddWordViewController.                      *)

\* fetchBoard(), asked for by a handler that makes no write.
FetchBoard == Store!NoWrite /\ Store!GetDocuments

\* The pull-to-refresh control: updateData.
UpdateData ==
    /\ OnTop("board")
    /\ FetchBoard
    /\ UNCHANGED <<uiVars, pipelineVars, hudVars, historyVars>>

\* getDocuments answers: arr is replaced and the table reloaded.
BoardsLoaded(s) ==
    /\ Store!Answer(s)
    /\ list' = s
    /\ UNCHANGED <<top, sheet, deletions, pipelineVars, hudVars, historyVars>>

\* getDocuments fails: loadData returns before its completion.
LoadFailed ==
    /\ Fault
    /\ Store!Deny
    /\ UNCHANGED <<uiVars, pipelineVars, hudVars, confirmed, reinstated, lapsed>>

\* The + button: writing.
Writing(v) ==
    /\ OnTop("board") /\ Fresh(v)
    /\ sheet' = Form(v)
    /\ UNCHANGED <<top, list, deletions, pipelineVars, storeVars, hudVars, historyVars>>

\* The form is swiped away.
CancelForm ==
    /\ Presented("form")
    /\ sheet' = NoSheet
    /\ UNCHANGED <<top, list, deletions, pipelineVars, storeVars, hudVars, historyVars>>

\* saveBoard with an empty field.
SaveEmpty ==
    /\ Presented("form") /\ ~HUD!Covers(sheet.view)
    /\ sheet' = Notice(sheet.view)
    /\ UNCHANGED <<top, list, deletions, pipelineVars, storeVars, hudVars, historyVars>>

CloseNotice ==
    /\ Presented("notice")
    /\ sheet' = Form(sheet.view)
    /\ UNCHANGED <<top, list, deletions, pipelineVars, storeVars, hudVars, historyVars>>

\* saveBoard with both fields filled: showLoader(true), then addContent.
SaveBoard(w) ==
    /\ Presented("form") /\ ~HUD!Covers(sheet.view)
    /\ HUD!ShowLoader(sheet.view)
    /\ \/ Pipeline!ImagesFetch(w) /\ UNCHANGED <<lapsed, faults>>
       \/ Pipeline!BadUrl(w) /\ Fault /\ lapsed' = TRUE
    /\ UNCHANGED <<uiVars, storeVars, confirmed, reinstated>>

\* A row is selected: a detail screen is pushed.
SelectRow(v, w) ==
    /\ OnTop("board") /\ Fresh(v)
    /\ w \in list
    /\ top' = Detail(v, w)
    /\ UNCHANGED <<sheet, list, deletions, pipelineVars, storeVars, hudVars, historyVars>>

TestStart ==
    /\ OnTop("board")
    /\ top' = TestPage
    /\ UNCHANGED <<sheet, list, deletions, pipelineVars, storeVars, hudVars, historyVars>>

\* The screen on top is left and the board's viewWillAppear fetches.
ReturnToBoard == top' = Board /\ FetchBoard

\* Faulty form, for a mutant: viewWillAppear without its fetch.
BackWithoutFetch ==
    /\ top # Board /\ sheet = NoSheet
    /\ top' = Board
    /\ UNCHANGED <<sheet, list, deletions, pipelineVars, storeVars, hudVars, historyVars>>

\* The back button: the navigation bar stays in reach under the HUD.
Back ==
    /\ top # Board /\ sheet = NoSheet
    /\ ReturnToBoard
    /\ UNCHANGED <<sheet, list, deletions, pipelineVars, hudVars, historyVars>>

-----------------------------------------------------------------------------
(* addContent: the callbacks of the search and of the upload.              *)

\* A callback on the session's serial queue runs when the one before it,
\* a dismissal of the HUD included, has returned.
SessionQueueFree == bg = "idle"

PhotoFound(w) ==
    /\ SessionQueueFree
    /\ Pipeline!PhotoFound(w)
    /\ UNCHANGED <<uiVars, storeVars, hudVars, historyVars>>

\* The empty image: showLoader(false), on the session's queue.
NoPhoto(w) ==
    /\ SessionQueueFree
    /\ Pipeline!NoPhoto(w)
    /\ HUD!BackgroundHide
    /\ lapsed' = TRUE
    /\ UNCHANGED <<uiVars, storeVars, confirmed, reinstated, faults>>

\* An early return of imagesFetch or imageUpload.
RequestDropped(w) ==
    /\ \/ SessionQueueFree /\ Pipeline!SearchDropped(w)
       \/ Pipeline!PutFailed(w)
       \/ Pipeline!UrlFailed(w)
    /\ Fault
    /\ lapsed' = TRUE
    /\ UNCHANGED <<uiVars, storeVars, hudVars, confirmed, reinstated>>

UploadProgress(w) ==
    /\ Pipeline!StoreObject(w) \/ Pipeline!PutDone(w)
    /\ UNCHANGED <<uiVars, storeVars, hudVars, historyVars>>

\* Faulty form, for a mutant: setData after a failed upload too.
WordAddedOnFailure(w) ==
    /\ Pipeline!UrlReady(w) \/ Pipeline!PutFailed(w)
    /\ Store!SetData(w) /\ Store!GetDocuments
    /\ sheet' = NoSheet
    /\ HUD!HideLoader
    /\ lapsed' = FALSE
    /\ UNCHANGED <<top, list, deletions, confirmed, reinstated, faults>>

\* Faulty form, for a mutant: no fetch after setData.
WordAddedWithoutFetch(w) ==
    /\ Pipeline!UrlReady(w)
    /\ Store!SetData(w) /\ Store!Watching /\ UNCHANGED refused
    /\ sheet' = NoSheet
    /\ HUD!HideLoader
    /\ lapsed' = FALSE
    /\ UNCHANGED <<top, list, deletions, confirmed, reinstated, faults>>

\* The upload's URL: setData, dismiss, fetchBoard, showLoader(false).  The
\* dismiss closes whatever is presented, be it the form that saved this word,
\* another form, a comment sheet or an alert.
WordAdded(w) ==
    /\ Pipeline!UrlReady(w)
    /\ Store!SetData(w) /\ Store!GetDocuments
    /\ sheet' = NoSheet
    /\ HUD!HideLoader
    /\ lapsed' = FALSE
    /\ UNCHANGED <<top, list, deletions, confirmed, reinstated, faults>>

-----------------------------------------------------------------------------
(* DetailViewController: the comment sheet, and deleteWord.                *)

\* The comment button, which the HUD covers.
AddComment ==
    /\ OnTop("detail") /\ ~HUD!Covers(top.view)
    /\ sheet' = CommentSheet(top.view, top.word)
    /\ UNCHANGED <<top, list, deletions, pipelineVars, storeVars, hudVars, historyVars>>

\* The comment is saved, which is the subject of WordComments, or the sheet is
\* swiped away.
CloseComment ==
    /\ Presented("comment")
    /\ sheet' = NoSheet
    /\ UNCHANGED <<top, list, deletions, pipelineVars, storeVars, hudVars, historyVars>>

\* The trash button of the navigation bar.
DeleteWord ==
    /\ OnTop("detail")
    /\ sheet' = Alert(top.view, top.word)
    /\ UNCHANGED <<top, list, deletions, pipelineVars, storeVars, hudVars, historyVars>>

CancelDelete ==
    /\ Presented("alert")
    /\ sheet' = NoSheet
    /\ UNCHANGED <<top, list, deletions, pipelineVars, storeVars, hudVars, historyVars>>

Deletion(n, v, w, r) == [id |-> n, view |-> v, word |-> w, removed |-> r]

\* Confirmed: showLoader(true), the document's delete(), the file's delete.
ConfirmDelete(n) ==
    /\ Presented("alert")
    /\ \A d \in deletions : d.id # n
    /\ HUD!ShowLoader(sheet.view)
    /\ Store!Delete(sheet.word) /\ Store!Watching
    /\ deletions' = deletions \cup {Deletion(n, sheet.view, sheet.word, FALSE)}
    /\ confirmed' = confirmed \cup {sheet.word}
    /\ sheet' = NoSheet
    /\ UNCHANGED <<top, list, pipelineVars, refused, reinstated, lapsed, faults>>

\* Cloud Storage removes the file.
ObjectRemoved(d) ==
    /\ ~d.removed /\ d.word \in files
    /\ files' = files \ {d.word}
    /\ deletions' = (deletions \ {d}) \cup {Deletion(d.id, d.view, d.word, TRUE)}
    /\ UNCHANGED <<top, sheet, list, stage, queue, storeVars, hudVars, historyVars>>

\* Faulty form, for a mutant: the loader is left on the screen.
DeleteSucceededWithoutHide(d) ==
    /\ d.removed
    /\ deletions' = deletions \ {d}
    /\ \/ top.view = d.view /\ ReturnToBoard
       \/ top.view # d.view /\ UNCHANGED <<top, storeVars>>
    /\ lapsed' = FALSE
    /\ UNCHANGED <<sheet, list, pipelineVars, hudVars, confirmed, reinstated, faults>>

\* The callback without an error: showLoader(false), and the pop, which does
\* nothing for a screen that has left the stack.
DeleteSucceeded(d) ==
    /\ d.removed
    /\ HUD!HideLoader
    /\ deletions' = deletions \ {d}
    /\ \/ top.view = d.view /\ ReturnToBoard
       \/ top.view # d.view /\ UNCHANGED <<top, storeVars>>
    /\ lapsed' = FALSE
    /\ UNCHANGED <<sheet, list, pipelineVars, confirmed, reinstated, faults>>

\* The callback with an error, which is only printed: another deletion has
\* taken the file, or the call fails or its answer is lost.
DeleteFailed(d) ==
    /\ \/ ~d.removed /\ d.word \notin files /\ UNCHANGED faults
       \/ Fault
    /\ deletions' = deletions \ {d}
    /\ lapsed' = TRUE
    /\ UNCHANGED <<top, sheet, list, pipelineVars, storeVars, hudVars,
                   confirmed, reinstated>>

-----------------------------------------------------------------------------
(* Firestore, the HUD and the process on their own.                        *)

StoreStep ==
    /\ \E m \in Store!Writes : Store!Persist(m) \/ Store!Acknowledge(m)
    /\ UNCHANGED <<uiVars, pipelineVars, hudVars, historyVars>>

WriteRejected(m) ==
    /\ Fault
    /\ Store!Reject(m)
    /\ reinstated' = reinstated \cup (IF m[1] = "del" THEN {m[2]} ELSE {})
    /\ UNCHANGED <<uiVars, pipelineVars, hudVars, confirmed, lapsed>>

LoaderStep ==
    /\ HUD!AnimationFinished \/ HUD!BackgroundStep
    /\ UNCHANGED <<uiVars, pipelineVars, storeVars, historyVars>>

\* The process is killed and started again.  viewDidLoad and viewWillAppear
\* each fetch the board.
Restart ==
    /\ Fault
    /\ top' = Board /\ sheet' = NoSheet /\ list' = {} /\ deletions' = {}
    /\ HUD!HudRelaunched
    /\ Pipeline!Killed
    /\ Store!Recover
    /\ reads' = <<{view'}, {view'}>>
    /\ refused' = FALSE
    /\ lapsed' = FALSE
    /\ UNCHANGED <<confirmed, reinstated>>

Init ==
    /\ top = Board /\ sheet = NoSheet /\ list = {} /\ deletions = {}
    /\ HUD!HudInit
    /\ Pipeline!Init
    /\ server = {} /\ muts = {} /\ saved = {}
    /\ reads = <<{{}}, {{}}>>
    /\ refused = FALSE
    /\ confirmed = {} /\ reinstated = {} /\ lapsed = FALSE
    /\ faults = 0

UserStep ==
    \/ UpdateData \/ TestStart \/ Back
    \/ CancelForm \/ SaveEmpty \/ CloseNotice
    \/ AddComment \/ CloseComment
    \/ DeleteWord \/ CancelDelete
    \/ \E v \in Views : Writing(v)
    \/ \E w \in Words : SaveBoard(w)
    \/ \E v \in Views, w \in Words : SelectRow(v, w)
    \/ \E n \in DeleteIds : ConfirmDelete(n)

RequestStep(w) ==
    \/ PhotoFound(w) \/ NoPhoto(w) \/ RequestDropped(w)
    \/ UploadProgress(w) \/ WordAdded(w)

DeletionStep(d) == ObjectRemoved(d) \/ DeleteSucceeded(d) \/ DeleteFailed(d)

Next ==
    \/ UserStep
    \/ \E s \in SUBSET Words : BoardsLoaded(s)
    \/ LoadFailed
    \/ \E w \in Words : RequestStep(w)
    \/ \E d \in deletions : DeletionStep(d)
    \/ StoreStep
    \/ \E m \in Store!Writes : WriteRejected(m)
    \/ LoaderStep
    \/ Restart

Spec == Init /\ [][Next]_vars

\* Every fetch, image request and Storage deletion is answered in the end, by
\* its time-out if by nothing else, and the main queue runs every block.
Fairness ==
    /\ WF_vars(\E s \in SUBSET Words : BoardsLoaded(s))
    /\ \A w \in Words : WF_vars(RequestStep(w))
    /\ \A n \in DeleteIds : WF_vars(\E d \in deletions : d.id = n /\ DeletionStep(d))
    /\ WF_vars(LoaderStep)

FairSpec == Spec /\ Fairness

-----------------------------------------------------------------------------
(* Properties.                                                             *)

Tops   == {Board, TestPage} \cup {Detail(v, w) : v \in Views, w \in Words}
Sheets == {NoSheet} \cup {Form(v) : v \in Views} \cup {Notice(v) : v \in Views}
                    \cup {Alert(v, w) : v \in Views, w \in Words}
                    \cup {CommentSheet(v, w) : v \in Views, w \in Words}

TypeOK ==
    /\ top \in Tops
    /\ sheet \in Sheets
    /\ list \subseteq Words
    /\ deletions \subseteq [id : DeleteIds, view : Views, word : Words, removed : BOOLEAN]
    /\ Pipeline!TypeOK
    /\ Store!TypeOK
    /\ HUD!HudTypeOK
    /\ confirmed \subseteq Words /\ reinstated \subseteq Words
    /\ lapsed \in BOOLEAN
    /\ faults \in Nat

\* Every word in the local view or on the screen has its picture in Cloud
\* Storage, unless the user has confirmed its deletion: setData waits for
\* the upload, and no deletion takes the picture of another word.
ImageBacked == \A w \in (view \cup list) \ confirmed : w \in files

\* Write m has just been rejected, or lost with the process.
LostWrite(m) == m \in muts /\ m \notin muts' /\ faults' # faults

\* A deleted word comes back only if its own deletion is rejected, or was not
\* saved before the process was killed: no late addContent, no overlapping
\* fetch and no acknowledgement revives it.
NoResurrection ==
    [][\A w \in confirmed : w \in view' \ view => LostWrite(<<"del", w>>)]_vars

\* A saved word leaves the local view only by a confirmed deletion, or when
\* its own setData is rejected or lost with the process.
SavedWordStays ==
    [][\A w \in view \ view' : w \in confirmed' \/ LostWrite(<<"put", w>>)]_vars

\* When the board is on top and every fetch is answered, the list is the
\* local view: each handler that writes also fetches, and a late answer does
\* not bring back older rows.  Only a row whose deletion was once rejected
\* may be left over, and nothing is said while the server refuses requests.
FreshWhenIdle ==
    top = Board /\ reads = <<>> /\ ~refused =>
        view \subseteq list /\ list \ view \subseteq reinstated

\* Nothing is on its way that would call showLoader.
NothingInFlight ==
    /\ \A w \in Words : stage[w] \notin Pipeline!InFlight
    /\ deletions = {} /\ anims = 0 /\ bg = "idle"

\* Whatever overlaps, the shared HUD is gone when all work has ended, unless
\* some request ended without calling showLoader(false) on the main thread
\* after the last such call.
LoaderQuiesces == NothingInFlight /\ ~lapsed => HUD!Target = NoView

\* The HUD does not stay on a screen for ever: it is hidden or its screen is
\* closed, unless a request ends without showLoader(false) on the main thread.
LoaderGoesAway ==
    \A v \in Views : HUD!Target = v ~> HUD!Target # v \/ lapsed
=============================================================================
