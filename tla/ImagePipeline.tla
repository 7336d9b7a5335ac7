---------------------------- MODULE ImagePipeline ----------------------------
(***************************************************************************)
(* From a word to a stored picture: ImageService.imagesFetch searches a    *)
(* photo and downloads it, ImageUploader.imageUpload puts it in Cloud      *)
(* Storage under a fresh file name and asks for its URL.                   *)
(*                                                                         *)
(* There is one request per saved word, and the stored file carries the    *)
(* identity of its request.  Both functions answer through a completion    *)
(* closure and both return early, without calling it, on most errors:      *)
(* such a request ends "dropped".  A request "answered" delivered its      *)
(* URL; "noPhoto" delivered the empty image.                               *)
(*                                                                         *)
(* `queue' records on which queue the latest step of a request ran: the    *)
(* URLSession callbacks run on the session's serial queue, everything of   *)
(* Firebase Storage on the main queue.                                     *)
(***************************************************************************)

CONSTANT Requests

VARIABLES
    stage,      \* how far each request is
    queue,      \* the queue of its latest step
    files       \* requests whose picture is in Cloud Storage

pipelineVars == <<stage, queue, files>>

InFlight == {"searching", "uploading", "linking"}
Ended == {"answered", "noPhoto", "dropped"}
Stages == {"idle"} \cup InFlight \cup Ended
Queues == {"main", "session"}

\* Request r moves from stage s to stage t in a step run on queue q.
Move(r, s, t, q) ==
    /\ stage[r] = s
    /\ stage' = [stage EXCEPT ![r] = t]
    /\ queue' = [queue EXCEPT ![r] = q]

-----------------------------------------------------------------------------
(* ImageService.imagesFetch                                                *)

\* No URL can be made of the text: an early return in the caller.
BadUrl(r) ==
    /\ Move(r, "idle", "dropped", "main")
    /\ UNCHANGED files

\* The search is under way.
ImagesFetch(r) ==
    /\ Move(r, "idle", "searching", "main")
    /\ UNCHANGED files

\* The search or the download fails, or the picture cannot be decoded or
\* encoded again.
SearchDropped(r) ==
    /\ Move(r, "searching", "dropped", "session")
    /\ UNCHANGED files

\* The search succeeds and finds nothing: completion(UIImage()).
NoPhoto(r) ==
    /\ Move(r, "searching", "noPhoto", "session")
    /\ UNCHANGED files

\* completion(image): imageUpload starts the upload in the same callback.
PhotoFound(r) ==
    /\ Move(r, "searching", "uploading", "session")
    /\ UNCHANGED files

-----------------------------------------------------------------------------
(* ImageUploader.imageUpload                                               *)

\* The server has all the bytes.
StoreObject(r) ==
    /\ stage[r] = "uploading" /\ r \notin files
    /\ files' = files \cup {r}
    /\ UNCHANGED <<stage, queue>>

\* putData's completion without an error: the URL is asked for.
PutDone(r) ==
    /\ r \in files
    /\ Move(r, "uploading", "linking", "main")
    /\ UNCHANGED files

\* putData's completion with an error.  The object may have been stored.
PutFailed(r) ==
    /\ Move(r, "uploading", "dropped", "main")
    /\ UNCHANGED files

\* downloadURL answers: completion([imageUrl, fileName]).
UrlReady(r) ==
    /\ r \in files
    /\ Move(r, "linking", "answered", "main")
    /\ UNCHANGED files

UrlFailed(r) ==
    /\ Move(r, "linking", "dropped", "main")
    /\ UNCHANGED files

-----------------------------------------------------------------------------

\* The app is killed: every request under way is gone with it.
Killed ==
    /\ stage' = [r \in Requests |-> IF stage[r] \in InFlight THEN "dropped"
                                                             ELSE stage[r]]
    /\ UNCHANGED <<queue, files>>

Init ==
    /\ stage = [r \in Requests |-> "idle"]
    /\ queue = [r \in Requests |-> "main"]
    /\ files = {}

Callback(r) ==
    \/ SearchDropped(r) \/ NoPhoto(r) \/ PhotoFound(r)
    \/ PutDone(r) \/ PutFailed(r)
    \/ UrlReady(r) \/ UrlFailed(r)

Next ==
    \E r \in Requests :
        ImagesFetch(r) \/ BadUrl(r) \/ StoreObject(r) \/ Callback(r)

Spec == Init /\ [][Next]_pipelineVars

-----------------------------------------------------------------------------

TypeOK ==
    /\ stage \in [Requests -> Stages]
    /\ queue \in [Requests -> Queues]
    /\ files \subseteq Requests

\* A URL is only ever delivered for a picture that is in Cloud Storage, and a
\* picture is only stored for a request whose search found one.
AnswerHasFile ==
    \A r \in Requests :
        /\ stage[r] \in {"linking", "answered"} => r \in files
        /\ r \in files => stage[r] \in {"uploading", "linking", "answered", "dropped"}

\* Every upload is begun on the main queue, as Firebase Storage asks.
UploadsStartOnMain ==
    \A r \in Requests : stage[r] = "uploading" => queue[r] = "main"
=============================================================================
