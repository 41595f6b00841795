------------------------------- MODULE Media --------------------------------
(***************************************************************************)
(* One uploaded file from the first part to the last variant               *)
(* (backend/internal/media, backend/internal/worker/media.go, the job      *)
(* queue of backend/internal/bus): a multipart upload driven by requests   *)
(* that may overlap, expire or stop half way, a job that may be lost or    *)
(* delivered to two workers, a malware scanner that may not answer.        *)
(*                                                                         *)
(* Bytes are abstracted to what the code asks of them: whether the content *)
(* is what was declared and what the scanner finds.  Every call to storage *)
(* and every statement is a step of its own.                               *)
(***************************************************************************)
EXTENDS Naturals, FiniteSets

CONSTANTS
    TotalParts,          \* parts of the upload
    Uploaders,           \* requests in flight at the same time
    MediaWorkers,        \* deliveries under way at the same time
    MaxDeliver           \* deliveries of one job

VARIABLES
    mdRow,      \* media: process_status, scan_status, finalized, deleted_at; kind of file
    mdSess,     \* media_upload_sessions: status, and whether expires_at has passed
    mdParts,    \* media_chunks: the part numbers recorded
    mdStore,    \* storage: the multipart upload, the object, the variants
    mdQueue,    \* jobs in the stream: id -> deliveries so far
    mdReq,      \* upload request -> where it stands
    mdWork,     \* worker -> where its delivery stands
    mdTruth     \* what the bytes are, and how the scanner is configured; never changes

mdVars == <<mdRow, mdSess, mdParts, mdStore, mdQueue, mdReq, mdWork, mdTruth>>

Jobs == {"first", "retry"}
NoWork == [at |-> "idle", job |-> "first"]
In(h, at) == mdReq[h] = at
Goto(h, at) == mdReq' = [mdReq EXCEPT ![h] = at]
At(w, at) == mdWork[w].at = at
Step(w, at) == mdWork' = [mdWork EXCEPT ![w].at = at]

\* CLAMAV_ADDR and VIRUS_SCAN_REQUIRED
Scanning == mdTruth.scanning

Init ==
    /\ mdRow = [kind |-> "none", process |-> "pending", scan |-> "pending", final |-> FALSE, deleted |-> FALSE]
    /\ mdSess = [status |-> "none", lapsed |-> FALSE]
    /\ mdParts = {}
    /\ mdStore = [upload |-> "none", object |-> FALSE, variants |-> {}]
    /\ mdQueue = [j \in Jobs |-> 0]
    /\ mdReq = [h \in Uploaders |-> "idle"]
    /\ mdWork = [w \in MediaWorkers |-> NoWork]
    /\ mdTruth \in [honest : BOOLEAN, infected : BOOLEAN, scanning : {"off", "optional", "required"}]

-----------------------------------------------------------------------------
(* The upload *)

\* The row and the session are one transaction; the multipart upload is aborted if it fails.
CreateUpload(kind) ==
    /\ mdSess.status = "none"
    /\ mdRow' = [mdRow EXCEPT !.kind = kind]
    /\ mdSess' = [mdSess EXCEPT !.status = "active"]
    /\ mdStore' = [mdStore EXCEPT !.upload = "open"]
    /\ UNCHANGED <<mdParts, mdQueue, mdReq, mdWork, mdTruth>>

SetSessionStatus(status) ==
    mdSess' = IF mdSess.status = "deleted" THEN mdSess ELSE [mdSess EXCEPT !.status = status]

\* An operation on the upload finds its session active and in time, or marks it expired.
loadActiveSession == mdSess.status = "active" /\ ~mdSess.lapsed

Expired ==
    /\ mdSess.status = "active" /\ mdSess.lapsed
    /\ SetSessionStatus("expired")
    /\ UNCHANGED <<mdRow, mdParts, mdStore, mdQueue, mdReq, mdWork, mdTruth>>

RecordPart(n) ==
    /\ loadActiveSession
    /\ mdParts' = mdParts \cup {n}
    /\ UNCHANGED <<mdRow, mdSess, mdStore, mdQueue, mdReq, mdWork, mdTruth>>

completeUpload(h) ==
    /\ In(h, "idle")
    /\ loadActiveSession
    /\ Cardinality(mdParts) = TotalParts
    /\ Goto(h, "assemble")
    /\ UNCHANGED <<mdRow, mdSess, mdParts, mdStore, mdQueue, mdWork, mdTruth>>

\* Storage assembles an upload that is still there, once.
CompleteMultipartUpload(h) ==
    /\ In(h, "assemble")
    /\ IF mdStore.upload = "open"
       THEN /\ mdStore' = [mdStore EXCEPT !.upload = "completed", !.object = TRUE]
            /\ Goto(h, "check")
       ELSE Goto(h, "idle") /\ UNCHANGED mdStore
    /\ UNCHANGED <<mdRow, mdSess, mdParts, mdQueue, mdWork, mdTruth>>

\* The header is read and compared with what was declared; bytes nobody vouched for go.
CheckContent(h) ==
    /\ In(h, "check")
    /\ IF ~mdStore.object THEN Goto(h, "idle") /\ UNCHANGED mdStore
       ELSE IF mdTruth.honest THEN Goto(h, "finalize") /\ UNCHANGED mdStore
       ELSE Goto(h, "abort") /\ mdStore' = [mdStore EXCEPT !.object = FALSE]
    /\ UNCHANGED <<mdRow, mdSess, mdParts, mdQueue, mdWork, mdTruth>>

FinalizeMedia(scan) ==
    mdRow' = [mdRow EXCEPT !.scan = scan, !.process = "pending", !.final = TRUE]

Finalize(h) ==
    /\ In(h, "finalize")
    /\ FinalizeMedia(IF Scanning = "off" THEN "skipped" ELSE "pending")
    /\ Goto(h, "complete")
    /\ UNCHANGED <<mdSess, mdParts, mdStore, mdQueue, mdWork, mdTruth>>

CompleteUpload(h) ==
    /\ mdReq[h] \in {"complete", "abort"}
    /\ SetSessionStatus(IF In(h, "complete") THEN "completed" ELSE "aborted")
    /\ Goto(h, IF In(h, "complete") THEN "publish" ELSE "idle")
    /\ UNCHANGED <<mdRow, mdParts, mdStore, mdQueue, mdWork, mdTruth>>

\* The stream drops a second publish of the same id.
PublishJob(j) == mdQueue' = [mdQueue EXCEPT ![j] = IF @ = 0 THEN 1 ELSE @]

\* A job that cannot be published is logged and the upload answered.
Enqueue(h) ==
    /\ In(h, "publish")
    /\ PublishJob("first") \/ UNCHANGED mdQueue
    /\ Goto(h, "idle")
    /\ UNCHANGED <<mdRow, mdSess, mdParts, mdStore, mdWork, mdTruth>>

\* The request's client or process is gone.
Abandon(h) ==
    /\ ~In(h, "idle")
    /\ Goto(h, "idle")
    /\ UNCHANGED <<mdRow, mdSess, mdParts, mdStore, mdQueue, mdWork, mdTruth>>

\* A form in which what was assembled goes with the parts.
DropUpload == mdStore' = [mdStore EXCEPT !.upload = IF @ = "open" THEN "aborted" ELSE @, !.object = FALSE]

\* Storage has nothing to abort once the upload was assembled.
AbortMultipartUpload == mdStore' = [mdStore EXCEPT !.upload = IF @ = "open" THEN "aborted" ELSE @]

\* AbortUpload asks for the session and not for its status.
AbortUpload ==
    /\ mdSess.status \notin {"none", "deleted"}
    /\ AbortMultipartUpload
    /\ SetSessionStatus("aborted")
    /\ UNCHANGED <<mdRow, mdParts, mdQueue, mdReq, mdWork, mdTruth>>

Delete ==
    /\ mdRow.kind # "none" /\ ~mdRow.deleted
    /\ mdRow' = [mdRow EXCEPT !.deleted = TRUE]
    /\ UNCHANGED <<mdSess, mdParts, mdStore, mdQueue, mdReq, mdWork, mdTruth>>

\* expires_at passes
Lapse ==
    /\ mdSess.status # "none" /\ ~mdSess.lapsed
    /\ mdSess' = [mdSess EXCEPT !.lapsed = TRUE]
    /\ UNCHANGED <<mdRow, mdParts, mdStore, mdQueue, mdReq, mdWork, mdTruth>>

-----------------------------------------------------------------------------
(* The worker *)

\* The maintenance pass marks abandoned uploads ...
expireUploadSessions == Expired

\* ... releases their parts ...
reapExpiredUploads ==
    /\ mdSess.status = "expired"
    /\ AbortMultipartUpload
    /\ mdSess' = [mdSess EXCEPT !.status = "deleted"]
    /\ UNCHANGED <<mdRow, mdParts, mdQueue, mdReq, mdWork, mdTruth>>

PendingProcessing == mdRow.process = "pending" /\ mdRow.scan \in {"clean", "skipped"} /\ ~mdRow.deleted

\* ... and queues again what is pending.
retryStrandedMedia ==
    /\ PendingProcessing
    /\ mdQueue["retry"] = 0
    /\ PublishJob("retry")
    /\ UNCHANGED <<mdRow, mdSess, mdParts, mdStore, mdReq, mdWork, mdTruth>>

\* A job is delivered, and again when no acknowledgement came in time: to another worker
\* while the first is still at it, or after it died.
handleJob(w, j) ==
    /\ At(w, "idle")
    /\ mdQueue[j] \in 1 .. MaxDeliver
    /\ mdQueue' = [mdQueue EXCEPT ![j] = @ + 1]
    /\ mdWork' = [mdWork EXCEPT ![w] = [at |-> "load", job |-> j]]
    /\ UNCHANGED <<mdRow, mdSess, mdParts, mdStore, mdReq, mdTruth>>

\* Returning without an error acknowledges the job.
Ack(w) ==
    /\ mdQueue' = [mdQueue EXCEPT ![mdWork[w].job] = MaxDeliver + 1]
    /\ Step(w, "idle")

handleMediaProcess(w) ==
    /\ At(w, "load")
    /\ IF mdRow.deleted \/ mdRow.process = "ready"
       THEN Ack(w) /\ UNCHANGED mdRow
       ELSE /\ mdRow' = [mdRow EXCEPT !.process = "processing"]
            /\ Step(w, "scan") /\ UNCHANGED mdQueue
    /\ UNCHANGED <<mdSess, mdParts, mdStore, mdReq, mdTruth>>

\* What parseClamAVResponse makes of a reply: anything but OK and FOUND is "failed".
parseClamAVResponse == {IF mdTruth.infected THEN "infected" ELSE "clean", "failed"}

SetScanResult(status) == mdRow' = [mdRow EXCEPT !.scan = status]

\* No scanner; a scanner that cannot be reached, which fails the job where scanning is
\* required; or a reply, which is recorded, and an infected object removed first.
scanObject(w) ==
    /\ At(w, "scan")
    /\ \/ Scanning = "off" /\ Step(w, "derive") /\ UNCHANGED <<mdRow, mdStore>>
       \/ /\ Scanning = "optional" /\ mdStore.object
          /\ SetScanResult("failed") /\ Step(w, "derive") /\ UNCHANGED mdStore
       \/ /\ Scanning # "off" /\ mdStore.object
          /\ \E result \in parseClamAVResponse :
                IF result = "infected"
                THEN /\ mdStore' = [mdStore EXCEPT !.object = FALSE] \/ UNCHANGED mdStore
                     /\ Step(w, "infected") /\ UNCHANGED mdRow
                ELSE SetScanResult(result) /\ Step(w, "derive") /\ UNCHANGED mdStore
    /\ UNCHANGED <<mdSess, mdParts, mdQueue, mdReq, mdTruth>>

Infected(w) ==
    /\ At(w, "infected")
    /\ SetScanResult("infected")
    /\ Step(w, "failed")
    /\ UNCHANGED <<mdSess, mdParts, mdStore, mdQueue, mdReq, mdTruth>>

MarkReady == mdRow' = [mdRow EXCEPT !.process = "ready"]

\* An image that decodes has its variants made, and then its digest recorded.
processImage(w) ==
    mdStore' = [mdStore EXCEPT !.variants = @ \cup {"image"}] /\ Step(w, "record")

\* A voice message is encoded anew unless it is encoded so already, or cannot be.
processVoice(w) ==
    \/ Step(w, "record") /\ UNCHANGED mdStore
    \/ mdStore' = [mdStore EXCEPT !.variants = @ \cup {"opus"}] /\ Step(w, "record")

\* A video has its poster made, and is left without one if it cannot be.
posterFrame(w) ==
    \/ Step(w, "renditions") /\ UNCHANGED mdStore
    \/ mdStore' = [mdStore EXCEPT !.variants = @ \cup {"poster"}] /\ Step(w, "poster")

\* Without the toolchain voice and video are stored as they came, without a look at the bytes.  A
\* document has its digest recorded and nothing made of it.
processMedia(w) ==
    /\ At(w, "derive")
    /\ \/ mdRow.kind \in {"voice", "video"} /\ Step(w, "ready") /\ UNCHANGED mdStore
       \/ /\ mdStore.object
          /\ CASE mdRow.kind = "image" -> processImage(w)
               [] mdRow.kind = "voice" -> processVoice(w)
               [] mdRow.kind = "video" -> posterFrame(w)
               [] OTHER -> Step(w, "record") /\ UNCHANGED mdStore
    /\ UNCHANGED <<mdRow, mdSess, mdParts, mdQueue, mdReq, mdTruth>>

storeImageVariants(w) ==
    /\ At(w, "poster")
    /\ MarkReady
    /\ Step(w, "renditions")
    /\ UNCHANGED <<mdSess, mdParts, mdStore, mdQueue, mdReq, mdTruth>>

\* A rendition that cannot be made is skipped.
processVideo(w) ==
    /\ At(w, "renditions")
    /\ mdStore' = [mdStore EXCEPT !.variants = @ \cup {"rendition"}] \/ UNCHANGED mdStore
    /\ Step(w, "record")
    /\ UNCHANGED <<mdRow, mdSess, mdParts, mdQueue, mdReq, mdTruth>>

\* The digest is recorded as that of a clean file ...
RecordDigest(w) ==
    /\ At(w, "record")
    /\ FinalizeMedia("clean")
    /\ Step(w, "ready")
    /\ UNCHANGED <<mdSess, mdParts, mdStore, mdQueue, mdReq, mdTruth>>

\* ... and the file marked ready, or failed for good: the job is not tried again.
Ready(w) ==
    /\ At(w, "ready")
    /\ MarkReady
    /\ Ack(w)
    /\ UNCHANGED <<mdSess, mdParts, mdStore, mdReq, mdTruth>>

\* The bytes cannot be fetched or decoded, or one of the writes fails: whatever step the file is
\* at, its processing ends there.
GiveUp(w) ==
    /\ mdWork[w].at \in {"scan", "infected", "derive", "poster", "renditions", "record", "ready"}
    /\ Step(w, "failed")
    /\ UNCHANGED <<mdRow, mdSess, mdParts, mdStore, mdQueue, mdReq, mdTruth>>

MarkFailed(w) ==
    /\ At(w, "failed")
    /\ mdRow' = [mdRow EXCEPT !.process = "failed"] \/ UNCHANGED mdRow
    /\ Ack(w)
    /\ UNCHANGED <<mdSess, mdParts, mdStore, mdReq, mdTruth>>

\* The worker dies; its delivery was not acknowledged.
Die(w) ==
    /\ ~At(w, "idle")
    /\ Step(w, "idle")
    /\ UNCHANGED <<mdRow, mdSess, mdParts, mdStore, mdQueue, mdReq, mdTruth>>

Next ==
    \/ \E kind \in {"file", "image", "voice", "video"} : CreateUpload(kind)
    \/ \E n \in 1 .. TotalParts : RecordPart(n)
    \/ \E h \in Uploaders :
        \/ completeUpload(h) \/ CompleteMultipartUpload(h) \/ CheckContent(h) \/ Finalize(h)
        \/ CompleteUpload(h) \/ Enqueue(h) \/ Abandon(h)
    \/ AbortUpload \/ Delete \/ Lapse
    \/ expireUploadSessions \/ reapExpiredUploads \/ retryStrandedMedia
    \/ \E w \in MediaWorkers :
        \/ \E j \in Jobs : handleJob(w, j)
        \/ handleMediaProcess(w) \/ scanObject(w) \/ Infected(w) \/ processMedia(w)
        \/ storeImageVariants(w) \/ processVideo(w) \/ RecordDigest(w)
        \/ Ready(w) \/ GiveUp(w) \/ MarkFailed(w) \/ Die(w)

Spec == Init /\ [][Next]_mdVars

-----------------------------------------------------------------------------
(* Properties *)

\* A file the server has vouched for keeps its bytes: whatever aborts, expiries and sweeps
\* cross its completion, the object is gone only when the scanner condemned it, and it was
\* assembled from all its parts (CompleteUpload, AbortUpload, reapExpiredUploads).
VerifiedMediaIsStored ==
    mdRow.final =>
        /\ mdTruth.honest /\ Cardinality(mdParts) = TotalParts
        /\ mdStore.object \/ (mdTruth.infected /\ Scanning # "off")

-----------------------------------------------------------------------------
(* What the repository says of this code and the code does not do *)

\* media/scanner.go:128 says of an unrecognised reply '"unknown" must never mean "clean"': the
\* reply is recorded as failed, and then the digest as that of a clean file.
CleanWasScanned == mdRow.scan = "clean" /\ Scanning # "off" => ~mdTruth.infected

\* media/repository.go:210 says "MarkReady is called by the worker once every variant exists":
\* the poster of a video marks it ready before its renditions, and a worker that dies there
\* leaves a ready file nobody will work on.
ReadyHasItsVariants ==
    mdRow.process = "ready" /\ "poster" \in mdStore.variants => "rendition" \in mdStore.variants

\* media/service.go:289 says "the sweeper will pick up anything left pending": with a scanner
\* configured the file waits for its scan, and the sweeper leaves those out.
PendingIsPickedUp ==
    /\ mdRow.final /\ mdRow.process = "pending" /\ ~mdRow.deleted /\ mdQueue["first"] = 0
    /\ \A h \in Uploaders : In(h, "idle")
    => PendingProcessing
=============================================================================
