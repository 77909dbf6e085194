--------------------------- MODULE DocumentPipeline ---------------------------
(***************************************************************************)
(* The document pipeline of src/app: the upload, reprocess and delete      *)
(* handlers of the API, the documents.process_document Celery task, and    *)
(* the three stores they share: the documents table, the file storage and  *)
(* the broker queue.                                                       *)
(*                                                                         *)
(* A step of the model is one statement the outside can observe: a commit, *)
(* a storage call, a publish, or an ORM load whose result is used later.   *)
(* A request that an early return refuses changes nothing and is a         *)
(* stuttering step, so it has no action.                                   *)
(***************************************************************************)
EXTENDS Naturals, FiniteSets

CONSTANTS
    Docs,        \* documents: a row, its stored_file_name and its artifact key
    NoDoc,       \* what an idle worker or request holds
    Courses, CourseOf,     \* CourseOf[d] is the course_id of d
    NativeFiles, CorruptFiles, ScannedFiles,  \* file contents, by what the PDF reader makes of them
    Workers,     \* worker processes (the compose file starts one)
    Clients,     \* requests the API serves at the same time
    Procs, ProcOf,         \* API processes; ProcOf[c] serves c
    MaxRetries,  \* max_retries of process_document (3 in the code)
    \* bounds on what the environment does; MaxWorkerCrashes also bounds the
    \* failures of a task's own failure handling
    MaxRequests, MaxFaults, MaxWorkerCrashes, MaxApiCrashes,
    MayRemove    \* courses that may be deleted

Files == NativeFiles \cup CorruptFiles \cup ScannedFiles

ASSUME ConstantsAssumption ==
    /\ NoDoc \notin Docs
    /\ CourseOf \in [Docs -> Courses]
    /\ ProcOf \in [Clients -> Procs]
    /\ NativeFiles \cap CorruptFiles = {}
    /\ NativeFiles \cap ScannedFiles = {}
    /\ CorruptFiles \cap ScannedFiles = {}
    /\ IsFiniteSet(Workers)
    /\ MaxRetries \in Nat
    /\ MayRemove \subseteq Courses
    /\ MaxRequests \in Nat /\ MaxFaults \in Nat
    /\ MaxWorkerCrashes \in Nat /\ MaxApiCrashes \in Nat

VARIABLES
    \* documents and courses tables
    status, error, deleted, hasPath,   \* per document; hasPath: extracted_content_path is set
    content,                           \* the bytes behind each document, hence its checksum
    liveCourses,                       \* courses get_course_by_id still finds for their owner
    disowned,                          \* history: documents whose own upload failed after its commit
    \* storage
    originals, artifacts,              \* documents whose file, whose extracted JSON, exists
    \* broker
    queue,                             \* queue[d][r]: waiting deliveries for d with retries header r
    \* worker processes
    wpc, wdoc, wtry, wsnap, wreason,
    \* API requests
    cpc, cop, cdoc, csnap,
    \* what the environment has spent of its bounds
    requests, faults, workerCrashes, apiCrashes

rowVars     == <<status, error, deleted, hasPath>>
storageVars == <<originals, artifacts>>
workerVars  == <<wpc, wdoc, wtry, wsnap, wreason>>
clientVars  == <<cpc, cop, cdoc, csnap>>
boundVars   == <<requests, faults, workerCrashes, apiCrashes>>
inputVars   == <<content, liveCourses, disowned>>
vars == <<rowVars, inputVars, storageVars, queue, workerVars, clientVars, boundVars>>

ProcessingStatus == {"UPLOADED", "QUEUED", "PROCESSING", "COMPLETED", "FAILED"}
RowStatus == ProcessingStatus \cup {"absent"}
Errors == {"none", "missing", "corrupt", "ocr", "attempts"}

ClaimableStatuses == {"UPLOADED", "QUEUED", "FAILED"}
ReprocessableStatuses == {"UPLOADED", "FAILED"}

Listed(d) == status[d] # "absent" /\ ~deleted[d]

RowsOK ==
    /\ status \in [Docs -> RowStatus]
    /\ error \in [Docs -> Errors]
    /\ deleted \in [Docs -> BOOLEAN]
    /\ hasPath \in [Docs -> BOOLEAN]

InputsOK ==
    content \in [Docs -> Files] /\ liveCourses \subseteq Courses /\ disowned \subseteq Docs

StorageOK == originals \subseteq Docs /\ artifacts \subseteq Docs

QueueOK == queue \in [Docs -> [0..MaxRetries -> Nat]]

WorkersOK ==
    /\ wpc \in [Workers -> {"idle", "claim", "fetch", "load", "save", "complete",
                            "fail", "retry", "on_failure", "give_up", "ack"}]
    /\ wdoc \in [Workers -> Docs \cup {NoDoc}]
    /\ wtry \in [Workers -> 0..MaxRetries]
    /\ wsnap \in [Workers -> [status : RowStatus, error : Errors]]
    /\ wreason \in [Workers -> Errors]
    \* a worker with a delivery has its document, and retries while attempts are left
    /\ \A w \in Workers : /\ wpc[w] # "idle" => wdoc[w] \in Docs
                          /\ wpc[w] = "retry" => wtry[w] < MaxRetries

ClientsOK ==
    /\ cpc \in [Clients -> {"idle", "admitted", "checked", "stored", "enqueue", "mark",
                            "soft_delete", "rm_original", "rm_artifact"}]
    /\ cop \in [Clients -> {"none", "upload", "reprocess", "delete"}]
    /\ cdoc \in [Clients -> Docs \cup {NoDoc}]
    /\ csnap \in [Clients -> [deleted : BOOLEAN, hasPath : BOOLEAN]]
    /\ \A c \in Clients : cpc[c] # "idle" => cdoc[c] \in Docs

BoundsOK ==
    /\ requests \in 0..MaxRequests /\ faults \in 0..MaxFaults
    /\ workerCrashes \in 0..MaxWorkerCrashes /\ apiCrashes \in 0..MaxApiCrashes

TypeOK ==
    RowsOK /\ InputsOK /\ StorageOK /\ QueueOK /\ WorkersOK /\ ClientsOK /\ BoundsOK

NoSnap == [status |-> "absent", error |-> "none"]
NoClientSnap == [deleted |-> FALSE, hasPath |-> FALSE]

Init ==
    /\ status = [d \in Docs |-> "absent"]
    /\ error = [d \in Docs |-> "none"]
    /\ deleted = [d \in Docs |-> FALSE]
    /\ hasPath = [d \in Docs |-> FALSE]
    /\ content \in [Docs -> Files]
    /\ liveCourses = Courses /\ disowned = {}
    /\ originals = {} /\ artifacts = {}
    /\ queue = [d \in Docs |-> [r \in 0..MaxRetries |-> 0]]
    /\ wpc = [w \in Workers |-> "idle"]
    /\ wdoc = [w \in Workers |-> NoDoc]
    /\ wtry = [w \in Workers |-> 0]
    /\ wsnap = [w \in Workers |-> NoSnap]
    /\ wreason = [w \in Workers |-> "none"]
    /\ cpc = [c \in Clients |-> "idle"]
    /\ cop = [c \in Clients |-> "none"]
    /\ cdoc = [c \in Clients |-> NoDoc]
    /\ csnap = [c \in Clients |-> NoClientSnap]
    /\ requests = 0 /\ faults = 0 /\ workerCrashes = 0 /\ apiCrashes = 0

-----------------------------------------------------------------------------
(* Helpers shared by the API and the worker. *)

\* The ORM's unit of work: an assignment reaches the row only when the new
\* value differs from the one the session loaded; the UPDATE does not look at
\* what the row holds by then.
Emit(loaded, new, current) == IF loaded = new THEN current ELSE new

Fault ==
    /\ faults < MaxFaults
    /\ faults' = faults + 1
    /\ UNCHANGED <<requests, workerCrashes, apiCrashes>>

Publish(d, r) == queue' = [queue EXCEPT ![d][r] = @ + 1]

\* Bounds the requests that add work: uploads and reprocesses.
NewWork ==
    /\ requests < MaxRequests
    /\ requests' = requests + 1
    /\ UNCHANGED <<faults, workerCrashes, apiCrashes>>

-----------------------------------------------------------------------------
(* API requests.  c is a request in progress, cpc[c] the next statement.     *)

Continue(c, pc) ==
    /\ cpc' = [cpc EXCEPT ![c] = pc]
    /\ UNCHANGED <<cop, cdoc, csnap>>

Respond(c) ==
    /\ cpc' = [cpc EXCEPT ![c] = "idle"]
    /\ cop' = [cop EXCEPT ![c] = "none"]
    /\ cdoc' = [cdoc EXCEPT ![c] = NoDoc]
    /\ csnap' = [csnap EXCEPT ![c] = NoClientSnap]

Begin(c, op, d, snap, pc) ==
    /\ cpc[c] = "idle"
    /\ cpc' = [cpc EXCEPT ![c] = pc]
    /\ cop' = [cop EXCEPT ![c] = op]
    /\ cdoc' = [cdoc EXCEPT ![c] = d]
    /\ csnap' = [csnap EXCEPT ![c] = snap]

At(c, op, pc) == cop[c] = op /\ cpc[c] = pc

\* upload_document is an async handler: after its only await it runs on the
\* event loop of its process until it returns.
InLoop(c) == cop[c] = "upload" /\ cpc[c] \in {"checked", "stored", "enqueue", "mark"}

\* mutant: the handler runs in the thread pool
NoEventLoop(c) == TRUE

EventLoopFree(c) == \A b \in Clients : ProcOf[b] = ProcOf[c] => ~InLoop(b)

\* Ownership and MIME checks, up to `await uploaded_file.read()`.  d is a new
\* uuid: neither a row, nor a stored file, nor another upload has its name.
UploadAdmit(c, d) ==
    /\ CourseOf[d] \in liveCourses
    /\ status[d] = "absent" /\ d \notin originals
    /\ \A b \in Clients : cdoc[b] # d
    /\ Begin(c, "upload", d, NoClientSnap, "admitted")
    /\ NewWork
    /\ UNCHANGED <<rowVars, inputVars, storageVars, queue, workerVars>>

SameFile(d, e) == CourseOf[d] = CourseOf[e] /\ content[d] = content[e]
Duplicate(d) == \E e \in Docs : Listed(e) /\ SameFile(d, e)

UploadCheck(c) ==
    /\ At(c, "upload", "admitted")
    /\ EventLoopFree(c)
    /\ IF Duplicate(cdoc[c]) THEN Respond(c) ELSE Continue(c, "checked")
    /\ UNCHANGED <<rowVars, inputVars, storageVars, queue, workerVars, boundVars>>

UploadStore(c) ==
    /\ At(c, "upload", "checked")
    /\ \/ /\ originals' = originals \cup {cdoc[c]}
          /\ Continue(c, "stored")
          /\ UNCHANGED boundVars
       \/ Fault /\ Respond(c) /\ UNCHANGED originals
    /\ UNCHANGED <<rowVars, inputVars, artifacts, queue, workerVars>>

UploadInsert(c) ==
    /\ At(c, "upload", "stored")
    /\ status' = [status EXCEPT ![cdoc[c]] = "UPLOADED"]
    /\ Continue(c, "enqueue")
    /\ UNCHANGED <<error, deleted, hasPath, inputVars, storageVars, queue, workerVars, boundVars>>

\* The INSERT or its commit fails: roll back and remove the file, if that works.
UploadInsertFails(c) ==
    /\ At(c, "upload", "stored")
    /\ originals' \in {originals, originals \ {cdoc[c]}}
    /\ Fault
    /\ Respond(c)
    /\ UNCHANGED <<rowVars, inputVars, artifacts, queue, workerVars>>

\* The refresh after the commit is in the same try: the file goes, the row stays.
UploadRefreshFails(c) ==
    /\ At(c, "upload", "enqueue")
    /\ originals' \in {originals, originals \ {cdoc[c]}}
    /\ disowned' = disowned \cup {cdoc[c]}
    /\ Fault
    /\ Respond(c)
    /\ UNCHANGED <<rowVars, content, liveCourses, artifacts, queue, workerVars>>

ReprocessBegin(c, d) ==
    /\ Listed(d) /\ CourseOf[d] \in liveCourses
    /\ status[d] \in ReprocessableStatuses
    /\ Begin(c, "reprocess", d, NoClientSnap, "enqueue")
    /\ NewWork
    /\ UNCHANGED <<rowVars, inputVars, storageVars, queue, workerVars>>

\* process_document.delay: an upload swallows the failure, a reprocess answers 503.
Enqueue(c) ==
    /\ cpc[c] = "enqueue"
    /\ \/ Publish(cdoc[c], 0) /\ Continue(c, "mark") /\ UNCHANGED boundVars
       \/ Fault /\ Respond(c) /\ UNCHANGED queue
    /\ UNCHANGED <<rowVars, inputVars, storageVars, workerVars>>

\* mark_queued: the session loaded UPLOADED or FAILED, so the UPDATE is always
\* sent, and it does not look at the row.
MarkQueued(c) ==
    /\ cpc[c] = "mark"
    /\ \/ status' = [status EXCEPT ![cdoc[c]] = "QUEUED"] /\ UNCHANGED boundVars
       \/ Fault /\ UNCHANGED status
    /\ Respond(c)
    /\ UNCHANGED <<error, deleted, hasPath, inputVars, storageVars, queue, workerVars>>

\* mutant: the file is removed before the row is marked
DeleteFileFirst(c, d) ==
    /\ status[d] # "absent" /\ CourseOf[d] \in liveCourses
    /\ Begin(c, "delete", d, [deleted |-> deleted[d], hasPath |-> hasPath[d]], "rm_original")
    /\ UNCHANGED <<rowVars, inputVars, storageVars, queue, workerVars, boundVars>>

\* get_by_id, which also finds deleted rows: repeating a delete retries the cleanup.
DeleteBegin(c, d) ==
    /\ status[d] # "absent" /\ CourseOf[d] \in liveCourses
    /\ Begin(c, "delete", d, [deleted |-> deleted[d], hasPath |-> hasPath[d]],
             IF deleted[d] THEN "rm_original" ELSE "soft_delete")
    /\ UNCHANGED <<rowVars, inputVars, storageVars, queue, workerVars, boundVars>>

\* mutants: the handler returns after the commit; it goes on after a failed commit
SoftDeleteOnly(c) ==
    /\ cpc[c] = "soft_delete"
    /\ deleted' = [deleted EXCEPT ![cdoc[c]] = TRUE]
    /\ Respond(c)
    /\ UNCHANGED <<status, error, hasPath, inputVars, storageVars, queue, workerVars, boundVars>>

SoftDeleteSwallows(c) ==
    /\ cpc[c] = "soft_delete"
    /\ \/ deleted' = [deleted EXCEPT ![cdoc[c]] = TRUE] /\ UNCHANGED boundVars
       \/ Fault /\ UNCHANGED deleted
    /\ Continue(c, "rm_original")
    /\ UNCHANGED <<status, error, hasPath, inputVars, storageVars, queue, workerVars>>

SoftDelete(c) ==
    /\ cpc[c] = "soft_delete"
    /\ \/ /\ deleted' = [deleted EXCEPT ![cdoc[c]] = TRUE]
          /\ Continue(c, "rm_original")
          /\ UNCHANGED boundVars
       \/ Fault /\ Respond(c) /\ UNCHANGED deleted
    /\ UNCHANGED <<status, error, hasPath, inputVars, storageVars, queue, workerVars>>

\* The artifact is looked for only when the row loaded by DeleteBegin named one.
DeleteOriginal(c) ==
    /\ cpc[c] = "rm_original"
    /\ \/ /\ originals' = originals \ {cdoc[c]}
          /\ IF csnap[c].hasPath THEN Continue(c, "rm_artifact") ELSE Respond(c)
          /\ UNCHANGED boundVars
       \/ Fault /\ Respond(c) /\ UNCHANGED originals
    /\ UNCHANGED <<rowVars, inputVars, artifacts, queue, workerVars>>

DeleteArtifact(c) ==
    /\ cpc[c] = "rm_artifact"
    /\ \/ artifacts' = artifacts \ {cdoc[c]} /\ UNCHANGED boundVars
       \/ Fault /\ UNCHANGED artifacts
    /\ Respond(c)
    /\ UNCHANGED <<rowVars, inputVars, originals, queue, workerVars>>

\* The API process p dies with every request it was serving.
ApiCrash(p) ==
    /\ apiCrashes < MaxApiCrashes
    /\ apiCrashes' = apiCrashes + 1
    /\ \E c \in Clients : ProcOf[c] = p /\ cpc[c] # "idle"
    /\ LET lost == {c \in Clients : ProcOf[c] = p} IN
       /\ cpc' = [c \in Clients |-> IF c \in lost THEN "idle" ELSE cpc[c]]
       /\ cop' = [c \in Clients |-> IF c \in lost THEN "none" ELSE cop[c]]
       /\ cdoc' = [c \in Clients |-> IF c \in lost THEN NoDoc ELSE cdoc[c]]
       /\ csnap' = [c \in Clients |-> IF c \in lost THEN NoClientSnap ELSE csnap[c]]
    /\ UNCHANGED <<rowVars, inputVars, storageVars, queue, workerVars, requests, faults, workerCrashes>>

\* CourseService.delete_course: the documents of the course are left alone.
RemoveCourse(k) ==
    /\ k \in liveCourses \cap MayRemove
    /\ liveCourses' = liveCourses \ {k}
    /\ UNCHANGED <<rowVars, content, disowned, storageVars, queue, workerVars, clientVars, boundVars>>

-----------------------------------------------------------------------------
(* The worker.  w runs one process_document delivery at a time; the message  *)
(* stays unacknowledged until the task has ended (task_acks_late).           *)

Run(w, pc) ==
    /\ wpc' = [wpc EXCEPT ![w] = pc]
    /\ UNCHANGED <<wdoc, wtry, wsnap, wreason>>

\* raise to Celery, or fail the row, with this reason
RunWith(w, pc, reason) ==
    /\ wpc' = [wpc EXCEPT ![w] = pc]
    /\ wreason' = [wreason EXCEPT ![w] = reason]
    /\ UNCHANGED <<wdoc, wtry, wsnap>>

\* mutant: a retry claims like a first attempt
DeliverClaims(w, d, r) ==
    /\ wpc[w] = "idle" /\ queue[d][r] > 0
    /\ queue' = [queue EXCEPT ![d][r] = @ - 1]
    /\ wpc' = [wpc EXCEPT ![w] = "claim"]
    /\ wdoc' = [wdoc EXCEPT ![w] = d]
    /\ wtry' = [wtry EXCEPT ![w] = r]
    /\ UNCHANGED <<wsnap, wreason, rowVars, inputVars, storageVars, clientVars, boundVars>>

Deliver(w, d, r) ==
    /\ wpc[w] = "idle" /\ queue[d][r] > 0
    /\ queue' = [queue EXCEPT ![d][r] = @ - 1]
    /\ wpc' = [wpc EXCEPT ![w] = IF r = 0 THEN "claim" ELSE "fetch"]
    /\ wdoc' = [wdoc EXCEPT ![w] = d]
    /\ wtry' = [wtry EXCEPT ![w] = r]
    /\ UNCHANGED <<wsnap, wreason, rowVars, inputVars, storageVars, clientVars, boundVars>>

Claimable(d) == ~deleted[d] /\ status[d] \in ClaimableStatuses

\* try_start_processing: one UPDATE ... WHERE; a lost claim skips the task.
Claim(w) ==
    /\ wpc[w] = "claim"
    /\ IF Claimable(wdoc[w])
       THEN /\ status' = [status EXCEPT ![wdoc[w]] = "PROCESSING"]
            /\ error' = [error EXCEPT ![wdoc[w]] = "none"]
            /\ Run(w, "fetch")
       ELSE Run(w, "ack") /\ UNCHANGED <<status, error>>
    /\ UNCHANGED <<deleted, hasPath, inputVars, storageVars, queue, clientVars, boundVars>>

\* get_by_id: the row the rest of the attempt works with.
Fetch(w) ==
    /\ wpc[w] = "fetch"
    /\ LET d == wdoc[w] IN
       IF status[d] = "absent" THEN Run(w, "ack")
       ELSE /\ wpc' = [wpc EXCEPT ![w] = "load"]
            /\ wsnap' = [wsnap EXCEPT ![w] = [status |-> status[d], error |-> error[d]]]
            /\ UNCHANGED <<wdoc, wtry, wreason>>
    /\ UNCHANGED <<rowVars, inputVars, storageVars, queue, clientVars, boundVars>>

\* mutant: the row is completed without the artifact
LoadCompletes(w) ==
    /\ wpc[w] = "load"
    /\ wdoc[w] \in originals
    /\ Run(w, "complete")
    /\ UNCHANGED <<rowVars, inputVars, storageVars, queue, clientVars, boundVars>>

\* storage.load and everything the task derives from the bytes alone.
Load(w) ==
    /\ wpc[w] = "load"
    /\ LET d == wdoc[w] IN
       \/ d \notin originals /\ RunWith(w, "fail", "missing")
       \/ d \in originals /\ content[d] \in CorruptFiles /\ RunWith(w, "fail", "corrupt")
       \/ d \in originals /\ content[d] \in ScannedFiles /\ RunWith(w, "fail", "ocr")
       \/ d \in originals /\ content[d] \in NativeFiles /\ Run(w, "save")
    /\ UNCHANGED <<rowVars, inputVars, storageVars, queue, clientVars, boundVars>>

SaveArtifact(w) ==
    /\ wpc[w] = "save"
    /\ artifacts' = artifacts \cup {wdoc[w]}
    /\ Run(w, "complete")
    /\ UNCHANGED <<rowVars, inputVars, originals, queue, clientVars, boundVars>>

\* mutant: extracted_content_path is not set
CompletedWithoutPath(w) ==
    /\ wpc[w] = "complete"
    /\ LET d == wdoc[w] IN
       /\ status' = [status EXCEPT ![d] = Emit(wsnap[w].status, "COMPLETED", @)]
       /\ error' = [error EXCEPT ![d] = Emit(wsnap[w].error, "none", @)]
    /\ Run(w, "ack")
    /\ UNCHANGED <<deleted, hasPath, inputVars, storageVars, queue, clientVars, boundVars>>

\* mark_completed commits, then refreshes, which may fail in its turn.
MarkCompleted(w) ==
    /\ wpc[w] = "complete"
    /\ LET d == wdoc[w] IN
       /\ status' = [status EXCEPT ![d] = Emit(wsnap[w].status, "COMPLETED", @)]
       /\ error' = [error EXCEPT ![d] = Emit(wsnap[w].error, "none", @)]
       /\ hasPath' = [hasPath EXCEPT ![d] = TRUE]
    /\ \/ Run(w, "ack") /\ UNCHANGED boundVars
       \/ Run(w, "on_failure") /\ Fault
    /\ UNCHANGED <<deleted, inputVars, storageVars, queue, clientVars>>

\* mutant: the reason is dropped
FailedWithoutReason(w) ==
    /\ wpc[w] = "fail"
    /\ status' = [status EXCEPT ![wdoc[w]] = Emit(wsnap[w].status, "FAILED", @)]
    /\ Run(w, "on_failure")
    /\ UNCHANGED <<error, deleted, hasPath, inputVars, storageVars, queue, clientVars, boundVars>>

\* _fail: mark_failed, then PermanentTaskError, which Celery does not retry.
MarkFailed(w) ==
    /\ wpc[w] = "fail"
    /\ LET d == wdoc[w] IN
       /\ status' = [status EXCEPT ![d] = Emit(wsnap[w].status, "FAILED", @)]
       /\ error' = [error EXCEPT ![d] = Emit(wsnap[w].error, wreason[w], @)]
    /\ Run(w, "on_failure")
    /\ UNCHANGED <<deleted, hasPath, inputVars, storageVars, queue, clientVars, boundVars>>

\* mutant: the last failure is not handled
NoFailureHandler(w) ==
    /\ wpc[w] \in {"load", "save"}
    /\ Run(w, IF wtry[w] < MaxRetries THEN "retry" ELSE "ack")
    /\ Fault
    /\ UNCHANGED <<rowVars, inputVars, storageVars, queue, clientVars>>

\* TransientTaskError out of storage.load or storage.save.
StorageError(w) ==
    /\ wpc[w] \in {"load", "save"}
    /\ Run(w, IF wtry[w] < MaxRetries THEN "retry" ELSE "on_failure")
    /\ Fault
    /\ UNCHANGED <<rowVars, inputVars, storageVars, queue, clientVars>>

\* Any exception the task does not name: a lost connection at a database
\* call, a storage client error that is neither OSError nor ValueError.
UnexpectedError(w) ==
    /\ wpc[w] \in {"claim", "fetch", "load", "save", "complete", "fail"}
    /\ Run(w, "on_failure")
    /\ Fault
    /\ UNCHANGED <<rowVars, inputVars, storageVars, queue, clientVars>>

\* autoretry: the same task is published again with retries + 1.
Retry(w) ==
    /\ wpc[w] = "retry"
    /\ Publish(wdoc[w], wtry[w] + 1)
    /\ Run(w, "ack")
    /\ UNCHANGED <<rowVars, inputVars, storageVars, clientVars, boundVars>>

\* DocumentProcessingTask.on_failure reads the row in a session of its own...
OnFailure(w) ==
    /\ wpc[w] = "on_failure"
    /\ LET d == wdoc[w] IN
       IF status[d] = "PROCESSING"
       THEN /\ wpc' = [wpc EXCEPT ![w] = "give_up"]
            /\ wsnap' = [wsnap EXCEPT ![w] = [status |-> status[d], error |-> error[d]]]
            /\ UNCHANGED <<wdoc, wtry, wreason>>
       ELSE Run(w, "ack")
    /\ UNCHANGED <<rowVars, inputVars, storageVars, queue, clientVars, boundVars>>

\* ... and marks it FAILED with what it read.
GiveUp(w) ==
    /\ wpc[w] = "give_up"
    /\ LET d == wdoc[w] IN
       /\ status' = [status EXCEPT ![d] = Emit(wsnap[w].status, "FAILED", @)]
       /\ error' = [error EXCEPT ![d] = Emit(wsnap[w].error, "attempts", @)]
    /\ Run(w, "ack")
    /\ UNCHANGED <<deleted, hasPath, inputVars, storageVars, queue, clientVars, boundVars>>

\* The retry cannot be published, or on_failure itself fails: Celery drops the
\* delivery and nobody writes the row.
HandlerLost(w) ==
    /\ wpc[w] \in {"retry", "on_failure", "give_up"}
    /\ workerCrashes < MaxWorkerCrashes
    /\ workerCrashes' = workerCrashes + 1
    /\ Run(w, "ack")
    /\ UNCHANGED <<rowVars, inputVars, storageVars, queue, clientVars, requests, faults, apiCrashes>>

Vacate(w) ==
    /\ wpc' = [wpc EXCEPT ![w] = "idle"]
    /\ wdoc' = [wdoc EXCEPT ![w] = NoDoc]
    /\ wtry' = [wtry EXCEPT ![w] = 0]
    /\ wsnap' = [wsnap EXCEPT ![w] = NoSnap]
    /\ wreason' = [wreason EXCEPT ![w] = "none"]

Ack(w) ==
    /\ wpc[w] = "ack"
    /\ Vacate(w)
    /\ UNCHANGED <<rowVars, inputVars, storageVars, queue, clientVars, boundVars>>

\* The worker process dies: the broker delivers the unacknowledged message again.
WorkerCrash(w) ==
    /\ wpc[w] # "idle"
    /\ workerCrashes < MaxWorkerCrashes
    /\ workerCrashes' = workerCrashes + 1
    /\ Publish(wdoc[w], wtry[w])
    /\ Vacate(w)
    /\ UNCHANGED <<rowVars, inputVars, storageVars, clientVars, requests, faults, apiCrashes>>

-----------------------------------------------------------------------------
\* Steps a request takes once it has been accepted
RequestStep(c) ==
    \/ UploadCheck(c) \/ UploadStore(c) \/ UploadInsert(c) \/ UploadInsertFails(c)
    \/ UploadRefreshFails(c) \/ Enqueue(c) \/ MarkQueued(c)
    \/ SoftDelete(c) \/ DeleteOriginal(c) \/ DeleteArtifact(c)

\* Steps of a worker running a delivery
TaskStep(w) ==
    \/ Claim(w) \/ Fetch(w) \/ Load(w) \/ SaveArtifact(w) \/ MarkCompleted(w)
    \/ MarkFailed(w) \/ StorageError(w) \/ UnexpectedError(w) \/ Retry(w)
    \/ OnFailure(w) \/ GiveUp(w) \/ Ack(w)

Deliveries(w) == \E d \in Docs, r \in 0..MaxRetries : Deliver(w, d, r)

Next ==
    \/ \E c \in Clients, d \in Docs :
          UploadAdmit(c, d) \/ ReprocessBegin(c, d) \/ DeleteBegin(c, d)
    \/ \E c \in Clients : RequestStep(c)
    \/ \E w \in Workers : Deliveries(w) \/ TaskStep(w) \/ HandlerLost(w) \/ WorkerCrash(w)
    \/ \E p \in Procs : ApiCrash(p)
    \/ \E k \in Courses : RemoveCourse(k)

Spec == Init /\ [][Next]_vars

\* A request being served and a worker with something to do go on; nobody is
\* obliged to send requests, and nothing has to fail.
Fairness ==
    /\ \A c \in Clients : WF_vars(RequestStep(c))
    /\ \A w \in Workers : WF_vars(Deliveries(w) \/ TaskStep(w))

FairSpec == Spec /\ Fairness

-----------------------------------------------------------------------------
(* Properties *)

\* A document a user can see can be read: its file was stored before its row
\* was inserted and is removed only after the row is marked deleted, whatever
\* requests, faults and crashes interleave (upload_document, delete_document).
\* The one exception is an upload whose connection fails between its commit
\* and the refresh after it: it removes the file of a row that stays.
ListedHasOriginal == \A d \in Docs : Listed(d) => d \in originals \cup disowned

\* A visible document whose extracted_content_path is set has its artifact:
\* extraction and embedding load that path without checking it, and a delete
\* whose artifact removal is delayed must not hit a document still in use.
PublishedHasArtifact == \A d \in Docs : Listed(d) /\ hasPath[d] => d \in artifacts

\* COMPLETED is never a promise without its text, also when several deliveries
\* of one document and the API's mark_queued overwrite each other's status.
CompletedHasText == \A d \in Docs : status[d] = "COMPLETED" => hasPath[d]

\* Two visible documents of a course never have the same bytes, although the
\* check and the insert are two transactions and no unique index backs them:
\* within one API process the event loop keeps two uploads apart.
NoDuplicateListed ==
    \A d, e \in Docs :
        Listed(d) /\ Listed(e) /\ SameFile(d, e) => d = e

\* Deliveries on their way to finishing d: they hold a claim, or continue one
\* (a waiting retry skips the claim).  One that has loaded a row that is not
\* PROCESSING may finish without the ORM sending its status.
Finishes(w, d) ==
    /\ wdoc[w] = d
    /\ \/ wpc[w] \in {"fetch", "retry", "on_failure"}
       \/ wpc[w] \in {"load", "save", "complete", "fail", "give_up"} /\ wsnap[w].status = "PROCESSING"

RetryWaiting(d) == \E r \in 1..MaxRetries : queue[d][r] > 0

\* Until a worker process dies or a failure handler fails, every document that
\* is PROCESSING is in some delivery's hands that will write its next status: no interleaving of
\* claims, retries, on_failure and mark_queued leaves it with nobody, the case
\* POST .../reprocess refuses to repair.
ProcessingHasOwner ==
    workerCrashes = 0 =>
        \A d \in Docs : status[d] = "PROCESSING" =>
            RetryWaiting(d) \/ \E w \in Workers : Finishes(w, d)

\* Storage holds no file that no document shows and no request is about to
\* list or remove, unless a storage or database call failed or an API process
\* died: the requests clean up after themselves in every other interleaving.
NoOrphanOriginal ==
    faults = 0 /\ apiCrashes = 0 =>
        \A d \in originals : Listed(d) \/ \E c \in Clients : cdoc[c] = d

\* With one worker process, as deployed, a row says why it failed and never
\* shows an error beside COMPLETED, although error and status are written
\* separately, mark_queued leaves the error in place, and the ORM skips an
\* assignment of the value it loaded.
ErrorMatchesStatus ==
    Cardinality(Workers) = 1 =>
        \A d \in Docs : /\ status[d] = "COMPLETED" => error[d] = "none"
                        /\ status[d] = "FAILED" => error[d] # "none"

\* The pipeline implements the library: the rows are its catalogue, the file
\* storage its shelves.
Listing(d) == IF status[d] = "absent" THEN "absent" ELSE IF deleted[d] THEN "removed" ELSE "listed"

Library == INSTANCE DocumentLibrary
    WITH listing <- [d \in Docs |-> Listing(d)], texts <- {d \in Docs : hasPath[d]}
ImplementsLibrary == Library!Spec

\* A document does not stay PROCESSING.  It holds of FairSpec when no worker
\* crashes; documents.py promises it always.
ProcessingEnds ==
    \A d \in Docs : status[d] = "PROCESSING" ~> status[d] # "PROCESSING"

\* A deleted document loses its file, whatever was in flight when it was
\* deleted, unless a call fails or the API process dies: delete_document says
\* repeating the request is the way to finish.
DeletedFileGoes ==
    \A d \in Docs : deleted[d] ~> d \notin originals \/ faults > 0 \/ apiCrashes > 0

(* What a docstring of the repository says of the pipeline, and the code does not do. *)

\* documents.py:8, "a single UPDATE...WHERE claims the document atomically so
\* two concurrent enqueues of the same document_id can't both process it".
Processing(w) == wpc[w] \in {"load", "save", "complete", "fail"}
OneProcessor ==
    \A v, w \in Workers : Processing(v) /\ Processing(w) /\ wdoc[v] = wdoc[w] => v = w
=============================================================================
