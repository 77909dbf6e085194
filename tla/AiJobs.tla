------------------------------- MODULE AiJobs -------------------------------
(***************************************************************************)
(* What the AI makes of a processed document: the structured extraction    *)
(* and the chunk embedding, triggered by a student and run by the Celery   *)
(* tasks ai.extract_document and ai.embed_document, and the review of the  *)
(* extracted candidates.                                                   *)
(*                                                                         *)
(* The two tasks have one control: trigger, claim, replace the rows of the *)
(* run before, write the outcome into a status column of the document. A   *)
(* job is such a column of one document.  They differ in the order of the  *)
(* provider call and the deletion, and in which rows a new run replaces.   *)
(***************************************************************************)
EXTENDS Naturals, FiniteSets

CONSTANTS
    Docs, Courses, CourseOf,
    Extractions, Embeddings,  \* jobs: llm_extraction_status and chunk_embedding_status of a document
    DocOf,                    \* DocOf[j] is the document of job j
    NoJob, NoRow,
    TaskKinds, CourseKinds, OtherKinds,   \* what an extraction finds: ASSIGNMENT and EXAM, COURSE_INFO, the rest
    Chunks,                   \* what an embedding makes
    Workers, Clients,         \* worker processes; trigger requests served at the same time
    Reviewers,                \* review requests served at the same time
    MaxRetries,
    \* bounds on the environment; MaxChanges bounds what the rest of the system does
    MaxTriggers, MaxFaults, MaxWorkerCrashes, MaxChanges

Jobs == Extractions \cup Embeddings
CandidateKinds == TaskKinds \cup CourseKinds \cup OtherKinds

\* A row is named by its job, the run that wrote it, and what it is. A delivery
\* and its retries write rows once, a redelivery perhaps again.
MaxRuns == MaxTriggers + MaxWorkerCrashes
KindsOf(j) == IF j \in Extractions THEN CandidateKinds ELSE {Chunks}
Rows == UNION {{<<j, n, k>> : n \in 1..MaxRuns, k \in KindsOf(j)} : j \in Jobs}
Kind(x) == x[3]
CourseOfRow(x) == CourseOf[DocOf[x[1]]]

ASSUME AiConstantsAssumption ==
    /\ CourseOf \in [Docs -> Courses] /\ DocOf \in [Jobs -> Docs]
    /\ Extractions \cap Embeddings = {} /\ NoJob \notin Jobs /\ NoRow \notin Rows
    /\ TaskKinds \cap CourseKinds = {} /\ TaskKinds \cap OtherKinds = {}
    /\ CourseKinds \cap OtherKinds = {} /\ Chunks \notin CandidateKinds
    /\ IsFiniteSet(Workers) /\ MaxRetries \in Nat /\ MaxTriggers \in Nat
    /\ MaxFaults \in Nat /\ MaxWorkerCrashes \in Nat /\ MaxChanges \in Nat

VARIABLES
    \* documents
    job,             \* per job: its status column
    live,            \* documents not deleted
    ready,           \* documents whose processing_status is COMPLETED
    texts,           \* documents whose extracted text is in storage
    blank,           \* documents whose text makes no chunks; as the text, it never changes
    \* extraction_candidates and document_chunks, tasks, courses
    row,             \* CandidateStatus; chunks are PENDING throughout
    runs,            \* history: runs of the job that wrote rows
    tasks,           \* tasks made of each candidate
    field,           \* instructor_name or classroom of each course
    \* broker and workers
    queue, wpc, wjob, wtry, wsnap,
    held,            \* rows an attempt's open transaction has deleted, hence locked
    \* requests
    cpc, cjob, csnap,
    rpc, rop, rrow, rblank,
    triggers, faults, workerCrashes, changes

docVars    == <<live, ready, texts, blank>>
dataVars   == <<row, runs, tasks, field>>
workerVars == <<wpc, wjob, wtry, wsnap, held>>
clientVars == <<cpc, cjob, csnap>>
reviewVars == <<rpc, rop, rrow, rblank>>
boundVars  == <<triggers, faults, workerCrashes, changes>>
vars == <<job, docVars, dataVars, queue, workerVars, clientVars, reviewVars, boundVars>>

JobStatus == {"NOT_REQUESTED", "QUEUED", "PROCESSING", "COMPLETED", "FAILED"}
ClaimableStatuses == {"NOT_REQUESTED", "QUEUED", "FAILED"}
TriggerableStatuses == {"NOT_REQUESTED", "QUEUED", "FAILED"}
RowStatus == {"absent", "PENDING", "ACCEPTED", "REJECTED", "deleted"}
Reviewed == {"ACCEPTED", "REJECTED"}

DataOK ==
    /\ job \in [Jobs -> JobStatus]
    /\ live \subseteq Docs /\ ready \subseteq Docs
    /\ texts \subseteq Docs /\ blank \subseteq Docs
    /\ row \in [Rows -> RowStatus] /\ runs \in [Jobs -> 0..MaxRuns]
    /\ tasks \in [Rows -> Nat] /\ field \in [Courses -> {"blank", "manual", "extracted"}]

AttemptsOK ==
    /\ queue \in [Jobs -> [0..MaxRetries -> Nat]]
    /\ wpc \in [Workers -> {"idle", "claim", "fetch", "prepare", "ask", "delete", "insert",
                            "complete", "fail", "retry", "on_failure", "give_up", "ack"}]
    /\ wjob \in [Workers -> Jobs \cup {NoJob}] /\ wtry \in [Workers -> 0..MaxRetries]
    /\ wsnap \in [Workers -> [status : JobStatus, ready : BOOLEAN]]
    /\ held \in [Workers -> SUBSET Rows]
    /\ \A w \in Workers : /\ wpc[w] # "idle" => wjob[w] \in Jobs
                          /\ wpc[w] = "retry" => wtry[w] < MaxRetries

RequestsOK ==
    /\ cpc \in [Clients -> {"idle", "enqueue", "mark"}]
    /\ cjob \in [Clients -> Jobs \cup {NoJob}] /\ csnap \in [Clients -> JobStatus]
    /\ rpc \in [Reviewers -> {"idle", "task", "course", "flush", "mark"}]
    /\ rop \in [Reviewers -> {"none", "accept", "reject"}]
    /\ rrow \in [Reviewers -> Rows \cup {NoRow}] /\ rblank \in [Reviewers -> BOOLEAN]
    /\ \A q \in Reviewers : rpc[q] # "idle" => rrow[q] \in Rows

BoundsOK ==
    /\ triggers \in 0..MaxTriggers /\ faults \in 0..MaxFaults
    /\ workerCrashes \in 0..MaxWorkerCrashes /\ changes \in 0..MaxChanges

TypeOK == DataOK /\ AttemptsOK /\ RequestsOK /\ BoundsOK

NoSnap == [status |-> "NOT_REQUESTED", ready |-> FALSE]

\* The OCR heuristic counts the characters of the raw text; normalize_text may
\* remove them all.  Only an embedding can tell.
Init ==
    /\ blank \in SUBSET {DocOf[j] : j \in Embeddings}
    /\ job = [j \in Jobs |-> "NOT_REQUESTED"]
    /\ live = Docs /\ ready = Docs /\ texts = Docs
    /\ row = [x \in Rows |-> "absent"]
    /\ runs = [j \in Jobs |-> 0]
    /\ tasks = [x \in Rows |-> 0]
    /\ field \in [Courses -> {"blank", "manual"}]
    /\ queue = [j \in Jobs |-> [r \in 0..MaxRetries |-> 0]]
    /\ wpc = [w \in Workers |-> "idle"] /\ wjob = [w \in Workers |-> NoJob]
    /\ wtry = [w \in Workers |-> 0] /\ wsnap = [w \in Workers |-> NoSnap]
    /\ held = [w \in Workers |-> {}]
    /\ cpc = [c \in Clients |-> "idle"] /\ cjob = [c \in Clients |-> NoJob]
    /\ csnap = [c \in Clients |-> "NOT_REQUESTED"]
    /\ rpc = [q \in Reviewers |-> "idle"] /\ rop = [q \in Reviewers |-> "none"]
    /\ rrow = [q \in Reviewers |-> NoRow] /\ rblank = [q \in Reviewers |-> FALSE]
    /\ triggers = 0 /\ faults = 0 /\ workerCrashes = 0 /\ changes = 0

\* The ORM sends an assignment only when it differs from the loaded value.
Emit(loaded, new, current) == IF loaded = new THEN current ELSE new

Fault == faults < MaxFaults /\ faults' = faults + 1 /\ UNCHANGED <<triggers, workerCrashes, changes>>

Publish(j, r) == queue' = [queue EXCEPT ![j][r] = @ + 1]

-----------------------------------------------------------------------------
(* The rest of the system, as the document pipeline and the course service  *)
(* change what is read here.                                                *)

Change ==
    changes < MaxChanges /\ changes' = changes + 1 /\ UNCHANGED <<triggers, faults, workerCrashes>>

\* delete_document marks the row, then removes the text.
DeleteDocument(d) ==
    /\ d \in live
    /\ live' = live \ {d}
    /\ Change
    /\ UNCHANGED <<job, ready, texts, blank, dataVars, queue, workerVars, clientVars, reviewVars>>

RemoveText(d) ==
    /\ d \in texts \ live
    /\ texts' = texts \ {d}
    /\ UNCHANGED <<job, live, ready, blank, dataVars, queue, workerVars, clientVars, reviewVars, boundVars>>

\* A late mark_queued of the pipeline takes COMPLETED back; another delivery
\* may restore it.
ProcessingMoves(d) ==
    /\ ready' = IF d \in ready THEN ready \ {d} ELSE ready \cup {d}
    /\ Change
    /\ UNCHANGED <<job, live, texts, blank, dataVars, queue, workerVars, clientVars, reviewVars>>

\* A review that has flushed its change of the course holds the row's lock.
CourseLocked(k) == \E q \in Reviewers :
    rpc[q] = "mark" /\ rblank[q] /\ CourseOfRow(rrow[q]) = k

\* The student edits the course: CourseService.update_course.
EditCourse(k, value) ==
    /\ ~CourseLocked(k) /\ field[k] # value
    /\ field' = [field EXCEPT ![k] = value]
    /\ Change
    /\ UNCHANGED <<job, docVars, row, runs, tasks, queue, workerVars, clientVars, reviewVars>>

-----------------------------------------------------------------------------
(* Trigger requests *)

TriggerBegin(c, j) ==
    /\ cpc[c] = "idle" /\ triggers < MaxTriggers
    /\ DocOf[j] \in live \cap ready
    /\ job[j] \in TriggerableStatuses
    /\ cpc' = [cpc EXCEPT ![c] = "enqueue"]
    /\ cjob' = [cjob EXCEPT ![c] = j]
    /\ csnap' = [csnap EXCEPT ![c] = job[j]]
    /\ triggers' = triggers + 1
    /\ UNCHANGED <<job, docVars, dataVars, queue, workerVars, reviewVars, faults, workerCrashes, changes>>

Answered(c) ==
    /\ cpc' = [cpc EXCEPT ![c] = "idle"]
    /\ cjob' = [cjob EXCEPT ![c] = NoJob]
    /\ csnap' = [csnap EXCEPT ![c] = "NOT_REQUESTED"]

Enqueue(c) ==
    /\ cpc[c] = "enqueue"
    /\ \/ Publish(cjob[c], 0) /\ cpc' = [cpc EXCEPT ![c] = "mark"] /\ UNCHANGED <<cjob, csnap, boundVars>>
       \/ Fault /\ Answered(c) /\ UNCHANGED queue
    /\ UNCHANGED <<job, docVars, dataVars, workerVars, reviewVars>>

\* A trigger that read QUEUED sends nothing, the value being the same.
MarkQueued(c) ==
    /\ cpc[c] = "mark"
    /\ \/ job' = [job EXCEPT ![cjob[c]] = Emit(csnap[c], "QUEUED", @)] /\ UNCHANGED boundVars
       \/ Fault /\ UNCHANGED job
    /\ Answered(c)
    /\ UNCHANGED <<docVars, dataVars, queue, workerVars, reviewVars>>

-----------------------------------------------------------------------------
(* The tasks *)

Run(w, pc) == wpc' = [wpc EXCEPT ![w] = pc] /\ UNCHANGED <<wjob, wtry, wsnap>>

\* The session closes without a commit: its deletions are undone.
Rollback(w) == held' = [held EXCEPT ![w] = {}]

\* mutant: a retry claims like a first attempt
DeliverClaims(w, j, r) ==
    /\ wpc[w] = "idle" /\ queue[j][r] > 0
    /\ queue' = [queue EXCEPT ![j][r] = @ - 1]
    /\ wpc' = [wpc EXCEPT ![w] = "claim"]
    /\ wjob' = [wjob EXCEPT ![w] = j] /\ wtry' = [wtry EXCEPT ![w] = r]
    /\ UNCHANGED <<wsnap, held, job, docVars, dataVars, clientVars, reviewVars, boundVars>>

Deliver(w, j, r) ==
    /\ wpc[w] = "idle" /\ queue[j][r] > 0
    /\ queue' = [queue EXCEPT ![j][r] = @ - 1]
    /\ wpc' = [wpc EXCEPT ![w] = IF r = 0 THEN "claim" ELSE "fetch"]
    /\ wjob' = [wjob EXCEPT ![w] = j] /\ wtry' = [wtry EXCEPT ![w] = r]
    /\ UNCHANGED <<wsnap, held, job, docVars, dataVars, clientVars, reviewVars, boundVars>>

\* try_start_extraction, try_start_chunk_embedding
Claim(w) ==
    /\ wpc[w] = "claim"
    /\ LET j == wjob[w] IN
       IF DocOf[j] \in live /\ job[j] \in ClaimableStatuses
       THEN job' = [job EXCEPT ![j] = "PROCESSING"] /\ Run(w, "fetch")
       ELSE Run(w, "ack") /\ UNCHANGED job
    /\ UNCHANGED <<docVars, dataVars, held, queue, clientVars, reviewVars, boundVars>>

\* get_by_id, which finds deleted documents too.
Fetch(w) ==
    /\ wpc[w] = "fetch"
    /\ wpc' = [wpc EXCEPT ![w] = "prepare"]
    /\ wsnap' = [wsnap EXCEPT ![w] = [status |-> job[wjob[w]], ready |-> DocOf[wjob[w]] \in ready]]
    /\ UNCHANGED <<wjob, wtry, held, job, docVars, dataVars, queue, clientVars, reviewVars, boundVars>>

\* The checks, the provider's configuration and storage.load, whose errors
\* nobody catches.  Extraction asks first, embedding deletes first.
Prepare(w) ==
    /\ wpc[w] = "prepare"
    /\ \/ Run(w, "fail")
       \/ wsnap[w].ready /\ DocOf[wjob[w]] \notin texts /\ Run(w, "on_failure")
       \/ /\ wsnap[w].ready /\ DocOf[wjob[w]] \in texts
          /\ Run(w, IF wjob[w] \in Extractions THEN "ask" ELSE "delete")
    /\ UNCHANGED <<held, job, docVars, dataVars, queue, clientVars, reviewVars, boundVars>>

\* mutant: a provider error that is no use retrying is dropped
AskDropsFailure(w) ==
    /\ wpc[w] = "ask"
    /\ \/ Run(w, IF wjob[w] \in Extractions THEN "delete" ELSE "insert") /\ UNCHANGED held
       \/ Run(w, "ack") /\ Rollback(w)
    /\ UNCHANGED <<job, docVars, dataVars, queue, clientVars, reviewVars, boundVars>>

\* The provider answers, or gives up with an error that is no use retrying;
\* the session stays open.
Ask(w) ==
    /\ wpc[w] = "ask"
    /\ \/ Run(w, IF wjob[w] \in Extractions THEN "delete" ELSE "insert")
       \/ Run(w, "fail")
    /\ UNCHANGED <<held, job, docVars, dataVars, queue, clientVars, reviewVars, boundVars>>

\* LLMTransientError, EmbeddingTransientError
ProviderBusy(w) ==
    /\ wpc[w] = "ask"
    /\ Run(w, IF wtry[w] < MaxRetries THEN "retry" ELSE "on_failure")
    /\ Rollback(w)
    /\ Fault
    /\ UNCHANGED <<job, docVars, dataVars, queue, clientVars, reviewVars>>

RowsOf(j) == {x \in Rows : x[1] = j}
Pending(j) == {x \in RowsOf(j) : row[x] = "PENDING"}
Locked(x) == \E w \in Workers : x \in held[w]

\* An extraction has asked before, and a text without chunks asks nobody.
DeletesLast(j) == j \in Extractions \/ DocOf[j] \in blank

\* mutants: the rows of the run before stay; reviewed candidates go too
KeepRows(w) ==
    /\ wpc[w] = "delete"
    /\ Run(w, IF DeletesLast(wjob[w]) THEN "insert" ELSE "ask")
    /\ UNCHANGED <<held, job, docVars, dataVars, queue, clientVars, reviewVars, boundVars>>

DeleteAllRows(w) ==
    /\ wpc[w] = "delete"
    /\ held' = [held EXCEPT ![w] = {x \in RowsOf(wjob[w]) : row[x] \in Reviewed \cup {"PENDING"}}]
    /\ Run(w, IF DeletesLast(wjob[w]) THEN "insert" ELSE "ask")
    /\ UNCHANGED <<job, docVars, dataVars, queue, clientVars, reviewVars, boundVars>>

\* delete_pending_for_document, delete_by_document: the statement waits for
\* rows another transaction has deleted, and is not committed yet.
DeleteRows(w) ==
    /\ wpc[w] = "delete"
    /\ \A x \in Pending(wjob[w]) : ~Locked(x)
    /\ held' = [held EXCEPT ![w] = Pending(wjob[w])]
    /\ Run(w, IF DeletesLast(wjob[w]) THEN "insert" ELSE "ask")
    /\ UNCHANGED <<job, docVars, dataVars, queue, clientVars, reviewVars, boundVars>>

\* What a processed document has to say: an extraction may find nothing, an
\* embedding makes chunks of every text that has any.
Found(j) ==
    IF j \in Extractions THEN SUBSET CandidateKinds
    ELSE IF DocOf[j] \in blank THEN {{}} ELSE {{Chunks}}

\* The new rows, and the commit; without drafts, the commit alone. The bound on runs holds back nothing: each
\* run began with a message of a trigger or of a crash.
InsertRows(w) ==
    /\ wpc[w] = "insert" /\ runs[wjob[w]] < MaxRuns
    /\ LET j == wjob[w]
           n == runs[j] + 1 IN
       \E found \in Found(j) :
          /\ row' = [x \in Rows |-> CASE x \in held[w] -> "deleted"
                                      [] x[1] = j /\ x[2] = n /\ Kind(x) \in found -> "PENDING"
                                      [] OTHER -> row[x]]
          /\ runs' = [runs EXCEPT ![j] = n]
    /\ Rollback(w)
    /\ Run(w, "complete")
    /\ UNCHANGED <<job, docVars, tasks, field, queue, clientVars, reviewVars, boundVars>>

\* mark_*_completed: a commit of its own, and a refresh that may fail
MarkCompleted(w) ==
    /\ wpc[w] = "complete"
    /\ job' = [job EXCEPT ![wjob[w]] = Emit(wsnap[w].status, "COMPLETED", @)]
    /\ \/ Run(w, "ack") /\ UNCHANGED boundVars
       \/ Run(w, "on_failure") /\ Fault
    /\ UNCHANGED <<held, docVars, dataVars, queue, clientVars, reviewVars>>

\* mutant: the deletion is committed, the status is left to on_failure
MarkFailedLater(w) ==
    /\ wpc[w] = "fail"
    /\ row' = [x \in Rows |-> IF x \in held[w] THEN "deleted" ELSE row[x]]
    /\ Rollback(w)
    /\ Run(w, "on_failure")
    /\ UNCHANGED <<job, docVars, runs, tasks, field, queue, clientVars, reviewVars, boundVars>>

\* mark_*_failed commits the session, and with it what the attempt deleted.
MarkFailed(w) ==
    /\ wpc[w] = "fail"
    /\ job' = [job EXCEPT ![wjob[w]] = Emit(wsnap[w].status, "FAILED", @)]
    /\ row' = [x \in Rows |-> IF x \in held[w] THEN "deleted" ELSE row[x]]
    /\ Rollback(w)
    /\ Run(w, "on_failure")
    /\ UNCHANGED <<docVars, runs, tasks, field, queue, clientVars, reviewVars, boundVars>>

\* A lost connection, or any other exception the task does not name
UnexpectedError(w) ==
    /\ wpc[w] \in {"claim", "fetch", "prepare", "ask", "delete", "insert", "complete", "fail"}
    /\ Run(w, "on_failure")
    /\ Rollback(w)
    /\ Fault
    /\ UNCHANGED <<job, docVars, dataVars, queue, clientVars, reviewVars>>

Retry(w) ==
    /\ wpc[w] = "retry"
    /\ Publish(wjob[w], wtry[w] + 1)
    /\ Run(w, "ack")
    /\ UNCHANGED <<held, job, docVars, dataVars, clientVars, reviewVars, boundVars>>

OnFailure(w) ==
    /\ wpc[w] = "on_failure"
    /\ Run(w, IF job[wjob[w]] = "PROCESSING" THEN "give_up" ELSE "ack")
    /\ UNCHANGED <<held, job, docVars, dataVars, queue, clientVars, reviewVars, boundVars>>

\* The session of on_failure has read PROCESSING, so FAILED is sent.
GiveUp(w) ==
    /\ wpc[w] = "give_up"
    /\ job' = [job EXCEPT ![wjob[w]] = "FAILED"]
    /\ Run(w, "ack")
    /\ UNCHANGED <<held, docVars, dataVars, queue, clientVars, reviewVars, boundVars>>

Vacate(w) ==
    /\ wpc' = [wpc EXCEPT ![w] = "idle"] /\ wjob' = [wjob EXCEPT ![w] = NoJob]
    /\ wtry' = [wtry EXCEPT ![w] = 0] /\ wsnap' = [wsnap EXCEPT ![w] = NoSnap]
    /\ Rollback(w)

Ack(w) ==
    /\ wpc[w] = "ack"
    /\ Vacate(w)
    /\ UNCHANGED <<job, docVars, dataVars, queue, clientVars, reviewVars, boundVars>>

WorkerFailure ==
    /\ workerCrashes < MaxWorkerCrashes
    /\ workerCrashes' = workerCrashes + 1
    /\ UNCHANGED <<triggers, faults, changes>>

\* The retry cannot be published, or on_failure itself fails.
HandlerLost(w) ==
    /\ wpc[w] \in {"retry", "on_failure", "give_up"}
    /\ WorkerFailure
    /\ Run(w, "ack")
    /\ UNCHANGED <<held, job, docVars, dataVars, queue, clientVars, reviewVars>>

\* The worker process dies; its message is delivered again.
WorkerCrash(w) ==
    /\ wpc[w] # "idle"
    /\ WorkerFailure
    /\ Publish(wjob[w], wtry[w])
    /\ Vacate(w)
    /\ UNCHANGED <<job, docVars, dataVars, clientVars, reviewVars>>

-----------------------------------------------------------------------------
(* Reviews: ExtractionReviewService *)

Step(q, pc) == rpc' = [rpc EXCEPT ![q] = pc] /\ UNCHANGED <<rop, rrow, rblank>>

Done(q) ==
    /\ rpc' = [rpc EXCEPT ![q] = "idle"] /\ rop' = [rop EXCEPT ![q] = "none"]
    /\ rrow' = [rrow EXCEPT ![q] = NoRow] /\ rblank' = [rblank EXCEPT ![q] = FALSE]

\* A PENDING candidate of a visible document, and what its acceptance writes.
ReviewBegin(q, op, x) ==
    /\ rpc[q] = "idle"
    /\ x[1] \in Extractions /\ row[x] = "PENDING" /\ DocOf[x[1]] \in live
    /\ rpc' = [rpc EXCEPT ![q] = IF op = "reject" THEN "mark"
                                 ELSE IF Kind(x) \in TaskKinds THEN "task"
                                 ELSE IF Kind(x) \in CourseKinds THEN "course" ELSE "mark"]
    /\ rop' = [rop EXCEPT ![q] = op]
    /\ rrow' = [rrow EXCEPT ![q] = x]
    /\ UNCHANGED <<rblank, job, docVars, dataVars, queue, workerVars, clientVars, boundVars>>

\* mutant: the candidate is marked before its task exists
MarkBeforeTask(q) ==
    /\ rpc[q] = "task"
    /\ row' = [row EXCEPT ![rrow[q]] = "ACCEPTED"]
    /\ Step(q, "mark")
    /\ UNCHANGED <<job, docVars, tasks, runs, field, queue, workerVars, clientVars, boundVars>>

\* create_task commits, then refreshes: a fault ends the request with or
\* without the task.
CreateTask(q) ==
    /\ rpc[q] = "task"
    /\ \/ tasks' = [tasks EXCEPT ![rrow[q]] = @ + 1] /\ Step(q, "mark") /\ UNCHANGED boundVars
       \/ tasks' = [tasks EXCEPT ![rrow[q]] = @ + 1] /\ Done(q) /\ Fault
       \/ Done(q) /\ Fault /\ UNCHANGED tasks
    /\ UNCHANGED <<job, docVars, row, runs, field, queue, workerVars, clientVars>>

\* _apply_course_info reads the course ...
ReadCourse(q) ==
    /\ rpc[q] = "course"
    /\ rpc' = [rpc EXCEPT ![q] = IF field[CourseOfRow(rrow[q])] = "blank" THEN "flush" ELSE "mark"]
    /\ UNCHANGED <<rop, rrow, rblank, job, docVars, dataVars, queue, workerVars, clientVars, boundVars>>

\* ... and sends the UPDATE of a field it read as blank, in the transaction
\* that marks the candidate.
FlushCourse(q) ==
    /\ rpc[q] = "flush"
    /\ ~CourseLocked(CourseOfRow(rrow[q]))
    /\ rpc' = [rpc EXCEPT ![q] = "mark"]
    /\ rblank' = [rblank EXCEPT ![q] = TRUE]
    /\ UNCHANGED <<rop, rrow, job, docVars, dataVars, queue, workerVars, clientVars, boundVars>>

\* mark_accepted, mark_rejected: the UPDATE waits for a run that has deleted
\* the candidate; if it is gone, the ORM raises and nothing is written.
MarkReviewed(q) ==
    /\ rpc[q] = "mark" /\ ~Locked(rrow[q])
    /\ LET x == rrow[q] IN
       \/ /\ row[x] # "deleted"
          /\ row' = [row EXCEPT ![x] = IF rop[q] = "accept" THEN "ACCEPTED" ELSE "REJECTED"]
          /\ field' = IF rblank[q] THEN [field EXCEPT ![CourseOfRow(x)] = "extracted"] ELSE field
          /\ UNCHANGED boundVars
       \/ row[x] = "deleted" /\ UNCHANGED <<row, field, boundVars>>
       \/ Fault /\ UNCHANGED <<row, field>>
    /\ Done(q)
    /\ UNCHANGED <<job, docVars, runs, tasks, queue, workerVars, clientVars>>

-----------------------------------------------------------------------------
Environment ==
    \/ \E d \in Docs : DeleteDocument(d) \/ RemoveText(d) \/ ProcessingMoves(d)
    \/ \E k \in Courses, value \in {"manual", "blank"} : EditCourse(k, value)
    \/ \E c \in Clients, j \in Jobs : TriggerBegin(c, j)
    \/ \E q \in Reviewers, op \in {"accept", "reject"}, x \in Rows : ReviewBegin(q, op, x)
    \/ \E w \in Workers : HandlerLost(w) \/ WorkerCrash(w)

RequestStep(c) == Enqueue(c) \/ MarkQueued(c)
ReviewStep(q) == CreateTask(q) \/ ReadCourse(q) \/ FlushCourse(q) \/ MarkReviewed(q)
Deliveries(w) == \E j \in Jobs, r \in 0..MaxRetries : Deliver(w, j, r)
TaskStep(w) ==
    \/ Claim(w) \/ Fetch(w) \/ Prepare(w) \/ Ask(w) \/ ProviderBusy(w) \/ DeleteRows(w)
    \/ InsertRows(w) \/ MarkCompleted(w) \/ MarkFailed(w) \/ UnexpectedError(w)
    \/ Retry(w) \/ OnFailure(w) \/ GiveUp(w) \/ Ack(w)

Next ==
    \/ Environment
    \/ \E c \in Clients : RequestStep(c)
    \/ \E q \in Reviewers : ReviewStep(q)
    \/ \E w \in Workers : Deliveries(w) \/ TaskStep(w)

Spec == Init /\ [][Next]_vars

\* Accepted requests and workers with something to do go on.
Fairness ==
    /\ \A c \in Clients : WF_vars(RequestStep(c))
    /\ \A q \in Reviewers : WF_vars(ReviewStep(q))
    /\ \A w \in Workers : WF_vars(Deliveries(w) \/ TaskStep(w))

FairSpec == Spec /\ Fairness

-----------------------------------------------------------------------------
(* Properties *)

\* Attempts that will write the next status of j: they hold a claim, or
\* continue one.
Finishes(w, j) ==
    /\ wjob[w] = j
    /\ \/ wpc[w] \in {"fetch", "retry", "on_failure", "give_up"}
       \/ wpc[w] \in {"prepare", "ask", "delete", "insert", "complete", "fail"}
          /\ wsnap[w].status = "PROCESSING"

\* Until a worker dies or a failure handler fails, a job that is PROCESSING is
\* in some attempt's hands: both triggers refuse PROCESSING, so nobody else
\* could ever move it (trigger_extraction, trigger_embedding, the two tasks).
JobHasOwner ==
    workerCrashes = 0 =>
        \A j \in Jobs : job[j] = "PROCESSING" =>
            \/ \E r \in 1..MaxRetries : queue[j][r] > 0
            \/ \E w \in Workers : Finishes(w, j)

\* With one worker process, as deployed, the rows on offer are those of one run,
\* although the status column lets a job run again while a message of an
\* earlier trigger is still on its way, and a retry runs without a claim: "a
\* re-run replaces the document's chunks outright", and a student never
\* reviews the same fact of two runs at once.
OneRunShown ==
    Cardinality(Workers) = 1 =>
        \A j \in Jobs : \A x, y \in Pending(j) : x[2] = y[2]

\* With one worker process, an embedding that says COMPLETED has its chunks,
\* unless the text makes none: the deletion is committed with the chunks that
\* follow or with FAILED, and alone only where no chunks follow
\* (DocumentEmbeddingService.embed, embed_document; that a text without chunks
\* ends as COMPLETED is what tests/services/test_document_embedding.py:123 asserts).
CompletedHasChunks ==
    Cardinality(Workers) = 1 =>
        \A j \in Embeddings :
            job[j] = "COMPLETED" /\ DocOf[j] \notin blank => Pending(j) # {}

\* An accepted assignment or exam has become a task, whatever runs, reviews
\* and faults come in between (accept commits the task first).
AcceptedHasTask ==
    \A x \in Rows : row[x] = "ACCEPTED" /\ Kind(x) \in TaskKinds => tasks[x] > 0

\* A run never removes a candidate a student has decided on, also one decided on
\* while the run was waiting for the provider (delete_pending_for_document).
ReviewedKept == [][\A x \in Rows : row[x] \in Reviewed => row'[x] \in Reviewed]_vars

\* What a student sees of the rows and of the tasks made of them.
Offered == [j \in Jobs |-> Pending(j)]
Seen == {x \in Rows : row[x] # "absent"}
Decided(status) == {x \in Rows : row[x] = status}
Planned == {x \in Rows : tasks[x] > 0}

Insights == INSTANCE DocumentInsights WITH
    offered <- Offered, seen <- Seen, planned <- Planned,
    accepted <- Decided("ACCEPTED"), rejected <- Decided("REJECTED"),
    Alone <- Cardinality(Workers) = 1

\* The extraction, the embedding and the review implement DocumentInsights: a
\* run replaces what is on offer at once, though it deletes and inserts in a
\* transaction others run beside; only an embedding that fails or finds no
\* chunks takes rows back; a decision is on a row still on offer or decided
\* before, and is never undone by a run; an accepted assignment or exam is a
\* task by then; and nothing but the student and an accepted course candidate
\* touches the course field.
ImplementsInsights == Insights!Spec

\* A job does not stay PROCESSING. Holds of FairSpec up to worker crashes.
JobEnds ==
    \A j \in Jobs : job[j] = "PROCESSING" ~> job[j] # "PROCESSING" \/ workerCrashes > 0

(* What the repository's texts say of the review, and the code does not do. *)

\* docs/DOCUMENT_PIPELINE.md:31, accepting "fills a `Course` field only if it was
\* previously blank (never silently overwrites a manually-entered value --
\* manual data always wins)".
ManualDataWins == [][\A k \in Courses : field[k] = "manual" => field'[k] # "extracted"]_vars
=============================================================================
