# Tactica AI backend: TLA+ specifications

Specifications of the backend under `src/` (FastAPI, SQLAlchemy, Celery,
PostgreSQL, Redis), model-checked with TLC and, but for the migrations, proved with
TLAPS: the components whose steps interleave for any number of users, requests and
workers, the computations for every input.
Every component that keeps state two actors share is specified: the document
pipeline and the AI jobs behind it, the planner (semesters, courses, tasks),
accounts and sessions, the roadmap, chat, calendar, reminders, the database
migrations; and beside them the computations the API is built on.

    tlc -workers 2 -config pipeline_races.cfg MC_DocumentPipeline.tla
    tlc -workers 2 -config ai_jobs.cfg MC_AiJobs.tla
    tlc -workers 2 -config planner.cfg MC_Planner.tla
    tlc -workers 2 -config accounts.cfg MC_Accounts.tla
    tlc -workers 2 -config services.cfg MC_Services.tla
    for m in DocumentPipeline AiJobs Planner Accounts Roadmap Chat CalendarReminders \
             Algorithms
    do tlapm ${m}_proofs.tla; done

| Module | Component | Instance |
|---|---|---|
| `DocumentPipeline`, `DocumentLibrary`, `DocumentPipeline_proofs` | upload, reprocess, delete, processing; what they promise; the proofs | `MC_DocumentPipeline` |
| `AiJobs`, `DocumentInsights`, `AiJobs_proofs` | extraction, embedding, review; what they promise; the proofs | `MC_AiJobs` |
| `Planner`, `Planner_proofs` | semesters, courses, tasks and what their routes answer | `MC_Planner` |
| `Accounts`, `Accounts_proofs` | accounts, sessions, mailed tokens, rate limiter | `MC_Accounts` |
| `Roadmap`, `Roadmap_proofs`; `Chat`, `Chat_proofs`; `Calendar`, `Reminders`, `CalendarReminders_proofs` | the components of these names | `MC_Services` |
| `Migrations` | the schema, its revisions and the models | `MC_Services` |
| `Algorithms`, `Algorithms_proofs` | weeks and items, chunks, lists and dashboard, recovery plan, degree advisor | `MC_Services` |

## 1. The system

One uvicorn process serves the API, one Celery worker (`--pool=solo`) runs the
background tasks, a beat process sends the reminder task every 15 minutes
(`compose.yaml`). They share PostgreSQL (READ COMMITTED, one ORM session per
request or task, `autoflush=False`, `expire_on_commit=False`), a file storage
(local disk or R2) and Redis (broker, rate limits). Routers call services,
services call repositories; synchronous handlers run in a thread pool, so any two
of them interleave; the one `async` handler that writes, the upload, runs on the
event loop from its last `await` on.

| Component | State | Operations | Interacts with | What makes it correct |
|---|---|---|---|---|
| Document pipeline (`services/document_*.py`, `worker/tasks/documents.py`) | rows of `documents`, files, extracted JSON artifacts, messages | upload, reprocess, delete, `process_document` | storage, broker, courses | visible documents can be read; COMPLETED has text; PROCESSING ends; no duplicates; no leaked files |
| Structured extraction (`worker/tasks/extraction.py`, `services/document_extraction*.py`) | `llm_extraction_status`, candidates | trigger, `extract_document` | pipeline, LLM, review | candidates of one run at a time; reviewed ones are kept |
| Extraction review (`services/extraction_review.py`) | candidate status, tasks, course fields | accept, reject | extraction, tasks, courses | one decision per candidate, one task per accepted candidate, manual data wins |
| Chunk embedding and retrieval (`worker/tasks/rag.py`, `services/document_embedding*.py`, `chunking.py`, `retrieval.py`) | `chunk_embedding_status`, chunks | trigger, `embed_document`, search | pipeline, provider | chunks of one run only; chunks cover the text |
| Semester roadmap (`worker/tasks/roadmap.py`, `services/roadmap_*.py`) | roadmap, weeks, items | trigger, generate, edit item | tasks, LLM | edits survive; every open task has one item |
| Recovery planning (`services/recovery_planning.py`) | none | rank | tasks | the promised order |
| Accounts and sessions (`services/auth_service.py`, `token_service.py`, ...) | users, refresh, reset and verification tokens | register, login, refresh, logout, reset, delete | mail | one live token per family; a reset or deletion ends every session |
| Rate limiting (`api/rate_limit.py`) | Redis counters | check | Redis | limits hold, windows end |
| Notifications (`services/notification_*.py`) | preferences, log | set preference, reminder batch | mail provider, beat | opt-out respected; nothing sent twice |
| Calendar (`services/calendar_*.py`) | connection, sync rows, remote events | connect, sync, unsync | Google, tasks | one event per task; none left behind |
| Tasks (`services/task.py`) | tasks | create, update, complete, reopen, delete, list | calendar | `completed_at` set exactly when COMPLETED; pages and counts agree |
| Semesters and courses (`services/semester.py`, `course.py`) | rows | create, update, delete, list | everything owned | one ACTIVE semester per name and year, one ACTIVE course per code, owners keep their rows |
| AI chat (`services/chat.py`) | conversations, messages | a turn, list | retrieval, LLM | whole turns |
| Dashboard (`repositories/dashboard.py`) | none | count, upcoming | tasks | agrees with the lists |
| Degree recommendation (`services/degree_recommendation.py`) | progress, catalogue | progress, recommend | LLM, courses | only courses the student may take |
| Migrations (`alembic/versions`) | the schema | upgrade, downgrade | models | the head is what the models declare |

Hard behaviours: messages published before the status that announces them is
written; statuses written against rows loaded earlier; claims, retries and
redeliveries; storage calls outside any transaction; check-then-act on the
database; external calls made before they are recorded. `PROJECT.json`
lists them under `hazards`, each at its line.

## 2. DocumentPipeline

`DocumentPipeline.tla` is the detailed specification, `DocumentLibrary.tla` what
it promises, `MC_DocumentPipeline.tla` the instance TLC checks,
`DocumentPipeline_proofs.tla` the proofs.

**State.** Per document: `status` (`processing_status`, or `absent` before the
insert), `error`, `deleted`, `hasPath` (`extracted_content_path` is set), `content`
(the bytes, hence the checksum). `originals` and `artifacts` are the files in
storage, `queue` the deliveries waiting, by their `retries` header.
`wpc`, `wdoc`, `wtry`, `wsnap`, `wreason` are the worker processes, `cpc`, `cop`,
`cdoc`, `csnap` the requests in progress; the `snap` variables hold what
an ORM session loaded and uses later. `disowned` is history: documents whose
upload failed after its commit.

**Steps.** One step is one statement the outside can observe: a commit, a storage
call, a publish, or a load whose result is used later. Requests an early return
refuses change nothing.

| Code | Actions |
|---|---|
| `DocumentUploadService.upload_document` | `UploadAdmit` (up to the await), `UploadCheck` (duplicate), `UploadStore`, `UploadInsert`, `UploadInsertFails`, `UploadRefreshFails`, `Enqueue`, `MarkQueued` |
| `DocumentReprocessService.reprocess_document` | `ReprocessBegin`, `Enqueue`, `MarkQueued` |
| `DocumentDeleteService.delete_document` | `DeleteBegin`, `SoftDelete`, `DeleteOriginal`, `DeleteArtifact` |
| `CourseService.delete_course` | `RemoveCourse` |
| `process_document` | `Deliver`, `Claim`, `Fetch`, `Load`, `SaveArtifact`, `MarkCompleted`, `MarkFailed`, `Ack` |
| autoretry, `on_failure` | `StorageError`, `UnexpectedError`, `Retry`, `OnFailure`, `GiveUp`, `HandlerLost` |
| death of a process | `WorkerCrash` (redelivery), `ApiCrash` |

`Emit` is the ORM's unit of work: a column is sent only when the new value
differs from the one loaded. It decides what two overlapping deliveries leave in a
row. `EventLoopFree` is the event loop: two uploads of one API process do not
interleave after their await.

**Assumed of the environment.** A commit takes effect and returns, or has no
effect. The broker delivers every message, in any order, and redelivers those a
dead worker held. A storage call is atomic. Names of stored files are new
(`uuid4`). What the PDF reader makes of a file depends on the file alone.

**Abstracted.** Names, sizes, MIME types, page counts and wording; the `download`
and list handlers, which only read; `processed_at`, `extraction_method`.

### Properties

| Property | Says |
|---|---|
| `TypeOK` | types; a worker with a delivery has its document and retries only while attempts are left |
| `ListedHasOriginal` | a visible document has its file, but for an upload whose connection fails between commit and refresh |
| `PublishedHasArtifact` | a visible document that names an extracted text has it |
| `CompletedHasText` | COMPLETED implies a published text |
| `ProcessingHasOwner` | until a worker dies or a failure handler fails, somebody will write the next status of every PROCESSING document |
| `NoDuplicateListed` | no course shows the same bytes twice (one API process) |
| `NoOrphanOriginal` | without a failed call or a dead API process, no file is left that nobody shows or is about to |
| `ErrorMatchesStatus` | with one worker, FAILED has a reason and COMPLETED none |
| `ImplementsLibrary` | the pipeline refines `DocumentLibrary` |
| `ProcessingEnds` | PROCESSING ends |
| `DeletedFileGoes` | a deleted document loses its file unless a call fails or the API process dies |

`DocumentLibrary` has a catalogue and shelves and changes one of them at a time:
a file is stored before its entry is listed, an entry is listed only when no
listed one has the same bytes, it is struck out for good before the shelves are
touched, a text is stored before it is announced. The refinement maps `listing`
to the row's status and deletion mark and `texts` to `hasPath`; the storage is the
same in both.

### Runs

| Run | Instance | Shows |
|---|---|---|
| `pipeline_races` | 1 document, native or corrupt, 2 workers, 2 requests at a time, 2 accepted uploads or reprocesses, 1 retry, 1 fault, 1 worker death | `ListedHasOriginal`, `PublishedHasArtifact`, `CompletedHasText`, `ProcessingHasOwner` |
| `pipeline_deployed` | 2 documents, native or scanned, 1 worker, 2 requests at a time, 1 fault, 1 API death | `NoDuplicateListed`, `NoOrphanOriginal`, `ErrorMatchesStatus`, `ImplementsLibrary` |
| `pipeline_liveness` | 1 document, 2 workers, 1 request at a time, 2 faults, the course may go | `ProcessingEnds`, `DeletedFileGoes` |
| `stuck_processing` | 1 worker, 1 worker death, fair | `ProcessingEnds` fails |
| `double_processing` | 2 workers, no fault | `OneProcessor` fails |

The bounds. Two deliveries of a document (`MaxRequests = 2`) are what it takes for
a claim, a `mark_queued` and a completion to overwrite each other; the second
worker lets them overlap; one retry (3 in the code) separates a first attempt, a
retry and a last attempt; one fault reaches every error path but the failure of
the last retry, for which `pipeline_liveness` has two; two documents with possibly
equal content are what a duplicate needs. Deadlock checking is off:
users may stop sending requests. Symmetry is used in the safety runs only.

**Fairness.** A request that was accepted goes on, and a worker with a delivery,
waiting or running, goes on: threads, the event loop and the Celery consumer
schedule them without condition. Nobody has to send a request, and no fault or
crash has to happen.

### What the code does not do

* *A worker that dies after its claim leaves the document PROCESSING*
  (`stuck_processing`). The redelivered message has `retries` 0, cannot claim a
  PROCESSING row and is dropped; `reprocess` refuses PROCESSING. The module docstring
  of `worker/tasks/documents.py` says this cannot happen.
* *A document can be processed twice at once* (`double_processing`), because
  `mark_queued` is written after the message is published, without looking at the
  row; it takes a reprocess of a document still UPLOADED. The safety properties
  above hold all the same.

Three more, without a run: the same late `mark_queued` turns a COMPLETED document
back to QUEUED, with no message left and `reprocess` refusing it
(`docs/DOCUMENT_PIPELINE.md:15` has COMPLETED as an end); `process_document` claims to notice a document deleted
in mid-flight, but `get_by_id` also returns deleted rows, so it finishes and may
save an artifact after the delete has looked for one; and the try around
the upload's commit includes the refresh after it, so that a connection lost in
between deletes the file of a committed row (`UploadRefreshFails`, `disowned`).

## 3. AiJobs

`AiJobs.tla` specifies what follows the pipeline: the structured extraction, the
chunk embedding and the review of candidates; `MC_AiJobs.tla` is the instance. The
two tasks are copies of one design (their docstrings say so), so a *job* is the
status column of either, and the actions are shared; where they differ, the
order of provider call and deletion and the rows replaced, the action asks which
job it runs.

**State.** `job` (`llm_extraction_status`, `chunk_embedding_status`); `live`, `ready`,
`texts`, what the pipeline says of a document (not deleted, COMPLETED, text in
storage); `blank`, documents whose normalised text makes no chunks; `row`, candidates and chunks by run and kind with their
`CandidateStatus`; `tasks` made of a candidate; `field`, a course column that a
COURSE_INFO candidate fills; queue, workers and requests as in the pipeline;
`held`, the rows an attempt has deleted in a transaction still open.

| Code | Actions |
|---|---|
| `trigger_extraction`, `trigger_embedding` | `TriggerBegin`, `Enqueue`, `MarkQueued` |
| `extract_document`, `embed_document` | `Deliver`, `Claim`, `Fetch`, `Prepare`, `Ask`, `DeleteRows`, `InsertRows`, `MarkCompleted`, `MarkFailed`, `Ack` |
| autoretry, `on_failure` | `ProviderBusy`, `UnexpectedError`, `Retry`, `OnFailure`, `GiveUp`, `HandlerLost`, `WorkerCrash` |
| `ExtractionReviewService` | `ReviewBegin`, `CreateTask`, `ReadCourse`, `FlushCourse`, `MarkReviewed` |
| the pipeline and `update_course` | `DeleteDocument`, `RemoveText`, `ProcessingMoves`, `EditCourse` |

Transactions matter here. A deletion is visible and final only at the next commit
of its session, which may be `InsertRows` or `MarkFailed`; every other way out
of an attempt undoes it (`Rollback`). The rows are locked meanwhile, so a review
that marks one of them waits (`Locked`), and finds it gone or not. `FlushCourse`
locks the course until the review commits.

| Property | Says |
|---|---|
| `JobHasOwner` | until a worker dies or a failure handler fails, somebody will write the next status of every PROCESSING job |
| `OneRunShown` | with one worker, pending candidates and chunks are of one run |
| `CompletedHasChunks` | with one worker, a COMPLETED embedding has chunks, unless its text makes none |
| `AcceptedHasTask` | an accepted assignment or exam has a task |
| `ReviewedKept` | no run removes a candidate that was decided on |
| `ImplementsInsights` | the three refine `DocumentInsights` |
| `JobEnds` | PROCESSING ends, unless a worker dies |

`DocumentInsights` is what a student may rely on, without status columns, workers,
transactions or requests. Its state is the rows on offer, the rows ever seen, the
candidates accepted, rejected and made into tasks, and the course field. `Offer`
replaces a job's rows by new ones of one run; `Withdraw` takes chunks back, never
candidates; `Plan`, `Accept` and `Reject` are the review, and `Accept` of an assignment
or exam comes after its `Plan`; `EditCourse` is the student's. With `Alone`, one worker
process, nothing of what was on offer stays beside the new rows; otherwise some may,
as two runs can then overlap. The refinement reads all six off the tables
(`Offered`, `Seen`, `Decided`, `Planned`): a deletion not yet committed is still on offer,
so deletion and insertion become one step. `AcceptedHasTask` holds of `DocumentInsights`,
so no run checks it beside the refinement; its proof needs it first.

| Run | Instance | Shows |
|---|---|---|
| `ai_jobs` | one document, blank or not, an extraction and an embedding, 1 worker, 2 triggers, 1 retry, 1 fault, 1 worker death, 1 change of the document or course, no review, fair | `JobHasOwner`, `OneRunShown`, `CompletedHasChunks`, `JobEnds` |
| `extraction_review` | one extraction finding any of an assignment and course information, 2 reviews at once, 2 triggers, no retry, 1 fault | `ReviewedKept`, `ImplementsInsights` |
| `manual_overwritten` | one extraction, 1 review, 1 edit of the course | `ManualDataWins` fails |

Two triggers let a job run again while a message of the first is under way; a
retry with one fault is what reaches a job another message has completed;
two reviews at once meet both each other and a run. An extraction that was
reviewed and triggered again is two runs, which is where `ReviewedKept` bites.
`MaxRuns` sizes the table of rows; it is the number of messages there can be (one per
trigger, one more per worker death), so the guard of `InsertRows` stops no run.

What the code does not do: *manual data does not always win*
(`manual_overwritten`). Without a run of their own: an accept and a reject of one
candidate that overlap both read PENDING, so a REJECTED candidate may have a task,
and two overlapping accepts make two tasks; a candidate that a run deletes
between `create_task` and `mark_accepted` leaves its task and an error response;
with a second worker process two runs may overlap and leave the rows of both;
and the chunks of a deleted document are never removed, so retrieval still finds
them.

A `blank` document is one whose pages `chunk_document_pages` cuts into nothing. The
OCR heuristic does not keep it out: it counts the raw characters of a page
(`ocr_heuristic.py:25`), of which the normalisation then removes those of category C
(`normalization.py:22`). Its embedding deletes what chunks there are, asks no
provider and ends COMPLETED without any (`document_embedding.py:97-103`, and
`tests/services/test_document_embedding.py:123`), so `CompletedHasChunks` is about the other
documents, and `OneRunShown`, `JobHasOwner` and `JobEnds` about both.

Left out: what the LLM finds in a text and the fields of a candidate (`KindsOf`),
the error texts, and a course that is deleted (it only takes triggers and reviews away).

## 4. Planner

`Planner.tla`: semesters, courses and tasks, and the routes in front of them.

**State.** `semesters`, `courses`, `tasks`: rows by key, or `Null`; `requests`, one
record per thread, with the row it loaded; `raced`, history: rows written over a
version newer than the one loaded. Two spellings of one term (`Names`) tell apart
the duplicate check, which ignores case, and the index, which does not.

| Code | Actions |
|---|---|
| `SemesterService.create_semester`, `update_semester`, `delete_semester` | `CreateSemester`, `CheckSemester`, `InsertSemester`; `UpdateSemester`, `CheckSemester`, `WriteSemester`; `DeleteSemester`, `SoftDeleteSemester` |
| `CourseService.create_course`, `update_course`, `delete_course` | `CreateCourse`, `CheckCourse`, `InsertCourse`; `UpdateCourse`, `CheckCourse`, `WriteCourse`; `DeleteCourse`, `SoftDeleteCourse` |
| `TaskService.create_task`, `update_task`, `mark_task_completed`, `reopen_task`, `delete_task` | `CreateTask`, `InsertTask`; `UpdateTask`, `CompleteTask`, `ReopenTask`, `DeleteTask`, then `WriteTask` |

Load, check and write are three steps with other requests between them.
`SemesterIndex` and `CourseIndex` are the partial unique indexes, consulted by the
write itself. An update sends the attributes that differ from the loaded row
(`Flushed`), and always a new time of completion (`Differs`). What a body may hold is
the assumption `BodiesFitSchemas`, the request schemas; they let through what the
database refuses: explicit nulls, `credits` of 0 (`check_course_credits_positive`) and the
id of no document (`DocumentIds` are the ids a task may name, `Documents` those there
are; `TaskStorable` is the foreign key, which any student's document satisfies). `SemesterRoutes`, `CourseRoutes` and `TaskRoutes` hold, per route, the
errors it catches, their status codes and the statuses its documentation lists.

| Property | Says |
|---|---|
| `NoDuplicateActive` | no two live ACTIVE semesters of a student share name and year, no two live ACTIVE courses of a semester a code |
| `OnlyRacesBreakRows` | a semester that ends before it starts, or a `completed_at` on an open task, was written over a newer row; a COMPLETED task always has its `completed_at` |
| `OwnershipKept` | a course stays with the student who created it |
| `ConflictIsReal` | a duplicate is reported only when there is one, but for a course's explicit null or 0 credits |
| `AnswersDocumented` | every answer is one the route documents, but for explicit nulls and a source document that does not exist |

Run `planner`: 2 students, 2 semesters, 2 courses, 1 task, 2 threads, 4 requests; a
behaviour uses the operations on semesters, on courses (and the deletion of a
semester) or on tasks (and the deletion of a course). Two rows are a duplicate, two
threads a race; four requests create two rows and change both. The mixes keep
apart what shares no row.

Left out: numbers beyond their integer column, NUL characters in texts and a database
that is down, each a 500; the columns nothing here depends on.

What the code does besides: creating and updating a course report every
`IntegrityError` as a duplicate code (`services/course.py:92`, `:271`), so the first course
of a semester is refused with 409 when it has 0 credits, which the schema, the model
(`models/course.py:40`) and the tests (`tests/test_course_schemas.py:77`) allow, and so is
the explicit null of an update: `ConflictIsReal` names these two bodies as its
exceptions, and no others. `course_code: null` raises an `AttributeError`;
`status: null` of a task, and a `source_document_id` that names no document, an
`IntegrityError` that no route catches (`services/task.py:85`, `:238`): each an undocumented 500; two
ACTIVE semesters whose names differ in case can both be created at once, because
the index compares exactly (`services/semester.py:64`).

## 5. Accounts

`Accounts.tla`: registration, login, refresh, logout, reset, verification, profile
and deletion (`routers/auth.py`), and the limiter (`api/rate_limit.py`).

**State.** `users`, `refresh`, `resets`, `verifies`: rows by key; `counter`, one Redis
key of a limiter; `requests`, the threads; `now`, the clock that expires tokens,
locks and counters. A refresh token remembers, as history, the password its
session was opened with, a reset token how often it set one. The ghost variables
name what races and deaths did, so that a property can say what holds otherwise.

| Code | Actions |
|---|---|
| `login_user`, `issue_refresh_token` | `LoginUser`, `LoginFails`, `LoginSucceeds`, `IssueRefreshToken` |
| `rotate_refresh_token`, `_revoke_family`, `logout` | `LoadRefreshToken`, `RotateRefreshToken`, `RevokeFamily`, `LoadLogout`, `RevokeRefreshToken` |
| password reset | `RequestPasswordReset`, `CreateResetToken`, `LoadResetToken`, `ConsumeResetToken`, `LoadResetUser`, `SetPassword`, `RevokeAllForUser` |
| registration, verification | `RegisterUser`, `InsertUser`, `CreateVerificationToken`, `ResendVerification`, `LoadVerificationToken`, `ConsumeVerificationToken`, `SetVerified` |
| profile, deletion | `UpdateMe`, `UpdateProfile`, `DeleteAccount`, `Anonymise`, `RevokeAllForUser` |
| `_check_rate_limit` | `Increment`, `Expire`, `RedisError` |
| death of the process | `Crash` |

| Property | Says |
|---|---|
| `SessionsFollowPassword` | a live session was opened with the password its user has now, but for a revocation still to come, one a death cut off, and a login or rotation that had already checked the old one |
| `OneLiveToken` | a family has one live token, none after a reuse, unless two requests had both read it as live |
| `ResetTokenOnce` | a reset token sets one password, unless two requests had both read it as unused |
| `LockAfterFailures` | so many wrong passwords lock, unless the user's row was written over a newer one |
| `DeletedIsAnonymous` | a deleted account has not its address, nor its name unless the user's row was written over a newer one |
| `CounterExpires` | a limiter's counter has an expiry or is about to, unless a death or Redis error came in between |

Run `accounts`: room for two accounts on one address, two passwords, three tokens
of each kind, two threads, four requests, two ticks, one fault, five mixes of
operations. Three tokens are a login and two rotations; two wrong passwords lock
(5 in the code); one tick outlives a token, a lock and a window.

What the code does besides: the limiter's docstring says it fails open, but an error
between INCR and EXPIRE leaves a counter that refuses for ever
(`api/rate_limit.py:22`); a profile update that loaded the account before its deletion
writes the name back; a reset token issued before a deletion still sets a password
on the deleted account, which cannot log in; two registrations of one address at
once end in an unhandled `IntegrityError` (`services/auth_service.py:49`).

## 6. The smaller components

`MC_Services` runs six modules side by side: `part` names the one that moves, so their
states add up and do not multiply. They share no variable in the code either, but
for tasks, which every module treats as changing at any time.

**Roadmap.** One semester's roadmap: `status`, `weeks`, `items`; `agenda`, what
`compute_deterministic_items` would give each task now; messages, triggers,
workers, one editing request. A generation is one transaction: `ClaimRoadmap`
commits first, `LoadPlan`, `InsertWeeks`, then per item `LoadItem` and `FlushItem` (the
row is locked from there on), `CommitItems`, `Recommend`, `CompleteRoadmap`;
`TaskRaises`, `OnFailure` and `MarkRoadmapFailed` are the error path,
`RoadWorkerDies` and `TriggerDies` the deaths. `EditsSurvive`: no regeneration touches an
edited item, unless the edit fell between its load and its UPDATE. `OneItemPerTask`:
a task has one computed item, unless two triggers overlapped or one died before
`mark_queued`. Bounds: 2 tasks, 2 triggers, 2 workers, 1 upset (death, error, edit or
change of a task). Besides: a late `mark_queued` leaves the roadmap QUEUED, which the
trigger refuses, for ever; so does a worker's death leave it PROCESSING; weeks of a
semester that was shortened are never deleted.

**Chat.** A turn: `SendMessage` (ownership), `AddQuestion` (history and the question, not
committed), `Retrieve`, `Reply` (filter, answer, commit) or `TurnFails` (rollback). The
history is the set of the last messages by id; its order is that of the ids.
`WholeTurns`: questions and answers are committed in pairs, and the window shown to
the model is made of pairs unless turns of the conversation overlapped. Bounds: 2
students, 2 threads, 3 turns, a window of 2 (10 in the code, even as well). Besides:
`updated_at` is the transaction's start, so it may go back; of a citation the filter
checks the chunk, not the document the model names.

**Calendar.** One task's event: `Connect`, `FindRow`, `InsertRow`, `CallProvider`, `Store` for a
sync, `FindEvent`, `RemoveEvent`, `ForgetRow` for a removal, `Reconnect`, `CallerDies`; the
provider refuses, or acts and loses its answer. `OneEvent`: at most one event, unless
an id was lost or two syncs both created one. `DeletedTaskHasNoEvent`: nor one of a
deleted task, unless its removal failed or a sync was under way. Bounds: 2 callers, 5
calls. Besides: a lost answer or a death leaves an event nobody will delete; the
unsync route documents 503 but catches none of the provider's errors.

**Reminders.** Runs of the job that may overlap: `StartRun`, `CheckReminder` (preference and
log), `SendEmail`, `LogSent` (unique per type and task), `FinishRun`, `RunDies`;
`TimePasses`, `MarkTask`, `SetPreference`. `SentOnce`: one mail per reminder, unless two
runs held it at once or a mail left without a log; `notification_service.py:7-9`
promises it without exception. Bounds: 1 exam, 2 workers, 3 runs, 2 changes. Besides: the
`IntegrityError` of a second log row is not caught and ends the batch.

**Migrations.** The revisions as sequences of operations on a schema, a set of
elements (tables, columns with nullability, enum types and labels, indexes,
constraints, foreign keys), and the tables' rows by their status. `UpgradeTo` and
`DowngradeFrom` run one revision in one transaction, in any order the graph allows;
`StoreRow` is the application. `HeadMatchesModels`: at the head the schema is that of the
`...Model` definitions, the SQLAlchemy models. `SchemaFollowsRevisions`: the applied
revisions determine the schema, whatever was upgraded, downgraded and upgraded
again. `CompletedSurvives`: no conversion turns COMPLETED into something else. Check
constraints and predicates of partial indexes are left out of the first, where the
head does differ: `check_course_credits_positive` and `check_hex_color` stay (so credits
of 0, which the schemas accept, are refused, section 4), and the predicate of the
semesters' index. Besides: the downgrade of 3b4e drops a constraint without a name
and always fails; that of 17a4 leaves its enum types; that of 25e1 adds a NOT NULL column
without a default, and the upgrade of 3b4e does so on documents: both fail once
there are rows.

**Algorithms.** Pure computations; a state is one input, an invariant compares the
result with a definition that says what it is for.

| Property | Computation and inputs |
|---|---|
| `WeeksCoverSemester` | `compute_weeks`, `compute_deterministic_items`: semesters of -1 to 16 days, due dates around both ends, every status |
| `ChunksCoverText` | `chunk_document_pages`: three pages of up to 3 characters, blanks or not, window 4, overlap 1 |
| `ListsAgree` | lists and counts of tasks, documents and semesters, dashboard, reminders, `Task.is_overdue`: two tasks or three rows, pages of 1 and 2 |
| `RecommendedIsReady` | progress, eligibility and the filter on the model's answer: catalogue of 4, all sets of up to 4 prerequisites and 2 requirements |
| `OverdueFirst` (fails) | `build_recovery_plan`: five tasks due two days ago, in 6 or in 30 hours |

Windows of 1000 with an overlap of 150 meet the same borders at 4 and 1: a page
shorter, as long as and longer than the rest of a window. `OverdueFirst` fails
(`overdue_first`): the cluster bonus and the effort outweigh the distance of the
tiers, which the comments at `services/recovery_planning.py:37` and `:45` rule out.
Besides: the recovery plan considers the 1000 newest tasks only; the advisor counts a
course as completed whatever its status, and nothing checks that prerequisites are of
one institution (`models/degree.py:57`); the lists of courses have no tie-breaker, so
their pages may repeat or miss a row.

## 7. Runs of sections 4 to 6

| Run | Distinct states | Shows |
|---|---|---|
| `planner` | 887 436 | the five properties of section 4 |
| `accounts` | 479 372 | the six of section 5 |
| `services` | 142 806 | the thirteen of section 6 |
| `overdue_first` | | `OverdueFirst` fails |

No deadlock is checked: users may stop sending requests, and a computation has one
state. These runs are of safety only; what the modules would owe to fairness is
either the pattern `AiJobs` has already (a claim and `on_failure`) or refuted above
(a roadmap left QUEUED). Threads, workers and triggers are symmetric. Properties with
"unless" name the race, death or lost answer that breaks them in a ghost variable:
the code has no lock or constraint against it, and the property says that nothing
else breaks it.

## 8. What is proved

Every theorem holds for all values of the constants that satisfy the assumptions named
below, so the bounds of sections 2 to 7 do not limit it. `NoDuplicates` and `Refinement`
have a hypothesis of their own (one API process), and three theorems about
computations describe their input: what the tables and the request schemas
guarantee of it, and what every input of the `services` run satisfies.

### DocumentPipeline_proofs

From `ConstantsAssumption` (the workers are finitely many, the bounds are numbers);
`NoDuplicates` and `Refinement` also assume `OneProcess`, the deployed case, without which
they are false.

* `TypeCorrect`: `Spec => []TypeOK`. `TypeOK` is inductive; the lemmas are stated
  for the operators the actions share (`Begin`, `Continue`, `Respond`, `Run`, `Vacate`).
* `OwnerSafety`: `Spec => []ProcessingHasOwner`, inductive relative to `TypeOK`. The
  argument: only a claim writes PROCESSING, the claimer owns the document
  (`ClaimerOwns`); an owner's step keeps it an owner, leaves a retry waiting, or
  writes another status (`OwnerMovesOn`), because an owner either has not loaded
  the row or loaded PROCESSING, and then the ORM does send its status; nobody
  else's step matters (`OthersWait`, `RetriesWait`).
* `StorageSafety`: `ListedHasOriginal`, `PublishedHasArtifact` and `CompletedHasText`.
  They say nothing of requests and tasks in flight, so the induction is on
  `StorageInv`: `RowInv` (the three, and what an absent row lacks), `RequestInv` (an
  upload has its document to itself until the insert, a delete reaches storage
  only with the row marked) and `TaskInv` (deliveries are of inserted rows; a task
  about to complete has stored its artifact, or the document is deleted).
* `OrphanSafety`: `NoOrphanOriginal` says that a file nobody shows is in the hands of
  some request. `OrphanInv` names it: an upload that has stored and not inserted, or a
  delete about to remove; and an upload that has not stored yet finds no file.
* `ReasonSafety`: `ErrorMatchesStatus`, with one worker. `ReasonInv`: only the worker
  writes an error, so its session has the row's; the status of the row is the one it
  loaded, or QUEUED, which the API may write at any time. So whatever the ORM leaves
  out of its UPDATE is in the row already.
* `NoDuplicates`: from `UploadInv`: at most one upload is past its check, and no
  duplicate of it was listed since.
* `Refinement`: `Spec => ImplementsLibrary`, step by step from the first two invariants
  and `UploadInv`.

### AiJobs_proofs

From `AiConstantsAssumption` (finitely many workers, numeric bounds, kinds of rows).

* `AiTypeCorrect`: `TypeOK`, with `BoundsOK`: no retry passes the last, no run the table.
* `JobOwnerSafety`: `JobHasOwner`, the argument of `OwnerSafety`.
* `AcceptSafety`: `AcceptedHasTask`. A review commits the task before it marks the
  candidate; `AcceptInv` adds that a review about to mark an assignment or exam has
  made its task.
* `ReviewedSafety`: the action property `ReviewedKept`. What an open transaction has
  deleted stays PENDING until it commits, because reviews of it wait; nothing is written
  over an existing row, because runs are numbered (`RowInv`).
* `OneRunSafety`, `ChunksSafety`: `OneRunShown` and `CompletedHasChunks`, with one worker.
  `SoleInv`: the rows on offer are among those the attempt has deleted when it
  inserts; chunks are there when it is about to complete, unless the document is
  `blank` (and then it always was: `BlankStays`); a row that says COMPLETED was
  loaded as COMPLETED, so that FAILED is sent.
* `InsightsRefinement`: `Spec => ImplementsInsights`, from the invariants above and three
  more: an attempt has deleted rows only between its deletion and its commit
  (`HeldUntilCommit`); a sole worker that is about to fail has deleted all of its job's or
  none (`FailsWithAll`), so a failure withdraws all or nothing; and each step of a review is one
  its candidate's kind admits (`ReviewByKind`). Every commit of an attempt is an `Offer`, a
  `Withdraw` or leaves what is visible alone; every step of a review is a `Plan`, an
  `Accept`, a `Reject` or a stutter.

### Planner_proofs

From the assumptions on `Null`, keys, dates and request bodies (`NullIsNothing`,
`KeysAreNumbers`, `DatesAreNumbers`, `DocumentsAreNumbered`, `BodiesFitSchemas`).

* `PlannerTypeCorrect`, `DuplicateSafety`, `RowRulesSafety`, `OwnershipSafety`: `TypeOK`,
  `NoDuplicateActive`, `OnlyRacesBreakRows`, `OwnershipKept`. One induction, on `PlannerInv`:
  the tables (types, both unique indexes, each course in a semester of its creator,
  rows that keep the rules unless `raced`) and, for each request in progress, what
  its load and check established (`Holds`). An update writes a mix of the row it
  loaded and the row as it is; the rules of dates and completion hold of the mix unless
  the row changed in between, which is what `raced` records (`Flushed`, `Over`).
* `ConflictsAreReal`: `ConflictIsReal`. The error comes from the check, which saw the
  duplicate, or from an index that refuses the write; as the index held of the
  table before, the row that offends is another one. The check
  constraint only refuses credits a body sends, as every stored course has some.
* `AnswersSafety`: `AnswersDocumented`, by the errors each step can end in (`Endings`);
  what the database refuses in a task comes from the body (`StorableKept`).

### Accounts_proofs

From `KeysAreNumbers`, `SettingsPositive`, `NamesExist` and `NullIsNothing`. Every theorem rests on `AccountsInv`: `TypeOK`, and for
each request which arguments and which loaded row its step has. `RotationSafety`,
`ResetSafety` and `DeletionSafety` add `RowsHeld`, what the load and the checks established:
the token about to be consumed was unused, the family acted on is the token's, the
account about to be renamed was not deleted, the one about to be anonymised has the
address that was loaded or is anonymous by now.

* `AccountsTypeCorrect`: `TypeOK`.
* `RotationSafety`: `OneLiveToken`. A family is named by its first token, so a new family is
  new (`FamiliesExist`); `OneOpen` says it of tokens that are not revoked, expired or not,
  as expiry does not revoke.
* `SessionSafety`: `SessionsFollowPassword`, from `SessionsKnown`: a token not revoked has
  its user's password, or a request is about to revoke all of the user's, or the
  token is in `late`, or the user in `cut`.
* `ResetSafety`: `ResetTokenOnce`; an unused token has set no password (`ResetsCounted`).
* `LockoutSafety`: `LockAfterFailures`; a row not `raced` counts exactly the wrong
  passwords since it was last cleared (`FailuresCounted`).
* `DeletionSafety`: `DeletedIsAnonymous`; a stale row sends only the columns it changes.
* `CounterSafety`: `CounterExpires`.

### Roadmap_proofs

From `AnswersAreFinite`: the model answers with finitely many recommendations.

* `EditsKept`: `RoadSpec => EditsSurvive`. The property relates two states, and says
  nothing of a generation half done, so the induction is on `EditInv`: keys come from
  the sequence and are unique; an edited item that is not `raced` has the student's
  title; and no generation is at the UPDATE of it or has its title among those
  to commit. An item is loaded only unedited (`LoadKeepsEdits`, where
  uniqueness of keys is needed), and an edit waits for a locked row or marks the key
  raced (`WriteKeepsEdits`). Both commits are instances of `RowsCommitted`: kept
  rows stay, new rows have new keys.
* `OneItemSafety`: `OneItemPerTask`. While nothing is `excused`, one message or one
  generation is in flight and a trigger about to publish finds neither (`OneFlight`); so
  a task that a generation found without an item has none until the commit (`OneEach`).

### Chat_proofs

From `HistoryIsEven`.

* `TurnsStayWhole`: `ChatSpec => []WholeTurns`, for every even window. The commit of a turn is
  one step, which gives the pairs (`Answered`). The window takes a proof about the
  operator: in a conversation whose turns never overlapped, no message lies between a
  question and its answer (`Adjacent`); so an even number of messages follows an answer
  (`EvenAfterAnswer`, by counting questions and answers against each other), one more
  follows its question, and an even limit admits both or none (`WindowIsWhole`).
  `InTurn` keeps that true: one turn at a time, which asks after all that was said.

### CalendarReminders_proofs

From no assumption.

* `OneEventSafety`: `OneEvent`. `EventInv`: an event is the row's, or the one request's
  that has created it, which has loaded the row as it still is; only one request can
  have inserted the row; the row goes after its event.
* `DeletionRemovesEvent`: `DeletedTaskHasNoEvent`. After a deletion, while nothing was `left` or
  `doubled`, the deletion has its event still to look for, or no sync is under way and
  the deletion holds the last event, or there is none (`Gone`).

* `MailedOnce`: `RemSpec => []SentOnce`. The induction is on `MailInv`: a reminder
  not in `resent` has left at most once; once it has left, it is in the log or a run
  is about to log it; and a run that is about to mail it finds no log of it.

### Algorithms_proofs

From `OverlapIsShort` (an overlap is shorter than a window, or the loop would not end),
`PagesHoldRows` (a page has at least one row) and `CatalogAssumption` (finitely many
courses, one per institution and code, with integer credits). Each result is compared
with a definition that says what it is for, by no recursion.

The loops are recursive functions. The provers cannot use the library's induction
theorems, which take an operator; so induction is over sets of numbers, by the
least one outside (`LeastNumber`, `AllNumbers`). A recursive function is a `CHOOSE`,
so each loop needs a proof that its equation has a solution (functions over ever
longer prefixes) before one about its values.

* `WeeksAreExact` (`SemesterInput`): `WeeksCoverSemester`. What the loop cuts is said without
  recursion (`WeeksAreCut`), and there the week of a day is a quotient (`WeeksOnDay`).
* `ChunksAreComplete` (`DocumentInput`): `ChunksCoverText`, for any pages. `JoinedPages`: the
  joined text keeps every character that is no blank within the bounds of its page. Two
  characters at most the overlap apart have a window in common, the first that reaches
  the later one (`WindowsOverlap`); what is stripped off a window is blank (`WindowChunk`).
* `ListsAreComplete` (`ListInput`): `ListsAgree`, for any finite table and any sizes of pages.
  A strict order on a finite set is listed by exactly one sequence (`OneOrder`, by the
  rank of each row), and pages of a sequence, put together, are the sequence (`Flattened`).
  So what needs proof of a list is that its sort key, with the id as a
  tie-breaker, orders any two rows; the counts are sums over disjoint statuses.
* `RecommendationsAreReady`: `RecommendedIsReady`, for every catalogue, student and answer of
  the model. The credits that a course adds to a requirement are a fold over a set,
  which needs to be shown independent of the order (`CreditsAdd`).

### Only model-checked

The liveness properties `ProcessingEnds`, `DeletedFileGoes` and `JobEnds`: fairness and ENABLED
are outside the prover. `HeadMatchesModels` and `SchemaFollowsRevisions` are evaluations of
the fixed list of revisions, for which TLC's run is already exhaustive, and so is
`CompletedSurvives`, but for the sizes of its tables.

## 9. Not modelled

PDF text, OCR heuristics and normalisation are string work, and their outcomes are inputs of
`Load`. The LLM, embedding, mail and storage clients translate HTTP; what they
may answer is an input of the modules that call them. Prompts, academic context,
explanations and the conversation queries are text or plain reads. Schemas only
describe data, but for the bodies `Planner` sends. Configuration, logging,
encryption of tokens and the OAuth exchange change no state that two actors share.
The declaration of a degree programme is one insert or update.

## 10. Plan

1. A theorem for `CompletedSurvives` (`Migrations`): no revision's conversion drops a
   COMPLETED status. It is a statement about the finite list of revisions, one case
   for each.
2. Liveness of a roadmap generation that nobody kills.
