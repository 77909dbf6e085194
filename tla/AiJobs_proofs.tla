----------------------------- MODULE AiJobs_proofs -----------------------------
(* What is proved of the extraction, the embedding and the review for every  *)
(* number of documents, jobs, candidates, workers, requests, retries, faults *)
(* and crashes.                                                              *)
EXTENDS AiJobs, FiniteSetTheorems, TLAPS

USE AiConstantsAssumption

-----------------------------------------------------------------------------
(* Type correctness, by groups of variables. *)

\* A row belongs to a job and to one of its runs.
LEMMA RowFields ==
    ASSUME NEW x \in Rows
    PROVE  x[1] \in Jobs /\ x[2] \in 1..MaxRuns /\ Kind(x) \in KindsOf(x[1])
BY DEF Rows, Kind

\* The initial state has the types.
LEMMA InitType == Init => TypeOK
<1> SUFFICES ASSUME Init PROVE TypeOK
    OBVIOUS
<1>1. DataOK
    <2>1. blank \subseteq Docs
          BY AiConstantsAssumption DEF Init, Jobs
    <2> QED BY <2>1 DEF Init, DataOK, MaxRuns, JobStatus, RowStatus
<1>2. AttemptsOK
      BY DEF Init, AttemptsOK, NoSnap, JobStatus
<1>3. RequestsOK
      BY DEF Init, RequestsOK, JobStatus
<1> QED BY <1>1, <1>2, <1>3 DEF TypeOK, BoundsOK, Init

\* What a step leaves alone keeps its type.
LEMMA FrameType ==
    /\ DataOK /\ UNCHANGED <<job, docVars, dataVars>> => DataOK'
    /\ AttemptsOK /\ UNCHANGED <<queue, workerVars>> => AttemptsOK'
    /\ RequestsOK /\ UNCHANGED <<clientVars, reviewVars>> => RequestsOK'
    /\ BoundsOK /\ UNCHANGED boundVars => BoundsOK'
BY DEF DataOK, AttemptsOK, RequestsOK, BoundsOK,
       docVars, dataVars, workerVars, clientVars, reviewVars, boundVars

\* The bounds are never exceeded.
LEMMA BoundType == BoundsOK /\ (Fault \/ Change \/ WorkerFailure) => BoundsOK'
BY DEF BoundsOK, Fault, Change, WorkerFailure

\* One variable of the data written within its type.
LEMMA DataType ==
    ASSUME DataOK
    PROVE  /\ job' \in [Jobs -> JobStatus] /\ UNCHANGED <<docVars, dataVars>> => DataOK'
           /\ row' \in [Rows -> RowStatus] /\ UNCHANGED <<job, docVars, runs, tasks, field>> => DataOK'
           /\ tasks' \in [Rows -> Nat] /\ UNCHANGED <<job, docVars, row, runs, field>> => DataOK'
           /\ /\ field' \in [Courses -> {"blank", "manual", "extracted"}]
              /\ UNCHANGED <<job, docVars, row, runs, tasks>>
              => DataOK'
BY DEF DataOK, docVars, dataVars

\* A message more keeps the attempts' types, as do a worker's moves.
LEMMA PublishType ==
    ASSUME AttemptsOK, NEW j \in Jobs, NEW r \in 0..MaxRetries, Publish(j, r)
    PROVE  queue' \in [Jobs -> [0..MaxRetries -> Nat]]
BY DEF AttemptsOK, Publish

WorkerSteps == {"fetch", "prepare", "ask", "delete", "insert", "complete", "fail", "retry",
                "on_failure", "give_up", "ack"}

LEMMA WorkerType ==
    ASSUME AttemptsOK, NEW w \in Workers, queue' \in [Jobs -> [0..MaxRetries -> Nat]]
    PROVE  /\ \A pc \in WorkerSteps :
                 /\ wpc[w] # "idle" /\ Run(w, pc) /\ (pc = "retry" => wtry[w] < MaxRetries)
                 /\ held' \in [Workers -> SUBSET Rows]
                 => AttemptsOK'
           /\ Vacate(w) => AttemptsOK'
           /\ Rollback(w) => held' \in [Workers -> SUBSET Rows]
<1>1. ASSUME NEW pc \in WorkerSteps, wpc[w] # "idle", Run(w, pc), pc = "retry" => wtry[w] < MaxRetries,
             held' \in [Workers -> SUBSET Rows]
      PROVE  AttemptsOK'
      BY <1>1 DEF AttemptsOK, Run, WorkerSteps
<1>2. ASSUME Rollback(w) PROVE held' \in [Workers -> SUBSET Rows]
      BY <1>2 DEF AttemptsOK, Rollback
<1>3. ASSUME Vacate(w) PROVE AttemptsOK'
    <2>1. /\ wpc' \in [Workers -> {"idle", "claim", "fetch", "prepare", "ask", "delete", "insert",
                            "complete", "fail", "retry", "on_failure", "give_up", "ack"}]
          /\ wjob' \in [Workers -> Jobs \cup {NoJob}] /\ wtry' \in [Workers -> 0..MaxRetries]
          BY <1>3 DEF AttemptsOK, Vacate
    <2>2. wsnap' \in [Workers -> [status : JobStatus, ready : BOOLEAN]]
          BY <1>3 DEF AttemptsOK, Vacate, NoSnap, JobStatus
    <2>3. held' \in [Workers -> SUBSET Rows]
          BY <1>2, <1>3 DEF Vacate
    <2>4. \A v \in Workers : /\ wpc'[v] # "idle" => wjob'[v] \in Jobs
                             /\ wpc'[v] = "retry" => wtry'[v] < MaxRetries
          BY <1>3 DEF AttemptsOK, Vacate
    <2> QED BY <2>1, <2>2, <2>3, <2>4 DEF AttemptsOK
<1> QED BY <1>1, <1>2, <1>3

\* A request that answers, or goes on, keeps the requests' types.
LEMMA RequestType ==
    ASSUME RequestsOK
    PROVE  /\ \A c \in Clients : Answered(c) /\ UNCHANGED reviewVars => RequestsOK'
           /\ \A c \in Clients : /\ cpc' = [cpc EXCEPT ![c] = "mark"]
                                 /\ UNCHANGED <<cjob, csnap, reviewVars>>
                                 => RequestsOK'
           /\ \A q \in Reviewers : Done(q) /\ UNCHANGED clientVars => RequestsOK'
           /\ \A q \in Reviewers, pc \in {"flush", "mark"} :
                 /\ rpc[q] # "idle" /\ rpc' = [rpc EXCEPT ![q] = pc]
                 /\ rblank' \in [Reviewers -> BOOLEAN]
                 /\ UNCHANGED <<rop, rrow, clientVars>>
                 => RequestsOK'
<1> USE DEF RequestsOK, reviewVars, clientVars
<1>1. ASSUME NEW c \in Clients, Answered(c), UNCHANGED reviewVars PROVE RequestsOK'
      BY <1>1 DEF Answered, JobStatus
<1>2. ASSUME NEW c \in Clients, cpc' = [cpc EXCEPT ![c] = "mark"], UNCHANGED <<cjob, csnap, reviewVars>>
      PROVE  RequestsOK'
      BY <1>2
<1>3. ASSUME NEW q \in Reviewers, Done(q), UNCHANGED clientVars PROVE RequestsOK'
      BY <1>3 DEF Done
<1>4. ASSUME NEW q \in Reviewers, NEW pc \in {"flush", "mark"}, rpc[q] # "idle",
             rpc' = [rpc EXCEPT ![q] = pc], rblank' \in [Reviewers -> BOOLEAN],
             UNCHANGED <<rop, rrow, clientVars>>
      PROVE  RequestsOK'
      BY <1>4
<1> QED BY <1>1, <1>2, <1>3, <1>4

\* Every step of a worker keeps the types.
LEMMA TaskKeepsType ==
    ASSUME TypeOK, NEW w \in Workers, TaskStep(w)
    PROVE  TypeOK'
<1> USE FrameType, BoundType, WorkerType, DataType DEF TypeOK, WorkerSteps
<1>w. wpc[w] # "idle" => wjob[w] \in Jobs
      BY DEF AttemptsOK
<1>q. UNCHANGED queue => queue' \in [Jobs -> [0..MaxRetries -> Nat]]
      BY DEF AttemptsOK
<1>h. UNCHANGED held => held' \in [Workers -> SUBSET Rows]
      BY DEF AttemptsOK
<1>s. \A s \in {"PROCESSING", "COMPLETED", "FAILED"} :
        /\ job' = [job EXCEPT ![wjob[w]] = Emit(wsnap[w].status, s, @)] => job' \in [Jobs -> JobStatus]
        /\ job' = [job EXCEPT ![wjob[w]] = s] => job' \in [Jobs -> JobStatus]
      BY DEF DataOK, Emit, JobStatus
<1>d. row' = [x \in Rows |-> IF x \in held[w] THEN "deleted" ELSE row[x]] => row' \in [Rows -> RowStatus]
      BY DEF DataOK, RowStatus
<1>1. CASE Claim(w)
    <2>1. DataOK'
          BY <1>1, <1>s DEF Claim
    <2>2. AttemptsOK'
          BY <1>1, <1>q, <1>h DEF Claim
    <2> QED BY <1>1, <2>1, <2>2 DEF Claim
<1>2. CASE Fetch(w)
    <2>1. DataOK' /\ RequestsOK' /\ BoundsOK'
          BY <1>2 DEF Fetch
    <2>2. job[wjob[w]] \in JobStatus
          BY <1>2, <1>w DEF Fetch, DataOK
    <2>3. wsnap' \in [Workers -> [status : JobStatus, ready : BOOLEAN]]
          BY <1>2, <2>2 DEF Fetch, AttemptsOK
    <2>4. wpc' \in [Workers -> {"idle", "claim", "fetch", "prepare", "ask", "delete", "insert",
                            "complete", "fail", "retry", "on_failure", "give_up", "ack"}]
          BY <1>2 DEF Fetch, AttemptsOK
    <2>5. \A v \in Workers : /\ wpc'[v] # "idle" => wjob'[v] \in Jobs
                             /\ wpc'[v] = "retry" => wtry'[v] < MaxRetries
          BY <1>2 DEF Fetch, AttemptsOK
    <2>6. AttemptsOK'
          BY <1>2, <1>q, <1>h, <2>3, <2>4, <2>5 DEF Fetch, AttemptsOK
    <2> QED BY <2>1, <2>6 DEF TypeOK
<1>3. CASE Prepare(w)
    <2>1. AttemptsOK'
          BY <1>3, <1>q, <1>h DEF Prepare
    <2> QED BY <1>3, <2>1 DEF Prepare
<1>4. CASE Ask(w)
    <2>1. AttemptsOK'
          BY <1>4, <1>q, <1>h DEF Ask
    <2> QED BY <1>4, <2>1 DEF Ask
<1>5. CASE ProviderBusy(w)
    <2>1. AttemptsOK'
          BY <1>5, <1>q, <1>h DEF ProviderBusy
    <2> QED BY <1>5, <2>1 DEF ProviderBusy
<1>6. CASE DeleteRows(w)
    <2>1. held' \in [Workers -> SUBSET Rows]
          BY <1>6 DEF DeleteRows, Pending, RowsOf, AttemptsOK
    <2>2. AttemptsOK'
          BY <1>6, <1>q, <2>1 DEF DeleteRows
    <2> QED BY <1>6, <2>2 DEF DeleteRows
<1>7. CASE InsertRows(w)
    <2>1. row' \in [Rows -> RowStatus]
          BY <1>7 DEF InsertRows, DataOK, RowStatus
    <2>2. runs' \in [Jobs -> 0..MaxRuns]
          BY <1>7, <1>w DEF InsertRows, DataOK, MaxRuns
    <2>3. DataOK'
          BY <1>7, <2>1, <2>2 DEF InsertRows, DataOK, docVars
    <2>4. AttemptsOK'
          BY <1>7, <1>q DEF InsertRows
    <2> QED BY <1>7, <2>3, <2>4 DEF InsertRows
<1>8. CASE MarkCompleted(w)
    <2>1. DataOK'
          BY <1>8, <1>s DEF MarkCompleted
    <2>2. AttemptsOK'
          BY <1>8, <1>q, <1>h DEF MarkCompleted
    <2> QED BY <1>8, <2>1, <2>2 DEF MarkCompleted
<1>9. CASE MarkFailed(w)
    <2>1. job' \in [Jobs -> JobStatus] /\ row' \in [Rows -> RowStatus]
          BY <1>9, <1>s, <1>d DEF MarkFailed
    <2>2. DataOK'
          BY <1>9, <2>1 DEF MarkFailed, DataOK, docVars
    <2>3. AttemptsOK'
          BY <1>9, <1>q DEF MarkFailed
    <2> QED BY <1>9, <2>2, <2>3 DEF MarkFailed
<1>10. CASE UnexpectedError(w)
    <2>1. AttemptsOK'
          BY <1>10, <1>q DEF UnexpectedError
    <2> QED BY <1>10, <2>1 DEF UnexpectedError
<1>11. CASE Retry(w)
    <2>1. wtry[w] + 1 \in 0..MaxRetries
          BY <1>11 DEF Retry, AttemptsOK
    <2>2. AttemptsOK'
          BY <1>11, <1>w, <1>h, <2>1, PublishType DEF Retry
    <2> QED BY <1>11, <2>2 DEF Retry
<1>12. CASE OnFailure(w)
    <2>1. AttemptsOK'
          BY <1>12, <1>q, <1>h DEF OnFailure
    <2> QED BY <1>12, <2>1 DEF OnFailure
<1>13. CASE GiveUp(w)
    <2>1. DataOK'
          BY <1>13, <1>s DEF GiveUp
    <2>2. AttemptsOK'
          BY <1>13, <1>q, <1>h DEF GiveUp
    <2> QED BY <1>13, <2>1, <2>2 DEF GiveUp
<1>14. CASE Ack(w)
    <2>1. AttemptsOK'
          BY <1>14, <1>q DEF Ack
    <2> QED BY <1>14, <2>1 DEF Ack
<1> QED BY <1>1, <1>2, <1>3, <1>4, <1>5, <1>6, <1>7, <1>8, <1>9, <1>10, <1>11, <1>12, <1>13, <1>14
        DEF TaskStep

\* Every step of a request or a review keeps the types.
LEMMA RequestKeepsType ==
    ASSUME TypeOK,
           (\E c \in Clients : RequestStep(c)) \/ (\E q \in Reviewers : ReviewStep(q))
    PROVE  TypeOK'
<1> USE FrameType, BoundType, RequestType, DataType DEF TypeOK
<1>1. ASSUME NEW c \in Clients, Enqueue(c) PROVE TypeOK'
    <2>1. CASE Fault /\ Answered(c) /\ UNCHANGED queue
          BY <1>1, <2>1 DEF Enqueue
    <2>2. CASE Publish(cjob[c], 0) /\ cpc' = [cpc EXCEPT ![c] = "mark"] /\ UNCHANGED <<cjob, csnap, boundVars>>
        <3>1. queue' \in [Jobs -> [0..MaxRetries -> Nat]]
            <4>1. CASE cjob[c] \in Jobs
                  BY <2>2, <4>1, PublishType
            <4>2. CASE cjob[c] \notin Jobs
                <5>1. queue' = queue
                      BY <2>2, <4>2 DEF Publish, AttemptsOK
                <5> QED BY <5>1 DEF AttemptsOK
            <4> QED BY <4>1, <4>2
        <3>2. AttemptsOK'
              BY <1>1, <3>1 DEF Enqueue, AttemptsOK, workerVars
        <3> QED BY <1>1, <2>2, <3>2 DEF Enqueue
    <2> QED BY <1>1, <2>1, <2>2 DEF Enqueue
<1>2. ASSUME NEW c \in Clients, MarkQueued(c) PROVE TypeOK'
    <2>1. job' \in [Jobs -> JobStatus]
          BY <1>2 DEF MarkQueued, Emit, DataOK, JobStatus
    <2>2. DataOK' /\ RequestsOK' /\ BoundsOK'
          BY <1>2, <2>1 DEF MarkQueued
    <2> QED BY <1>2, <2>2 DEF MarkQueued
<1>3. ASSUME NEW q \in Reviewers, CreateTask(q) PROVE TypeOK'
    <2>1. tasks' \in [Rows -> Nat]
          BY <1>3 DEF CreateTask, DataOK
    <2>2. DataOK'
          BY <1>3, <2>1 DEF CreateTask
    <2>3. RequestsOK' /\ BoundsOK'
        <3>1. CASE Step(q, "mark") /\ UNCHANGED boundVars
            <4>1. rpc[q] # "idle" /\ UNCHANGED rblank => rblank' \in [Reviewers -> BOOLEAN]
                  BY DEF RequestsOK
            <4> QED BY <1>3, <3>1, <4>1 DEF CreateTask, Step
        <3>2. CASE Done(q) /\ Fault
              BY <1>3, <3>2 DEF CreateTask
        <3> QED BY <1>3, <3>1, <3>2 DEF CreateTask
    <2> QED BY <1>3, <2>2, <2>3 DEF CreateTask
<1>4. ASSUME NEW q \in Reviewers, ReadCourse(q) PROVE TypeOK'
    <2>1. RequestsOK'
          BY <1>4 DEF ReadCourse, RequestsOK, clientVars
    <2> QED BY <1>4, <2>1 DEF ReadCourse
<1>5. ASSUME NEW q \in Reviewers, FlushCourse(q) PROVE TypeOK'
    <2>1. RequestsOK'
          BY <1>5 DEF FlushCourse, RequestsOK, clientVars
    <2> QED BY <1>5, <2>1 DEF FlushCourse
<1>6. ASSUME NEW q \in Reviewers, MarkReviewed(q) PROVE TypeOK'
    <2>1. row' \in [Rows -> RowStatus] /\ field' \in [Courses -> {"blank", "manual", "extracted"}]
          BY <1>6 DEF MarkReviewed, DataOK, RowStatus
    <2>2. DataOK'
          BY <1>6, <2>1 DEF MarkReviewed, DataOK, docVars
    <2>3. RequestsOK'
          BY <1>6 DEF MarkReviewed
    <2>4. BoundsOK'
          BY <1>6 DEF MarkReviewed
    <2> QED BY <1>6, <2>2, <2>3, <2>4 DEF MarkReviewed
<1> QED BY <1>1, <1>2, <1>3, <1>4, <1>5, <1>6 DEF RequestStep, ReviewStep

\* What the rest of the system does, a request or a review that begins and a
\* worker that fails keep the types.
LEMMA EnvironmentKeepsType ==
    ASSUME TypeOK, Environment
    PROVE  TypeOK'
<1> USE FrameType, BoundType, DataType DEF TypeOK
<1>1. ASSUME NEW d \in Docs, DeleteDocument(d) \/ RemoveText(d) \/ ProcessingMoves(d) PROVE TypeOK'
    <2>1. DataOK'
          BY <1>1 DEF DeleteDocument, RemoveText, ProcessingMoves, DataOK, dataVars
    <2>2. BoundsOK'
          BY <1>1 DEF DeleteDocument, RemoveText, ProcessingMoves
    <2> QED BY <1>1, <2>1, <2>2 DEF DeleteDocument, RemoveText, ProcessingMoves
<1>2. ASSUME NEW k \in Courses, NEW value \in {"manual", "blank"}, EditCourse(k, value) PROVE TypeOK'
    <2>1. field' \in [Courses -> {"blank", "manual", "extracted"}]
          BY <1>2 DEF EditCourse, DataOK
    <2>2. DataOK'
          BY <1>2, <2>1 DEF EditCourse
    <2> QED BY <1>2, <2>2 DEF EditCourse
<1>3. ASSUME NEW c \in Clients, NEW j \in Jobs, TriggerBegin(c, j) PROVE TypeOK'
    <2>1. RequestsOK'
          BY <1>3 DEF TriggerBegin, RequestsOK, DataOK, reviewVars
    <2>2. BoundsOK'
          BY <1>3 DEF TriggerBegin, BoundsOK
    <2> QED BY <1>3, <2>1, <2>2 DEF TriggerBegin
<1>4. ASSUME NEW q \in Reviewers, NEW op \in {"accept", "reject"}, NEW x \in Rows, ReviewBegin(q, op, x)
      PROVE  TypeOK'
    <2>1. RequestsOK'
          BY <1>4 DEF ReviewBegin, RequestsOK, clientVars
    <2> QED BY <1>4, <2>1 DEF ReviewBegin
<1>5. ASSUME NEW w \in Workers, HandlerLost(w) PROVE TypeOK'
    <2>1. AttemptsOK'
          BY <1>5, WorkerType DEF HandlerLost, AttemptsOK, WorkerSteps
    <2> QED BY <1>5, <2>1 DEF HandlerLost
<1>6. ASSUME NEW w \in Workers, WorkerCrash(w) PROVE TypeOK'
    <2>1. wjob[w] \in Jobs /\ wtry[w] \in 0..MaxRetries
          BY <1>6 DEF WorkerCrash, AttemptsOK
    <2>2. AttemptsOK'
          BY <1>6, <2>1, PublishType, WorkerType DEF WorkerCrash
    <2> QED BY <1>6, <2>2 DEF WorkerCrash
<1> QED BY <1>1, <1>2, <1>3, <1>4, <1>5, <1>6 DEF Environment

\* Every step keeps the types.
LEMMA NextKeepsType == TypeOK /\ [Next]_vars => TypeOK'
<1> SUFFICES ASSUME TypeOK, [Next]_vars PROVE TypeOK'
    OBVIOUS
<1>1. ASSUME NEW w \in Workers, Deliveries(w) PROVE TypeOK'
    <2> PICK j \in Jobs, r \in 0..MaxRetries : Deliver(w, j, r)
        BY <1>1 DEF Deliveries
    <2>1. AttemptsOK'
          BY DEF Deliver, TypeOK, AttemptsOK
    <2> QED BY <2>1, FrameType DEF Deliver, TypeOK
<1>2. CASE UNCHANGED vars
      BY <1>2, FrameType DEF vars, TypeOK
<1> QED BY <1>1, <1>2, TaskKeepsType, RequestKeepsType, EnvironmentKeepsType DEF Next

\* Every variable of the AI jobs keeps its type: in particular no run is ever
\* counted beyond the rows there are, and a retry never passes the last one.
THEOREM AiTypeCorrect == Spec => []TypeOK
BY InitType, NextKeepsType, PTL DEF Spec

-----------------------------------------------------------------------------
(* A job that is PROCESSING is in an attempt's hands.  Given the types the    *)
(* property is inductive: an attempt that has loaded the status after its     *)
(* claim will have its last word sent, as it differs from PROCESSING.         *)

RetryWaits(j) == \E r \in 1..MaxRetries : queue[j][r] > 0
Owned(j) == RetryWaits(j) \/ \E w \in Workers : Finishes(w, j)

\* A step of one worker leaves the others alone.
LEMMA OthersWait ==
    ASSUME AttemptsOK, NEW w \in Workers, TaskStep(w) \/ Deliveries(w), NEW v \in Workers, v # w
    PROVE  wpc'[v] = wpc[v] /\ wjob'[v] = wjob[v] /\ wsnap'[v] = wsnap[v] /\ held'[v] = held[v]
<1> USE DEF AttemptsOK, Run, Vacate, Rollback
<1>1. CASE Claim(w) \/ Fetch(w) \/ Prepare(w) \/ Ask(w) \/ DeleteRows(w)
      BY <1>1 DEF Claim, Fetch, Prepare, Ask, DeleteRows
<1>2. CASE ProviderBusy(w) \/ UnexpectedError(w) \/ Retry(w) \/ OnFailure(w) \/ GiveUp(w) \/ Ack(w)
      BY <1>2 DEF ProviderBusy, UnexpectedError, Retry, OnFailure, GiveUp, Ack
<1>3. CASE InsertRows(w) \/ MarkCompleted(w) \/ MarkFailed(w)
      BY <1>3 DEF InsertRows, MarkCompleted, MarkFailed
<1>4. CASE Deliveries(w)
      BY <1>4 DEF Deliveries, Deliver
<1> QED BY <1>1, <1>2, <1>3, <1>4 DEF TaskStep

\* The owner of a job, when it moves, still owns it, leaves a retry, or has
\* written the job's status.
LEMMA OwnerMovesOn ==
    ASSUME TypeOK, NEW w \in Workers, TaskStep(w), NEW j \in Jobs, Finishes(w, j)
    PROVE  Finishes(w, j)' \/ RetryWaits(j)' \/ job'[j] # "PROCESSING"
<1> USE DEF TypeOK, DataOK, AttemptsOK, Finishes, Run
<1>1. CASE Claim(w) \/ Prepare(w) \/ Ask(w) \/ ProviderBusy(w) \/ DeleteRows(w) \/ UnexpectedError(w)
      BY <1>1 DEF Claim, Prepare, Ask, ProviderBusy, DeleteRows, UnexpectedError
<1>2. CASE Fetch(w)
    <2>1. wsnap'[w].status = job[j] /\ wpc'[w] = "prepare" /\ wjob'[w] = j /\ job' = job
          BY <1>2 DEF Fetch
    <2> QED BY <2>1
<1>3. CASE InsertRows(w)
      BY <1>3 DEF InsertRows
<1>4. CASE MarkCompleted(w)
      BY <1>4 DEF MarkCompleted, Emit
<1>5. CASE MarkFailed(w)
      BY <1>5 DEF MarkFailed
<1>6. CASE Retry(w)
    <2>1. wtry[w] + 1 \in 1..MaxRetries
          BY <1>6 DEF Retry
    <2>2. queue'[j][wtry[w] + 1] = queue[j][wtry[w] + 1] + 1
          BY <1>6, <2>1 DEF Retry, Publish
    <2>3. queue'[j][wtry[w] + 1] > 0
          BY <2>1, <2>2
    <2> QED BY <2>1, <2>3 DEF RetryWaits
<1>7. CASE OnFailure(w)
    <2>1. wpc'[w] = (IF job[j] = "PROCESSING" THEN "give_up" ELSE "ack") /\ wjob'[w] = j /\ job' = job
          BY <1>7 DEF OnFailure
    <2> QED BY <2>1
<1>8. CASE GiveUp(w)
      BY <1>8 DEF GiveUp
<1>9. CASE Ack(w)
      BY <1>9 DEF Ack
<1> QED BY <1>1, <1>2, <1>3, <1>4, <1>5, <1>6, <1>7, <1>8, <1>9 DEF TaskStep

\* Only a claim makes a job PROCESSING, and the claimer then owns it.
LEMMA ClaimerOwns ==
    ASSUME TypeOK, NEW w \in Workers, TaskStep(w), NEW j \in Jobs,
           job[j] # "PROCESSING", job'[j] = "PROCESSING"
    PROVE  Finishes(w, j)'
<1> USE DEF TypeOK, DataOK, AttemptsOK
<1>1. CASE Claim(w)
      BY <1>1 DEF Claim, Run, Finishes
<1>2. CASE MarkCompleted(w) \/ MarkFailed(w) \/ GiveUp(w)
      BY <1>2 DEF MarkCompleted, MarkFailed, GiveUp, Emit
<1>3. CASE UNCHANGED job
      BY <1>3
<1> QED BY <1>1, <1>2, <1>3 DEF TaskStep, Fetch, Prepare, Ask, ProviderBusy, DeleteRows, InsertRows,
        UnexpectedError, Retry, OnFailure, Ack

\* A task takes no message out of the queue.
LEMMA RetriesWait ==
    ASSUME TypeOK, NEW w \in Workers, TaskStep(w), NEW j \in Jobs, RetryWaits(j)
    PROVE  RetryWaits(j)'
<1>1. CASE Retry(w)
    <2> PICK r \in 1..MaxRetries : queue[j][r] > 0
        BY DEF RetryWaits
    <2>1. queue'[j][r] \in {queue[j][r], queue[j][r] + 1} /\ queue[j][r] \in Nat
          BY <1>1 DEF Retry, Publish, TypeOK, AttemptsOK
    <2> QED BY <2>1 DEF RetryWaits
<1>2. CASE UNCHANGED queue
      BY <1>2 DEF RetryWaits
<1> QED BY <1>1, <1>2 DEF TaskStep, Claim, Fetch, Prepare, Ask, ProviderBusy, DeleteRows, InsertRows,
        MarkCompleted, MarkFailed, UnexpectedError, OnFailure, GiveUp, Ack

\* Every step keeps an owner for each job that is PROCESSING.
LEMMA NextKeepsOwner == TypeOK /\ JobHasOwner /\ [Next]_vars => JobHasOwner'
<1> SUFFICES ASSUME TypeOK, JobHasOwner, [Next]_vars, workerCrashes' = 0,
                    NEW j \in Jobs, job'[j] = "PROCESSING"
             PROVE  Owned(j)'
    BY DEF JobHasOwner, Owned, RetryWaits
<1> USE DEF TypeOK
<1>a. workerCrashes = 0 /\ job[j] = "PROCESSING" => Owned(j)
      BY DEF JobHasOwner, Owned, RetryWaits
<1>1. ASSUME NEW w \in Workers, TaskStep(w)
      PROVE  Owned(j)'
    <2>1. workerCrashes = 0
          BY <1>1 DEF TaskStep, Claim, Fetch, Prepare, Ask, ProviderBusy, DeleteRows, InsertRows,
                MarkCompleted, MarkFailed, UnexpectedError, Retry, OnFailure, GiveUp, Ack, Fault, boundVars
    <2>2. CASE job[j] # "PROCESSING"
          BY <1>1, <2>2, ClaimerOwns DEF Owned
    <2>3. CASE RetryWaits(j)
          BY <1>1, <2>3, RetriesWait DEF Owned
    <2>4. ASSUME NEW v \in Workers, Finishes(v, j)
          PROVE  Owned(j)'
        <3>1. CASE v = w
              BY <1>1, <2>4, <3>1, OwnerMovesOn DEF Owned
        <3>2. CASE v # w
              BY <1>1, <2>4, <3>2, OthersWait DEF Owned, Finishes
        <3> QED BY <3>1, <3>2
    <2> QED BY <1>a, <2>1, <2>2, <2>3, <2>4 DEF Owned
<1>2. ASSUME NEW w \in Workers, Deliveries(w)
      PROVE  Owned(j)'
    <2> PICK i \in Jobs, r \in 0..MaxRetries : Deliver(w, i, r)
        BY <1>2 DEF Deliveries
    <2>1. workerCrashes = 0 /\ job[j] = "PROCESSING"
          BY DEF Deliver, boundVars
    <2>2. CASE RetryWaits(j)
        <3> PICK s \in 1..MaxRetries : queue[j][s] > 0
            BY <2>2 DEF RetryWaits
        <3>1. CASE i = j /\ r = s
              BY <3>1 DEF Deliver, AttemptsOK, Owned, Finishes
        <3>2. CASE ~(i = j /\ r = s)
            <4>1. queue'[j][s] = queue[j][s]
                  BY <3>2 DEF Deliver, AttemptsOK
            <4> QED BY <4>1 DEF Owned, RetryWaits
        <3> QED BY <3>1, <3>2
    <2>3. ASSUME NEW v \in Workers, Finishes(v, j)
          PROVE  Owned(j)'
        <3>1. v # w
              BY <2>3 DEF Deliver, Finishes
        <3> QED BY <1>2, <2>3, <3>1, OthersWait DEF Owned, Finishes
    <2> QED BY <1>a, <2>1, <2>2, <2>3 DEF Owned
<1>3. ASSUME NEW w \in Workers, WorkerCrash(w) \/ HandlerLost(w)
      PROVE  FALSE
      BY <1>3 DEF WorkerCrash, HandlerLost, WorkerFailure, BoundsOK
<1>4. ASSUME UNCHANGED <<workerVars, workerCrashes>>, job[j] = "PROCESSING",
             \A r \in 1..MaxRetries : queue'[j][r] = queue[j][r]
      PROVE  Owned(j)'
    <2>1. Owned(j)
          BY <1>a, <1>4
    <2> QED BY <1>4, <2>1 DEF Owned, RetryWaits, Finishes, workerVars
<1>5. ASSUME NEW c \in Clients, RequestStep(c)
      PROVE  Owned(j)'
    <2>1. UNCHANGED <<workerVars, workerCrashes>> /\ job[j] = "PROCESSING"
          BY <1>5 DEF RequestStep, Enqueue, MarkQueued, Fault, Emit, boundVars, DataOK
    <2>2. \A r \in 1..MaxRetries : queue'[j][r] = queue[j][r]
        <3>1. CASE UNCHANGED queue
              BY <3>1
        <3>2. CASE Publish(cjob[c], 0)
              BY <3>2 DEF Publish, AttemptsOK
        <3> QED BY <1>5, <3>1, <3>2 DEF RequestStep, Enqueue, MarkQueued
    <2> QED BY <1>4, <2>1, <2>2
<1>6. CASE UNCHANGED <<job, queue, workerVars, workerCrashes>>
      BY <1>4, <1>6
<1>7. ASSUME NEW q \in Reviewers, ReviewStep(q)
      PROVE  Owned(j)'
      BY <1>6, <1>7 DEF ReviewStep, CreateTask, ReadCourse, FlushCourse, MarkReviewed, Fault, boundVars
<1>8. CASE Environment
      BY <1>3, <1>6, <1>8 DEF Environment, DeleteDocument, RemoveText, ProcessingMoves, EditCourse,
         TriggerBegin, ReviewBegin, Change, boundVars
<1>9. CASE UNCHANGED vars
      BY <1>6, <1>9 DEF vars, boundVars
<1> QED BY <1>1, <1>2, <1>5, <1>7, <1>8, <1>9 DEF Next

\* As long as no worker process dies and no failure handler fails, no
\* interleaving of triggers, messages, retries and late statuses leaves a job
\* PROCESSING with nobody to finish it (both triggers refuse PROCESSING).
THEOREM JobOwnerSafety == Spec => []JobHasOwner
<1>1. Init => JobHasOwner
      BY DEF Init, JobHasOwner
<1> QED BY <1>1, AiTypeCorrect, NextKeepsOwner, PTL DEF Spec

-----------------------------------------------------------------------------
(* An accepted assignment or exam has its task.  The review marks the        *)
(* candidate in a transaction of its own, after the task's: what it has done *)
(* so far is part of the induction.                                          *)

AcceptInv ==
    /\ AcceptedHasTask
    /\ \A q \in Reviewers :
          /\ rpc[q] = "mark" /\ rop[q] = "accept" /\ Kind(rrow[q]) \in TaskKinds => tasks[rrow[q]] > 0
          /\ rpc[q] \in {"course", "flush"} => Kind(rrow[q]) \notin TaskKinds

LEMMA NextKeepsAccept == TypeOK /\ AcceptInv /\ [Next]_vars => AcceptInv'
<1> SUFFICES ASSUME TypeOK, AcceptInv, [Next]_vars PROVE AcceptInv'
    OBVIOUS
<1> USE DEF TypeOK, DataOK, RequestsOK, AcceptInv, AcceptedHasTask
<1>1. CASE UNCHANGED <<row, tasks, reviewVars>>
      BY <1>1 DEF reviewVars
<1>2. ASSUME NEW w \in Workers, InsertRows(w) \/ MarkFailed(w) PROVE AcceptInv'
    <2>1. \A x \in Rows : row'[x] = "ACCEPTED" => row[x] = "ACCEPTED"
          BY <1>2 DEF InsertRows, MarkFailed
    <2> QED BY <1>2, <2>1 DEF InsertRows, MarkFailed, reviewVars
<1>3. ASSUME NEW q \in Reviewers, CreateTask(q) PROVE AcceptInv'
    <2>1. \A x \in Rows : tasks[x] > 0 => tasks'[x] > 0
          BY <1>3 DEF CreateTask
    <2>2. CASE tasks' = [tasks EXCEPT ![rrow[q]] = @ + 1] /\ Step(q, "mark")
        <3>1. tasks'[rrow[q]] > 0
              BY <1>3, <2>2 DEF CreateTask
        <3> QED BY <1>3, <2>1, <2>2, <3>1 DEF CreateTask, Step
    <2>3. CASE Done(q)
          BY <1>3, <2>1, <2>3 DEF CreateTask, Done
    <2> QED BY <1>3, <2>2, <2>3 DEF CreateTask
<1>4. ASSUME NEW q \in Reviewers, ReadCourse(q) \/ FlushCourse(q) PROVE AcceptInv'
      BY <1>4 DEF ReadCourse, FlushCourse, dataVars
<1>5. ASSUME NEW q \in Reviewers, MarkReviewed(q) PROVE AcceptInv'
    <2>1. \A x \in Rows : row'[x] = "ACCEPTED" => row[x] = "ACCEPTED" \/ (x = rrow[q] /\ rop[q] = "accept")
          BY <1>5 DEF MarkReviewed
    <2> QED BY <1>5, <2>1 DEF MarkReviewed, Done
<1>6. ASSUME NEW q \in Reviewers, NEW op \in {"accept", "reject"}, NEW x \in Rows, ReviewBegin(q, op, x)
      PROVE  AcceptInv'
      BY <1>6 DEF ReviewBegin, dataVars
<1>7. CASE Environment
      BY <1>1, <1>6, <1>7 DEF Environment, DeleteDocument, RemoveText, ProcessingMoves, EditCourse,
         TriggerBegin, HandlerLost, WorkerCrash, dataVars
<1>8. ASSUME NEW w \in Workers, TaskStep(w) \/ Deliveries(w) PROVE AcceptInv'
      BY <1>1, <1>2, <1>8 DEF TaskStep, Deliveries, Deliver, Claim, Fetch, Prepare, Ask, ProviderBusy,
         DeleteRows, MarkCompleted, UnexpectedError, Retry, OnFailure, GiveUp, Ack, dataVars
<1>9. ASSUME NEW c \in Clients, RequestStep(c) PROVE AcceptInv'
      BY <1>1, <1>9 DEF RequestStep, Enqueue, MarkQueued, dataVars
<1>10. CASE UNCHANGED vars
      BY <1>1, <1>10 DEF vars, dataVars
<1> QED BY <1>3, <1>4, <1>5, <1>7, <1>8, <1>9, <1>10 DEF Next, ReviewStep

\* Whatever runs, reviews and faults come in between, an assignment or exam
\* that says ACCEPTED has become a task (accept commits the task first).
THEOREM AcceptSafety == Spec => []AcceptedHasTask
<1>1. Init => AcceptInv
      BY DEF Init, AcceptInv, AcceptedHasTask
<1>2. AcceptInv => AcceptedHasTask
      BY DEF AcceptInv
<1> QED BY <1>1, <1>2, AiTypeCorrect, NextKeepsAccept, PTL DEF Spec

-----------------------------------------------------------------------------
(* A run never removes a reviewed candidate.  What a transaction has deleted  *)
(* stays PENDING until it commits, as the review waits for it; what a run     *)
(* writes was never there before, so that it overwrites nothing either.       *)

HeldPending == \A w \in Workers : \A x \in held[w] : row[x] = "PENDING" /\ x[1] = wjob[w]
HeldOnce == \A v, w \in Workers : v # w => held[v] \cap held[w] = {}
IdleHoldsNothing == \A w \in Workers : wpc[w] = "idle" => held[w] = {}
RowsOfRuns == \A x \in Rows : x[2] > runs[x[1]] => row[x] = "absent"
ReviewedExists ==
    \A q \in Reviewers : rpc[q] # "idle" => row[rrow[q]] # "absent" /\ rrow[q][1] \in Extractions

RowInv == HeldPending /\ HeldOnce /\ IdleHoldsNothing /\ RowsOfRuns /\ ReviewedExists

\* A step that writes no row and deletes none.
LEMMA QuietKeepsRows ==
    ASSUME RowInv, UNCHANGED <<row, runs, rpc, rrow>>,
           \A v \in Workers : \/ held'[v] = {}
                              \/ /\ held'[v] = held[v] /\ wjob'[v] = wjob[v]
                                 /\ wpc'[v] = "idle" => wpc[v] = "idle"
    PROVE  RowInv'
BY DEF RowInv, HeldPending, HeldOnce, IdleHoldsNothing, RowsOfRuns, ReviewedExists

\* One worker's hold changes: all of it is free, or gone.
LEMMA HoldsChange ==
    ASSUME HeldOnce, IdleHoldsNothing, NEW w \in Workers, wpc'[w] # "idle",
           \A v \in Workers : v # w => held'[v] = held[v] /\ wpc'[v] = wpc[v],
           \A v \in Workers : v # w => \A x \in held'[w] : x \notin held[v]
    PROVE  HeldOnce' /\ IdleHoldsNothing'
<1>1. HeldOnce'
    <2> SUFFICES ASSUME NEW u \in Workers, NEW v \in Workers, u # v, NEW x, x \in held'[u], x \in held'[v]
                 PROVE  FALSE
        BY DEF HeldOnce
    <2>1. CASE u = w    BY <2>1
    <2>2. CASE v = w    BY <2>2
    <2>3. CASE u # w /\ v # w
        <3>1. x \in held[u] \cap held[v]
              BY <2>3
        <3> QED BY <3>1 DEF HeldOnce
    <2> QED BY <2>1, <2>2, <2>3
<1> QED BY <1>1 DEF IdleHoldsNothing

\* What the deletion and the two commits do to the rows.
LEMMA CommitKeepsRows ==
    ASSUME TypeOK, RowInv, NEW w \in Workers, DeleteRows(w) \/ InsertRows(w) \/ MarkFailed(w)
    PROVE  RowInv' /\ \A x \in Rows : row[x] \in Reviewed => row'[x] = row[x]
<1> USE DEF TypeOK, DataOK, AttemptsOK, RequestsOK, HeldPending, HeldOnce, IdleHoldsNothing, RowsOfRuns,
            ReviewedExists, RowInv, reviewVars, Run, Rollback, Reviewed
<1>1. CASE DeleteRows(w)
    <2>1. /\ UNCHANGED <<row, runs, rpc, rrow, wjob>> /\ held'[w] = Pending(wjob[w])
          /\ \A v \in Workers : v # w => held'[v] = held[v]
          /\ \A x \in Pending(wjob[w]) : ~Locked(x)
          BY <1>1 DEF DeleteRows, dataVars
    <2>2. \A x \in held'[w] : row[x] = "PENDING" /\ x[1] = wjob[w] /\ ~Locked(x)
          BY <2>1 DEF Pending, RowsOf
    <2>3. HeldPending'
          BY <2>1, <2>2
    <2>5. wpc'[w] # "idle" /\ \A v \in Workers : v # w => wpc'[v] = wpc[v]
          BY <1>1 DEF DeleteRows
    <2>4. \A v \in Workers : v # w => \A x \in held'[w] : x \notin held[v]
          BY <2>2 DEF Locked
    <2>6. HeldOnce' /\ IdleHoldsNothing'
        <3>1. \A v \in Workers : v # w => held'[v] = held[v] /\ wpc'[v] = wpc[v]
              BY <2>1, <2>5
        <3>2. HeldOnce /\ IdleHoldsNothing /\ wpc'[w] # "idle"
              BY <2>5
        <3> HIDE DEF HeldOnce, IdleHoldsNothing, TypeOK, RowInv
        <3> QED BY <2>4, <3>1, <3>2, HoldsChange
    <2>7. RowsOfRuns' /\ ReviewedExists'
          BY <2>1
    <2> QED BY <2>1, <2>3, <2>6, <2>7
<1>2. CASE InsertRows(w)
    <2> DEFINE j == wjob[w]
               n == runs[j] + 1
    <2>1. j \in Jobs
          BY <1>2 DEF InsertRows
    <2>2. PICK found \in Found(j) :
            /\ row' = [x \in Rows |-> CASE x \in held[w] -> "deleted"
                                       [] x[1] = j /\ x[2] = n /\ Kind(x) \in found -> "PENDING"
                                       [] OTHER -> row[x]]
            /\ runs' = [runs EXCEPT ![j] = n]
          BY <1>2 DEF InsertRows
    <2>3. \A x \in Rows : x[1] = j /\ x[2] = n => row[x] = "absent"
          BY <2>1
    <2>4. \A x \in Rows : row[x] \notin {"absent", "PENDING"} => row'[x] = row[x]
          BY <2>2, <2>3
    <2>5. \A x \in Rows : row[x] = "PENDING" /\ x \notin held[w] => row'[x] = "PENDING"
          BY <2>2
    <2>6. held'[w] = {} /\ wpc'[w] # "idle" /\ wjob' = wjob
          BY <1>2 DEF InsertRows
    <2>7. \A v \in Workers : v # w => held'[v] = held[v] /\ wpc'[v] = wpc[v]
          BY <1>2 DEF InsertRows
    <2>8. HeldPending'
        <3> SUFFICES ASSUME NEW v \in Workers, NEW x \in held'[v] PROVE row'[x] = "PENDING" /\ x[1] = wjob'[v]
            OBVIOUS
        <3>1. v # w /\ x \in held[v] /\ x \in Rows
              BY <2>6, <2>7
        <3>2. x \notin held[w] /\ row[x] = "PENDING" /\ x[1] = wjob[v]
              BY <3>1
        <3> QED BY <2>5, <2>6, <3>1, <3>2
    <2>9. HeldOnce' /\ IdleHoldsNothing'
        <3> HIDE DEF HeldOnce, IdleHoldsNothing
        <3> QED BY <2>6, <2>7, HoldsChange DEF RowInv
    <2>10. RowsOfRuns'
        <3> SUFFICES ASSUME NEW x \in Rows, x[2] > runs'[x[1]] PROVE row'[x] = "absent"
            OBVIOUS
        <3>1. x[1] \in Jobs /\ x[2] \in 1..MaxRuns
              BY RowFields
        <3>2. x[2] > runs[x[1]] /\ ~(x[1] = j /\ x[2] = n)
              BY <2>1, <2>2, <3>1
        <3>3. row[x] = "absent"
              BY <3>2
        <3>4. x \notin held[w]
              BY <3>3
        <3> QED BY <2>2, <3>2, <3>3, <3>4
    <2>11. UNCHANGED <<rpc, rrow>>
          BY <1>2 DEF InsertRows
    <2>12. ReviewedExists'
          BY <2>2, <2>4, <2>11
    <2> QED BY <2>4, <2>8, <2>9, <2>10, <2>12
<1>3. CASE MarkFailed(w)
    <2>1. \A x \in Rows : row'[x] = IF x \in held[w] THEN "deleted" ELSE row[x]
          BY <1>3 DEF MarkFailed
    <2>2. held'[w] = {} /\ wpc'[w] # "idle" /\ UNCHANGED <<wjob, runs, rpc, rrow>>
          BY <1>3 DEF MarkFailed
    <2>3. \A v \in Workers : v # w => held'[v] = held[v] /\ wpc'[v] = wpc[v]
          BY <1>3 DEF MarkFailed
    <2>4. HeldPending'
        <3> SUFFICES ASSUME NEW v \in Workers, NEW x \in held'[v] PROVE row'[x] = "PENDING" /\ x[1] = wjob'[v]
            OBVIOUS
        <3>1. v # w /\ x \in held[v] /\ x \in Rows
              BY <2>2, <2>3
        <3>2. x \notin held[w] /\ row[x] = "PENDING" /\ x[1] = wjob[v]
              BY <3>1
        <3> QED BY <2>1, <2>2, <3>1, <3>2
    <2>5. HeldOnce' /\ IdleHoldsNothing'
        <3> HIDE DEF HeldOnce, IdleHoldsNothing
        <3> QED BY <2>2, <2>3, HoldsChange DEF RowInv
    <2>6. RowsOfRuns' /\ ReviewedExists'
          BY <2>1, <2>2
    <2> QED BY <2>1, <2>4, <2>5, <2>6
<1> QED BY <1>1, <1>2, <1>3

\* The other steps of a worker write no row.
LEMMA OtherTaskKeepsRows ==
    ASSUME TypeOK, RowInv, NEW w \in Workers,
           \/ Deliveries(w) \/ Claim(w) \/ Fetch(w) \/ Prepare(w) \/ Ask(w) \/ ProviderBusy(w)
           \/ MarkCompleted(w) \/ UnexpectedError(w) \/ Retry(w) \/ OnFailure(w) \/ GiveUp(w) \/ Ack(w)
           \/ HandlerLost(w) \/ WorkerCrash(w)
    PROVE  RowInv' /\ UNCHANGED <<row, runs, rpc, rrow>>
<1> USE DEF TypeOK, AttemptsOK, Run, Vacate, Rollback
<1>1. UNCHANGED <<row, runs, rpc, rrow>>
      BY DEF Deliveries, Deliver, Claim, Fetch, Prepare, Ask, ProviderBusy, MarkCompleted, UnexpectedError,
         Retry, OnFailure, GiveUp, Ack, HandlerLost, WorkerCrash, dataVars, reviewVars
<1>2. \A v \in Workers : \/ held'[v] = {}
                          \/ /\ held'[v] = held[v] /\ wjob'[v] = wjob[v]
                             /\ wpc'[v] = "idle" => wpc[v] = "idle"
    <2>1. CASE Deliveries(w)
          BY <2>1 DEF Deliveries, Deliver, RowInv, IdleHoldsNothing
    <2>2. CASE Claim(w) \/ Fetch(w) \/ Prepare(w) \/ Ask(w)
          BY <2>2 DEF Claim, Fetch, Prepare, Ask
    <2>3. CASE ProviderBusy(w) \/ UnexpectedError(w)
          BY <2>3 DEF ProviderBusy, UnexpectedError
    <2>4. CASE MarkCompleted(w) \/ Retry(w) \/ OnFailure(w) \/ GiveUp(w)
          BY <2>4 DEF MarkCompleted, Retry, OnFailure, GiveUp
    <2>5. CASE Ack(w) \/ HandlerLost(w) \/ WorkerCrash(w)
          BY <2>5 DEF Ack, HandlerLost, WorkerCrash
    <2> QED BY <2>1, <2>2, <2>3, <2>4, <2>5
<1> QED BY <1>1, <1>2, QuietKeepsRows

\* Nor does a review but for the row it decides on, which no run has deleted.
LEMMA ReviewKeepsRows ==
    ASSUME TypeOK, RowInv, NEW q \in Reviewers,
           ReviewStep(q) \/ \E op \in {"accept", "reject"}, x \in Rows : ReviewBegin(q, op, x)
    PROVE  /\ RowInv'
           /\ UNCHANGED <<runs, workerVars>>
           /\ \A x \in Rows : \/ row'[x] = row[x]
                              \/ /\ x[1] \in Extractions /\ ~Locked(x) /\ row[x] # "deleted"
                                 /\ row'[x] \in Reviewed
<1> USE DEF TypeOK, DataOK, RequestsOK
<1>1. UNCHANGED <<runs, workerVars>>
      BY DEF ReviewStep, ReviewBegin, CreateTask, ReadCourse, FlushCourse, MarkReviewed, dataVars
<1>2. CASE MarkReviewed(q)
    <2>1. rrow[q] \in Rows /\ rrow[q][1] \in Extractions /\ ~Locked(rrow[q]) /\ row[rrow[q]] # "absent"
          BY <1>2 DEF MarkReviewed, RowInv, ReviewedExists
    <2>2. \A x \in Rows : \/ row'[x] = row[x]
                          \/ x = rrow[q] /\ row[x] # "deleted" /\ row'[x] \in Reviewed
          BY <1>2 DEF MarkReviewed, Reviewed
    <2>3. \A w \in Workers : \A x \in held[w] : row'[x] = row[x]
          BY <2>1, <2>2 DEF Locked, AttemptsOK
    <2>4. \A p \in Reviewers : rpc'[p] # "idle" => p # q /\ rpc[p] # "idle" /\ rrow'[p] = rrow[p]
          BY <1>2 DEF MarkReviewed, Done
    <2>5. ReviewedExists'
          BY <2>2, <2>4 DEF RowInv, ReviewedExists, Reviewed
    <2>6. RowsOfRuns'
          BY <1>1, <2>1, <2>2 DEF RowInv, RowsOfRuns
    <2>7. HeldPending' /\ HeldOnce' /\ IdleHoldsNothing'
          BY <1>1, <2>3 DEF RowInv, HeldPending, HeldOnce, IdleHoldsNothing, workerVars
    <2> QED BY <1>1, <2>1, <2>2, <2>5, <2>6, <2>7 DEF RowInv
<1>3. ASSUME UNCHANGED row, ReviewedExists' PROVE RowInv'
      BY <1>1, <1>3 DEF RowInv, HeldPending, HeldOnce, IdleHoldsNothing, RowsOfRuns, workerVars
<1>4. CASE CreateTask(q) \/ ReadCourse(q) \/ FlushCourse(q)
    <2>1. UNCHANGED row /\ \A p \in Reviewers : rpc'[p] # "idle" => rpc[p] # "idle" /\ rrow'[p] = rrow[p]
          BY <1>4 DEF CreateTask, ReadCourse, FlushCourse, Step, Done, dataVars
    <2> QED BY <1>1, <1>3, <2>1 DEF RowInv, ReviewedExists
<1>5. ASSUME NEW op \in {"accept", "reject"}, NEW x \in Rows, ReviewBegin(q, op, x)
      PROVE  UNCHANGED row /\ ReviewedExists'
      BY <1>5 DEF ReviewBegin, RowInv, ReviewedExists, dataVars
<1> QED BY <1>1, <1>2, <1>3, <1>4, <1>5 DEF ReviewStep, CreateTask, ReadCourse, FlushCourse, dataVars

\* What is left of a step when it is none of a worker or a review.
LEMMA ElsewhereKeepsRows ==
    ASSUME RowInv,
           \/ \E c \in Clients : RequestStep(c) \/ \E j \in Jobs : TriggerBegin(c, j)
           \/ \E d \in Docs : DeleteDocument(d) \/ RemoveText(d) \/ ProcessingMoves(d)
           \/ \E k \in Courses, value \in {"manual", "blank"} : EditCourse(k, value)
           \/ UNCHANGED vars
    PROVE  RowInv' /\ UNCHANGED <<row, runs, workerVars, rpc, rrow>>
<1>1. UNCHANGED <<row, runs, workerVars, rpc, rrow>>
      BY DEF RequestStep, Enqueue, MarkQueued, TriggerBegin, DeleteDocument, RemoveText, ProcessingMoves,
         EditCourse, vars, dataVars, reviewVars
<1> QED BY <1>1, QuietKeepsRows DEF workerVars

LEMMA NextKeepsRows ==
    TypeOK /\ RowInv /\ [Next]_vars
        => RowInv' /\ \A x \in Rows : row[x] \in Reviewed => row'[x] \in Reviewed
<1> SUFFICES ASSUME TypeOK, RowInv, [Next]_vars
             PROVE  RowInv' /\ \A x \in Rows : row[x] \in Reviewed => row'[x] \in Reviewed
    OBVIOUS
<1>1. ASSUME NEW w \in Workers, TaskStep(w) \/ Deliveries(w) \/ HandlerLost(w) \/ WorkerCrash(w)
      PROVE  RowInv' /\ \A x \in Rows : row[x] \in Reviewed => row'[x] \in Reviewed
    <2>1. CASE DeleteRows(w) \/ InsertRows(w) \/ MarkFailed(w)
          BY <2>1, CommitKeepsRows
    <2> QED BY <1>1, <2>1, OtherTaskKeepsRows DEF TaskStep
<1>2. ASSUME NEW q \in Reviewers,
             ReviewStep(q) \/ \E op \in {"accept", "reject"}, x \in Rows : ReviewBegin(q, op, x)
      PROVE  RowInv' /\ \A x \in Rows : row[x] \in Reviewed => row'[x] \in Reviewed
      BY <1>2, ReviewKeepsRows
<1> QED BY <1>1, <1>2, ElsewhereKeepsRows DEF Next, Environment

LEMMA RowInvariant == Spec => []RowInv
<1>1. Init => RowInv
    <2> SUFFICES ASSUME Init PROVE RowInv
        OBVIOUS
    <2>1. \A w \in Workers : held[w] = {}
          BY DEF Init
    <2>2. \A q \in Reviewers : rpc[q] = "idle"
          BY DEF Init
    <2>3. \A x \in Rows : row[x] = "absent"
          BY DEF Init
    <2> QED BY <2>1, <2>2, <2>3 DEF RowInv, HeldPending, HeldOnce, IdleHoldsNothing, RowsOfRuns, ReviewedExists
<1> QED BY <1>1, AiTypeCorrect, NextKeepsRows, PTL DEF Spec

\* A run never takes back a candidate a student has decided on, also one
\* decided on while the run was waiting for the provider
\* (delete_pending_for_document).
THEOREM ReviewedSafety == Spec => ReviewedKept
<1>1. TypeOK /\ RowInv /\ [Next]_vars
        => [\A x \in Rows : row[x] \in Reviewed => row'[x] \in Reviewed]_vars
      BY NextKeepsRows
<1> QED BY <1>1, AiTypeCorrect, RowInvariant, PTL DEF Spec, ReviewedKept

-----------------------------------------------------------------------------
(* With one worker process.  The induction needs what an attempt has done on  *)
(* its way to the commit: all rows on offer are among those it has deleted,   *)
(* chunks are there when it is about to say so, if the text makes any, and    *)
(* the status it loaded is COMPLETED if the row says COMPLETED, so that       *)
(* FAILED will be sent.                                                       *)

DeletedAll(w) ==
    wpc[w] = "insert" \/ (wpc[w] = "ask" /\ wjob[w] \in Embeddings) => Pending(wjob[w]) \subseteq held[w]
ChunksInserted(w) ==
    wpc[w] = "complete" /\ wjob[w] \in Embeddings /\ DocOf[wjob[w]] \notin blank => Pending(wjob[w]) # {}
KnowsCompleted(w) ==
    /\ wpc[w] \in {"prepare", "ask", "delete", "insert", "fail"}
    /\ job[wjob[w]] = "COMPLETED"
    => wsnap[w].status = "COMPLETED"
SoleWorker(w) == DeletedAll(w) /\ ChunksInserted(w) /\ KnowsCompleted(w)

OneRun == \A j \in Jobs : \A x, y \in Pending(j) : x[2] = y[2]
ChunksThere ==
    \A j \in Embeddings : job[j] = "COMPLETED" /\ DocOf[j] \notin blank => Pending(j) # {}

SoleInv == \A w \in Workers : Workers = {w} => SoleWorker(w) /\ OneRun /\ ChunksThere

\* Which texts make no chunks never changes.
LEMMA BlankStays == [Next]_vars => UNCHANGED blank
BY DEF Next, vars, Environment, RequestStep, ReviewStep, Deliveries, TaskStep, docVars, DeleteDocument,
   RemoveText, ProcessingMoves, EditCourse, TriggerBegin, ReviewBegin, HandlerLost, WorkerCrash, Enqueue,
   MarkQueued, CreateTask, ReadCourse, FlushCourse, MarkReviewed, Deliver, Claim, Fetch, Prepare, Ask,
   ProviderBusy, DeleteRows, InsertRows, MarkCompleted, MarkFailed, UnexpectedError, Retry, OnFailure,
   GiveUp, Ack

\* Pending shrinks with the rows.
LEMMA PendingRows ==
    /\ UNCHANGED row => \A j \in Jobs : Pending(j)' = Pending(j)
    /\ \A j \in Jobs : (\A x \in Rows : x[1] = j => (row'[x] = "PENDING" <=> row[x] = "PENDING"))
                         => Pending(j)' = Pending(j)
    /\ \A j \in Jobs : (\A x \in Rows : x[1] = j => (row'[x] = "PENDING" => row[x] = "PENDING"))
                         => Pending(j)' \subseteq Pending(j)
BY DEF Pending, RowsOf

\* Steps of the sole worker that leave the rows alone.
LEMMA SoleQuiet ==
    ASSUME TypeOK, NEW w \in Workers, SoleWorker(w), OneRun, ChunksThere, UNCHANGED blank,
           \/ Deliveries(w) \/ Claim(w) \/ Fetch(w) \/ Prepare(w) \/ Ask(w) \/ ProviderBusy(w)
           \/ DeleteRows(w) \/ MarkCompleted(w) \/ UnexpectedError(w) \/ Retry(w) \/ OnFailure(w)
           \/ GiveUp(w) \/ Ack(w) \/ HandlerLost(w) \/ WorkerCrash(w)
    PROVE  SoleWorker(w)' /\ OneRun' /\ ChunksThere'
<1> USE DEF TypeOK, DataOK, AttemptsOK, Run, Vacate, Rollback
<1>1. UNCHANGED row
      BY DEF Deliveries, Deliver, Claim, Fetch, Prepare, Ask, ProviderBusy, DeleteRows, MarkCompleted,
         UnexpectedError, Retry, OnFailure, GiveUp, Ack, HandlerLost, WorkerCrash, dataVars
<1>2. \A j \in Jobs : Pending(j)' = Pending(j)
      BY <1>1, PendingRows
<1>3. OneRun'
      BY <1>2 DEF OneRun
<1>w. wpc[w] # "idle" => wjob[w] \in Jobs
      OBVIOUS
<1>4. ASSUME UNCHANGED job PROVE ChunksThere'
      BY <1>2, <1>4 DEF ChunksThere, Jobs
<1>5. CASE Deliveries(w) \/ Ack(w) \/ WorkerCrash(w) \/ HandlerLost(w) \/ ProviderBusy(w) \/ UnexpectedError(w)
           \/ Retry(w) \/ OnFailure(w)
    <2>1. UNCHANGED job /\ wpc'[w] \in {"idle", "claim", "fetch", "retry", "on_failure", "give_up", "ack"}
          BY <1>5 DEF Deliveries, Deliver, Ack, WorkerCrash, HandlerLost, ProviderBusy, UnexpectedError, Retry,
             OnFailure
    <2> QED BY <1>3, <1>4, <2>1 DEF SoleWorker, DeletedAll, ChunksInserted, KnowsCompleted
<1>6. CASE Claim(w) \/ GiveUp(w)
    <2>1. /\ wpc'[w] \in {"fetch", "ack"}
          /\ \A j \in Jobs : job'[j] = "COMPLETED" => job[j] = "COMPLETED"
          BY <1>6 DEF Claim, GiveUp
    <2>2. ChunksThere'
          BY <1>2, <2>1 DEF ChunksThere, Jobs
    <2> QED BY <1>3, <2>1, <2>2 DEF SoleWorker, DeletedAll, ChunksInserted, KnowsCompleted
<1>7. CASE Fetch(w)
    <2>1. UNCHANGED <<job, wjob>> /\ wpc'[w] = "prepare" /\ wsnap'[w].status = job[wjob[w]]
          BY <1>7 DEF Fetch
    <2> QED BY <1>3, <1>4, <2>1 DEF SoleWorker, DeletedAll, ChunksInserted, KnowsCompleted
<1>8. CASE Prepare(w) \/ DeleteRows(w) \/ Ask(w)
    <2>1. UNCHANGED <<job, wjob, wsnap>> /\ wpc'[w] \in {"ask", "delete", "insert", "fail", "on_failure"}
          BY <1>8 DEF Prepare, DeleteRows, Ask
    <2>2. KnowsCompleted(w)' /\ ChunksInserted(w)'
          BY <1>8, <2>1 DEF SoleWorker, KnowsCompleted, ChunksInserted, Prepare, DeleteRows, Ask
    <2>3. DeletedAll(w)'
        <3>1. CASE Prepare(w)
            <4>1. ~(wpc'[w] = "insert" \/ (wpc'[w] = "ask" /\ wjob'[w] \in Embeddings))
                  BY <3>1 DEF Prepare
            <4> QED BY <4>1 DEF DeletedAll
        <3>2. CASE DeleteRows(w)
            <4>1. held'[w] = Pending(wjob[w]) /\ wjob[w] \in Jobs
                  BY <3>2 DEF DeleteRows
            <4> QED BY <1>2, <2>1, <4>1 DEF DeletedAll
        <3>3. CASE Ask(w)
            <4>1. held'[w] = held[w] /\ wjob[w] \in Jobs /\ wpc[w] = "ask"
                  BY <3>3 DEF Ask
            <4>2. wpc'[w] # "ask" /\ (wpc'[w] = "insert" => wjob[w] \in Embeddings)
                  BY <3>3 DEF Ask, Jobs
            <4> QED BY <1>2, <2>1, <4>1, <4>2 DEF SoleWorker, DeletedAll
        <3> QED BY <1>8, <3>1, <3>2, <3>3
    <2> QED BY <1>3, <1>4, <2>1, <2>2, <2>3 DEF SoleWorker
<1>9. CASE MarkCompleted(w)
    <2>1. /\ wpc[w] = "complete" /\ wjob[w] \in Jobs /\ wpc'[w] \in {"ack", "on_failure"}
          /\ \A j \in Jobs : j # wjob[w] => job'[j] = job[j]
          BY <1>9 DEF MarkCompleted
    <2>2. wjob[w] \in Embeddings /\ DocOf[wjob[w]] \notin blank => Pending(wjob[w]) # {}
          BY <2>1 DEF SoleWorker, ChunksInserted
    <2>3. ChunksThere'
          BY <1>2, <2>1, <2>2 DEF ChunksThere, Jobs
    <2> QED BY <1>3, <2>1, <2>3 DEF SoleWorker, DeletedAll, ChunksInserted, KnowsCompleted
<1> QED BY <1>5, <1>6, <1>7, <1>8, <1>9

\* Its two commits.
LEMMA SoleCommit ==
    ASSUME TypeOK, RowInv, NEW w \in Workers, SoleWorker(w), OneRun, ChunksThere, UNCHANGED blank,
           InsertRows(w) \/ MarkFailed(w)
    PROVE  SoleWorker(w)' /\ OneRun' /\ ChunksThere'
<1> USE DEF TypeOK, DataOK, AttemptsOK, Run
<1>1. PICK j \in Jobs : j = wjob[w] /\ UNCHANGED wjob
      BY DEF InsertRows, MarkFailed
<1>n. PICK n \in Nat : n = runs[j] + 1
      OBVIOUS
<1>2. \A x \in held[w] : x[1] = j
      BY <1>1 DEF RowInv, HeldPending
<1>3. CASE InsertRows(w)
    <2>1. wpc[w] = "insert" /\ wpc'[w] = "complete" /\ UNCHANGED job /\ n \in 1..MaxRuns
          BY <1>1, <1>n, <1>3 DEF InsertRows, MaxRuns
    <2>2. PICK found \in Found(j) :
            /\ row' = [x \in Rows |-> CASE x \in held[w] -> "deleted"
                                       [] x[1] = j /\ x[2] = n /\ Kind(x) \in found -> "PENDING"
                                       [] OTHER -> row[x]]
          BY <1>1, <1>n, <1>3 DEF InsertRows
    <2>3. \A x \in Rows : x[1] # j => row'[x] = row[x]
          BY <1>2, <2>2
    <2>4. \A x \in Rows : x[1] = j /\ row'[x] = "PENDING" => x[2] = n
        <3> SUFFICES ASSUME NEW x \in Rows, x[1] = j, row'[x] = "PENDING", x[2] # n PROVE FALSE
            OBVIOUS
        <3>1. x \notin held[w] /\ row[x] = "PENDING"
              BY <2>2
        <3>2. x \in Pending(j)
              BY <3>1 DEF Pending, RowsOf
        <3> QED BY <1>1, <2>1, <3>1, <3>2 DEF SoleWorker, DeletedAll
    <2>5. \A i \in Jobs : i # j => Pending(i)' = Pending(i)
          BY <2>3, PendingRows
    <2>6. \A x \in Pending(j)' : x[2] = n
          BY <2>4 DEF Pending, RowsOf
    <2>7. OneRun'
        <3> SUFFICES ASSUME NEW i \in Jobs, NEW x \in Pending(i)', NEW y \in Pending(i)' PROVE x[2] = y[2]
            BY DEF OneRun
        <3>1. CASE i = j
            <4>1. x \in Pending(j)' /\ y \in Pending(j)'
                  BY <3>1
            <4> QED BY <2>6, <4>1
        <3>2. CASE i # j
              BY <2>5, <3>2 DEF OneRun
        <3> QED BY <3>1, <3>2
    <2>8. ASSUME j \in Embeddings, DocOf[j] \notin blank PROVE Pending(j)' # {}
        <3> DEFINE chunk == <<j, n, Chunks>>
        <3>1. j \notin Extractions /\ KindsOf(j) = {Chunks} /\ found = {Chunks}
              BY <2>2, <2>8 DEF KindsOf, Found
        <3>2. chunk \in Rows
              BY <1>1, <2>1, <3>1 DEF Rows
        <3>3. chunk[1] = j /\ chunk[2] = n /\ Kind(chunk) \in found
              BY <3>1 DEF Kind
        <3>4. n > runs[j]
              BY <1>n
        <3> HIDE DEF chunk
        <3>5. row[chunk] = "absent"
              BY <3>2, <3>3, <3>4 DEF RowInv, RowsOfRuns
        <3>6. chunk \notin held[w]
              BY <3>5 DEF RowInv, HeldPending
        <3>7. row'[chunk] = "PENDING"
              BY <2>2, <3>2, <3>3, <3>6
        <3> QED BY <3>2, <3>3, <3>7 DEF Pending, RowsOf
    <2>9. ChunksThere'
          BY <2>1, <2>5, <2>8 DEF ChunksThere, Jobs
    <2>10. SoleWorker(w)'
          BY <1>1, <2>1, <2>8 DEF SoleWorker, DeletedAll, ChunksInserted, KnowsCompleted
    <2> QED BY <2>7, <2>9, <2>10
<1>4. CASE MarkFailed(w)
    <2>1. /\ wpc[w] = "fail" /\ wpc'[w] = "on_failure"
          /\ \A x \in Rows : row'[x] = IF x \in held[w] THEN "deleted" ELSE row[x]
          BY <1>4 DEF MarkFailed
    <2>2. \A i \in Jobs : Pending(i)' \subseteq Pending(i) /\ (i # j => Pending(i)' = Pending(i))
          BY <1>2, <2>1, PendingRows
    <2>3. \A i \in Jobs : i # j => job'[i] = job[i]
          BY <1>1, <1>4 DEF MarkFailed
    <2>4. job'[j] # "COMPLETED"
        <3>1. job'[j] = IF wsnap[w].status = "FAILED" THEN job[j] ELSE "FAILED"
              BY <1>1, <1>4 DEF MarkFailed, Emit
        <3>2. job[j] = "COMPLETED" => wsnap[w].status = "COMPLETED"
              BY <1>1, <2>1 DEF SoleWorker, KnowsCompleted
        <3> QED BY <3>1, <3>2
    <2>5. OneRun'
          BY <2>2 DEF OneRun
    <2>6. ChunksThere'
          BY <2>2, <2>3, <2>4 DEF ChunksThere, Jobs
    <2> QED BY <2>1, <2>5, <2>6 DEF SoleWorker, DeletedAll, ChunksInserted, KnowsCompleted
<1> QED BY <1>3, <1>4

LEMMA NextKeepsSole == TypeOK /\ RowInv /\ SoleInv /\ [Next]_vars => SoleInv'
<1> SUFFICES ASSUME TypeOK, RowInv, [Next]_vars, NEW w \in Workers, Workers = {w},
                    SoleWorker(w), OneRun, ChunksThere, UNCHANGED blank
             PROVE  SoleWorker(w)' /\ OneRun' /\ ChunksThere'
    BY BlankStays DEF SoleInv
<1>1. ASSUME NEW v \in Workers, TaskStep(v) \/ Deliveries(v) \/ HandlerLost(v) \/ WorkerCrash(v)
      PROVE  SoleWorker(w)' /\ OneRun' /\ ChunksThere'
    <2>1. v = w
          OBVIOUS
    <2> QED BY <1>1, <2>1, SoleQuiet, SoleCommit DEF TaskStep
<1>2. ASSUME UNCHANGED workerVars,
             \A j \in Jobs : job'[j] = "COMPLETED" => job[j] = "COMPLETED",
             \A j \in Jobs : Pending(j)' \subseteq Pending(j) /\ (j \in Embeddings => Pending(j)' = Pending(j))
      PROVE  SoleWorker(w)' /\ OneRun' /\ ChunksThere'
    <2>1. OneRun' /\ ChunksThere'
          BY <1>2 DEF OneRun, ChunksThere, Jobs
    <2>2. wpc[w] # "idle" => wjob[w] \in Jobs
          BY DEF TypeOK, AttemptsOK
    <2>3. SoleWorker(w)'
          BY <1>2, <2>2 DEF SoleWorker, DeletedAll, ChunksInserted, KnowsCompleted, workerVars
    <2> QED BY <2>1, <2>3
<1>3. ASSUME NEW q \in Reviewers,
             ReviewStep(q) \/ \E op \in {"accept", "reject"}, x \in Rows : ReviewBegin(q, op, x)
      PROVE  SoleWorker(w)' /\ OneRun' /\ ChunksThere'
    <2>1. /\ UNCHANGED workerVars
          /\ \A x \in Rows : row'[x] = row[x] \/ (x[1] \in Extractions /\ row'[x] \in Reviewed)
          BY <1>3, ReviewKeepsRows
    <2>2. UNCHANGED job
          BY <1>3 DEF ReviewStep, ReviewBegin, CreateTask, ReadCourse, FlushCourse, MarkReviewed
    <2>3. \A j \in Jobs : Pending(j)' \subseteq Pending(j) /\ (j \in Embeddings => Pending(j)' = Pending(j))
          BY <2>1, PendingRows DEF Reviewed
    <2> QED BY <1>2, <2>1, <2>2, <2>3
<1>4. ASSUME \/ \E c \in Clients : RequestStep(c) \/ \E j \in Jobs : TriggerBegin(c, j)
             \/ \E d \in Docs : DeleteDocument(d) \/ RemoveText(d) \/ ProcessingMoves(d)
             \/ \E k \in Courses, value \in {"manual", "blank"} : EditCourse(k, value)
             \/ UNCHANGED vars
      PROVE  SoleWorker(w)' /\ OneRun' /\ ChunksThere'
    <2>1. UNCHANGED workerVars /\ UNCHANGED row
          BY <1>4, ElsewhereKeepsRows
    <2>2. \A j \in Jobs : job'[j] = "COMPLETED" => job[j] = "COMPLETED"
          BY <1>4 DEF RequestStep, Enqueue, MarkQueued, Emit, TriggerBegin, DeleteDocument, RemoveText,
             ProcessingMoves, EditCourse, vars, TypeOK, DataOK
    <2> QED BY <1>2, <2>1, <2>2, PendingRows
<1> QED BY <1>1, <1>3, <1>4 DEF Next, Environment

LEMMA SoleInvariant == Spec => []SoleInv
<1>1. Init => SoleInv
    <2> SUFFICES ASSUME Init PROVE SoleInv
        OBVIOUS
    <2>1. \A j \in Jobs : Pending(j) = {} /\ job[j] # "COMPLETED"
          BY DEF Init, Pending, RowsOf
    <2>2. \A w \in Workers : wpc[w] = "idle"
          BY DEF Init
    <2> QED BY <2>1, <2>2 DEF SoleInv, SoleWorker, DeletedAll, ChunksInserted, KnowsCompleted, OneRun,
            ChunksThere, Jobs
<1> QED BY <1>1, AiTypeCorrect, RowInvariant, NextKeepsSole, PTL DEF Spec

\* With one worker process a student is never offered rows of two runs of a
\* job at once, whatever triggers, retries without a claim and deaths of the
\* worker come in between (delete_pending_for_document, delete_by_document).
THEOREM OneRunSafety == Spec => []OneRunShown
<1>1. SoleInv => OneRunShown
    <2> SUFFICES ASSUME SoleInv, Cardinality(Workers) = 1 PROVE OneRun
        BY DEF OneRunShown, OneRun
    <2>1. PICK w : Workers = {w}
          BY FS_Singleton
    <2> QED BY <2>1 DEF SoleInv
<1> QED BY <1>1, SoleInvariant, PTL

\* With one worker process an embedding that says COMPLETED has its chunks,
\* unless the text makes none: only then, or with FAILED, is the deletion
\* committed without new chunks (DocumentEmbeddingService.embed,
\* embed_document).
THEOREM ChunksSafety == Spec => []CompletedHasChunks
<1>1. SoleInv => CompletedHasChunks
    <2> SUFFICES ASSUME SoleInv, Cardinality(Workers) = 1 PROVE ChunksThere
        BY DEF CompletedHasChunks, ChunksThere
    <2>1. PICK w : Workers = {w}
          BY FS_Singleton
    <2> QED BY <2>1 DEF SoleInv
<1> QED BY <1>1, SoleInvariant, PTL

-----------------------------------------------------------------------------
(* The extraction, the embedding and the review implement DocumentInsights.  *)
(* A run's transaction holds rows only between its deletion and its commit,  *)
(* and a sole worker that fails with a deletion made has deleted all; what   *)
(* a review is about to write follows from the candidate's kind.             *)

HeldUntilCommit ==
    \A w \in Workers : held[w] # {} => \/ wpc[w] = "insert"
                                       \/ wpc[w] \in {"ask", "fail"} /\ wjob[w] \in Embeddings
FailsWithAll ==
    \A w \in Workers : Workers = {w} /\ wpc[w] = "fail" /\ held[w] # {} => Pending(wjob[w]) \subseteq held[w]
ReviewByKind ==
    \A q \in Reviewers :
        /\ rpc[q] = "task" => Kind(rrow[q]) \in TaskKinds
        /\ rpc[q] \in {"course", "flush"} => Kind(rrow[q]) \in CourseKinds /\ rop[q] = "accept"
        /\ rblank[q] => rpc[q] = "mark" /\ Kind(rrow[q]) \in CourseKinds /\ rop[q] = "accept"

\* The steps of a worker keep a transaction's rows within it.
LEMMA WorkerKeepsHeld ==
    ASSUME TypeOK, RowInv, SoleInv, HeldUntilCommit, FailsWithAll, NEW w \in Workers,
           TaskStep(w) \/ Deliveries(w) \/ HandlerLost(w) \/ WorkerCrash(w)
    PROVE  HeldUntilCommit' /\ FailsWithAll'
<1> USE DEF TypeOK, AttemptsOK, Run, Rollback, Vacate
<1>1. \A v \in Workers : v # w => held'[v] = held[v] /\ wpc'[v] = wpc[v] /\ wjob'[v] = wjob[v]
      BY DEF TaskStep, Deliveries, Deliver, Claim, Fetch, Prepare, Ask, ProviderBusy, DeleteRows, InsertRows,
         MarkCompleted, MarkFailed, UnexpectedError, Retry, OnFailure, GiveUp, Ack, HandlerLost, WorkerCrash
<1>2. ASSUME held'[w] # {} => \/ wpc'[w] = "insert"
                              \/ wpc'[w] \in {"ask", "fail"} /\ wjob'[w] \in Embeddings,
             Workers = {w} /\ wpc'[w] = "fail" /\ held'[w] # {} => Pending(wjob[w])' \subseteq held'[w]
      PROVE  HeldUntilCommit' /\ FailsWithAll'
    <2>1. HeldUntilCommit'
          BY <1>1, <1>2 DEF HeldUntilCommit
    <2>2. FailsWithAll'
          BY <1>2 DEF FailsWithAll
    <2> QED BY <2>1, <2>2
<1>3. CASE held'[w] = {}
      BY <1>2, <1>3
<1>4. CASE DeleteRows(w)
    <2>1. UNCHANGED wjob /\ wjob[w] \in Jobs /\ wpc'[w] = IF DeletesLast(wjob[w]) THEN "insert" ELSE "ask"
          BY <1>4 DEF DeleteRows
    <2> QED BY <1>2, <2>1 DEF Jobs, DeletesLast
<1>5. CASE Ask(w)
    <2>1. UNCHANGED <<wjob, held>> /\ wjob[w] \in Jobs /\ wpc[w] = "ask"
          /\ (wpc'[w] = "fail" \/ wpc'[w] = IF wjob[w] \in Extractions THEN "delete" ELSE "insert")
          BY <1>5 DEF Ask
    <2>2. held[w] # {} => wjob[w] \in Embeddings /\ wjob[w] \notin Extractions
          BY <2>1 DEF HeldUntilCommit
    <2>3. Pending(wjob[w])' = Pending(wjob[w])
          BY <1>5, <2>1, PendingRows DEF Ask, dataVars
    <2>4. Workers = {w} /\ held[w] # {} => Pending(wjob[w]) \subseteq held[w]
          BY <2>1, <2>2 DEF SoleInv, SoleWorker, DeletedAll
    <2> QED BY <1>2, <2>1, <2>2, <2>3, <2>4
<1>6. CASE InsertRows(w) \/ MarkFailed(w) \/ ProviderBusy(w) \/ UnexpectedError(w) \/ Ack(w) \/ WorkerCrash(w)
    <2>1. held'[w] = {}
          BY <1>6 DEF InsertRows, MarkFailed, ProviderBusy, UnexpectedError, Ack, WorkerCrash
    <2> QED BY <1>3, <2>1
<1>7. CASE \/ Deliveries(w) \/ Claim(w) \/ Fetch(w) \/ Prepare(w) \/ MarkCompleted(w) \/ Retry(w)
           \/ OnFailure(w) \/ GiveUp(w) \/ HandlerLost(w)
    <2>1. /\ held'[w] = held[w]
          /\ wpc[w] \in {"idle", "claim", "fetch", "prepare", "complete", "retry", "on_failure", "give_up"}
          BY <1>7 DEF Deliveries, Deliver, Claim, Fetch, Prepare, MarkCompleted, Retry, OnFailure, GiveUp,
             HandlerLost
    <2>2. held[w] = {}
          BY <2>1 DEF HeldUntilCommit
    <2> QED BY <1>3, <2>1, <2>2
<1> QED BY <1>4, <1>5, <1>6, <1>7 DEF TaskStep

LEMMA NextKeepsHeld ==
    TypeOK /\ RowInv /\ SoleInv /\ HeldUntilCommit /\ FailsWithAll /\ [Next]_vars
        => HeldUntilCommit' /\ FailsWithAll'
<1> SUFFICES ASSUME TypeOK, RowInv, SoleInv, HeldUntilCommit, FailsWithAll, [Next]_vars
             PROVE  HeldUntilCommit' /\ FailsWithAll'
    OBVIOUS
<1>1. ASSUME UNCHANGED workerVars, \A j \in Jobs : Pending(j)' \subseteq Pending(j)
      PROVE  HeldUntilCommit' /\ FailsWithAll'
    <2>1. \A w \in Workers : wpc[w] # "idle" => wjob[w] \in Jobs
          BY DEF TypeOK, AttemptsOK
    <2> QED BY <1>1, <2>1 DEF HeldUntilCommit, FailsWithAll, workerVars
<1>2. ASSUME NEW q \in Reviewers,
             ReviewStep(q) \/ \E op \in {"accept", "reject"}, x \in Rows : ReviewBegin(q, op, x)
      PROVE  HeldUntilCommit' /\ FailsWithAll'
    <2>1. /\ UNCHANGED workerVars
          /\ \A x \in Rows : row'[x] = row[x] \/ row'[x] \in Reviewed
          BY <1>2, ReviewKeepsRows
    <2> QED BY <1>1, <2>1, PendingRows DEF Reviewed
<1>3. ASSUME \/ \E c \in Clients : RequestStep(c) \/ \E j \in Jobs : TriggerBegin(c, j)
             \/ \E d \in Docs : DeleteDocument(d) \/ RemoveText(d) \/ ProcessingMoves(d)
             \/ \E k \in Courses, value \in {"manual", "blank"} : EditCourse(k, value)
             \/ UNCHANGED vars
      PROVE  HeldUntilCommit' /\ FailsWithAll'
    <2>1. UNCHANGED workerVars /\ UNCHANGED row
          BY <1>3, ElsewhereKeepsRows
    <2> QED BY <1>1, <2>1, PendingRows
<1> QED BY <1>2, <1>3, WorkerKeepsHeld DEF Next, Environment

\* What a review has left to do follows from its candidate's kind.
LEMMA NextKeepsReviews == TypeOK /\ ReviewByKind /\ [Next]_vars => ReviewByKind'
<1> SUFFICES ASSUME TypeOK, ReviewByKind, [Next]_vars PROVE ReviewByKind'
    OBVIOUS
<1> USE DEF TypeOK, RequestsOK, ReviewByKind
<1>1. CASE UNCHANGED reviewVars
      BY <1>1 DEF reviewVars
<1>2. ASSUME NEW q \in Reviewers, CreateTask(q) \/ MarkReviewed(q) PROVE ReviewByKind'
    <2>1. /\ Done(q) \/ (Step(q, "mark") /\ rpc[q] = "task")
          BY <1>2 DEF CreateTask, MarkReviewed
    <2> QED BY <2>1 DEF Done, Step
<1>3. ASSUME NEW q \in Reviewers, ReadCourse(q) \/ FlushCourse(q) PROVE ReviewByKind'
      BY <1>3 DEF ReadCourse, FlushCourse
<1>4. ASSUME NEW q \in Reviewers, NEW op \in {"accept", "reject"}, NEW x \in Rows, ReviewBegin(q, op, x)
      PROVE  ReviewByKind'
      BY <1>4 DEF ReviewBegin
<1>5. CASE Environment
      BY <1>1, <1>4, <1>5 DEF Environment, DeleteDocument, RemoveText, ProcessingMoves, EditCourse,
         TriggerBegin, HandlerLost, WorkerCrash
<1>6. ASSUME NEW w \in Workers, TaskStep(w) \/ Deliveries(w) PROVE ReviewByKind'
      BY <1>1, <1>6 DEF TaskStep, Deliveries, Deliver, Claim, Fetch, Prepare, Ask, ProviderBusy,
         DeleteRows, InsertRows, MarkCompleted, MarkFailed, UnexpectedError, Retry, OnFailure, GiveUp, Ack
<1>7. ASSUME NEW c \in Clients, RequestStep(c) PROVE ReviewByKind'
      BY <1>1, <1>7 DEF RequestStep, Enqueue, MarkQueued
<1>8. CASE UNCHANGED vars
      BY <1>1, <1>8 DEF vars
<1> QED BY <1>2, <1>3, <1>5, <1>6, <1>7, <1>8 DEF Next, ReviewStep

\* A step of the implementation that changes none of what the student sees.
LEMMA InsightsStutter ==
    ASSUME UNCHANGED <<row, tasks, field>>
    PROVE  UNCHANGED Insights!vars
BY DEF Insights!vars, Offered, Seen, Decided, Planned, Pending, RowsOf

\* One row of one job changes from PENDING, or from a decision, to another.
LEMMA PendingBut ==
    ASSUME NEW x \in Rows, \A y \in Rows : y # x => row'[y] = row[y], row'[x] # "PENDING"
    PROVE  Offered' = [Offered EXCEPT ![x[1]] = @ \ {x}]
<1>1. ASSUME NEW j \in Jobs
      PROVE  Pending(j)' = IF j = x[1] THEN Pending(j) \ {x} ELSE Pending(j)
      BY DEF Pending, RowsOf
<1> QED BY <1>1 DEF Offered

\* One job's rows on offer change.
LEMMA PendingOf ==
    ASSUME NEW i \in Jobs, NEW now, \A j \in Jobs : j # i => Pending(j)' = Pending(j), Pending(i)' = now
    PROVE  Offered' = [Offered EXCEPT ![i] = now]
BY DEF Offered

\* What a sole worker holds at its commit is all there is.
LEMMA SoleHoldsAll ==
    ASSUME TypeOK, SoleInv, FailsWithAll, NEW w \in Workers, wpc[w] \in {"insert", "fail"}, Cardinality(Workers) = 1,
           wpc[w] = "fail" => held[w] # {}
    PROVE  Pending(wjob[w]) \subseteq held[w]
<1>1. Workers = {w}
    <2>1. PICK v : Workers = {v}
          BY FS_Singleton
    <2> QED BY <2>1
<1> QED BY <1>1 DEF SoleInv, SoleWorker, DeletedAll, FailsWithAll

\* The commit of a run offers its rows in the place of those it deleted, and
\* that of an embedding without chunks only takes those back.
LEMMA InsertOffers ==
    ASSUME TypeOK, RowInv, SoleInv, FailsWithAll, NEW w \in Workers, InsertRows(w)
    PROVE  Insights!Next
<1> USE DEF TypeOK, DataOK, AttemptsOK
<1>1. PICK j \in Jobs : j = wjob[w]
      BY DEF InsertRows
<1>2. PICK n \in Nat : n = runs[j] + 1
      OBVIOUS
<1>3. PICK found \in Found(j) :
        /\ row' = [x \in Rows |-> CASE x \in held[w] -> "deleted"
                                    [] x[1] = j /\ x[2] = n /\ Kind(x) \in found -> "PENDING"
                                    [] OTHER -> row[x]]
      BY <1>1, <1>2 DEF InsertRows
<1> DEFINE rows == {x \in Rows : x[1] = j /\ x[2] = n /\ Kind(x) \in found}
           kept == Pending(j) \ held[w]
           absent == {x \in Rows : row[x] = "absent"}
<1>4. \A x \in held[w] : x \in Rows /\ x[1] = j /\ row[x] = "PENDING"
      BY <1>1 DEF RowInv, HeldPending
<1>5. \A x \in rows : row[x] = "absent" /\ x \notin held[w]
    <2>1. n > runs[j]
          BY <1>2
    <2> QED BY <1>4, <2>1 DEF RowInv, RowsOfRuns
<1>6. \A x \in Rows : row'[x] = IF x \in held[w] THEN "deleted" ELSE IF x \in rows THEN "PENDING" ELSE row[x]
    <2> SUFFICES ASSUME NEW x \in Rows
                 PROVE  row'[x] = IF x \in held[w] THEN "deleted" ELSE IF x \in rows THEN "PENDING" ELSE row[x]
        OBVIOUS
    <2>1. row'[x] = CASE x \in held[w] -> "deleted"
                      [] x[1] = j /\ x[2] = n /\ Kind(x) \in found -> "PENDING"
                      [] OTHER -> row[x]
          BY <1>3
    <2>2. x \in rows <=> x[1] = j /\ x[2] = n /\ Kind(x) \in found
          OBVIOUS
    <2> HIDE DEF rows
    <2>3. CASE x \in held[w]
          BY <1>5, <2>1, <2>2, <2>3
    <2>4. CASE x \in rows
          BY <1>5, <2>1, <2>2, <2>4
    <2>5. CASE x \notin held[w] /\ x \notin rows
          BY <2>1, <2>2, <2>5
    <2> QED BY <2>3, <2>4, <2>5
<1>7. Cardinality(Workers) = 1 => kept = {}
    <2>1. wpc[w] = "insert"
          BY DEF InsertRows
    <2> QED BY <1>1, <2>1, SoleHoldsAll
<1>8. j \in Embeddings /\ DocOf[j] \notin blank => rows # {}
    <2> SUFFICES ASSUME j \in Embeddings, DocOf[j] \notin blank PROVE rows # {}
        OBVIOUS
    <2> DEFINE chunk == <<j, n, Chunks>>
    <2>1. j \notin Extractions /\ KindsOf(j) = {Chunks} /\ found = {Chunks}
          BY <1>3 DEF KindsOf, Found
    <2>2. n \in 1..MaxRuns
          BY <1>1, <1>2 DEF InsertRows, MaxRuns
    <2>3. chunk \in Rows /\ chunk[1] = j /\ chunk[2] = n /\ Kind(chunk) \in found
          BY <2>1, <2>2 DEF Rows, Kind
    <2> HIDE DEF chunk
    <2> QED BY <2>3
<1>23. j \in Embeddings /\ DocOf[j] \in blank => rows = {}
    <2>1. j \in Embeddings => j \notin Extractions
          BY AiConstantsAssumption
    <2> QED BY <1>3, <2>1 DEF Found
<1>9. rows \subseteq Rows /\ \A x, y \in rows : x[1] = j /\ x[2] = y[2]
      OBVIOUS
<1> HIDE DEF rows
<1>10. UNCHANGED <<tasks, field>>
      BY DEF InsertRows
<1>11. \A i \in Jobs : i # j => Pending(i)' = Pending(i)
      BY <1>4, <1>6, <1>9, PendingRows
<1>12. Pending(j)' = kept \cup rows
      BY <1>4, <1>5, <1>6, <1>9 DEF Pending, RowsOf
<1>13. Seen' = Seen \cup rows
      BY <1>4, <1>6, <1>9 DEF Seen
<1>14. ASSUME NEW status \in Reviewed PROVE Decided(status)' = Decided(status)
    <2>1. \A x \in Rows : row'[x] = status <=> row[x] = status
          BY <1>4, <1>5, <1>6 DEF Reviewed
    <2> QED BY <2>1 DEF Decided
<1>15. Planned' = Planned
      BY <1>10 DEF Planned
<1>16. rows \in SUBSET {x \in Rows \ Seen : x[1] = j}
      BY <1>5, <1>9 DEF Seen
<1>17. kept \in SUBSET Offered[j]
      BY DEF Offered
<1> HIDE DEF kept
<1>18. Offered' = [Offered EXCEPT ![j] = kept \cup rows]
      BY <1>11, <1>12, PendingOf
<1>19. Decided("ACCEPTED")' = Decided("ACCEPTED") /\ Decided("REJECTED")' = Decided("REJECTED")
      BY <1>14 DEF Reviewed
<1>20. ASSUME j \in Embeddings => rows # {} PROVE Insights!Offer(j)
    <2>1. \E r \in SUBSET {x \in Rows \ Seen : x[1] = j}, k \in SUBSET Offered[j] :
            /\ \A x, y \in r : x[2] = y[2]
            /\ j \in Embeddings => r # {}
            /\ Cardinality(Workers) = 1 => k = {}
            /\ Offered' = [Offered EXCEPT ![j] = k \cup r]
            /\ Seen' = Seen \cup r
        <3>1. \A x, y \in rows : x[2] = y[2]
              BY <1>9
        <3> WITNESS rows \in SUBSET {x \in Rows \ Seen : x[1] = j}, kept \in SUBSET Offered[j]
        <3> QED BY <1>7, <1>13, <1>18, <1>20, <3>1
    <2>2. UNCHANGED <<Decided("ACCEPTED"), Decided("REJECTED"), Planned, field>>
          BY <1>10, <1>15, <1>19
    <2> QED BY <2>1, <2>2 DEF Insights!Offer
<1>21. ASSUME j \in Embeddings, rows = {} PROVE Insights!Withdraw(j)
    <2>1. Seen' = Seen /\ Offered' = [Offered EXCEPT ![j] = kept]
          BY <1>13, <1>18, <1>21
    <2> QED BY <1>7, <1>10, <1>15, <1>17, <1>19, <1>21, <2>1 DEF Insights!Withdraw
<1>22. j \in Insights!Jobs
      BY DEF Insights!Jobs, Jobs
<1> QED BY <1>8, <1>23, <1>20, <1>21, <1>22 DEF Insights!Next

\* A failure that commits a deletion takes back the chunks of an embedding.
LEMMA FailWithdraws ==
    ASSUME TypeOK, RowInv, SoleInv, HeldUntilCommit, FailsWithAll, NEW w \in Workers, MarkFailed(w)
    PROVE  [Insights!Next]_(Insights!vars)
<1> USE DEF TypeOK, DataOK, AttemptsOK
<1>1. PICK j \in Jobs : j = wjob[w]
      BY DEF MarkFailed
<1>2. /\ wpc[w] = "fail" /\ UNCHANGED <<tasks, field>>
      /\ row' = [x \in Rows |-> IF x \in held[w] THEN "deleted" ELSE row[x]]
      BY DEF MarkFailed
<1>3. CASE held[w] = {}
    <2>1. UNCHANGED row
          BY <1>2, <1>3
    <2> QED BY <1>2, <2>1, InsightsStutter
<1>4. CASE held[w] # {}
    <2> DEFINE kept == Pending(j) \ held[w]
    <2>1. j \in Embeddings
          BY <1>1, <1>2, <1>4 DEF HeldUntilCommit
    <2>2. \A x \in held[w] : x \in Rows /\ x[1] = j /\ row[x] = "PENDING"
          BY <1>1 DEF RowInv, HeldPending
    <2>3. Cardinality(Workers) = 1 => kept = {}
          BY <1>1, <1>2, <1>4, SoleHoldsAll
    <2>4. \A i \in Jobs : i # j => Pending(i)' = Pending(i)
          BY <1>2, <2>2, PendingRows
    <2>5. Pending(j)' = kept
          BY <1>2, <2>2 DEF Pending, RowsOf
    <2>6. Decided("ACCEPTED")' = Decided("ACCEPTED") /\ Decided("REJECTED")' = Decided("REJECTED") /\ Seen' = Seen
        <3>1. \A x \in Rows : \/ row'[x] = row[x]
                              \/ row[x] = "PENDING" /\ row'[x] = "deleted"
              BY <1>2, <2>2
        <3> QED BY <3>1 DEF Decided, Seen
    <2>7. kept \in SUBSET Offered[j]
          BY DEF Offered
    <2> HIDE DEF kept
    <2>8. Offered' = [Offered EXCEPT ![j] = kept]
          BY <2>4, <2>5, PendingOf
    <2>11. UNCHANGED field /\ Planned' = Planned
          BY <1>2 DEF Planned
    <2>9. Insights!Withdraw(j)
          BY <2>1, <2>3, <2>6, <2>7, <2>8, <2>11 DEF Insights!Withdraw
    <2>10. j \in Insights!Jobs
          BY <2>1 DEF Insights!Jobs
    <2> QED BY <2>9, <2>10 DEF Insights!Next
<1> QED BY <1>3, <1>4

\* A review's task commit plans the candidate; its last commit decides on it.
LEMMA ReviewImplements ==
    ASSUME TypeOK, RowInv, AcceptInv, ReviewByKind, NEW q \in Reviewers, ReviewStep(q)
    PROVE  [Insights!Next]_(Insights!vars)
<1> USE DEF TypeOK, DataOK, RequestsOK
<1>1. CASE CreateTask(q)
    <2>1. PICK x \in Rows : x = rrow[q] /\ x[1] \in Extractions /\ row[x] # "absent" /\ Kind(x) \in TaskKinds
          BY <1>1 DEF CreateTask, RowInv, ReviewedExists, ReviewByKind
    <2>2. UNCHANGED <<row, field>>
          BY <1>1 DEF CreateTask
    <2>3. CASE UNCHANGED tasks
          BY <2>2, <2>3, InsightsStutter
    <2>4. CASE tasks' = [tasks EXCEPT ![x] = @ + 1]
        <3>1. \A y \in Rows : tasks'[y] > 0 <=> tasks[y] > 0 \/ y = x
              BY <2>4
        <3>2. Planned' = Planned \cup {x}
              BY <2>1, <3>1 DEF Planned
        <3>3. Offered' = Offered /\ Seen' = Seen /\ Decided("ACCEPTED")' = Decided("ACCEPTED")
              /\ Decided("REJECTED")' = Decided("REJECTED")
              BY <2>2 DEF Offered, Pending, RowsOf, Seen, Decided
        <3>4. x \in Seen /\ x[3] \in TaskKinds /\ x \in Insights!Candidates
              BY <2>1 DEF Seen, Kind, Insights!Candidates
        <3>5. Insights!Plan(x)
              BY <2>2, <3>2, <3>3, <3>4 DEF Insights!Plan
        <3> QED BY <3>4, <3>5 DEF Insights!Next
    <2> QED BY <1>1, <2>1, <2>3, <2>4 DEF CreateTask
<1>2. CASE ReadCourse(q) \/ FlushCourse(q)
      BY <1>2, InsightsStutter DEF ReadCourse, FlushCourse, dataVars
<1>3. CASE MarkReviewed(q)
    <2>1. PICK x \in Rows : x = rrow[q] /\ x[1] \in Extractions /\ row[x] # "absent"
          BY <1>3 DEF MarkReviewed, RowInv, ReviewedExists
    <2>2. UNCHANGED tasks
          BY <1>3 DEF MarkReviewed
    <2>3. CASE UNCHANGED <<row, field>>
          BY <2>2, <2>3, InsightsStutter
    <2>4. CASE /\ row[x] # "deleted"
               /\ row' = [row EXCEPT ![x] = IF rop[q] = "accept" THEN "ACCEPTED" ELSE "REJECTED"]
               /\ field' = IF rblank[q] THEN [field EXCEPT ![CourseOfRow(x)] = "extracted"] ELSE field
        <3>1. PICK status \in Reviewed : row'[x] = status /\ (status = "ACCEPTED" <=> rop[q] = "accept")
              BY <2>4 DEF Reviewed
        <3>2. \A y \in Rows : y # x => row'[y] = row[y]
              BY <2>4
        <3>3. Offered' = [Offered EXCEPT ![x[1]] = @ \ {x}]
              BY <3>1, <3>2, PendingBut DEF Reviewed
        <3>4. /\ Seen' = Seen
              /\ Decided(status)' = Decided(status) \cup {x}
              /\ \A other \in Reviewed : other # status => Decided(other)' = Decided(other) \ {x}
            <4>1. \A y \in Rows : row'[y] # "absent" <=> row[y] # "absent"
                  BY <2>1, <3>1, <3>2 DEF Reviewed
            <4>2. \A y \in Rows : row'[y] = status <=> row[y] = status \/ y = x
                  BY <3>1, <3>2
            <4>3. \A other \in Reviewed : other # status =>
                     \A y \in Rows : row'[y] = other <=> row[y] = other /\ y # x
                  BY <3>1, <3>2
            <4> QED BY <4>1, <4>2, <4>3 DEF Seen, Decided
        <3>5. x \in Offered[x[1]] \cup Decided("ACCEPTED") \cup Decided("REJECTED")
            <4>1. row[x] \in {"PENDING", "ACCEPTED", "REJECTED"}
                  BY <2>1, <2>4 DEF RowStatus
            <4>2. Offered[x[1]] = Pending(x[1])
                  BY <2>1 DEF Offered, Jobs
            <4> QED BY <4>1, <4>2 DEF Pending, RowsOf, Decided
        <3>6. Planned' = Planned
              BY <2>2 DEF Planned
        <3>7. x \in Insights!Candidates
              BY <2>1 DEF Insights!Candidates
        <3>8. Insights!Decidable(x)
              BY <3>5 DEF Insights!Decidable
        <3>9. CASE rop[q] = "accept"
            <4>1. status = "ACCEPTED"
                  BY <3>1, <3>9
            <4>2. /\ Decided("ACCEPTED")' = Decided("ACCEPTED") \cup {x}
                  /\ Decided("REJECTED")' = Decided("REJECTED") \ {x}
                  BY <3>4, <4>1 DEF Reviewed
            <4>3. x[3] \in TaskKinds => x \in Planned
                  BY <1>3, <2>1, <3>9 DEF AcceptInv, MarkReviewed, Kind, Planned
            <4>4. \/ UNCHANGED field
                  \/ /\ x[3] \in CourseKinds
                     /\ field' = [field EXCEPT ![CourseOf[DocOf[x[1]]]] = "extracted"]
                  BY <2>1, <2>4 DEF ReviewByKind, Kind, CourseOfRow
            <4>5. Insights!Accept(x)
                  BY <3>3, <3>4, <3>6, <3>8, <4>2, <4>3, <4>4 DEF Insights!Accept
            <4> QED BY <3>7, <4>5 DEF Insights!Next
        <3>10. CASE rop[q] # "accept"
            <4>1. status = "REJECTED"
                  BY <3>1, <3>10 DEF Reviewed
            <4>2. /\ Decided("ACCEPTED")' = Decided("ACCEPTED") \ {x}
                  /\ Decided("REJECTED")' = Decided("REJECTED") \cup {x}
                  BY <3>4, <4>1 DEF Reviewed
            <4>3. UNCHANGED field
                  BY <2>4, <3>10 DEF ReviewByKind
            <4>4. Insights!Reject(x)
                  BY <3>3, <3>4, <3>6, <3>8, <4>2, <4>3 DEF Insights!Reject
            <4> QED BY <3>7, <4>4 DEF Insights!Next
        <3> QED BY <3>9, <3>10
    <2> QED BY <1>3, <2>1, <2>3, <2>4 DEF MarkReviewed
<1> QED BY <1>1, <1>2, <1>3 DEF ReviewStep

\* The student's own edit of the course.
LEMMA EditImplements ==
    ASSUME NEW k \in Courses, NEW value \in {"manual", "blank"}, EditCourse(k, value)
    PROVE  Insights!Next
<1>1. Insights!EditCourse(k)
    <2>1. UNCHANGED <<row, tasks>> /\ field' = [field EXCEPT ![k] = value]
          BY DEF EditCourse
    <2>2. UNCHANGED <<Offered, Seen, Decided("ACCEPTED"), Decided("REJECTED"), Planned>>
          BY <2>1 DEF Offered, Pending, RowsOf, Seen, Decided, Planned
    <2> QED BY <2>1, <2>2 DEF Insights!EditCourse
<1> QED BY <1>1 DEF Insights!Next

\* For every number of jobs, workers, requests, faults and crashes, what a
\* student sees of the extraction, the embedding and the review is
\* DocumentInsights: with one worker process a run replaces all that is on
\* offer at once, and with any number a decision outlives every run.
THEOREM InsightsRefinement == Spec => ImplementsInsights
<1> DEFINE Inv == /\ TypeOK /\ RowInv /\ AcceptInv /\ SoleInv
                  /\ HeldUntilCommit /\ FailsWithAll /\ ReviewByKind
<1>1. Init => AcceptInv /\ HeldUntilCommit /\ FailsWithAll /\ ReviewByKind
    <2> SUFFICES ASSUME Init PROVE AcceptInv /\ HeldUntilCommit /\ FailsWithAll /\ ReviewByKind
        OBVIOUS
    <2>1. \A w \in Workers : held[w] = {}
          BY DEF Init
    <2>2. \A q \in Reviewers : rpc[q] = "idle" /\ rblank[q] = FALSE
          BY DEF Init
    <2>3. \A x \in Rows : row[x] = "absent"
          BY DEF Init
    <2> QED BY <2>1, <2>2, <2>3 DEF AcceptInv, AcceptedHasTask, HeldUntilCommit, FailsWithAll, ReviewByKind
<1>2. Spec => []Inv
      BY <1>1, AiTypeCorrect, RowInvariant, SoleInvariant, NextKeepsAccept, NextKeepsHeld, NextKeepsReviews,
         PTL DEF Spec
<1>3. Init => Insights!Init
    <2> SUFFICES ASSUME Init PROVE Insights!Init
        OBVIOUS
    <2>1. (\A x \in Rows : row[x] = "absent" /\ tasks[x] = 0) /\ field \in [Courses -> {"blank", "manual"}]
          BY DEF Init
    <2>2. Seen = {} /\ Planned = {} /\ Decided("ACCEPTED") = {} /\ Decided("REJECTED") = {}
          BY <2>1 DEF Seen, Planned, Decided
    <2>3. Offered = [j \in Insights!Jobs |-> {}]
          BY <2>1 DEF Offered, Pending, RowsOf, Insights!Jobs, Jobs
    <2> QED BY <2>1, <2>2, <2>3 DEF Insights!Init
<1>4. Inv /\ [Next]_vars => [Insights!Next]_(Insights!vars)
    <2> SUFFICES ASSUME Inv, [Next]_vars PROVE [Insights!Next]_(Insights!vars)
        OBVIOUS
    <2>1. ASSUME NEW w \in Workers, TaskStep(w) \/ Deliveries(w) \/ HandlerLost(w) \/ WorkerCrash(w)
          PROVE  [Insights!Next]_(Insights!vars)
        <3>1. CASE InsertRows(w)
              BY <3>1, InsertOffers
        <3>2. CASE MarkFailed(w)
              BY <3>2, FailWithdraws
        <3> QED BY <2>1, <3>1, <3>2, InsightsStutter
                DEF TaskStep, Deliveries, Deliver, Claim, Fetch, Prepare, Ask, ProviderBusy, DeleteRows,
                    MarkCompleted, UnexpectedError, Retry, OnFailure, GiveUp, Ack, HandlerLost, WorkerCrash,
                    dataVars
    <2>2. ASSUME NEW q \in Reviewers, ReviewStep(q)
          PROVE  [Insights!Next]_(Insights!vars)
          BY <2>2, ReviewImplements
    <2>3. CASE Environment
          BY <2>1, <2>3, EditImplements, InsightsStutter
             DEF Environment, DeleteDocument, RemoveText, ProcessingMoves, TriggerBegin, ReviewBegin, dataVars
    <2>4. ASSUME NEW c \in Clients, RequestStep(c)
          PROVE  [Insights!Next]_(Insights!vars)
          BY <2>4, InsightsStutter DEF RequestStep, Enqueue, MarkQueued, dataVars
    <2>5. CASE UNCHANGED vars
          BY <2>5, InsightsStutter DEF vars, dataVars
    <2> QED BY <2>1, <2>2, <2>3, <2>4, <2>5 DEF Next
<1> HIDE DEF Inv
<1> QED BY <1>2, <1>3, <1>4, PTL DEF Spec, ImplementsInsights, Insights!Spec
=============================================================================
