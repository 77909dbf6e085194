------------------------ MODULE DocumentPipeline_proofs ------------------------
(* What is proved of the document pipeline for every number of documents,    *)
(* workers, requests, API processes, retries, faults and crashes.            *)
EXTENDS DocumentPipeline, FiniteSetTheorems, TLAPS

USE ConstantsAssumption

-----------------------------------------------------------------------------
(* Type correctness: each group of variables, by the operators that change it. *)

\* The initial state has the types.
LEMMA InitType == Init => TypeOK
BY DEF Init, TypeOK, RowsOK, InputsOK, StorageOK, QueueOK, WorkersOK, ClientsOK, BoundsOK,
       Files, RowStatus, ProcessingStatus, Errors, NoSnap, NoClientSnap

\* What a step leaves alone keeps its type.
LEMMA FrameType ==
    /\ RowsOK /\ UNCHANGED rowVars => RowsOK'
    /\ InputsOK /\ UNCHANGED inputVars => InputsOK'
    /\ StorageOK /\ UNCHANGED storageVars => StorageOK'
    /\ QueueOK /\ UNCHANGED queue => QueueOK'
    /\ WorkersOK /\ UNCHANGED workerVars => WorkersOK'
    /\ ClientsOK /\ UNCHANGED clientVars => ClientsOK'
    /\ BoundsOK /\ UNCHANGED boundVars => BoundsOK'
BY DEF RowsOK, InputsOK, StorageOK, QueueOK, WorkersOK, ClientsOK, BoundsOK,
       rowVars, inputVars, storageVars, workerVars, clientVars, boundVars

\* A request that answers, goes on or begins keeps the requests' types.
LEMMA ClientType ==
    ASSUME ClientsOK, NEW c \in Clients
    PROVE  /\ Respond(c) => ClientsOK'
           /\ \A pc \in {"checked", "stored", "enqueue", "mark", "rm_original", "rm_artifact"} :
                cpc[c] # "idle" /\ Continue(c, pc) => ClientsOK'
           /\ \A d \in Docs, op \in {"upload", "reprocess", "delete"},
                 snap \in [deleted : BOOLEAN, hasPath : BOOLEAN],
                 pc \in {"admitted", "enqueue", "rm_original", "soft_delete"} :
                 Begin(c, op, d, snap, pc) => ClientsOK'
<1>1. Respond(c) => ClientsOK'
      BY DEF ClientsOK, Respond, NoClientSnap
<1>2. ASSUME NEW pc \in {"checked", "stored", "enqueue", "mark", "rm_original", "rm_artifact"},
             cpc[c] # "idle", Continue(c, pc)
      PROVE  ClientsOK'
      BY <1>2 DEF ClientsOK, Continue
<1>3. ASSUME NEW d \in Docs, NEW op \in {"upload", "reprocess", "delete"},
             NEW snap \in [deleted : BOOLEAN, hasPath : BOOLEAN],
             NEW pc \in {"admitted", "enqueue", "rm_original", "soft_delete"},
             Begin(c, op, d, snap, pc)
      PROVE  ClientsOK'
      BY <1>3 DEF ClientsOK, Begin
<1>4. QED BY <1>1, <1>2, <1>3

\* The bounds are never exceeded.
LEMMA BoundType == BoundsOK /\ (Fault \/ NewWork) => BoundsOK'
BY DEF BoundsOK, Fault, NewWork

\* A publish keeps the queue's type.
LEMMA PublishType ==
    ASSUME QueueOK, NEW d \in Docs, NEW r \in 0..MaxRetries, Publish(d, r)
    PROVE  QueueOK'
BY DEF QueueOK, Publish

\* A worker that goes on, loads a row or ends its delivery keeps the workers' types.
LEMMA WorkerType ==
    ASSUME WorkersOK, NEW w \in Workers
    PROVE  /\ \A pc \in {"fetch", "load", "save", "complete", "fail", "retry", "on_failure", "ack"} :
                wpc[w] # "idle" /\ Run(w, pc) /\ (pc = "retry" => wtry[w] < MaxRetries) => WorkersOK'
           /\ \A e \in Errors : wpc[w] # "idle" /\ RunWith(w, "fail", e) => WorkersOK'
           /\ \A pc \in {"load", "give_up"} :
                 /\ wpc[w] # "idle"
                 /\ wpc' = [wpc EXCEPT ![w] = pc]
                 /\ wsnap' \in [Workers -> [status : RowStatus, error : Errors]]
                 /\ UNCHANGED <<wdoc, wtry, wreason>>
                 => WorkersOK'
           /\ Vacate(w) => WorkersOK'
<1>1. ASSUME NEW pc \in {"fetch", "load", "save", "complete", "fail", "retry", "on_failure", "ack"},
             wpc[w] # "idle", Run(w, pc), pc = "retry" => wtry[w] < MaxRetries
      PROVE  WorkersOK'
      BY <1>1 DEF WorkersOK, Run
<1>2. ASSUME NEW e \in Errors, wpc[w] # "idle", RunWith(w, "fail", e)
      PROVE  WorkersOK'
      BY <1>2 DEF WorkersOK, RunWith
<1>3. ASSUME NEW pc \in {"load", "give_up"}, wpc[w] # "idle",
             wpc' = [wpc EXCEPT ![w] = pc],
             wsnap' \in [Workers -> [status : RowStatus, error : Errors]],
             UNCHANGED <<wdoc, wtry, wreason>>
      PROVE  WorkersOK'
      BY <1>3 DEF WorkersOK
<1>4. ASSUME Vacate(w) PROVE WorkersOK'
      BY <1>4 DEF WorkersOK, Vacate, NoSnap, RowStatus, Errors
<1>5. QED BY <1>1, <1>2, <1>3, <1>4

\* Every step of an accepted request keeps the types.
LEMMA RequestKeepsType ==
    ASSUME TypeOK, NEW c \in Clients, RequestStep(c)
    PROVE  TypeOK'
<1> USE FrameType, ClientType, BoundType DEF TypeOK
<1>c. cpc[c] # "idle" => cdoc[c] \in Docs
      BY DEF ClientsOK
<1>1. CASE UploadCheck(c)
    <2>1. ClientsOK'
          BY <1>1 DEF UploadCheck, At
    <2> QED BY <1>1, <2>1 DEF UploadCheck
<1>2. CASE UploadStore(c)
    <2>1. StorageOK' /\ BoundsOK' /\ ClientsOK'
        <3>1. CASE originals' = originals \cup {cdoc[c]} /\ Continue(c, "stored") /\ UNCHANGED boundVars
              BY <1>2, <1>c, <3>1 DEF UploadStore, At, StorageOK
        <3>2. CASE Fault /\ Respond(c) /\ UNCHANGED originals
              BY <1>2, <3>2 DEF UploadStore, StorageOK
        <3> QED BY <1>2, <3>1, <3>2 DEF UploadStore
    <2> QED BY <1>2, <2>1 DEF UploadStore
<1>3. CASE UploadInsert(c)
    <2>1. RowsOK'
          BY <1>3 DEF UploadInsert, RowsOK, RowStatus, ProcessingStatus
    <2>2. ClientsOK'
          BY <1>3 DEF UploadInsert, At
    <2> QED BY <1>3, <2>1, <2>2 DEF UploadInsert
<1>4. CASE UploadInsertFails(c)
    <2>1. StorageOK'
          BY <1>4 DEF UploadInsertFails, StorageOK
    <2> QED BY <1>4, <2>1 DEF UploadInsertFails
<1>10. CASE UploadRefreshFails(c)
    <2>1. StorageOK' /\ InputsOK'
          BY <1>10, <1>c DEF UploadRefreshFails, At, StorageOK, InputsOK
    <2> QED BY <1>10, <2>1 DEF UploadRefreshFails
<1>5. CASE Enqueue(c)
    <2>1. QueueOK' /\ BoundsOK' /\ ClientsOK'
        <3>1. CASE Publish(cdoc[c], 0) /\ Continue(c, "mark") /\ UNCHANGED boundVars
              BY <1>5, <1>c, <3>1, PublishType DEF Enqueue
        <3>2. CASE Fault /\ Respond(c) /\ UNCHANGED queue
              BY <3>2
        <3> QED BY <1>5, <3>1, <3>2 DEF Enqueue
    <2> QED BY <1>5, <2>1 DEF Enqueue
<1>6. CASE MarkQueued(c)
    <2>1. RowsOK'
          BY <1>6 DEF MarkQueued, RowsOK, RowStatus, ProcessingStatus
    <2>2. BoundsOK'
          BY <1>6 DEF MarkQueued
    <2> QED BY <1>6, <2>1, <2>2 DEF MarkQueued
<1>7. CASE SoftDelete(c)
    <2>1. RowsOK' /\ BoundsOK' /\ ClientsOK'
        <3>1. CASE /\ deleted' = [deleted EXCEPT ![cdoc[c]] = TRUE]
                   /\ Continue(c, "rm_original") /\ UNCHANGED boundVars
              BY <1>7, <3>1 DEF SoftDelete, RowsOK
        <3>2. CASE Fault /\ Respond(c) /\ UNCHANGED deleted
              BY <1>7, <3>2 DEF SoftDelete, RowsOK
        <3> QED BY <1>7, <3>1, <3>2 DEF SoftDelete
    <2> QED BY <1>7, <2>1 DEF SoftDelete
<1>8. CASE DeleteOriginal(c)
    <2>1. StorageOK' /\ BoundsOK' /\ ClientsOK'
        <3>1. CASE /\ originals' = originals \ {cdoc[c]}
                   /\ IF csnap[c].hasPath THEN Continue(c, "rm_artifact") ELSE Respond(c)
                   /\ UNCHANGED boundVars
              BY <1>8, <3>1 DEF DeleteOriginal, StorageOK
        <3>2. CASE Fault /\ Respond(c) /\ UNCHANGED originals
              BY <1>8, <3>2 DEF DeleteOriginal, StorageOK
        <3> QED BY <1>8, <3>1, <3>2 DEF DeleteOriginal
    <2> QED BY <1>8, <2>1 DEF DeleteOriginal
<1>9. CASE DeleteArtifact(c)
    <2>1. StorageOK' /\ BoundsOK'
          BY <1>9 DEF DeleteArtifact, StorageOK
    <2> QED BY <1>9, <2>1 DEF DeleteArtifact
<1> QED BY <1>1, <1>2, <1>3, <1>4, <1>5, <1>6, <1>7, <1>8, <1>9, <1>10 DEF RequestStep

\* Every step of process_document keeps the types.
LEMMA TaskKeepsType ==
    ASSUME TypeOK, NEW w \in Workers, TaskStep(w)
    PROVE  TypeOK'
<1> USE FrameType, WorkerType, BoundType DEF TypeOK
<1>w. wdoc[w] \in Docs \/ wpc[w] = "idle"
      BY DEF WorkersOK
<1>1. CASE Claim(w)
    <2>1. RowsOK'
        <3>1. CASE Claimable(wdoc[w])
              BY <1>1, <3>1 DEF Claim, RowsOK, RowStatus, ProcessingStatus, Errors
        <3>2. CASE ~Claimable(wdoc[w])
              BY <1>1, <3>2 DEF Claim, RowsOK
        <3> QED BY <3>1, <3>2
    <2>2. WorkersOK'
        <3>1. CASE Claimable(wdoc[w])
              BY <1>1, <3>1 DEF Claim
        <3>2. CASE ~Claimable(wdoc[w])
              BY <1>1, <3>2 DEF Claim
        <3> QED BY <3>1, <3>2
    <2> QED BY <1>1, <2>1, <2>2 DEF Claim
<1>2. CASE Fetch(w)
    <2>1. WorkersOK'
        <3>1. CASE status[wdoc[w]] = "absent"
              BY <1>2, <3>1 DEF Fetch
        <3>2. CASE status[wdoc[w]] # "absent"
            <4>1. wsnap' \in [Workers -> [status : RowStatus, error : Errors]]
                  BY <1>2, <3>2, <1>w DEF Fetch, WorkersOK, RowsOK
            <4> QED BY <1>2, <3>2, <4>1 DEF Fetch
        <3> QED BY <3>1, <3>2
    <2> QED BY <1>2, <2>1 DEF Fetch
<1>3. CASE Load(w)
    <2>1. WorkersOK'
          BY <1>3 DEF Load, Errors
    <2> QED BY <1>3, <2>1 DEF Load
<1>4. CASE SaveArtifact(w)
    <2>1. StorageOK' /\ WorkersOK'
          BY <1>4, <1>w DEF SaveArtifact, StorageOK
    <2> QED BY <1>4, <2>1 DEF SaveArtifact
<1>5. CASE MarkCompleted(w)
    <2>1. RowsOK'
          BY <1>5 DEF MarkCompleted, RowsOK, Emit, RowStatus, ProcessingStatus, Errors
    <2>2. WorkersOK'
          BY <1>5 DEF MarkCompleted
    <2>3. BoundsOK'
          BY <1>5 DEF MarkCompleted
    <2> QED BY <1>5, <2>1, <2>2, <2>3 DEF MarkCompleted
<1>6. CASE MarkFailed(w)
    <2>1. RowsOK'
          BY <1>6 DEF MarkFailed, RowsOK, WorkersOK, Emit, RowStatus, ProcessingStatus
    <2>2. WorkersOK'
          BY <1>6 DEF MarkFailed
    <2> QED BY <1>6, <2>1, <2>2 DEF MarkFailed
<1>7. CASE StorageError(w)
    <2>1. WorkersOK'
        <3>1. CASE wtry[w] < MaxRetries
              BY <1>7, <3>1 DEF StorageError
        <3>2. CASE ~(wtry[w] < MaxRetries)
              BY <1>7, <3>2 DEF StorageError
        <3> QED BY <3>1, <3>2
    <2> QED BY <1>7, <2>1 DEF StorageError
<1>8. CASE UnexpectedError(w)
    <2>1. WorkersOK'
          BY <1>8 DEF UnexpectedError
    <2> QED BY <1>8, <2>1 DEF UnexpectedError
<1>9. CASE Retry(w)
    <2>1. WorkersOK'
          BY <1>9 DEF Retry
    <2>2. wtry[w] + 1 \in 0..MaxRetries
          BY <1>9 DEF Retry, WorkersOK
    <2>3. QueueOK'
          BY <1>9, <1>w, <2>2, PublishType DEF Retry
    <2> QED BY <1>9, <2>1, <2>3 DEF Retry
<1>10. CASE OnFailure(w)
    <2>1. WorkersOK'
        <3>1. CASE status[wdoc[w]] # "PROCESSING"
              BY <1>10, <3>1 DEF OnFailure
        <3>2. CASE status[wdoc[w]] = "PROCESSING"
            <4>1. wsnap' \in [Workers -> [status : RowStatus, error : Errors]]
                  BY <1>10, <3>2, <1>w DEF OnFailure, WorkersOK, RowsOK
            <4> QED BY <1>10, <3>2, <4>1 DEF OnFailure
        <3> QED BY <3>1, <3>2
    <2> QED BY <1>10, <2>1 DEF OnFailure
<1>11. CASE GiveUp(w)
    <2>1. RowsOK'
          BY <1>11 DEF GiveUp, RowsOK, Emit, RowStatus, ProcessingStatus, Errors
    <2>2. WorkersOK'
          BY <1>11 DEF GiveUp
    <2> QED BY <1>11, <2>1, <2>2 DEF GiveUp
<1>12. CASE Ack(w)
    <2>1. WorkersOK'
          BY <1>12 DEF Ack
    <2> QED BY <1>12, <2>1 DEF Ack
<1> QED BY <1>1, <1>2, <1>3, <1>4, <1>5, <1>6, <1>7, <1>8, <1>9, <1>10, <1>11, <1>12 DEF TaskStep

\* Every step of the pipeline keeps the types.
LEMMA NextKeepsType == TypeOK /\ [Next]_vars => TypeOK'
<1> SUFFICES ASSUME TypeOK, [Next]_vars PROVE TypeOK'
    OBVIOUS
<1> USE FrameType, BoundType DEF TypeOK
<1>1. ASSUME NEW c \in Clients, NEW d \in Docs, UploadAdmit(c, d)
      PROVE  TypeOK'
    <2>1. ClientsOK'
          BY <1>1, ClientType DEF UploadAdmit, NoClientSnap
    <2> QED BY <1>1, <2>1 DEF UploadAdmit
<1>2. ASSUME NEW c \in Clients, NEW d \in Docs, ReprocessBegin(c, d)
      PROVE  TypeOK'
    <2>1. ClientsOK'
          BY <1>2, ClientType DEF ReprocessBegin, NoClientSnap
    <2> QED BY <1>2, <2>1 DEF ReprocessBegin
<1>3. ASSUME NEW c \in Clients, NEW d \in Docs, DeleteBegin(c, d)
      PROVE  TypeOK'
    <2>1. [deleted |-> deleted[d], hasPath |-> hasPath[d]] \in [deleted : BOOLEAN, hasPath : BOOLEAN]
          BY DEF RowsOK
    <2>2. ClientsOK'
          BY <1>3, <2>1, ClientType DEF DeleteBegin
    <2> QED BY <1>3, <2>2 DEF DeleteBegin
<1>4. ASSUME NEW c \in Clients, RequestStep(c)
      PROVE  TypeOK'
      BY <1>4, RequestKeepsType
<1>5. ASSUME NEW w \in Workers, Deliveries(w)
      PROVE  TypeOK'
    <2> PICK d \in Docs, r \in 0..MaxRetries : Deliver(w, d, r)
        BY <1>5 DEF Deliveries
    <2>1. QueueOK'
          BY DEF Deliver, QueueOK
    <2>2. WorkersOK'
          BY DEF Deliver, WorkersOK
    <2> QED BY <2>1, <2>2 DEF Deliver
<1>6. ASSUME NEW w \in Workers, TaskStep(w)
      PROVE  TypeOK'
      BY <1>6, TaskKeepsType
<1>7. ASSUME NEW w \in Workers, WorkerCrash(w)
      PROVE  TypeOK'
    <2>1. QueueOK'
          BY <1>7, PublishType DEF WorkerCrash, WorkersOK
    <2>2. WorkersOK'
          BY <1>7, WorkerType DEF WorkerCrash
    <2>3. BoundsOK'
          BY <1>7 DEF WorkerCrash, BoundsOK
    <2> QED BY <1>7, <2>1, <2>2, <2>3 DEF WorkerCrash
<1>11. ASSUME NEW w \in Workers, HandlerLost(w)
      PROVE  TypeOK'
    <2>1. WorkersOK'
          BY <1>11, WorkerType DEF HandlerLost
    <2>2. BoundsOK'
          BY <1>11 DEF HandlerLost, BoundsOK
    <2> QED BY <1>11, <2>1, <2>2 DEF HandlerLost
<1>8. ASSUME NEW p \in Procs, ApiCrash(p)
      PROVE  TypeOK'
    <2>1. ClientsOK'
          BY <1>8 DEF ApiCrash, ClientsOK, NoClientSnap
    <2>2. BoundsOK'
          BY <1>8 DEF ApiCrash, BoundsOK
    <2> QED BY <1>8, <2>1, <2>2 DEF ApiCrash
<1>9. ASSUME NEW k \in Courses, RemoveCourse(k)
      PROVE  TypeOK'
    <2>1. InputsOK'
          BY <1>9 DEF RemoveCourse, InputsOK
    <2> QED BY <1>9, <2>1 DEF RemoveCourse
<1>10. CASE UNCHANGED vars
      BY <1>10 DEF vars
<1> QED BY <1>1, <1>2, <1>3, <1>4, <1>5, <1>6, <1>7, <1>8, <1>9, <1>10, <1>11 DEF Next

\* Every variable of the pipeline keeps its type.
THEOREM TypeCorrect == Spec => []TypeOK
BY InitType, NextKeepsType, PTL DEF Spec

-----------------------------------------------------------------------------
(* A document that is PROCESSING is in a delivery's hands until a worker     *)
(* dies.  The property is inductive as it stands, given the types: whoever   *)
(* wrote PROCESSING last either has not loaded the row yet, and will finish, *)
(* or loaded PROCESSING, and will then have its last status sent.            *)

Owned(d) == RetryWaiting(d) \/ \E w \in Workers : Finishes(w, d)

\* A delivery that has not moved still finishes what it was finishing.
LEMMA StillFinishes ==
    ASSUME NEW v \in Workers, NEW d \in Docs, Finishes(v, d),
           wpc'[v] = wpc[v], wdoc'[v] = wdoc[v], wsnap'[v] = wsnap[v]
    PROVE  Finishes(v, d)'
BY DEF Finishes

\* A step of one worker leaves the others, and what they loaded, alone.
LEMMA OthersWait ==
    ASSUME WorkersOK, NEW w \in Workers, TaskStep(w) \/ Deliveries(w),
           NEW v \in Workers, v # w
    PROVE  wpc'[v] = wpc[v] /\ wdoc'[v] = wdoc[v] /\ wsnap'[v] = wsnap[v]
<1> USE DEF WorkersOK, Run, RunWith, Vacate
<1>1. CASE Claim(w)           BY <1>1 DEF Claim
<1>2. CASE Fetch(w)           BY <1>2 DEF Fetch
<1>3. CASE Load(w)            BY <1>3 DEF Load
<1>4. CASE SaveArtifact(w)    BY <1>4 DEF SaveArtifact
<1>5. CASE MarkCompleted(w)   BY <1>5 DEF MarkCompleted
<1>6. CASE MarkFailed(w)      BY <1>6 DEF MarkFailed
<1>7. CASE StorageError(w)    BY <1>7 DEF StorageError
<1>8. CASE UnexpectedError(w) BY <1>8 DEF UnexpectedError
<1>9. CASE Retry(w)           BY <1>9 DEF Retry
<1>10. CASE OnFailure(w)      BY <1>10 DEF OnFailure
<1>11. CASE GiveUp(w)         BY <1>11 DEF GiveUp
<1>12. CASE Ack(w)            BY <1>12 DEF Ack
<1>13. CASE Deliveries(w)     BY <1>13 DEF Deliveries, Deliver
<1> QED BY <1>1, <1>2, <1>3, <1>4, <1>5, <1>6, <1>7, <1>8, <1>9, <1>10, <1>11, <1>12, <1>13 DEF TaskStep

\* What a worker step leaves of the owners of d when the worker itself was one:
\* it still is, a retry waits, or the status it owed has been written.
LEMMA OwnerMovesOn ==
    ASSUME TypeOK, NEW w \in Workers, TaskStep(w), NEW d \in Docs, Finishes(w, d)
    PROVE  Finishes(w, d)' \/ RetryWaiting(d)' \/ status'[d] # "PROCESSING"
<1> USE DEF TypeOK, RowsOK, WorkersOK, Finishes, Run, RunWith
<1>1. CASE Claim(w)           BY <1>1 DEF Claim
<1>2. CASE Fetch(w)
    <2>1. CASE status[d] = "PROCESSING"
          BY <1>2, <2>1 DEF Fetch, rowVars
    <2>2. CASE status[d] # "PROCESSING"
          BY <1>2, <2>2 DEF Fetch, rowVars
    <2> QED BY <2>1, <2>2
<1>3. CASE Load(w)            BY <1>3 DEF Load
<1>4. CASE SaveArtifact(w)    BY <1>4 DEF SaveArtifact
<1>5. CASE MarkCompleted(w)   BY <1>5 DEF MarkCompleted, Emit
<1>6. CASE MarkFailed(w)      BY <1>6 DEF MarkFailed
<1>7. CASE StorageError(w)    BY <1>7 DEF StorageError
<1>8. CASE UnexpectedError(w) BY <1>8 DEF UnexpectedError
<1>9. CASE Retry(w)
    <2>1. wtry[w] + 1 \in 1..MaxRetries
          BY <1>9 DEF Retry
    <2>2. queue'[d][wtry[w] + 1] = queue[d][wtry[w] + 1] + 1
          BY <1>9, <2>1 DEF Retry, Publish, QueueOK
    <2>3. queue'[d][wtry[w] + 1] > 0
          BY <2>1, <2>2 DEF QueueOK
    <2> QED BY <2>1, <2>3 DEF RetryWaiting
<1>10. CASE OnFailure(w)
    <2>1. CASE status[d] = "PROCESSING"
          BY <1>10, <2>1 DEF OnFailure
    <2>2. CASE status[d] # "PROCESSING"
          BY <1>10, <2>2 DEF OnFailure, rowVars
    <2> QED BY <2>1, <2>2
<1>11. CASE GiveUp(w)         BY <1>11 DEF GiveUp, Emit
<1>12. CASE Ack(w)            BY <1>12 DEF Ack
<1> QED BY <1>1, <1>2, <1>3, <1>4, <1>5, <1>6, <1>7, <1>8, <1>9, <1>10, <1>11, <1>12 DEF TaskStep

\* Only a claim makes a document PROCESSING, and the claimer then owns it.
LEMMA ClaimerOwns ==
    ASSUME TypeOK, NEW w \in Workers, TaskStep(w), NEW d \in Docs,
           status[d] # "PROCESSING", status'[d] = "PROCESSING"
    PROVE  Finishes(w, d)'
<1> USE DEF TypeOK, RowsOK, WorkersOK
<1>1. CASE Claim(w)
      BY <1>1 DEF Claim, Run, Finishes
<1>2. CASE MarkCompleted(w) \/ MarkFailed(w) \/ GiveUp(w)
      BY <1>2 DEF MarkCompleted, MarkFailed, GiveUp, Emit
<1>3. CASE UNCHANGED status
      BY <1>3
<1> QED BY <1>1, <1>2, <1>3
        DEF TaskStep, Fetch, Load, SaveArtifact, StorageError, UnexpectedError, Retry,
            OnFailure, Ack, rowVars

\* A task takes no delivery out of the queue.
LEMMA RetriesWait ==
    ASSUME TypeOK, NEW w \in Workers, TaskStep(w), NEW d \in Docs, RetryWaiting(d)
    PROVE  RetryWaiting(d)'
<1>1. CASE Retry(w)
    <2> PICK r \in 1..MaxRetries : queue[d][r] > 0
        BY DEF RetryWaiting
    <2>1. queue'[d][r] \in {queue[d][r], queue[d][r] + 1} /\ queue[d][r] \in Nat
          BY <1>1 DEF Retry, Publish, TypeOK, QueueOK
    <2> QED BY <2>1 DEF RetryWaiting
<1>2. CASE UNCHANGED queue
      BY <1>2 DEF RetryWaiting
<1> QED BY <1>1, <1>2
        DEF TaskStep, Claim, Fetch, Load, SaveArtifact, MarkCompleted, MarkFailed,
            StorageError, UnexpectedError, OnFailure, GiveUp, Ack

\* Every step of the pipeline keeps an owner for each PROCESSING document.
LEMMA NextKeepsOwner == TypeOK /\ ProcessingHasOwner /\ [Next]_vars => ProcessingHasOwner'
<1> SUFFICES ASSUME TypeOK, ProcessingHasOwner, [Next]_vars, workerCrashes' = 0,
                    NEW d \in Docs, status'[d] = "PROCESSING"
             PROVE  Owned(d)'
    BY DEF ProcessingHasOwner, Owned
<1> USE DEF TypeOK
<1>a. workerCrashes = 0 /\ status[d] = "PROCESSING" => Owned(d)
      BY DEF ProcessingHasOwner, Owned
<1>1. ASSUME NEW w \in Workers, TaskStep(w)
      PROVE  Owned(d)'
    <2>1. workerCrashes = 0
          BY <1>1 DEF TaskStep, Claim, Fetch, Load, SaveArtifact, MarkCompleted, MarkFailed,
                StorageError, UnexpectedError, Retry, OnFailure, GiveUp, Ack, Fault, boundVars
    <2>2. CASE status[d] # "PROCESSING"
          BY <1>1, <2>2, ClaimerOwns DEF Owned
    <2>3. CASE RetryWaiting(d)
          BY <1>1, <2>3, RetriesWait DEF Owned
    <2>4. ASSUME NEW v \in Workers, Finishes(v, d)
          PROVE  Owned(d)'
        <3>1. CASE v = w
              BY <1>1, <2>4, <3>1, OwnerMovesOn DEF Owned
        <3>2. CASE v # w
              BY <1>1, <2>4, <3>2, OthersWait, StillFinishes DEF Owned
        <3> QED BY <3>1, <3>2
    <2> QED BY <1>a, <2>1, <2>2, <2>3, <2>4 DEF Owned
<1>2. ASSUME NEW w \in Workers, Deliveries(w)
      PROVE  Owned(d)'
    <2> PICK e \in Docs, r \in 0..MaxRetries : Deliver(w, e, r)
        BY <1>2 DEF Deliveries
    <2>1. workerCrashes = 0 /\ status[d] = "PROCESSING"
          BY DEF Deliver, boundVars, rowVars
    <2>2. CASE RetryWaiting(d)
        <3> PICK s \in 1..MaxRetries : queue[d][s] > 0
            BY <2>2 DEF RetryWaiting
        <3>1. CASE e = d /\ r = s
              BY <3>1 DEF Deliver, WorkersOK, Owned, Finishes
        <3>2. CASE ~(e = d /\ r = s)
            <4>1. queue'[d][s] = queue[d][s]
                  BY <3>2 DEF Deliver, QueueOK
            <4> QED BY <4>1 DEF Owned, RetryWaiting
        <3> QED BY <3>1, <3>2
    <2>3. ASSUME NEW v \in Workers, Finishes(v, d)
          PROVE  Owned(d)'
        <3>1. v # w
              BY <2>3 DEF Deliver, Finishes
        <3> QED BY <1>2, <2>3, <3>1, OthersWait, StillFinishes DEF Owned
    <2> QED BY <1>a, <2>1, <2>2, <2>3 DEF Owned
<1>3. ASSUME NEW w \in Workers, WorkerCrash(w) \/ HandlerLost(w)
      PROVE  FALSE
      BY <1>3 DEF WorkerCrash, HandlerLost, BoundsOK
<1>4. ASSUME UNCHANGED <<workerVars, queue, workerCrashes>>, status[d] = "PROCESSING"
      PROVE  Owned(d)'
    <2>1. Owned(d)
          BY <1>a, <1>4
    <2> QED BY <1>4, <2>1 DEF Owned, RetryWaiting, Finishes, workerVars
<1>5. ASSUME NEW c \in Clients, RequestStep(c)
      PROVE  Owned(d)'
    <2>1. UNCHANGED <<workerVars, workerCrashes>> /\ status[d] = "PROCESSING"
          BY <1>5 DEF RequestStep, UploadCheck, UploadStore, UploadInsert, UploadInsertFails,
                UploadRefreshFails, Enqueue, MarkQueued, SoftDelete, DeleteOriginal, DeleteArtifact,
                Fault, boundVars, rowVars, RowsOK
    <2>2. CASE UNCHANGED queue
          BY <1>4, <2>1, <2>2
    <2>3. CASE Enqueue(c) /\ Publish(cdoc[c], 0)
        <3>1. \A s \in 1..MaxRetries : queue'[d][s] = queue[d][s]
              BY <2>3 DEF Publish, QueueOK
        <3>2. workerCrashes = 0
              BY <2>1
        <3> QED BY <1>a, <2>1, <3>1, <3>2 DEF Owned, RetryWaiting, Finishes, workerVars
    <2> QED BY <1>5, <2>2, <2>3
            DEF RequestStep, UploadCheck, UploadStore, UploadInsert, UploadInsertFails,
                UploadRefreshFails, Enqueue, MarkQueued, SoftDelete, DeleteOriginal, DeleteArtifact
<1>6. ASSUME NEW c \in Clients, NEW e \in Docs,
             UploadAdmit(c, e) \/ ReprocessBegin(c, e) \/ DeleteBegin(c, e)
      PROVE  Owned(d)'
      BY <1>4, <1>6 DEF UploadAdmit, ReprocessBegin, DeleteBegin, NewWork, boundVars, rowVars
<1>7. ASSUME NEW p \in Procs, ApiCrash(p)
      PROVE  Owned(d)'
      BY <1>4, <1>7 DEF ApiCrash, rowVars
<1>8. ASSUME NEW k \in Courses, RemoveCourse(k)
      PROVE  Owned(d)'
      BY <1>4, <1>8 DEF RemoveCourse, rowVars, boundVars
<1>9. CASE UNCHANGED vars
      BY <1>4, <1>9 DEF vars, rowVars, boundVars
<1> QED BY <1>1, <1>2, <1>3, <1>5, <1>6, <1>7, <1>8, <1>9 DEF Next

\* As long as no worker process dies, no interleaving of uploads, reprocess
\* requests, deliveries and retries leaves a PROCESSING document with nobody
\* to finish it.
THEOREM OwnerSafety == Spec => []ProcessingHasOwner
<1>1. Init => ProcessingHasOwner
      BY DEF Init, ProcessingHasOwner
<1> QED BY <1>1, TypeCorrect, NextKeepsOwner, PTL DEF Spec

-----------------------------------------------------------------------------
(* The rows and the storage.  ListedHasOriginal and PublishedHasArtifact say  *)
(* nothing of requests and tasks in flight; the induction needs what each of  *)
(* them has established on its way.                                           *)

RowInv ==
    \A d \in Docs :
        /\ status[d] = "absent" => ~deleted[d] /\ ~hasPath[d]
        /\ status[d] = "COMPLETED" => hasPath[d]
        /\ Listed(d) => d \in originals \cup disowned
        /\ Listed(d) /\ hasPath[d] => d \in artifacts

\* An upload has its document to itself until the row is inserted; a delete
\* reaches the storage only with the row marked deleted.
RequestInv ==
    \A c \in Clients :
        /\ cop[c] = "upload" /\ cpc[c] \in {"admitted", "checked", "stored"} =>
              /\ status[cdoc[c]] = "absent"
              /\ \A b \in Clients : b # c => cdoc[b] # cdoc[c]
        /\ cop[c] = "upload" /\ cpc[c] = "stored" => cdoc[c] \in originals
        /\ cpc[c] \in {"enqueue", "mark", "soft_delete", "rm_original", "rm_artifact"} =>
              status[cdoc[c]] # "absent"
        /\ cpc[c] \in {"rm_original", "rm_artifact"} => deleted[cdoc[c]]

\* Deliveries are of inserted rows, and a task completes what it has stored.
TaskInv ==
    /\ \A d \in Docs, r \in 0..MaxRetries : queue[d][r] > 0 => status[d] # "absent"
    /\ \A w \in Workers :
        /\ wpc[w] # "idle" => status[wdoc[w]] # "absent"
        /\ wpc[w] = "complete" => deleted[wdoc[w]] \/ wdoc[w] \in artifacts

StorageInv == RowInv /\ RequestInv /\ TaskInv

\* Every step of an accepted request keeps the rows and the storage in agreement.
LEMMA RequestKeepsStorage ==
    ASSUME TypeOK, StorageInv, NEW c \in Clients, RequestStep(c)
    PROVE  StorageInv'
<1> USE DEF TypeOK, StorageInv, Continue, Respond, At, inputVars
<1>c. cpc[c] # "idle" => cdoc[c] \in Docs
      BY DEF ClientsOK
<1>1. CASE UploadCheck(c)
    <2>0. Respond(c) \/ Continue(c, "checked")
          BY <1>1 DEF UploadCheck
    <2>1. RowInv' /\ TaskInv'
          BY <1>1 DEF UploadCheck, RowInv, TaskInv, Listed, rowVars, storageVars, workerVars
    <2>2. RequestInv'
          BY <1>1, <1>c, <2>0 DEF UploadCheck, RequestInv, ClientsOK, rowVars, storageVars
    <2> QED BY <2>1, <2>2
<1>2. CASE UploadStore(c)
    <2>0. \/ originals' = originals \cup {cdoc[c]} /\ Continue(c, "stored")
          \/ Respond(c) /\ UNCHANGED originals
          BY <1>2 DEF UploadStore
    <2>1. RowInv' /\ TaskInv'
          BY <1>2, <2>0 DEF UploadStore, RowInv, TaskInv, Listed, rowVars, workerVars
    <2>2. RequestInv'
          BY <1>2, <1>c, <2>0 DEF UploadStore, RequestInv, ClientsOK, rowVars
    <2> QED BY <2>1, <2>2
<1>3. CASE UploadInsert(c)
    <2>1. RowInv'
          BY <1>3, <1>c DEF UploadInsert, RowInv, RequestInv, Listed, RowsOK, storageVars
    <2>2. TaskInv'
          BY <1>3, <1>c DEF UploadInsert, TaskInv, RowsOK, WorkersOK, storageVars, workerVars
    <2>3. RequestInv'
          BY <1>3, <1>c DEF UploadInsert, RequestInv, ClientsOK, RowsOK, storageVars
    <2> QED BY <2>1, <2>2, <2>3
<1>4. CASE UploadInsertFails(c)
    <2>1. RowInv' /\ TaskInv'
          BY <1>4, <1>c DEF UploadInsertFails, RowInv, RequestInv, TaskInv, Listed, rowVars, workerVars
    <2>2. RequestInv'
          BY <1>4, <1>c DEF UploadInsertFails, RequestInv, ClientsOK, rowVars
    <2> QED BY <2>1, <2>2
<1>10. CASE UploadRefreshFails(c)
    <2>1. RowInv' /\ TaskInv'
          BY <1>10, <1>c DEF UploadRefreshFails, RowInv, TaskInv, Listed, rowVars, workerVars
    <2>2. RequestInv'
          BY <1>10, <1>c DEF UploadRefreshFails, RequestInv, ClientsOK, rowVars
    <2> QED BY <2>1, <2>2
<1>5. CASE Enqueue(c)
    <2>0. \/ Publish(cdoc[c], 0) /\ Continue(c, "mark")
          \/ UNCHANGED queue /\ Respond(c)
          BY <1>5 DEF Enqueue, Publish
    <2>1. RowInv'
          BY <1>5 DEF Enqueue, RowInv, Listed, rowVars, storageVars
    <2>2. TaskInv'
          BY <1>5, <1>c, <2>0 DEF Enqueue, TaskInv, RequestInv, Publish, QueueOK, rowVars, storageVars, workerVars
    <2>3. RequestInv'
          BY <1>5, <1>c, <2>0 DEF Enqueue, RequestInv, ClientsOK, rowVars, storageVars
    <2> QED BY <2>1, <2>2, <2>3
<1>6. CASE MarkQueued(c)
    <2>1. RowInv'
          BY <1>6, <1>c DEF MarkQueued, RowInv, RequestInv, Listed, RowsOK, storageVars
    <2>2. TaskInv'
          BY <1>6, <1>c DEF MarkQueued, TaskInv, RowsOK, WorkersOK, storageVars, workerVars
    <2>3. RequestInv'
          BY <1>6, <1>c DEF MarkQueued, RequestInv, ClientsOK, RowsOK, storageVars
    <2> QED BY <2>1, <2>2, <2>3
<1>7. CASE SoftDelete(c)
    <2>0. \/ deleted' = [deleted EXCEPT ![cdoc[c]] = TRUE] /\ Continue(c, "rm_original")
          \/ UNCHANGED deleted /\ Respond(c)
          BY <1>7 DEF SoftDelete
    <2>1. RowInv'
          BY <1>7, <1>c, <2>0 DEF SoftDelete, RowInv, RequestInv, Listed, RowsOK, storageVars
    <2>2. TaskInv'
          BY <1>7, <1>c, <2>0 DEF SoftDelete, TaskInv, RowsOK, WorkersOK, storageVars, workerVars
    <2>3. RequestInv'
        <3>1. CASE deleted' = [deleted EXCEPT ![cdoc[c]] = TRUE] /\ Continue(c, "rm_original")
              BY <1>7, <1>c, <3>1 DEF SoftDelete, RequestInv, ClientsOK, RowsOK, storageVars
        <3>2. CASE UNCHANGED deleted /\ Respond(c)
              BY <1>7, <1>c, <3>2 DEF SoftDelete, RequestInv, ClientsOK, RowsOK, storageVars
        <3> QED BY <2>0, <3>1, <3>2
    <2> QED BY <2>1, <2>2, <2>3
<1>8. CASE DeleteOriginal(c)
    <2>0. \/ originals' = originals \ {cdoc[c]} /\ (Continue(c, "rm_artifact") \/ Respond(c))
          \/ UNCHANGED originals /\ Respond(c)
          BY <1>8 DEF DeleteOriginal
    <2>1. RowInv' /\ TaskInv'
          BY <1>8, <1>c, <2>0 DEF DeleteOriginal, RowInv, RequestInv, TaskInv, Listed, rowVars, workerVars
    <2>2. RequestInv'
          BY <1>8, <1>c, <2>0 DEF DeleteOriginal, RequestInv, ClientsOK, rowVars
    <2> QED BY <2>1, <2>2
<1>9. CASE DeleteArtifact(c)
    <2>1. RowInv' /\ TaskInv'
          BY <1>9, <1>c DEF DeleteArtifact, RowInv, RequestInv, TaskInv, Listed, rowVars, workerVars, WorkersOK
    <2>2. RequestInv'
          BY <1>9, <1>c DEF DeleteArtifact, RequestInv, ClientsOK, rowVars
    <2> QED BY <2>1, <2>2
<1> QED BY <1>1, <1>2, <1>3, <1>4, <1>5, <1>6, <1>7, <1>8, <1>9, <1>10 DEF RequestStep

\* Every step of process_document keeps the rows and the storage in agreement.
LEMMA TaskKeepsStorage ==
    ASSUME TypeOK, StorageInv, NEW w \in Workers, TaskStep(w)
    PROVE  StorageInv'
<1> USE DEF TypeOK, StorageInv, Run, inputVars
<1>w. wpc[w] # "idle" => wdoc[w] \in Docs
      BY DEF WorkersOK
<1>1. CASE Claim(w)
    <2>0. \/ /\ Claimable(wdoc[w]) /\ Run(w, "fetch")
             /\ status' = [status EXCEPT ![wdoc[w]] = "PROCESSING"]
          \/ Run(w, "ack") /\ UNCHANGED status
          BY <1>1 DEF Claim
    <2>1. RowInv'
          BY <1>1, <1>w, <2>0 DEF Claim, RowInv, TaskInv, Listed, RowsOK, storageVars
    <2>2. TaskInv'
          BY <1>1, <1>w, <2>0 DEF Claim, TaskInv, RowsOK, WorkersOK, storageVars
    <2>3. RequestInv'
          BY <1>1, <1>w, <2>0 DEF Claim, RequestInv, TaskInv, RowsOK, ClientsOK, storageVars, clientVars
    <2> QED BY <2>1, <2>2, <2>3
<1>2. CASE SaveArtifact(w)
    <2>1. RowInv' /\ RequestInv'
          BY <1>2, <1>w DEF SaveArtifact, RowInv, RequestInv, Listed, rowVars, clientVars
    <2>2. TaskInv'
          BY <1>2, <1>w DEF SaveArtifact, TaskInv, WorkersOK, rowVars
    <2> QED BY <2>1, <2>2
<1>3. CASE MarkCompleted(w)
    <2>0. status[wdoc[w]] # "absent" /\ (deleted[wdoc[w]] \/ wdoc[w] \in artifacts)
          BY <1>3 DEF MarkCompleted, TaskInv
    <2>1. RowInv'
          BY <1>3, <1>w, <2>0 DEF MarkCompleted, Emit, RowInv, Listed, RowsOK, storageVars
    <2>2. TaskInv'
          BY <1>3, <1>w, <2>0 DEF MarkCompleted, Emit, TaskInv, RowsOK, WorkersOK, storageVars
    <2>3. RequestInv'
          BY <1>3, <1>w, <2>0 DEF MarkCompleted, Emit, RequestInv, RowsOK, ClientsOK, storageVars, clientVars
    <2> QED BY <2>1, <2>2, <2>3
<1>4. CASE MarkFailed(w) \/ GiveUp(w)
    <2>0. /\ status[wdoc[w]] # "absent" /\ wpc[w] \in {"fail", "give_up"}
          /\ status' = [status EXCEPT ![wdoc[w]] = Emit(wsnap[w].status, "FAILED", @)]
          /\ Run(w, "on_failure") \/ Run(w, "ack")
          /\ UNCHANGED <<deleted, hasPath, inputVars, storageVars, queue, clientVars>>
          BY <1>4 DEF MarkFailed, GiveUp, TaskInv
    <2>1. RowInv'
          BY <1>w, <2>0 DEF Emit, RowInv, Listed, RowsOK, storageVars
    <2>2. TaskInv'
          BY <1>w, <2>0 DEF Emit, TaskInv, RowsOK, WorkersOK, storageVars
    <2>3. RequestInv'
          BY <1>w, <2>0 DEF Emit, RequestInv, RowsOK, ClientsOK, storageVars, clientVars
    <2> QED BY <2>1, <2>2, <2>3
<1>5. CASE Retry(w)
    <2>1. RowInv' /\ RequestInv'
          BY <1>5 DEF Retry, RowInv, RequestInv, Listed, rowVars, storageVars, clientVars
    <2>2. TaskInv'
          BY <1>5, <1>w DEF Retry, Publish, TaskInv, QueueOK, WorkersOK, rowVars, storageVars
    <2> QED BY <2>1, <2>2
<1>6. CASE /\ UNCHANGED <<rowVars, inputVars, storageVars, queue, clientVars, wdoc>>
           /\ wpc[w] # "idle"
           /\ \E pc \in {"fetch", "load", "save", "fail", "retry", "on_failure", "give_up", "ack"} :
                 wpc' = [wpc EXCEPT ![w] = pc]
    <2>1. RowInv' /\ RequestInv'
          BY <1>6 DEF RowInv, RequestInv, Listed, rowVars, storageVars, clientVars
    <2>2. TaskInv'
          BY <1>6 DEF TaskInv, WorkersOK, rowVars, storageVars
    <2> QED BY <2>1, <2>2
<1>7. CASE Ack(w)
    <2>1. RowInv' /\ RequestInv'
          BY <1>7 DEF Ack, RowInv, RequestInv, Listed, rowVars, storageVars, clientVars
    <2>2. TaskInv'
          BY <1>7 DEF Ack, Vacate, TaskInv, WorkersOK, rowVars, storageVars
    <2> QED BY <2>1, <2>2
<1>8. CASE Fetch(w)           BY <1>6, <1>8 DEF Fetch
<1>9. CASE Load(w)            BY <1>6, <1>9 DEF Load, RunWith
<1>10. CASE StorageError(w)   BY <1>6, <1>10 DEF StorageError
<1>11. CASE UnexpectedError(w) BY <1>6, <1>11 DEF UnexpectedError
<1>12. CASE OnFailure(w)      BY <1>6, <1>12 DEF OnFailure
<1> QED BY <1>1, <1>2, <1>3, <1>4, <1>5, <1>7, <1>8, <1>9, <1>10, <1>11, <1>12 DEF TaskStep

\* Every step of the pipeline keeps the rows and the storage in agreement.
LEMMA NextKeepsStorage == TypeOK /\ StorageInv /\ [Next]_vars => StorageInv'
<1> SUFFICES ASSUME TypeOK, StorageInv, [Next]_vars PROVE StorageInv'
    OBVIOUS
<1> USE DEF TypeOK, StorageInv, inputVars
<1>1. ASSUME NEW c \in Clients, NEW d \in Docs,
             UploadAdmit(c, d) \/ ReprocessBegin(c, d) \/ DeleteBegin(c, d)
      PROVE  StorageInv'
    <2>1. RowInv' /\ TaskInv'
          BY <1>1 DEF UploadAdmit, ReprocessBegin, DeleteBegin, RowInv, TaskInv, Listed,
                rowVars, storageVars, workerVars
    <2>2. RequestInv'
        <3>1. CASE UploadAdmit(c, d)
              BY <3>1 DEF UploadAdmit, Begin, RequestInv, ClientsOK, rowVars, storageVars
        <3>2. CASE ReprocessBegin(c, d)
              BY <3>2 DEF ReprocessBegin, Begin, RequestInv, Listed, ClientsOK, rowVars, storageVars
        <3>3. CASE DeleteBegin(c, d)
              BY <3>3 DEF DeleteBegin, Begin, RequestInv, ClientsOK, rowVars, storageVars
        <3> QED BY <1>1, <3>1, <3>2, <3>3
    <2> QED BY <2>1, <2>2
<1>2. ASSUME NEW c \in Clients, RequestStep(c)
      PROVE  StorageInv'
      BY <1>2, RequestKeepsStorage
<1>3. ASSUME NEW w \in Workers, Deliveries(w)
      PROVE  StorageInv'
    <2> PICK d \in Docs, r \in 0..MaxRetries : Deliver(w, d, r)
        BY <1>3 DEF Deliveries
    <2>1. RowInv' /\ RequestInv'
          BY DEF Deliver, RowInv, RequestInv, Listed, rowVars, storageVars, clientVars
    <2>2. TaskInv'
          BY DEF Deliver, TaskInv, QueueOK, WorkersOK, rowVars, storageVars
    <2> QED BY <2>1, <2>2
<1>4. ASSUME NEW w \in Workers, TaskStep(w)
      PROVE  StorageInv'
      BY <1>4, TaskKeepsStorage
<1>5. ASSUME NEW w \in Workers, WorkerCrash(w)
      PROVE  StorageInv'
    <2>1. RowInv' /\ RequestInv'
          BY <1>5 DEF WorkerCrash, RowInv, RequestInv, Listed, rowVars, storageVars, clientVars
    <2>2. TaskInv'
          BY <1>5 DEF WorkerCrash, Vacate, Publish, TaskInv, QueueOK, WorkersOK, rowVars, storageVars
    <2> QED BY <2>1, <2>2
<1>9. ASSUME NEW w \in Workers, HandlerLost(w)
      PROVE  StorageInv'
    <2>1. RowInv' /\ RequestInv'
          BY <1>9 DEF HandlerLost, RowInv, RequestInv, Listed, rowVars, storageVars, clientVars
    <2>2. TaskInv'
          BY <1>9 DEF HandlerLost, Run, TaskInv, WorkersOK, rowVars, storageVars
    <2> QED BY <2>1, <2>2
<1>6. ASSUME NEW p \in Procs, ApiCrash(p)
      PROVE  StorageInv'
    <2>1. RowInv' /\ TaskInv'
          BY <1>6 DEF ApiCrash, RowInv, TaskInv, Listed, rowVars, storageVars, workerVars
    <2>2. RequestInv'
          BY <1>6 DEF ApiCrash, RequestInv, ClientsOK, rowVars, storageVars
    <2> QED BY <2>1, <2>2
<1>7. CASE UNCHANGED <<rowVars, disowned, storageVars, queue, workerVars, clientVars>>
      BY <1>7 DEF RowInv, RequestInv, TaskInv, Listed, rowVars, storageVars, workerVars, clientVars
<1>8. ASSUME NEW k \in Courses, RemoveCourse(k)
      PROVE  StorageInv'
      BY <1>7, <1>8 DEF RemoveCourse
<1> QED BY <1>1, <1>2, <1>3, <1>4, <1>5, <1>6, <1>7, <1>8, <1>9 DEF Next, vars

\* The rows and the storage agree in every reachable state.
LEMMA StorageInvariant == Spec => []StorageInv
<1>1. Init => StorageInv
      BY DEF Init, StorageInv, RowInv, RequestInv, TaskInv, Listed, ProcessingStatus
<1> QED BY <1>1, TypeCorrect, NextKeepsStorage, PTL DEF Spec

\* A visible document can always be read, a visible document whose text is
\* published has its artifact, and COMPLETED means the text was published:
\* whatever number of requests, workers, faults and crashes interleave.
THEOREM StorageSafety == Spec => [](ListedHasOriginal /\ PublishedHasArtifact /\ CompletedHasText)
<1>1. StorageInv => ListedHasOriginal /\ PublishedHasArtifact /\ CompletedHasText
      BY DEF StorageInv, RowInv, ListedHasOriginal, PublishedHasArtifact, CompletedHasText
<1> QED BY <1>1, StorageInvariant, PTL

-----------------------------------------------------------------------------
(* Files without a row.  NoOrphanOriginal lets any request keep a file; the   *)
(* induction needs the requests that will list or remove it.                  *)

Kept(d) ==
    \/ Listed(d)
    \/ \E c \in Clients : cdoc[c] = d /\ (At(c, "upload", "stored") \/ cpc[c] = "rm_original")

\* An upload that has not stored its file finds none, and without a failure
\* every file is kept.
OrphanInv ==
    /\ \A c \in Clients : cop[c] = "upload" /\ cpc[c] \in {"admitted", "checked"} => cdoc[c] \notin originals
    /\ faults = 0 /\ apiCrashes = 0 => \A d \in originals : Kept(d)

\* A step that stores no file, hides no row and moves no request keeps them.
LEMMA OrphanFrame ==
    ASSUME OrphanInv, UNCHANGED <<originals, clientVars>>, \A d \in originals : Listed(d) => Listed(d)',
           faults' = 0 => faults = 0, UNCHANGED apiCrashes
    PROVE  OrphanInv'
<1>1. \A d \in originals : Kept(d) => Kept(d)'
      BY DEF Kept, At, clientVars
<1> QED BY <1>1 DEF OrphanInv, clientVars

\* A request that keeps no file of its own moves on, and every listed row stays listed.
LEMMA OthersKeep ==
    ASSUME NEW c \in Clients, ~At(c, "upload", "stored"), cpc[c] # "rm_original",
           \A b \in Clients : b # c => cpc'[b] = cpc[b] /\ cop'[b] = cop[b] /\ cdoc'[b] = cdoc[b],
           NEW d \in Docs, Kept(d), Listed(d) => Listed(d)'
    PROVE  Kept(d)'
BY DEF Kept, At

\* Every step of an accepted request keeps OrphanInv.
LEMMA RequestKeepsFiles ==
    ASSUME TypeOK, StorageInv, OrphanInv, NEW c \in Clients, RequestStep(c)
    PROVE  OrphanInv'
<1> USE DEF TypeOK
<1>c. /\ cpc[c] # "idle" => cdoc[c] \in Docs
      /\ originals \subseteq Docs /\ faults \in Nat
      BY DEF ClientsOK, StorageOK, BoundsOK
<1>0. Fault => faults' # 0
      BY <1>c DEF Fault
<1>m. /\ \A b \in Clients : b # c => cpc'[b] = cpc[b] /\ cop'[b] = cop[b] /\ cdoc'[b] = cdoc[b]
      /\ Respond(c) => cpc'[c] = "idle"
      /\ \A pc : Continue(c, pc) => cpc'[c] = pc /\ cop'[c] = cop[c] /\ cdoc'[c] = cdoc[c]
    <2>1. Respond(c) \/ \E pc : Continue(c, pc)
          BY DEF RequestStep, UploadCheck, UploadStore, UploadInsert, UploadInsertFails, UploadRefreshFails, Enqueue,
                 MarkQueued, SoftDelete, DeleteOriginal, DeleteArtifact
    <2> QED BY <2>1 DEF Respond, Continue, ClientsOK
<1>1. CASE UploadStore(c)
    <2>1. ASSUME NEW b \in Clients, cop'[b] = "upload", cpc'[b] \in {"admitted", "checked"}
          PROVE  cdoc'[b] \notin originals'
        <3>1. b # c /\ cdoc'[b] = cdoc[b] /\ cdoc[b] \notin originals
              BY <1>1, <1>m, <2>1 DEF UploadStore, OrphanInv
        <3>2. cdoc[c] # cdoc[b]
              BY <1>1, <3>1 DEF UploadStore, At, StorageInv, RequestInv
        <3> QED BY <1>1, <3>1, <3>2 DEF UploadStore
    <2>2. ASSUME faults' = 0, apiCrashes' = 0, NEW d \in originals' PROVE Kept(d)'
        <3>1. /\ originals' = originals \cup {cdoc[c]} /\ Continue(c, "stored")
              /\ faults = 0 /\ apiCrashes = 0 /\ UNCHANGED rowVars
              BY <1>0, <1>1, <2>2 DEF UploadStore, boundVars
        <3>2. d = cdoc[c] => Kept(d)'
              BY <1>1, <1>m, <3>1 DEF UploadStore, Kept, At
        <3>3. d # cdoc[c] => d \in Docs /\ Kept(d)
              BY <1>c, <2>2, <3>1 DEF OrphanInv
        <3>4. Listed(d) => Listed(d)'
              BY <3>1 DEF Listed, rowVars
        <3>5. ~At(c, "upload", "stored") /\ cpc[c] # "rm_original"
              BY <1>1 DEF UploadStore, At
        <3> QED BY <1>m, <3>2, <3>3, <3>4, <3>5, OthersKeep
    <2> QED BY <2>1, <2>2 DEF OrphanInv
<1>2. ASSUME ~UploadStore(c) PROVE OrphanInv'
    <2>0. originals' \subseteq originals /\ UNCHANGED apiCrashes
          BY <1>2 DEF RequestStep, UploadCheck, UploadInsert, UploadInsertFails, UploadRefreshFails, Enqueue,
                 MarkQueued, SoftDelete, DeleteOriginal, DeleteArtifact, storageVars, boundVars, Fault
    <2>1. ASSUME NEW b \in Clients, cop'[b] = "upload", cpc'[b] \in {"admitted", "checked"}
          PROVE  cdoc'[b] \notin originals'
        <3>1. b = c => UploadCheck(c) /\ Continue(c, "checked")
              BY <1>2, <1>m, <2>1 DEF RequestStep, UploadCheck, UploadInsert, UploadInsertFails, UploadRefreshFails, Enqueue,
                 MarkQueued, SoftDelete, DeleteOriginal, DeleteArtifact
        <3>2. b = c => cdoc[c] \notin originals /\ cdoc'[c] = cdoc[c]
              BY <1>m, <3>1 DEF UploadCheck, At, OrphanInv
        <3>3. b # c => cdoc'[b] = cdoc[b] /\ cdoc[b] \notin originals
              BY <1>m, <2>1 DEF OrphanInv
        <3> QED BY <2>0, <3>2, <3>3
    <2>2. ASSUME faults' = 0, apiCrashes' = 0, NEW d \in originals' PROVE Kept(d)'
        <3>0. d \in Docs /\ d \in originals /\ ~Fault /\ (~Fault => faults = 0)
              BY <1>0, <1>2, <1>c, <2>0, <2>2 DEF RequestStep, UploadCheck, UploadInsert, UploadInsertFails,
                 UploadRefreshFails, Enqueue, MarkQueued, SoftDelete, DeleteOriginal, DeleteArtifact, boundVars
        <3>1. Kept(d)
              BY <2>0, <2>2, <3>0 DEF OrphanInv
        <3>2. CASE UploadInsert(c)
            <4>1. cdoc[c] \in Docs /\ ~deleted[cdoc[c]] /\ status' = [status EXCEPT ![cdoc[c]] = "UPLOADED"] /\ UNCHANGED deleted
                  BY <1>c, <3>2 DEF UploadInsert, At, StorageInv, RequestInv, RowInv
            <4>2. d = cdoc[c] \/ Listed(d) => Listed(d)'
                  BY <3>0, <4>1 DEF Listed, RowsOK
            <4>3. CASE d = cdoc[c]
                  BY <4>2, <4>3 DEF Kept
            <4>4. CASE d # cdoc[c]
                  BY <1>m, <3>1, <4>2, <4>4 DEF Kept, At
            <4> QED BY <4>3, <4>4
        <3>3. CASE SoftDelete(c)
            <4>1. Continue(c, "rm_original") /\ deleted' = [deleted EXCEPT ![cdoc[c]] = TRUE] /\ UNCHANGED status
                  BY <3>0, <3>3 DEF SoftDelete
            <4>2. d = cdoc[c] => Kept(d)'
                  BY <1>m, <4>1 DEF Kept
            <4>3. d # cdoc[c] /\ Listed(d) => Listed(d)'
                  BY <3>0, <4>1 DEF Listed, RowsOK
            <4>4. ~At(c, "upload", "stored") /\ cpc[c] # "rm_original"
                  BY <3>3 DEF SoftDelete, At
            <4> QED BY <1>m, <3>0, <3>1, <4>2, <4>3, <4>4, OthersKeep
        <3>4. CASE DeleteOriginal(c)
            <4>1. originals' = originals \ {cdoc[c]} /\ UNCHANGED rowVars
                  BY <3>0, <3>4 DEF DeleteOriginal
            <4>2. d # cdoc[c] /\ (Listed(d) => Listed(d)')
                  BY <2>2, <4>1 DEF Listed, rowVars
            <4> QED BY <1>m, <3>1, <4>2 DEF Kept, At
        <3>5. CASE UploadCheck(c) \/ Enqueue(c) \/ MarkQueued(c) \/ DeleteArtifact(c)
            <4>1. ~At(c, "upload", "stored") /\ cpc[c] # "rm_original"
                  BY <3>5 DEF UploadCheck, Enqueue, MarkQueued, DeleteArtifact, At
            <4>2. Listed(d) => Listed(d)'
                  BY <1>c, <3>0, <3>5 DEF UploadCheck, Enqueue, MarkQueued, DeleteArtifact, Listed, rowVars, RowsOK
            <4> QED BY <1>m, <3>0, <3>1, <4>1, <4>2, OthersKeep
        <3> QED BY <1>2, <3>0, <3>2, <3>3, <3>4, <3>5 DEF RequestStep, UploadInsertFails, UploadRefreshFails
    <2> QED BY <2>1, <2>2 DEF OrphanInv
<1> QED BY <1>1, <1>2

\* Every step of the pipeline keeps OrphanInv.
LEMMA NextKeepsFiles == TypeOK /\ StorageInv /\ OrphanInv /\ [Next]_vars => OrphanInv'
<1> SUFFICES ASSUME TypeOK, StorageInv, OrphanInv, [Next]_vars PROVE OrphanInv'
    OBVIOUS
<1>0. originals \subseteq Docs
      BY DEF TypeOK, StorageOK
<1>1. ASSUME NEW c \in Clients, NEW d \in Docs,
             UploadAdmit(c, d) \/ ReprocessBegin(c, d) \/ DeleteBegin(c, d)
      PROVE  OrphanInv'
    <2>1. /\ UNCHANGED <<rowVars, originals, faults, apiCrashes>> /\ cpc[c] = "idle"
          /\ \A b \in Clients : b # c => cpc'[b] = cpc[b] /\ cop'[b] = cop[b] /\ cdoc'[b] = cdoc[b]
          BY <1>1 DEF UploadAdmit, ReprocessBegin, DeleteBegin, Begin, NewWork, TypeOK, ClientsOK, storageVars, boundVars
    <2>2. cop'[c] = "upload" /\ cpc'[c] \in {"admitted", "checked"} => cdoc'[c] \notin originals
          BY <1>1 DEF UploadAdmit, ReprocessBegin, DeleteBegin, Begin, TypeOK, ClientsOK
    <2>3. \A e \in originals : Kept(e) => Kept(e)'
          BY <1>0, <2>1, OthersKeep DEF Listed, rowVars, At
    <2> QED BY <2>1, <2>2, <2>3 DEF OrphanInv
<1>2. ASSUME NEW c \in Clients, RequestStep(c)
      PROVE  OrphanInv'
      BY <1>2, RequestKeepsFiles
<1>3. ASSUME NEW w \in Workers, TaskStep(w)
      PROVE  OrphanInv'
    <2>1. UNCHANGED <<originals, clientVars, deleted, apiCrashes>> /\ (faults' = 0 => faults = 0)
        <3>1. Fault => faults' = faults + 1 /\ faults \in Nat /\ UNCHANGED apiCrashes
              BY DEF Fault, TypeOK, BoundsOK
        <3> QED BY <1>3, <3>1 DEF TaskStep, Claim, Fetch, Load, SaveArtifact, MarkCompleted, MarkFailed,
                StorageError, UnexpectedError, Retry, OnFailure, GiveUp, Ack, storageVars, rowVars, boundVars
    <2>2. \A d \in Docs : status[d] # "absent" => status'[d] # "absent"
        <3>1. CASE Claim(w) \/ MarkCompleted(w) \/ MarkFailed(w) \/ GiveUp(w)
              BY <3>1 DEF Claim, MarkCompleted, MarkFailed, GiveUp, Emit, TypeOK, RowsOK
        <3>2. CASE UNCHANGED status
              BY <3>2
        <3> QED BY <1>3, <3>1, <3>2 DEF TaskStep, Fetch, Load, SaveArtifact, StorageError,
                UnexpectedError, Retry, OnFailure, Ack, rowVars
    <2> QED BY <1>0, <2>1, <2>2, OrphanFrame DEF Listed
<1>4. CASE UNCHANGED <<originals, clientVars, status, deleted, faults, apiCrashes>>
      BY <1>4, OrphanFrame DEF Listed
<1>5. ASSUME NEW p \in Procs, ApiCrash(p)
      PROVE  OrphanInv'
    <2>1. apiCrashes' # 0 /\ UNCHANGED originals
          BY <1>5 DEF ApiCrash, TypeOK, BoundsOK, storageVars
    <2>2. \A b \in Clients : cop'[b] = "upload" => cop[b] = "upload" /\ cpc'[b] = cpc[b] /\ cdoc'[b] = cdoc[b]
          BY <1>5 DEF ApiCrash
    <2> QED BY <2>1, <2>2 DEF OrphanInv
<1> QED BY <1>1, <1>2, <1>3, <1>4, <1>5
        DEF Next, Deliveries, Deliver, HandlerLost, WorkerCrash, RemoveCourse, vars, rowVars, storageVars, boundVars

\* Without a failed call or a dead API process, a stored file has a visible
\* row or a request that will list or remove it, whatever requests interleave.
THEOREM OrphanSafety == Spec => []NoOrphanOriginal
<1>1. Init => OrphanInv
      BY DEF Init, OrphanInv
<1>2. OrphanInv => NoOrphanOriginal
      BY DEF OrphanInv, Kept, NoOrphanOriginal
<1> QED BY <1>1, <1>2, TypeCorrect, StorageInvariant, NextKeepsFiles, PTL DEF Spec

-----------------------------------------------------------------------------
(* The reasons, with one worker process.  Only the worker writes an error, so  *)
(* its session's view of the error is the row's; the API may only overwrite    *)
(* the status, with QUEUED.                                                    *)

Rows ==
    \A d \in Docs : /\ status[d] = "COMPLETED" => error[d] = "none"
                    /\ status[d] = "FAILED" => error[d] # "none"

ReasonInv ==
    /\ Rows
    /\ \A w \in Workers :
          /\ wpc[w] \in {"load", "save", "complete", "fail", "give_up"} =>
                /\ error[wdoc[w]] = wsnap[w].error
                /\ status[wdoc[w]] \in {wsnap[w].status, "QUEUED"}
          /\ wpc[w] = "fail" => wreason[w] # "none"
          /\ wpc[w] = "give_up" => wsnap[w].status = "PROCESSING"

\* What writes neither row nor worker keeps the reasons.
LEMMA ReasonFrame ==
    ASSUME ReasonInv, UNCHANGED <<status, error, workerVars>>
    PROVE  ReasonInv'
BY DEF ReasonInv, Rows, workerVars

\* The one worker that moves without writing the row, and holds no row after.
LEMMA UnloadedKeepsReasons ==
    ASSUME ReasonInv, UNCHANGED <<status, error>>, NEW w \in Workers, \A v \in Workers : v = w,
           wpc'[w] \notin {"load", "save", "complete", "fail", "give_up"}
    PROVE  ReasonInv'
BY DEF ReasonInv, Rows

\* With one worker, every step of process_document keeps the reasons.
LEMMA TaskKeepsReasons ==
    ASSUME TypeOK, ReasonInv, NEW w \in Workers, \A v \in Workers : v = w, TaskStep(w)
    PROVE  ReasonInv'
<1> DEFINE d == wdoc[w]
           loaded == {"load", "save", "complete", "fail", "give_up"}
<1> USE DEF TypeOK, WorkersOK, Run, RunWith
<1>w. wpc[w] # "idle" => d \in Docs
      OBVIOUS
<1>1. ASSUME UNCHANGED <<rowVars, wdoc>>, wpc[w] \in loaded, wpc'[w] \in loaded, UNCHANGED wsnap,
             wpc'[w] = "fail" => wreason'[w] # "none", wpc'[w] # "give_up"
      PROVE  ReasonInv'
      BY <1>1 DEF ReasonInv, Rows, rowVars
<1>2. CASE Claim(w)
    <2>1. wpc'[w] \notin loaded
          BY <1>2 DEF Claim
    <2>2. Rows'
        <3>1. CASE Claimable(d)
              BY <1>2, <1>w, <3>1 DEF Claim, ReasonInv, Rows, RowsOK
        <3>2. CASE ~Claimable(d)
              BY <1>2, <3>2 DEF Claim, ReasonInv, Rows
        <3> QED BY <3>1, <3>2
    <2> QED BY <2>1, <2>2 DEF ReasonInv
<1>3. CASE Fetch(w)
    <2>1. CASE status[d] = "absent"
        <3>1. wpc'[w] \notin loaded
              BY <1>3, <2>1 DEF Fetch
        <3> QED BY <1>3, <3>1, UnloadedKeepsReasons DEF Fetch, rowVars
    <2>2. CASE status[d] # "absent"
        <3>1. /\ wpc'[w] = "load" /\ wsnap'[w].status = status[d] /\ wsnap'[w].error = error[d]
              /\ UNCHANGED <<wdoc, status, error>>
              BY <1>3, <2>2 DEF Fetch, rowVars
        <3> QED BY <3>1 DEF ReasonInv, Rows
    <2> QED BY <2>1, <2>2
<1>4. CASE Load(w)
    <2>1. /\ wpc'[w] \in {"fail", "save"} /\ wpc[w] = "load" /\ UNCHANGED <<rowVars, wdoc, wsnap>>
          /\ wpc'[w] = "fail" => wreason'[w] # "none"
          BY <1>4 DEF Load
    <2> QED BY <1>1, <2>1
<1>5. CASE SaveArtifact(w)
    <2>1. wpc'[w] = "complete" /\ wpc[w] = "save" /\ UNCHANGED <<rowVars, wdoc, wsnap>>
          BY <1>5 DEF SaveArtifact
    <2> QED BY <1>1, <2>1
<1>6. CASE MarkCompleted(w)
    <2>1. /\ wpc[w] = "complete" /\ wpc'[w] \notin loaded
          /\ status' = [status EXCEPT ![d] = Emit(wsnap[w].status, "COMPLETED", @)]
          /\ error' = [error EXCEPT ![d] = Emit(wsnap[w].error, "none", @)]
          BY <1>6 DEF MarkCompleted
    <2>2. error[d] = wsnap[w].error /\ status[d] \in {wsnap[w].status, "QUEUED"} /\ d \in Docs
          BY <1>w, <2>1 DEF ReasonInv
    <2>3. error'[d] = "none" /\ status'[d] \in {"COMPLETED", "QUEUED"}
          BY <2>1, <2>2 DEF Emit, RowsOK
    <2>4. \A e \in Docs : e # d => status'[e] = status[e] /\ error'[e] = error[e]
          BY <2>1 DEF RowsOK
    <2> QED BY <2>1, <2>2, <2>3, <2>4 DEF ReasonInv, Rows
<1>7. CASE MarkFailed(w) \/ GiveUp(w)
    <2>1. PICK reason : /\ wpc'[w] \notin loaded /\ reason # "none" /\ wpc[w] \in {"fail", "give_up"}
                        /\ status' = [status EXCEPT ![d] = Emit(wsnap[w].status, "FAILED", @)]
                        /\ error' = [error EXCEPT ![d] = Emit(wsnap[w].error, reason, @)]
          BY <1>7 DEF MarkFailed, GiveUp, ReasonInv
    <2>2. error[d] = wsnap[w].error /\ status[d] \in {wsnap[w].status, "QUEUED"} /\ d \in Docs
          BY <1>w, <2>1 DEF ReasonInv
    <2>3. error'[d] = reason /\ status'[d] \in {"FAILED", "QUEUED"}
          BY <2>1, <2>2 DEF Emit, RowsOK
    <2>4. \A e \in Docs : e # d => status'[e] = status[e] /\ error'[e] = error[e]
          BY <2>1 DEF RowsOK
    <2> QED BY <2>1, <2>2, <2>3, <2>4 DEF ReasonInv, Rows
<1>8. CASE StorageError(w) \/ UnexpectedError(w) \/ Retry(w)
    <2>1. wpc'[w] \notin loaded /\ UNCHANGED <<status, error>>
          BY <1>8 DEF StorageError, UnexpectedError, Retry, rowVars
    <2> QED BY <2>1, UnloadedKeepsReasons
<1>9. CASE OnFailure(w)
    <2>1. CASE status[d] = "PROCESSING"
        <3>1. /\ wpc'[w] = "give_up" /\ wsnap'[w].status = status[d] /\ wsnap'[w].error = error[d]
              /\ UNCHANGED <<wdoc, status, error>>
              BY <1>9, <2>1 DEF OnFailure, rowVars
        <3> QED BY <2>1, <3>1 DEF ReasonInv, Rows
    <2>2. CASE status[d] # "PROCESSING"
        <3>1. wpc'[w] \notin loaded /\ UNCHANGED <<status, error>>
              BY <1>9, <2>2 DEF OnFailure, rowVars
        <3> QED BY <3>1, UnloadedKeepsReasons
    <2> QED BY <2>1, <2>2
<1>10. CASE Ack(w)
    <2>1. wpc'[w] \notin loaded /\ UNCHANGED <<status, error>>
          BY <1>10 DEF Ack, Vacate, rowVars
    <2> QED BY <2>1, UnloadedKeepsReasons
<1> QED BY <1>2, <1>3, <1>4, <1>5, <1>6, <1>7, <1>8, <1>9, <1>10 DEF TaskStep

\* With one worker, every step of the pipeline keeps the reasons.
LEMMA NextKeepsReasons ==
    ASSUME \A v, w \in Workers : v = w
    PROVE  TypeOK /\ StorageInv /\ ReasonInv /\ [Next]_vars => ReasonInv'
<1> SUFFICES ASSUME TypeOK, StorageInv, ReasonInv, [Next]_vars PROVE ReasonInv'
    OBVIOUS
<1>1. ASSUME NEW w \in Workers, TaskStep(w) PROVE ReasonInv'
      BY <1>1, TaskKeepsReasons
<1>2. ASSUME NEW c \in Clients, UploadInsert(c) PROVE ReasonInv'
    <2>1. /\ cdoc[c] \in Docs /\ status[cdoc[c]] = "absent"
          /\ status' = [status EXCEPT ![cdoc[c]] = "UPLOADED"] /\ UNCHANGED <<error, workerVars>>
          BY <1>2 DEF UploadInsert, At, StorageInv, RequestInv, TypeOK, ClientsOK
    <2>2. \A w \in Workers : wpc[w] # "idle" => wdoc[w] # cdoc[c]
          BY <2>1 DEF StorageInv, TaskInv
    <2>3. Rows'
          BY <2>1 DEF ReasonInv, Rows, TypeOK, RowsOK
    <2> QED BY <2>1, <2>2, <2>3 DEF ReasonInv, TypeOK, RowsOK, WorkersOK, workerVars
<1>3. ASSUME NEW c \in Clients, MarkQueued(c) PROVE ReasonInv'
    <2>1. CASE UNCHANGED status
          BY <1>3, <2>1, ReasonFrame DEF MarkQueued
    <2>2. CASE status' = [status EXCEPT ![cdoc[c]] = "QUEUED"]
        <3>1. UNCHANGED <<error, workerVars>> /\ \A d \in Docs : status'[d] \in {status[d], "QUEUED"}
              BY <1>3, <2>2 DEF MarkQueued, TypeOK, RowsOK
        <3>2. \A w \in Workers : wpc[w] # "idle" => wdoc[w] \in Docs
              BY DEF TypeOK, WorkersOK
        <3> QED BY <3>1, <3>2 DEF ReasonInv, Rows, workerVars
    <2> QED BY <1>3, <2>1, <2>2 DEF MarkQueued
<1>4. ASSUME NEW w \in Workers, Deliveries(w) \/ HandlerLost(w) \/ WorkerCrash(w) PROVE ReasonInv'
    <2>1. /\ wpc'[w] \notin {"load", "save", "complete", "fail", "give_up"}
          /\ UNCHANGED <<status, error>>
          BY <1>4 DEF Deliveries, Deliver, HandlerLost, WorkerCrash, Run, Vacate, rowVars, TypeOK, WorkersOK
    <2> QED BY <2>1, UnloadedKeepsReasons
<1>5. CASE UNCHANGED <<status, error, workerVars>>
      BY <1>5, ReasonFrame
<1> QED BY <1>1, <1>2, <1>3, <1>4, <1>5
        DEF Next, UploadAdmit, ReprocessBegin, DeleteBegin, RequestStep, UploadCheck, UploadStore, UploadInsertFails,
            UploadRefreshFails, Enqueue, SoftDelete, DeleteOriginal, DeleteArtifact, ApiCrash, RemoveCourse, vars, rowVars

\* With one worker process, a FAILED row says why and a COMPLETED row shows no
\* error, whatever requests, retries, faults and crashes interleave.
THEOREM ReasonSafety == Spec => []ErrorMatchesStatus
<1>1. CASE Cardinality(Workers) = 1
    <2>1. \A v, w \in Workers : v = w
          BY <1>1, FS_Singleton
    <2>2. Init => ReasonInv
          BY DEF Init, ReasonInv, Rows
    <2>3. ReasonInv => ErrorMatchesStatus
          BY DEF ReasonInv, Rows, ErrorMatchesStatus
    <2>4. TypeOK /\ StorageInv /\ ReasonInv /\ [Next]_vars => ReasonInv'
          BY <2>1, NextKeepsReasons
    <2> QED BY <2>2, <2>3, <2>4, TypeCorrect, StorageInvariant, PTL DEF Spec
<1>2. CASE Cardinality(Workers) # 1
    <2>1. ErrorMatchesStatus
          BY <1>2 DEF ErrorMatchesStatus
    <2> QED BY <2>1, PTL
<1> QED BY <1>1, <1>2

-----------------------------------------------------------------------------
(* Duplicate uploads, with one API process.                                   *)

OneProcess == \A b, c \in Clients : ProcOf[b] = ProcOf[c]

\* One upload at a time is past its await, and no duplicate of it was listed
\* meanwhile.
UploadInv ==
    /\ \A b, c \in Clients : InLoop(b) /\ InLoop(c) => b = c
    /\ \A c \in Clients :
          cop[c] = "upload" /\ cpc[c] \in {"checked", "stored"} => ~Duplicate(cdoc[c])
    /\ NoDuplicateListed

\* With one API process, every step of an accepted request keeps UploadInv.
LEMMA RequestKeepsUpload ==
    ASSUME TypeOK, StorageInv, UploadInv, OneProcess, NEW c \in Clients, RequestStep(c)
    PROVE  UploadInv'
<1> USE DEF TypeOK, UploadInv, Continue, Respond, At, InLoop
<1>c. cpc[c] # "idle" => cdoc[c] \in Docs
      BY DEF ClientsOK
<1>1. CASE UploadCheck(c)
    <2>0. Respond(c) \/ (~Duplicate(cdoc[c]) /\ Continue(c, "checked"))
          BY <1>1 DEF UploadCheck
    <2>1. \A b \in Clients : ~InLoop(b)
          BY <1>1 DEF UploadCheck, EventLoopFree, OneProcess
    <2>2. \A d \in Docs : Duplicate(d)' <=> Duplicate(d)
          BY <1>1 DEF UploadCheck, Duplicate, SameFile, Listed, rowVars, inputVars
    <2>3. NoDuplicateListed'
          BY <1>1 DEF UploadCheck, NoDuplicateListed, SameFile, Listed, rowVars, inputVars
    <2> QED BY <1>1, <1>c, <2>0, <2>1, <2>2, <2>3 DEF UploadCheck, ClientsOK
<1>2. CASE UploadStore(c)
    <2>0. Respond(c) \/ Continue(c, "stored")
          BY <1>2 DEF UploadStore
    <2>1. NoDuplicateListed' /\ \A d \in Docs : Duplicate(d)' <=> Duplicate(d)
          BY <1>2 DEF UploadStore, NoDuplicateListed, Duplicate, SameFile, Listed, rowVars, inputVars
    <2>2. \A b \in Clients : InLoop(b)' => InLoop(b)
          BY <1>2, <2>0 DEF UploadStore, ClientsOK
    <2>3. \A b \in Clients : cop'[b] = "upload" /\ cpc'[b] \in {"checked", "stored"} =>
              /\ cop[b] = "upload" /\ cpc[b] \in {"checked", "stored"}
              /\ cdoc'[b] = cdoc[b] /\ cdoc[b] \in Docs
          BY <1>2, <2>0 DEF UploadStore, ClientsOK
    <2> QED BY <2>1, <2>2, <2>3
<1>3. CASE UploadInsert(c)
    <2>1. NoDuplicateListed'
          BY <1>3, <1>c DEF UploadInsert, NoDuplicateListed, Duplicate, SameFile, Listed, RowsOK, inputVars
    <2>2. \A b, d \in Clients : InLoop(b)' /\ InLoop(d)' => b = d
          BY <1>3 DEF UploadInsert, ClientsOK
    <2>3. \A b \in Clients : cop'[b] = "upload" => cpc'[b] \notin {"checked", "stored"}
          BY <1>3 DEF UploadInsert, ClientsOK
    <2> QED BY <2>1, <2>2, <2>3
<1>4. CASE \/ UploadInsertFails(c) \/ UploadRefreshFails(c) \/ Enqueue(c)
           \/ DeleteOriginal(c) \/ DeleteArtifact(c)
    <2>0. /\ Respond(c) \/ Continue(c, "mark") \/ Continue(c, "rm_artifact")
          /\ cpc[c] # "idle" /\ UNCHANGED <<rowVars, content>>
          /\ Continue(c, "mark") => cpc[c] = "enqueue"
          /\ Continue(c, "rm_artifact") => cpc[c] = "rm_original"
          BY <1>4 DEF UploadInsertFails, UploadRefreshFails, Enqueue, DeleteOriginal, DeleteArtifact,
                ClientsOK, inputVars
    <2>1. NoDuplicateListed' /\ \A d \in Docs : Duplicate(d)' <=> Duplicate(d)
          BY <2>0 DEF NoDuplicateListed, Duplicate, SameFile, Listed, rowVars, inputVars
    <2>2. \A b \in Clients : InLoop(b)' => InLoop(b)
          BY <2>0 DEF ClientsOK
    <2> QED BY <1>c, <2>0, <2>1, <2>2 DEF ClientsOK
<1>5. CASE MarkQueued(c) \/ SoftDelete(c)
    <2>0. /\ Respond(c) \/ (Continue(c, "rm_original") /\ cpc[c] = "soft_delete")
          /\ cpc[c] # "idle" /\ UNCHANGED inputVars
          BY <1>5 DEF MarkQueued, SoftDelete
    <2>1. \A d \in Docs : Listed(d)' => Listed(d)
          BY <1>5, <1>c DEF MarkQueued, SoftDelete, Listed, RowsOK, StorageInv, RequestInv
    <2>2. NoDuplicateListed' /\ \A d \in Docs : Duplicate(d)' => Duplicate(d)
          BY <2>0, <2>1 DEF NoDuplicateListed, Duplicate, SameFile, inputVars
    <2>3. \A b \in Clients : InLoop(b)' => InLoop(b)
          BY <2>0 DEF ClientsOK
    <2>4. \A b \in Clients : cop'[b] = "upload" /\ cpc'[b] \in {"checked", "stored"} =>
              /\ cop[b] = "upload" /\ cpc[b] \in {"checked", "stored"}
              /\ cdoc'[b] = cdoc[b] /\ cdoc[b] \in Docs
          BY <2>0 DEF ClientsOK
    <2> QED BY <2>2, <2>3, <2>4
<1> QED BY <1>1, <1>2, <1>3, <1>4, <1>5 DEF RequestStep

\* What lists no document and moves no upload keeps UploadInv.
LEMMA UploadFrame ==
    ASSUME UploadInv, UNCHANGED <<content, clientVars>>, \A d \in Docs : Listed(d)' => Listed(d),
           TypeOK
    PROVE  UploadInv'
<1>1. \A c \in Clients : cop[c] = "upload" /\ cpc[c] \in {"checked", "stored"} => cdoc[c] \in Docs
      BY DEF TypeOK, ClientsOK
<1>2. \A d \in Docs : Duplicate(d)' => Duplicate(d)
      BY DEF Duplicate, SameFile
<1>3. NoDuplicateListed'
      BY DEF UploadInv, NoDuplicateListed, SameFile
<1> QED BY <1>1, <1>2, <1>3 DEF UploadInv, InLoop, clientVars

\* With one API process, every step of the pipeline keeps UploadInv.
LEMMA NextKeepsUpload ==
    ASSUME OneProcess
    PROVE  TypeOK /\ StorageInv /\ UploadInv /\ [Next]_vars => UploadInv'
<1> SUFFICES ASSUME TypeOK, StorageInv, UploadInv, [Next]_vars PROVE UploadInv'
    OBVIOUS
<1>1. ASSUME NEW c \in Clients, NEW d \in Docs,
             UploadAdmit(c, d) \/ ReprocessBegin(c, d) \/ DeleteBegin(c, d)
      PROVE  UploadInv'
    <2>1. /\ UNCHANGED <<rowVars, inputVars>>
          /\ cop'[c] = "upload" => cpc'[c] = "admitted"
          /\ \A b \in Clients : b # c => cop'[b] = cop[b] /\ cpc'[b] = cpc[b] /\ cdoc'[b] = cdoc[b]
          BY <1>1 DEF UploadAdmit, ReprocessBegin, DeleteBegin, Begin, TypeOK, ClientsOK
    <2>2. NoDuplicateListed' /\ \A e \in Docs : Duplicate(e)' => Duplicate(e)
          BY <2>1 DEF UploadInv, NoDuplicateListed, Duplicate, SameFile, Listed, rowVars, inputVars
    <2>3. \A b \in Clients : InLoop(b)' => InLoop(b)
          BY <2>1 DEF InLoop
    <2>4. \A b \in Clients : cop'[b] = "upload" /\ cpc'[b] \in {"checked", "stored"} =>
              /\ cop[b] = "upload" /\ cpc[b] \in {"checked", "stored"}
              /\ cdoc'[b] = cdoc[b] /\ cdoc[b] \in Docs
          BY <2>1 DEF TypeOK, ClientsOK
    <2> QED BY <2>2, <2>3, <2>4 DEF UploadInv
<1>2. ASSUME NEW c \in Clients, RequestStep(c)
      PROVE  UploadInv'
      BY <1>2, RequestKeepsUpload
<1>3. ASSUME NEW w \in Workers, TaskStep(w)
      PROVE  UploadInv'
    <2>1. UNCHANGED <<content, clientVars, deleted>>
          BY <1>3 DEF TaskStep, Claim, Fetch, Load, SaveArtifact, MarkCompleted, MarkFailed,
                StorageError, UnexpectedError, Retry, OnFailure, GiveUp, Ack, inputVars, rowVars
    <2>2. \A d \in Docs : status'[d] # "absent" => status[d] # "absent"
        <3>0. wpc[w] # "idle" => wdoc[w] \in Docs /\ status[wdoc[w]] # "absent"
              BY DEF TypeOK, WorkersOK, StorageInv, TaskInv
        <3>1. CASE Claim(w) \/ MarkCompleted(w) \/ MarkFailed(w) \/ GiveUp(w)
              BY <3>0, <3>1 DEF Claim, MarkCompleted, MarkFailed, GiveUp, TypeOK, RowsOK
        <3>2. CASE UNCHANGED status
              BY <3>2
        <3> QED BY <1>3, <3>1, <3>2 DEF TaskStep, Fetch, Load, SaveArtifact, StorageError,
                UnexpectedError, Retry, OnFailure, Ack, rowVars
    <2> QED BY <2>1, <2>2, UploadFrame DEF Listed
<1>4. ASSUME NEW w \in Workers, Deliveries(w) \/ HandlerLost(w) \/ WorkerCrash(w)
      PROVE  UploadInv'
    <2>1. UNCHANGED <<content, clientVars, status, deleted>>
          BY <1>4 DEF Deliveries, Deliver, HandlerLost, WorkerCrash, inputVars, rowVars
    <2> QED BY <2>1, UploadFrame DEF Listed
<1>5. ASSUME NEW p \in Procs, ApiCrash(p)
      PROVE  UploadInv'
    <2>1. NoDuplicateListed' /\ \A e \in Docs : Duplicate(e)' => Duplicate(e)
          BY <1>5 DEF ApiCrash, UploadInv, NoDuplicateListed, Duplicate, SameFile, Listed, rowVars, inputVars
    <2>2. \A b \in Clients : InLoop(b)' => InLoop(b)
          BY <1>5 DEF ApiCrash, InLoop
    <2>3. \A b \in Clients : cop'[b] = "upload" /\ cpc'[b] \in {"checked", "stored"} =>
              /\ cop[b] = "upload" /\ cpc[b] \in {"checked", "stored"}
              /\ cdoc'[b] = cdoc[b] /\ cdoc[b] \in Docs
          BY <1>5 DEF ApiCrash, TypeOK, ClientsOK
    <2> QED BY <2>1, <2>2, <2>3 DEF UploadInv
<1>6. ASSUME NEW k \in Courses, RemoveCourse(k)
      PROVE  UploadInv'
    <2>1. UNCHANGED <<content, clientVars, status, deleted>>
          BY <1>6 DEF RemoveCourse, rowVars
    <2> QED BY <2>1, UploadFrame DEF Listed
<1>7. CASE UNCHANGED vars
    <2>1. UNCHANGED <<content, clientVars, status, deleted>>
          BY <1>7 DEF vars, inputVars, rowVars
    <2> QED BY <2>1, UploadFrame DEF Listed
<1> QED BY <1>1, <1>2, <1>3, <1>4, <1>5, <1>6, <1>7 DEF Next

\* With one API process, the three invariants hold in every reachable state.
LEMMA UploadInvariant ==
    ASSUME OneProcess
    PROVE  Spec => [](TypeOK /\ StorageInv /\ UploadInv)
<1>1. Init => UploadInv
      BY DEF Init, UploadInv, InLoop, NoDuplicateListed, Listed
<1> QED BY <1>1, TypeCorrect, StorageInvariant, NextKeepsUpload, PTL DEF Spec

\* With one API process, a course never lists the same bytes twice.
THEOREM NoDuplicates ==
    ASSUME OneProcess
    PROVE  Spec => []NoDuplicateListed
<1>1. UploadInv => NoDuplicateListed
      BY DEF UploadInv
<1> QED BY <1>1, UploadInvariant, PTL

-----------------------------------------------------------------------------
(* Refinement: every step of the pipeline is a step of the library or leaves *)
(* it alone.                                                                  *)

\* A step that changes no row's visibility and no stored file is a stutter.
LEMMA LibraryStutter ==
    ASSUME UNCHANGED <<content, disowned, deleted, hasPath, storageVars>>,
           \A d \in Docs : status'[d] = "absent" <=> status[d] = "absent"
    PROVE  UNCHANGED Library!vars
BY DEF Library!vars, Listing, storageVars

\* Every step of an accepted request is a library step or a stutter.
LEMMA RequestImplements ==
    ASSUME TypeOK, StorageInv, UploadInv, NEW c \in Clients, RequestStep(c)
    PROVE  [Library!Next]_(Library!vars)
<1> DEFINE d == cdoc[c]
<1>c. cpc[c] # "idle" => d \in Docs
      BY DEF TypeOK, ClientsOK
<1> HIDE DEF d
<1>1. CASE UploadStore(c) \/ UploadInsertFails(c)
    <2>1. /\ d \in Docs /\ status[d] = "absent"
          /\ originals' \in {originals, originals \cup {d}, originals \ {d}}
          /\ UNCHANGED <<rowVars, inputVars, artifacts>>
          BY <1>1, <1>c DEF UploadStore, UploadInsertFails, At, StorageInv, RequestInv, d
    <2>2. CASE UNCHANGED originals
          BY <2>1, <2>2, LibraryStutter DEF rowVars, inputVars, storageVars
    <2>3. CASE originals' \in {originals \cup {d}, originals \ {d}}
        <3>1. Library!Store(d)
              BY <2>1, <2>3 DEF Library!Store, Listing, rowVars, inputVars
        <3> QED BY <2>1, <3>1 DEF Library!Next
    <2> QED BY <2>1, <2>2, <2>3
<1>7. CASE UploadRefreshFails(c)
    <2>1. d \in Docs /\ status[d] # "absent"
          BY <1>7, <1>c DEF UploadRefreshFails, At, StorageInv, RequestInv, d
    <2>2. Library!Disown(d)
          BY <1>7, <2>1 DEF UploadRefreshFails, Library!Disown, Listing, rowVars, d
    <2> QED BY <2>1, <2>2 DEF Library!Next
<1>2. CASE UploadInsert(c)
    <2>1. /\ d \in Docs /\ status[d] = "absent" /\ ~deleted[d] /\ d \in originals /\ ~Duplicate(d)
          BY <1>2, <1>c DEF UploadInsert, At, StorageInv, RequestInv, RowInv, UploadInv, d
    <2>2. Library!List(d)
        <3>1. \A e \in Docs : CourseOf[e] = CourseOf[d] /\ content[e] = content[d] => ~Listed(e)
              BY <2>1 DEF Duplicate, SameFile
        <3>2. [e \in Docs |-> Listing(e)]' = [[e \in Docs |-> Listing(e)] EXCEPT ![d] = "listed"]
              BY <1>2, <2>1 DEF UploadInsert, Listing, TypeOK, RowsOK, d
        <3> QED BY <1>2, <2>1, <3>1, <3>2 DEF UploadInsert, Library!List, Listing, Listed, inputVars, storageVars
    <2> QED BY <2>1, <2>2 DEF Library!Next
<1>3. CASE SoftDelete(c)
    <2>1. /\ d \in Docs /\ status[d] # "absent"
          BY <1>3, <1>c DEF SoftDelete, StorageInv, RequestInv, d
    <2>2. CASE deleted' = deleted
          BY <1>3, <2>2, LibraryStutter DEF SoftDelete, inputVars
    <2>3. CASE ~deleted[d] /\ deleted' = [deleted EXCEPT ![d] = TRUE]
        <3>1. [e \in Docs |-> Listing(e)]' = [[e \in Docs |-> Listing(e)] EXCEPT ![d] = "removed"]
              BY <1>3, <2>1, <2>3 DEF SoftDelete, Listing, TypeOK, RowsOK
        <3>2. Library!Remove(d)
              BY <1>3, <2>1, <2>3, <3>1 DEF SoftDelete, Library!Remove, Listing, inputVars, storageVars
        <3> QED BY <2>1, <3>2 DEF Library!Next
    <2>4. CASE deleted[d] /\ deleted' = [deleted EXCEPT ![d] = TRUE]
        <3>1. deleted' = deleted
              BY <2>1, <2>4 DEF TypeOK, RowsOK
        <3> QED BY <2>2, <3>1
    <2> QED BY <1>3, <2>2, <2>3, <2>4 DEF SoftDelete, d
<1>4. CASE DeleteOriginal(c) \/ DeleteArtifact(c)
    <2>1. /\ d \in Docs /\ status[d] # "absent" /\ deleted[d]
          /\ \/ originals' = originals \ {d} /\ UNCHANGED artifacts
             \/ artifacts' = artifacts \ {d} /\ UNCHANGED originals
             \/ UNCHANGED storageVars
          /\ UNCHANGED <<rowVars, inputVars>>
          BY <1>4, <1>c DEF DeleteOriginal, DeleteArtifact, StorageInv, RequestInv, storageVars, d
    <2>2. CASE UNCHANGED storageVars
          BY <2>1, <2>2, LibraryStutter DEF rowVars, inputVars
    <2>3. CASE ~UNCHANGED storageVars
        <3>1. Library!Erase(d)
              BY <2>1, <2>3 DEF Library!Erase, Listing, rowVars, inputVars
        <3> QED BY <2>1, <3>1 DEF Library!Next
    <2> QED BY <2>2, <2>3
<1>5. CASE MarkQueued(c)
    <2>1. d \in Docs /\ status[d] # "absent"
          BY <1>5, <1>c DEF MarkQueued, StorageInv, RequestInv, d
    <2> QED BY <1>5, <2>1, LibraryStutter DEF MarkQueued, TypeOK, RowsOK, inputVars, d
<1>6. CASE UploadCheck(c) \/ Enqueue(c)
      BY <1>6, LibraryStutter DEF UploadCheck, Enqueue, rowVars, inputVars
<1> QED BY <1>1, <1>2, <1>3, <1>4, <1>5, <1>6, <1>7 DEF RequestStep

\* Every step of process_document is a library step or a stutter.
LEMMA TaskImplements ==
    ASSUME TypeOK, StorageInv, NEW w \in Workers, TaskStep(w)
    PROVE  [Library!Next]_(Library!vars)
<1> DEFINE d == wdoc[w]
<1>w. wpc[w] # "idle" => d \in Docs /\ status[d] # "absent"
      BY DEF TypeOK, WorkersOK, StorageInv, TaskInv
<1> HIDE DEF d
<1>1. CASE Claim(w) \/ MarkFailed(w) \/ GiveUp(w)
    <2>1. \A e \in Docs : status'[e] = "absent" <=> status[e] = "absent"
          BY <1>1, <1>w DEF Claim, MarkFailed, GiveUp, Emit, TypeOK, RowsOK, d
    <2> QED BY <1>1, <2>1, LibraryStutter DEF Claim, MarkFailed, GiveUp, inputVars
<1>2. CASE SaveArtifact(w)
    <2>1. Library!Extract(d)
          BY <1>2, <1>w DEF SaveArtifact, Library!Extract, Listing, rowVars, inputVars, d
    <2> QED BY <1>2, <1>w, <2>1 DEF SaveArtifact, Library!Next
<1>3. CASE MarkCompleted(w)
    <2>1. d \in Docs /\ status[d] # "absent" /\ (deleted[d] \/ d \in artifacts)
          BY <1>3, <1>w DEF MarkCompleted, StorageInv, TaskInv, d
    <2>2. [e \in Docs |-> Listing(e)]' = [e \in Docs |-> Listing(e)]
          BY <1>3, <2>1 DEF MarkCompleted, Emit, Listing, TypeOK, RowsOK, d
    <2>3. {e \in Docs : hasPath[e]}' = {e \in Docs : hasPath[e]} \cup {d}
          BY <1>3, <2>1 DEF MarkCompleted, TypeOK, RowsOK, d
    <2>4. ASSUME NEW e \in Docs, e = d
          PROVE  Library!Announce(e)
        <3>1. Listing(e) = "removed" \/ (Listing(e) = "listed" /\ e \in artifacts)
              BY <2>1, <2>4 DEF Listing, TypeOK, RowsOK
        <3>2. UNCHANGED <<content, disowned, originals, artifacts>>
              BY <1>3 DEF MarkCompleted, inputVars, storageVars
        <3> QED BY <2>2, <2>3, <2>4, <3>1, <3>2 DEF Library!Announce
    <2> QED BY <2>1, <2>4 DEF Library!Next
<1>4. CASE UNCHANGED <<rowVars, inputVars, storageVars>>
      BY <1>4, LibraryStutter DEF rowVars, inputVars
<1> QED BY <1>1, <1>2, <1>3, <1>4
        DEF TaskStep, Fetch, Load, StorageError, UnexpectedError, Retry, OnFailure, Ack

\* With one API process the pipeline implements the library: no interleaving
\* shows a user more than one catalogue change or storage change at a time, in
\* the library's order.
THEOREM Refinement ==
    ASSUME OneProcess
    PROVE  Spec => ImplementsLibrary
<1>1. Init => Library!Init
      BY DEF Init, Library!Init, Listing
<1>2. TypeOK /\ StorageInv /\ UploadInv /\ [Next]_vars => [Library!Next]_(Library!vars)
    <2> SUFFICES ASSUME TypeOK, StorageInv, UploadInv, [Next]_vars
                 PROVE  [Library!Next]_(Library!vars)
        OBVIOUS
    <2>1. ASSUME NEW c \in Clients, RequestStep(c)
          PROVE  [Library!Next]_(Library!vars)
          BY <2>1, RequestImplements
    <2>2. ASSUME NEW w \in Workers, TaskStep(w)
          PROVE  [Library!Next]_(Library!vars)
          BY <2>2, TaskImplements
    <2>3. CASE UNCHANGED <<rowVars, content, disowned, storageVars>>
          BY <2>3, LibraryStutter DEF rowVars
    <2> QED BY <2>1, <2>2, <2>3
            DEF Next, UploadAdmit, ReprocessBegin, DeleteBegin, Deliveries, Deliver,
                HandlerLost, WorkerCrash, ApiCrash, RemoveCourse, vars, inputVars
<1> QED BY <1>1, <1>2, UploadInvariant, PTL DEF Spec, ImplementsLibrary, Library!Spec

=============================================================================
