--------------------------- MODULE Planner_proofs ---------------------------
(* What is proved of semesters, courses and tasks for every number of         *)
(* students, rows, threads and requests, whatever the bodies sent.            *)
EXTENDS Planner, FiniteSetTheorems, TLAPS

USE KeysAreNumbers, DatesAreNumbers, DocumentsAreNumbered, NullIsNothing

-----------------------------------------------------------------------------
\* A table with room has a first free key.
LEMMA FirstFreeIsFree ==
  ASSUME NEW rows, DOMAIN rows \subseteq Nat, HasRoom(rows)
  PROVE  FirstFree(rows) \in DOMAIN rows /\ rows[FirstFree(rows)] = Null
<1> DEFINE free == {i \in DOMAIN rows : rows[i] = Null}
<1>1. free \subseteq Nat /\ free # {}
      BY DEF HasRoom
<1>2. \A j, k \in Nat : j < k => <<j, k>> \in OpToRel(<, Nat)
      BY DEF OpToRel
<1>3. PICK i \in free : \A j \in free : <<j, i>> \notin OpToRel(<, Nat)
      BY <1>1, NatLessThanWellFounded, WFMin, Zenon
<1>4. \A j \in free : ~(j < i)
      BY <1>1, <1>2, <1>3, Zenon
<1>5. \A j \in free : i <= j
      BY <1>1, <1>4
<1>6. \E k \in DOMAIN rows : rows[k] = Null /\ \A j \in DOMAIN rows : rows[j] = Null => k <= j
      BY <1>5
<1> QED BY <1>6 DEF FirstFree

-----------------------------------------------------------------------------
(* Requests. *)

\* A request is a record of these seven fields.
Shape(r) ==
  r \in [step: {r.step}, op: {r.op}, user: {r.user}, id: {r.id},
         data: {r.data}, row: {r.row}, error: {r.error}]

RequestsOK ==
  /\ requests = [p \in Requests |-> requests[p]]
  /\ \A p \in Requests : Shape(requests[p])

LEMMA ShapeIdle ==
  /\ Shape(Idle) /\ Idle.step = "idle"
  /\ \A e : Shape([Idle EXCEPT !.error = e]) /\ [Idle EXCEPT !.error = e].step = "idle"
            /\ [Idle EXCEPT !.error = e].error = e
BY DEF Shape, Idle

\* What a request that goes on, or ends, becomes.
LEMMA GoesFields ==
  ASSUME RequestsOK, NEW p \in Requests, NEW row, NEW step, Goes(p, row, step)
  PROVE  /\ RequestsOK'
         /\ \A q \in Requests \ {p} : requests'[q] = requests[q]
         /\ requests'[p].step = step /\ requests'[p].row = row
         /\ requests'[p].op = requests[p].op /\ requests'[p].user = requests[p].user
         /\ requests'[p].id = requests[p].id /\ requests'[p].data = requests[p].data
         /\ requests'[p].error = requests[p].error
<1> DEFINE s == [[requests[p] EXCEPT !.step = step] EXCEPT !.row = row]
<1>1. /\ Shape(s) /\ s.step = step /\ s.row = row
      /\ s.op = requests[p].op /\ s.user = requests[p].user
      /\ s.id = requests[p].id /\ s.data = requests[p].data /\ s.error = requests[p].error
    <2>1. Shape(requests[p])
          BY DEF RequestsOK
    <2> QED BY <2>1 DEF Shape
<1>2. requests' = [requests EXCEPT ![p] = s]
      BY DEF Goes, RequestsOK
<1> HIDE DEF s
<1> QED BY <1>1, <1>2 DEF RequestsOK

LEMMA EndsFields ==
  ASSUME RequestsOK, NEW p \in Requests, NEW e, Ends(p, e)
  PROVE  /\ RequestsOK'
         /\ \A q \in Requests \ {p} : requests'[q] = requests[q]
         /\ requests'[p].step = "idle" /\ requests'[p].error = e
<1> DEFINE s == [Idle EXCEPT !.error = e]
<1>1. Shape(s) /\ s.step = "idle" /\ s.error = e
      BY ShapeIdle
<1>2. requests' = [requests EXCEPT ![p] = s]
      BY DEF Ends
<1> HIDE DEF s
<1> QED BY <1>1, <1>2 DEF RequestsOK

-----------------------------------------------------------------------------
(* Bodies and rows. *)

LEMMA SemesterPatchFields ==
  ASSUME NEW d \in SemesterPatches
  PROVE  /\ DOMAIN d \subseteq {"name", "start", "end", "status"}
         /\ "name" \in DOMAIN d => d.name \in Names \cup {Null}
         /\ "start" \in DOMAIN d => d.start \in Dates \cup {Null}
         /\ "end" \in DOMAIN d => d.end \in Dates \cup {Null}
         /\ "status" \in DOMAIN d => d.status \in {"ACTIVE", "UPCOMING", Null}
<1>1. Patch(d, [name |-> Names, start |-> Dates, end |-> Dates, status |-> {"ACTIVE", "UPCOMING"}])
      BY BodiesFitSchemas
<1> QED BY <1>1 DEF Patch

LEMMA CoursePatchFields ==
  ASSUME NEW d \in CoursePatches
  PROVE  /\ DOMAIN d \subseteq {"name", "semester", "code", "credits", "status"}
         /\ "semester" \in DOMAIN d => d.semester \in SemesterIds \cup {Null}
         /\ "code" \in DOMAIN d => d.code \in Codes \cup {Null}
         /\ "credits" \in DOMAIN d => d.credits \in Credits \cup {Null}
         /\ "status" \in DOMAIN d => d.status \in {"ACTIVE", "UPCOMING", Null}
<1>1. Patch(d, [name |-> {Null}, semester |-> SemesterIds, code |-> Codes,
                credits |-> Credits, status |-> {"ACTIVE", "UPCOMING"}])
      BY BodiesFitSchemas
<1> QED BY <1>1 DEF Patch

LEMMA TaskPatchFields ==
  ASSUME NEW d \in TaskPatches
  PROVE  /\ DOMAIN d \subseteq {"status", "document"}
         /\ "status" \in DOMAIN d => d.status \in TaskStatuses \cup {Null}
<1>1. Patch(d, [status |-> TaskStatuses, document |-> DocumentIds])
      BY BodiesFitSchemas
<1> QED BY <1>1 DEF Patch

\* Rows as creations make them: the body, and what the service adds.
SemesterDefaults(row, u) == DOMAIN row = {"owner", "live"} /\ row.owner = u /\ row.live = TRUE
SemesterMade(data, u, s) ==
  /\ s \in SemesterRows /\ s.owner = u /\ s.live /\ s.name = data.name
  /\ s.status = data.status /\ s.start = data.start /\ s.end = data.end

LEMMA SemesterMakes ==
  ASSUME NEW data \in SemesterDrafts, NEW u \in Users, NEW row, SemesterDefaults(row, u)
  PROVE  SemesterMade(data, u, Over(data, row))
<1>1. data \in [name: Names, start: Dates, end: Dates, status: {"ACTIVE", "UPCOMING"}]
      BY BodiesFitSchemas
<1> QED BY <1>1 DEF SemesterMade, SemesterDefaults, Over, SemesterRows

CourseDefaults(row, i, u) ==
  DOMAIN row = {"semester", "live", "creator"} /\ row.semester = i /\ row.live = TRUE /\ row.creator = u
CourseMade(data, i, u, s) ==
  /\ s \in CourseRows /\ s.semester = i /\ s.creator = u /\ s.live
  /\ s.code = data.code /\ s.status = data.status /\ s.credits = data.credits

LEMMA CourseMakes ==
  ASSUME NEW data \in CourseDrafts, NEW i \in SemesterIds, NEW u \in Users, NEW row, CourseDefaults(row, i, u),
         data.credits > 0
  PROVE  CourseMade(data, i, u, Over(data, row))
<1>1. data \in [code: Codes, credits: Credits, status: {"ACTIVE", "UPCOMING"}]
      BY BodiesFitSchemas
<1>2. data.credits \in Credits \ {0}
      BY <1>1 DEF Credits
<1> QED BY <1>1, <1>2 DEF CourseMade, CourseDefaults, Over, CourseRows

TaskDefaults(row, c) ==
  DOMAIN row = {"course", "completed_at", "live"} /\ row.course = c /\ row.completed_at = FALSE /\ row.live = TRUE
TaskMade(data, s) == s \in TaskRows /\ s.status = data.status /\ ~s.completed_at

LEMMA TaskMakes ==
  ASSUME NEW data \in TaskDrafts, NEW c \in CourseIds, NEW row, TaskDefaults(row, c),
         TaskStorable(Over(data, row))
  PROVE  TaskMade(data, Over(data, row))
<1>1. data \in [status: TaskStatuses, document: DocumentIds \cup {Null}]
      BY BodiesFitSchemas
<1>2. Over(data, row).document = data.document
      BY <1>1 DEF Over
<1>3. data.document \in Documents \cup {Null}
      BY <1>2 DEF TaskStorable
<1> QED BY <1>1, <1>3 DEF TaskMade, TaskDefaults, Over, TaskRows

\* Rows as updates leave them: what a patch sends against the row loaded.
SemesterSaved(now, loaded, data, s) ==
  /\ s \in SemesterRows /\ s.owner = now.owner /\ s.live = now.live
  /\ now = loaded => s.start = Over(data, loaded).start /\ s.end = Over(data, loaded).end

LEMMA SemesterSaves ==
  ASSUME NEW now \in SemesterRows, NEW loaded \in SemesterRows, NEW data \in SemesterPatches, ~HasNull(data)
  PROVE  SemesterSaved(now, loaded, data, Flushed(now, loaded, data))
<1>1. /\ DOMAIN data \subseteq {"name", "start", "end", "status"}
      /\ "name" \in DOMAIN data => data.name \in Names
      /\ "start" \in DOMAIN data => data.start \in Dates
      /\ "end" \in DOMAIN data => data.end \in Dates
      /\ "status" \in DOMAIN data => data.status \in {"ACTIVE", "UPCOMING"}
      BY SemesterPatchFields DEF HasNull
<1> DEFINE s == Flushed(now, loaded, data)
<1>2. s \in SemesterRows /\ s.owner = now.owner /\ s.live = now.live
      BY <1>1 DEF Flushed, Differs, SemesterRows
<1>3. now = loaded => s.start = Over(data, loaded).start /\ s.end = Over(data, loaded).end
      BY <1>1 DEF Flushed, Differs, SemesterRows, Over
<1> QED BY <1>2, <1>3 DEF SemesterSaved

CourseSaved(now, data, s) ==
  /\ s \in CourseRows /\ s.creator = now.creator /\ s.live = now.live
  /\ s.semester = now.semester \/ ("semester" \in DOMAIN data /\ s.semester = data.semester)

LEMMA CourseSaves ==
  ASSUME NEW now \in CourseRows, NEW loaded \in CourseRows, NEW data \in CoursePatches, ~HasNull(data),
         Flushed(now, loaded, data).credits > 0
  PROVE  CourseSaved(now, data, Flushed(now, loaded, data))
<1>1. /\ DOMAIN data \subseteq {"name", "semester", "code", "credits", "status"}
      /\ "semester" \in DOMAIN data => data.semester \in SemesterIds
      /\ "code" \in DOMAIN data => data.code \in Codes
      /\ "credits" \in DOMAIN data => data.credits \in Credits
      /\ "status" \in DOMAIN data => data.status \in {"ACTIVE", "UPCOMING"}
      BY CoursePatchFields DEF HasNull
<1> DEFINE s == Flushed(now, loaded, data)
<1>2. s.credits \in Credits \ {0}
    <2>1. s.credits \in Credits
          BY <1>1 DEF Flushed, CourseRows
    <2> QED BY <2>1 DEF Credits
<1> QED BY <1>1, <1>2 DEF Flushed, Differs, CourseRows, CourseSaved

\* The attributes that the requests on a task send.
LEMMA StatusSaved ==
  ASSUME NEW now \in TaskRows, NEW loaded \in TaskRows, NEW data, DOMAIN data \subseteq {"status", "document"},
         "status" \in DOMAIN data => data.status \in (TaskStatuses \cup {Null}) \ {"COMPLETED"},
         TaskStorable(Flushed(now, loaded, data))
  PROVE  LET s == Flushed(now, loaded, data) IN
         /\ s \in TaskRows /\ s.completed_at = now.completed_at
         /\ s.status = now.status \/ s.status # "COMPLETED"
<1> DEFINE s == Flushed(now, loaded, data)
<1>1. s \in TaskRows /\ s.completed_at = now.completed_at
    <2>1. s.document \in Documents \cup {Null} /\ s.status # Null
          BY DEF TaskStorable
    <2>2. s.status \in TaskStatuses
          BY <2>1 DEF Flushed, Differs, TaskRows
    <2> QED BY <2>1, <2>2 DEF Flushed, Differs, TaskRows
<1>2. s.status = now.status \/ s.status # "COMPLETED"
      BY DEF Flushed, Differs, TaskRows
<1> QED BY <1>1, <1>2

\* What keeps the database from storing a task comes from the body.
LEMMA StorableKept ==
  ASSUME NEW now \in TaskRows, NEW loaded, NEW data, ~TaskStorable(Flushed(now, loaded, data))
  PROVE  \/ "status" \in DOMAIN data /\ data.status = Null
         \/ "document" \in DOMAIN data /\ data.document \notin Documents \cup {Null}
<1> DEFINE s == Flushed(now, loaded, data)
<1>1. /\ s.status = now.status \/ ("status" \in DOMAIN data /\ s.status = data.status)
      /\ s.document = now.document \/ ("document" \in DOMAIN data /\ s.document = data.document)
      BY DEF Flushed, TaskRows
<1>2. now.status # Null /\ now.document \in Documents \cup {Null}
      BY DEF TaskRows
<1> QED BY <1>1, <1>2 DEF TaskStorable

LEMMA CompletionSaved ==
  ASSUME NEW now \in TaskRows, NEW loaded \in TaskRows, NEW data, DOMAIN data = {"status", "completed_at"},
         data.status = "COMPLETED", data.completed_at = TRUE, loaded.status # "COMPLETED"
  PROVE  LET s == Flushed(now, loaded, data) IN s \in TaskRows /\ s.completed_at /\ s.status = "COMPLETED"
BY DEF Flushed, Differs, TaskRows, TaskStatuses

LEMMA ReopeningSaved ==
  ASSUME NEW now \in TaskRows, NEW loaded \in TaskRows, NEW data, DOMAIN data = {"status", "completed_at"},
         data.status = "TODO", data.completed_at = FALSE, loaded.status = "COMPLETED", loaded.completed_at
  PROVE  LET s == Flushed(now, loaded, data) IN s \in TaskRows /\ ~s.completed_at /\ s.status = "TODO"
BY DEF Flushed, Differs, TaskRows, TaskStatuses

LEMMA DeletionSaved ==
  ASSUME NEW now \in TaskRows, NEW loaded \in TaskRows, NEW data, DOMAIN data = {"live"}, data.live = FALSE
  PROVE  LET s == Flushed(now, loaded, data) IN
         s \in TaskRows /\ s.completed_at = now.completed_at /\ s.status = now.status
BY DEF Flushed, Differs, TaskRows, TaskStatuses

-----------------------------------------------------------------------------
(* The invariant.  Rows are what the properties say of them; a request is    *)
(* sent with what its route takes, and what it has looked up stays true: a   *)
(* semester keeps its owner, a course its creator, and no row is removed.    *)

SemesterOK(i, u) == i \in SemesterIds /\ semesters[i] # Null /\ semesters[i].owner = u
CourseOK(c, u) == c \in CourseIds /\ courses[c] # Null /\ courses[c].creator = u
TaskOK(t) == t \in TaskIds /\ tasks[t] # Null

CoursesOwned == \A c \in CourseIds : courses[c] # Null => SemesterOK(courses[c].semester, courses[c].creator)

TaskOps == {"update_task", "complete_task", "reopen_task", "delete_task"}

ArgsOK(r) ==
  /\ r.user \in Users
  /\ r.op = "create_semester" => r.data \in SemesterDrafts /\ r.id = Null
  /\ r.op = "update_semester" => r.data \in SemesterPatches
  /\ r.op = "create_course" => r.data \in CourseDrafts
  /\ r.op = "update_course" => r.data \in CoursePatches
  /\ r.op = "create_task" => r.data \in TaskDrafts
  /\ r.op = "update_task" => r.data \in TaskPatches
  /\ r.op \in {"create_course", "update_semester", "delete_semester"} => r.id \in SemesterIds
  /\ r.op \in {"create_task", "update_course", "delete_course"} => r.id \in CourseIds
  /\ r.op \in TaskOps => r.id \in TaskIds

Holds(op, user, id, data, row) ==
  /\ op = "create_semester" => data.start < data.end
  /\ op = "update_semester" =>
       /\ row \in SemesterRows /\ ~HasNull(data)
       /\ Over(data, row).start < Over(data, row).end
  /\ op \in {"update_semester", "delete_semester", "create_course"} => SemesterOK(id, user)
  /\ op = "update_course" =>
       /\ row \in CourseRows
       /\ "semester" \in DOMAIN data => SemesterOK(data.semester, user)
  /\ op \in {"update_course", "delete_course"} => CourseOK(id, user)
  /\ op = "create_task" => data.status # "COMPLETED"
  /\ op \in TaskOps => TaskOK(id) /\ row \in TaskRows
  /\ op = "update_task" /\ "status" \in DOMAIN data => data.status # "COMPLETED"
  /\ op = "complete_task" => row.status # "COMPLETED"
  /\ op = "update_task" => row.status # "COMPLETED"
  /\ op = "reopen_task" => row.status = "COMPLETED" /\ row.completed_at

Facts(r) ==
  /\ r.step # "idle" => ArgsOK(r)
  /\ r.step \in {"check", "write"} => Holds(r.op, r.user, r.id, r.data, r.row)

RowsInv ==
  /\ TypeOK /\ CoursesOwned /\ OnlyRacesBreakRows
  /\ SemesterIndex(semesters) /\ CourseIndex(courses)

PlannerInv == RowsInv /\ RequestsOK /\ \A p \in Requests : Facts(requests[p])

Stays ==
  /\ \A i \in SemesterIds : semesters[i] # Null => semesters'[i] # Null /\ semesters'[i].owner = semesters[i].owner
  /\ \A c \in CourseIds : courses[c] # Null => courses'[c] # Null /\ courses'[c].creator = courses[c].creator
  /\ \A t \in TaskIds : tasks[t] # Null => tasks'[t] # Null

\* What a request holds, it holds after the steps of others.
LEMMA HoldsStays ==
  ASSUME NEW op, NEW user, NEW id, NEW data, NEW row, Holds(op, user, id, data, row), Stays
  PROVE  Holds(op, user, id, data, row)'
<1>1. \A i, u : SemesterOK(i, u) => SemesterOK(i, u)'
      BY DEF SemesterOK, Stays
<1>2. \A c, u : CourseOK(c, u) => CourseOK(c, u)'
      BY DEF CourseOK, Stays
<1>3. \A t : TaskOK(t) => TaskOK(t)'
      BY DEF TaskOK, Stays
<1> QED BY <1>1, <1>2, <1>3 DEF Holds

LEMMA StepKeeps ==
  ASSUME PlannerInv, NEW p \in Requests, RowsInv', RequestsOK', Stays, Facts(requests[p])',
         \A q \in Requests \ {p} : requests'[q] = requests[q]
  PROVE  PlannerInv'
<1>1. ASSUME NEW q \in Requests, q # p PROVE Facts(requests[q])'
    <2>1. Facts(requests[q]) /\ requests'[q] = requests[q]
          BY <1>1 DEF PlannerInv
    <2>2. requests[q].step # "idle" => ArgsOK(requests[q])'
          BY <2>1 DEF Facts, ArgsOK
    <2>3. requests[q].step \in {"check", "write"} =>
            Holds(requests[q].op, requests[q].user, requests[q].id, requests[q].data, requests[q].row)'
        <3>1. PICK op, user, id, data, row :
                op = requests[q].op /\ user = requests[q].user /\ id = requests[q].id
                /\ data = requests[q].data /\ row = requests[q].row
              OBVIOUS
        <3>2. CASE requests[q].step \in {"check", "write"}
            <4>1. Holds(op, user, id, data, row)
                  BY <2>1, <3>1, <3>2 DEF Facts
            <4>2. Holds(op, user, id, data, row)'
                  BY <4>1, HoldsStays
            <4> QED BY <2>1, <3>1, <4>2
        <3> QED BY <3>2
    <2> QED BY <2>1, <2>2, <2>3 DEF Facts
<1> QED BY <1>1 DEF PlannerInv

tables == <<semesters, courses, tasks, raced>>

LEMMA SameRows ==
  ASSUME PlannerInv, UNCHANGED tables, asked' \in Nat, uses' = uses
  PROVE  RowsInv' /\ Stays
<1>1. Stays
      BY DEF Stays, tables
<1>2. RowsInv'
      BY DEF PlannerInv, RowsInv, tables, TypeOK, CoursesOwned, SemesterOK, OnlyRacesBreakRows,
         SemesterIndex, CourseIndex
<1> QED BY <1>1, <1>2

\* A request that ends keeps the invariant when the rows do.
LEMMA EndsKeeps ==
  ASSUME PlannerInv, NEW p \in Requests, NEW e, Ends(p, e), RowsInv', Stays
  PROVE  PlannerInv'
<1>1. /\ RequestsOK' /\ \A q \in Requests \ {p} : requests'[q] = requests[q]
      /\ requests'[p].step = "idle"
      BY EndsFields DEF PlannerInv
<1>2. Facts(requests[p])'
      BY <1>1 DEF Facts
<1> QED BY <1>1, <1>2, StepKeeps

LEMMA RefusedKeeps ==
  ASSUME PlannerInv, NEW p \in Requests, NEW e, Refused(p, e)
  PROVE  PlannerInv'
<1>1. UNCHANGED tables /\ asked' \in Nat /\ uses' = uses
      BY DEF Refused, tables, PlannerInv, RowsInv, TypeOK
<1> QED BY <1>1, SameRows, EndsKeeps DEF Refused

\* A request that goes on, holding what it has looked up.
LEMMA GoesKeeps ==
  ASSUME PlannerInv, NEW p \in Requests, NEW row, NEW step \in {"check", "write"}, Goes(p, row, step),
         requests[p].step # "idle",
         Holds(requests[p].op, requests[p].user, requests[p].id, requests[p].data, row)
  PROVE  PlannerInv'
<1>1. UNCHANGED tables /\ asked' \in Nat /\ uses' = uses
      BY DEF Goes, tables, PlannerInv, RowsInv, TypeOK
<1>2. RowsInv' /\ Stays
      BY <1>1, SameRows
<1>3. /\ RequestsOK' /\ \A q \in Requests \ {p} : requests'[q] = requests[q]
      /\ requests'[p].step = step /\ requests'[p].row = row
      /\ requests'[p].op = requests[p].op /\ requests'[p].user = requests[p].user
      /\ requests'[p].id = requests[p].id /\ requests'[p].data = requests[p].data
      BY GoesFields DEF PlannerInv
<1>4. PICK op, user, id, data :
        op = requests[p].op /\ user = requests[p].user /\ id = requests[p].id /\ data = requests[p].data
      OBVIOUS
<1>5. Holds(op, user, id, data, row)'
      BY <1>2, <1>4, HoldsStays
<1>6. ArgsOK(requests[p])'
      BY <1>3 DEF PlannerInv, Facts, ArgsOK
<1>7. Facts(requests[p])'
      BY <1>3, <1>4, <1>5, <1>6 DEF Facts
<1> QED BY <1>2, <1>3, <1>7, StepKeeps

LEMMA InitPlanner == Init => PlannerInv
<1> SUFFICES ASSUME Init PROVE PlannerInv
    OBVIOUS
<1>1. /\ semesters \in [SemesterIds -> SemesterRows \cup {Null}]
      /\ \A i \in SemesterIds : semesters[i] # Null =>
           semesters[i].start = 1 /\ semesters[i].end = 2 /\ semesters[i].status = "UPCOMING"
      BY DEF Init
<1>2. \/ courses = [c \in CourseIds |-> Null]
      \/ \E i \in SemesterIds, k \in Codes :
           /\ semesters[i] \in SemesterRows
           /\ courses = [c \in CourseIds |-> [semester |-> i, code |-> k, credits |-> 3, status |-> "UPCOMING",
                                              live |-> TRUE, creator |-> semesters[i].owner]]
      BY DEF Init
<1>3. /\ courses \in [CourseIds -> CourseRows \cup {Null}] /\ CoursesOwned
      /\ \A c \in CourseIds : courses[c] # Null => courses[c].status = "UPCOMING"
    <2>1. CASE courses = [c \in CourseIds |-> Null]
          BY <2>1 DEF CoursesOwned
    <2>2. ASSUME NEW i \in SemesterIds, NEW k \in Codes, semesters[i] \in SemesterRows,
                 courses = [c \in CourseIds |-> [semester |-> i, code |-> k, credits |-> 3, status |-> "UPCOMING",
                                                 live |-> TRUE, creator |-> semesters[i].owner]]
          PROVE  /\ courses \in [CourseIds -> CourseRows \cup {Null}] /\ CoursesOwned
                 /\ \A c \in CourseIds : courses[c] # Null => courses[c].status = "UPCOMING"
        <3>1. PICK u \in Users : u = semesters[i].owner
              BY <2>2 DEF SemesterRows
        <3> DEFINE s == [semester |-> i, code |-> k, credits |-> 3, status |-> "UPCOMING", live |-> TRUE, creator |-> u]
        <3>2. s \in CourseRows /\ s.semester = i /\ s.creator = u /\ s.status = "UPCOMING"
              BY DEF CourseRows, Credits
        <3>3. \A c \in CourseIds : courses[c] = s
              BY <2>2, <3>1
        <3>4. courses = [c \in CourseIds |-> s]
              BY <2>2, <3>1
        <3> HIDE DEF s
        <3>5. SemesterOK(i, u)
              BY <2>2, <3>1 DEF SemesterOK
        <3> QED BY <3>2, <3>3, <3>4, <3>5 DEF CoursesOwned
    <2> QED BY <1>2, <2>1, <2>2
<1>4. RowsInv
    <2>1. SemesterIndex(semesters) /\ CourseIndex(courses)
          BY <1>1, <1>3 DEF SemesterIndex, CourseIndex
    <2>2. OnlyRacesBreakRows
          BY <1>1 DEF OnlyRacesBreakRows, Init
    <2> QED BY <1>1, <1>3, <2>1, <2>2 DEF Init, RowsInv, TypeOK
<1>5. RequestsOK /\ \A p \in Requests : Facts(requests[p])
      BY ShapeIdle DEF Init, RequestsOK, Facts
<1> QED BY <1>4, <1>5 DEF PlannerInv

LEMMA AskKeeps ==
  ASSUME PlannerInv, NEW p \in Requests, Ask(p)
  PROVE  PlannerInv'
<1>0. PICK op \in uses, u \in Users : \E i \in Targets(op), d \in Bodies(op) :
        requests' = [requests EXCEPT ![p] =
          [Idle EXCEPT !.step = "load", !.op = op, !.user = u, !.id = i, !.data = d]]
      BY DEF Ask
<1>1. PICK i \in Targets(op), d \in Bodies(op) :
        requests' = [requests EXCEPT ![p] =
          [Idle EXCEPT !.step = "load", !.op = op, !.user = u, !.id = i, !.data = d]]
      BY <1>0
<1> DEFINE s == [Idle EXCEPT !.step = "load", !.op = op, !.user = u, !.id = i, !.data = d]
<1>2. Shape(s) /\ s.step = "load" /\ s.op = op /\ s.user = u /\ s.id = i /\ s.data = d
      BY DEF Shape, Idle
<1> HIDE DEF s
<1>3. requests' = [requests EXCEPT ![p] = s]
      BY <1>1 DEF s
<1>4. RequestsOK' /\ requests'[p] = s /\ \A q \in Requests \ {p} : requests'[q] = requests[q]
      BY <1>2, <1>3 DEF PlannerInv, RequestsOK
<1>5. RowsInv' /\ Stays
    <2>1. asked \in Nat
          BY DEF PlannerInv, RowsInv, TypeOK
    <2>2. UNCHANGED tables /\ asked' \in Nat /\ uses' = uses
          BY <2>1 DEF Ask, tables
    <2> QED BY <2>2, SameRows
<1>6. /\ op = "create_semester" => d \in SemesterDrafts /\ i = Null
      /\ op = "update_semester" => d \in SemesterPatches
      /\ op = "create_course" => d \in CourseDrafts
      /\ op = "update_course" => d \in CoursePatches
      /\ op = "create_task" => d \in TaskDrafts
      /\ op = "update_task" => d \in TaskPatches
      BY DEF Bodies, Targets
<1>7. /\ op \in {"create_course", "update_semester", "delete_semester"} => i \in SemesterIds
      /\ op \in {"create_task", "update_course", "delete_course"} => i \in CourseIds
      /\ op \in TaskOps => i \in TaskIds
      BY DEF Targets, TaskOps
<1>8. ArgsOK(s)
      BY <1>2, <1>6, <1>7 DEF ArgsOK
<1>9. Facts(requests[p])'
      BY <1>2, <1>4, <1>8 DEF Facts, ArgsOK
<1> QED BY <1>4, <1>5, <1>9, StepKeeps

\* The semester requests that look something up and go on, or are refused.
LEMMA SemesterLookupKeeps ==
  ASSUME PlannerInv, NEW p \in Requests,
         CreateSemester(p) \/ CheckSemester(p) \/ UpdateSemester(p) \/ DeleteSemester(p)
  PROVE  PlannerInv'
<1> DEFINE r == requests[p]
<1>1. ASSUME NEW e, Refused(p, e) PROVE PlannerInv'
      BY <1>1, RefusedKeeps
<1>2. ASSUME NEW row, NEW step \in {"check", "write"}, Goes(p, row, step), r.step # "idle",
             Holds(r.op, r.user, r.id, r.data, row)
      PROVE  PlannerInv'
      BY <1>2, GoesKeeps
<1>3. Facts(r) /\ RowsInv
      BY DEF PlannerInv
<1>4. \A i, u : OwnedSemester(i, u) => SemesterOK(i, u) /\ semesters[i] \in SemesterRows
      BY <1>3 DEF OwnedSemester, SemesterOK, RowsInv, TypeOK
<1>5. CASE CreateSemester(p)
    <2>1. r.step # "idle" /\ r.op = "create_semester"
          BY <1>5 DEF CreateSemester, At
    <2>2. r.data.start < r.data.end => Holds(r.op, r.user, r.id, r.data, Null)
          BY <2>1 DEF Holds, TaskOps
    <2> QED BY <1>1, <1>2, <1>5, <2>1, <2>2 DEF CreateSemester
<1>6. CASE CheckSemester(p)
    <2>1. r.step # "idle" /\ Holds(r.op, r.user, r.id, r.data, r.row)
          BY <1>3, <1>6 DEF CheckSemester, Facts
    <2> QED BY <1>1, <1>2, <1>6, <2>1 DEF CheckSemester
<1>7. CASE UpdateSemester(p)
    <2>1. r.step # "idle" /\ r.op = "update_semester"
          BY <1>7 DEF UpdateSemester, At
    <2>2. ASSUME OwnedSemester(r.id, r.user), ~HasNull(r.data),
                 Over(r.data, semesters[r.id]).start < Over(r.data, semesters[r.id]).end
          PROVE  Holds(r.op, r.user, r.id, r.data, semesters[r.id])
        <3>1. SemesterOK(r.id, r.user) /\ semesters[r.id] \in SemesterRows
              BY <1>4, <2>2
        <3> QED BY <2>1, <2>2, <3>1 DEF Holds, TaskOps
    <2> QED BY <1>1, <1>2, <1>7, <2>1, <2>2 DEF UpdateSemester
<1>8. CASE DeleteSemester(p)
    <2>1. r.step # "idle" /\ r.op = "delete_semester"
          BY <1>8 DEF DeleteSemester, At
    <2>2. OwnedSemester(r.id, r.user) => Holds(r.op, r.user, r.id, r.data, semesters[r.id])
          BY <1>4, <2>1 DEF Holds, TaskOps
    <2> QED BY <1>1, <1>2, <1>8, <2>1, <2>2 DEF DeleteSemester
<1> QED BY <1>5, <1>6, <1>7, <1>8

LEMMA CourseLookupKeeps ==
  ASSUME PlannerInv, NEW p \in Requests,
         CreateCourse(p) \/ CheckCourse(p) \/ UpdateCourse(p) \/ DeleteCourse(p)
  PROVE  PlannerInv'
<1> DEFINE r == requests[p]
<1>1. ASSUME NEW e, Refused(p, e) PROVE PlannerInv'
      BY <1>1, RefusedKeeps
<1>2. ASSUME NEW row, NEW step \in {"check", "write"}, Goes(p, row, step), r.step # "idle",
             Holds(r.op, r.user, r.id, r.data, row)
      PROVE  PlannerInv'
      BY <1>2, GoesKeeps
<1>3. Facts(r) /\ RowsInv
      BY DEF PlannerInv
<1>4. \A i, u : OwnedSemester(i, u) => SemesterOK(i, u)
      BY DEF OwnedSemester, SemesterOK
<1>5. \A c \in CourseIds : \A u : OwnedCourse(c, u) => CourseOK(c, u) /\ courses[c] \in CourseRows
      BY <1>3, <1>4 DEF OwnedCourse, CourseOK, SemesterOK, RowsInv, TypeOK, CoursesOwned
<1>6. CASE CreateCourse(p)
    <2>1. r.step # "idle" /\ r.op = "create_course"
          BY <1>6 DEF CreateCourse, At
    <2>2. OwnedSemester(r.id, r.user) => Holds(r.op, r.user, r.id, r.data, Null)
          BY <1>4, <2>1 DEF Holds, TaskOps
    <2> QED BY <1>1, <1>2, <1>6, <2>1, <2>2 DEF CreateCourse
<1>7. CASE CheckCourse(p)
    <2>1. r.step # "idle" /\ Holds(r.op, r.user, r.id, r.data, r.row)
          BY <1>3, <1>7 DEF CheckCourse, Facts
    <2> QED BY <1>1, <1>2, <1>7, <2>1 DEF CheckCourse
<1>8. CASE UpdateCourse(p)
    <2>1. r.step # "idle" /\ r.op = "update_course" /\ r.id \in CourseIds
          BY <1>3, <1>8 DEF UpdateCourse, At, Facts, ArgsOK
    <2>2. ASSUME OwnedCourse(r.id, r.user),
                 "semester" \in DOMAIN r.data => OwnedSemester(Over(r.data, courses[r.id]).semester, r.user)
          PROVE  Holds(r.op, r.user, r.id, r.data, courses[r.id])
        <3>1. CourseOK(r.id, r.user) /\ courses[r.id] \in CourseRows
              BY <1>5, <2>1, <2>2
        <3>2. "semester" \in DOMAIN r.data => SemesterOK(r.data.semester, r.user)
              BY <1>4, <2>2 DEF Over
        <3> QED BY <2>1, <3>1, <3>2 DEF Holds, TaskOps
    <2> QED BY <1>1, <1>2, <1>8, <2>1, <2>2 DEF UpdateCourse
<1>9. CASE DeleteCourse(p)
    <2>1. r.step # "idle" /\ r.op = "delete_course" /\ r.id \in CourseIds
          BY <1>3, <1>9 DEF DeleteCourse, At, Facts, ArgsOK
    <2>2. OwnedCourse(r.id, r.user) => Holds(r.op, r.user, r.id, r.data, courses[r.id])
          BY <1>5, <2>1 DEF Holds, TaskOps
    <2> QED BY <1>1, <1>2, <1>9, <2>1, <2>2 DEF DeleteCourse
<1> QED BY <1>6, <1>7, <1>8, <1>9

LEMMA TaskLookupKeeps ==
  ASSUME PlannerInv, NEW p \in Requests,
         CreateTask(p) \/ UpdateTask(p) \/ CompleteTask(p) \/ ReopenTask(p) \/ DeleteTask(p)
  PROVE  PlannerInv'
<1> DEFINE r == requests[p]
<1>1. ASSUME NEW e, Refused(p, e) PROVE PlannerInv'
      BY <1>1, RefusedKeeps
<1>2. ASSUME NEW row, Goes(p, row, "write"), r.step # "idle", Holds(r.op, r.user, r.id, r.data, row)
      PROVE  PlannerInv'
      BY <1>2, GoesKeeps
<1>3. Facts(r) /\ RowsInv
      BY DEF PlannerInv
<1>4. \A t \in TaskIds : \A u : OwnedTask(t, u) => TaskOK(t) /\ tasks[t] \in TaskRows
      BY <1>3 DEF OwnedTask, TaskOK, RowsInv, TypeOK
<1>5. CASE CreateTask(p)
    <2>1. r.step # "idle" /\ r.op = "create_task"
          BY <1>5 DEF CreateTask, At
    <2>2. r.data.status # "COMPLETED" => Holds(r.op, r.user, r.id, r.data, Null)
          BY <2>1 DEF Holds, TaskOps
    <2> QED BY <1>1, <1>2, <1>5, <2>1, <2>2 DEF CreateTask
<1>6. CASE UpdateTask(p)
    <2>1. r.step # "idle" /\ r.op = "update_task" /\ r.id \in TaskIds
          BY <1>3, <1>6 DEF UpdateTask, At, Facts, ArgsOK, TaskOps
    <2>2. ASSUME OwnedTask(r.id, r.user), tasks[r.id].status # "COMPLETED",
                 ~("status" \in DOMAIN r.data /\ r.data.status = "COMPLETED")
          PROVE  Holds(r.op, r.user, r.id, r.data, tasks[r.id])
          BY <1>4, <2>1, <2>2 DEF Holds, TaskOps
    <2> QED BY <1>1, <1>2, <1>6, <2>1, <2>2 DEF UpdateTask
<1>7. CASE CompleteTask(p)
    <2>1. r.step # "idle" /\ r.op = "complete_task" /\ r.id \in TaskIds
          BY <1>3, <1>7 DEF CompleteTask, At, Facts, ArgsOK, TaskOps
    <2>2. OwnedTask(r.id, r.user) /\ tasks[r.id].status \in {"TODO", "IN_PROGRESS"} =>
             Holds(r.op, r.user, r.id, r.data, tasks[r.id])
          BY <1>4, <2>1 DEF Holds, TaskOps
    <2> QED BY <1>1, <1>2, <1>7, <2>1, <2>2 DEF CompleteTask
<1>8. CASE ReopenTask(p)
    <2>1. r.step # "idle" /\ r.op = "reopen_task" /\ r.id \in TaskIds
          BY <1>3, <1>8 DEF ReopenTask, At, Facts, ArgsOK, TaskOps
    <2>2. OwnedTask(r.id, r.user) /\ tasks[r.id].status = "COMPLETED" =>
             Holds(r.op, r.user, r.id, r.data, tasks[r.id])
        <3>1. TaskOK(r.id) /\ tasks[r.id].status = "COMPLETED" => tasks[r.id].completed_at
              BY <1>3 DEF RowsInv, OnlyRacesBreakRows, TaskOK
        <3> QED BY <1>4, <2>1, <3>1 DEF Holds, TaskOps
    <2> QED BY <1>1, <1>2, <1>8, <2>1, <2>2 DEF ReopenTask
<1>9. CASE DeleteTask(p)
    <2>1. r.step # "idle" /\ r.op = "delete_task" /\ r.id \in TaskIds
          BY <1>3, <1>9 DEF DeleteTask, At, Facts, ArgsOK, TaskOps
    <2>2. OwnedTask(r.id, r.user) => Holds(r.op, r.user, r.id, r.data, tasks[r.id])
          BY <1>4, <2>1 DEF Holds, TaskOps
    <2> QED BY <1>1, <1>2, <1>9, <2>1, <2>2 DEF DeleteTask
<1> QED BY <1>5, <1>6, <1>7, <1>8, <1>9
-----------------------------------------------------------------------------
(* Statements that write a row. *)

\* A semester's row is inserted or replaced, its owner kept.
LEMMA SemesterWritten ==
  ASSUME PlannerInv, NEW i \in SemesterIds, NEW s \in SemesterRows,
         semesters' = [semesters EXCEPT ![i] = s], UNCHANGED <<courses, tasks, asked, uses>>,
         semesters[i] # Null => s.owner = semesters[i].owner,
         SemesterIndex(semesters'), raced \subseteq raced',
         s.start >= s.end => <<"semester", i>> \in raced'
  PROVE  RowsInv' /\ Stays
<1>1. /\ TypeOK /\ CoursesOwned /\ OnlyRacesBreakRows /\ CourseIndex(courses)
      BY DEF PlannerInv, RowsInv
<1>2. /\ semesters'[i] = s /\ s # Null
      /\ \A j \in SemesterIds \ {i} : semesters'[j] = semesters[j]
      BY <1>1 DEF TypeOK
<1>3. TypeOK'
      BY <1>1 DEF TypeOK
<1>4. Stays
      BY <1>2 DEF Stays
<1>5. \A j, u : SemesterOK(j, u) => SemesterOK(j, u)'
      BY <1>4 DEF SemesterOK, Stays
<1>6. CoursesOwned'
      BY <1>1, <1>5 DEF CoursesOwned
<1>7. OnlyRacesBreakRows'
      BY <1>1, <1>2 DEF OnlyRacesBreakRows
<1>8. CourseIndex(courses)' /\ SemesterIndex(semesters)'
      BY <1>1 DEF CourseIndex, SemesterIndex
<1> QED BY <1>3, <1>4, <1>6, <1>7, <1>8 DEF RowsInv

\* A course's row is inserted or replaced, its creator kept and its semester
\* the creator's.
LEMMA CourseWritten ==
  ASSUME PlannerInv, NEW c \in CourseIds, NEW s \in CourseRows,
         courses' = [courses EXCEPT ![c] = s], UNCHANGED <<semesters, tasks, asked, uses>>,
         courses[c] # Null => s.creator = courses[c].creator,
         SemesterOK(s.semester, s.creator), CourseIndex(courses'), raced \subseteq raced'
  PROVE  RowsInv' /\ Stays
<1>1. /\ TypeOK /\ CoursesOwned /\ OnlyRacesBreakRows /\ SemesterIndex(semesters)
      BY DEF PlannerInv, RowsInv
<1>2. /\ courses'[c] = s /\ s # Null
      /\ \A d \in CourseIds \ {c} : courses'[d] = courses[d]
      BY <1>1 DEF TypeOK
<1>3. TypeOK'
      BY <1>1 DEF TypeOK
<1>4. Stays
      BY <1>2 DEF Stays
<1>5. \A j, u : SemesterOK(j, u) => SemesterOK(j, u)'
      BY DEF SemesterOK
<1>6. CoursesOwned'
      BY <1>1, <1>2, <1>5 DEF CoursesOwned
<1>7. OnlyRacesBreakRows'
      BY <1>1 DEF OnlyRacesBreakRows
<1>8. CourseIndex(courses)' /\ SemesterIndex(semesters)'
      BY <1>1 DEF CourseIndex, SemesterIndex
<1> QED BY <1>3, <1>4, <1>6, <1>7, <1>8 DEF RowsInv

\* A task's row is inserted or replaced.
LEMMA TaskWritten ==
  ASSUME PlannerInv, NEW t \in TaskIds, NEW s \in TaskRows,
         tasks' = [tasks EXCEPT ![t] = s], UNCHANGED <<semesters, courses, asked, uses>>,
         raced \subseteq raced', s.status = "COMPLETED" => s.completed_at,
         s.completed_at /\ s.status # "COMPLETED" => <<"task", t>> \in raced'
  PROVE  RowsInv' /\ Stays
<1>1. /\ TypeOK /\ CoursesOwned /\ OnlyRacesBreakRows
      /\ SemesterIndex(semesters) /\ CourseIndex(courses)
      BY DEF PlannerInv, RowsInv
<1>2. /\ tasks'[t] = s /\ s # Null
      /\ \A u \in TaskIds \ {t} : tasks'[u] = tasks[u]
      BY <1>1 DEF TypeOK
<1>3. TypeOK'
      BY <1>1 DEF TypeOK
<1>4. Stays
      BY <1>2 DEF Stays
<1>5. CoursesOwned'
      BY <1>1 DEF CoursesOwned, SemesterOK
<1>6. OnlyRacesBreakRows'
      BY <1>1, <1>2 DEF OnlyRacesBreakRows
<1>7. CourseIndex(courses)' /\ SemesterIndex(semesters)'
      BY <1>1 DEF CourseIndex, SemesterIndex
<1> QED BY <1>3, <1>4, <1>5, <1>6, <1>7 DEF RowsInv

LEMMA InsertSemesterKeeps ==
  ASSUME PlannerInv, NEW p \in Requests, InsertSemester(p)
  PROVE  PlannerInv'
<1> DEFINE r == requests[p]
           i == FirstFree(semesters)
           row == [owner |-> r.user, live |-> TRUE]
           s == Over(r.data, row)
           new == [semesters EXCEPT ![i] = s]
<1>1. CASE Refused(p, "SemesterConflictError")
      BY <1>1, RefusedKeeps
<1>2. CASE /\ SemesterIndex(new) /\ semesters' = new /\ Ends(p, "none")
           /\ UNCHANGED <<courses, tasks, asked, uses, raced>>
    <2>1. /\ r.op = "create_semester" /\ r.step = "write" /\ HasRoom(semesters)
          BY DEF InsertSemester, At
    <2>2. r.user \in Users /\ r.data \in SemesterDrafts /\ r.data.start < r.data.end
          BY <2>1 DEF PlannerInv, Facts, ArgsOK, Holds
    <2>3. SemesterDefaults(row, r.user)
          BY DEF SemesterDefaults
    <2>4. SemesterMade(r.data, r.user, s)
          BY <2>2, <2>3, SemesterMakes
    <2> HIDE DEF s, row
    <2>5. DOMAIN semesters = SemesterIds
          BY DEF PlannerInv, RowsInv, TypeOK
    <2>6. i \in SemesterIds /\ semesters[i] = Null
          BY <2>1, <2>5, FirstFreeIsFree
    <2> HIDE DEF i
    <2>7. s \in SemesterRows /\ ~(s.start >= s.end)
        <3>1. s \in SemesterRows /\ s.start < s.end
              BY <2>2, <2>4 DEF SemesterMade
        <3>2. s.start \in Nat /\ s.end \in Nat
              BY <3>1 DEF SemesterRows
        <3> QED BY <3>1, <3>2
    <2>8. RowsInv' /\ Stays
          BY <1>2, <2>6, <2>7, SemesterWritten
    <2> QED BY <1>2, <2>8, EndsKeeps
<1> QED BY <1>1, <1>2 DEF InsertSemester

LEMMA WriteSemesterKeeps ==
  ASSUME PlannerInv, NEW p \in Requests, WriteSemester(p)
  PROVE  PlannerInv'
<1> DEFINE r == requests[p]
           s == Flushed(semesters[r.id], r.row, r.data)
           new == [semesters EXCEPT ![r.id] = s]
<1>1. CASE Refused(p, "SemesterConflictError")
      BY <1>1, RefusedKeeps
<1>2. CASE /\ SemesterIndex(new) /\ semesters' = new /\ Races(<<"semester", r.id>>, semesters[r.id], r.row)
           /\ Ends(p, "none") /\ UNCHANGED <<courses, tasks, asked, uses>>
    <2>1. r.op = "update_semester" /\ r.step = "write"
          BY DEF WriteSemester, At
    <2>2. /\ r.id \in SemesterIds /\ r.data \in SemesterPatches /\ ~HasNull(r.data)
          /\ r.row \in SemesterRows /\ SemesterOK(r.id, r.user)
          /\ Over(r.data, r.row).start < Over(r.data, r.row).end
          BY <2>1 DEF PlannerInv, Facts, ArgsOK, Holds
    <2>3. semesters[r.id] \in SemesterRows
          BY <2>2 DEF PlannerInv, RowsInv, TypeOK, SemesterOK
    <2>4. SemesterSaved(semesters[r.id], r.row, r.data, s)
          BY <2>2, <2>3, SemesterSaves
    <2> HIDE DEF s
    <2>5. s \in SemesterRows /\ s.owner = semesters[r.id].owner
          BY <2>4 DEF SemesterSaved
    <2>6. raced \subseteq raced' /\ (semesters[r.id] # r.row => <<"semester", r.id>> \in raced')
          BY <1>2 DEF Races
    <2>7. s.start >= s.end => <<"semester", r.id>> \in raced'
        <3>1. semesters[r.id] = r.row => s.start < s.end
              BY <2>2, <2>4 DEF SemesterSaved
        <3>2. s.start \in Nat /\ s.end \in Nat
              BY <2>5 DEF SemesterRows
        <3> QED BY <2>6, <3>1, <3>2
    <2>8. RowsInv' /\ Stays
        <3>1. PICK i \in SemesterIds : i = r.id
              BY <2>2
        <3> QED BY <1>2, <2>5, <2>6, <2>7, <3>1, SemesterWritten
    <2> QED BY <1>2, <2>8, EndsKeeps
<1> QED BY <1>1, <1>2 DEF WriteSemester

LEMMA SoftDeleteSemesterKeeps ==
  ASSUME PlannerInv, NEW p \in Requests, SoftDeleteSemester(p)
  PROVE  PlannerInv'
<1>1. requests[p].op = "delete_semester" /\ requests[p].step = "write"
      BY DEF SoftDeleteSemester, At
<1>2. requests[p].id \in SemesterIds /\ SemesterOK(requests[p].id, requests[p].user)
      BY <1>1 DEF PlannerInv, Facts, ArgsOK, Holds
<1>3. PICK i \in SemesterIds : i = requests[p].id
      BY <1>2
<1>4. /\ semesters \in [SemesterIds -> SemesterRows \cup {Null}] /\ semesters[i] \in SemesterRows
      /\ SemesterIndex(semesters) /\ OnlyRacesBreakRows
      BY <1>2, <1>3 DEF PlannerInv, RowsInv, TypeOK, SemesterOK
<1> DEFINE s == [semesters[i] EXCEPT !.live = FALSE]
<1>5. /\ s \in SemesterRows /\ s.owner = semesters[i].owner /\ ~s.live
      /\ s.start = semesters[i].start /\ s.end = semesters[i].end
      BY <1>4 DEF SemesterRows
<1>6. semesters' = [semesters EXCEPT ![i] = s]
      BY <1>3 DEF SoftDeleteSemester
<1> HIDE DEF s
<1>7. SemesterIndex(semesters')
    <2>1. /\ semesters'[i] = s /\ \A j \in SemesterIds \ {i} : semesters'[j] = semesters[j]
          /\ DOMAIN semesters' = SemesterIds /\ DOMAIN semesters = SemesterIds
          BY <1>4, <1>6
    <2> QED BY <1>4, <1>5, <2>1 DEF SemesterIndex
<1>8. s.start >= s.end => <<"semester", i>> \in raced
      BY <1>2, <1>3, <1>4, <1>5 DEF OnlyRacesBreakRows, SemesterOK
<1>9. UNCHANGED <<courses, tasks, asked, uses, raced>> /\ Ends(p, "none")
      BY DEF SoftDeleteSemester
<1>10. RowsInv' /\ Stays
      BY <1>5, <1>6, <1>7, <1>8, <1>9, SemesterWritten
<1> QED BY <1>9, <1>10, EndsKeeps

LEMMA InsertCourseKeeps ==
  ASSUME PlannerInv, NEW p \in Requests, InsertCourse(p)
  PROVE  PlannerInv'
<1> DEFINE r == requests[p]
           c == FirstFree(courses)
           row == [semester |-> r.id, live |-> TRUE, creator |-> r.user]
           s == Over(r.data, row)
           new == [courses EXCEPT ![c] = s]
<1>1. CASE Refused(p, "CourseConflictError")
      BY <1>1, RefusedKeeps
<1>2. CASE /\ r.data.credits > 0 /\ CourseIndex(new) /\ courses' = new /\ Ends(p, "none")
           /\ UNCHANGED <<semesters, tasks, asked, uses, raced>>
    <2>1. /\ r.op = "create_course" /\ r.step = "write" /\ HasRoom(courses)
          BY DEF InsertCourse, At
    <2>2. /\ r.user \in Users /\ r.data \in CourseDrafts /\ r.id \in SemesterIds
          /\ SemesterOK(r.id, r.user)
          BY <2>1 DEF PlannerInv, Facts, ArgsOK, Holds
    <2>3. CourseDefaults(row, r.id, r.user)
          BY DEF CourseDefaults
    <2>4. CourseMade(r.data, r.id, r.user, s)
          BY <1>2, <2>2, <2>3, CourseMakes
    <2> HIDE DEF s, row
    <2>5. DOMAIN courses = CourseIds
          BY DEF PlannerInv, RowsInv, TypeOK
    <2>6. c \in CourseIds /\ courses[c] = Null
          BY <2>1, <2>5, FirstFreeIsFree
    <2> HIDE DEF c
    <2>7. s \in CourseRows /\ SemesterOK(s.semester, s.creator)
          BY <2>2, <2>4 DEF CourseMade
    <2>8. RowsInv' /\ Stays
          BY <1>2, <2>6, <2>7, CourseWritten
    <2> QED BY <1>2, <2>8, EndsKeeps
<1> QED BY <1>1, <1>2 DEF InsertCourse

LEMMA WriteCourseKeeps ==
  ASSUME PlannerInv, NEW p \in Requests, WriteCourse(p)
  PROVE  PlannerInv'
<1> DEFINE r == requests[p]
           s == Flushed(courses[r.id], r.row, r.data)
           new == [courses EXCEPT ![r.id] = s]
<1>1. CASE Refused(p, "CourseConflictError")
      BY <1>1, RefusedKeeps
<1>2. CASE /\ ~HasNull(r.data) /\ new[r.id].credits > 0 /\ CourseIndex(new) /\ courses' = new
           /\ Races(<<"course", r.id>>, courses[r.id], r.row)
           /\ Ends(p, "none") /\ UNCHANGED <<semesters, tasks, asked, uses>>
    <2>1. r.op = "update_course" /\ r.step = "write"
          BY DEF WriteCourse, At
    <2>2. /\ r.id \in CourseIds /\ r.data \in CoursePatches /\ r.row \in CourseRows
          /\ CourseOK(r.id, r.user)
          /\ "semester" \in DOMAIN r.data => SemesterOK(r.data.semester, r.user)
          BY <2>1 DEF PlannerInv, Facts, ArgsOK, Holds
    <2>3. courses[r.id] \in CourseRows /\ SemesterOK(courses[r.id].semester, courses[r.id].creator)
          BY <2>2 DEF PlannerInv, RowsInv, TypeOK, CoursesOwned, CourseOK
    <2>4. CourseSaved(courses[r.id], r.data, s)
        <3>1. new[r.id] = s
              BY <2>2 DEF PlannerInv, RowsInv, TypeOK
        <3> QED BY <1>2, <2>2, <2>3, <3>1, CourseSaves
    <2> HIDE DEF s
    <2>5. s \in CourseRows /\ s.creator = courses[r.id].creator /\ SemesterOK(s.semester, s.creator)
          BY <2>2, <2>3, <2>4 DEF CourseSaved, CourseOK
    <2>6. raced \subseteq raced'
          BY <1>2 DEF Races
    <2>7. RowsInv' /\ Stays
        <3>1. PICK c \in CourseIds : c = r.id
              BY <2>2
        <3> QED BY <1>2, <2>5, <2>6, <3>1, CourseWritten
    <2> QED BY <1>2, <2>7, EndsKeeps
<1> QED BY <1>1, <1>2 DEF WriteCourse

LEMMA SoftDeleteCourseKeeps ==
  ASSUME PlannerInv, NEW p \in Requests, SoftDeleteCourse(p)
  PROVE  PlannerInv'
<1>1. requests[p].op = "delete_course" /\ requests[p].step = "write"
      BY DEF SoftDeleteCourse, At
<1>2. requests[p].id \in CourseIds /\ CourseOK(requests[p].id, requests[p].user)
      BY <1>1 DEF PlannerInv, Facts, ArgsOK, Holds
<1>3. PICK c \in CourseIds : c = requests[p].id
      BY <1>2
<1>4. /\ courses \in [CourseIds -> CourseRows \cup {Null}] /\ courses[c] \in CourseRows
      /\ CourseIndex(courses) /\ SemesterOK(courses[c].semester, courses[c].creator)
      BY <1>2, <1>3 DEF PlannerInv, RowsInv, TypeOK, CourseOK, CoursesOwned
<1> DEFINE s == [courses[c] EXCEPT !.live = FALSE]
<1>5. /\ s \in CourseRows /\ s.creator = courses[c].creator /\ ~s.live
      /\ s.semester = courses[c].semester
      BY <1>4 DEF CourseRows
<1>6. courses' = [courses EXCEPT ![c] = s]
      BY <1>3 DEF SoftDeleteCourse
<1> HIDE DEF s
<1>7. CourseIndex(courses')
    <2>1. /\ courses'[c] = s /\ \A d \in CourseIds \ {c} : courses'[d] = courses[d]
          /\ DOMAIN courses' = CourseIds /\ DOMAIN courses = CourseIds
          BY <1>4, <1>6
    <2> QED BY <1>4, <1>5, <2>1 DEF CourseIndex
<1>8. UNCHANGED <<semesters, tasks, asked, uses, raced>> /\ Ends(p, "none")
      BY DEF SoftDeleteCourse
<1>9. RowsInv' /\ Stays
      BY <1>4, <1>5, <1>6, <1>7, <1>8, CourseWritten
<1> QED BY <1>8, <1>9, EndsKeeps

LEMMA InsertTaskKeeps ==
  ASSUME PlannerInv, NEW p \in Requests, InsertTask(p)
  PROVE  PlannerInv'
<1> DEFINE r == requests[p]
           t == FirstFree(tasks)
           row == [course |-> r.id, completed_at |-> FALSE, live |-> TRUE]
           s == Over(r.data, row)
<1>1. CASE Refused(p, "IntegrityError")
      BY <1>1, RefusedKeeps
<1>2. CASE /\ TaskStorable(s) /\ tasks' = [tasks EXCEPT ![t] = s] /\ Ends(p, "none")
           /\ UNCHANGED <<semesters, courses, asked, uses, raced>>
    <2>1. r.op = "create_task" /\ r.step = "write" /\ HasRoom(tasks)
          BY DEF InsertTask, At
    <2>2. r.data \in TaskDrafts /\ r.id \in CourseIds /\ r.data.status # "COMPLETED"
          BY <2>1 DEF PlannerInv, Facts, ArgsOK, Holds
    <2>3. TaskDefaults(row, r.id)
          BY DEF TaskDefaults
    <2>4. TaskMade(r.data, s)
          BY <1>2, <2>2, <2>3, TaskMakes
    <2> HIDE DEF s, row
    <2>5. DOMAIN tasks = TaskIds
          BY DEF PlannerInv, RowsInv, TypeOK
    <2>6. t \in TaskIds
          BY <2>1, <2>5, FirstFreeIsFree
    <2> HIDE DEF t
    <2>7. s \in TaskRows /\ s.status # "COMPLETED" /\ ~s.completed_at
          BY <2>2, <2>4 DEF TaskMade
    <2>8. RowsInv' /\ Stays
          BY <1>2, <2>6, <2>7, TaskWritten
    <2> QED BY <1>2, <2>8, EndsKeeps
<1> QED BY <1>1, <1>2 DEF InsertTask

\* A task as a request's attributes leave it: completed_at holds a time on a
\* COMPLETED task, and on another only when the request had loaded another row.
LEMMA TaskSaves ==
  ASSUME PlannerInv, NEW p \in Requests, NEW now \in TaskRows,
         requests[p].step = "write", requests[p].op \in TaskOps,
         TaskStorable(Flushed(now, requests[p].row, Assignment(requests[p]))),
         now.status = "COMPLETED" => now.completed_at
  PROVE  LET s == Flushed(now, requests[p].row, Assignment(requests[p])) IN
         /\ s \in TaskRows
         /\ s.status = "COMPLETED" => s.completed_at
         /\ s.completed_at /\ s.status # "COMPLETED" =>
              now # requests[p].row \/ (now.completed_at /\ now.status # "COMPLETED")
<1> DEFINE r == requests[p]
           s == Flushed(now, r.row, Assignment(r))
<1>1. Facts(r)
      BY DEF PlannerInv
<1>2. r.row \in TaskRows
      BY <1>1 DEF Facts, Holds
<1>3. CASE r.op = "update_task"
    <2>1. Assignment(r) = r.data /\ r.data \in TaskPatches
          BY <1>1, <1>3 DEF Assignment, Facts, ArgsOK
    <2>2. "status" \in DOMAIN r.data => r.data.status # "COMPLETED"
          BY <1>1, <1>3, <2>1 DEF Facts, Holds
    <2>3. r.row.status # "COMPLETED"
          BY <1>1, <1>3 DEF Facts, Holds
    <2>4. PICK data : data = r.data
          OBVIOUS
    <2>5. /\ DOMAIN data \subseteq {"status", "document"}
          /\ "status" \in DOMAIN data => data.status \in (TaskStatuses \cup {Null}) \ {"COMPLETED"}
          BY <2>1, <2>2, <2>4, TaskPatchFields
    <2>6. /\ s \in TaskRows /\ s.completed_at = now.completed_at
          /\ s.status = now.status \/ s.status # "COMPLETED"
          BY <1>2, <2>1, <2>4, <2>5, StatusSaved
    <2> QED BY <2>3, <2>6
<1>4. CASE r.op = "complete_task"
    <2>1. PICK data : data = Assignment(r)
          OBVIOUS
    <2>2. DOMAIN data = {"status", "completed_at"} /\ data.status = "COMPLETED" /\ data.completed_at = TRUE
          BY <1>4, <2>1 DEF Assignment
    <2>3. r.row.status # "COMPLETED"
          BY <1>1, <1>4 DEF Facts, Holds
    <2>4. s \in TaskRows /\ s.completed_at /\ s.status = "COMPLETED"
          BY <1>2, <2>1, <2>2, <2>3, CompletionSaved
    <2> QED BY <2>4
<1>5. CASE r.op = "reopen_task"
    <2>1. PICK data : data = Assignment(r)
          OBVIOUS
    <2>2. DOMAIN data = {"status", "completed_at"} /\ data.status = "TODO" /\ data.completed_at = FALSE
          BY <1>5, <2>1 DEF Assignment
    <2>3. r.row.status = "COMPLETED" /\ r.row.completed_at
          BY <1>1, <1>5 DEF Facts, Holds
    <2>4. s \in TaskRows /\ ~s.completed_at /\ s.status = "TODO"
          BY <1>2, <2>1, <2>2, <2>3, ReopeningSaved
    <2> QED BY <2>4
<1>6. CASE r.op = "delete_task"
    <2>1. PICK data : data = Assignment(r)
          OBVIOUS
    <2>2. DOMAIN data = {"live"} /\ data.live = FALSE
          BY <1>6, <2>1 DEF Assignment
    <2>3. s \in TaskRows /\ s.completed_at = now.completed_at /\ s.status = now.status
          BY <1>2, <2>1, <2>2, DeletionSaved
    <2> QED BY <2>3
<1> QED BY <1>3, <1>4, <1>5, <1>6 DEF TaskOps

LEMMA WriteTaskKeeps ==
  ASSUME PlannerInv, NEW p \in Requests, WriteTask(p)
  PROVE  PlannerInv'
<1> DEFINE r == requests[p]
           s == Flushed(tasks[r.id], r.row, Assignment(r))
<1>1. CASE Refused(p, "IntegrityError")
      BY <1>1, RefusedKeeps
<1>2. CASE /\ TaskStorable(s) /\ tasks' = [tasks EXCEPT ![r.id] = s]
           /\ Races(<<"task", r.id>>, tasks[r.id], r.row)
           /\ Ends(p, "none") /\ UNCHANGED <<semesters, courses, asked, uses>>
    <2>1. r.op \in TaskOps /\ r.step = "write"
          BY DEF WriteTask, TaskOps
    <2>2. TaskOK(r.id)
          BY <2>1 DEF PlannerInv, Facts, Holds
    <2>3. PICK t \in TaskIds : t = r.id /\ tasks[t] # Null
          BY <2>2 DEF TaskOK
    <2>4. /\ tasks[t] \in TaskRows
          /\ tasks[t].status = "COMPLETED" => tasks[t].completed_at
          /\ tasks[t].completed_at /\ tasks[t].status # "COMPLETED" => <<"task", t>> \in raced
          BY <2>3 DEF PlannerInv, RowsInv, TypeOK, OnlyRacesBreakRows
    <2>5. /\ s \in TaskRows
          /\ s.status = "COMPLETED" => s.completed_at
          /\ s.completed_at /\ s.status # "COMPLETED" =>
               tasks[t] # r.row \/ (tasks[t].completed_at /\ tasks[t].status # "COMPLETED")
          BY <1>2, <2>1, <2>3, <2>4, TaskSaves
    <2> HIDE DEF s
    <2>6. raced \subseteq raced' /\ (tasks[t] # r.row => <<"task", t>> \in raced')
          BY <1>2, <2>3 DEF Races
    <2>7. tasks' = [tasks EXCEPT ![t] = s] /\ UNCHANGED <<semesters, courses, asked, uses>>
          BY <1>2, <2>3
    <2>8. s.completed_at /\ s.status # "COMPLETED" => <<"task", t>> \in raced'
          BY <2>4, <2>5, <2>6
    <2>9. RowsInv' /\ Stays
          BY <2>5, <2>6, <2>7, <2>8, TaskWritten
    <2> QED BY <1>2, <2>9, EndsKeeps
<1> QED BY <1>1, <1>2 DEF WriteTask

-----------------------------------------------------------------------------
(* The invariant of the specification. *)

LEMMA SemesterStepKeeps ==
  ASSUME PlannerInv, NEW p \in Requests, SemesterStep(p)
  PROVE  PlannerInv'
<1>1. CASE CreateSemester(p) \/ CheckSemester(p) \/ UpdateSemester(p) \/ DeleteSemester(p)
      BY <1>1, SemesterLookupKeeps
<1>2. CASE InsertSemester(p)
      BY <1>2, InsertSemesterKeeps
<1>3. CASE WriteSemester(p)
      BY <1>3, WriteSemesterKeeps
<1>4. CASE SoftDeleteSemester(p)
      BY <1>4, SoftDeleteSemesterKeeps
<1> QED BY <1>1, <1>2, <1>3, <1>4 DEF SemesterStep

LEMMA CourseStepKeeps ==
  ASSUME PlannerInv, NEW p \in Requests, CourseStep(p)
  PROVE  PlannerInv'
<1>1. CASE CreateCourse(p) \/ CheckCourse(p) \/ UpdateCourse(p) \/ DeleteCourse(p)
      BY <1>1, CourseLookupKeeps
<1>2. CASE InsertCourse(p)
      BY <1>2, InsertCourseKeeps
<1>3. CASE WriteCourse(p)
      BY <1>3, WriteCourseKeeps
<1>4. CASE SoftDeleteCourse(p)
      BY <1>4, SoftDeleteCourseKeeps
<1> QED BY <1>1, <1>2, <1>3, <1>4 DEF CourseStep

LEMMA TaskStepKeeps ==
  ASSUME PlannerInv, NEW p \in Requests, TaskStep(p)
  PROVE  PlannerInv'
<1>1. CASE CreateTask(p) \/ UpdateTask(p) \/ CompleteTask(p) \/ ReopenTask(p) \/ DeleteTask(p)
      BY <1>1, TaskLookupKeeps
<1>2. CASE InsertTask(p)
      BY <1>2, InsertTaskKeeps
<1>3. CASE WriteTask(p)
      BY <1>3, WriteTaskKeeps
<1> QED BY <1>1, <1>2, <1>3 DEF TaskStep

LEMMA NextKeeps ==
  ASSUME PlannerInv, [Next]_vars
  PROVE  PlannerInv'
<1>1. CASE Next
    <2>1. PICK p \in Requests : Ask(p) \/ SemesterStep(p) \/ CourseStep(p) \/ TaskStep(p)
          BY <1>1 DEF Next
    <2> QED BY <2>1, AskKeeps, SemesterStepKeeps, CourseStepKeeps, TaskStepKeeps
<1>2. CASE UNCHANGED vars
    <2>1. UNCHANGED tables /\ asked' \in Nat /\ uses' = uses /\ requests' = requests
          BY <1>2 DEF vars, tables, PlannerInv, RowsInv, TypeOK
    <2>2. RowsInv' /\ Stays
          BY <2>1, SameRows
    <2>3. RequestsOK'
          BY <2>1 DEF PlannerInv, RequestsOK
    <2>4. CASE Requests = {}
          BY <2>2, <2>3, <2>4 DEF PlannerInv
    <2>5. ASSUME NEW p \in Requests PROVE PlannerInv'
        <3>1. Facts(requests[p])'
            <4>1. Facts(requests[p])
                  BY DEF PlannerInv
            <4>2. requests[p].step # "idle" => ArgsOK(requests[p])'
                  BY <2>1, <4>1 DEF Facts, ArgsOK
            <4>3. PICK op, user, id, data, row :
                    op = requests[p].op /\ user = requests[p].user /\ id = requests[p].id
                    /\ data = requests[p].data /\ row = requests[p].row
                  OBVIOUS
            <4>4. CASE requests[p].step \in {"check", "write"}
                <5>1. Holds(op, user, id, data, row)
                      BY <4>1, <4>3, <4>4 DEF Facts
                <5>2. Holds(op, user, id, data, row)'
                      BY <2>2, <5>1, HoldsStays
                <5> QED BY <2>1, <4>2, <4>3, <5>2 DEF Facts
            <4> QED BY <2>1, <4>2, <4>4 DEF Facts
        <3> QED BY <2>1, <2>2, <2>3, <3>1, StepKeeps
    <2> QED BY <2>4, <2>5
<1> QED BY <1>1, <1>2

LEMMA PlannerInvariant == Spec => []PlannerInv
<1>1. Init => PlannerInv
      BY InitPlanner
<1>2. PlannerInv /\ [Next]_vars => PlannerInv'
      BY NextKeeps
<1> QED BY <1>1, <1>2, PTL DEF Spec

(* Every table holds rows of its type, however requests interleave: no write  *)
(* leaves a column without a value it must have.                              *)
THEOREM PlannerTypeCorrect == Spec => []TypeOK
<1>1. PlannerInv => TypeOK
      BY DEF PlannerInv, RowsInv
<1> QED BY <1>1, PlannerInvariant, PTL

(* No student has two live ACTIVE semesters of one name, and no semester two  *)
(* live ACTIVE courses of one code, whatever two requests do between their    *)
(* check and their write: every write that could break it is refused by the   *)
(* index, and deletions only free names.                                      *)
THEOREM DuplicateSafety == Spec => []NoDuplicateActive
<1>1. PlannerInv => NoDuplicateActive
    <2> SUFFICES ASSUME PlannerInv PROVE NoDuplicateActive
        OBVIOUS
    <2>1. /\ SemesterIndex(semesters) /\ CourseIndex(courses)
          /\ DOMAIN semesters = SemesterIds /\ DOMAIN courses = CourseIds
          BY DEF PlannerInv, RowsInv, TypeOK
    <2> QED BY <2>1 DEF SemesterIndex, CourseIndex, NoDuplicateActive
<1> QED BY <1>1, PlannerInvariant, PTL

(* A semester starts before it ends and completed_at holds a time exactly on  *)
(* COMPLETED tasks, but for rows written over one that changed after it was   *)
(* loaded; a COMPLETED task has its time even then.                           *)
THEOREM RowRulesSafety == Spec => []OnlyRacesBreakRows
<1>1. PlannerInv => OnlyRacesBreakRows
      BY DEF PlannerInv, RowsInv
<1> QED BY <1>1, PlannerInvariant, PTL

(* A course stays in semesters of the student who created it.                 *)
THEOREM OwnershipSafety == Spec => []OwnershipKept
<1>1. PlannerInv => OwnershipKept
      BY DEF PlannerInv, RowsInv, CoursesOwned, SemesterOK, OwnershipKept
<1> QED BY <1>1, PlannerInvariant, PTL

-----------------------------------------------------------------------------
(* How requests end: with which errors, and on what grounds.                 *)

\* The request that ends is the one that moves, and not with Ask.
LEMMA EndsInStep ==
  ASSUME PlannerInv, [Next]_vars, NEW q \in Requests, NEW e, EndsWith(q, e)
  PROVE  SemesterStep(q) \/ CourseStep(q) \/ TaskStep(q)
<1>1. requests' # requests
      BY DEF EndsWith
<1>2. PICK p \in Requests : Ask(p) \/ SemesterStep(p) \/ CourseStep(p) \/ TaskStep(p)
      BY <1>1 DEF Next, vars
<1>3. requests' = [requests EXCEPT ![p] = requests'[p]]
    <2>1. requests = [x \in Requests |-> requests[x]]
          BY DEF PlannerInv, RequestsOK
    <2>2. CASE Ask(p)
          BY <2>1, <2>2 DEF Ask
    <2>3. ASSUME NEW f, Refused(p, f) \/ Ends(p, f) PROVE requests' = [requests EXCEPT ![p] = requests'[p]]
          BY <2>1, <2>3 DEF Refused, Ends
    <2>4. ASSUME NEW row, NEW step, Goes(p, row, step) PROVE requests' = [requests EXCEPT ![p] = requests'[p]]
          BY <2>1, <2>4 DEF Goes
    <2>5. CASE SemesterStep(p)
          BY <2>3, <2>4, <2>5 DEF SemesterStep, CreateSemester, InsertSemester, CheckSemester, UpdateSemester,
             WriteSemester, DeleteSemester, SoftDeleteSemester
    <2>6. CASE CourseStep(p)
          BY <2>3, <2>4, <2>6 DEF CourseStep, CreateCourse, CheckCourse, InsertCourse, UpdateCourse,
             WriteCourse, DeleteCourse, SoftDeleteCourse
    <2>7. CASE TaskStep(p)
          BY <2>3, <2>4, <2>7 DEF TaskStep, CreateTask, InsertTask, UpdateTask, CompleteTask, ReopenTask,
             DeleteTask, WriteTask
    <2> QED BY <1>2, <2>2, <2>5, <2>6, <2>7
<1>4. p = q
    <2>1. requests = [x \in Requests |-> requests[x]]
          BY DEF PlannerInv, RequestsOK
    <2> QED BY <1>3, <2>1 DEF EndsWith
<1>5. ~Ask(q)
      BY DEF Ask, EndsWith
<1> QED BY <1>2, <1>4, <1>5

\* A refusal ends a request with its error; a request that goes on does not end.
LEMMA EndingMoves ==
  ASSUME PlannerInv, NEW p \in Requests, NEW e, EndsWith(p, e)
  PROVE  /\ \A f : Ends(p, f) => f = e
         /\ \A f : Refused(p, f) => f = e
         /\ \A row : ~Goes(p, row, "check") /\ ~Goes(p, row, "write")
<1>1. ASSUME NEW f, Ends(p, f) PROVE f = e
      BY <1>1, EndsFields DEF PlannerInv, EndsWith
<1>2. ASSUME NEW f, Refused(p, f) PROVE f = e
      BY <1>1, <1>2 DEF Refused
<1>3. ASSUME NEW row, NEW step \in {"check", "write"}, Goes(p, row, step) PROVE FALSE
      BY <1>3, GoesFields DEF PlannerInv, EndsWith
<1> QED BY <1>1, <1>2, <1>3

\* A write that an index refuses clashes with another row.
LEMMA SemesterClash ==
  ASSUME NEW rows, NEW k \in DOMAIN rows, NEW s, NEW new, SemesterIndex(rows), ~SemesterIndex(new), DOMAIN new = DOMAIN rows,
         new[k] = s, \A i \in DOMAIN rows \ {k} : new[i] = rows[i]
  PROVE  \E i \in DOMAIN rows \ {k} :
           /\ rows[i] # Null /\ rows[i].status = "ACTIVE" /\ rows[i].live
           /\ rows[i].owner = s.owner /\ rows[i].name = s.name
<1>1. PICK i \in DOMAIN rows, j \in DOMAIN rows :
        /\ new[i] # Null /\ new[i].status = "ACTIVE" /\ new[i].live
        /\ new[j] # Null /\ new[j].status = "ACTIVE" /\ new[j].live
        /\ new[i].owner = new[j].owner /\ new[i].name = new[j].name /\ i # j
      BY DEF SemesterIndex
<1>2. CASE i # k /\ j # k
      BY <1>1, <1>2 DEF SemesterIndex
<1>3. CASE i = k
      BY <1>1, <1>3
<1>4. CASE j = k
      BY <1>1, <1>4
<1> QED BY <1>2, <1>3, <1>4

LEMMA CourseClash ==
  ASSUME NEW rows, NEW k \in DOMAIN rows, NEW s, NEW new, CourseIndex(rows), ~CourseIndex(new), DOMAIN new = DOMAIN rows,
         new[k] = s, \A i \in DOMAIN rows \ {k} : new[i] = rows[i]
  PROVE  \E c \in DOMAIN rows \ {k} :
           /\ rows[c] # Null /\ rows[c].status = "ACTIVE" /\ rows[c].live
           /\ rows[c].semester = s.semester /\ rows[c].code = s.code
<1>1. PICK i \in DOMAIN rows, j \in DOMAIN rows :
        /\ new[i] # Null /\ new[i].status = "ACTIVE" /\ new[i].live
        /\ new[j] # Null /\ new[j].status = "ACTIVE" /\ new[j].live
        /\ new[i].semester = new[j].semester /\ new[i].code = new[j].code /\ i # j
      BY DEF CourseIndex
<1>2. CASE i # k /\ j # k
      BY <1>1, <1>2 DEF CourseIndex
<1>3. CASE i = k
      BY <1>1, <1>3
<1>4. CASE j = k
      BY <1>1, <1>4
<1> QED BY <1>2, <1>3, <1>4

\* The live ACTIVE semester a refused request is said to clash with.
SemesterDuplicateOf(p) ==
  \E i \in SemesterIds :
    /\ semesters[i] # Null /\ semesters[i].live
    /\ semesters[i].status = "ACTIVE" /\ semesters[i].owner = requests[p].user
    /\ semesters[i].name.term \in TermsOf(requests[p])
    /\ requests[p].op = "create_semester" \/ i # requests[p].id

LEMMA CheckedSemester ==
  ASSUME NEW p \in Requests, NEW name, name.term \in TermsOf(requests[p]),
         DuplicateSemester(requests[p].user, name, requests[p].id)
  PROVE  SemesterDuplicateOf(p)
BY DEF DuplicateSemester, OwnedSemester, SemesterDuplicateOf

LEMMA RefusedSemester ==
  ASSUME PlannerInv, NEW p \in Requests, NEW k \in SemesterIds, NEW s,
         ~SemesterIndex([semesters EXCEPT ![k] = s]),
         s.owner = requests[p].user, s.name.term \in TermsOf(requests[p]),
         requests[p].op = "create_semester" \/ k = requests[p].id
  PROVE  SemesterDuplicateOf(p)
<1>1. SemesterIndex(semesters) /\ DOMAIN semesters = SemesterIds
      BY DEF PlannerInv, RowsInv, TypeOK
<1>2. PICK i \in SemesterIds \ {k} :
           /\ semesters[i] # Null /\ semesters[i].status = "ACTIVE" /\ semesters[i].live
           /\ semesters[i].owner = s.owner /\ semesters[i].name = s.name
    <2> DEFINE new == [semesters EXCEPT ![k] = s]
    <2>1. new[k] = s /\ DOMAIN new = DOMAIN semesters /\ \A i \in SemesterIds \ {k} : new[i] = semesters[i]
          BY <1>1
    <2>2. ~SemesterIndex(new)
          OBVIOUS
    <2> HIDE DEF new
    <2> QED BY <1>1, <2>1, <2>2, SemesterClash
<1> QED BY <1>2 DEF SemesterDuplicateOf

\* How a request on semesters ends.
SemesterOps == {"create_semester", "update_semester", "delete_semester"}

SemesterEnding(p, e) ==
  /\ requests[p].op \in SemesterOps
  /\ e \in {"none", "SemesterNotFoundError", "SemesterValidationError", "SemesterConflictError"}
  /\ e = "SemesterNotFoundError" => requests[p].op # "create_semester"
  /\ requests[p].op = "delete_semester" => e \in {"none", "SemesterNotFoundError"}
  /\ e = "SemesterConflictError" => SemesterDuplicateOf(p)

LEMMA SemesterEnds ==
  ASSUME PlannerInv, NEW p \in Requests, NEW e, EndsWith(p, e), SemesterStep(p)
  PROVE  SemesterEnding(p, e)
<1> DEFINE r == requests[p]
<1>1. /\ \A f : Ends(p, f) => f = e
      /\ \A f : Refused(p, f) => f = e
      /\ \A row : ~Goes(p, row, "check") /\ ~Goes(p, row, "write")
      BY EndingMoves
<1>2. CASE CreateSemester(p)
      BY <1>1, <1>2 DEF CreateSemester, At, SemesterEnding, SemesterOps
<1>3. CASE UpdateSemester(p)
      BY <1>1, <1>3 DEF UpdateSemester, At, SemesterEnding, SemesterOps
<1>4. CASE DeleteSemester(p)
      BY <1>1, <1>4 DEF DeleteSemester, At, SemesterEnding, SemesterOps
<1>5. CASE SoftDeleteSemester(p)
      BY <1>1, <1>5 DEF SoftDeleteSemester, At, SemesterEnding, SemesterOps
<1>6. CASE CheckSemester(p)
    <2>1. PICK name : name = IF r.op = "create_semester" THEN r.data.name ELSE Over(r.data, r.row).name
          OBVIOUS
    <2>2. name.term \in TermsOf(r)
          BY <2>1 DEF TermsOf
    <2>3. /\ r.op \in {"create_semester", "update_semester"}
          /\ DuplicateSemester(r.user, name, r.id) /\ Refused(p, "SemesterConflictError")
          BY <1>1, <1>6, <2>1 DEF CheckSemester
    <2>4. SemesterDuplicateOf(p)
          BY <2>2, <2>3, CheckedSemester
    <2> QED BY <1>1, <2>3, <2>4 DEF SemesterEnding, SemesterOps
<1>7. CASE InsertSemester(p)
    <2> DEFINE i == FirstFree(semesters)
               row == [owner |-> r.user, live |-> TRUE]
               s == Over(r.data, row)
               new == [semesters EXCEPT ![i] = s]
    <2>1. /\ r.op = "create_semester" /\ r.step = "write" /\ HasRoom(semesters)
          /\ \/ ~SemesterIndex(new) /\ e = "SemesterConflictError"
             \/ e = "none"
          BY <1>1, <1>7 DEF InsertSemester, At
    <2>2. CASE ~SemesterIndex(new) /\ e = "SemesterConflictError"
        <3>1. r.user \in Users /\ r.data \in SemesterDrafts
              BY <2>1 DEF PlannerInv, Facts, ArgsOK
        <3>2. SemesterDefaults(row, r.user)
              BY DEF SemesterDefaults
        <3>3. SemesterMade(r.data, r.user, s)
              BY <3>1, <3>2, SemesterMakes
        <3> HIDE DEF s, row
        <3>4. s.owner = r.user /\ s.name.term \in TermsOf(r)
              BY <2>1, <3>3 DEF SemesterMade, TermsOf
        <3>5. i \in SemesterIds
            <4>1. DOMAIN semesters = SemesterIds
                  BY DEF PlannerInv, RowsInv, TypeOK
            <4> QED BY <2>1, <4>1, FirstFreeIsFree
        <3> HIDE DEF i
        <3>6. SemesterDuplicateOf(p)
              BY <2>1, <2>2, <3>4, <3>5, RefusedSemester
        <3> QED BY <2>1, <2>2, <3>6 DEF SemesterEnding, SemesterOps
    <2> QED BY <2>1, <2>2 DEF SemesterEnding, SemesterOps
<1>8. CASE WriteSemester(p)
    <2> DEFINE s == Flushed(semesters[r.id], r.row, r.data)
               new == [semesters EXCEPT ![r.id] = s]
    <2>1. /\ r.op = "update_semester" /\ r.step = "write"
          /\ \/ ~SemesterIndex(new) /\ e = "SemesterConflictError"
             \/ e = "none"
          BY <1>1, <1>8 DEF WriteSemester, At
    <2>2. CASE ~SemesterIndex(new) /\ e = "SemesterConflictError"
        <3>1. /\ r.id \in SemesterIds /\ r.data \in SemesterPatches /\ ~HasNull(r.data)
              /\ r.row \in SemesterRows /\ SemesterOK(r.id, r.user)
              BY <2>1 DEF PlannerInv, Facts, ArgsOK, Holds
        <3>2. semesters[r.id] \in SemesterRows /\ semesters[r.id].owner = r.user
              BY <3>1 DEF PlannerInv, RowsInv, TypeOK, SemesterOK
        <3>3. SemesterSaved(semesters[r.id], r.row, r.data, s)
              BY <3>1, <3>2, SemesterSaves
        <3>4. s.name.term \in TermsOf(r)
              BY <2>1 DEF TermsOf
        <3> HIDE DEF s
        <3>5. s.owner = r.user
              BY <3>2, <3>3 DEF SemesterSaved
        <3>6. SemesterDuplicateOf(p)
              BY <2>2, <3>1, <3>4, <3>5, RefusedSemester
        <3> QED BY <2>1, <2>2, <3>6 DEF SemesterEnding, SemesterOps
    <2> QED BY <2>1, <2>2 DEF SemesterEnding, SemesterOps
<1> QED BY <1>2, <1>3, <1>4, <1>5, <1>6, <1>7, <1>8 DEF SemesterStep

\* How a request on courses ends.
CourseOps == {"create_course", "update_course", "delete_course"}

CourseEnding(p, e) ==
  /\ requests[p].op \in CourseOps
  /\ e \in {"none", "CourseNotFoundError", "CourseConflictError", "AttributeError"}
  /\ e = "AttributeError" => SentNull(p)
  /\ e = "CourseConflictError" /\ ~SentNull(p) /\ ~SentNoCredits(p) => CourseDuplicateOf(p)

LEMMA CheckedCourse ==
  ASSUME NEW p \in Requests, NEW final \in Stored(requests[p]), NEW except,
         requests[p].op # "create_course" => except = requests[p].id,
         DuplicateCourse(final.semester, final.code, requests[p].user, except)
  PROVE  CourseDuplicateOf(p)
BY DEF DuplicateCourse, OwnedCourse, CourseDuplicateOf

LEMMA RefusedCourse ==
  ASSUME PlannerInv, NEW p \in Requests, NEW k \in CourseIds, NEW s, NEW final \in Stored(requests[p]),
         ~CourseIndex([courses EXCEPT ![k] = s]), s.semester = final.semester, s.code = final.code,
         requests[p].op = "create_course" \/ k = requests[p].id
  PROVE  CourseDuplicateOf(p)
<1>1. CourseIndex(courses) /\ DOMAIN courses = CourseIds
      BY DEF PlannerInv, RowsInv, TypeOK
<1>2. PICK c \in CourseIds \ {k} :
           /\ courses[c] # Null /\ courses[c].status = "ACTIVE" /\ courses[c].live
           /\ courses[c].semester = s.semester /\ courses[c].code = s.code
    <2> DEFINE new == [courses EXCEPT ![k] = s]
    <2>1. new[k] = s /\ DOMAIN new = DOMAIN courses /\ \A i \in CourseIds \ {k} : new[i] = courses[i]
          BY <1>1
    <2>2. ~CourseIndex(new)
          OBVIOUS
    <2> HIDE DEF new
    <2> QED BY <1>1, <2>1, <2>2, CourseClash
<1> QED BY <1>2 DEF CourseDuplicateOf

LEMMA CourseEnds ==
  ASSUME PlannerInv, NEW p \in Requests, NEW e, EndsWith(p, e), CourseStep(p)
  PROVE  CourseEnding(p, e)
<1> DEFINE r == requests[p]
<1>1. /\ \A f : Ends(p, f) => f = e
      /\ \A f : Refused(p, f) => f = e
      /\ \A row : ~Goes(p, row, "check") /\ ~Goes(p, row, "write")
      BY EndingMoves
<1>2. CASE CreateCourse(p)
      BY <1>1, <1>2 DEF CreateCourse, At, CourseEnding, CourseOps
<1>3. CASE UpdateCourse(p)
    <2>1. r.op = "update_course" /\ r.step = "load"
          BY <1>3 DEF UpdateCourse, At
    <2>2. r.data \in CoursePatches
          BY <2>1 DEF PlannerInv, Facts, ArgsOK
    <2>3. "code" \in DOMAIN r.data /\ Over(r.data, courses[r.id]).code = Null => SentNull(p)
          BY <2>2 DEF SentNull, Over
    <2>4. \/ e \in {"none", "CourseNotFoundError"}
          \/ e = "AttributeError" /\ "code" \in DOMAIN r.data /\ Over(r.data, courses[r.id]).code = Null
          BY <1>1, <1>3 DEF UpdateCourse
    <2> QED BY <2>1, <2>3, <2>4 DEF CourseEnding, CourseOps
<1>4. CASE DeleteCourse(p)
      BY <1>1, <1>4 DEF DeleteCourse, At, CourseEnding, CourseOps
<1>5. CASE SoftDeleteCourse(p)
      BY <1>1, <1>5 DEF SoftDeleteCourse, At, CourseEnding, CourseOps
<1>6. CASE CheckCourse(p)
    <2>1. PICK final, except :
            /\ final = Over(r.data, IF r.op = "create_course" THEN [semester |-> r.id] ELSE r.row)
            /\ except = IF r.op = "create_course" THEN Null ELSE r.id
          OBVIOUS
    <2>2. final \in Stored(r)
          BY <2>1 DEF Stored
    <2>3. /\ r.op \in {"create_course", "update_course"} /\ Refused(p, "CourseConflictError")
          /\ DuplicateCourse(final.semester, final.code, r.user, except)
          BY <1>1, <1>6, <2>1 DEF CheckCourse
    <2>4. CourseDuplicateOf(p)
          BY <2>1, <2>2, <2>3, CheckedCourse
    <2> QED BY <1>1, <2>3, <2>4 DEF CourseEnding, CourseOps
<1>7. CASE InsertCourse(p)
    <2> DEFINE c == FirstFree(courses)
               row == [semester |-> r.id, live |-> TRUE, creator |-> r.user]
               s == Over(r.data, row)
               new == [courses EXCEPT ![c] = s]
    <2>1. /\ r.op = "create_course" /\ r.step = "write" /\ HasRoom(courses)
          /\ \/ ~(r.data.credits > 0) /\ e = "CourseConflictError"
             \/ r.data.credits > 0 /\ ~CourseIndex(new) /\ e = "CourseConflictError"
             \/ e = "none"
          BY <1>1, <1>7 DEF InsertCourse, At
    <2>3. CASE ~(r.data.credits > 0) /\ e = "CourseConflictError"
        <3>1. r.data \in CourseDrafts /\ r.data # Null
              BY <2>1 DEF PlannerInv, Facts, ArgsOK
        <3>2. "credits" \in DOMAIN r.data /\ r.data.credits \in Credits
              BY <3>1, BodiesFitSchemas
        <3>3. SentNoCredits(p)
              BY <2>3, <3>1, <3>2 DEF SentNoCredits, Sent, Credits
        <3> QED BY <2>1, <2>3, <3>3 DEF CourseEnding, CourseOps
    <2>2. CASE r.data.credits > 0 /\ ~CourseIndex(new) /\ e = "CourseConflictError"
        <3>1. r.user \in Users /\ r.data \in CourseDrafts /\ r.id \in SemesterIds
              BY <2>1 DEF PlannerInv, Facts, ArgsOK
        <3>2. CourseDefaults(row, r.id, r.user)
              BY DEF CourseDefaults
        <3>3. CourseMade(r.data, r.id, r.user, s)
              BY <2>2, <3>1, <3>2, CourseMakes
        <3> HIDE DEF s, row
        <3>4. PICK final : final = Over(r.data, [semester |-> r.id])
              OBVIOUS
        <3>5. final \in Stored(r)
              BY <2>1, <3>4 DEF Stored
        <3>6. final.semester = r.id /\ final.code = r.data.code
              BY <3>1, <3>4, BodiesFitSchemas DEF Over
        <3>7. s.semester = final.semester /\ s.code = final.code
              BY <3>3, <3>6 DEF CourseMade
        <3>8. c \in CourseIds
            <4>1. DOMAIN courses = CourseIds
                  BY DEF PlannerInv, RowsInv, TypeOK
            <4> QED BY <2>1, <4>1, FirstFreeIsFree
        <3> HIDE DEF c
        <3>9. CourseDuplicateOf(p)
              BY <2>1, <2>2, <3>5, <3>7, <3>8, RefusedCourse
        <3> QED BY <2>1, <2>2, <3>9 DEF CourseEnding, CourseOps
    <2> QED BY <2>1, <2>2, <2>3 DEF CourseEnding, CourseOps
<1>8. CASE WriteCourse(p)
    <2> DEFINE s == Flushed(courses[r.id], r.row, r.data)
               new == [courses EXCEPT ![r.id] = s]
    <2>1. /\ r.op = "update_course" /\ r.step = "write"
          /\ \/ HasNull(r.data) /\ e = "CourseConflictError"
             \/ ~(new[r.id].credits > 0) /\ e = "CourseConflictError"
             \/ ~CourseIndex(new) /\ e = "CourseConflictError"
             \/ e = "none"
          BY <1>1, <1>8 DEF WriteCourse, At
    <2>2. r.data \in CoursePatches /\ r.data # Null /\ r.id \in CourseIds /\ CourseOK(r.id, r.user)
          BY <2>1 DEF PlannerInv, Facts, ArgsOK, Holds
    <2>3. HasNull(r.data) => SentNull(p)
          BY <2>2, CoursePatchFields DEF SentNull, HasNull
    <2>5. ASSUME ~(new[r.id].credits > 0), ~HasNull(r.data) PROVE SentNoCredits(p)
        <3>1. new[r.id] = s /\ courses[r.id] \in CourseRows
              BY <2>2 DEF PlannerInv, RowsInv, TypeOK, CourseOK
        <3>2. s.credits = courses[r.id].credits \/ ("credits" \in DOMAIN r.data /\ s.credits = r.data.credits)
              BY <3>1 DEF Flushed, CourseRows
        <3>3. courses[r.id].credits > 0
              BY <3>1 DEF CourseRows, Credits
        <3> HIDE DEF s, new
        <3>4. "credits" \in DOMAIN r.data /\ ~(r.data.credits > 0)
              BY <2>5, <3>1, <3>2, <3>3
        <3>5. r.data.credits \in Credits
              BY <2>2, <2>5, <3>4, CoursePatchFields DEF HasNull
        <3> QED BY <2>2, <3>4, <3>5 DEF SentNoCredits, Sent, Credits
    <2>4. CASE ~CourseIndex(new) /\ e = "CourseConflictError"
        <3>1. s \in Stored(r)
              BY <2>1 DEF Stored
        <3> HIDE DEF s
        <3>2. CourseDuplicateOf(p)
              BY <2>2, <2>4, <3>1, RefusedCourse
        <3> QED BY <2>1, <2>4, <3>2 DEF CourseEnding, CourseOps
    <2> QED BY <2>1, <2>3, <2>4, <2>5 DEF CourseEnding, CourseOps
<1> QED BY <1>2, <1>3, <1>4, <1>5, <1>6, <1>7, <1>8 DEF CourseStep

\* How a request on tasks ends.
TaskEnding(p, e) ==
  /\ requests[p].op \in TaskOps \cup {"create_task"}
  /\ e \in {"none", "TaskNotFoundError", "TaskValidationError", "TaskConflictError", "IntegrityError"}
  /\ e = "TaskValidationError" => requests[p].op \in {"create_task", "update_task"}
  /\ e = "TaskConflictError" => requests[p].op \in {"complete_task", "reopen_task"}
  /\ e = "IntegrityError" => SentNull(p) \/ SentNoDocument(p)

LEMMA TaskEnds ==
  ASSUME PlannerInv, NEW p \in Requests, NEW e, EndsWith(p, e), TaskStep(p)
  PROVE  TaskEnding(p, e)
<1> DEFINE r == requests[p]
<1>1. /\ \A f : Ends(p, f) => f = e
      /\ \A f : Refused(p, f) => f = e
      /\ \A row : ~Goes(p, row, "check") /\ ~Goes(p, row, "write")
      BY EndingMoves
<1>2. CASE CreateTask(p)
      BY <1>1, <1>2 DEF CreateTask, At, TaskEnding, TaskOps
<1>3. CASE InsertTask(p)
    <2> DEFINE row == [course |-> r.id, completed_at |-> FALSE, live |-> TRUE]
               s == Over(r.data, row)
    <2>1. /\ r.op = "create_task" /\ r.step = "write"
          /\ e = "none" \/ (e = "IntegrityError" /\ ~TaskStorable(s))
          BY <1>1, <1>3 DEF InsertTask, At
    <2>2. ASSUME ~TaskStorable(s) PROVE SentNoDocument(p)
        <3>1. r.data \in TaskDrafts /\ r.data # Null
              BY <2>1 DEF PlannerInv, Facts, ArgsOK
        <3>2. r.data \in [status: TaskStatuses, document: DocumentIds \cup {Null}]
              BY <3>1, BodiesFitSchemas
        <3>3. s.status # Null /\ s.document = r.data.document /\ "document" \in DOMAIN r.data
              BY <3>2 DEF Over
        <3> QED BY <2>2, <3>1, <3>3 DEF TaskStorable, SentNoDocument, Sent
    <2> QED BY <2>1, <2>2 DEF TaskEnding, TaskOps
<1>4. CASE UpdateTask(p)
      BY <1>1, <1>4 DEF UpdateTask, At, TaskEnding, TaskOps
<1>5. CASE CompleteTask(p)
      BY <1>1, <1>5 DEF CompleteTask, At, TaskEnding, TaskOps
<1>6. CASE ReopenTask(p)
      BY <1>1, <1>6 DEF ReopenTask, At, TaskEnding, TaskOps
<1>7. CASE DeleteTask(p)
      BY <1>1, <1>7 DEF DeleteTask, At, TaskEnding, TaskOps
<1>8. CASE WriteTask(p)
    <2>1. r.op \in TaskOps /\ r.step = "write"
          BY <1>8 DEF WriteTask, TaskOps
    <2> DEFINE data == Assignment(r)
               s == Flushed(tasks[r.id], r.row, data)
    <2>2. e = "none" \/ (e = "IntegrityError" /\ ~TaskStorable(s))
          BY <1>1, <1>8 DEF WriteTask
    <2>3. ASSUME ~TaskStorable(s) PROVE SentNull(p) \/ SentNoDocument(p)
        <3>1. tasks[r.id] \in TaskRows
              BY <2>1 DEF PlannerInv, Facts, Holds, TaskOK, RowsInv, TypeOK
        <3>2. \/ "status" \in DOMAIN data /\ data.status = Null
              \/ "document" \in DOMAIN data /\ data.document \notin Documents \cup {Null}
              BY <2>3, <3>1, StorableKept
        <3>3. CASE r.op = "update_task"
            <4>1. data = r.data /\ r.data \in TaskPatches /\ r.data # Null
                  BY <2>1, <3>3 DEF Assignment, PlannerInv, Facts, ArgsOK
            <4> QED BY <3>2, <4>1 DEF SentNull, SentNoDocument, Sent
        <3>4. CASE r.op \in {"complete_task", "reopen_task"}
            <4>1. DOMAIN data = {"status", "completed_at"} /\ data.status \in TaskStatuses
                  BY <3>4 DEF Assignment, TaskStatuses
            <4> QED BY <3>2, <4>1
        <3>5. CASE r.op = "delete_task"
            <4>1. DOMAIN data = {"live"}
                  BY <3>5 DEF Assignment
            <4> QED BY <3>2, <4>1
        <3> QED BY <2>1, <3>3, <3>4, <3>5 DEF TaskOps
    <2> QED BY <2>1, <2>2, <2>3 DEF TaskEnding
<1> QED BY <1>2, <1>3, <1>4, <1>5, <1>6, <1>7, <1>8 DEF TaskStep

LEMMA Endings ==
  ASSUME PlannerInv, [Next]_vars, NEW p \in Requests, NEW e, EndsWith(p, e)
  PROVE  SemesterEnding(p, e) \/ CourseEnding(p, e) \/ TaskEnding(p, e)
BY EndsInStep, SemesterEnds, CourseEnds, TaskEnds

(* A request is refused as a duplicate only while a live ACTIVE row with the  *)
(* same key, other than the one it updates, exists: in the check and, by the  *)
(* index having held so far, in the write the index refuses.  The exceptions  *)
(* are the bodies of a course that another constraint refuses, with an        *)
(* explicit null or with 0 credits: both are reported as a duplicate too.     *)
THEOREM ConflictsAreReal == Spec => ConflictIsReal
<1> DEFINE Real(p) ==
      /\ EndsWith(p, "SemesterConflictError") => SemesterDuplicateOf(p)
      /\ EndsWith(p, "CourseConflictError") /\ ~SentNull(p) /\ ~SentNoCredits(p) => CourseDuplicateOf(p)
<1>1. ASSUME PlannerInv, [Next]_vars, NEW p \in Requests PROVE Real(p)
    <2>1. EndsWith(p, "SemesterConflictError") => SemesterDuplicateOf(p)
          BY <1>1, Endings DEF SemesterEnding, CourseEnding, TaskEnding
    <2>2. EndsWith(p, "CourseConflictError") /\ ~SentNull(p) /\ ~SentNoCredits(p) => CourseDuplicateOf(p)
          BY <1>1, Endings DEF SemesterEnding, CourseEnding, TaskEnding
    <2> QED BY <2>1, <2>2
<1>2. PlannerInv /\ [Next]_vars =>
        [\A p \in Requests :
           /\ EndsWith(p, "SemesterConflictError") =>
                \E i \in SemesterIds :
                  /\ semesters[i] # Null /\ semesters[i].live
                  /\ semesters[i].status = "ACTIVE" /\ semesters[i].owner = requests[p].user
                  /\ semesters[i].name.term \in TermsOf(requests[p])
                  /\ requests[p].op = "create_semester" \/ i # requests[p].id
           /\ EndsWith(p, "CourseConflictError") /\ ~SentNull(p) /\ ~SentNoCredits(p)
                => CourseDuplicateOf(p)]_vars
      BY <1>1 DEF SemesterDuplicateOf
<1> QED BY <1>2, PlannerInvariant, PTL DEF Spec, ConflictIsReal

-----------------------------------------------------------------------------
(* What the routes answer. *)

LEMMA SemesterRouteTable ==
  /\ DOMAIN SemesterRoutes = SemesterOps
  /\ \A op \in SemesterOps : Routes[op] = SemesterRoutes[op]
<1>1. DOMAIN SemesterRoutes = SemesterOps
      BY DEF SemesterRoutes, SemesterOps
<1>2. \A op \in SemesterOps : Routes[op] = SemesterRoutes[op]
      BY <1>1 DEF Routes, Over
<1> QED BY <1>1, <1>2

LEMMA CourseRouteTable ==
  /\ DOMAIN CourseRoutes = CourseOps
  /\ \A op \in CourseOps : op \notin DOMAIN SemesterRoutes /\ Routes[op] = CourseRoutes[op]
<1>1. DOMAIN CourseRoutes = CourseOps
      BY DEF CourseRoutes, CourseOps
<1>2. \A op \in CourseOps : op \notin DOMAIN SemesterRoutes
      BY SemesterRouteTable DEF SemesterOps, CourseOps
<1>3. DOMAIN Over(CourseRoutes, TaskRoutes) = DOMAIN CourseRoutes \cup DOMAIN TaskRoutes
      BY DEF Over
<1>4. \A op \in CourseOps : Over(CourseRoutes, TaskRoutes)[op] = CourseRoutes[op]
      BY <1>1 DEF Over
<1>5. ASSUME NEW rest, CourseOps \subseteq DOMAIN rest
      PROVE  \A op \in CourseOps : Over(SemesterRoutes, rest)[op] = rest[op]
      BY <1>2, <1>5 DEF Over
<1> QED BY <1>1, <1>2, <1>3, <1>4, <1>5 DEF Routes

LEMMA TaskRouteTable ==
  \A op \in TaskOps \cup {"create_task"} :
    /\ op \notin DOMAIN SemesterRoutes /\ op \notin DOMAIN CourseRoutes
    /\ Routes[op] = TaskRoutes[op]
<1>1. \A op \in TaskOps \cup {"create_task"} : op \notin DOMAIN SemesterRoutes /\ op \notin DOMAIN CourseRoutes
      BY SemesterRouteTable, CourseRouteTable DEF SemesterOps, CourseOps, TaskOps
<1>2. DOMAIN TaskRoutes = TaskOps \cup {"create_task"}
      BY DEF TaskRoutes, TaskOps
<1>3. DOMAIN Over(CourseRoutes, TaskRoutes) = DOMAIN CourseRoutes \cup DOMAIN TaskRoutes
      BY DEF Over
<1>4. \A op \in TaskOps \cup {"create_task"} : Over(CourseRoutes, TaskRoutes)[op] = TaskRoutes[op]
      BY <1>1, <1>2 DEF Over
<1>5. ASSUME NEW rest, TaskOps \cup {"create_task"} \subseteq DOMAIN rest
      PROVE  \A op \in TaskOps \cup {"create_task"} : Over(SemesterRoutes, rest)[op] = rest[op]
      BY <1>1, <1>5 DEF Over
<1> QED BY <1>1, <1>2, <1>3, <1>4, <1>5 DEF Routes

LEMMA SemesterAnswers ==
  ASSUME NEW p \in Requests, NEW e, SemesterEnding(p, e)
  PROVE  Answer(requests[p].op, e) \in {200} \cup Routes[requests[p].op].documents
<1>1. PICK op : op = requests[p].op
      OBVIOUS
<1>2. op \in SemesterOps /\ op \in DOMAIN SemesterRoutes /\ Routes[op] = SemesterRoutes[op]
      BY <1>1, SemesterRouteTable DEF SemesterEnding
<1>3. CASE e = "none"
      BY <1>1, <1>3 DEF Answer
<1>4. CASE e # "none"
    <2>1. /\ e \in Routes[op].catches
          /\ SemesterCode(e) \in Routes[op].documents
          BY <1>1, <1>2, <1>4 DEF SemesterEnding, SemesterOps, SemesterRoutes, SemesterCode
    <2>2. Answer(op, e) = SemesterCode(e)
          BY <1>2, <1>4, <2>1 DEF Answer
    <2> QED BY <1>1, <2>1, <2>2
<1> QED BY <1>3, <1>4

LEMMA CourseAnswers ==
  ASSUME NEW p \in Requests, NEW e, CourseEnding(p, e), ~SentNull(p)
  PROVE  Answer(requests[p].op, e) \in {200} \cup Routes[requests[p].op].documents
<1>1. PICK op : op = requests[p].op
      OBVIOUS
<1>2. /\ op \in CourseOps /\ op \in DOMAIN CourseRoutes /\ op \notin DOMAIN SemesterRoutes
      /\ Routes[op] = CourseRoutes[op]
      BY <1>1, CourseRouteTable DEF CourseEnding
<1>3. CASE e = "none"
      BY <1>1, <1>3 DEF Answer
<1>4. CASE e # "none"
    <2>1. /\ e \in Routes[op].catches
          /\ CourseCode(e) \in Routes[op].documents
          BY <1>1, <1>2, <1>4 DEF CourseEnding, CourseOps, CourseRoutes, CourseErrors, CourseCode
    <2>2. Answer(op, e) = CourseCode(e)
          BY <1>2, <1>4, <2>1 DEF Answer
    <2> QED BY <1>1, <2>1, <2>2
<1> QED BY <1>3, <1>4

LEMMA TaskAnswers ==
  ASSUME NEW p \in Requests, NEW e, TaskEnding(p, e), ~SentNull(p), ~SentNoDocument(p)
  PROVE  Answer(requests[p].op, e) \in {200} \cup Routes[requests[p].op].documents
<1>1. PICK op : op = requests[p].op
      OBVIOUS
<1>2. /\ op \in TaskOps \cup {"create_task"} /\ Routes[op] = TaskRoutes[op]
      /\ op \notin DOMAIN SemesterRoutes /\ op \notin DOMAIN CourseRoutes
      BY <1>1, TaskRouteTable DEF TaskEnding
<1>3. CASE e = "none"
      BY <1>1, <1>3 DEF Answer
<1>4. CASE e # "none"
    <2>1. /\ e \in Routes[op].catches
          /\ TaskCode(e) \in Routes[op].documents
          BY <1>1, <1>2, <1>4 DEF TaskEnding, TaskOps, TaskRoutes, TaskCode
    <2>2. Answer(op, e) = TaskCode(e)
          BY <1>2, <1>4, <2>1 DEF Answer
    <2> QED BY <1>1, <2>1, <2>2
<1> QED BY <1>3, <1>4

(* A request that sent no explicit null for a required column and named no    *)
(* document that does not exist is answered 200 or with a status its route's  *)
(* documentation lists: every error its service can raise is caught.  Of the  *)
(* columns modelled, that is; for the others see AnswersDocumented.           *)
THEOREM AnswersSafety == Spec => AnswersDocumented
<1>1. ASSUME PlannerInv, [Next]_vars, NEW p \in Requests, NEW e \in {requests'[p].error},
             EndsWith(p, e), ~SentNull(p), ~SentNoDocument(p)
      PROVE  Answer(requests[p].op, e) \in {200} \cup Routes[requests[p].op].documents
      BY <1>1, Endings, SemesterAnswers, CourseAnswers, TaskAnswers
<1>2. PlannerInv /\ [Next]_vars =>
        [\A p \in Requests : \A e \in {requests'[p].error} :
           EndsWith(p, e) /\ ~SentNull(p) /\ ~SentNoDocument(p)
             => Answer(requests[p].op, e) \in {200} \cup Routes[requests[p].op].documents]_vars
      BY <1>1
<1> QED BY <1>2, PlannerInvariant, PTL DEF Spec, AnswersDocumented
=============================================================================
