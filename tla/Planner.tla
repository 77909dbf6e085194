------------------------------ MODULE Planner ------------------------------
(***************************************************************************)
(* Semesters, courses and tasks (services/semester.py, services/course.py, *)
(* services/task.py and their repositories and routers) under concurrent   *)
(* requests.                                                               *)
(*                                                                         *)
(* A request is a thread with a database session of its own: it loads      *)
(* rows, looks for a duplicate and writes, each statement reading what is  *)
(* committed then (READ COMMITTED), and it writes only the attributes that *)
(* differ from the row it loaded.  What the checks cannot see, two         *)
(* requests between check and write, is left to the partial unique         *)
(* indexes of the database.                                                *)
(*                                                                         *)
(* A semester's name stands for the pair (name, academic_year): what its   *)
(* spellings have in common is its term.  A date is a number.  Columns     *)
(* that neither the rules nor a constraint the schemas leave open looks at *)
(* (descriptions, colours, due dates) are absent; the one explicit null    *)
(* they may be sent is the field "name" of a course's patch.  UPCOMING     *)
(* stands for the semester and course statuses other than ACTIVE: the code *)
(* tells ACTIVE from the rest and no further.                              *)
(***************************************************************************)
EXTENDS Naturals, FiniteSets

CONSTANTS
  Users,            \* the students
  SemesterIds, CourseIds, TaskIds,  \* primary keys, handed out in order
  Requests,         \* request threads
  Names,            \* semester names: records [term, spelling]
  Codes,            \* course codes
  Dates,            \* the days a semester may start or end
  DocumentIds,      \* the document ids a task's body may name
  Documents,        \* those of the rows of documents, of whichever student
  SemesterDrafts, CourseDrafts, TaskDrafts,      \* bodies of creations
  SemesterPatches, CoursePatches, TaskPatches,   \* bodies of updates
  Mixes,            \* sets of operations: a behaviour uses one of them
  MaxRequests,      \* bound on the requests made
  Null              \* None: no row, a column or a field without value

ASSUME KeysAreNumbers == SemesterIds \cup CourseIds \cup TaskIds \subseteq Nat
ASSUME DatesAreNumbers == Dates \subseteq Nat
ASSUME DocumentsAreNumbered == DocumentIds \subseteq Nat /\ Documents \subseteq DocumentIds

VARIABLES
  semesters,  \* [SemesterIds -> row or Null]
  courses,    \* [CourseIds -> row or Null]
  tasks,      \* [TaskIds -> row or Null]
  requests,   \* what each thread is doing
  asked,      \* requests made so far
  uses,       \* the operations used in this behaviour
  raced       \* ghost: rows written by a request that had loaded an older row

vars == <<semesters, courses, tasks, requests, asked, uses, raced>>

-----------------------------------------------------------------------------
SemesterRows ==
  [owner: Users, name: Names, start: Dates, end: Dates,
   status: {"ACTIVE", "UPCOMING"}, live: BOOLEAN]

\* What the schemas accept, and what check_course_credits_positive stores.
\* creator is a ghost: the user whose request inserted the course.
Credits == 0..20
CourseRows ==
  [semester: SemesterIds, code: Codes, credits: Credits \ {0}, status: {"ACTIVE", "UPCOMING"},
   live: BOOLEAN, creator: Users]

TaskStatuses == {"TODO", "IN_PROGRESS", "COMPLETED", "CANCELLED"}

\* document is source_document_id; completed_at: whether the column holds a time
TaskRows ==
  [course: CourseIds, document: Documents \cup {Null}, status: TaskStatuses,
   completed_at: BOOLEAN, live: BOOLEAN]

\* None is neither a number, a name, a code, a flag, a status, a row nor a body.
ASSUME NullIsNothing ==
  /\ Null \notin Nat \cup Users \cup Names \cup Codes
  /\ Null \notin BOOLEAN /\ Null \notin TaskStatuses
  /\ Null \notin SemesterRows /\ Null \notin CourseRows /\ Null \notin TaskRows
  /\ Null \notin SemesterDrafts /\ Null \notin CourseDrafts /\ Null \notin TaskDrafts
  /\ Null \notin SemesterPatches /\ Null \notin CoursePatches /\ Null \notin TaskPatches

\* The body of an update holds some of the columns the schema lists.
Patch(data, columns) ==
  /\ DOMAIN data \subseteq DOMAIN columns
  /\ \A f \in DOMAIN data : data[f] \in columns[f] \cup {Null}

\* What the request schemas let through.
ASSUME BodiesFitSchemas ==
  /\ SemesterDrafts \subseteq [name: Names, start: Dates, end: Dates, status: {"ACTIVE", "UPCOMING"}]
  /\ CourseDrafts \subseteq [code: Codes, credits: Credits, status: {"ACTIVE", "UPCOMING"}]
  /\ TaskDrafts \subseteq [status: TaskStatuses, document: DocumentIds \cup {Null}]
  /\ \A d \in SemesterPatches :
       Patch(d, [name |-> Names, start |-> Dates, end |-> Dates, status |-> {"ACTIVE", "UPCOMING"}])
  /\ \A d \in CoursePatches :
       Patch(d, [name |-> {Null}, semester |-> SemesterIds, code |-> Codes,
                 credits |-> Credits, status |-> {"ACTIVE", "UPCOMING"}])
  /\ \A d \in TaskPatches : Patch(d, [status |-> TaskStatuses, document |-> DocumentIds])

Idle == [step |-> "idle", op |-> Null, user |-> Null, id |-> Null,
         data |-> Null, row |-> Null, error |-> "none"]

\* Behaviours that do not create semesters start with some, and with courses
\* when they create tasks.
Init ==
  /\ uses \in Mixes
  /\ IF "create_semester" \in uses
     THEN semesters = [i \in SemesterIds |-> Null]
     ELSE semesters \in [SemesterIds -> {s \in SemesterRows :
                           s.live /\ s.status = "UPCOMING" /\ s.start = 1 /\ s.end = 2
                             /\ s.name = CHOOSE n \in Names : TRUE}]
  /\ IF "create_task" \in uses /\ "create_semester" \notin uses
     THEN \E i \in SemesterIds, k \in Codes : courses =
            [c \in CourseIds |-> [semester |-> i, code |-> k, credits |-> 3,
                                  status |-> "UPCOMING", live |-> TRUE, creator |-> semesters[i].owner]]
     ELSE courses = [c \in CourseIds |-> Null]
  /\ tasks = [t \in TaskIds |-> Null]
  /\ requests = [p \in Requests |-> Idle]
  /\ asked = 0
  /\ raced = {}

-----------------------------------------------------------------------------
(* The life of a request *)

Bodies(op) ==
  CASE op = "create_semester" -> SemesterDrafts
    [] op = "update_semester" -> SemesterPatches
    [] op = "create_course" -> CourseDrafts
    [] op = "update_course" -> CoursePatches
    [] op = "create_task" -> TaskDrafts
    [] op = "update_task" -> TaskPatches
    [] OTHER -> {Null}

Targets(op) ==
  CASE op = "create_semester" -> {Null}
    [] op \in {"create_course", "update_semester", "delete_semester"} -> SemesterIds
    [] op \in {"create_task", "update_course", "delete_course"} -> CourseIds
    [] OTHER -> TaskIds

Ask(p) ==
  /\ requests[p].step = "idle"
  /\ asked < MaxRequests
  /\ \E op \in uses, u \in Users : \E i \in Targets(op), d \in Bodies(op) :
       requests' = [requests EXCEPT ![p] =
         [Idle EXCEPT !.step = "load", !.op = op, !.user = u, !.id = i, !.data = d]]
  /\ asked' = asked + 1
  /\ UNCHANGED <<semesters, courses, tasks, uses, raced>>

At(p, op, step) == requests[p].op = op /\ requests[p].step = step

\* The request goes on to another statement, holding the row it has loaded.
Goes(p, row, step) ==
  /\ requests' = [requests EXCEPT ![p].step = step, ![p].row = row]
  /\ UNCHANGED <<semesters, courses, tasks, asked, uses, raced>>

\* The request is over, with the error its service raised, or none.
Ends(p, error) == requests' = [requests EXCEPT ![p] = [Idle EXCEPT !.error = error]]

Refused(p, error) ==
  Ends(p, error) /\ UNCHANGED <<semesters, courses, tasks, asked, uses, raced>>

FirstFree(rows) ==
  CHOOSE i \in DOMAIN rows :
    rows[i] = Null /\ \A j \in DOMAIN rows : rows[j] = Null => i <= j

HasRoom(rows) == \E i \in DOMAIN rows : rows[i] = Null

HasNull(data) == \E f \in DOMAIN data : data[f] = Null

\* The fields of data, and of row those that data lacks.
Over(data, row) ==
  [f \in DOMAIN data \cup DOMAIN row |-> IF f \in DOMAIN data THEN data[f] ELSE row[f]]

\* A time of completion is always a new one.
Differs(f, data, loaded) == data[f] # loaded[f] \/ (f = "completed_at" /\ data[f])

\* SQLAlchemy's UPDATE: only attributes that differ from the loaded row are set.
Flushed(now, loaded, data) ==
  [f \in DOMAIN now |-> IF f \in DOMAIN data /\ Differs(f, data, loaded)
                        THEN data[f] ELSE now[f]]

\* The ghost: row <<table, i>> is not the one the request loaded.
Races(key, now, loaded) == raced' = IF now = loaded THEN raced ELSE raced \cup {key}

-----------------------------------------------------------------------------
(* Semesters *)

OwnedSemester(i, u) ==
  /\ i \in SemesterIds
  /\ semesters[i] # Null
  /\ semesters[i].live
  /\ semesters[i].owner = u

DuplicateSemester(u, name, except) ==
  \E i \in SemesterIds \ {except} :
    /\ OwnedSemester(i, u)
    /\ semesters[i].name.term = name.term
    /\ semesters[i].status = "ACTIVE"

\* mutant: the index the model declares, which the migrations never created
SemesterIndexIgnoringDeletes(rows) ==
  \A i, j \in {k \in DOMAIN rows : rows[k] # Null /\ rows[k].status = "ACTIVE"} :
    rows[i].owner = rows[j].owner /\ rows[i].name = rows[j].name => i = j

\* uq_semesters_active_user_name_year as the migrations leave it
SemesterIndex(rows) ==
  \A i, j \in {k \in DOMAIN rows :
                 rows[k] # Null /\ rows[k].status = "ACTIVE" /\ rows[k].live} :
    rows[i].owner = rows[j].owner /\ rows[i].name = rows[j].name => i = j

CreateSemester(p) ==
  LET d == requests[p].data IN
  /\ At(p, "create_semester", "load")
  /\ \/ d.start >= d.end /\ Refused(p, "SemesterValidationError")
     \/ d.start < d.end /\ Goes(p, Null, IF d.status = "ACTIVE" THEN "check" ELSE "write")

InsertSemester(p) ==
  LET r == requests[p]
      i == FirstFree(semesters)
      new == [semesters EXCEPT ![i] = Over(r.data, [owner |-> r.user, live |-> TRUE])] IN
  /\ At(p, "create_semester", "write")
  /\ HasRoom(semesters)
  /\ \/ ~SemesterIndex(new) /\ Refused(p, "SemesterConflictError")
     \/ /\ SemesterIndex(new)
        /\ semesters' = new
        /\ Ends(p, "none")
        /\ UNCHANGED <<courses, tasks, asked, uses, raced>>

\* find_duplicate: the row being updated is not its own duplicate.
CheckSemester(p) ==
  LET r == requests[p]
      name == IF r.op = "create_semester" THEN r.data.name ELSE Over(r.data, r.row).name IN
  /\ r.op \in {"create_semester", "update_semester"} /\ r.step = "check"
  /\ \/ DuplicateSemester(r.user, name, r.id) /\ Refused(p, "SemesterConflictError")
     \/ ~DuplicateSemester(r.user, name, r.id) /\ Goes(p, r.row, "write")

ShouldCheckDuplicate(old, final) ==
  /\ final.status = "ACTIVE"
  /\ final.name.term # old.name.term \/ old.status # "ACTIVE"

\* mutant: the range is checked as sent, not as it will be stored
UpdateSemesterUnmerged(p) ==
  LET r == requests[p]
      old == semesters[r.id]
      final == Over(r.data, old) IN
  /\ At(p, "update_semester", "load")
  /\ \/ ~OwnedSemester(r.id, r.user) /\ Refused(p, "SemesterNotFoundError")
     \/ /\ OwnedSemester(r.id, r.user)
        /\ \/ DOMAIN r.data = {} /\ Refused(p, "none")
           \/ HasNull(r.data) /\ Refused(p, "SemesterValidationError")
           \/ /\ DOMAIN r.data # {} /\ ~HasNull(r.data)
              /\ Goes(p, old, IF ShouldCheckDuplicate(old, final) THEN "check" ELSE "write")

UpdateSemester(p) ==
  LET r == requests[p]
      old == semesters[r.id]
      final == Over(r.data, old) IN
  /\ At(p, "update_semester", "load")
  /\ \/ ~OwnedSemester(r.id, r.user) /\ Refused(p, "SemesterNotFoundError")
     \/ /\ OwnedSemester(r.id, r.user)
        /\ \/ DOMAIN r.data = {} /\ Refused(p, "none")
           \/ HasNull(r.data) /\ Refused(p, "SemesterValidationError")
           \/ /\ DOMAIN r.data # {} /\ ~HasNull(r.data)
              /\ \/ final.start >= final.end /\ Refused(p, "SemesterValidationError")
                 \/ /\ final.start < final.end
                    /\ Goes(p, old, IF ShouldCheckDuplicate(old, final)
                                    THEN "check" ELSE "write")

WriteSemester(p) ==
  LET r == requests[p]
      new == [semesters EXCEPT ![r.id] = Flushed(@, r.row, r.data)] IN
  /\ At(p, "update_semester", "write")
  /\ \/ ~SemesterIndex(new) /\ Refused(p, "SemesterConflictError")
     \/ /\ SemesterIndex(new)
        /\ semesters' = new
        /\ Races(<<"semester", r.id>>, semesters[r.id], r.row)
        /\ Ends(p, "none")
        /\ UNCHANGED <<courses, tasks, asked, uses>>

DeleteSemester(p) ==
  LET r == requests[p] IN
  /\ At(p, "delete_semester", "load")
  /\ \/ ~OwnedSemester(r.id, r.user) /\ Refused(p, "SemesterNotFoundError")
     \/ OwnedSemester(r.id, r.user) /\ Goes(p, semesters[r.id], "write")

\* The courses and tasks below keep their rows as they are.
SoftDeleteSemester(p) ==
  /\ At(p, "delete_semester", "write")
  /\ semesters' = [semesters EXCEPT ![requests[p].id].live = FALSE]
  /\ Ends(p, "none")
  /\ UNCHANGED <<courses, tasks, asked, uses, raced>>

-----------------------------------------------------------------------------
(* Courses *)

OwnedCourse(c, u) ==
  courses[c] # Null /\ courses[c].live /\ OwnedSemester(courses[c].semester, u)

DuplicateCourse(i, code, u, except) ==
  \E c \in CourseIds \ {except} :
    /\ OwnedCourse(c, u)
    /\ courses[c].semester = i
    /\ courses[c].code = code
    /\ courses[c].status = "ACTIVE"

\* mutant: the index is missing, the check before the write is all there is
CourseIndexMissing(rows) == TRUE

CourseIndex(rows) ==
  \A c, d \in {k \in DOMAIN rows :
                 rows[k] # Null /\ rows[k].live /\ rows[k].status = "ACTIVE"} :
    rows[c].semester = rows[d].semester /\ rows[c].code = rows[d].code => c = d

CreateCourse(p) ==
  LET r == requests[p] IN
  /\ At(p, "create_course", "load")
  /\ \/ ~OwnedSemester(r.id, r.user) /\ Refused(p, "CourseNotFoundError")
     \/ /\ OwnedSemester(r.id, r.user)
        /\ Goes(p, Null, IF r.data.status = "ACTIVE" THEN "check" ELSE "write")

\* The duplicate check: for an update, of the course as it would be stored.
CheckCourse(p) ==
  LET r == requests[p]
      final == Over(r.data, IF r.op = "create_course" THEN [semester |-> r.id] ELSE r.row)
      except == IF r.op = "create_course" THEN Null ELSE r.id
      found == DuplicateCourse(final.semester, final.code, r.user, except) IN
  /\ r.op \in {"create_course", "update_course"} /\ r.step = "check"
  /\ \/ found /\ Refused(p, "CourseConflictError")
     \/ ~found /\ Goes(p, r.row, "write")

\* Every IntegrityError, one of the constraint on credits too, is reported as a
\* duplicate code.
InsertCourse(p) ==
  LET r == requests[p]
      c == FirstFree(courses)
      new == [courses EXCEPT ![c] =
                Over(r.data, [semester |-> r.id, live |-> TRUE, creator |-> r.user])]
      accepted == r.data.credits > 0 /\ CourseIndex(new) IN
  /\ At(p, "create_course", "write")
  /\ HasRoom(courses)
  /\ \/ ~accepted /\ Refused(p, "CourseConflictError")
     \/ /\ accepted
        /\ courses' = new
        /\ Ends(p, "none")
        /\ UNCHANGED <<semesters, tasks, asked, uses, raced>>

\* mutant: a course is moved to a semester nobody checked
UpdateCourseAnywhere(p) ==
  LET r == requests[p]
      final == Over(r.data, courses[r.id]) IN
  /\ At(p, "update_course", "load")
  /\ \/ ~OwnedCourse(r.id, r.user) /\ Refused(p, "CourseNotFoundError")
     \/ OwnedCourse(r.id, r.user) /\ final.code = Null /\ Refused(p, "AttributeError")
     \/ /\ OwnedCourse(r.id, r.user) /\ final.code # Null /\ final.semester # Null
        /\ Goes(p, courses[r.id], "write")

\* A null code has no strip(); a null semester is nobody's; a null name,
\* status or number of credits goes on to the UPDATE.
UpdateCourse(p) ==
  LET r == requests[p]
      old == courses[r.id]
      final == Over(r.data, old)
      moved == "semester" \in DOMAIN r.data
      renamed == "code" \in DOMAIN r.data
      activated == "status" \in DOMAIN r.data /\ r.data.status = "ACTIVE" IN
  /\ At(p, "update_course", "load")
  /\ \/ ~OwnedCourse(r.id, r.user) /\ Refused(p, "CourseNotFoundError")
     \/ /\ OwnedCourse(r.id, r.user)
        /\ \/ DOMAIN r.data = {} /\ Refused(p, "none")
           \/ moved /\ ~OwnedSemester(final.semester, r.user)
                /\ Refused(p, "CourseNotFoundError")
           \/ /\ DOMAIN r.data # {}
              /\ moved => OwnedSemester(final.semester, r.user)
              /\ \/ renamed /\ final.code = Null /\ Refused(p, "AttributeError")
                 \/ /\ ~(renamed /\ final.code = Null)
                    /\ Goes(p, old,
                         IF (renamed \/ moved \/ activated) /\ final.status = "ACTIVE"
                         THEN "check" ELSE "write")

\* As for an insert; here NOT NULL may fail as well.
WriteCourse(p) ==
  LET r == requests[p]
      new == [courses EXCEPT ![r.id] = Flushed(@, r.row, r.data)]
      accepted == ~HasNull(r.data) /\ new[r.id].credits > 0 /\ CourseIndex(new) IN
  /\ At(p, "update_course", "write")
  /\ \/ ~accepted /\ Refused(p, "CourseConflictError")
     \/ /\ accepted
        /\ courses' = new
        /\ Races(<<"course", r.id>>, courses[r.id], r.row)
        /\ Ends(p, "none")
        /\ UNCHANGED <<semesters, tasks, asked, uses>>

DeleteCourse(p) ==
  LET r == requests[p] IN
  /\ At(p, "delete_course", "load")
  /\ \/ ~OwnedCourse(r.id, r.user) /\ Refused(p, "CourseNotFoundError")
     \/ OwnedCourse(r.id, r.user) /\ Goes(p, courses[r.id], "write")

SoftDeleteCourse(p) ==
  /\ At(p, "delete_course", "write")
  /\ courses' = [courses EXCEPT ![requests[p].id].live = FALSE]
  /\ Ends(p, "none")
  /\ UNCHANGED <<semesters, tasks, asked, uses, raced>>

-----------------------------------------------------------------------------
(* Tasks *)

OwnedTask(t, u) ==
  tasks[t] # Null /\ tasks[t].live /\ OwnedCourse(tasks[t].course, u)

CreateTask(p) ==
  LET r == requests[p] IN
  /\ At(p, "create_task", "load")
  /\ \/ ~OwnedCourse(r.id, r.user) /\ Refused(p, "TaskNotFoundError")
     \/ /\ OwnedCourse(r.id, r.user)
        /\ \/ r.data.status = "COMPLETED" /\ Refused(p, "TaskValidationError")
           \/ r.data.status # "COMPLETED" /\ Goes(p, Null, "write")

\* NOT NULL, and fk_tasks_source_document_id_documents: any student's document
\* will do.
TaskStorable(row) == row.status # Null /\ row.document \in Documents \cup {Null}

\* No service and no route catches an IntegrityError of a task.
InsertTask(p) ==
  LET r == requests[p]
      new == Over(r.data, [course |-> r.id, completed_at |-> FALSE, live |-> TRUE]) IN
  /\ At(p, "create_task", "write")
  /\ HasRoom(tasks)
  /\ \/ ~TaskStorable(new) /\ Refused(p, "IntegrityError")
     \/ /\ TaskStorable(new)
        /\ tasks' = [tasks EXCEPT ![FirstFree(tasks)] = new]
        /\ Ends(p, "none")
        /\ UNCHANGED <<semesters, courses, asked, uses, raced>>

\* The attributes a request on an existing task sets.
Assignment(r) ==
  CASE r.op = "complete_task" -> [status |-> "COMPLETED", completed_at |-> TRUE]
    [] r.op = "reopen_task" -> [status |-> "TODO", completed_at |-> FALSE]
    [] r.op = "delete_task" -> [live |-> FALSE]
    [] OTHER -> r.data

UpdateTask(p) ==
  LET r == requests[p]
      old == tasks[r.id]
      completes == "status" \in DOMAIN r.data /\ r.data.status = "COMPLETED" IN
  /\ At(p, "update_task", "load")
  /\ \/ ~OwnedTask(r.id, r.user) /\ Refused(p, "TaskNotFoundError")
     \/ /\ OwnedTask(r.id, r.user)
        /\ \/ DOMAIN r.data = {} /\ Refused(p, "none")
           \/ /\ DOMAIN r.data # {} /\ (old.status = "COMPLETED" \/ completes)
              /\ Refused(p, "TaskValidationError")
           \/ /\ DOMAIN r.data # {} /\ old.status # "COMPLETED" /\ ~completes
              /\ Goes(p, old, "write")

CompleteTask(p) ==
  LET r == requests[p]
      old == tasks[r.id] IN
  /\ At(p, "complete_task", "load")
  /\ \/ ~OwnedTask(r.id, r.user) /\ Refused(p, "TaskNotFoundError")
     \/ /\ OwnedTask(r.id, r.user)
        /\ \/ old.status = "COMPLETED" /\ Refused(p, "none")
           \/ old.status = "CANCELLED" /\ Refused(p, "TaskConflictError")
           \/ old.status \in {"TODO", "IN_PROGRESS"} /\ Goes(p, old, "write")

ReopenTask(p) ==
  LET r == requests[p]
      old == tasks[r.id] IN
  /\ At(p, "reopen_task", "load")
  /\ \/ ~OwnedTask(r.id, r.user) /\ Refused(p, "TaskNotFoundError")
     \/ /\ OwnedTask(r.id, r.user)
        /\ \/ old.status = "TODO" /\ Refused(p, "none")
           \/ old.status \in {"IN_PROGRESS", "CANCELLED"} /\ Refused(p, "TaskConflictError")
           \/ old.status = "COMPLETED" /\ Goes(p, old, "write")

\* The task's calendar event is removed after this (module Calendar).
DeleteTask(p) ==
  LET r == requests[p] IN
  /\ At(p, "delete_task", "load")
  /\ \/ ~OwnedTask(r.id, r.user) /\ Refused(p, "TaskNotFoundError")
     \/ OwnedTask(r.id, r.user) /\ Goes(p, tasks[r.id], "write")

WriteTask(p) ==
  LET r == requests[p]
      new == Flushed(tasks[r.id], r.row, Assignment(r)) IN
  /\ r.op \in {"update_task", "complete_task", "reopen_task", "delete_task"}
  /\ r.step = "write"
  /\ \/ ~TaskStorable(new) /\ Refused(p, "IntegrityError")
     \/ /\ TaskStorable(new)
        /\ tasks' = [tasks EXCEPT ![r.id] = new]
        /\ Races(<<"task", r.id>>, tasks[r.id], r.row)
        /\ Ends(p, "none")
        /\ UNCHANGED <<semesters, courses, asked, uses>>

-----------------------------------------------------------------------------
(* The routes: which errors each one turns into an answer, and which       *)
(* answers its documentation lists.                                        *)

SemesterCode(error) ==
  CASE error = "SemesterNotFoundError" -> 404
    [] error = "SemesterConflictError" -> 409
    [] error = "SemesterValidationError" -> 422
    [] OTHER -> 500

SemesterRoutes ==
  [create_semester |-> [catches |-> {"SemesterConflictError", "SemesterValidationError"},
                        documents |-> {401, 409, 422}],
   update_semester |-> [catches |-> {"SemesterNotFoundError", "SemesterConflictError",
                                     "SemesterValidationError"},
                        documents |-> {401, 404, 409, 422}],
   delete_semester |-> [catches |-> {"SemesterNotFoundError"}, documents |-> {401, 404}]]

CourseCode(error) ==
  CASE error = "CourseConflictError" -> 409
    [] error = "CourseNotFoundError" -> 404
    [] error = "CourseValidationError" -> 400
    [] OTHER -> 500

CourseErrors == {"CourseConflictError", "CourseNotFoundError", "CourseValidationError"}

CourseRoutes ==
  [op \in {"create_course", "update_course", "delete_course"} |->
     [catches |-> CourseErrors, documents |-> {400, 401, 404, 409}]]

TaskCode(error) ==
  CASE error = "TaskNotFoundError" -> 404
    [] error = "TaskConflictError" -> 409
    [] error = "TaskValidationError" -> 422
    [] OTHER -> 500

\* mutant: the reopen route was copied from the update route
TaskRoutesCopied ==
  LET refused == [catches |-> {"TaskNotFoundError", "TaskValidationError"},
                  documents |-> {401, 404, 422}]
      moved == [catches |-> {"TaskNotFoundError", "TaskConflictError"},
                documents |-> {401, 404, 409}] IN
  [create_task |-> refused, update_task |-> refused, complete_task |-> moved,
   reopen_task |-> refused,
   delete_task |-> [catches |-> {"TaskNotFoundError"}, documents |-> {401, 404}]]

TaskRoutes ==
  LET refused == [catches |-> {"TaskNotFoundError", "TaskValidationError"},
                  documents |-> {401, 404, 422}]
      moved == [catches |-> {"TaskNotFoundError", "TaskConflictError"},
                documents |-> {401, 404, 409}] IN
  [create_task |-> refused, update_task |-> refused,
   complete_task |-> moved, reopen_task |-> moved,
   delete_task |-> [catches |-> {"TaskNotFoundError"}, documents |-> {401, 404}]]

Routes == Over(SemesterRoutes, Over(CourseRoutes, TaskRoutes))

\* What the client of route op is answered: an error nobody catches is a 500.
Answer(op, error) ==
  CASE error = "none" -> 200
    [] error # "none" /\ error \notin Routes[op].catches -> 500
    [] error # "none" /\ error \in Routes[op].catches ->
         IF op \in DOMAIN SemesterRoutes THEN SemesterCode(error)
         ELSE IF op \in DOMAIN CourseRoutes THEN CourseCode(error) ELSE TaskCode(error)

-----------------------------------------------------------------------------
SemesterStep(p) ==
  \/ CreateSemester(p) \/ InsertSemester(p) \/ CheckSemester(p)
  \/ UpdateSemester(p) \/ WriteSemester(p)
  \/ DeleteSemester(p) \/ SoftDeleteSemester(p)

CourseStep(p) ==
  \/ CreateCourse(p) \/ CheckCourse(p) \/ InsertCourse(p)
  \/ UpdateCourse(p) \/ WriteCourse(p)
  \/ DeleteCourse(p) \/ SoftDeleteCourse(p)

TaskStep(p) ==
  \/ CreateTask(p) \/ InsertTask(p) \/ UpdateTask(p) \/ CompleteTask(p)
  \/ ReopenTask(p) \/ DeleteTask(p) \/ WriteTask(p)

Next == \E p \in Requests : Ask(p) \/ SemesterStep(p) \/ CourseStep(p) \/ TaskStep(p)

Spec == Init /\ [][Next]_vars

-----------------------------------------------------------------------------
(* Type invariant *)

TypeOK ==
  /\ semesters \in [SemesterIds -> SemesterRows \cup {Null}]
  /\ courses \in [CourseIds -> CourseRows \cup {Null}]
  /\ tasks \in [TaskIds -> TaskRows \cup {Null}]
  /\ asked \in Nat
  /\ uses \in Mixes

(* What the checks before the writes cannot guarantee and the partial      *)
(* unique indexes do: whatever two requests do between check and write, no *)
(* student has two live ACTIVE semesters of one name, and no semester two  *)
(* live ACTIVE courses of one code (create_semester, update_semester,      *)
(* create_course, update_course).                                          *)
NoDuplicateActive ==
  /\ \A i, j \in SemesterIds :
       /\ semesters[i] # Null /\ semesters[j] # Null /\ i # j
       /\ semesters[i].live /\ semesters[j].live
       /\ semesters[i].status = "ACTIVE" /\ semesters[j].status = "ACTIVE"
       => semesters[i].owner # semesters[j].owner \/ semesters[i].name # semesters[j].name
  /\ \A c, d \in CourseIds :
       /\ courses[c] # Null /\ courses[d] # Null /\ c # d
       /\ courses[c].live /\ courses[d].live
       /\ courses[c].status = "ACTIVE" /\ courses[d].status = "ACTIVE"
       => courses[c].semester # courses[d].semester \/ courses[c].code # courses[d].code

(* Rules that a check on the loaded row guards and no constraint of the    *)
(* database repeats: a semester starts before it ends, and completed_at is *)
(* set exactly on COMPLETED tasks.  Only a write over a row that changed   *)
(* after it was loaded can break them; completed_at is set on a COMPLETED  *)
(* task even then.                                                         *)
OnlyRacesBreakRows ==
  /\ \A i \in SemesterIds :
       semesters[i] # Null /\ semesters[i].start >= semesters[i].end
         => <<"semester", i>> \in raced
  /\ \A t \in TaskIds :
       tasks[t] # Null =>
         /\ tasks[t].status = "COMPLETED" => tasks[t].completed_at
         /\ tasks[t].completed_at /\ tasks[t].status # "COMPLETED"
              => <<"task", t>> \in raced

(* A course stays with the student who created it, whatever semester an    *)
(* update moves it to: ownership is only ever looked up through the        *)
(* semester, so a course moved to another student's semester would be      *)
(* theirs (update_course).                                                 *)
OwnershipKept ==
  \A c \in CourseIds :
    courses[c] # Null => semesters[courses[c].semester].owner = courses[c].creator

\* The request of thread p ends in this step with error e.
EndsWith(p, e) ==
  requests[p].step # "idle" /\ requests'[p].step = "idle" /\ requests'[p].error = e

\* What the schemas let through and the database refuses in the body of the
\* request of thread p: an explicit null for a required column (the document of
\* a task is not), a course without credits, a document that does not exist.
Sent(p, column) == requests[p].data # Null /\ column \in DOMAIN requests[p].data

SentNull(p) ==
  /\ requests[p].data # Null
  /\ \E f \in DOMAIN requests[p].data \ {"document"} : requests[p].data[f] = Null

SentNoCredits(p) == Sent(p, "credits") /\ requests[p].data.credits = 0

SentNoDocument(p) ==
  Sent(p, "document") /\ requests[p].data.document \notin Documents \cup {Null}

\* The terms the semester of a request may be refused for.
TermsOf(r) ==
  IF r.op = "create_semester" THEN {r.data.name.term}
  ELSE {Over(r.data, r.row).name.term, Flushed(semesters[r.id], r.row, r.data).name.term}

\* The course as the request would store it: as it checked it, and as its
\* UPDATE would leave the row of this moment.
Stored(r) ==
  IF r.op = "create_course" THEN {Over(r.data, [semester |-> r.id])}
  ELSE {Over(r.data, r.row), Flushed(courses[r.id], r.row, r.data)}

CourseDuplicateOf(p) ==
  \E c \in CourseIds, final \in Stored(requests[p]) :
    /\ requests[p].op = "create_course" \/ c # requests[p].id
    /\ courses[c] # Null /\ courses[c].live /\ courses[c].status = "ACTIVE"
    /\ courses[c].semester = final.semester /\ courses[c].code = final.code

(* "An active course with the same code already exists in this semester"   *)
(* and its like for semesters are true when they are said: the request is  *)
(* refused only while a live ACTIVE row with the same key exists.  Two     *)
(* bodies of a course are the exceptions, an explicit null in an update    *)
(* and 0 credits in either: the schemas let both through, the database     *)
(* refuses both, and the service reports every IntegrityError as a         *)
(* duplicate (services/course.py:92-97, 271-276).                          *)
ConflictIsReal ==
  [][\A p \in Requests :
       /\ EndsWith(p, "SemesterConflictError") =>
            \E i \in SemesterIds :
              /\ semesters[i] # Null /\ semesters[i].live
              /\ semesters[i].status = "ACTIVE" /\ semesters[i].owner = requests[p].user
              /\ semesters[i].name.term \in TermsOf(requests[p])
              /\ requests[p].op = "create_semester" \/ i # requests[p].id
       /\ EndsWith(p, "CourseConflictError") /\ ~SentNull(p) /\ ~SentNoCredits(p)
            => CourseDuplicateOf(p)]_vars

(* Every error a service raises is caught by its route and answered with a *)
(* status the route's documentation lists, but for two kinds of body the   *)
(* schemas let through and the database refuses: explicit nulls for        *)
(* required fields of courses and tasks, and a task's source_document_id   *)
(* that names no document (services/task.py:85-87, 238-240).  They end in  *)
(* an undocumented 500, as would a number beyond its integer column or a   *)
(* NUL in a text, which are abstracted, and a database that is down.       *)
AnswersDocumented ==
  [][\A p \in Requests : \A e \in {requests'[p].error} :
       EndsWith(p, e) /\ ~SentNull(p) /\ ~SentNoDocument(p)
         => Answer(requests[p].op, e) \in {200} \cup Routes[requests[p].op].documents]_vars
=============================================================================
