----------------------------- MODULE MC_Planner -----------------------------
(* Bounds for the planner: two students, two semesters, two courses, one   *)
(* task and two threads making four requests; a behaviour uses the        *)
(* operations on semesters, on courses or on tasks.                        *)
EXTENDS Planner, TLC

\* Students and threads are interchangeable.
MC_Symmetry == Permutations(Users) \cup Permutations(Requests)

\* One term, spelled in two ways.
MC_Names == [term : {"fall25"}, spelling : {"Fall", "FALL"}]
MC_Dates == 1..3

MC_SemesterDrafts ==
  {[name |-> n, start |-> 1, end |-> 3, status |-> s] :
     n \in MC_Names, s \in {"ACTIVE", "UPCOMING"}}

MC_SemesterPatches ==
  {[status |-> "ACTIVE"], [start |-> 2], [end |-> 2], [name |-> Null], <<>>}
    \cup {[name |-> n] : n \in MC_Names}

\* One draft has the credits the database does not store.
MC_CourseDrafts ==
  {[code |-> "CS101", credits |-> 3, status |-> s] : s \in {"ACTIVE", "UPCOMING"}}
    \cup {[code |-> "CS101", credits |-> 0, status |-> "ACTIVE"]}

MC_CoursePatches ==
  {[status |-> "ACTIVE"], [status |-> "UPCOMING"], [code |-> "CS101"], [code |-> Null],
   [credits |-> 0], [name |-> Null], <<>>} \cup {[semester |-> i] : i \in SemesterIds}

\* Document 1 exists, document 2 does not.
MC_TaskDrafts ==
  {[status |-> s, document |-> Null] : s \in {"TODO", "COMPLETED"}}
    \cup {[status |-> "TODO", document |-> 2]}

MC_TaskPatches ==
  {[status |-> s] : s \in TaskStatuses \cup {Null}}
    \cup {[document |-> i] : i \in DocumentIds \cup {Null}} \cup {<<>>}

MC_Mixes ==
  {{"create_semester", "update_semester", "delete_semester"},
   {"create_course", "update_course", "delete_course", "delete_semester"},
   {"create_task", "update_task", "complete_task", "reopen_task", "delete_task",
    "delete_course"}}
=============================================================================
