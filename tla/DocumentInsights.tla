---------------------------- MODULE DocumentInsights ----------------------------
(***************************************************************************)
(* What the extraction, the embedding and the review promise a student,    *)
(* with no status columns, no workers, no transactions and no requests:    *)
(* each job offers the rows of its latest run, replaced at once; what he   *)
(* has decided on stays decided, and an accepted assignment or exam is     *)
(* planned before it says so.  AiJobs implements it.                       *)
(***************************************************************************)
CONSTANTS
    Extractions, Embeddings,   \* jobs: the former find candidates, the latter make chunks
    Rows,                      \* <<job, run, kind>>
    TaskKinds, CourseKinds, Courses, DocOf, CourseOf,
    Alone                      \* one worker process

VARIABLES
    offered,    \* per job: the rows of its latest run nobody has decided on
    seen,       \* rows that were ever offered
    accepted, rejected,
    planned,    \* candidates made into a task
    field       \* the course field a candidate may fill

vars == <<offered, seen, accepted, rejected, planned, field>>

Jobs == Extractions \cup Embeddings
Candidates == {x \in Rows : x[1] \in Extractions}

Init ==
    /\ offered = [j \in Jobs |-> {}]
    /\ seen = {} /\ accepted = {} /\ rejected = {} /\ planned = {}
    /\ field \in [Courses -> {"blank", "manual"}]

\* A run puts its rows, never seen before, in the place of those on offer: of
\* all of them, or, with several workers, of those no other run replaces.
Offer(j) ==
    /\ \E rows \in SUBSET {x \in Rows \ seen : x[1] = j}, kept \in SUBSET offered[j] :
          /\ \A x, y \in rows : x[2] = y[2]
          /\ j \in Embeddings => rows # {}
          /\ Alone => kept = {}
          /\ offered' = [offered EXCEPT ![j] = kept \cup rows]
          /\ seen' = seen \cup rows
    /\ UNCHANGED <<accepted, rejected, planned, field>>

\* An embedding that fails, or finds no chunks in the text, takes the chunks of
\* the run before back; a failed extraction, nothing.
Withdraw(j) ==
    /\ j \in Embeddings
    /\ \E kept \in SUBSET offered[j] :
          /\ Alone => kept = {}
          /\ offered' = [offered EXCEPT ![j] = kept]
    /\ UNCHANGED <<seen, accepted, rejected, planned, field>>

\* The review of a candidate may end here, with a task and no decision.
Plan(x) ==
    /\ x \in seen /\ x[3] \in TaskKinds
    /\ planned' = planned \cup {x}
    /\ UNCHANGED <<offered, seen, accepted, rejected, field>>

\* Of two reviews of one candidate the later decides.
Decidable(x) == x \in offered[x[1]] \cup accepted \cup rejected

Accept(x) ==
    /\ Decidable(x)
    /\ x[3] \in TaskKinds => x \in planned
    /\ offered' = [offered EXCEPT ![x[1]] = @ \ {x}]
    /\ accepted' = accepted \cup {x} /\ rejected' = rejected \ {x}
    /\ \/ UNCHANGED field
       \/ x[3] \in CourseKinds /\ field' = [field EXCEPT ![CourseOf[DocOf[x[1]]]] = "extracted"]
    /\ UNCHANGED <<seen, planned>>

Reject(x) ==
    /\ Decidable(x)
    /\ offered' = [offered EXCEPT ![x[1]] = @ \ {x}]
    /\ accepted' = accepted \ {x} /\ rejected' = rejected \cup {x}
    /\ UNCHANGED <<seen, planned, field>>

EditCourse(k) ==
    /\ \E value \in {"manual", "blank"} : field' = [field EXCEPT ![k] = value]
    /\ UNCHANGED <<offered, seen, accepted, rejected, planned>>

Next ==
    \/ \E j \in Jobs : Offer(j) \/ Withdraw(j)
    \/ \E x \in Candidates : Plan(x) \/ Accept(x) \/ Reject(x)
    \/ \E k \in Courses : EditCourse(k)

Spec == Init /\ [][Next]_vars
=============================================================================
