------------------------------ MODULE MC_AiJobs ------------------------------
(* One document with its two jobs, or one of them, in one course. *)
EXTENDS AiJobs, TLC

CONSTANTS d1, course

OneDocument == [j \in Jobs |-> d1]
OneCourse == [d \in Docs |-> course]
\* Review requests are interchangeable.
Symmetry == Permutations(Reviewers)
=============================================================================
