------------------------- MODULE MC_DocumentPipeline -------------------------
(* One course, one API process, and the documents, workers and requests the  *)
(* configuration names.                                                      *)
EXTENDS DocumentPipeline, TLC

CONSTANTS course, api

OneCourse == [d \in Docs |-> course]
OneProc == [c \in Clients |-> api]

\* Workers, requests and, as all documents are of one course and start with
\* any content, documents are interchangeable.
Symmetry == Permutations(Workers) \cup Permutations(Clients) \cup Permutations(Docs)
=============================================================================
