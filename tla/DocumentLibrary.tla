---------------------------- MODULE DocumentLibrary ----------------------------
(***************************************************************************)
(* What the document pipeline promises its users, with no requests, no     *)
(* workers and no broker: a library whose catalogue (the documents table)  *)
(* and shelves (the file storage) are changed one at a time, in an order   *)
(* that never lists a document that cannot be read, unless its own upload  *)
(* failed halfway.  DocumentPipeline implements it.                        *)
(***************************************************************************)
CONSTANTS Docs, Courses, CourseOf, Files

VARIABLES
    content,    \* the bytes of each document, fixed
    listing,    \* the catalogue entry of each document
    originals,  \* documents whose file is on the shelves
    texts,      \* documents whose entry names an extracted text
    artifacts,  \* documents whose extracted text is on the shelves
    disowned    \* documents whose upload failed after it had listed them

vars == <<content, listing, originals, texts, artifacts, disowned>>

Init ==
    /\ content \in [Docs -> Files]
    /\ listing = [d \in Docs |-> "absent"]
    /\ originals = {} /\ texts = {} /\ artifacts = {} /\ disowned = {}

\* An upload stores the file before it lists the document, or takes it back.
Store(d) ==
    /\ listing[d] = "absent"
    /\ originals' \in {originals \cup {d}, originals \ {d}}
    /\ UNCHANGED <<content, listing, texts, artifacts, disowned>>

List(d) ==
    /\ listing[d] = "absent" /\ d \in originals
    /\ \A e \in Docs :
          CourseOf[e] = CourseOf[d] /\ content[e] = content[d] => listing[e] # "listed"
    /\ listing' = [listing EXCEPT ![d] = "listed"]
    /\ UNCHANGED <<content, originals, texts, artifacts, disowned>>

\* An upload that fails after it listed the document takes the file back.
Disown(d) ==
    /\ listing[d] # "absent"
    /\ originals' \in {originals, originals \ {d}}
    /\ disowned' = disowned \cup {d}
    /\ UNCHANGED <<content, listing, texts, artifacts>>

\* A deletion strikes the entry out, for good, before it touches the shelves.
Remove(d) ==
    /\ listing[d] = "listed"
    /\ listing' = [listing EXCEPT ![d] = "removed"]
    /\ UNCHANGED <<content, originals, texts, artifacts, disowned>>

Erase(d) ==
    /\ listing[d] = "removed"
    /\ \/ originals' = originals \ {d} /\ UNCHANGED artifacts
       \/ artifacts' = artifacts \ {d} /\ UNCHANGED originals
    /\ UNCHANGED <<content, listing, texts, disowned>>

\* Processing stores the text before it publishes it.
Extract(d) ==
    /\ listing[d] # "absent" /\ artifacts' = artifacts \cup {d}
    /\ UNCHANGED <<content, listing, originals, texts, disowned>>

Announce(d) ==
    /\ listing[d] = "removed" \/ (listing[d] = "listed" /\ d \in artifacts)
    /\ texts' = texts \cup {d}
    /\ UNCHANGED <<content, listing, originals, artifacts, disowned>>

Next ==
    \E d \in Docs : Store(d) \/ List(d) \/ Disown(d) \/ Remove(d) \/ Erase(d)
                  \/ Extract(d) \/ Announce(d)

Spec == Init /\ [][Next]_vars
=============================================================================
