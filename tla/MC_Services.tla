----------------------------- MODULE MC_Services -----------------------------
(***************************************************************************)
(* The smaller components side by side: part names the one that runs, the  *)
(* others stay in their initial state, so the states add up and do not     *)
(* multiply.  For the pure computations a state is an input.               *)
(***************************************************************************)
EXTENDS Migrations, Roadmap, Chat, Calendar, Reminders, Algorithms

CONSTANT Parts   \* the components of this run

VARIABLE part

MC_Symmetry ==
  Permutations(Triggers) \cup Permutations(Workers) \cup Permutations(Callers)
    \cup Permutations(Runs) \cup Permutations(Turns)

MC_Recommendations ==
  {{[week |-> "known", task |-> 9], [week |-> "unknown", task |-> 1]}}
MC_Completions ==
  {[grounded |-> TRUE, personal |-> TRUE, cited |-> {1, 2}],
   [grounded |-> FALSE, personal |-> FALSE, cited |-> {}]}
MC_OwnChunks == [s \in Students |-> IF s = "ann" THEN {1} ELSE {2}]
MC_Catalog ==
  {[id |-> 1, institution |-> "uni", code |-> "A", category |-> "core", credits |-> 2],
   [id |-> 2, institution |-> "uni", code |-> "B", category |-> "core", credits |-> 3],
   [id |-> 3, institution |-> "uni", code |-> "C", category |-> "none", credits |-> 3],
   [id |-> 4, institution |-> "other", code |-> "B", category |-> "core", credits |-> 5]}

-----------------------------------------------------------------------------
NoInput == [kind |-> "none"]

Task(i, c, d, s, a) ==
  [id |-> i, created |-> c, due |-> d, status |-> s, minutes |-> 30, access |-> a]
Tasks(id) ==
  {Task(id, c, d, s, a) :
     c \in 0..1, d \in {-1, 0, 168, 169, NoDate},
     s \in {"TODO", "IN_PROGRESS", "COMPLETED", "CANCELLED"}, a \in {"own", "hidden"}}
Rows(id) ==
  {[id |-> id, created |-> c, status |-> s, access |-> a] :
     c \in 0..1, s \in {"TODO", "DONE"}, a \in {"own", "hidden"}}
Texts(number) ==
  {[number |-> number, text |-> [i \in 1..Len(bits) |-> IF bits[i] THEN <<number, i>> ELSE Blank]] :
     bits \in BoundedSeq(BOOLEAN, 3)}

Inputs(p) ==
  CASE p = "weeks" ->
         {[kind |-> "semester", start |-> 9, end |-> e,
           tasks |-> {[id |-> 1, due |-> d, status |-> s, type |-> "EXAM"]}] :
            e \in 8..24, d \in (7..27) \cup {NoDate},
            s \in {"TODO", "IN_PROGRESS", "COMPLETED", "CANCELLED"}}
    [] p = "chunks" ->
         {[kind |-> "document", pages |-> <<a, b, c>>] : a \in Texts(1), b \in Texts(2), c \in Texts(3)}
    [] p = "lists" ->
         {[kind |-> "tasks", tasks |-> {a, b}] : a \in Tasks(1), b \in Tasks(2)}
           \cup {[kind |-> "rows", rows |-> {a, b, c}] : a \in Rows(1), b \in Rows(2), c \in Rows(3)}
    [] p = "triage" ->
         {[kind |-> "tasks", tasks |-> {Task(i, 0, due[i], "TODO", "own") : i \in 1..5}] :
            due \in [1..5 -> {-48, 6, 30}]}
    [] p = "degree" ->
         {[kind |-> "degree", institution |-> "uni", completed |-> done, requirements |-> rs,
           prerequisites |-> ps, answer |-> ans] :
            done \in SUBSET {"A", "B", "X"},
            rs \in SUBSET {[course |-> 3, category |-> "none", credits |-> 0],
                           [course |-> 0, category |-> "core", credits |-> 4]},
            ps \in SUBSET {<<3, 1>>, <<3, 2>>, <<2, 4>>, <<2, 1>>},
            ans \in BoundedSeq({"A", "B", "C", "Z"}, 2)}
    [] OTHER -> {NoInput}

-----------------------------------------------------------------------------
vars == <<part, input, migVars, roadVars, chatVars, calVars, remVars>>

Init ==
  /\ part \in Parts
  /\ input \in Inputs(part)
  /\ MigInit /\ RoadInit /\ ChatInit /\ CalInit /\ RemInit
  /\ part # "roadmap" => status = "ABSENT"
  /\ part # "calendar" => connection = "none"
  /\ part # "reminders" => optedOut = {}

Upgrading == part = "migrations" /\ MigNext /\ UNCHANGED <<part, input, roadVars, chatVars, calVars, remVars>>
Generating == part = "roadmap" /\ RoadNext /\ UNCHANGED <<part, input, migVars, chatVars, calVars, remVars>>
Chatting == part = "chat" /\ ChatNext /\ UNCHANGED <<part, input, migVars, roadVars, calVars, remVars>>
Syncing == part = "calendar" /\ CalNext /\ UNCHANGED <<part, input, migVars, roadVars, chatVars, remVars>>
Reminding == part = "reminders" /\ RemNext /\ UNCHANGED <<part, input, migVars, roadVars, chatVars, calVars>>

Next == Upgrading \/ Generating \/ Chatting \/ Syncing \/ Reminding

Spec == Init /\ [][Next]_vars
=============================================================================
