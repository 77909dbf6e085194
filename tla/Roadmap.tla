------------------------------- MODULE Roadmap -------------------------------
(***************************************************************************)
(* One semester's roadmap: the request that asks for its generation        *)
(* (services/roadmap_generation_trigger.py), the Celery task that computes *)
(* its items (worker/tasks/roadmap.py, services/roadmap_generation.py,     *)
(* repositories/roadmap_repository.py) and the student who edits them      *)
(* (services/roadmap_item_update.py).                                      *)
(*                                                                         *)
(* A generation writes its weeks and items in one transaction, statement   *)
(* by statement: an updated row is locked until the commit, and the        *)
(* UPDATE sets the title only when it differs from the loaded one.         *)
(*                                                                         *)
(* An item's title stands for all that it takes from its task (week, type, *)
(* course, due date), 0 for what the student typed.  The weeks are one     *)
(* fact: they are there or not.  error, reason, version and generated_at   *)
(* are left out, and so is "Semester no longer exists": no code deletes a  *)
(* semester's row.                                                         *)
(***************************************************************************)
EXTENDS Naturals, FiniteSets, SequencesExt

CONSTANTS
  RoadTasks,        \* the student's tasks
  Triggers,         \* request threads that ask for a generation
  Workers,          \* Celery worker processes
  Recommendations,  \* what the model may answer: sets of [week, task]
  MaxTriggers,      \* bound on the requests for a generation
  MaxUpsets         \* bound on crashes, database errors, edits and changes of tasks

ASSUME TasksAreNumbers == RoadTasks \subseteq Nat \ {0}
ASSUME AnswersAreFinite == \A recs \in Recommendations : IsFiniteSet(recs)

VARIABLES
  status,     \* semester_roadmaps.generation_status; ABSENT: no row
  weeks,      \* the roadmap's weeks are committed
  items,      \* roadmap_items: [id, task, origin, title, edited]
  lastId,     \* the sequence of item keys
  agenda,     \* per task, the title of its item; 0: it gets none
  messages,   \* messages for ai.generate_roadmap in the broker
  triggers, workers,
  editor,     \* the item the editing request has loaded, or NoItem
  spent,      \* requests and upsets so far
  excused,    \* ghost: two triggers overlapped, or one died before marking
  raced       \* ghost: items edited between the generation's read and write

roadVars == <<status, weeks, items, lastId, agenda, messages, triggers, workers,
              editor, spent, excused, raced>>

-----------------------------------------------------------------------------
Titles == {1, 2}
Items == [id: Nat, task: RoadTasks \cup {0}, origin: {"DETERMINISTIC", "AI_GENERATED"},
          title: {0} \cup Titles, edited: BOOLEAN]
NoItem == [id |-> 0, task |-> 0, origin |-> "DETERMINISTIC", title |-> 0, edited |-> FALSE]
NoTitles == [i \in {} |-> 0]

\* drafts: title by task; todo: drafts not yet handled; item: the row loaded
\* for the current one; and the transaction's new rows and updated titles.
Resting == [step |-> "idle", loaded |-> "ABSENT", drafts |-> NoTitles, todo |-> {},
            item |-> NoItem, fresh |-> {}, updated |-> NoTitles, newWeeks |-> FALSE]

RoadInit ==
  /\ \/ status = "ABSENT" /\ weeks = FALSE /\ items = {} /\ lastId = 0
     \/ /\ status = "COMPLETED" /\ weeks = TRUE /\ lastId = 1
        /\ \E t \in RoadTasks, title \in {0} \cup Titles :
             items = {[id |-> 1, task |-> t, origin |-> "DETERMINISTIC",
                       title |-> title, edited |-> title = 0]}
  /\ agenda = [t \in RoadTasks |-> 1]
  /\ messages = 0
  /\ triggers = [t \in Triggers |-> "idle"]
  /\ workers = [w \in Workers |-> Resting]
  /\ editor = NoItem
  /\ spent = [triggers |-> 0, upsets |-> 0]
  /\ excused = FALSE /\ raced = {}

Spends(what, max) == spent[what] < max /\ spent' = [spent EXCEPT ![what] = @ + 1]

-----------------------------------------------------------------------------
(* The request *)

Running == {"QUEUED", "PROCESSING"}
TriggerGoes(t, step) == triggers' = [triggers EXCEPT ![t] = step]

\* mutant: only a queued roadmap is refused
TriggerLoadUnlessQueued(t) ==
  /\ triggers[t] = "idle"
  /\ Spends("triggers", MaxTriggers)
  /\ TriggerGoes(t, CASE status = "ABSENT" -> "create"
                      [] status = "QUEUED" -> "idle"
                      [] OTHER -> "publish")
  /\ excused' = (excused \/ (status # "QUEUED" /\ \E u \in Triggers : triggers[u] # "idle"))
  /\ UNCHANGED <<status, weeks, items, lastId, agenda, messages, workers, editor, raced>>

\* get_by_semester_id, and the refusal of a generation under way
TriggerLoad(t) ==
  /\ triggers[t] = "idle"
  /\ Spends("triggers", MaxTriggers)
  /\ TriggerGoes(t, CASE status = "ABSENT" -> "create"
                      [] status \in Running -> "idle"
                      [] OTHER -> "publish")
  /\ excused' = (excused \/ (status \notin Running /\ \E u \in Triggers : triggers[u] # "idle"))
  /\ UNCHANGED <<status, weeks, items, lastId, agenda, messages, workers, editor, raced>>

\* The insertion of get_or_create: semester_id is unique, a second one fails.
TriggerCreate(t) ==
  /\ triggers[t] = "create"
  /\ TriggerGoes(t, IF status = "ABSENT" THEN "publish" ELSE "idle")
  /\ status' = IF status = "ABSENT" THEN "NOT_REQUESTED" ELSE status
  /\ UNCHANGED <<weeks, items, lastId, agenda, messages, workers, editor, spent, excused, raced>>

Publish(t) ==
  /\ triggers[t] = "publish"
  /\ \/ messages' = messages + 1 /\ TriggerGoes(t, "mark")
     \/ UNCHANGED messages /\ TriggerGoes(t, "idle")      \* 503
  /\ UNCHANGED <<status, weeks, items, lastId, agenda, workers, editor, spent, excused, raced>>

\* The row was loaded with another status, so the UPDATE is always sent.
MarkRoadmapQueued(t) ==
  /\ triggers[t] = "mark"
  /\ TriggerGoes(t, "idle")
  /\ status' = "QUEUED"
  /\ UNCHANGED <<weeks, items, lastId, agenda, messages, workers, editor, spent, excused, raced>>

TriggerDies(t) ==
  /\ triggers[t] # "idle"
  /\ Spends("upsets", MaxUpsets)
  /\ TriggerGoes(t, "idle")
  /\ excused' = (excused \/ triggers[t] = "mark")
  /\ UNCHANGED <<status, weeks, items, lastId, agenda, messages, workers, editor, raced>>

-----------------------------------------------------------------------------
(* The generation *)

Becomes(w, state) == workers' = [workers EXCEPT ![w] = state]
Locked(w) == UNION {DOMAIN workers[v].updated : v \in Workers \ {w}}
Raised == [Resting EXCEPT !.step = "failing"]   \* the session is rolled back

Claimable == {"NOT_REQUESTED", "QUEUED", "FAILED"}

\* try_start_generation; a message that cannot claim is dropped
ClaimRoadmap(w) ==
  /\ workers[w].step = "idle"
  /\ messages > 0
  /\ messages' = messages - 1
  /\ IF status \in Claimable
     THEN status' = "PROCESSING" /\ Becomes(w, [Resting EXCEPT !.step = "load"])
     ELSE UNCHANGED <<status, workers>>
  /\ UNCHANGED <<weeks, items, lastId, agenda, triggers, editor, spent, excused, raced>>

\* Four SELECTs before the first write: the roadmap, the semester, the tasks
\* that qualify, the weeks.
LoadPlan(w) ==
  /\ workers[w].step = "load"
  /\ LET open == {t \in RoadTasks : agenda[t] # 0}
     IN  Becomes(w, [workers[w] EXCEPT
           !.step = IF weeks THEN "items" ELSE "weeks",
           !.loaded = status,
           !.drafts = [t \in open |-> agenda[t]],
           !.todo = open])
  /\ UNCHANGED <<status, weeks, items, lastId, agenda, messages, triggers, editor, spent, excused, raced>>

\* (roadmap_id, week_number) is unique: the INSERT waits for another's
\* transaction and fails when that one commits.
InsertWeeks(w) ==
  /\ workers[w].step = "weeks"
  /\ \A v \in Workers : ~workers[v].newWeeks
  /\ Becomes(w, IF weeks THEN Raised
                ELSE [workers[w] EXCEPT !.step = "items", !.newWeeks = TRUE])
  /\ UNCHANGED <<status, weeks, items, lastId, agenda, messages, triggers, editor, spent, excused, raced>>

ItemsOf(t) == {i \in items : i.origin = "DETERMINISTIC" /\ i.task = t}

\* mutant: is_user_edited is not looked at
LoadItemAnyway(w) ==
  /\ workers[w].step = "items"
  /\ \E t \in workers[w].todo :
       LET rest == [workers[w] EXCEPT !.todo = @ \ {t}]
       IN  \/ /\ ItemsOf(t) = {}
              /\ Becomes(w, [rest EXCEPT !.fresh = @ \cup {t}])
           \/ \E i \in ItemsOf(t) : Becomes(w, [rest EXCEPT !.step = "flush", !.item = i])
  /\ UNCHANGED <<status, weeks, items, lastId, agenda, messages, triggers, editor, spent, excused, raced>>

\* get_deterministic_item_by_task; a draft without an item is inserted, an
\* edited item is left as it is.
LoadItem(w) ==
  /\ workers[w].step = "items"
  /\ \E t \in workers[w].todo :
       LET rest == [workers[w] EXCEPT !.todo = @ \ {t}]
       IN  \/ /\ ItemsOf(t) = {}
              /\ Becomes(w, [rest EXCEPT !.fresh = @ \cup {t}])
           \/ \E i \in ItemsOf(t) :
                Becomes(w, IF i.edited THEN rest
                           ELSE [rest EXCEPT !.step = "flush", !.item = i])
  /\ UNCHANGED <<status, weeks, items, lastId, agenda, messages, triggers, editor, spent, excused, raced>>

Retitled(titles, id, title) ==
  [n \in DOMAIN titles \cup {id} |-> IF n = id THEN title ELSE titles[n]]

\* upsert_deterministic_item: no UPDATE when nothing differs from the loaded
\* row, and an error when the row is gone.
FlushItem(w) ==
  LET i == workers[w].item
      title == workers[w].drafts[i.task]
      done == [workers[w] EXCEPT !.step = "items", !.item = NoItem]
  IN  /\ workers[w].step = "flush"
      /\ title # i.title => i.id \notin Locked(w)
      /\ Becomes(w, CASE title = i.title -> done
                      [] title # i.title /\ i.id \in {j.id : j \in items} ->
                           [done EXCEPT !.updated = Retitled(@, i.id, title)]
                      [] OTHER -> Raised)
      /\ UNCHANGED <<status, weeks, items, lastId, agenda, messages, triggers, editor, spent, excused, raced>>

Numbered(t, n, origin) ==
  [id |-> n, task |-> t, origin |-> origin, title |-> 1, edited |-> FALSE]

\* delete_deterministic_items_not_in and the commit: the keys of the drafts
\* are the tasks to keep.
CommitItems(w) ==
  LET me == workers[w]
      gone == {i \in items : /\ i.origin = "DETERMINISTIC" /\ ~i.edited
                             /\ i.task \notin DOMAIN me.drafts}
      titled == {[i EXCEPT !.title = IF i.id \in DOMAIN me.updated THEN me.updated[i.id] ELSE @] :
                   i \in items \ gone}
      order == SetToSeq(me.fresh)
  IN  /\ me.step = "items" /\ me.todo = {}
      /\ {i.id : i \in gone} \cap Locked(w) = {}
      /\ items' = titled \cup
           {[Numbered(order[n], lastId + n, "DETERMINISTIC") EXCEPT !.title = me.drafts[order[n]]] :
              n \in DOMAIN order}
      /\ lastId' = lastId + Len(order)
      /\ weeks' = (weeks \/ me.newWeeks)
      /\ Becomes(w, [Resting EXCEPT !.step = "recommend", !.loaded = me.loaded, !.drafts = me.drafts])
      /\ UNCHANGED <<status, agenda, messages, triggers, editor, spent, excused, raced>>

\* _ground_truth_filter: an unknown week drops the recommendation, an unknown
\* task only the reference.
GroundTruth(recs, drafts) ==
  {IF r.task \in DOMAIN drafts THEN r.task ELSE 0 : r \in {q \in recs : q.week = "known"}}

\* The provider is absent or fails, or its answer replaces the recommendations
\* the student has not edited.
Recommend(w) ==
  /\ workers[w].step = "recommend"
  /\ Becomes(w, [workers[w] EXCEPT !.step = "complete", !.drafts = NoTitles])
  /\ \/ UNCHANGED <<items, lastId>>
     \/ \E recs \in Recommendations :
          LET order == SetToSeq(GroundTruth(recs, workers[w].drafts))
          IN  /\ items' = {i \in items : i.origin = "DETERMINISTIC" \/ i.edited}
                            \cup {Numbered(order[n], lastId + n, "AI_GENERATED") : n \in DOMAIN order}
              /\ lastId' = lastId + Len(order)
  /\ UNCHANGED <<status, weeks, agenda, messages, triggers, editor, spent, excused, raced>>

\* mark_completed
CompleteRoadmap(w) ==
  /\ workers[w].step = "complete"
  /\ status' = IF workers[w].loaded = "COMPLETED" THEN status ELSE "COMPLETED"
  /\ Becomes(w, Resting)
  /\ UNCHANGED <<weeks, items, lastId, agenda, messages, triggers, editor, spent, excused, raced>>

\* A database error at any statement of the task
TaskRaises(w) ==
  /\ workers[w].step \in {"load", "weeks", "items", "flush", "recommend", "complete"}
  /\ Spends("upsets", MaxUpsets)
  /\ Becomes(w, Raised)
  /\ UNCHANGED <<status, weeks, items, lastId, agenda, messages, triggers, editor, excused, raced>>

\* on_failure reads the status, then mark_failed writes.
OnFailure(w) ==
  /\ workers[w].step = "failing"
  /\ Becomes(w, IF status = "PROCESSING" THEN [Resting EXCEPT !.step = "mark_failed"] ELSE Resting)
  /\ UNCHANGED <<status, weeks, items, lastId, agenda, messages, triggers, editor, spent, excused, raced>>

MarkRoadmapFailed(w) ==
  /\ workers[w].step = "mark_failed"
  /\ status' = "FAILED"
  /\ Becomes(w, Resting)
  /\ UNCHANGED <<weeks, items, lastId, agenda, messages, triggers, editor, spent, excused, raced>>

\* acks_late: the message of a dead worker is delivered again.
RoadWorkerDies(w) ==
  /\ workers[w].step # "idle"
  /\ Spends("upsets", MaxUpsets)
  /\ messages' = messages + 1
  /\ Becomes(w, Resting)
  /\ UNCHANGED <<status, weeks, items, lastId, agenda, triggers, editor, excused, raced>>

-----------------------------------------------------------------------------
(* The student *)

\* get_item_owned
EditLoad ==
  /\ editor = NoItem
  /\ Spends("upsets", MaxUpsets)
  /\ \E i \in items : editor' = i
  /\ UNCHANGED <<status, weeks, items, lastId, agenda, messages, triggers, workers, excused, raced>>

\* update_item: fails when the row is gone, waits while it is locked
EditWrite ==
  /\ editor # NoItem
  /\ \A w \in Workers : editor.id \notin DOMAIN workers[w].updated
  /\ items' = {IF i.id = editor.id THEN [i EXCEPT !.title = 0, !.edited = TRUE] ELSE i : i \in items}
  /\ raced' = raced \cup {workers[w].item.id : w \in {v \in Workers : workers[v].item.id = editor.id}}
  /\ editor' = NoItem
  /\ UNCHANGED <<status, weeks, lastId, agenda, messages, triggers, workers, spent, excused>>

\* A task is completed, deleted, reopened or moved.
ChangeTask ==
  /\ Spends("upsets", MaxUpsets)
  /\ \E t \in RoadTasks, title \in {0} \cup Titles :
       agenda[t] # title /\ agenda' = [agenda EXCEPT ![t] = title]
  /\ UNCHANGED <<status, weeks, items, lastId, messages, triggers, workers, editor, excused, raced>>

RoadNext ==
  \/ \E t \in Triggers :
       \/ TriggerLoad(t) \/ TriggerCreate(t) \/ Publish(t)
       \/ MarkRoadmapQueued(t) \/ TriggerDies(t)
  \/ \E w \in Workers :
       \/ ClaimRoadmap(w) \/ LoadPlan(w) \/ InsertWeeks(w) \/ LoadItem(w)
       \/ FlushItem(w) \/ CommitItems(w) \/ Recommend(w) \/ CompleteRoadmap(w)
       \/ TaskRaises(w) \/ OnFailure(w) \/ MarkRoadmapFailed(w) \/ RoadWorkerDies(w)
  \/ EditLoad \/ EditWrite \/ ChangeTask

RoadSpec == RoadInit /\ [][RoadNext]_roadVars

-----------------------------------------------------------------------------
(* What the student edited stays: a regeneration neither rewrites nor      *)
(* deletes an edited item, unless the edit fell between the generation's   *)
(* read of the item and its UPDATE (roadmap_generation.py:131-140).        *)
EditsSurvive ==
  [][\A i \in items : i.edited /\ i.id \notin raced => i \in items']_roadVars

(* A task has one deterministic item, although no index says so: the       *)
(* trigger's refusal and the claim keep two generations apart.  Only two   *)
(* overlapping triggers, or one that died before mark_queued, can put two  *)
(* messages in flight and so two items on the roadmap                      *)
(* (roadmap_generation_trigger.py:48-64).                                  *)
OneItemPerTask == ~excused => \A t \in RoadTasks : Cardinality(ItemsOf(t)) <= 1
=============================================================================
