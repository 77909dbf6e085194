---------------------------- MODULE Roadmap_proofs ----------------------------
(***************************************************************************)
(* Proofs that a regeneration keeps what the student edited, and that each *)
(* task has one computed item, for every set of tasks, every number of     *)
(* requests and workers and whatever the model answers.                    *)
(***************************************************************************)
EXTENDS Roadmap, FiniteSetTheorems, TLAPS

(* An item that the student edited, and not behind a generation's back.    *)
Kept(i) == i.edited /\ i.id \notin raced

(* A generation in state s has written item id or is about to.             *)
Touches(s, id) == (s.step = "flush" /\ s.item.id = id) \/ id \in DOMAIN s.updated

IsItem(i) ==
  /\ i \in [id: {i.id}, task: {i.task}, origin: {i.origin}, title: {i.title}, edited: {i.edited}]
  /\ i.id \in Nat
  /\ i.edited \in BOOLEAN

IsWorker(s) ==
  /\ s \in [step: {s.step}, loaded: {s.loaded}, drafts: {s.drafts}, todo: {s.todo},
            item: {s.item}, fresh: {s.fresh}, updated: {s.updated}, newWeeks: {s.newWeeks}]
  /\ IsFiniteSet(s.fresh)

(* The rows' keys come from the sequence and are unique.                   *)
ItemsOK ==
  /\ lastId \in Nat
  /\ \A i \in items : IsItem(i) /\ i.id <= lastId
  /\ \A i, j \in items : i.id = j.id => i = j

WorkersOK ==
  /\ workers = [w \in Workers |-> workers[w]]
  /\ \A w \in Workers : IsWorker(workers[w])

(* A kept item has the student's title and no generation touches it: what  *)
(* it loads is not edited, and an edit between its read and its UPDATE is  *)
(* raced.                                                                  *)
EditInv ==
  /\ ItemsOK
  /\ WorkersOK
  /\ \A i \in items : Kept(i) => i.title = 0
  /\ \A w \in Workers, i \in items : Kept(i) => ~Touches(workers[w], i.id)

-----------------------------------------------------------------------------
(* The order in which a finite set is written out is a sequence.           *)
LEMMA WrittenOut ==
  ASSUME NEW S, IsFiniteSet(S)
  PROVE  /\ Len(SetToSeq(S)) \in Nat
         /\ DOMAIN SetToSeq(S) = 1..Len(SetToSeq(S))
<1>1. Cardinality(S) \in Nat /\ ExistsBijection(1..Cardinality(S), S)
      BY FS_CardinalityType
<1>2. \E f \in [1..Cardinality(S) -> S] : IsInjective(f)
      BY <1>1 DEF ExistsBijection, Bijection, Injection
<1>3. SetToSeq(S) \in [1..Cardinality(S) -> S]
      BY <1>2 DEF SetToSeq
<1> QED BY <1>1, <1>3

(* The filter of a finite answer is finite.                                *)
LEMMA FilteredFinite ==
  ASSUME NEW recs, IsFiniteSet(recs), NEW drafts
  PROVE  IsFiniteSet(GroundTruth(recs, drafts))
<1> DEFINE known == {q \in recs : q.week = "known"}
           f == [r \in known |-> IF r.task \in DOMAIN drafts THEN r.task ELSE 0]
<1>1. IsFiniteSet(known)
      BY FS_Subset
<1>2. f \in Surjection(known, GroundTruth(recs, drafts))
      BY DEF Surjection, GroundTruth
<1> HIDE DEF f, known
<1> QED BY <1>1, <1>2, FS_Surjection

(* A worker's state keeps its shape when fields of it are assigned.        *)
LEMMA StepAssigned ==
  ASSUME NEW s, IsWorker(s), NEW x
  PROVE  /\ [s EXCEPT !.step = x].step = x /\ [s EXCEPT !.step = x].updated = s.updated
         /\ IsWorker([s EXCEPT !.step = x])
BY DEF IsWorker

LEMMA RestingOK ==
  /\ IsWorker(Resting) /\ \A id : ~Touches(Resting, id)
  /\ \A x : IsWorker([Resting EXCEPT !.step = x])
  /\ \A x : x # "flush" => \A id : ~Touches([Resting EXCEPT !.step = x], id)
<1>1. IsFiniteSet({})
      BY FS_EmptySet
<1>2. IsWorker(Resting) /\ (\A id : ~Touches(Resting, id)) /\ DOMAIN Resting.updated = {}
      BY <1>1 DEF IsWorker, Touches, Resting, NoTitles
<1> QED BY <1>2, StepAssigned DEF Touches

LEMMA InitEdits == RoadInit => EditInv
<1> SUFFICES ASSUME RoadInit PROVE EditInv
    OBVIOUS
<1>1. ItemsOK /\ \A i \in items : Kept(i) => i.title = 0
  <2>1. CASE items = {} /\ lastId = 0
        BY <2>1 DEF ItemsOK
  <2>2. CASE ~(items = {} /\ lastId = 0)
    <3>1. lastId = 1 /\ raced = {}
          BY <2>2 DEF RoadInit
    <3>2. PICK t \in RoadTasks, title \in {0} \cup Titles :
            items = {[id |-> 1, task |-> t, origin |-> "DETERMINISTIC",
                      title |-> title, edited |-> title = 0]}
          BY <2>2 DEF RoadInit
    <3> DEFINE i == [id |-> 1, task |-> t, origin |-> "DETERMINISTIC",
                     title |-> title, edited |-> title = 0]
    <3>3. i.id = 1 /\ IsItem(i) /\ (i.edited => i.title = 0)
          BY DEF IsItem
    <3> HIDE DEF i
    <3> QED BY <3>1, <3>2, <3>3 DEF ItemsOK, Kept, i
  <2> QED BY <2>1, <2>2
<1>2. WorkersOK /\ \A w \in Workers : workers[w] = Resting
      BY RestingOK DEF RoadInit, WorkersOK
<1> QED BY <1>1, <1>2, RestingOK DEF EditInv

-----------------------------------------------------------------------------
(* A worker's step that writes no row keeps the invariant when it touches  *)
(* no kept item.                                                           *)
LEMMA WorkerKeepsEdits ==
  ASSUME EditInv, NEW w \in Workers, NEW STATE s, Becomes(w, s), IsWorker(s),
         UNCHANGED <<items, lastId, raced>>,
         \A i \in items : Kept(i) => ~Touches(s, i.id)
  PROVE  EditInv'
<1>1. ItemsOK'
      BY DEF EditInv, ItemsOK, Kept
<1>2. \A v \in Workers : workers'[v] = IF v = w THEN s ELSE workers[v]
      BY DEF EditInv, WorkersOK, Becomes
<1>3. WorkersOK'
      BY <1>2 DEF EditInv, WorkersOK, Becomes
<1>4. \A v \in Workers, i \in items' : Kept(i)' => ~Touches(workers'[v], i.id)
      BY <1>2 DEF EditInv, Kept
<1>5. \A i \in items' : Kept(i)' => i.title = 0
      BY DEF EditInv, Kept
<1> QED BY <1>1, <1>3, <1>4, <1>5 DEF EditInv

LEMMA PlanKeepsEdits ==
  ASSUME EditInv, NEW w \in Workers, LoadPlan(w) \/ InsertWeeks(w)
  PROVE  EditInv'
<1> DEFINE me == workers[w]
<1>1. IsWorker(me) /\ \A i \in items : Kept(i) => ~Touches(me, i.id)
      BY DEF EditInv, WorkersOK
<1>2. UNCHANGED <<items, lastId, raced>>
      BY DEF LoadPlan, InsertWeeks
<1>3. CASE LoadPlan(w)
  <2>1. PICK step, todo, drafts :
          /\ step # "flush"
          /\ Becomes(w, [me EXCEPT !.step = step, !.loaded = status,
                                   !.drafts = drafts, !.todo = todo])
        BY <1>3 DEF LoadPlan
  <2> DEFINE s == [me EXCEPT !.step = step, !.loaded = status, !.drafts = drafts, !.todo = todo]
  <2>2. IsWorker(s) /\ s.step = step /\ s.updated = me.updated
        BY <1>1 DEF IsWorker
  <2>3. Becomes(w, s)
        BY <2>1
  <2> HIDE DEF s
  <2>4. \A i \in items : Kept(i) => ~Touches(s, i.id)
        BY <1>1, <2>1, <2>2 DEF Touches
  <2> QED BY <1>2, <2>2, <2>3, <2>4, WorkerKeepsEdits
<1>4. CASE InsertWeeks(w)
  <2> DEFINE s == [me EXCEPT !.step = "items", !.newWeeks = TRUE]
  <2>1. IsWorker(s) /\ s.step = "items" /\ s.updated = me.updated
        BY <1>1 DEF IsWorker
  <2>2. Becomes(w, Raised) \/ Becomes(w, s)
        BY <1>4 DEF InsertWeeks
  <2> HIDE DEF s
  <2>3. \A i \in items : Kept(i) => ~Touches(s, i.id)
        BY <1>1, <2>1 DEF Touches
  <2> QED BY <1>2, <2>1, <2>2, <2>3, WorkerKeepsEdits, RestingOK DEF Raised
<1> QED BY <1>3, <1>4

(* What the generation loads is not edited, and keys are unique.           *)
LEMMA LoadKeepsEdits ==
  ASSUME EditInv, NEW w \in Workers, LoadItem(w)
  PROVE  EditInv'
<1> DEFINE me == workers[w]
<1>1. IsWorker(me) /\ (\A i \in items : Kept(i) => ~Touches(me, i.id)) /\ me.step = "items"
      BY DEF EditInv, WorkersOK, LoadItem
<1>2. UNCHANGED <<items, lastId, raced>>
      BY DEF LoadItem
<1>3. PICK t \in me.todo :
        LET rest == [me EXCEPT !.todo = @ \ {t}]
        IN  \/ Becomes(w, [rest EXCEPT !.fresh = @ \cup {t}])
            \/ \E i \in ItemsOf(t) :
                 Becomes(w, IF i.edited THEN rest
                            ELSE [rest EXCEPT !.step = "flush", !.item = i])
      BY DEF LoadItem
<1> DEFINE rest == [me EXCEPT !.todo = @ \ {t}]
<1>4. IsWorker(rest) /\ rest.step = "items" /\ rest.updated = me.updated
      BY <1>1 DEF IsWorker
<1>5. \/ Becomes(w, [rest EXCEPT !.fresh = @ \cup {t}])
      \/ Becomes(w, rest)
      \/ \E i \in ItemsOf(t) : ~i.edited /\ Becomes(w, [rest EXCEPT !.step = "flush", !.item = i])
      BY <1>3
<1> HIDE DEF rest
<1>6. \A i \in items : Kept(i) => ~Touches(rest, i.id)
      BY <1>1, <1>4 DEF Touches
<1>7. CASE Becomes(w, [rest EXCEPT !.fresh = @ \cup {t}])
  <2> DEFINE s == [rest EXCEPT !.fresh = @ \cup {t}]
  <2>1. IsFiniteSet(rest.fresh \cup {t})
        BY <1>4, FS_AddElement DEF IsWorker
  <2>2. IsWorker(s) /\ s.step = rest.step /\ s.updated = rest.updated
        BY <1>4, <2>1 DEF IsWorker
  <2>3. Becomes(w, s)
        BY <1>7
  <2> HIDE DEF s
  <2>4. \A i \in items : Kept(i) => ~Touches(s, i.id)
        BY <1>4, <1>6, <2>2 DEF Touches
  <2> QED BY <1>2, <2>2, <2>3, <2>4, WorkerKeepsEdits
<1>8. CASE Becomes(w, rest)
      BY <1>2, <1>4, <1>6, <1>8, WorkerKeepsEdits
<1>9. ASSUME NEW i \in ItemsOf(t), ~i.edited, Becomes(w, [rest EXCEPT !.step = "flush", !.item = i])
      PROVE  EditInv'
  <2> DEFINE s == [rest EXCEPT !.step = "flush", !.item = i]
  <2>1. IsWorker(s) /\ s.item = i /\ s.updated = rest.updated
        BY <1>4 DEF IsWorker
  <2>2. Becomes(w, s)
        BY <1>9
  <2> HIDE DEF s
  <2>3. \A j \in items : Kept(j) => j.id # i.id
        BY <1>9 DEF ItemsOf, Kept, EditInv, ItemsOK
  <2>4. \A j \in items : Kept(j) => ~Touches(s, j.id)
        BY <1>4, <1>6, <2>1, <2>3 DEF Touches
  <2> QED BY <1>2, <2>1, <2>2, <2>4, WorkerKeepsEdits
<1> QED BY <1>5, <1>7, <1>8, <1>9

LEMMA FlushKeepsEdits ==
  ASSUME EditInv, NEW w \in Workers, FlushItem(w)
  PROVE  EditInv'
<1> DEFINE me == workers[w]
           i == me.item
           title == me.drafts[i.task]
           done == [me EXCEPT !.step = "items", !.item = NoItem]
           s == [done EXCEPT !.updated = Retitled(@, i.id, title)]
<1>1. IsWorker(me) /\ (\A j \in items : Kept(j) => ~Touches(me, j.id)) /\ me.step = "flush"
      BY DEF EditInv, WorkersOK, FlushItem
<1>2. UNCHANGED <<items, lastId, raced>>
      BY DEF FlushItem
<1>3. Becomes(w, done) \/ Becomes(w, s) \/ Becomes(w, Raised)
      BY DEF FlushItem
<1>4. IsWorker(done) /\ done.step = "items" /\ done.updated = me.updated
      BY <1>1 DEF IsWorker
<1> HIDE DEF done
<1>5. IsWorker(s) /\ s.step = "items" /\ s.updated = Retitled(me.updated, i.id, title)
      BY <1>4 DEF IsWorker
<1> HIDE DEF s
<1>6. DOMAIN s.updated = DOMAIN me.updated \cup {i.id}
      BY <1>5 DEF Retitled
<1>7. \A j \in items : Kept(j) => ~Touches(done, j.id) /\ ~Touches(s, j.id)
      BY <1>1, <1>4, <1>5, <1>6 DEF Touches
<1> QED BY <1>2, <1>3, <1>4, <1>5, <1>7, WorkerKeepsEdits, RestingOK DEF Raised

-----------------------------------------------------------------------------
(* A commit that leaves the kept rows as they are, may rewrite or drop the *)
(* others and adds rows that nobody has edited.                            *)
LEMMA RowsCommitted ==
  ASSUME EditInv, NEW w \in Workers, NEW STATE s, Becomes(w, s), IsWorker(s),
         \A i \in items : Kept(i) => ~Touches(s, i.id),
         NEW STATE old, NEW STATE written, NEW STATE len, NEW STATE added,
         old \subseteq items, \A i \in items : Kept(i) => i \in old, len \in Nat,
         \A i \in old : /\ IsItem(written[i]) /\ written[i].id = i.id
                        /\ written[i].edited = i.edited
                        /\ Kept(i) => written[i] = i,
         \A n \in 1..len : IsItem(added[n]) /\ added[n].id = lastId + n /\ ~added[n].edited,
         items' = {written[i] : i \in old} \cup {added[n] : n \in 1..len},
         lastId' = lastId + len, raced' = raced
  PROVE  EditInv' /\ \A i \in items : Kept(i) => i \in items'
<1>1. ItemsOK
      BY DEF EditInv
<1>2. \A j \in items' : \/ \E i \in old : j = written[i]
                        \/ \E n \in 1..len : j = added[n]
      OBVIOUS
<1>3. \A j \in items' : IsItem(j) /\ j.id <= lastId'
  <2> SUFFICES ASSUME NEW j \in items' PROVE IsItem(j) /\ j.id <= lastId'
      OBVIOUS
  <2>1. CASE \E i \in old : j = written[i]
        BY <1>1, <2>1 DEF ItemsOK, IsItem
  <2>2. CASE \E n \in 1..len : j = added[n]
        BY <1>1, <2>2 DEF ItemsOK
  <2> QED BY <1>2, <2>1, <2>2
<1>4. \A j, k \in items' : j.id = k.id => j = k
  <2> SUFFICES ASSUME NEW j \in items', NEW k \in items', j.id = k.id PROVE j = k
      OBVIOUS
  <2>1. \A i \in old : i.id \in Nat /\ i.id <= lastId /\ lastId \in Nat
        BY <1>1 DEF ItemsOK, IsItem
  <2>2. \A h, i \in old : h.id = i.id => h = i
        BY <1>1 DEF ItemsOK
  <2>3. ASSUME NEW h \in old, NEW i \in old, j = written[h], k = written[i] PROVE j = k
        BY <2>2, <2>3
  <2>4. ASSUME NEW m \in 1..len, NEW n \in 1..len, j = added[m], k = added[n] PROVE j = k
    <3>1. lastId + m = lastId + n
          BY <2>4
    <3> QED BY <1>1, <2>4, <3>1 DEF ItemsOK
  <2>5. \A i \in old, n \in 1..len : written[i].id # added[n].id
    <3> SUFFICES ASSUME NEW i \in old, NEW n \in 1..len PROVE written[i].id # added[n].id
        OBVIOUS
    <3>1. written[i].id = i.id /\ added[n].id = lastId + n
          OBVIOUS
    <3> QED BY <2>1, <3>1
  <2>6. /\ (\E i \in old : j = written[i]) \/ (\E n \in 1..len : j = added[n])
        /\ (\E i \in old : k = written[i]) \/ (\E n \in 1..len : k = added[n])
        BY <1>2
  <2>7. CASE (\E i \in old : j = written[i]) /\ (\E i \in old : k = written[i])
        BY <2>3, <2>7
  <2>8. CASE (\E n \in 1..len : j = added[n]) /\ (\E n \in 1..len : k = added[n])
        BY <2>4, <2>8
  <2>9. CASE (\E i \in old : j = written[i]) /\ (\E n \in 1..len : k = added[n])
        BY <2>5, <2>9
  <2>10. CASE (\E n \in 1..len : j = added[n]) /\ (\E i \in old : k = written[i])
        BY <2>5, <2>10
  <2> QED BY <2>6, <2>7, <2>8, <2>9, <2>10
<1>5. ItemsOK'
      BY <1>1, <1>3, <1>4 DEF ItemsOK
<1>6. \A j \in items' : Kept(j)' => j \in items /\ Kept(j)
      BY DEF Kept
<1>7. \A v \in Workers : workers'[v] = IF v = w THEN s ELSE workers[v]
      BY DEF EditInv, WorkersOK, Becomes
<1>8. WorkersOK'
      BY <1>7 DEF EditInv, WorkersOK, Becomes
<1>9. EditInv'
      BY <1>5, <1>6, <1>7, <1>8 DEF EditInv
<1> QED BY <1>9

LEMMA NewRow ==
  ASSUME NEW t, NEW n \in Nat, NEW origin
  PROVE  LET i == Numbered(t, n, origin) IN IsItem(i) /\ i.id = n /\ ~i.edited
BY DEF IsItem, Numbered

(* A row keeps its key and its flag when its title is assigned.            *)
LEMMA TitleAssigned ==
  ASSUME NEW i, IsItem(i), NEW title
  PROVE  LET j == [i EXCEPT !.title = title]
         IN  /\ IsItem(j) /\ j.id = i.id /\ j.edited = i.edited
             /\ title = i.title => j = i
BY DEF IsItem

LEMMA CommitKeepsEdits ==
  ASSUME EditInv, NEW w \in Workers, CommitItems(w)
  PROVE  EditInv' /\ \A i \in items : Kept(i) => i \in items'
<1> DEFINE me == workers[w]
           gone == {i \in items : /\ i.origin = "DETERMINISTIC" /\ ~i.edited
                                  /\ i.task \notin DOMAIN me.drafts}
           title(i) == IF i.id \in DOMAIN me.updated THEN me.updated[i.id] ELSE i.title
           order == SetToSeq(me.fresh)
           old == items \ gone
           written == [i \in old |-> [i EXCEPT !.title = title(i)]]
           row(n) == Numbered(order[n], lastId + n, "DETERMINISTIC")
           added == [n \in 1..Len(order) |-> [row(n) EXCEPT !.title = me.drafts[order[n]]]]
           s == [Resting EXCEPT !.step = "recommend", !.loaded = me.loaded, !.drafts = me.drafts]
<1>1. IsWorker(me) /\ (\A i \in items : Kept(i) => ~Touches(me, i.id)) /\ ItemsOK
      BY DEF EditInv, WorkersOK
<1>2. Len(order) \in Nat /\ DOMAIN order = 1..Len(order)
      BY <1>1, WrittenOut DEF IsWorker
<1>3. IsWorker(s) /\ \A id : ~Touches(s, id)
  <2>1. s.step = "recommend" /\ s.updated = Resting.updated /\ IsWorker(s)
        BY RestingOK DEF IsWorker
  <2> HIDE DEF s
  <2> QED BY <2>1, RestingOK DEF Touches
<1>4. \A i \in old : /\ IsItem(written[i]) /\ written[i].id = i.id
                     /\ written[i].edited = i.edited
                     /\ Kept(i) => written[i] = i
  <2> SUFFICES ASSUME NEW i \in old
               PROVE  /\ IsItem(written[i]) /\ written[i].id = i.id
                      /\ written[i].edited = i.edited
                      /\ Kept(i) => written[i] = i
      OBVIOUS
  <2>1. written[i] = [i EXCEPT !.title = title(i)] /\ IsItem(i)
        BY <1>1 DEF ItemsOK
  <2>2. Kept(i) => title(i) = i.title
        BY <1>1 DEF Touches
  <2> HIDE DEF written, title
  <2> QED BY <2>1, <2>2, TitleAssigned
<1>5. \A n \in 1..Len(order) : IsItem(added[n]) /\ added[n].id = lastId + n /\ ~added[n].edited
  <2> SUFFICES ASSUME NEW n \in 1..Len(order)
               PROVE  IsItem(added[n]) /\ added[n].id = lastId + n /\ ~added[n].edited
      OBVIOUS
  <2>1. IsItem(row(n)) /\ row(n).id = lastId + n /\ ~row(n).edited
        BY <1>1, <1>2, NewRow DEF ItemsOK
  <2>2. added[n] = [row(n) EXCEPT !.title = me.drafts[order[n]]]
        OBVIOUS
  <2> HIDE DEF added, row
  <2> QED BY <2>1, <2>2, TitleAssigned
<1>6. /\ items' = {written[i] : i \in old} \cup {added[n] : n \in 1..Len(order)}
      /\ lastId' = lastId + Len(order) /\ raced' = raced /\ Becomes(w, s)
  <2>1. items' = {[i EXCEPT !.title = title(i)] : i \in old}
                   \cup {[row(n) EXCEPT !.title = me.drafts[order[n]]] : n \in DOMAIN order}
        BY DEF CommitItems
  <2>2. lastId' = lastId + Len(order) /\ raced' = raced /\ Becomes(w, s)
        BY DEF CommitItems
  <2> QED BY <1>2, <2>1, <2>2
<1>7. \A i \in items : Kept(i) => i \in old
      BY DEF Kept
<1>8. old \subseteq items
      OBVIOUS
<1> HIDE DEF old, written, added, order, s
<1> QED BY <1>2, <1>3, <1>4, <1>5, <1>6, <1>7, <1>8, RowsCommitted

LEMMA RecommendKeepsEdits ==
  ASSUME EditInv, NEW w \in Workers, Recommend(w)
  PROVE  EditInv' /\ \A i \in items : Kept(i) => i \in items'
<1> DEFINE me == workers[w]
           s == [me EXCEPT !.step = "complete", !.drafts = NoTitles]
<1>1. IsWorker(me) /\ (\A i \in items : Kept(i) => ~Touches(me, i.id)) /\ ItemsOK
      BY DEF EditInv, WorkersOK
<1>2. IsWorker(s) /\ s.step = "complete" /\ s.updated = me.updated
      BY <1>1 DEF IsWorker
<1>3. Becomes(w, s) /\ raced' = raced
      BY DEF Recommend
<1> HIDE DEF s
<1>4. \A i \in items : Kept(i) => ~Touches(s, i.id)
      BY <1>1, <1>2 DEF Touches
<1>5. CASE UNCHANGED <<items, lastId>>
      BY <1>2, <1>3, <1>4, <1>5, WorkerKeepsEdits
<1>6. ASSUME NEW recs \in Recommendations,
             LET order == SetToSeq(GroundTruth(recs, me.drafts))
             IN  /\ items' = {i \in items : i.origin = "DETERMINISTIC" \/ i.edited}
                               \cup {Numbered(order[n], lastId + n, "AI_GENERATED") : n \in DOMAIN order}
                 /\ lastId' = lastId + Len(order)
      PROVE  EditInv' /\ \A i \in items : Kept(i) => i \in items'
  <2> DEFINE order == SetToSeq(GroundTruth(recs, me.drafts))
             old == {i \in items : i.origin = "DETERMINISTIC" \/ i.edited}
             written == [i \in old |-> i]
             added == [n \in 1..Len(order) |-> Numbered(order[n], lastId + n, "AI_GENERATED")]
  <2>1. Len(order) \in Nat /\ DOMAIN order = 1..Len(order)
        BY AnswersAreFinite, FilteredFinite, WrittenOut
  <2>2. /\ items' = {written[i] : i \in old} \cup {added[n] : n \in 1..Len(order)}
        /\ lastId' = lastId + Len(order)
        BY <1>6, <2>1
  <2>3. \A i \in old : /\ IsItem(written[i]) /\ written[i].id = i.id
                       /\ written[i].edited = i.edited
                       /\ Kept(i) => written[i] = i
        BY <1>1 DEF ItemsOK
  <2>4. \A n \in 1..Len(order) : IsItem(added[n]) /\ added[n].id = lastId + n /\ ~added[n].edited
        BY <1>1, <2>1, NewRow DEF ItemsOK
  <2>5. old \subseteq items /\ \A i \in items : Kept(i) => i \in old
        BY DEF Kept
  <2> HIDE DEF order, old, written, added
  <2> QED BY <1>2, <1>3, <1>4, <2>1, <2>2, <2>3, <2>4, <2>5, RowsCommitted
<1> QED BY <1>5, <1>6 DEF Recommend

-----------------------------------------------------------------------------
(* The student's write waits for rows that are locked, and marks as raced  *)
(* a key that a generation has loaded.                                     *)
LEMMA WriteKeepsEdits ==
  ASSUME EditInv, EditWrite
  PROVE  EditInv' /\ \A i \in items : Kept(i) => i \in items'
<1> DEFINE edit(i) == [i EXCEPT !.title = 0, !.edited = TRUE]
<1>1. ItemsOK /\ WorkersOK /\ UNCHANGED <<lastId, workers>>
      BY DEF EditInv, EditWrite
<1>2. \A i : IsItem(i) => /\ IsItem(edit(i)) /\ edit(i).id = i.id
                          /\ edit(i).edited /\ edit(i).title = 0
                          /\ i.edited /\ i.title = 0 => edit(i) = i
      BY DEF IsItem
<1>3. items' = {IF i.id = editor.id THEN edit(i) ELSE i : i \in items}
      BY DEF EditWrite
<1> HIDE DEF edit
<1>4. \A j \in items' : \E i \in items :
        /\ IsItem(j) /\ j.id = i.id
        /\ j = IF i.id = editor.id THEN edit(i) ELSE i
      BY <1>1, <1>2, <1>3 DEF ItemsOK
<1>5. ItemsOK'
      BY <1>1, <1>4 DEF ItemsOK
<1>6. ASSUME NEW j \in items', Kept(j)'
      PROVE  j.title = 0 /\ \A w \in Workers : ~Touches(workers[w], j.id)
  <2>1. PICK i \in items : IsItem(j) /\ j.id = i.id /\ j = IF i.id = editor.id THEN edit(i) ELSE i
        BY <1>4
  <2>2. j.id \notin raced /\ \A w \in Workers : workers[w].item.id = editor.id => j.id # editor.id
        BY <1>6 DEF Kept, EditWrite
  <2>3. CASE i.id = editor.id
    <3>1. j.title = 0
          BY <1>1, <1>2, <2>1, <2>3 DEF ItemsOK
    <3>2. \A w \in Workers : ~Touches(workers[w], j.id)
          BY <2>1, <2>2, <2>3 DEF Touches, EditWrite
    <3> QED BY <3>1, <3>2
  <2>4. CASE i.id # editor.id
        BY <1>6, <2>1, <2>2, <2>4 DEF EditInv, Kept
  <2> QED BY <2>3, <2>4
<1>7. EditInv'
      BY <1>1, <1>5, <1>6 DEF EditInv, WorkersOK
<1>8. \A i \in items : Kept(i) => i \in items'
  <2> SUFFICES ASSUME NEW i \in items, Kept(i) PROVE i \in items'
      OBVIOUS
  <2>1. IsItem(i) /\ i.edited /\ i.title = 0
        BY <1>1 DEF EditInv, ItemsOK, Kept
  <2>2. edit(i) = i
        BY <1>2, <2>1
  <2> QED BY <1>3, <2>2
<1> QED BY <1>7, <1>8

(* The other steps of a worker leave the rows alone and touch none.        *)
LEMMA OthersKeepEdits ==
  ASSUME EditInv, NEW w \in Workers,
         \/ ClaimRoadmap(w) \/ CompleteRoadmap(w) \/ TaskRaises(w)
         \/ OnFailure(w) \/ MarkRoadmapFailed(w) \/ RoadWorkerDies(w)
  PROVE  EditInv' /\ UNCHANGED items
<1>1. UNCHANGED <<items, lastId, raced>>
      BY DEF ClaimRoadmap, CompleteRoadmap, TaskRaises, OnFailure, MarkRoadmapFailed, RoadWorkerDies
<1>2. \/ UNCHANGED workers \/ Becomes(w, Resting)
      \/ \E x \in {"load", "failing", "mark_failed"} : Becomes(w, [Resting EXCEPT !.step = x])
      BY DEF ClaimRoadmap, CompleteRoadmap, TaskRaises, OnFailure, MarkRoadmapFailed,
         RoadWorkerDies, Raised
<1>3. CASE UNCHANGED workers
      BY <1>1, <1>3 DEF EditInv, ItemsOK, WorkersOK, Kept
<1>4. CASE Becomes(w, Resting)
      BY <1>1, <1>4, RestingOK, WorkerKeepsEdits
<1>5. ASSUME NEW x \in {"load", "failing", "mark_failed"}, Becomes(w, [Resting EXCEPT !.step = x])
      PROVE  EditInv'
  <2>1. /\ IsWorker([Resting EXCEPT !.step = x])
        /\ \A i \in items : Kept(i) => ~Touches([Resting EXCEPT !.step = x], i.id)
        BY RestingOK
  <2> QED BY <1>1, <1>5, <2>1, WorkerKeepsEdits
<1> QED BY <1>1, <1>2, <1>3, <1>4, <1>5

LEMMA NextKeepsEdits ==
  ASSUME EditInv, [RoadNext]_roadVars
  PROVE  EditInv' /\ \A i \in items : Kept(i) => i \in items'
<1>1. CASE \/ \E t \in Triggers :
                \/ TriggerLoad(t) \/ TriggerCreate(t) \/ Publish(t)
                \/ MarkRoadmapQueued(t) \/ TriggerDies(t)
           \/ EditLoad \/ ChangeTask \/ UNCHANGED roadVars
  <2>1. UNCHANGED <<items, lastId, workers, raced>>
        BY <1>1 DEF TriggerLoad, TriggerCreate, Publish, MarkRoadmapQueued, TriggerDies,
           EditLoad, ChangeTask, roadVars
  <2> QED BY <2>1 DEF EditInv, ItemsOK, WorkersOK, Kept
<1>2. ASSUME NEW w \in Workers,
             \/ ClaimRoadmap(w) \/ LoadPlan(w) \/ InsertWeeks(w) \/ LoadItem(w)
             \/ FlushItem(w) \/ CommitItems(w) \/ Recommend(w) \/ CompleteRoadmap(w)
             \/ TaskRaises(w) \/ OnFailure(w) \/ MarkRoadmapFailed(w) \/ RoadWorkerDies(w)
      PROVE  EditInv' /\ \A i \in items : Kept(i) => i \in items'
  <2>1. CASE CommitItems(w) \/ Recommend(w)
        BY <2>1, CommitKeepsEdits, RecommendKeepsEdits
  <2>2. CASE LoadPlan(w) \/ InsertWeeks(w) \/ LoadItem(w) \/ FlushItem(w)
    <3>1. UNCHANGED items
          BY <2>2 DEF LoadPlan, InsertWeeks, LoadItem, FlushItem
    <3> QED BY <2>2, <3>1, PlanKeepsEdits, LoadKeepsEdits, FlushKeepsEdits
  <2>3. CASE \/ ClaimRoadmap(w) \/ CompleteRoadmap(w) \/ TaskRaises(w)
             \/ OnFailure(w) \/ MarkRoadmapFailed(w) \/ RoadWorkerDies(w)
        BY <2>3, OthersKeepEdits
  <2> QED BY <1>2, <2>1, <2>2, <2>3
<1>3. CASE EditWrite
      BY <1>3, WriteKeepsEdits
<1> QED BY <1>1, <1>2, <1>3 DEF RoadNext

(* What the student edited stays through every regeneration, whatever the  *)
(* requests, crashes and answers of the model, unless the edit fell        *)
(* between the read of the item and its UPDATE (generate).                 *)
THEOREM EditsKept == RoadSpec => EditsSurvive
<1>1. EditInv /\ [RoadNext]_roadVars
        => [\A i \in items : i.edited /\ i.id \notin raced => i \in items']_roadVars
      BY NextKeepsEdits DEF Kept
<1>2. EditInv /\ [RoadNext]_roadVars => EditInv'
      BY NextKeepsEdits
<1> QED BY <1>1, <1>2, InitEdits, PTL DEF RoadSpec, EditsSurvive

-----------------------------------------------------------------------------
(* One deterministic item per task.  While no two triggers have overlapped    *)
(* and none has died before marking, one message or one generation is in      *)
(* flight, and a trigger that is about to publish finds neither; a generation *)
(* therefore inserts an item for a task that has none until its commit.       *)

Busy(w) == workers[w].step # "idle"

OneFlight ==
  /\ \A t, u \in Triggers : triggers[t] # "idle" /\ triggers[u] # "idle" => t = u
  /\ \A v, w \in Workers : Busy(v) /\ Busy(w) => v = w
  /\ messages \in {0, 1}
  /\ messages = 1 => \A w \in Workers : ~Busy(w)
  /\ (\E w \in Workers : Busy(w)) => status \in Running
  /\ messages = 1 /\ (\A t \in Triggers : triggers[t] # "mark") => status \in Running
  /\ \A t \in Triggers : triggers[t] \in {"create", "publish"} =>
       messages = 0 /\ \A w \in Workers : ~Busy(w)

HasItem(t) == \E i \in items : i.origin = "DETERMINISTIC" /\ i.task = t

OneEach ==
  /\ \A i, j \in items :
       i.origin = "DETERMINISTIC" /\ j.origin = "DETERMINISTIC" /\ i.task = j.task => i = j
  /\ \A w \in Workers : Busy(w) => \A t \in workers[w].fresh : ~HasItem(t)

RoadInv ==
  /\ EditInv
  /\ triggers = [t \in Triggers |-> triggers[t]]
  /\ ~excused => OneFlight /\ OneEach

LEMMA InitRoad == RoadInit => RoadInv
<1> SUFFICES ASSUME RoadInit PROVE RoadInv
    OBVIOUS
<1>1. EditInv /\ triggers = [t \in Triggers |-> triggers[t]]
      BY InitEdits DEF RoadInit
<1>2. /\ \A w \in Workers : workers[w] = Resting
      /\ \A t \in Triggers : triggers[t] = "idle"
      /\ messages = 0
      BY DEF RoadInit
<1>3. \A w \in Workers : ~Busy(w)
      BY <1>2 DEF Busy, Resting
<1>4. OneFlight
      BY <1>2, <1>3 DEF OneFlight
<1>5. \A i, j \in items : i = j
      BY DEF RoadInit
<1>6. OneEach
      BY <1>3, <1>5 DEF OneEach
<1> QED BY <1>1, <1>4, <1>6 DEF RoadInv

\* What becomes of the workers when w becomes s.
LEMMA BecomesState ==
  ASSUME EditInv, NEW w \in Workers, NEW STATE s, Becomes(w, s)
  PROVE  workers'[w] = s /\ \A v \in Workers \ {w} : workers'[v] = workers[v]
BY DEF EditInv, WorkersOK, Becomes

(* Requests *)
LEMMA TriggersKeepFlight ==
  ASSUME RoadInv, ~excused', NEW t \in Triggers,
         TriggerLoad(t) \/ TriggerCreate(t) \/ Publish(t) \/ MarkRoadmapQueued(t) \/ TriggerDies(t)
  PROVE  triggers' = [u \in Triggers |-> triggers'[u]] /\ OneFlight' /\ OneEach'
<1>1. ~excused
      BY DEF TriggerLoad, TriggerCreate, Publish, MarkRoadmapQueued, TriggerDies
<1>2. OneFlight /\ OneEach
      BY <1>1 DEF RoadInv
<1>3. UNCHANGED <<items, workers>>
      BY DEF TriggerLoad, TriggerCreate, Publish, MarkRoadmapQueued, TriggerDies
<1>4. PICK step : TriggerGoes(t, step)
      BY DEF TriggerLoad, TriggerCreate, Publish, MarkRoadmapQueued, TriggerDies
<1>5. /\ triggers' = [u \in Triggers |-> triggers'[u]]
      /\ triggers'[t] = step /\ \A u \in Triggers \ {t} : triggers'[u] = triggers[u]
      BY <1>4 DEF RoadInv, TriggerGoes
<1>6. OneEach'
      BY <1>2, <1>3 DEF OneEach, HasItem, Busy
<1>7. \A w \in Workers : Busy(w)' <=> Busy(w)
      BY <1>3 DEF Busy
<1>8. OneFlight'
    <2>1. CASE TriggerLoad(t)
        <3>1. UNCHANGED <<status, messages>> /\ triggers[t] = "idle"
              BY <2>1 DEF TriggerLoad
        <3>2. step \in {"create", "publish", "idle"} /\ (status \in Running => step = "idle")
              BY <2>1, <1>5, <3>1 DEF TriggerLoad, TriggerGoes, RoadInv, Running
        <3>3. status \notin Running => \A u \in Triggers : triggers[u] = "idle"
              BY <2>1 DEF TriggerLoad
        <3>4. CASE status \in Running
              BY <1>2, <1>5, <1>7, <3>1, <3>2, <3>4 DEF OneFlight
        <3>5. CASE status \notin Running
            <4>1. messages = 0 /\ \A w \in Workers : ~Busy(w)
                  BY <1>2, <3>3, <3>5 DEF OneFlight
            <4>2. messages' = 0 /\ \A w \in Workers : ~Busy(w)'
                  BY <1>7, <3>1, <4>1
            <4>3. \A u \in Triggers : triggers'[u] # "idle" => u = t
                  BY <1>5, <3>3, <3>5
            <4> QED BY <4>2, <4>3 DEF OneFlight
        <3> QED BY <3>4, <3>5
    <2>2. CASE TriggerCreate(t)
        <3>1. UNCHANGED messages /\ triggers[t] = "create" /\ step \in {"publish", "idle"}
              BY <2>2, <1>5 DEF TriggerCreate, TriggerGoes, RoadInv
        <3> QED BY <1>2, <1>5, <1>7, <3>1 DEF OneFlight
    <2>3. CASE Publish(t)
        <3>1. /\ UNCHANGED status /\ triggers[t] = "publish"
              /\ \/ messages' = messages + 1 /\ step = "mark"
                 \/ messages' = messages /\ step = "idle"
              BY <2>3, <1>5 DEF Publish, TriggerGoes, RoadInv
        <3>2. messages = 0
              BY <1>2, <3>1 DEF OneFlight
        <3> QED BY <1>2, <1>5, <1>7, <3>1, <3>2 DEF OneFlight
    <2>4. CASE MarkRoadmapQueued(t)
        <3>1. UNCHANGED messages /\ triggers[t] = "mark" /\ step = "idle" /\ status' \in Running
              BY <2>4, <1>5 DEF MarkRoadmapQueued, TriggerGoes, RoadInv, Running
        <3> QED BY <1>2, <1>5, <1>7, <3>1 DEF OneFlight
    <2>5. CASE TriggerDies(t)
        <3>1. UNCHANGED <<status, messages>> /\ triggers[t] \notin {"idle", "mark"} /\ step = "idle"
              BY <2>5, <1>5 DEF TriggerDies, TriggerGoes, RoadInv
        <3> QED BY <1>2, <1>5, <1>7, <3>1 DEF OneFlight
    <2> QED BY <2>1, <2>2, <2>3, <2>4, <2>5
<1> QED BY <1>5, <1>6, <1>8

(* Generations *)

\* The one generation in flight goes on, or ends with the status as it is.
LEMMA BusyKeepsFlight ==
  ASSUME EditInv, OneFlight, NEW w \in Workers, NEW STATE s, Busy(w), Becomes(w, s),
         UNCHANGED <<status, messages, triggers>>
  PROVE  OneFlight'
<1>1. \A v \in Workers : Busy(v)' => v = w
      BY BecomesState DEF OneFlight, Busy
<1> QED BY <1>1 DEF OneFlight

\* It ends, with whatever status.
LEMMA DoneKeepsFlight ==
  ASSUME EditInv, OneFlight, NEW w \in Workers, Busy(w), Becomes(w, Resting),
         UNCHANGED <<messages, triggers>>
  PROVE  OneFlight'
<1>1. \A v \in Workers : ~Busy(v)'
      BY BecomesState DEF OneFlight, Busy, Resting
<1>2. messages = 0
      BY DEF OneFlight
<1> QED BY <1>1, <1>2 DEF OneFlight

LEMMA DeathKeepsFlight ==
  ASSUME EditInv, OneFlight, NEW w \in Workers, RoadWorkerDies(w)
  PROVE  OneFlight'
<1>1. Busy(w) /\ Becomes(w, Resting) /\ messages' = messages + 1 /\ UNCHANGED <<status, triggers>>
      BY DEF RoadWorkerDies, Busy
<1>2. \A v \in Workers : ~Busy(v)'
      BY <1>1, BecomesState DEF OneFlight, Busy, Resting
<1>3. messages' = 1 /\ status \in Running
      BY <1>1 DEF OneFlight
<1>4. \A t \in Triggers : triggers[t] \notin {"create", "publish"}
      BY <1>1 DEF OneFlight
<1> QED BY <1>1, <1>2, <1>3, <1>4 DEF OneFlight

LEMMA ClaimKeepsFlight ==
  ASSUME EditInv, OneFlight, OneEach, NEW w \in Workers, ClaimRoadmap(w)
  PROVE  OneFlight' /\ OneEach'
<1>1. /\ messages > 0 /\ messages' = messages - 1 /\ UNCHANGED <<triggers, items>>
      /\ \/ status' = "PROCESSING" /\ Becomes(w, [Resting EXCEPT !.step = "load"])
         \/ UNCHANGED <<status, workers>>
      BY DEF ClaimRoadmap
<1>2. messages = 1 /\ messages' = 0
      BY <1>1 DEF OneFlight
<1>3. (\A v \in Workers : ~Busy(v)) /\ \A t \in Triggers : triggers[t] \notin {"create", "publish"}
      BY <1>2 DEF OneFlight
<1>4. CASE UNCHANGED <<status, workers>>
    <2>1. \A v \in Workers : ~Busy(v)'
          BY <1>3, <1>4 DEF Busy
    <2> QED BY <1>1, <1>2, <1>3, <2>1 DEF OneFlight, OneEach
<1>5. CASE status' = "PROCESSING" /\ Becomes(w, [Resting EXCEPT !.step = "load"])
    <2> DEFINE s == [Resting EXCEPT !.step = "load"]
    <2>1. s.fresh = {}
          BY DEF Resting
    <2>2. Becomes(w, s) /\ status' = "PROCESSING"
          BY <1>5
    <2> HIDE DEF s
    <2>3. workers'[w] = s /\ \A v \in Workers \ {w} : workers'[v] = workers[v]
          BY <2>2, BecomesState
    <2>4. \A v \in Workers : Busy(v)' => v = w
          BY <1>3, <2>3 DEF Busy
    <2>5. OneFlight'
          BY <1>1, <1>2, <1>3, <2>2, <2>4 DEF OneFlight, Running
    <2>6. OneEach'
          BY <1>1, <2>1, <2>3, <2>4 DEF OneEach
    <2> QED BY <2>5, <2>6
<1> QED BY <1>1, <1>4, <1>5

\* A step of the generation that writes no row.
LEMMA EachKept ==
  ASSUME EditInv, OneFlight, OneEach, NEW w \in Workers, NEW STATE s, Busy(w), Becomes(w, s),
         UNCHANGED items, \A t \in s.fresh : ~HasItem(t)
  PROVE  OneEach'
<1>1. workers'[w] = s /\ \A v \in Workers \ {w} : ~Busy(v)'
      BY BecomesState DEF OneFlight, Busy
<1>2. \A t : HasItem(t)' <=> HasItem(t)
      BY DEF HasItem
<1> QED BY <1>1, <1>2 DEF OneEach

LEMMA LostFresh ==
  /\ Resting.fresh = {} /\ Raised.fresh = {}
  /\ [Resting EXCEPT !.step = "mark_failed"].fresh = {}
BY DEF Resting, Raised

LEMMA GenerationKeepsEach ==
  ASSUME EditInv, OneFlight, OneEach, NEW w \in Workers,
         \/ LoadPlan(w) \/ InsertWeeks(w) \/ LoadItem(w) \/ FlushItem(w) \/ TaskRaises(w)
         \/ OnFailure(w) \/ MarkRoadmapFailed(w) \/ CompleteRoadmap(w) \/ RoadWorkerDies(w)
  PROVE  OneEach'
<1> DEFINE me == workers[w]
<1>1. Busy(w) /\ UNCHANGED items
      BY DEF Busy, LoadPlan, InsertWeeks, LoadItem, FlushItem, TaskRaises, OnFailure, MarkRoadmapFailed,
         CompleteRoadmap, RoadWorkerDies
<1>2. ASSUME NEW STATE s, Becomes(w, s), \A t \in s.fresh : ~HasItem(t) PROVE OneEach'
      BY <1>1, <1>2, EachKept
<1>3. IsWorker(me) /\ \A t \in me.fresh : ~HasItem(t)
      BY <1>1 DEF EditInv, WorkersOK, OneEach
<1>4. CASE LoadPlan(w)
    <2>1. PICK step, todo, drafts :
            Becomes(w, [me EXCEPT !.step = step, !.loaded = status, !.drafts = drafts, !.todo = todo])
          BY <1>4 DEF LoadPlan
    <2> DEFINE s == [me EXCEPT !.step = step, !.loaded = status, !.drafts = drafts, !.todo = todo]
    <2>2. Becomes(w, s) /\ s.fresh = me.fresh
          BY <1>3, <2>1 DEF IsWorker
    <2> HIDE DEF s
    <2> QED BY <1>2, <1>3, <2>2
<1>5. CASE InsertWeeks(w)
    <2> DEFINE s == [me EXCEPT !.step = "items", !.newWeeks = TRUE]
    <2>1. (Becomes(w, Raised) \/ Becomes(w, s)) /\ s.fresh = me.fresh
          BY <1>3, <1>5 DEF InsertWeeks, IsWorker
    <2> HIDE DEF s
    <2> QED BY <1>2, <1>3, <2>1, LostFresh
<1>6. CASE LoadItem(w)
    <2>1. PICK t \in me.todo :
            LET rest == [me EXCEPT !.todo = @ \ {t}]
            IN  \/ ItemsOf(t) = {} /\ Becomes(w, [rest EXCEPT !.fresh = @ \cup {t}])
                \/ \E i \in ItemsOf(t) :
                     Becomes(w, IF i.edited THEN rest
                                ELSE [rest EXCEPT !.step = "flush", !.item = i])
          BY <1>6 DEF LoadItem
    <2> DEFINE rest == [me EXCEPT !.todo = @ \ {t}]
               added == [rest EXCEPT !.fresh = @ \cup {t}]
    <2>2. IsWorker(rest) /\ rest.fresh = me.fresh
          BY <1>3 DEF IsWorker
    <2>3. \/ ItemsOf(t) = {} /\ Becomes(w, added)
          \/ Becomes(w, rest)
          \/ \E i \in ItemsOf(t) : Becomes(w, [rest EXCEPT !.step = "flush", !.item = i])
          BY <2>1
    <2> HIDE DEF rest
    <2>4. CASE ItemsOf(t) = {} /\ Becomes(w, added)
        <3>1. added.fresh = me.fresh \cup {t}
              BY <2>2 DEF IsWorker
        <3> HIDE DEF added
        <3>2. ~HasItem(t)
              BY <2>4 DEF HasItem, ItemsOf
        <3> QED BY <1>2, <1>3, <2>4, <3>1, <3>2
    <2>5. CASE Becomes(w, rest)
          BY <1>2, <1>3, <2>2, <2>5
    <2>6. ASSUME NEW i \in ItemsOf(t), Becomes(w, [rest EXCEPT !.step = "flush", !.item = i])
          PROVE  OneEach'
        <3> DEFINE s == [rest EXCEPT !.step = "flush", !.item = i]
        <3>1. Becomes(w, s) /\ s.fresh = me.fresh
              BY <2>2, <2>6 DEF IsWorker
        <3> HIDE DEF s
        <3> QED BY <1>2, <1>3, <3>1
    <2> QED BY <2>3, <2>4, <2>5, <2>6
<1>7. CASE FlushItem(w)
    <2> DEFINE i == me.item
               title == me.drafts[i.task]
               done == [me EXCEPT !.step = "items", !.item = NoItem]
               s == [done EXCEPT !.updated = Retitled(@, i.id, title)]
    <2>1. Becomes(w, done) \/ Becomes(w, s) \/ Becomes(w, Raised)
          BY <1>7 DEF FlushItem
    <2>2. IsWorker(done) /\ done.fresh = me.fresh
          BY <1>3 DEF IsWorker
    <2> HIDE DEF done
    <2>3. s.fresh = me.fresh
          BY <2>2 DEF IsWorker
    <2> HIDE DEF s
    <2> QED BY <1>2, <1>3, <2>1, <2>2, <2>3, LostFresh
<1>8. CASE TaskRaises(w) \/ OnFailure(w) \/ MarkRoadmapFailed(w) \/ CompleteRoadmap(w) \/ RoadWorkerDies(w)
    <2>1. Becomes(w, Raised) \/ Becomes(w, Resting) \/ Becomes(w, [Resting EXCEPT !.step = "mark_failed"])
          BY <1>8 DEF TaskRaises, OnFailure, MarkRoadmapFailed, CompleteRoadmap, RoadWorkerDies
    <2> QED BY <1>2, <2>1, LostFresh
<1> QED BY <1>4, <1>5, <1>6, <1>7, <1>8

MadeOf(rows, old, written, len, added) ==
  \A j \in rows : (\E i \in old : j = written[i]) \/ (\E n \in 1..len : j = added[n])

NewTasks(added, len) ==
  \A n \in 1..len : added[n].origin = "DETERMINISTIC" =>
    /\ ~HasItem(added[n].task)
    /\ \A m \in 1..len : added[m].task = added[n].task => m = n

\* Rows written from rows of other tasks, each keeping its task and origin,
\* and new rows: AI_GENERATED, or of tasks that have none, one of each.
LEMMA EachCommitted ==
  ASSUME EditInv, OneFlight, OneEach, NEW w \in Workers, NEW STATE s, Busy(w), Becomes(w, s), s.fresh = {},
         NEW STATE old, NEW STATE written, NEW STATE len, NEW STATE added, old \subseteq items,
         \A i \in old : written[i].origin = i.origin /\ written[i].task = i.task,
         NewTasks(added, len),
         MadeOf(items', old, written, len, added)
  PROVE  OneEach'
<1>1. workers'[w] = s /\ \A v \in Workers \ {w} : ~Busy(v)'
      BY BecomesState DEF OneFlight, Busy
<1>2. ASSUME NEW j \in items', NEW k \in items', j.origin = "DETERMINISTIC", k.origin = "DETERMINISTIC",
             j.task = k.task
      PROVE  j = k
    <2>1. /\ (\E i \in old : j = written[i]) \/ (\E n \in 1..len : j = added[n])
          /\ (\E i \in old : k = written[i]) \/ (\E n \in 1..len : k = added[n])
          BY DEF MadeOf
    <2>2. ASSUME NEW h \in old, NEW i \in old, j = written[h], k = written[i] PROVE j = k
        <3>1. h = i
              BY <1>2, <2>2 DEF OneEach
        <3> QED BY <2>2, <3>1
    <2>3. ASSUME NEW m \in 1..len, NEW n \in 1..len, j = added[m], k = added[n] PROVE j = k
          BY <1>2, <2>3 DEF NewTasks
    <2>4. \A i \in old, n \in 1..len :
            added[n].origin = "DETERMINISTIC" /\ written[i].origin = "DETERMINISTIC" =>
              written[i].task # added[n].task
          BY DEF HasItem, NewTasks
    <2> QED BY <1>2, <2>1, <2>2, <2>3, <2>4
<1> QED BY <1>1, <1>2 DEF OneEach

\* A finite set is written out without repetition.
LEMMA WrittenOnce ==
  ASSUME NEW S, IsFiniteSet(S)
  PROVE  \A m, n \in 1..Len(SetToSeq(S)) :
           SetToSeq(S)[n] \in S /\ (SetToSeq(S)[m] = SetToSeq(S)[n] => m = n)
<1>1. Cardinality(S) \in Nat /\ ExistsBijection(1..Cardinality(S), S)
      BY FS_CardinalityType
<1>2. \E f \in [1..Cardinality(S) -> S] : IsInjective(f)
      BY <1>1 DEF ExistsBijection, Bijection, Injection
<1> DEFINE order == SetToSeq(S)
<1>3. order \in [1..Cardinality(S) -> S] /\ IsInjective(order)
      BY <1>2 DEF SetToSeq
<1> HIDE DEF order
<1>4. Len(order) = Cardinality(S)
      BY <1>1, <1>3
<1>5. \A m, n \in 1..Len(order) : order[n] \in S /\ (order[m] = order[n] => m = n)
      BY <1>3, <1>4 DEF IsInjective
<1> QED BY <1>5 DEF order

LEMMA NewRowTask ==
  ASSUME NEW t, NEW n \in Nat, NEW origin
  PROVE  LET i == Numbered(t, n, origin) IN IsItem(i) /\ i.task = t /\ i.origin = origin
BY DEF IsItem, Numbered

LEMMA TitleKeepsTask ==
  ASSUME NEW i, IsItem(i), NEW title
  PROVE  LET j == [i EXCEPT !.title = title] IN j.task = i.task /\ j.origin = i.origin
BY DEF IsItem

LEMMA CommitKeepsEach ==
  ASSUME EditInv, OneFlight, OneEach, NEW w \in Workers, CommitItems(w)
  PROVE  OneEach'
<1> DEFINE me == workers[w]
           gone == {i \in items : /\ i.origin = "DETERMINISTIC" /\ ~i.edited
                                  /\ i.task \notin DOMAIN me.drafts}
           title(i) == IF i.id \in DOMAIN me.updated THEN me.updated[i.id] ELSE i.title
           order == SetToSeq(me.fresh)
           old == items \ gone
           written == [i \in old |-> [i EXCEPT !.title = title(i)]]
           row(n) == Numbered(order[n], lastId + n, "DETERMINISTIC")
           added == [n \in 1..Len(order) |-> [row(n) EXCEPT !.title = me.drafts[order[n]]]]
           s == [Resting EXCEPT !.step = "recommend", !.loaded = me.loaded, !.drafts = me.drafts]
<1>1. IsWorker(me) /\ ItemsOK /\ Busy(w) /\ \A t \in me.fresh : ~HasItem(t)
      BY DEF EditInv, WorkersOK, OneEach, CommitItems, Busy
<1>2. Len(order) \in Nat /\ DOMAIN order = 1..Len(order)
      BY <1>1, WrittenOut DEF IsWorker
<1>3. \A m, n \in 1..Len(order) : order[n] \in me.fresh /\ (order[m] = order[n] => m = n)
      BY <1>1, WrittenOnce DEF IsWorker
<1>4. s.fresh = {}
      BY DEF Resting
<1>5. \A i \in old : written[i].origin = i.origin /\ written[i].task = i.task
  <2> SUFFICES ASSUME NEW i \in old PROVE written[i].origin = i.origin /\ written[i].task = i.task
      OBVIOUS
  <2>1. written[i] = [i EXCEPT !.title = title(i)] /\ IsItem(i)
        BY <1>1 DEF ItemsOK
  <2> HIDE DEF written, title
  <2> QED BY <2>1, TitleKeepsTask
<1>6. \A n \in 1..Len(order) : added[n].task = order[n]
  <2> SUFFICES ASSUME NEW n \in 1..Len(order) PROVE added[n].task = order[n]
      OBVIOUS
  <2>1. IsItem(row(n)) /\ row(n).task = order[n]
        BY <1>1, <1>2, NewRowTask DEF ItemsOK
  <2>2. added[n] = [row(n) EXCEPT !.title = me.drafts[order[n]]]
        OBVIOUS
  <2> HIDE DEF added, row
  <2> QED BY <2>1, <2>2, TitleKeepsTask
<1>7. items' = {written[i] : i \in old} \cup {added[n] : n \in 1..Len(order)} /\ Becomes(w, s)
  <2>1. items' = {[i EXCEPT !.title = title(i)] : i \in old}
                   \cup {[row(n) EXCEPT !.title = me.drafts[order[n]]] : n \in DOMAIN order}
        BY DEF CommitItems
  <2>2. Becomes(w, s)
        BY DEF CommitItems
  <2> QED BY <1>2, <2>1, <2>2
<1>8. old \subseteq items
      OBVIOUS
<1> HIDE DEF old, written, added, order, s
<1>9. MadeOf(items', old, written, Len(order), added)
      BY <1>7 DEF MadeOf
<1>10. NewTasks(added, Len(order))
      BY <1>1, <1>3, <1>6 DEF NewTasks
<1> QED BY <1>1, <1>4, <1>5, <1>7, <1>8, <1>9, <1>10, EachCommitted

LEMMA RecommendKeepsEach ==
  ASSUME EditInv, OneFlight, OneEach, NEW w \in Workers, Recommend(w)
  PROVE  OneEach'
<1> DEFINE me == workers[w]
           s == [me EXCEPT !.step = "complete", !.drafts = NoTitles]
<1>1. IsWorker(me) /\ ItemsOK /\ Busy(w) /\ \A t \in me.fresh : ~HasItem(t)
      BY DEF EditInv, WorkersOK, OneEach, Recommend, Busy
<1>2. s.fresh = me.fresh /\ Becomes(w, s)
      BY <1>1 DEF IsWorker, Recommend
<1> HIDE DEF s
<1>3. CASE UNCHANGED items
      BY <1>1, <1>2, <1>3, EachKept
<1>4. ASSUME NEW order, items' = {i \in items : i.origin = "DETERMINISTIC" \/ i.edited}
                          \cup {Numbered(order[n], lastId + n, "AI_GENERATED") : n \in DOMAIN order}
      PROVE  OneEach'
  <2>1. \A i \in items' : i.origin = "DETERMINISTIC" => i \in items
      <3>1. \A n \in DOMAIN order : Numbered(order[n], lastId + n, "AI_GENERATED").origin = "AI_GENERATED"
            BY DEF Numbered
      <3> QED BY <1>4, <3>1
  <2>2. \A t : HasItem(t)' => HasItem(t)
        BY <2>1 DEF HasItem
  <2>3. workers'[w] = s /\ \A v \in Workers \ {w} : ~Busy(v)'
        BY <1>1, <1>2, BecomesState DEF OneFlight, Busy
  <2> QED BY <1>1, <1>2, <2>1, <2>2, <2>3 DEF OneEach
<1> QED BY <1>3, <1>4 DEF Recommend

\* The student's write keeps each item's task and origin.
LEMMA WriteKeepsEach ==
  ASSUME EditInv, OneEach, EditWrite
  PROVE  OneEach'
<1> DEFINE edit(i) == [i EXCEPT !.title = 0, !.edited = TRUE]
           new(i) == IF i.id = editor.id THEN edit(i) ELSE i
<1>1. ItemsOK /\ UNCHANGED workers
      BY DEF EditInv, EditWrite
<1>2. \A i : IsItem(i) => edit(i).task = i.task /\ edit(i).origin = i.origin
      BY DEF IsItem
<1>3. items' = {new(i) : i \in items}
      BY DEF EditWrite
<1>4. \A i \in items : new(i).task = i.task /\ new(i).origin = i.origin
      BY <1>1, <1>2 DEF ItemsOK
<1> HIDE DEF new
<1>5. \A t : HasItem(t)' => HasItem(t)
      BY <1>3, <1>4 DEF HasItem
<1>6. ASSUME NEW j \in items', NEW k \in items', j.origin = "DETERMINISTIC", k.origin = "DETERMINISTIC",
             j.task = k.task
      PROVE  j = k
  <2>1. PICK h \in items, i \in items : j = new(h) /\ k = new(i)
        BY <1>3
  <2>2. h = i
        BY <1>4, <1>6, <2>1 DEF OneEach
  <2> QED BY <2>1, <2>2
<1> QED BY <1>1, <1>5, <1>6 DEF OneEach, Busy

LEMMA NextKeepsRoad ==
  ASSUME RoadInv, [RoadNext]_roadVars
  PROVE  RoadInv'
<1>1. EditInv'
      BY NextKeepsEdits DEF RoadInv
<1>2. CASE \E t \in Triggers :
             \/ TriggerLoad(t) \/ TriggerCreate(t) \/ Publish(t)
             \/ MarkRoadmapQueued(t) \/ TriggerDies(t)
    <2>1. PICK t \in Triggers : \/ TriggerLoad(t) \/ TriggerCreate(t) \/ Publish(t)
                                \/ MarkRoadmapQueued(t) \/ TriggerDies(t)
          BY <1>2
    <2>2. triggers' = [u \in Triggers |-> triggers'[u]]
          BY <2>1 DEF RoadInv, TriggerLoad, TriggerCreate, Publish, MarkRoadmapQueued, TriggerDies, TriggerGoes
    <2> QED BY <1>1, <2>1, <2>2, TriggersKeepFlight DEF RoadInv
<1>3. ASSUME NEW w \in Workers,
             \/ ClaimRoadmap(w) \/ LoadPlan(w) \/ InsertWeeks(w) \/ LoadItem(w)
             \/ FlushItem(w) \/ CommitItems(w) \/ Recommend(w) \/ CompleteRoadmap(w)
             \/ TaskRaises(w) \/ OnFailure(w) \/ MarkRoadmapFailed(w) \/ RoadWorkerDies(w)
      PROVE  RoadInv'
    <2>1. UNCHANGED <<triggers, excused>>
          BY <1>3 DEF ClaimRoadmap, LoadPlan, InsertWeeks, LoadItem, FlushItem, CommitItems, Recommend,
             CompleteRoadmap, TaskRaises, OnFailure, MarkRoadmapFailed, RoadWorkerDies
    <2>2. ASSUME ~excused PROVE OneFlight' /\ OneEach'
        <3>1. EditInv /\ OneFlight /\ OneEach
              BY <2>2 DEF RoadInv
        <3>2. CASE ClaimRoadmap(w)
              BY <3>1, <3>2, ClaimKeepsFlight
        <3>3. CASE RoadWorkerDies(w)
              BY <3>1, <3>3, DeathKeepsFlight, GenerationKeepsEach
        <3>4. CASE CompleteRoadmap(w) \/ MarkRoadmapFailed(w)
            <4>1. Busy(w) /\ Becomes(w, Resting) /\ UNCHANGED <<messages, triggers>>
                  BY <3>4 DEF CompleteRoadmap, MarkRoadmapFailed, Busy
            <4> QED BY <3>1, <3>4, <4>1, DoneKeepsFlight, GenerationKeepsEach
        <3>5. CASE \/ LoadPlan(w) \/ InsertWeeks(w) \/ LoadItem(w) \/ FlushItem(w) \/ CommitItems(w)
                   \/ Recommend(w) \/ TaskRaises(w) \/ OnFailure(w)
            <4>1. Busy(w) /\ UNCHANGED <<status, messages, triggers>>
                  BY <3>5 DEF Busy, LoadPlan, InsertWeeks, LoadItem, FlushItem, CommitItems, Recommend,
                     TaskRaises, OnFailure
            <4>2. \E s : Becomes(w, s)
                  BY <3>5 DEF LoadPlan, InsertWeeks, LoadItem, FlushItem, CommitItems, Recommend,
                     TaskRaises, OnFailure
            <4>3. Becomes(w, workers'[w])
                  BY <3>1, <4>2 DEF EditInv, WorkersOK, Becomes
            <4>4. OneFlight'
                  BY <3>1, <4>1, <4>3, BusyKeepsFlight
            <4> QED BY <3>1, <3>5, <4>4, GenerationKeepsEach, CommitKeepsEach, RecommendKeepsEach
        <3> QED BY <1>3, <3>2, <3>3, <3>4, <3>5
    <2>3. triggers' = [t \in Triggers |-> triggers'[t]]
          BY <2>1 DEF RoadInv
    <2> QED BY <1>1, <2>1, <2>2, <2>3 DEF RoadInv
<1>4. CASE EditWrite
    <2>1. UNCHANGED <<status, messages, triggers, workers, excused>>
          BY <1>4 DEF EditWrite
    <2>2. ~excused => OneFlight' /\ OneEach'
          BY <1>4, <2>1, WriteKeepsEach DEF RoadInv, OneFlight, Busy
    <2> QED BY <1>1, <2>1, <2>2 DEF RoadInv
<1>5. CASE EditLoad \/ ChangeTask \/ UNCHANGED roadVars
    <2>1. UNCHANGED <<status, messages, triggers, workers, excused, items>>
          BY <1>5 DEF EditLoad, ChangeTask, roadVars
    <2>2. ~excused => OneFlight' /\ OneEach'
          BY <2>1 DEF RoadInv, OneFlight, OneEach, HasItem, Busy
    <2> QED BY <1>1, <2>1, <2>2 DEF RoadInv
<1> QED BY <1>2, <1>3, <1>4, <1>5 DEF RoadNext

(* A task has one deterministic item on the roadmap: unless two triggers have *)
(* overlapped or one has died before marking, no second generation is in      *)
(* flight to insert another (trigger, generate).                              *)
THEOREM OneItemSafety == RoadSpec => []OneItemPerTask
<1>1. RoadInv => OneItemPerTask
  <2> SUFFICES ASSUME RoadInv, ~excused, NEW t \in RoadTasks PROVE Cardinality(ItemsOf(t)) <= 1
      BY DEF OneItemPerTask
  <2>1. \A i, j \in ItemsOf(t) : i = j
        BY DEF RoadInv, OneEach, ItemsOf
  <2>2. CASE ItemsOf(t) = {}
        BY <2>2, FS_EmptySet
  <2>3. ASSUME NEW i \in ItemsOf(t) PROVE Cardinality(ItemsOf(t)) <= 1
    <3>1. ItemsOf(t) = {i}
          BY <2>1, <2>3
    <3>2. Cardinality({i}) = 1
          BY FS_Singleton
    <3> QED BY <3>1, <3>2
  <2> QED BY <2>2, <2>3
<1>2. RoadInv /\ [RoadNext]_roadVars => RoadInv'
      BY NextKeepsRoad
<1> QED BY <1>1, <1>2, InitRoad, PTL DEF RoadSpec
=============================================================================
