----------------------- MODULE CalendarReminders_proofs -----------------------
(***************************************************************************)
(* What the deadlines of a student's tasks bring about outside the         *)
(* database: one event per task in the student's calendar, for every       *)
(* number of requests, whatever the provider refuses and whoever dies, and *)
(* no reminder mailed twice, for every number of tasks, runs of the job    *)
(* and changes, but for the two ways resent names.                         *)
(***************************************************************************)
EXTENDS Calendar, Reminders, FiniteSetTheorems, TLAPS

(* Calendar: the events of a task *)

\* A request in state s; event ids so far go up to last.  An event that the
\* request has created is pending until its commit, and was created for a row
\* without one; only the inserting request has no row yet.
CallerOK(s, last) ==
  /\ s \in [step: {s.step}, op: {s.op}, sync: {s.sync}, inserted: BOOLEAN, made: {s.made}]
  /\ s.made \in Nat /\ s.made <= last
  /\ s.sync.event \in Nat /\ s.sync.event <= last
  /\ s.made # 0 => s.op = "sync" /\ s.step = "store" /\ s.sync.event = 0
  /\ s.inserted => s.op = "sync" /\ s.step \in {"call", "store"}
  /\ s.step \in {"call", "store"} => s.op = "sync" /\ (s.inserted <=> s.sync.id = 0)
  /\ s.step \in {"row", "insert"} => s.op = "sync"
  /\ s.step = "insert" => s.sync.id = 0
  /\ s.step = "connect" => s.op \in {"sync", "unsync", "delete"}
  /\ s.step \in {"find", "remove", "forget"} => s.op \in {"unsync", "delete"}
  /\ s.step \in {"connect", "remove", "forget"} /\ s.op # "sync" => s.sync.id # 0

CallersOK ==
  /\ callers = [c \in Callers |-> callers[c]]
  /\ \A c \in Callers : CallerOK(callers[c], lastEvent)

RowOK ==
  /\ sync \in [id: {sync.id}, event: Nat] /\ sync.event <= lastEvent
  /\ sync.id = 0 => sync.event = 0
  /\ lastRow \in Nat /\ lastEvent \in Nat
  /\ \A e \in events : e \in Nat /\ e # 0 /\ e <= lastEvent

\* task_id is unique: one request at a time inserts the row, when there is none.
OneInserts ==
  /\ \A c \in Callers : callers[c].inserted => sync.id = 0
  /\ \A c, o \in Callers : callers[c].inserted /\ callers[o].inserted => c = o

\* The row goes after its event.
RemovedFirst ==
  \A c \in Callers : callers[c].step = "forget" /\ callers[c].sync.event # 0 => callers[c].sync.event \notin events

\* Every event is the row's, or that of the one request about to store it, which
\* has loaded the row as it is.
EventsKnown ==
  /\ \A e \in events : e = sync.event \/ \E o \in Callers : callers[o].made = e
  /\ \A o \in Callers : callers[o].made # 0 /\ callers[o].sync.id # 0 => callers[o].sync = sync
  /\ \A o, p \in Callers : callers[o].made # 0 /\ callers[p].made # 0 => o = p

\* The deletion of the task has its event still to look for, or to remove.
Gone ==
  \/ \E d \in Callers : callers[d].op = "delete" /\ callers[d].step = "find"
  \/ /\ \A o \in Callers : callers[o].op # "sync"
     /\ \/ events = {}
        \/ \E d \in Callers : /\ callers[d].op = "delete" /\ callers[d].step \in {"connect", "remove"}
                              /\ events \subseteq {callers[d].sync.event}

EventInv ==
  CallersOK /\ RowOK /\ OneInserts /\ RemovedFirst /\ (~doubled => EventsKnown)

CalInv ==
  /\ EventInv
  /\ calTask = "deleted" /\ ~left /\ ~doubled => Gone

-----------------------------------------------------------------------------
\* The fields of NoCall, and of the states a request takes.
LEMMA NoCallOK ==
  ASSUME NEW last \in Nat
  PROVE  CallerOK(NoCall, last) /\ NoCall.made = 0 /\ ~NoCall.inserted /\ NoCall.step = "idle" /\ NoCall.op = "none"
BY DEF CallerOK, NoCall, NoSync

\* Moved(t, q, step): t is q but for the step, the row and the insertion.
Moved(t, q, step, row, inserted) ==
  /\ t \in [step: {t.step}, op: {t.op}, sync: {t.sync}, inserted: BOOLEAN, made: {t.made}]
  /\ t.step = step /\ t.op = q.op /\ t.sync = row /\ t.inserted = inserted /\ t.made = q.made

LEMMA StatesMove ==
  ASSUME NEW q, NEW last, CallerOK(q, last), NEW step, NEW row
  PROVE  /\ Moved([q EXCEPT !.step = step], q, step, q.sync, q.inserted)
         /\ Moved([q EXCEPT !.step = step, !.inserted = TRUE], q, step, q.sync, TRUE)
         /\ Moved([q EXCEPT !.step = step, !.sync = row], q, step, row, q.inserted)
<1>1. q = [step |-> q.step, op |-> q.op, sync |-> q.sync, inserted |-> q.inserted, made |-> q.made] /\ q.inserted \in BOOLEAN
      BY DEF CallerOK
<1> QED BY <1>1 DEF Moved

\* Created(t, q, made): t is q that is about to store the event made.
Created(t, q, made) ==
  /\ t \in [step: {t.step}, op: {t.op}, sync: {t.sync}, inserted: BOOLEAN, made: {t.made}]
  /\ t.step = "store" /\ t.op = q.op /\ t.sync = q.sync /\ t.inserted = q.inserted /\ t.made = made

LEMMA StatesCreate ==
  ASSUME NEW q, NEW last, CallerOK(q, last), NEW made
  PROVE  Created([q EXCEPT !.step = "store", !.made = made], q, made)
<1>1. q = [step |-> q.step, op |-> q.op, sync |-> q.sync, inserted |-> q.inserted, made |-> q.made] /\ q.inserted \in BOOLEAN
      BY DEF CallerOK
<1> QED BY <1>1 DEF Created

LEMMA InitCal == CalInit => CalInv
<1> SUFFICES ASSUME CalInit PROVE CalInv
    OBVIOUS
<1>1. lastEvent = 0 /\ events = {} /\ \A c \in Callers : callers[c] = NoCall
      BY DEF CalInit
<1>2. CallersOK
      BY <1>1, NoCallOK DEF CallersOK, CalInit
<1>3. RowOK
      BY DEF CalInit, RowOK, NoSync
<1>4. OneInserts /\ RemovedFirst /\ EventsKnown
      BY <1>1, NoCallOK DEF OneInserts, RemovedFirst, EventsKnown
<1> QED BY <1>2, <1>3, <1>4 DEF CalInit, CalInv, EventInv

LEMMA GoesState ==
  ASSUME CallersOK, NEW c \in Callers, NEW STATE s, CallGoes(c, s)
  PROVE  /\ callers'[c] = s /\ \A o \in Callers \ {c} : callers'[o] = callers[o]
         /\ callers' = [o \in Callers |-> callers'[o]]
BY DEF CallersOK, CallGoes

\* A request moves and neither the row nor the provider does: it creates nothing,
\* loses no event of its own but in a death, and inserts when nobody else does.
LEMMA MovesKeep ==
  ASSUME EventInv, NEW c \in Callers, NEW STATE s, CallGoes(c, s), CallerOK(s, lastEvent), s.made = 0,
         callers[c].made # 0 => doubled', doubled => doubled',
         s.inserted => sync.id = 0 /\ \A o \in Callers \ {c} : ~callers[o].inserted,
         s.step = "forget" /\ s.sync.event # 0 => s.sync.event \notin events,
         UNCHANGED <<sync, lastRow, events, lastEvent>>
  PROVE  EventInv'
<1>1. /\ callers'[c] = s /\ \A o \in Callers \ {c} : callers'[o] = callers[o]
      /\ callers' = [o \in Callers |-> callers'[o]]
      BY GoesState DEF EventInv
<1>2. CallersOK'
      BY <1>1 DEF EventInv, CallersOK
<1>3. RowOK'
      BY DEF EventInv, RowOK
<1>4. OneInserts'
      BY <1>1 DEF EventInv, OneInserts
<1>5. RemovedFirst'
      BY <1>1 DEF EventInv, RemovedFirst
<1>6. ASSUME ~doubled' PROVE EventsKnown'
    <2>1. EventsKnown /\ callers[c].made = 0
          BY <1>6 DEF EventInv
    <2>2. \A e \in events : e # 0
          BY DEF EventInv, RowOK
    <2>3. \A e \in events : e = sync.event \/ \E o \in Callers \ {c} : callers[o].made = e
          BY <2>1, <2>2 DEF EventsKnown
    <2> QED BY <1>1, <2>1, <2>3 DEF EventsKnown
<1> QED BY <1>2, <1>3, <1>4, <1>5, <1>6 DEF EventInv

LEMMA CallKeeps ==
  ASSUME EventInv, NEW c \in Callers, Call(c)
  PROVE  EventInv'
<1>1. callers[c].step = "idle" /\ UNCHANGED <<sync, lastRow, events, lastEvent, doubled>>
      BY DEF Call
<1>2. callers[c].made = 0 /\ lastEvent \in Nat
      BY <1>1 DEF EventInv, CallersOK, CallerOK, RowOK
<1>3. PICK s : CallGoes(c, s) /\ \/ s = [[NoCall EXCEPT !.step = "connect"] EXCEPT !.op = "sync"]
                                 \/ s = [[NoCall EXCEPT !.step = "find"] EXCEPT !.op = "unsync"]
                                 \/ s = [[NoCall EXCEPT !.step = "find"] EXCEPT !.op = "delete"]
      BY DEF Call
<1>4. /\ s = [step |-> s.step, op |-> s.op, sync |-> NoSync, inserted |-> FALSE, made |-> 0]
      /\ (s.step = "connect" /\ s.op = "sync") \/ (s.step = "find" /\ s.op \in {"unsync", "delete"})
      BY <1>3 DEF NoCall
<1>5. CallerOK(s, lastEvent) /\ s.made = 0 /\ ~s.inserted /\ s.step # "forget"
    <2>1. NoSync.event = 0
          BY DEF NoSync
    <2>2. s.made = 0 /\ s.sync = NoSync /\ s.inserted = FALSE
          BY <1>4
    <2>3. s \in [step: {s.step}, op: {s.op}, sync: {s.sync}, inserted: BOOLEAN, made: {s.made}]
          BY <1>4, <2>2
    <2>4. 0 \in Nat /\ 0 <= lastEvent
          BY <1>2
    <2> QED BY <1>4, <2>1, <2>2, <2>3, <2>4 DEF CallerOK
<1> QED BY <1>1, <1>2, <1>3, <1>5, MovesKeep

\* A request that ends keeps the invariant, when its event is not lost.
LEMMA EndKeeps ==
  ASSUME EventInv, NEW c \in Callers, CallEnds(c), callers[c].made # 0 => doubled', doubled => doubled',
         UNCHANGED <<sync, lastRow, events, lastEvent>>
  PROVE  EventInv'
<1>1. lastEvent \in Nat
      BY DEF EventInv, RowOK
<1>2. CallerOK(NoCall, lastEvent) /\ NoCall.made = 0 /\ ~NoCall.inserted /\ NoCall.step # "forget"
      BY <1>1, NoCallOK
<1>3. CallGoes(c, NoCall)
      BY DEF CallEnds
<1> QED BY <1>2, <1>3, MovesKeep

LEMMA ConnectKeeps ==
  ASSUME EventInv, NEW c \in Callers, Connect(c)
  PROVE  EventInv'
<1> DEFINE me == callers[c]
           s == [me EXCEPT !.step = IF me.op = "sync" THEN "row" ELSE "remove"]
<1>1. /\ me.step = "connect" /\ UNCHANGED <<sync, lastRow, events, lastEvent, doubled>>
      /\ CallGoes(c, s) \/ CallEnds(c)
      BY DEF Connect
<1>2. CallerOK(me, lastEvent)
      BY DEF EventInv, CallersOK
<1>3. me.made = 0 /\ ~me.inserted /\ lastEvent \in Nat 
      BY <1>1, <1>2 DEF CallerOK, EventInv, RowOK
<1>4. CASE CallGoes(c, s)
    <2>1. me.op \in {"sync", "unsync", "delete"}
          BY <1>1, <1>2 DEF CallerOK
    <2>2. CallerOK(s, lastEvent) /\ s.made = 0 /\ ~s.inserted /\ s.step # "forget"
          BY <1>1, <1>2, <1>3, <2>1 DEF CallerOK
    <2> HIDE DEF s
    <2> QED BY <1>1, <1>3, <1>4, <2>2, MovesKeep
<1>5. CASE CallEnds(c)
      BY <1>1, <1>3, <1>5, EndKeeps
<1> QED BY <1>1, <1>4, <1>5

LEMMA FindRowKeeps ==
  ASSUME EventInv, NEW c \in Callers, FindRow(c)
  PROVE  EventInv'
<1> DEFINE me == callers[c]
           s == [me EXCEPT !.step = IF sync.id # 0 THEN "call" ELSE "insert", !.sync = sync]
<1>1. /\ me.step = "row" /\ me.op = "sync" /\ UNCHANGED <<sync, lastRow, events, lastEvent, doubled>>
      /\ CallGoes(c, s)
      BY DEF FindRow, Step
<1>2. CallerOK(me, lastEvent)
      BY DEF EventInv, CallersOK
<1>3. me.made = 0 /\ me.inserted = FALSE /\ lastEvent \in Nat /\ sync.event \in Nat /\ sync.event <= lastEvent
      BY <1>1, <1>2 DEF CallerOK, EventInv, RowOK
<1>4. PICK step : step = IF sync.id # 0 THEN "call" ELSE "insert"
      OBVIOUS
<1>5. Moved(s, me, step, sync, FALSE)
      BY <1>2, <1>3, <1>4, StatesMove
<1> HIDE DEF s
<1>6. CallerOK(s, lastEvent) /\ s.step # "forget" /\ s.made = 0 /\ ~s.inserted
      BY <1>1, <1>2, <1>3, <1>4, <1>5 DEF CallerOK, Moved
<1> QED BY <1>1, <1>3, <1>6, MovesKeep

LEMMA InsertRowKeeps ==
  ASSUME EventInv, NEW c \in Callers, InsertRow(c)
  PROVE  EventInv'
<1> DEFINE me == callers[c]
           s == [me EXCEPT !.step = "call", !.inserted = TRUE]
<1>1. /\ me.step = "insert" /\ me.op = "sync" /\ UNCHANGED <<sync, lastRow, events, lastEvent, doubled>>
      /\ \A o \in Callers : ~callers[o].inserted
      /\ CallEnds(c) \/ (sync.id = 0 /\ CallGoes(c, s))
      BY DEF InsertRow, Step
<1>2. CallerOK(me, lastEvent)
      BY DEF EventInv, CallersOK
<1>3. me.made = 0
      BY <1>1, <1>2 DEF CallerOK
<1>4. CASE sync.id = 0 /\ CallGoes(c, s)
    <2>1. me.sync.id = 0
          BY <1>1, <1>2 DEF CallerOK
    <2>2. Moved(s, me, "call", me.sync, TRUE)
          BY <1>2, StatesMove
    <2> HIDE DEF s
    <2>3. CallerOK(s, lastEvent) /\ s.made = 0 /\ s.step # "forget"
          BY <1>1, <1>2, <1>3, <2>1, <2>2 DEF CallerOK, Moved
    <2> QED BY <1>1, <1>3, <1>4, <2>3, MovesKeep
<1>5. CASE CallEnds(c)
      BY <1>1, <1>3, <1>5, EndKeeps
<1> QED BY <1>1, <1>4, <1>5

LEMMA FindEventKeeps ==
  ASSUME EventInv, NEW c \in Callers, FindEvent(c)
  PROVE  EventInv'
<1> DEFINE me == callers[c]
           s(step) == [me EXCEPT !.step = step, !.sync = sync]
<1>1. /\ me.step = "find" /\ UNCHANGED <<sync, lastRow, events, lastEvent, doubled>>
      /\ \/ sync.id = 0 /\ CallGoes(c, NoCall)
         \/ sync.id # 0 /\ sync.event = 0 /\ CallGoes(c, s("forget"))
         \/ sync.id # 0 /\ sync.event # 0 /\ CallGoes(c, s("connect"))
    <2>1. sync.id = 0 \/ (sync.id # 0 /\ sync.event = 0) \/ (sync.id # 0 /\ sync.event # 0)
          OBVIOUS
    <2> QED BY <2>1 DEF FindEvent
<1>2. CallerOK(me, lastEvent)
      BY DEF EventInv, CallersOK
<1>3. /\ me.made = 0 /\ me.inserted = FALSE /\ me.op \in {"unsync", "delete"}
      /\ lastEvent \in Nat /\ sync.event \in Nat /\ sync.event <= lastEvent
      BY <1>1, <1>2 DEF CallerOK, EventInv, RowOK
<1>4. ASSUME NEW step \in {"forget", "connect"}, CallGoes(c, s(step)), sync.id # 0,
             step = "forget" => sync.event = 0
      PROVE  EventInv'
    <2> DEFINE t == s(step)
    <2>1. Moved(t, me, step, sync, FALSE)
          BY <1>2, <1>3, StatesMove
    <2>2. CallGoes(c, t)
          BY <1>4
    <2> HIDE DEF t
    <2>3. CallerOK(t, lastEvent) /\ t.made = 0 /\ ~t.inserted /\ (t.step = "forget" => t.sync.event = 0)
          BY <1>2, <1>3, <1>4, <2>1 DEF CallerOK, Moved
    <2> QED BY <1>1, <1>3, <1>4, <2>2, <2>3, MovesKeep
<1>5. CASE CallGoes(c, NoCall)
      BY <1>1, <1>3, <1>5, EndKeeps DEF CallEnds
<1> QED BY <1>1, <1>4, <1>5

\* The event goes before the removal forgets its row.
LEMMA RemoveEventKeeps ==
  ASSUME EventInv, NEW c \in Callers, RemoveEvent(c)
  PROVE  EventInv'
<1> DEFINE me == callers[c]
           s == [me EXCEPT !.step = "forget"]
<1>1. me.step = "remove" /\ UNCHANGED <<sync, lastRow, lastEvent, doubled>> /\ events' \subseteq events
      BY DEF RemoveEvent
<1>2. CallerOK(me, lastEvent)
      BY DEF EventInv, CallersOK
<1>3. me.made = 0 /\ me.inserted = FALSE /\ me.op \in {"unsync", "delete"} /\ lastEvent \in Nat
      BY <1>1, <1>2 DEF CallerOK, EventInv, RowOK
<1>4. PICK t : /\ CallGoes(c, t) /\ CallerOK(t, lastEvent) /\ t.made = 0 /\ t.inserted = FALSE
               /\ t.step = "forget" => t.sync.event \notin events'
    <2>1. CASE events' = events \ {me.sync.event} /\ CallGoes(c, s)
        <3>1. CallerOK(s, lastEvent) /\ s.made = 0 /\ s.inserted = FALSE /\ s.sync = me.sync
              BY <1>1, <1>2, <1>3 DEF CallerOK
        <3> HIDE DEF s
        <3> QED BY <2>1, <3>1
    <2>2. CASE CallEnds(c)
        <3>1. CallGoes(c, NoCall)
              BY <2>2 DEF CallEnds
        <3> QED BY <1>3, <3>1, NoCallOK
    <2> QED BY <2>1, <2>2 DEF RemoveEvent
<1>5. /\ callers'[c] = t /\ \A o \in Callers \ {c} : callers'[o] = callers[o]
      /\ callers' = [o \in Callers |-> callers'[o]]
      BY <1>4, GoesState DEF EventInv
<1>6. CallersOK'
      BY <1>1, <1>4, <1>5 DEF EventInv, CallersOK
<1>7. RowOK'
      BY <1>1 DEF EventInv, RowOK
<1>8. OneInserts'
      BY <1>1, <1>4, <1>5 DEF EventInv, OneInserts
<1>9. RemovedFirst'
      BY <1>1, <1>4, <1>5 DEF EventInv, RemovedFirst
<1>10. ASSUME ~doubled' PROVE EventsKnown'
    <2>1. EventsKnown
          BY <1>1, <1>10 DEF EventInv
    <2>2. \A e \in events' : e # 0 /\ e \in events
          BY <1>1 DEF EventInv, RowOK
    <2>3. \A e \in events' : e = sync.event \/ \E o \in Callers \ {c} : callers[o].made = e
          BY <1>3, <2>1, <2>2 DEF EventsKnown
    <2> QED BY <1>1, <1>4, <1>5, <2>1, <2>3 DEF EventsKnown
<1> QED BY <1>6, <1>7, <1>8, <1>9, <1>10 DEF EventInv

\* The one event that is created when there is no other.
LEMMA CreateKeeps ==
  ASSUME EventInv, NEW c \in Callers, callers[c].step = "call", callers[c].sync.event = 0,
         NEW s, CallGoes(c, s), NEW lost \in BOOLEAN,
         s.made = IF lost THEN 0 ELSE lastEvent', CallerOK(s, lastEvent'), s.sync = callers[c].sync,
         s.step = "store", s.inserted = callers[c].inserted,
         lastEvent' = lastEvent + 1, events' = events \cup {lastEvent'},
         doubled' = (doubled \/ lost \/ CreatesAgain(c)), UNCHANGED <<sync, lastRow>>
  PROVE  EventInv'
<1> DEFINE me == callers[c]
<1>1. /\ callers'[c] = s /\ \A o \in Callers \ {c} : callers'[o] = callers[o]
      /\ callers' = [o \in Callers |-> callers'[o]]
      BY GoesState DEF EventInv
<1>2. lastEvent \in Nat /\ sync.event \in Nat /\ sync.event <= lastEvent /\ \A e \in events : e \in Nat /\ e # 0 /\ e <= lastEvent
      BY DEF EventInv, RowOK
<1>3. \A o \in Callers : CallerOK(callers[o], lastEvent)
      BY DEF EventInv, CallersOK
<1>4. CallersOK'
    <2>1. ASSUME NEW o \in Callers \ {c} PROVE CallerOK(callers[o], lastEvent')
          BY <1>2, <1>3 DEF CallerOK
    <2> QED BY <1>1, <2>1 DEF CallersOK
<1>5. RowOK'
      BY <1>2 DEF EventInv, RowOK
<1>6. OneInserts'
      BY <1>1 DEF EventInv, OneInserts
<1>7. RemovedFirst'
    <2>1. ASSUME NEW o \in Callers \ {c}, callers[o].step = "forget", callers[o].sync.event # 0
          PROVE  callers[o].sync.event \notin events'
        <3>1. callers[o].sync.event \notin events /\ callers[o].sync.event # lastEvent'
              BY <1>2, <1>3, <2>1 DEF EventInv, RemovedFirst, CallerOK
        <3> QED BY <3>1
    <2> QED BY <1>1, <2>1 DEF RemovedFirst
<1>8. ASSUME ~doubled' PROVE EventsKnown'
    <2>1. EventsKnown /\ ~lost /\ ~CreatesAgain(c) /\ me.made = 0 /\ me.op = "sync" /\ (me.inserted <=> me.sync.id = 0)
          BY <1>3, <1>8 DEF EventInv, CallerOK
    <2>2. s.made = lastEvent'
          BY <2>1
    <2>3. me.sync.id # 0 => me.sync = sync /\ sync.event = 0
          BY <2>1 DEF CreatesAgain
    <2>4. me.sync.id = 0 => sync.id = 0 /\ sync.event = 0
          BY <2>1 DEF EventInv, OneInserts, RowOK
    <2>5. ASSUME NEW o \in Callers, callers[o].made # 0 PROVE FALSE
        <3>1. o # c /\ (callers[o].inserted <=> callers[o].sync.id = 0)
              BY <1>3, <2>1, <2>5 DEF CallerOK
        <3>2. CASE callers[o].inserted
              BY <2>1, <2>3, <2>4, <3>1, <3>2 DEF EventInv, OneInserts
        <3>3. CASE callers[o].sync.id # 0
            <4>1. callers[o].sync = sync
                  BY <2>1, <2>5, <3>3 DEF EventsKnown
            <4> QED BY <2>1, <2>3, <2>4, <2>5, <3>1, <3>3, <4>1 DEF CreatesAgain
        <3> QED BY <3>1, <3>2, <3>3
    <2>6. sync.event = 0
          BY <2>3, <2>4
    <2>7. \A e \in events : FALSE
          BY <1>2, <2>1, <2>5, <2>6 DEF EventsKnown
    <2>8. events' = {lastEvent'}
          BY <2>7
    <2> QED BY <1>1, <2>2, <2>3, <2>5, <2>8 DEF EventsKnown
<1> QED BY <1>4, <1>5, <1>6, <1>7, <1>8 DEF EventInv

LEMMA CallProviderKeeps ==
  ASSUME EventInv, NEW c \in Callers, CallProvider(c)
  PROVE  EventInv'
<1> DEFINE me == callers[c]
<1>1. me.step = "call" /\ me.op = "sync" /\ UNCHANGED <<sync, lastRow>>
      BY DEF CallProvider, Step
<1>2. CallerOK(me, lastEvent) /\ lastEvent \in Nat
      BY DEF EventInv, CallersOK, RowOK
<1>3. me.made = 0 /\ me.inserted \in BOOLEAN
      BY <1>1, <1>2 DEF CallerOK
<1>4. CASE CallGoes(c, [me EXCEPT !.step = "store"]) /\ UNCHANGED <<events, lastEvent, doubled>>
    <2> DEFINE s == [me EXCEPT !.step = "store"]
    <2>1. Moved(s, me, "store", me.sync, me.inserted)
          BY <1>2, StatesMove
    <2>2. CallGoes(c, s)
          BY <1>4
    <2> HIDE DEF s
    <2>3. CallerOK(s, lastEvent) /\ s.made = 0 /\ s.step # "forget"
          BY <1>1, <1>2, <1>3, <2>1 DEF CallerOK, Moved
    <2>4. s.inserted => sync.id = 0 /\ \A o \in Callers \ {c} : ~callers[o].inserted
          BY <2>1 DEF EventInv, OneInserts, Moved
    <2> QED BY <1>1, <1>3, <1>4, <2>2, <2>3, <2>4, MovesKeep
<1>5. CASE /\ me.sync.event = 0 /\ lastEvent' = lastEvent + 1 /\ events' = events \cup {lastEvent'}
           /\ \E lost \in BOOLEAN :
                /\ CallGoes(c, [me EXCEPT !.step = "store", !.made = IF lost THEN 0 ELSE lastEvent'])
                /\ doubled' = (doubled \/ lost \/ CreatesAgain(c))
    <2>1. PICK lost \in BOOLEAN :
                /\ CallGoes(c, [me EXCEPT !.step = "store", !.made = IF lost THEN 0 ELSE lastEvent'])
                /\ doubled' = (doubled \/ lost \/ CreatesAgain(c))
          BY <1>5
    <2>2. PICK made : made = IF lost THEN 0 ELSE lastEvent'
          OBVIOUS
    <2> DEFINE s == [me EXCEPT !.step = "store", !.made = made]
    <2>3. CallGoes(c, s)
          BY <2>1, <2>2
    <2>4. Created(s, me, made)
          BY <1>2, StatesCreate
    <2> HIDE DEF s
    <2>5. made \in Nat /\ made <= lastEvent' /\ lastEvent <= lastEvent' /\ lastEvent' \in Nat
          BY <1>2, <1>5, <2>2
    <2>6. me.sync.event \in Nat /\ me.sync.event <= lastEvent'
          BY <1>2, <1>5, <2>5 DEF CallerOK
    <2>7. CallerOK(s, lastEvent')
          BY <1>1, <1>2, <1>3, <1>5, <2>4, <2>5, <2>6 DEF CallerOK, Created
    <2>8. s.sync = me.sync /\ s.step = "store" /\ s.inserted = me.inserted /\ s.made = made
          BY <2>4 DEF Created
    <2> QED BY <1>1, <1>5, <2>1, <2>2, <2>3, <2>7, <2>8, CreateKeeps
<1> QED BY <1>4, <1>5 DEF CallProvider

\* An event is found in the row as soon as no request holds it.
LEMMA StoreKeeps ==
  ASSUME EventInv, NEW c \in Callers, Store(c)
  PROVE  EventInv'
<1> DEFINE me == callers[c]
<1>1. me.step = "store" /\ me.op = "sync" /\ UNCHANGED <<events, lastEvent>> /\ CallGoes(c, NoCall)
      BY DEF Store, Step, CallEnds
<1>2. CallerOK(me, lastEvent) /\ \A o \in Callers : CallerOK(callers[o], lastEvent)
      BY DEF EventInv, CallersOK
<1>3. /\ me.made \in Nat /\ me.made <= lastEvent /\ (me.inserted <=> me.sync.id = 0)
      /\ me.made # 0 => me.sync.event = 0
      BY <1>1, <1>2 DEF CallerOK
<1>4. /\ callers'[c] = NoCall /\ \A o \in Callers \ {c} : callers'[o] = callers[o]
      /\ callers' = [o \in Callers |-> callers'[o]]
      BY <1>1, GoesState DEF EventInv
<1>5. lastEvent \in Nat /\ lastRow \in Nat /\ sync \in [id: {sync.id}, event: Nat] /\ \A e \in events : e # 0
      BY DEF EventInv, RowOK
<1>6. CallersOK'
      BY <1>1, <1>2, <1>4, <1>5, NoCallOK DEF CallersOK
<1>7. RemovedFirst'
      BY <1>1, <1>4, <1>5, NoCallOK DEF EventInv, RemovedFirst
<1>8. ASSUME EventsKnown, NEW o \in Callers \ {c}, callers[o].made # 0, sync.id = 0 \/ me.made # 0
      PROVE  callers[o].inserted /\ ~me.inserted
    <2>1. callers[o].inserted <=> callers[o].sync.id = 0
          BY <1>2, <1>8 DEF CallerOK
    <2>2. callers[o].sync.id # 0 => callers[o].sync = sync
          BY <1>8 DEF EventsKnown
    <2>3. ~(callers[o].inserted /\ me.inserted) /\ (me.made # 0 => FALSE)
          BY <1>8 DEF EventInv, OneInserts, EventsKnown
    <2> QED BY <1>8, <2>1, <2>2, <2>3
<1>9. CASE me.inserted /\ lastRow' = lastRow + 1 /\ sync' = [id |-> lastRow', event |-> me.made] /\ UNCHANGED doubled
    <2>1. sync.id = 0 /\ sync.event = 0 /\ \A o \in Callers \ {c} : ~callers[o].inserted
          BY <1>9 DEF EventInv, OneInserts, RowOK
    <2>2. sync'.id = lastRow + 1 /\ sync'.event = me.made /\ sync'.id # 0 /\ lastRow' \in Nat
          BY <1>5, <1>9
    <2>3. sync' \in [id: {sync'.id}, event: Nat]
          BY <1>3, <1>9, <2>2
    <2>4. RowOK'
          BY <1>1, <1>3, <2>2, <2>3 DEF EventInv, RowOK
    <2>5. OneInserts'
          BY <1>4, <1>5, <2>1, NoCallOK DEF OneInserts
    <2>6. ASSUME ~doubled' PROVE EventsKnown'
        <3>1. EventsKnown
              BY <1>9, <2>6 DEF EventInv
        <3>2. \A o \in Callers : callers'[o].made = 0
              BY <1>4, <1>5, <1>8, <2>1, <3>1, NoCallOK
        <3>3. \A e \in events : e = me.made
              BY <1>5, <1>8, <2>1, <3>1 DEF EventsKnown
        <3> QED BY <1>1, <2>2, <3>2, <3>3 DEF EventsKnown
    <2> QED BY <1>6, <1>7, <2>4, <2>5, <2>6 DEF EventInv
<1>10. CASE me.made = 0 /\ doubled' = doubled /\ UNCHANGED <<sync, lastRow>>
      BY <1>1, <1>10, EndKeeps DEF CallEnds
<1>11. CASE /\ ~me.inserted /\ me.sync.id = sync.id /\ me.made # 0
            /\ sync' = [sync EXCEPT !.event = me.made] /\ UNCHANGED <<lastRow, doubled>>
    <2>1. sync' \in [id: {sync.id}, event: Nat] /\ sync'.id = sync.id /\ sync'.event = me.made /\ sync.id # 0
          BY <1>3, <1>5, <1>11
    <2>2. RowOK'
          BY <1>1, <1>3, <1>11, <2>1 DEF EventInv, RowOK
    <2>3. OneInserts'
          BY <1>4, <1>5, <2>1, NoCallOK DEF EventInv, OneInserts
    <2>4. ASSUME ~doubled' PROVE EventsKnown'
        <3>1. EventsKnown
              BY <1>11, <2>4 DEF EventInv
        <3>2. me.sync = sync /\ sync.event = 0
              BY <1>3, <1>11, <3>1 DEF EventsKnown
        <3>3. \A o \in Callers \ {c} : callers[o].made = 0
              BY <1>11, <3>1 DEF EventsKnown
        <3>4. \A e \in events : e = me.made
              BY <1>5, <3>1, <3>2, <3>3 DEF EventsKnown
        <3>5. \A o \in Callers : callers'[o].made = 0
              BY <1>4, <1>5, <3>3, NoCallOK
        <3> QED BY <1>1, <2>1, <3>4, <3>5 DEF EventsKnown
    <2> QED BY <1>6, <1>7, <2>2, <2>3, <2>4 DEF EventInv
<1>12. CASE doubled' = (doubled \/ me.made # 0) /\ UNCHANGED <<sync, lastRow>>
      BY <1>1, <1>12, EndKeeps DEF CallEnds
<1> QED BY <1>9, <1>10, <1>11, <1>12 DEF Store

LEMMA ForgetRowKeeps ==
  ASSUME EventInv, NEW c \in Callers, ForgetRow(c)
  PROVE  EventInv'
<1> DEFINE me == callers[c]
           racing == \E o \in Callers : callers[o].op = "sync" /\ callers[o].sync = me.sync /\ me.sync.event = 0
<1>1. /\ me.step = "forget" /\ UNCHANGED <<lastRow, events, lastEvent>> /\ CallGoes(c, NoCall)
      /\ sync' = IF sync.id = me.sync.id THEN NoSync ELSE sync
      /\ doubled' = (doubled \/ (sync.id = me.sync.id /\ sync # me.sync) \/ racing)
      BY DEF ForgetRow, CallEnds
<1>2. \A o \in Callers : CallerOK(callers[o], lastEvent)
      BY DEF EventInv, CallersOK
<1>3. me.made = 0 /\ me.sync.id # 0
      BY <1>1, <1>2 DEF CallerOK
<1>4. CASE sync.id # me.sync.id
      BY <1>1, <1>3, <1>4, EndKeeps DEF CallEnds
<1>5. CASE sync.id = me.sync.id
    <2>1. /\ callers'[c] = NoCall /\ \A o \in Callers \ {c} : callers'[o] = callers[o]
          /\ callers' = [o \in Callers |-> callers'[o]]
          BY <1>1, GoesState DEF EventInv
    <2>2. lastEvent \in Nat /\ lastRow \in Nat /\ \A e \in events : e # 0
          BY DEF EventInv, RowOK
    <2>3. sync' = NoSync /\ NoSync.id = 0 /\ NoSync.event = 0 /\ NoSync \in [id: {NoSync.id}, event: Nat]
          BY <1>1, <1>5 DEF NoSync
    <2>4. CallersOK'
          BY <1>1, <1>2, <2>1, <2>2, NoCallOK DEF CallersOK
    <2>5. RowOK'
          BY <1>1, <2>2, <2>3 DEF EventInv, RowOK
    <2>6. OneInserts'
          BY <2>1, <2>2, <2>3, NoCallOK DEF EventInv, OneInserts
    <2>7. RemovedFirst'
          BY <1>1, <2>1, <2>2, NoCallOK DEF EventInv, RemovedFirst
    <2>8. ASSUME ~doubled' PROVE EventsKnown'
        <3>1. EventsKnown /\ sync = me.sync /\ ~racing
              BY <1>1, <1>5, <2>8 DEF EventInv
        <3>2. ASSUME NEW o \in Callers, callers[o].made # 0 PROVE FALSE
            <4>1. callers[o].op = "sync" /\ callers[o].sync.event = 0 /\ (callers[o].inserted <=> callers[o].sync.id = 0)
                  BY <1>2, <3>2 DEF CallerOK
            <4>2. ~callers[o].inserted
                  BY <1>3, <3>1 DEF EventInv, OneInserts
            <4>3. callers[o].sync = me.sync
                  BY <3>1, <3>2, <4>1, <4>2 DEF EventsKnown
            <4> QED BY <3>1, <4>1, <4>3
        <3>3. \A e \in events : FALSE
            <4>1. \A e \in events : e = me.sync.event /\ e # 0
                  BY <2>2, <3>1, <3>2 DEF EventsKnown
            <4>2. me.sync.event # 0 => me.sync.event \notin events
                  BY <1>1 DEF EventInv, RemovedFirst
            <4> QED BY <4>1, <4>2
        <3>4. \A o \in Callers : callers'[o].made = 0
              BY <2>1, <2>2, <3>2, NoCallOK
        <3> QED BY <1>1, <3>3, <3>4 DEF EventsKnown
    <2> QED BY <2>4, <2>5, <2>6, <2>7, <2>8 DEF EventInv
<1> QED BY <1>4, <1>5

LEMMA EventsStep ==
  ASSUME EventInv, [CalNext]_calVars PROVE EventInv'
<1>1. ASSUME NEW c \in Callers, CallerDies(c) PROVE EventInv'
    <2>1. CallEnds(c) /\ doubled' = (doubled \/ callers[c].made # 0) /\ UNCHANGED <<sync, lastRow, events, lastEvent>>
          BY <1>1 DEF CallerDies
    <2> QED BY <2>1, EndKeeps
<1>2. CASE UNCHANGED <<sync, lastRow, events, lastEvent, callers, doubled>>
      BY <1>2 DEF EventInv, CallersOK, RowOK, OneInserts, RemovedFirst, EventsKnown
<1>3. Reconnect \/ UNCHANGED calVars => UNCHANGED <<sync, lastRow, events, lastEvent, callers, doubled>>
      BY DEF Reconnect, calVars
<1> QED BY <1>1, <1>2, <1>3, CallKeeps, ConnectKeeps, FindRowKeeps, InsertRowKeeps, CallProviderKeeps, StoreKeeps,
        FindEventKeeps, RemoveEventKeeps, ForgetRowKeeps DEF CalNext

LEMMA EventIsOne ==
  ASSUME EventInv, ~doubled
  PROVE  /\ \E x : \A e \in events : e = x
         /\ (\A o \in Callers : callers[o].op # "sync") => events \subseteq {sync.event}
<1>1. EventsKnown /\ \A o \in Callers : CallerOK(callers[o], lastEvent)
      BY DEF EventInv, CallersOK
<1>2. \A e \in events : e # 0
      BY DEF EventInv, RowOK
<1>3. ASSUME NEW o \in Callers, callers[o].made # 0 PROVE \A e \in events : e = callers[o].made
    <2>1. callers[o].sync.event = 0 /\ (callers[o].inserted <=> callers[o].sync.id = 0)
          BY <1>1, <1>3 DEF CallerOK
    <2>2. callers[o].inserted => sync.event = 0
          BY DEF EventInv, OneInserts, RowOK
    <2>3. sync.event = 0
          BY <1>1, <1>3, <2>1, <2>2 DEF EventsKnown
    <2> QED BY <1>1, <1>2, <1>3, <2>3 DEF EventsKnown
<1>4. (\A o \in Callers : callers[o].made = 0) => events \subseteq {sync.event}
      BY <1>1, <1>2 DEF EventsKnown
<1>5. \A o \in Callers : callers[o].made # 0 => callers[o].op = "sync"
      BY <1>1 DEF CallerOK
<1> QED BY <1>3, <1>4, <1>5

LEMMA OthersStay ==
  ASSUME CallersOK, NEW c \in Callers,
         \/ Call(c) \/ Connect(c) \/ FindRow(c) \/ InsertRow(c) \/ CallProvider(c) \/ Store(c)
         \/ FindEvent(c) \/ RemoveEvent(c) \/ ForgetRow(c) \/ CallerDies(c)
  PROVE  \A o \in Callers \ {c} : callers'[o] = callers[o]
<1>1. \E s : CallGoes(c, s)
      BY DEF Call, Connect, FindRow, InsertRow, CallProvider, Store, FindEvent, RemoveEvent, ForgetRow, CallerDies, CallEnds
<1> QED BY <1>1, GoesState

\* The deletion's own steps: it finds the event, removes it or says that it
\* could not.
LEMMA DeletionGoes ==
  ASSUME EventInv, NEW c \in Callers, callers[c].op = "delete", ~doubled', ~left', doubled => doubled',
         \A o \in Callers \ {c} : callers'[o] = callers[o],
         \/ FindEvent(c)
         \/ /\ \A o \in Callers : callers[o].op # "sync"
            /\ events \subseteq {callers[c].sync.event}
            /\ Connect(c) \/ RemoveEvent(c)
         \/ CallerDies(c)
  PROVE  Gone'
<1> DEFINE me == callers[c]
<1>1. CallerOK(me, lastEvent)
      BY DEF EventInv, CallersOK
<1>2. CASE FindEvent(c)
    <2>1. \A o \in Callers : callers[o].op # "sync"
          BY <1>2 DEF FindEvent
    <2>2. events \subseteq {sync.event} /\ UNCHANGED <<sync, events>> /\ (sync.event # 0 => sync.id # 0)
          BY <1>2, <2>1, EventIsOne DEF FindEvent, EventInv, RowOK
    <2>3. \A e \in events : e # 0
          BY DEF EventInv, RowOK
    <2>4. CASE sync.event = 0
        <3>1. PICK s : CallGoes(c, s) /\ (s = NoCall \/ s = [me EXCEPT !.step = "forget", !.sync = sync])
              BY <1>2, <2>4 DEF FindEvent
        <3>2. s.op # "sync"
              BY <1>1, <3>1, NoCallOK, StatesMove DEF Moved, EventInv, RowOK
        <3>3. callers'[c] = s
              BY <3>1, GoesState DEF EventInv
        <3> QED BY <2>1, <2>2, <2>3, <2>4, <3>2, <3>3 DEF Gone
    <2>5. CASE sync.event # 0
        <3> DEFINE s == [me EXCEPT !.step = "connect", !.sync = sync]
        <3>1. CallGoes(c, s)
              BY <1>2, <2>2, <2>5 DEF FindEvent
        <3>2. s.step = "connect" /\ s.op = "delete" /\ s.sync = sync
              BY <1>1, StatesMove DEF Moved
        <3> HIDE DEF s
        <3>3. callers'[c] = s
              BY <3>1, GoesState DEF EventInv
        <3> QED BY <2>1, <2>2, <3>2, <3>3 DEF Gone
    <2> QED BY <2>4, <2>5
<1>3. CASE /\ \A o \in Callers : callers[o].op # "sync"
           /\ events \subseteq {me.sync.event}
           /\ Connect(c) \/ RemoveEvent(c)
    <2>1. CASE Connect(c)
        <3> DEFINE s == [me EXCEPT !.step = "remove"]
        <3>1. CallGoes(c, s) /\ UNCHANGED events
              BY <2>1 DEF Connect
        <3>2. s.step = "remove" /\ s.op = "delete" /\ s.sync = me.sync
              BY <1>1, StatesMove DEF Moved
        <3> HIDE DEF s
        <3>3. callers'[c] = s
              BY <3>1, GoesState DEF EventInv
        <3> QED BY <1>3, <3>1, <3>2, <3>3 DEF Gone
    <2>2. CASE RemoveEvent(c)
        <3> DEFINE s == [me EXCEPT !.step = "forget"]
        <3>1. CallGoes(c, s) /\ events' = {}
              BY <1>3, <2>2 DEF RemoveEvent
        <3>2. s.op = "delete"
              BY <1>1, StatesMove DEF Moved
        <3> HIDE DEF s
        <3>3. callers'[c] = s
              BY <3>1, GoesState DEF EventInv
        <3> QED BY <1>3, <3>1, <3>2, <3>3 DEF Gone
    <2> QED BY <1>3, <2>1, <2>2
<1>4. CASE CallerDies(c)
      BY <1>4 DEF CallerDies
<1> QED BY <1>2, <1>3, <1>4

\* A request that is not a sync neither becomes one nor creates an event.
LEMMA NoSyncGrows ==
  ASSUME EventInv, NEW c \in Callers, callers[c].op # "sync", calTask = "deleted",
         \/ Call(c) \/ Connect(c) \/ FindRow(c) \/ InsertRow(c) \/ CallProvider(c) \/ Store(c)
         \/ FindEvent(c) \/ RemoveEvent(c) \/ ForgetRow(c) \/ CallerDies(c)
  PROVE  callers'[c].op # "sync" /\ events' \subseteq events
<1> DEFINE me == callers[c]
<1>1. CallerOK(me, lastEvent) /\ lastEvent \in Nat
      BY DEF EventInv, CallersOK, RowOK
<1>2. events' \subseteq events /\ (Connect(c) \/ FindEvent(c) \/ RemoveEvent(c) \/ CallEnds(c))
      BY DEF Call, Connect, FindRow, InsertRow, CallProvider, Store, FindEvent, RemoveEvent, ForgetRow, CallerDies, Step
<1>3. \E s : CallGoes(c, s) /\ (s = NoCall \/ (\E step : s = [me EXCEPT !.step = step]) \/ \E step : s = [me EXCEPT !.step = step, !.sync = sync])
      BY <1>2 DEF Connect, FindEvent, RemoveEvent, CallEnds
<1>4. PICK s : CallGoes(c, s) /\ (s = NoCall \/ (\E step : s = [me EXCEPT !.step = step]) \/ \E step : s = [me EXCEPT !.step = step, !.sync = sync])
      BY <1>3
<1>5. s.op # "sync"
      BY <1>1, <1>4, NoCallOK, StatesMove DEF Moved
<1>6. callers'[c] = s
      BY <1>4, GoesState DEF EventInv
<1> QED BY <1>2, <1>5, <1>6

LEMMA GoneStep ==
  ASSUME CalInv, [CalNext]_calVars, calTask' = "deleted", ~left', ~doubled'
  PROVE  Gone'
<1> USE DEF CalInv
<1>1. (left => left') /\ (doubled => doubled')
    <2>1. ASSUME NEW c \in Callers, Call(c) \/ FindRow(c) \/ InsertRow(c) PROVE UNCHANGED <<left, doubled>>
          BY <2>1 DEF Call, FindRow, InsertRow
    <2>2. ASSUME NEW c \in Callers, Connect(c) \/ FindEvent(c) \/ RemoveEvent(c)
          PROVE  (left => left') /\ UNCHANGED doubled
        <3>1. CASE Connect(c)
            <4>1. UNCHANGED left \/ left' = (left \/ callers[c].op = "delete")
                  BY <3>1 DEF Connect
            <4>2. UNCHANGED left => (left => left')
                  OBVIOUS
            <4>3. left' = (left \/ callers[c].op = "delete") => (left => left')
                  OBVIOUS
            <4>4. UNCHANGED doubled
                  BY <3>1 DEF Connect
            <4> QED BY <4>1, <4>2, <4>3, <4>4
        <3>2. CASE FindEvent(c)
              BY <3>2 DEF FindEvent
        <3>3. CASE RemoveEvent(c)
            <4>1. UNCHANGED left \/ left' = (left \/ callers[c].op = "delete")
                  BY <3>3 DEF RemoveEvent
            <4>2. UNCHANGED left => (left => left')
                  OBVIOUS
            <4>3. left' = (left \/ callers[c].op = "delete") => (left => left')
                  OBVIOUS
            <4>4. UNCHANGED doubled
                  BY <3>3 DEF RemoveEvent
            <4> QED BY <4>1, <4>2, <4>3, <4>4
        <3> QED BY <2>2, <3>1, <3>2, <3>3
    <2>3. ASSUME NEW c \in Callers, CallProvider(c) \/ Store(c) \/ ForgetRow(c) \/ CallerDies(c)
          PROVE  (left => left') /\ (doubled => doubled')
        <3>1. CASE CallProvider(c)
            <4>1. UNCHANGED doubled \/ \E lost : doubled' = (doubled \/ lost \/ CreatesAgain(c))
                  BY <3>1 DEF CallProvider
            <4>2. UNCHANGED doubled => (doubled => doubled')
                  OBVIOUS
            <4>3. ASSUME NEW lost, doubled' = (doubled \/ lost \/ CreatesAgain(c)) PROVE doubled => doubled'
                  BY <4>3
            <4>4. UNCHANGED left
                  BY <3>1 DEF CallProvider
            <4> QED BY <4>1, <4>2, <4>3, <4>4
        <3>2. CASE Store(c)
              BY <3>2 DEF Store
        <3>3. CASE ForgetRow(c)
              BY <3>3 DEF ForgetRow
        <3>4. CASE CallerDies(c)
              BY <3>4 DEF CallerDies
        <3> QED BY <2>3, <3>1, <3>2, <3>3, <3>4
    <2>4. Reconnect \/ UNCHANGED calVars => UNCHANGED <<left, doubled>>
          BY DEF Reconnect, calVars
    <2> QED BY <2>1, <2>2, <2>3, <2>4 DEF CalNext
<1>2. ASSUME NEW c \in Callers,
             \/ Call(c) \/ Connect(c) \/ FindRow(c) \/ InsertRow(c) \/ CallProvider(c) \/ Store(c)
             \/ FindEvent(c) \/ RemoveEvent(c) \/ ForgetRow(c) \/ CallerDies(c)
      PROVE  Gone'
    <2>1. \A o \in Callers \ {c} : callers'[o] = callers[o]
          BY <1>2, OthersStay DEF EventInv
    <2>2. CASE Call(c)
        <3>1. PICK s : CallGoes(c, s) /\ s = [[NoCall EXCEPT !.step = "find"] EXCEPT !.op = "delete"]
              BY <2>2 DEF Call
        <3>2. s.step = "find" /\ s.op = "delete"
              BY <3>1 DEF NoCall
        <3>3. callers'[c] = s
              BY <3>1, GoesState DEF EventInv
        <3> QED BY <3>2, <3>3 DEF Gone
    <2>3. ASSUME ~Call(c) PROVE Gone /\ calTask = "deleted"
        <3>1. calTask = "deleted"
              BY <1>2, <2>3 DEF Connect, FindRow, InsertRow, CallProvider, Store, FindEvent, RemoveEvent, ForgetRow, CallerDies
        <3> QED BY <1>1, <3>1
    <2>4. ASSUME ~Call(c), NEW d \in Callers, callers[d].op = "delete", callers[d].step = "find" PROVE Gone'
        <3>1. d # c => Gone'
              BY <2>1, <2>4 DEF Gone
        <3>2. d = c => FindEvent(c) \/ CallerDies(c)
              BY <1>2, <2>4 DEF Connect, FindRow, InsertRow, CallProvider, Store, RemoveEvent, ForgetRow, Step
        <3> QED BY <1>1, <2>1, <2>4, <3>1, <3>2, DeletionGoes
    <2>5. ASSUME ~Call(c), \A o \in Callers : callers[o].op # "sync" PROVE callers'[c].op # "sync" /\ events' \subseteq events
          BY <1>2, <2>3, <2>5, NoSyncGrows
    <2>6. ASSUME ~Call(c), \A o \in Callers : callers[o].op # "sync", events = {} PROVE Gone'
          BY <2>1, <2>5, <2>6 DEF Gone
    <2>7. ASSUME ~Call(c), \A o \in Callers : callers[o].op # "sync", NEW d \in Callers, callers[d].op = "delete",
                 callers[d].step \in {"connect", "remove"}, events \subseteq {callers[d].sync.event}
          PROVE  Gone'
        <3>1. d # c => Gone'
              BY <2>1, <2>5, <2>7 DEF Gone
        <3>2. d = c => Connect(c) \/ RemoveEvent(c) \/ CallerDies(c)
              BY <1>2, <2>7 DEF FindRow, InsertRow, CallProvider, Store, FindEvent, ForgetRow, Step
        <3> QED BY <1>1, <2>1, <2>7, <3>1, <3>2, DeletionGoes
    <2> QED BY <2>2, <2>3, <2>4, <2>6, <2>7 DEF Gone
<1>3. CASE Reconnect \/ UNCHANGED calVars
    <2>1. UNCHANGED <<calTask, left, doubled, callers, events>>
          BY <1>3 DEF Reconnect, calVars
    <2> QED BY <2>1 DEF Gone
<1> QED BY <1>2, <1>3 DEF CalNext

LEMMA CalInvariant == CalSpec => []CalInv
<1>1. CalInv /\ [CalNext]_calVars => CalInv'
      BY EventsStep, GoneStep DEF CalInv
<1> QED BY InitCal, <1>1, PTL DEF CalSpec

-----------------------------------------------------------------------------
(* A task never has two events at the provider, through any number of       *)
(* overlapping syncs, removals and deaths, while no event id has been lost   *)
(* and no two syncs of one row have both created one                         *)
(* (calendar_sync.sync_task, _get_or_create_sync_row, unsync_task).          *)
THEOREM OneEventSafety == CalSpec => []OneEvent
<1>1. CalInv => OneEvent
    <2> SUFFICES ASSUME CalInv, ~doubled PROVE Cardinality(events) <= 1
        BY DEF OneEvent
    <2>1. PICK x : \A e \in events : e = x
          BY EventIsOne DEF CalInv
    <2>2. CASE events = {}
        <3>1. Cardinality(events) = 0
              BY <2>2, FS_EmptySet
        <3> QED BY <3>1
    <2>3. CASE events # {}
        <3>1. events = {x}
              BY <2>1, <2>3
        <3>2. Cardinality({x}) = 1
              BY FS_Singleton
        <3> QED BY <3>1, <3>2
    <2> QED BY <2>2, <2>3
<1> QED BY CalInvariant, <1>1, PTL

(* Once every request has ended the provider holds no event of a deleted     *)
(* task, unless its removal failed in silence or missed a sync under way     *)
(* (services/task.py delete_task, calendar_sync.unsync_task).                *)
THEOREM DeletionRemovesEvent == CalSpec => []DeletedTaskHasNoEvent
<1>1. CalInv => DeletedTaskHasNoEvent
      BY DEF CalInv, Gone, DeletedTaskHasNoEvent
<1> QED BY CalInvariant, <1>1, PTL

-----------------------------------------------------------------------------
(* Reminders: the mails of a task or an exam *)

RunStates ==
  {s \in [step: {"idle", "check", "send", "log"}, todo: SUBSET ReminderKeys,
          key: ReminderKeys \cup {<<>>}] :
     s.step \in {"send", "log"} => s.key \in ReminderKeys}

(* What is needed of the types: a run's reminders are reminders, and mails *)
(* are counted.                                                            *)
RunsOK ==
  /\ open \subseteq DueTasks
  /\ mails \in [ReminderKeys -> Nat]
  /\ runs \in [Runs -> RunStates]

(* A run that has mailed reminder k and is about to log it. *)
Logging(k) == \E r \in Runs : runs[r].step = "log" /\ runs[r].key = k

(* A reminder that is not resent has left at most once; once it has, it is *)
(* in the log or a run is about to put it there; and a run that is about   *)
(* to mail it finds no log of it.                                          *)
OneMail(k) ==
  /\ mails[k] <= 1
  /\ mails[k] = 1 => k \in logs \/ Logging(k)
  /\ \A r \in Runs : runs[r].step = "send" /\ runs[r].key = k => k \notin logs

MailInv == RunsOK /\ \A k \in ReminderKeys \ resent : OneMail(k)

LEMMA DueIsReminders ==
  ASSUME open \subseteq DueTasks
  PROVE  Due \subseteq ReminderKeys
<1>1. \A t \in open : <<SoonType(t), t>> \in ReminderKeys /\ <<"OVERDUE_TASK", t>> \in ReminderKeys
      BY DEF ReminderKeys, Types, SoonType
<1> QED BY <1>1 DEF Due

-----------------------------------------------------------------------------
LEMMA InitMails == RemInit => MailInv
<1> SUFFICES ASSUME RemInit PROVE MailInv
    OBVIOUS
<1>1. RunsOK
  <2>1. Asleep \in RunStates
        BY DEF RunStates, Asleep
  <2> QED BY <2>1 DEF RemInit, RunsOK
<1>2. \A k \in ReminderKeys : OneMail(k)
      BY DEF RemInit, OneMail, Asleep
<1> QED BY <1>1, <1>2 DEF MailInv

(* The states a run goes to.                                               *)
LEMMA RunMoves ==
  ASSUME NEW s \in RunStates, NEW k \in ReminderKeys
  PROVE  /\ Asleep \in RunStates
         /\ [s EXCEPT !.todo = @ \ {k}] \in RunStates
         /\ [[s EXCEPT !.todo = @ \ {k}] EXCEPT !.step = "send", !.key = k] \in RunStates
         /\ [s EXCEPT !.step = "check", !.key = <<>>] \in RunStates
         /\ s.key \in ReminderKeys => [s EXCEPT !.step = "log"] \in RunStates
BY DEF RunStates, Asleep

(* The steps of a run keep the types.                                      *)
LEMMA RunKeepsTypes ==
  ASSUME RunsOK, NEW r \in Runs,
         StartRun(r) \/ CheckReminder(r) \/ SendEmail(r) \/ LogSent(r) \/ FinishRun(r) \/ RunDies(r)
  PROVE  RunsOK'
<1>1. runs[r] \in RunStates /\ Asleep \in RunStates
      BY DEF RunsOK, RunStates, Asleep
<1>2. \A s \in RunStates : RunGoes(r, s) => runs' \in [Runs -> RunStates]
      BY DEF RunGoes, RunsOK
<1>3. CASE StartRun(r)
  <2>1. [Asleep EXCEPT !.step = "check", !.todo = Due] \in RunStates
        BY DueIsReminders DEF RunsOK, RunStates, Asleep
  <2> QED BY <1>2, <1>3, <2>1 DEF StartRun, RunsOK
<1>4. CASE CheckReminder(r)
  <2>1. PICK k \in runs[r].todo :
          RunGoes(r, IF k[1] \in optedOut \/ k \in logs THEN [runs[r] EXCEPT !.todo = @ \ {k}]
                     ELSE [[runs[r] EXCEPT !.todo = @ \ {k}] EXCEPT !.step = "send", !.key = k])
        BY <1>4 DEF CheckReminder
  <2>2. k \in ReminderKeys
        BY <1>1 DEF RunStates
  <2>3. runs' \in [Runs -> RunStates]
        BY <1>1, <1>2, <2>1, <2>2, RunMoves
  <2> QED BY <1>4, <2>3 DEF CheckReminder, RunsOK
<1>5. CASE SendEmail(r)
  <2>1. runs[r].key \in ReminderKeys
        BY <1>1, <1>5 DEF SendEmail, RunStates
  <2>2. /\ [runs[r] EXCEPT !.step = "check", !.key = <<>>] \in RunStates
        /\ [runs[r] EXCEPT !.step = "log"] \in RunStates
        BY <1>1, <2>1, RunMoves
  <2>3. runs' \in [Runs -> RunStates]
        BY <1>2, <1>5, <2>2 DEF SendEmail
  <2>4. mails' \in [ReminderKeys -> Nat]
        BY <1>5, <2>1 DEF SendEmail, RunsOK
  <2> QED BY <1>5, <2>3, <2>4 DEF SendEmail, RunsOK
<1>6. CASE LogSent(r)
  <2>1. runs[r].key \in ReminderKeys
        BY <1>1, <1>6 DEF LogSent, RunStates
  <2>2. [runs[r] EXCEPT !.step = "check", !.key = <<>>] \in RunStates
        BY <1>1, <2>1, RunMoves
  <2>3. runs' \in [Runs -> RunStates]
        BY <1>1, <1>2, <1>6, <2>2 DEF LogSent, Sleeps
  <2> QED BY <1>6, <2>3 DEF LogSent, RunsOK
<1>7. CASE FinishRun(r) \/ RunDies(r)
      BY <1>1, <1>2, <1>7 DEF FinishRun, RunDies, Sleeps, RunsOK
<1> QED BY <1>3, <1>4, <1>5, <1>6, <1>7

(* Their steps and keys.                                                   *)
LEMMA MovedFields ==
  ASSUME NEW s \in RunStates, NEW k
  PROVE  /\ Asleep.step = "idle" /\ [Asleep EXCEPT !.step = "check", !.todo = Due].step = "check"
         /\ [s EXCEPT !.todo = @ \ {k}].step = s.step
         /\ [[s EXCEPT !.todo = @ \ {k}] EXCEPT !.step = "send", !.key = k].step = "send"
         /\ [[s EXCEPT !.todo = @ \ {k}] EXCEPT !.step = "send", !.key = k].key = k
         /\ [s EXCEPT !.step = "check", !.key = <<>>].step = "check"
         /\ [s EXCEPT !.step = "log"].step = "log" /\ [s EXCEPT !.step = "log"].key = s.key
BY DEF RunStates, Asleep

(* A run's step keeps OneMail of every reminder it does not resend.        *)
LEMMA RunKeepsMail ==
  ASSUME MailInv, NEW r \in Runs,
         StartRun(r) \/ CheckReminder(r) \/ SendEmail(r) \/ LogSent(r) \/ FinishRun(r) \/ RunDies(r),
         NEW k \in ReminderKeys, k \notin resent'
  PROVE  OneMail(k)'
<1> DEFINE step == runs'[r].step
           key == runs'[r].key
<1>1. RunsOK /\ RunsOK'
      BY RunKeepsTypes DEF MailInv
<1>2. runs[r] \in RunStates /\ mails \in [ReminderKeys -> Nat]
      BY <1>1 DEF RunsOK
<1>3. k \notin resent /\ OneMail(k)
      BY DEF MailInv, StartRun, CheckReminder, SendEmail, LogSent, FinishRun, RunDies
<1>4. /\ \A o \in Runs \ {r} : runs'[o] = runs[o]
      /\ \A s : RunGoes(r, s) => runs'[r] = s
      BY <1>1 DEF StartRun, CheckReminder, SendEmail, LogSent, FinishRun, RunDies,
         RunGoes, Sleeps, RunsOK
<1> DEFINE failed == [runs[r] EXCEPT !.step = "check", !.key = <<>>]
           sent == [runs[r] EXCEPT !.step = "log"]
           rest(j) == [runs[r] EXCEPT !.todo = @ \ {j}]
           picked(j) == [[runs[r] EXCEPT !.todo = @ \ {j}] EXCEPT !.step = "send", !.key = j]
<1>a. /\ Asleep.step = "idle" /\ failed.step = "check"
      /\ sent.step = "log" /\ sent.key = runs[r].key
      /\ \A j : rest(j).step = runs[r].step /\ picked(j).step = "send" /\ picked(j).key = j
      BY <1>2, MovedFields
<1>5. CASE StartRun(r) \/ FinishRun(r)
  <2>1. step \in {"idle", "check"} /\ runs[r].step \in {"idle", "check"}
        BY <1>2, <1>4, <1>5, MovedFields DEF StartRun, FinishRun, Sleeps
  <2> QED BY <1>3, <1>4, <1>5, <2>1 DEF StartRun, FinishRun, OneMail, Logging
<1>6. CASE RunDies(r)
  <2>1. step = "idle"
        BY <1>2, <1>4, <1>6, MovedFields DEF RunDies, Sleeps
  <2>2. ~(runs[r].step = "log" /\ runs[r].key = k)
        BY <1>6 DEF RunDies
  <2> QED BY <1>3, <1>4, <1>6, <2>1, <2>2 DEF RunDies, OneMail, Logging
<1>7. CASE CheckReminder(r)
  <2>1. PICK j \in runs[r].todo :
          runs'[r] = IF j[1] \in optedOut \/ j \in logs THEN rest(j) ELSE picked(j)
        BY <1>4, <1>7 DEF CheckReminder
  <2>2. runs[r].step = "check" /\ step \in {"check", "send"} /\ (step = "send" => key \notin logs)
    <3> HIDE DEF rest, picked
    <3>1. runs[r].step = "check"
          BY <1>7 DEF CheckReminder
    <3>2. CASE j[1] \in optedOut \/ j \in logs
          BY <1>a, <2>1, <3>1, <3>2
    <3>3. CASE ~(j[1] \in optedOut \/ j \in logs)
          BY <1>a, <2>1, <3>1, <3>3
    <3> QED BY <3>2, <3>3
  <2> QED BY <1>3, <1>4, <1>7, <2>2 DEF CheckReminder, OneMail, Logging
<1>8. CASE SendEmail(r)
  <2>1. runs[r].step = "send" /\ runs[r].key \in ReminderKeys
        BY <1>2, <1>8 DEF SendEmail, RunStates
  <2>2. CASE runs[r].key # k \/ mails' = mails
    <3>1. mails'[k] = mails[k]
          BY <1>2, <1>8, <2>1, <2>2 DEF SendEmail
    <3>2. step # "send" /\ (step = "log" => key = runs[r].key)
      <4>1. runs'[r] = failed \/ runs'[r] = sent
            BY <1>4, <1>8 DEF SendEmail
      <4> HIDE DEF failed, sent
      <4> QED BY <1>a, <4>1
    <3>3. logs' = logs
          BY <1>8 DEF SendEmail
    <3> QED BY <1>3, <1>4, <2>1, <3>1, <3>2, <3>3 DEF OneMail, Logging
  <2>3. CASE runs[r].key = k /\ mails' # mails
    <3>1. /\ RunGoes(r, [runs[r] EXCEPT !.step = "log"])
          /\ mails' = [mails EXCEPT ![k] = @ + 1]
          /\ ~\E o \in Runs \ {r} : runs[o].step = "log" /\ runs[o].key = k
          /\ logs' = logs
          BY <1>8, <2>3 DEF SendEmail
    <3>2. k \notin logs /\ ~Logging(k)
          BY <1>3, <2>1, <2>3, <3>1 DEF OneMail, Logging
    <3>3. mails[k] = 0 /\ mails'[k] = 1
          BY <1>2, <1>3, <3>1, <3>2 DEF OneMail
    <3>4. step = "log" /\ key = k
      <4>1. runs'[r] = sent
            BY <1>4, <3>1
      <4> HIDE DEF sent
      <4> QED BY <1>a, <2>3, <4>1
    <3> QED BY <3>1, <3>2, <3>3, <3>4 DEF OneMail, Logging
  <2> QED BY <2>2, <2>3
<1>9. CASE LogSent(r)
  <2>1. runs[r].step = "log" /\ step \in {"idle", "check"} /\ mails' = mails
    <3>1. runs'[r] = Asleep \/ runs'[r] = failed
          BY <1>4, <1>9 DEF LogSent, Sleeps
    <3> HIDE DEF failed
    <3> QED BY <1>a, <1>9, <3>1 DEF LogSent
  <2>2. logs' = logs \cup {runs[r].key}
        BY <1>9 DEF LogSent
  <2>3. runs[r].key = k => ~\E o \in Runs \ {r} : runs[o].step = "send" /\ runs[o].key = k
        BY <1>9 DEF LogSent
  <2> QED BY <1>3, <1>4, <2>1, <2>2, <2>3 DEF OneMail, Logging
<1> QED BY <1>5, <1>6, <1>7, <1>8, <1>9

LEMMA NextKeepsMails == MailInv /\ [RemNext]_remVars => MailInv'
<1> SUFFICES ASSUME MailInv, [RemNext]_remVars PROVE MailInv'
    OBVIOUS
<1>1. CASE \E r \in Runs :
             StartRun(r) \/ CheckReminder(r) \/ SendEmail(r) \/ LogSent(r) \/ FinishRun(r) \/ RunDies(r)
      BY <1>1, RunKeepsTypes, RunKeepsMail DEF MailInv
<1>2. CASE \/ \E t \in DueTasks : TimePasses(t) \/ MarkTask(t)
           \/ \E type \in Types : SetPreference(type)
      BY <1>2 DEF TimePasses, MarkTask, SetPreference, MailInv, RunsOK, OneMail, Logging
<1>3. CASE UNCHANGED remVars
      BY <1>3 DEF remVars, MailInv, RunsOK, OneMail, Logging
<1> QED BY <1>1, <1>2, <1>3 DEF RemNext

(* No reminder is mailed twice, unless two runs held it at once or a mail  *)
(* left and no log could be written (send_reminder).                       *)
THEOREM MailedOnce == RemSpec => []SentOnce
<1>1. MailInv => SentOnce
      BY DEF MailInv, OneMail, SentOnce
<1> QED BY <1>1, InitMails, NextKeepsMails, PTL DEF RemSpec
=============================================================================
