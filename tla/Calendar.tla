------------------------------ MODULE Calendar ------------------------------
(***************************************************************************)
(* One task's event in the student's Google calendar: the requests that    *)
(* synchronise it, remove it and delete the task (services/calendar_sync.py,*)
(* services/calendar_connection.py, routers/calendar.py, services/task.py) *)
(* against the calendar_sync row and the provider.                         *)
(*                                                                         *)
(* The provider is external: it may refuse a call, and a call whose answer *)
(* is lost may have been carried out.  Tokens, event bodies, sync_status   *)
(* and sync_error are left out.                                            *)
(***************************************************************************)
EXTENDS Naturals, FiniteSets

CONSTANTS
  Callers,       \* request threads
  MaxCalls       \* bound on the requests

VARIABLES
  calTask,       \* the task: live or deleted
  connection,    \* none, fresh, or stale: its token is about to expire
  sync,          \* calendar_sync: [id, event]; id 0: no row, event 0: no event id
  lastRow,       \* the sequence of its keys
  events,        \* the events of the task that the provider holds
  lastEvent,     \* the last event id the provider gave
  callers,       \* what each thread is doing
  calls,         \* requests so far
  doubled,       \* ghost: an event's id was lost, or two requests both created one
  left           \* ghost: a removal failed, or missed a request still under way

calVars == <<calTask, connection, sync, lastRow, events, lastEvent, callers, calls, doubled, left>>

\* sync: the row the request loaded; made: the event it created
NoSync == [id |-> 0, event |-> 0]
NoCall == [step |-> "idle", op |-> "none", sync |-> NoSync, inserted |-> FALSE, made |-> 0]

CalInit ==
  /\ calTask = "live"
  /\ connection \in {"none", "fresh"}
  /\ sync = NoSync /\ lastRow = 0
  /\ events = {} /\ lastEvent = 0
  /\ callers = [c \in Callers |-> NoCall]
  /\ calls = 0
  /\ doubled = FALSE /\ left = FALSE

CallGoes(c, state) == callers' = [callers EXCEPT ![c] = state]
CallEnds(c) == CallGoes(c, NoCall)
Step(c, op, step) == callers[c].op = op /\ callers[c].step = step

-----------------------------------------------------------------------------
\* get_task refuses a deleted task (404).  Deleting the task is committed
\* before its event is looked at.
Call(c) ==
  /\ callers[c].step = "idle"
  /\ calls < MaxCalls
  /\ calls' = calls + 1
  /\ calTask = "live"
  /\ \/ CallGoes(c, [NoCall EXCEPT !.step = "connect", !.op = "sync"]) /\ UNCHANGED <<calTask, left>>
     \/ CallGoes(c, [NoCall EXCEPT !.step = "find", !.op = "unsync"]) /\ UNCHANGED <<calTask, left>>
     \/ /\ CallGoes(c, [NoCall EXCEPT !.step = "find", !.op = "delete"])
        /\ calTask' = "deleted"
        /\ UNCHANGED left
  /\ UNCHANGED <<connection, sync, lastRow, events, lastEvent, doubled>>

\* _get_connection: refused without one; a stale token is refreshed first,
\* which may fail.  A removal then calls the provider, a sync needs its row.
Connect(c) ==
  /\ callers[c].step = "connect"
  /\ \/ /\ connection # "none"
        /\ connection' = "fresh"
        /\ CallGoes(c, [callers[c] EXCEPT !.step = IF callers[c].op = "sync" THEN "row" ELSE "remove"])
        /\ UNCHANGED left
     \/ /\ connection \in {"none", "stale"}
        /\ CallEnds(c)
        /\ left' = (left \/ callers[c].op = "delete")
        /\ UNCHANGED connection
  /\ UNCHANGED <<calTask, sync, lastRow, events, lastEvent, calls, doubled>>

\* _get_or_create_sync_row, the SELECT
FindRow(c) ==
  /\ Step(c, "sync", "row")
  /\ CallGoes(c, [callers[c] EXCEPT !.step = IF sync.id # 0 THEN "call" ELSE "insert", !.sync = sync])
  /\ UNCHANGED <<calTask, connection, sync, lastRow, events, lastEvent, calls, doubled, left>>

\* mutant: task_id is not unique
InsertRowTwice(c) ==
  /\ Step(c, "sync", "insert")
  /\ CallGoes(c, [callers[c] EXCEPT !.step = "call", !.inserted = TRUE])
  /\ UNCHANGED <<calTask, connection, sync, lastRow, events, lastEvent, calls, doubled, left>>

\* The INSERT: task_id is unique, so it waits for another's transaction and
\* fails when that one has committed a row (500).
InsertRow(c) ==
  /\ Step(c, "sync", "insert")
  /\ \A o \in Callers : ~callers[o].inserted
  /\ IF sync.id # 0 THEN CallEnds(c)
     ELSE CallGoes(c, [callers[c] EXCEPT !.step = "call", !.inserted = TRUE])
  /\ UNCHANGED <<calTask, connection, sync, lastRow, events, lastEvent, calls, doubled, left>>

\* Two syncs of one row without an event: another has created one already.
CreatesAgain(c) ==
  /\ callers[c].sync.id # 0
  /\ \/ callers[c].sync # sync
     \/ \E o \in Callers \ {c} : callers[o].sync = callers[c].sync /\ callers[o].made # 0

\* update_event for a known event (404 when it is gone), create_event
\* otherwise.  A lost answer is reported as a failure.
CallProvider(c) ==
  /\ Step(c, "sync", "call")
  /\ \/ /\ CallGoes(c, [callers[c] EXCEPT !.step = "store"])   \* updated, or refused
        /\ UNCHANGED <<events, lastEvent, doubled>>
     \/ /\ callers[c].sync.event = 0
        /\ lastEvent' = lastEvent + 1
        /\ events' = events \cup {lastEvent'}
        /\ \E lost \in BOOLEAN :
             /\ CallGoes(c, [callers[c] EXCEPT !.step = "store", !.made = IF lost THEN 0 ELSE lastEvent'])
             /\ doubled' = (doubled \/ lost \/ CreatesAgain(c))
  /\ UNCHANGED <<calTask, connection, sync, lastRow, calls, left>>

\* The commit, SYNCED or FAILED, sets the event's id when the request created
\* the event.  The UPDATE of a row that is gone fails.
Store(c) ==
  LET me == callers[c]
  IN  /\ Step(c, "sync", "store")
      /\ CallEnds(c)
      /\ CASE me.inserted -> /\ lastRow' = lastRow + 1
                             /\ sync' = [id |-> lastRow', event |-> me.made]
                             /\ UNCHANGED doubled
           [] ~me.inserted /\ me.sync.id = sync.id ->
                             /\ sync' = IF me.made # 0 THEN [sync EXCEPT !.event = me.made] ELSE sync
                             /\ UNCHANGED <<lastRow, doubled>>
           [] OTHER -> /\ doubled' = (doubled \/ me.made # 0)
                       /\ UNCHANGED <<sync, lastRow>>
      /\ UNCHANGED <<calTask, connection, events, lastEvent, calls, left>>

\* unsync_task: nothing to remove without a row, only the row without an event
FindEvent(c) ==
  /\ callers[c].step = "find"
  /\ CallGoes(c, CASE sync.id = 0 -> NoCall
                [] sync.id # 0 /\ sync.event = 0 -> [callers[c] EXCEPT !.step = "forget", !.sync = sync]
                [] OTHER -> [callers[c] EXCEPT !.step = "connect", !.sync = sync])
  /\ left' = (left \/ (callers[c].op = "delete" /\ \E o \in Callers \ {c} : callers[o].op = "sync"))
  /\ UNCHANGED <<calTask, connection, sync, lastRow, events, lastEvent, calls, doubled>>

\* mutant: the row goes although the provider refused
RemoveEventAnyway(c) ==
  /\ callers[c].step = "remove"
  /\ events' \in {events, events \ {callers[c].sync.event}}
  /\ CallGoes(c, [callers[c] EXCEPT !.step = "forget"])
  /\ UNCHANGED <<calTask, connection, sync, lastRow, lastEvent, calls, doubled, left>>

\* delete_event: an event that is gone is fine.  A failure, or an answer lost,
\* ends the removal: the route answers an error, the task's deletion goes on
\* without a word.
RemoveEvent(c) ==
  /\ callers[c].step = "remove"
  /\ \/ /\ events' = events \ {callers[c].sync.event}
        /\ CallGoes(c, [callers[c] EXCEPT !.step = "forget"])
        /\ UNCHANGED left
     \/ /\ events' \in {events, events \ {callers[c].sync.event}}
        /\ CallEnds(c)
        /\ left' = (left \/ callers[c].op = "delete")
  /\ UNCHANGED <<calTask, connection, sync, lastRow, lastEvent, calls, doubled>>

\* The row is deleted, unless it is gone; a sync may have given it an event,
\* or be about to.
ForgetRow(c) ==
  /\ callers[c].step = "forget"
  /\ CallEnds(c)
  /\ sync' = IF sync.id = callers[c].sync.id THEN NoSync ELSE sync
  /\ doubled' = (doubled \/ (sync.id = callers[c].sync.id /\ sync # callers[c].sync)
                         \/ \E o \in Callers : /\ callers[o].op = "sync" /\ callers[o].sync = callers[c].sync
                                                 /\ callers[c].sync.event = 0)
  /\ UNCHANGED <<calTask, connection, lastRow, events, lastEvent, calls, left>>

\* The server dies, or the database fails: what is not committed is lost.
CallerDies(c) ==
  /\ callers[c].step # "idle"
  /\ CallEnds(c)
  /\ doubled' = (doubled \/ callers[c].made # 0)
  /\ left' = (left \/ callers[c].op = "delete")
  /\ UNCHANGED <<calTask, connection, sync, lastRow, events, lastEvent, calls>>

\* connect and disconnect, and the clock
Reconnect ==
  /\ connection' \in {"none", "fresh", "stale"} \ {connection}
  /\ connection' = "stale" => connection = "fresh"
  /\ UNCHANGED <<calTask, sync, lastRow, events, lastEvent, callers, calls, doubled, left>>

CalNext ==
  \/ \E c \in Callers :
       \/ Call(c) \/ Connect(c) \/ FindRow(c) \/ InsertRow(c) \/ CallProvider(c) \/ Store(c)
       \/ FindEvent(c) \/ RemoveEvent(c) \/ ForgetRow(c) \/ CallerDies(c)
  \/ Reconnect

CalSpec == CalInit /\ [][CalNext]_calVars

-----------------------------------------------------------------------------
(* A task has one event (calendar_sync.py:3-7), through any number of       *)
(* syncs, failures and removals, overlapping or not, unless an id was lost  *)
(* (a lost answer, a death before the commit, a row deleted under way) or   *)
(* two syncs of a row without an event both created one.                    *)
OneEvent == ~doubled => Cardinality(events) <= 1

(* Once a deleted task's removal is over its event is gone, unless the      *)
(* removal failed silently (services/task.py:326-338) or a sync was under   *)
(* way.                                                                     *)
DeletedTaskHasNoEvent ==
  calTask = "deleted" /\ ~left /\ ~doubled /\ (\A c \in Callers : callers[c].step = "idle")
    => events = {}
=============================================================================
