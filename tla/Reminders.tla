------------------------------ MODULE Reminders ------------------------------
(***************************************************************************)
(* Deadline reminders: the periodic job (worker/tasks/notifications.py,    *)
(* services/notification_reminders.py) that mails every student whose task *)
(* is due soon or overdue, and the preference and log it consults          *)
(* (services/notification_service.py).  Runs may overlap: beat starts one  *)
(* every 15 minutes, however long the last one takes.                      *)
(*                                                                         *)
(* One student; the mail provider is external and may fail, or lose its    *)
(* answer after the mail has left.                                         *)
(***************************************************************************)
EXTENDS Naturals, FiniteSets

CONSTANTS
  DueTasks,     \* the student's tasks that have a due date
  Exams,        \* those that are exams or quizzes
  Runs,         \* worker processes that run the job
  MaxRuns,      \* bound on the runs of the job
  MaxMoves      \* bound on completions, reopenings and changes of preference

ASSUME ExamsAreTasks == Exams \subseteq DueTasks

VARIABLES
  phase,      \* per task: later, soon (within 24 hours) or overdue
  open,       \* the tasks that are TODO or IN_PROGRESS
  optedOut,   \* the notification types the student has disabled
  logs,       \* notification_log: unique <<type, task>>
  mails,      \* mails sent, per <<type, task>>
  runs,       \* what each run is doing
  started, moves,
  resent      \* ghost: reminders in two runs at once, or sent without a log

remVars == <<phase, open, optedOut, logs, mails, runs, started, moves, resent>>

SoonType(t) == IF t \in Exams THEN "EXAM_COUNTDOWN" ELSE "ASSIGNMENT_DUE"
Types == {"EXAM_COUNTDOWN", "ASSIGNMENT_DUE", "OVERDUE_TASK"}
ReminderKeys == Types \X DueTasks
Asleep == [step |-> "idle", todo |-> {}, key |-> <<>>]

RemInit ==
  /\ phase = [t \in DueTasks |-> "later"]
  /\ open = DueTasks
  /\ optedOut \in SUBSET {"OVERDUE_TASK"}
  /\ logs = {}
  /\ mails = [k \in ReminderKeys |-> 0]
  /\ runs = [r \in Runs |-> Asleep]
  /\ started = 0 /\ moves = 0
  /\ resent = {}

RunGoes(r, state) == runs' = [runs EXCEPT ![r] = state]
Sleeps(r) == RunGoes(r, Asleep)

-----------------------------------------------------------------------------
\* _due_soon_tasks_with_owner and _overdue_tasks_with_owner, at the run's time
Due ==
  {<<SoonType(t), t>> : t \in {u \in open : phase[u] = "soon"}}
    \cup {<<"OVERDUE_TASK", t>> : t \in {u \in open : phase[u] = "overdue"}}

StartRun(r) ==
  /\ runs[r].step = "idle"
  /\ started < MaxRuns
  /\ started' = started + 1
  /\ Due # {}
  /\ RunGoes(r, [Asleep EXCEPT !.step = "check", !.todo = Due])
  /\ UNCHANGED <<phase, open, optedOut, logs, mails, moves, resent>>

\* mutant: the log is not looked at
CheckPreferenceOnly(r) ==
  /\ runs[r].step = "check"
  /\ \E k \in runs[r].todo :
       LET rest == [runs[r] EXCEPT !.todo = @ \ {k}]
       IN  RunGoes(r, IF k[1] \in optedOut THEN rest
                      ELSE [rest EXCEPT !.step = "send", !.key = k])
  /\ UNCHANGED <<phase, open, optedOut, logs, mails, started, moves, resent>>

\* send_reminder up to the provider: is_enabled, then the log
CheckReminder(r) ==
  /\ runs[r].step = "check"
  /\ \E k \in runs[r].todo :
       LET rest == [runs[r] EXCEPT !.todo = @ \ {k}]
       IN  RunGoes(r, IF k[1] \in optedOut \/ k \in logs THEN rest
                      ELSE [rest EXCEPT !.step = "send", !.key = k])
  /\ UNCHANGED <<phase, open, optedOut, logs, mails, started, moves, resent>>

\* The failures NotConfigured, Transient and Provider are counted, and the run
\* goes on; one of them may follow a mail that has left.
SendEmail(r) ==
  LET k == runs[r].key
      failed == [runs[r] EXCEPT !.step = "check", !.key = <<>>]
      beside == \E o \in Runs \ {r} : runs[o].step = "log" /\ runs[o].key = k
  IN  /\ runs[r].step = "send"
      /\ \/ RunGoes(r, failed) /\ UNCHANGED <<mails, resent>>
         \/ \E lost \in BOOLEAN :
              /\ RunGoes(r, IF lost THEN failed ELSE [runs[r] EXCEPT !.step = "log"])
              /\ mails' = [mails EXCEPT ![k] = @ + 1]
              /\ resent' = IF lost \/ beside THEN resent \cup {k} ELSE resent
      /\ UNCHANGED <<phase, open, optedOut, logs, started, moves>>

\* The INSERT of the log: one of another run makes it fail, and nothing
\* catches that error: the run ends.
LogSent(r) ==
  LET k == runs[r].key
  IN  /\ runs[r].step = "log"
      /\ logs' = logs \cup {k}
      /\ IF k \in logs THEN Sleeps(r)
         ELSE RunGoes(r, [runs[r] EXCEPT !.step = "check", !.key = <<>>])
      /\ resent' = IF \E o \in Runs \ {r} : runs[o].step = "send" /\ runs[o].key = k
                   THEN resent \cup {k} ELSE resent
      /\ UNCHANGED <<phase, open, optedOut, mails, started, moves>>

FinishRun(r) ==
  /\ runs[r].step = "check" /\ runs[r].todo = {}
  /\ Sleeps(r)
  /\ UNCHANGED <<phase, open, optedOut, logs, mails, started, moves, resent>>

RunDies(r) ==
  /\ runs[r].step # "idle"
  /\ Sleeps(r)
  /\ resent' = IF runs[r].step = "log" THEN resent \cup {runs[r].key} ELSE resent
  /\ UNCHANGED <<phase, open, optedOut, logs, mails, started, moves>>

-----------------------------------------------------------------------------
TimePasses(t) ==
  /\ phase[t] # "overdue"
  /\ phase' = [phase EXCEPT ![t] = IF @ = "later" THEN "soon" ELSE "overdue"]
  /\ UNCHANGED <<open, optedOut, logs, mails, runs, started, moves, resent>>

\* A task is completed or reopened.
MarkTask(t) ==
  /\ moves < MaxMoves
  /\ moves' = moves + 1
  /\ open' = IF t \in open THEN open \ {t} ELSE open \cup {t}
  /\ UNCHANGED <<phase, optedOut, logs, mails, runs, started, resent>>

SetPreference(type) ==
  /\ moves < MaxMoves
  /\ moves' = moves + 1
  /\ optedOut' = IF type \in optedOut THEN optedOut \ {type} ELSE optedOut \cup {type}
  /\ UNCHANGED <<phase, open, logs, mails, runs, started, resent>>

RemNext ==
  \/ \E r \in Runs :
       StartRun(r) \/ CheckReminder(r) \/ SendEmail(r) \/ LogSent(r) \/ FinishRun(r) \/ RunDies(r)
  \/ \E t \in DueTasks : TimePasses(t) \/ MarkTask(t)
  \/ \E type \in Types : SetPreference(type)

RemSpec == RemInit /\ [][RemNext]_remVars

-----------------------------------------------------------------------------
(* The same event is never mailed twice, across runs of the job, failures,  *)
(* reopened tasks and changed preferences (notification_service.py:7-9),    *)
(* unless two runs held the reminder at once, or a mail left and no log     *)
(* could be written.                                                        *)
SentOnce == \A k \in ReminderKeys : mails[k] <= 1 \/ k \in resent
=============================================================================
