---------------------------- MODULE Accounts_proofs ----------------------------
(* What is proved of accounts, sessions, mailed tokens and the rate limiter   *)
(* for every number of users, requests, tokens, deaths and Redis errors.      *)
EXTENDS Accounts, FiniteSetTheorems, TLAPS

USE KeysAreNumbers, SettingsPositive, NamesExist, NullIsNothing

-----------------------------------------------------------------------------
(* The first free key of a table, while there is one. *)
LEMMA FirstFreeIsFree ==
  ASSUME NEW rows, DOMAIN rows \subseteq Nat, HasRoom(rows)
  PROVE  FirstFree(rows) \in DOMAIN rows /\ rows[FirstFree(rows)] = Null
<1> DEFINE free == {i \in DOMAIN rows : rows[i] = Null}
<1>1. free \subseteq Nat /\ free # {}
      BY DEF HasRoom
<1>2. \A j, k \in Nat : j < k => <<j, k>> \in OpToRel(<, Nat)
      BY DEF OpToRel
<1>3. PICK i \in free : \A j \in free : <<j, i>> \notin OpToRel(<, Nat)
      BY <1>1, NatLessThanWellFounded, WFMin, Zenon
<1>4. \A j \in free : ~(j < i)
      BY <1>1, <1>2, <1>3, Zenon
<1>5. \A j \in free : i <= j
      BY <1>1, <1>4
<1>6. \E k \in DOMAIN rows : rows[k] = Null /\ \A j \in DOMAIN rows : rows[j] = Null => k <= j
      BY <1>5
<1> QED BY <1>6 DEF FirstFree

-----------------------------------------------------------------------------
(* Requests. *)

\* A request is a record of these seven fields.
Shape(r) ==
  r \in [step: {r.step}, op: {r.op}, user: {r.user}, token: {r.token},
         data: {r.data}, row: {r.row}, answer: {r.answer}]

RequestsOK ==
  /\ requests = [p \in Requests |-> requests[p]]
  /\ \A p \in Requests : Shape(requests[p])

LEMMA ShapeMoves ==
  ASSUME NEW r, Shape(r), NEW step, NEW u, NEW row
  PROVE  LET s == [[[r EXCEPT !.step = step] EXCEPT !.user = u] EXCEPT !.row = row] IN
         /\ Shape(s) /\ s.step = step /\ s.user = u /\ s.row = row
         /\ s.op = r.op /\ s.token = r.token /\ s.data = r.data
BY DEF Shape

LEMMA ShapeIdle ==
  /\ Shape(Idle) /\ Idle.step = "idle"
  /\ \A code : Shape([Idle EXCEPT !.answer = code]) /\ [Idle EXCEPT !.answer = code].step = "idle"
BY DEF Shape, Idle

\* What a request that goes on, or answers, becomes.
LEMMA MovesFields ==
  ASSUME RequestsOK, NEW p \in Requests, NEW step, NEW u, NEW row, Moves(p, step, u, row)
  PROVE  /\ RequestsOK'
         /\ \A q \in Requests \ {p} : requests'[q] = requests[q]
         /\ requests'[p].step = step /\ requests'[p].user = u /\ requests'[p].row = row
         /\ requests'[p].op = requests[p].op /\ requests'[p].token = requests[p].token
         /\ requests'[p].data = requests[p].data
<1> DEFINE s == [[[requests[p] EXCEPT !.step = step] EXCEPT !.user = u] EXCEPT !.row = row]
<1>1. /\ Shape(s) /\ s.step = step /\ s.user = u /\ s.row = row
      /\ s.op = requests[p].op /\ s.token = requests[p].token /\ s.data = requests[p].data
    <2>1. Shape(requests[p])
          BY DEF RequestsOK
    <2> QED BY <2>1 DEF Shape
<1>2. requests' = [requests EXCEPT ![p] = s]
      BY DEF Moves, RequestsOK
<1> HIDE DEF s
<1> QED BY <1>1, <1>2 DEF RequestsOK

LEMMA AnswersFields ==
  ASSUME RequestsOK, NEW p \in Requests, NEW code, Answers(p, code)
  PROVE  /\ RequestsOK'
         /\ \A q \in Requests \ {p} : requests'[q] = requests[q]
         /\ requests'[p].step = "idle"
<1> DEFINE s == [Idle EXCEPT !.answer = code]
<1>1. Shape(s) /\ s.step = "idle"
      BY ShapeIdle
<1>2. requests' = [requests EXCEPT ![p] = s]
      BY DEF Answers
<1> HIDE DEF s
<1> QED BY <1>1, <1>2 DEF RequestsOK

-----------------------------------------------------------------------------
(* Rows. *)

LEMMA ZeroFailures == 0 \in 0..LoginMaxFailedAttempts
OBVIOUS

\* What the UPDATEs of a user's row send.
SendsCounters(data, failed) ==
  /\ DOMAIN data = {"failed", "locked_until"} /\ data.failed = failed
  /\ data.failed \in 0..LoginMaxFailedAttempts /\ data.locked_until \in Nat \cup {Null}

SendsPassword(data) ==
  /\ DOMAIN data = {"password", "failed", "locked_until"} /\ data.password \in Passwords
  /\ data.failed = 0 /\ data.locked_until = Null

SendsName(data) == DOMAIN data = {"full_name"} /\ data.full_name \in FullNames

SendsAnonymous(data, u) ==
  /\ DOMAIN data = {"email", "full_name", "password", "deleted"} /\ data.email = Anonymous(u)
  /\ data.full_name = "Deleted User" /\ data.password = "unusable" /\ data.deleted = TRUE

\* The row they leave, sent against a row loaded before.
CountersSaved(row, loaded, s, failed) ==
  /\ s \in UserRows /\ s.email = row.email /\ s.full_name = row.full_name
  /\ s.password = row.password /\ s.deleted = row.deleted
  /\ s.failed \in {failed, row.failed} /\ (row = loaded => s.failed = failed)

PasswordSaved(row, loaded, s) ==
  /\ s \in UserRows /\ s.email = row.email /\ s.full_name = row.full_name
  /\ s.deleted = row.deleted
  /\ s.failed \in {0, row.failed} /\ (row = loaded => s.failed = 0)

NameSaved(row, loaded, s) ==
  /\ s \in UserRows /\ s.email = row.email /\ s.failed = row.failed
  /\ s.password = row.password /\ s.deleted = row.deleted

AnonymousSaved(row, loaded, s, u) ==
  /\ s \in UserRows /\ s.failed = row.failed
  /\ s.email \in {Anonymous(u), row.email}
  /\ (loaded.email # Anonymous(u) => s.email = Anonymous(u))
  /\ (row = loaded => s.full_name = "Deleted User")

LEMMA FlushedCounters ==
  ASSUME NEW row \in UserRows, NEW loaded \in UserRows, NEW data, NEW failed, SendsCounters(data, failed)
  PROVE  CountersSaved(row, loaded, Flushed(row, loaded, data), failed)
<1> DEFINE s == Flushed(row, loaded, data)
<1>1. /\ s \in UserRows /\ s.email = row.email /\ s.full_name = row.full_name
      /\ s.password = row.password /\ s.deleted = row.deleted
      /\ s.failed \in {failed, row.failed} /\ (row = loaded => s.failed = failed)
      BY DEF SendsCounters, UserRows, Flushed
<1> QED BY <1>1 DEF CountersSaved

LEMMA FlushedPassword ==
  ASSUME NEW row \in UserRows, NEW loaded \in UserRows, NEW data, SendsPassword(data)
  PROVE  PasswordSaved(row, loaded, Flushed(row, loaded, data))
<1> DEFINE s == Flushed(row, loaded, data)
<1>1. /\ s \in UserRows /\ s.email = row.email /\ s.full_name = row.full_name
      /\ s.deleted = row.deleted
      /\ s.failed \in {0, row.failed} /\ (row = loaded => s.failed = 0)
      BY ZeroFailures DEF SendsPassword, UserRows, Flushed
<1> QED BY <1>1 DEF PasswordSaved

LEMMA FlushedName ==
  ASSUME NEW row \in UserRows, NEW loaded \in UserRows, NEW data, SendsName(data)
  PROVE  NameSaved(row, loaded, Flushed(row, loaded, data))
<1> DEFINE s == Flushed(row, loaded, data)
<1>1. /\ s \in UserRows /\ s.email = row.email /\ s.failed = row.failed
      /\ s.password = row.password /\ s.deleted = row.deleted
      BY DEF SendsName, UserRows, Flushed
<1> QED BY <1>1 DEF NameSaved

LEMMA FlushedAnonymous ==
  ASSUME NEW row \in UserRows, NEW loaded \in UserRows, NEW data, NEW u \in UserIds, SendsAnonymous(data, u)
  PROVE  AnonymousSaved(row, loaded, Flushed(row, loaded, data), u)
<1> DEFINE s == Flushed(row, loaded, data)
<1>1. /\ s \in UserRows /\ s.failed = row.failed
      /\ s.email \in {Anonymous(u), row.email}
      /\ (loaded.email # Anonymous(u) => s.email = Anonymous(u))
      /\ (row = loaded => s.full_name = "Deleted User")
      BY DEF SendsAnonymous, UserRows, Flushed
<1> QED BY <1>1 DEF AnonymousSaved

LEMMA NewUserRow ==
  ASSUME NEW e \in Emails, NEW pw \in Passwords
  PROVE  /\ NewUser(e, pw) \in UserRows /\ NewUser(e, pw).failed = 0
         /\ NewUser(e, pw).deleted = FALSE
<1>1. (CHOOSE n \in FullNames : TRUE) \in FullNames
      OBVIOUS
<1>2. PICK n \in FullNames : n = CHOOSE m \in FullNames : TRUE
      BY <1>1
<1>3. NewUser(e, pw) = [email |-> e, full_name |-> n, password |-> pw, failed |-> 0,
                        locked_until |-> Null, verified |-> FALSE, deleted |-> FALSE]
      BY <1>2 DEF NewUser
<1> DEFINE row == [email |-> e, full_name |-> n, password |-> pw, failed |-> 0,
                   locked_until |-> Null, verified |-> FALSE, deleted |-> FALSE]
<1>4. /\ row.email \in Emails \cup {Anonymous(u) : u \in UserIds}
      /\ row.full_name \in FullNames \cup {"Deleted User"}
      /\ row.password \in Passwords \cup {"unusable"} /\ row.failed \in 0..LoginMaxFailedAttempts
      /\ row.locked_until \in Nat \cup {Null} /\ row.verified \in BOOLEAN /\ row.deleted \in BOOLEAN
      BY ZeroFailures
<1>5. row \in UserRows
      BY <1>4 DEF UserRows
<1> QED BY <1>3, <1>5

LEMMA NewRefreshRow ==
  ASSUME now \in Nat, NEW u \in UserIds, NEW f \in TokenIds, NEW pw \in Passwords \cup {"unusable"}
  PROVE  LET s == NewRefresh(u, f, pw) IN
         s \in RefreshRows /\ s.user = u /\ s.family = f /\ ~s.revoked /\ s.password = pw
BY DEF NewRefresh, RefreshRows

LEMMA RevokedRow ==
  ASSUME NEW x \in RefreshRows
  PROVE  LET s == [x EXCEPT !.revoked = TRUE] IN
         s \in RefreshRows /\ s.user = x.user /\ s.family = x.family /\ s.revoked /\ s.password = x.password
BY DEF RefreshRows

LEMMA NewMailedRow ==
  ASSUME now \in Nat, NEW u \in UserIds
  PROVE  NewMailed(u) \in MailedRows /\ NewMailed(u).user = u /\ NewMailed(u).sets = 0 /\ ~NewMailed(u).used
BY DEF NewMailed, MailedRows

LEMMA ConsumedRow ==
  ASSUME NEW x \in MailedRows
  PROVE  LET s == [[x EXCEPT !.used = TRUE] EXCEPT !.sets = @ + 1] IN
         s \in MailedRows /\ s.user = x.user /\ s.used /\ s.sets = x.sets + 1
<1>1. PICK y : y = [x EXCEPT !.used = TRUE]
      OBVIOUS
<1>2. y \in MailedRows /\ y.user = x.user /\ y.used /\ y.sets = x.sets
      BY <1>1 DEF MailedRows
<1> DEFINE s == [y EXCEPT !.sets = @ + 1]
<1>3. s.user = y.user /\ s.expires = y.expires /\ s.used = y.used /\ s.sets = y.sets + 1
      BY <1>2 DEF MailedRows
<1>4. s \in MailedRows
      BY <1>2 DEF MailedRows
<1> QED BY <1>1, <1>2, <1>3, <1>4

-----------------------------------------------------------------------------
(* Type correctness.  A row names a user there is, and a request on its way  *)
(* names a user and a token there are and holds a row of the right table.    *)

OwnersExist ==
  \A t \in TokenIds :
    /\ refresh[t] # Null => refresh[t].user \in Accounts
    /\ resets[t] # Null => resets[t].user \in Accounts
    /\ verifies[t] # Null => verifies[t].user \in Accounts

\* Steps that act for a user who has been found, and operations that come with one.
UserSteps == {"issue", "rotate", "revoke_family", "revoke_all", "revoke", "mail", "fail", "succeed",
              "consume", "load_user", "set_password", "verify", "rename", "anonymise"}
UserOps == {"resend_verification", "delete_account", "update_me"}

ArgsOK(r) ==
  /\ r.op \in {"refresh", "logout"} => r.token \in Issued(refresh)
  /\ r.op = "confirm_reset" => r.token \in Issued(resets) /\ r.data \in Passwords
  /\ r.op = "confirm_verification" => r.token \in Issued(verifies)
  /\ r.op \in {"register", "login"} => r.data[1] \in Emails /\ r.data[2] \in Passwords
  /\ r.op = "update_me" => r.data \in FullNames

HoldsRow(step, row) ==
  /\ step \in {"rotate", "revoke_family"} => row \in RefreshRows
  /\ step \in {"fail", "succeed", "rename", "anonymise", "set_password"} => row \in UserRows
  /\ step = "consume" => row \in MailedRows

NamesUser(r) == r.step \in UserSteps \/ (r.step = "load" /\ r.op \in UserOps) => r.user \in Accounts

Facts(p) ==
  /\ NamesUser(requests[p])
  /\ requests[p].step # "idle" => ArgsOK(requests[p])
  /\ HoldsRow(requests[p].step, requests[p].row)

AccountsInv == TypeOK /\ RequestsOK /\ OwnersExist /\ \A p \in Requests : Facts(p)

\* No row is ever removed.
Grow ==
  /\ \A u \in UserIds : users[u] # Null => users'[u] # Null
  /\ \A t \in TokenIds : /\ refresh[t] # Null => refresh'[t] # Null
                         /\ resets[t] # Null => resets'[t] # Null
                         /\ verifies[t] # Null => verifies'[t] # Null

\* A step of request p that keeps the tables in order, and p in order.
LEMMA StepKeeps ==
  ASSUME AccountsInv, NEW p \in Requests, TypeOK', RequestsOK', OwnersExist', Grow, Facts(p)',
         \A q \in Requests \ {p} : requests'[q] = requests[q]
  PROVE  AccountsInv'
<1>1. ASSUME NEW q \in Requests, q # p PROVE Facts(q)'
      BY <1>1 DEF AccountsInv, Facts, NamesUser, ArgsOK, HoldsRow, Grow, Accounts, Issued
<1> QED BY <1>1 DEF AccountsInv

tables == <<users, refresh, resets, verifies, counter, streak, now>>

LEMMA SameTables ==
  ASSUME AccountsInv, UNCHANGED tables
  PROVE  TypeOK' /\ OwnersExist' /\ Grow
BY DEF AccountsInv, TypeOK, OwnersExist, Grow, Accounts, tables

\* A request that goes on to its next statement.
LEMMA MovesFacts ==
  ASSUME AccountsInv, NEW p \in Requests, NEW step, NEW u, NEW row, Moves(p, step, u, row),
         requests[p].step # "idle", step # "load", Grow,
         step \in UserSteps => u \in Accounts, HoldsRow(step, row)
  PROVE  Facts(p)'
<1>1. /\ requests'[p].step = step /\ requests'[p].user = u /\ requests'[p].row = row
      /\ requests'[p].op = requests[p].op /\ requests'[p].token = requests[p].token
      /\ requests'[p].data = requests[p].data
      BY MovesFields DEF AccountsInv
<1>2. ArgsOK(requests[p])'
      BY <1>1 DEF AccountsInv, Facts, ArgsOK, Grow, Issued
<1>3. NamesUser(requests[p])'
      BY <1>1 DEF NamesUser, Grow, Accounts
<1> QED BY <1>1, <1>2, <1>3 DEF Facts, HoldsRow

LEMMA AnswersFacts ==
  ASSUME AccountsInv, NEW p \in Requests, NEW code, Answers(p, code)
  PROVE  Facts(p)'
<1>1. requests'[p].step = "idle"
      BY AnswersFields DEF AccountsInv
<1> QED BY <1>1 DEF Facts, NamesUser, HoldsRow, UserSteps

LEMMA GoesKeeps ==
  ASSUME AccountsInv, NEW p \in Requests, NEW step, NEW u, NEW row, Moves(p, step, u, row),
         UNCHANGED tables, requests[p].step # "idle", step # "load",
         step \in UserSteps => u \in Accounts, HoldsRow(step, row)
  PROVE  AccountsInv'
<1>1. TypeOK' /\ OwnersExist' /\ Grow
      BY SameTables
<1>2. Facts(p)'
      BY <1>1, MovesFacts
<1>3. RequestsOK' /\ \A q \in Requests \ {p} : requests'[q] = requests[q]
      BY MovesFields DEF AccountsInv
<1> QED BY <1>1, <1>2, <1>3, StepKeeps

LEMMA AnswersKeeps ==
  ASSUME AccountsInv, NEW p \in Requests, NEW code, Answers(p, code), UNCHANGED tables
  PROVE  AccountsInv'
<1>1. TypeOK' /\ OwnersExist' /\ Grow
      BY SameTables
<1>2. Facts(p)'
      BY AnswersFacts
<1>3. RequestsOK' /\ \A q \in Requests \ {p} : requests'[q] = requests[q]
      BY AnswersFields DEF AccountsInv
<1> QED BY <1>1, <1>2, <1>3, StepKeeps

LEMMA InitAccounts == Init => AccountsInv
<1> SUFFICES ASSUME Init PROVE AccountsInv
    OBVIOUS
<1>1. users \in [UserIds -> UserRows \cup {Null}]
    <2>1. CASE users = [u \in UserIds |-> Null]
          BY <2>1
    <2>2. CASE \E e \in Emails, pw \in Passwords :
                  users = [[u \in UserIds |-> Null] EXCEPT ![FirstFree([u \in UserIds |-> Null])] = NewUser(e, pw)]
          BY <2>2, NewUserRow
    <2> QED BY <2>1, <2>2 DEF Init
<1>2. TypeOK
      BY <1>1 DEF Init, TypeOK
<1>3. requests = [p \in Requests |-> Idle]
      BY DEF Init
<1>4. RequestsOK
      BY <1>3, ShapeIdle DEF RequestsOK
<1>5. OwnersExist
      BY DEF Init, OwnersExist
<1>6. \A p \in Requests : Facts(p)
      BY <1>3, ShapeIdle DEF Facts, NamesUser, HoldsRow, UserSteps
<1> QED BY <1>2, <1>4, <1>5, <1>6 DEF AccountsInv

LEMMA AskKeeps ==
  ASSUME AccountsInv, NEW p \in Requests, Ask(p)
  PROVE  AccountsInv'
<1>0. PICK op \in uses : \E a \in Asked(op) :
        requests' = [requests EXCEPT ![p] =
          [Idle EXCEPT !.step = "load", !.op = op, !.user = a[1], !.token = a[2], !.data = a[3]]]
      BY DEF Ask
<1>1. PICK a \in Asked(op) :
        requests' = [requests EXCEPT ![p] =
          [Idle EXCEPT !.step = "load", !.op = op, !.user = a[1], !.token = a[2], !.data = a[3]]]
      BY <1>0
<1> DEFINE s == [Idle EXCEPT !.step = "load", !.op = op, !.user = a[1], !.token = a[2], !.data = a[3]]
<1>2. Shape(s) /\ s.step = "load" /\ s.op = op /\ s.user = a[1] /\ s.token = a[2] /\ s.data = a[3]
      BY DEF Shape, Idle
<1> HIDE DEF s
<1>3. requests' = [requests EXCEPT ![p] = s]
      BY <1>1 DEF s
<1>4. RequestsOK' /\ requests'[p] = s /\ \A q \in Requests \ {p} : requests'[q] = requests[q]
      BY <1>2, <1>3 DEF AccountsInv, RequestsOK
<1>5. UNCHANGED tables
      BY DEF Ask, ghosts, tables
<1>6. op \in UserOps => a[1] \in Accounts
      BY DEF Asked, UserOps
<1>7. /\ op \in {"refresh", "logout"} => a[2] \in Issued(refresh)
      /\ op = "confirm_reset" => a[2] \in Issued(resets) /\ a[3] \in Passwords
      /\ op = "confirm_verification" => a[2] \in Issued(verifies)
      /\ op \in {"register", "login"} => a[3][1] \in Emails /\ a[3][2] \in Passwords
      /\ op = "update_me" => a[3] \in FullNames
      BY DEF Asked
<1>8. TypeOK' /\ OwnersExist' /\ Grow
      BY <1>5, SameTables
<1>9. Facts(p)'
    <2>1. NamesUser(requests[p])'
          BY <1>2, <1>4, <1>6, <1>8 DEF NamesUser, UserSteps, Accounts, Grow
    <2>2. ArgsOK(requests[p])'
          BY <1>2, <1>4, <1>5, <1>7 DEF ArgsOK, Issued, tables
    <2> QED BY <1>2, <1>4, <2>1, <2>2 DEF Facts, HoldsRow
<1> QED BY <1>4, <1>8, <1>9, StepKeeps

\* The requests that only look something up and go on, or are refused.
LEMMA LookupKeeps ==
  ASSUME AccountsInv, NEW p \in Requests,
         \/ LoadRefreshToken(p) \/ LoadLogout(p) \/ RegisterUser(p) \/ LoginUser(p) \/ UpdateMe(p)
         \/ DeleteAccount(p) \/ RequestPasswordReset(p) \/ LoadResetToken(p) \/ LoadResetUser(p)
         \/ ResendVerification(p) \/ LoadVerificationToken(p)
  PROVE  AccountsInv'
<1> DEFINE r == requests[p]
<1>a. Facts(p) /\ TypeOK /\ OwnersExist
      BY DEF AccountsInv
<1>1. r.step # "idle"
      BY DEF LoadRefreshToken, LoadLogout, RegisterUser, LoginUser, UpdateMe, DeleteAccount,
         RequestPasswordReset, LoadResetToken, LoadResetUser, ResendVerification, LoadVerificationToken, At
<1>2. ASSUME NEW code, Refused(p, code) PROVE AccountsInv'
      BY <1>2, AnswersKeeps DEF Refused, tables, ghosts
<1>3. ASSUME NEW step, NEW u, NEW row, Goes(p, step, u, row), step # "load",
             step \in UserSteps => u \in Accounts, HoldsRow(step, row)
      PROVE  AccountsInv'
      BY <1>1, <1>3, GoesKeeps DEF Goes, tables, ghosts
<1>4. CASE LoadRefreshToken(p) \/ LoadLogout(p)
    <2>1. r.token \in TokenIds
          BY <1>a, <1>1, <1>4 DEF LoadRefreshToken, LoadLogout, At, Facts, ArgsOK, Issued
    <2>2. refresh[r.token] # Null => refresh[r.token] \in RefreshRows /\ refresh[r.token].user \in Accounts
          BY <1>a, <2>1 DEF TypeOK, OwnersExist
    <2>3. \A step \in {"revoke_family", "rotate", "revoke"} :
             refresh[r.token] # Null => HoldsRow(step, refresh[r.token])
          BY <2>2 DEF HoldsRow
    <2> QED BY <1>2, <1>3, <1>4, <2>2, <2>3 DEF LoadRefreshToken, LoadLogout
<1>5. CASE RegisterUser(p)
      BY <1>2, <1>3, <1>5 DEF RegisterUser, HoldsRow, UserSteps
<1>6. CASE LoginUser(p)
    <2>1. CASE \E code : Refused(p, code)
          BY <1>2, <2>1
    <2>2. ASSUME NEW u \in WithEmail(r.data[1]),
                 Goes(p, IF users[u].password = r.data[2] THEN "succeed" ELSE "fail", u, users[u])
          PROVE  AccountsInv'
        <3>1. u \in Accounts /\ users[u] \in UserRows
              BY <1>a DEF WithEmail, Accounts, TypeOK
        <3>2. \A step \in {"succeed", "fail"} : HoldsRow(step, users[u])
              BY <3>1 DEF HoldsRow
        <3> QED BY <1>3, <2>2, <3>1, <3>2
    <2> QED BY <1>6, <2>1, <2>2 DEF LoginUser
<1>7. CASE UpdateMe(p) \/ DeleteAccount(p)
    <2>1. r.user \in Accounts
          BY <1>a, <1>7 DEF UpdateMe, DeleteAccount, At, Facts, NamesUser, UserOps
    <2>2. users[r.user] \in UserRows
          BY <1>a, <2>1 DEF Accounts, TypeOK
    <2>3. \A step \in {"rename", "anonymise"} : HoldsRow(step, users[r.user])
          BY <2>2 DEF HoldsRow
    <2> QED BY <1>2, <1>3, <1>7, <2>1, <2>3 DEF UpdateMe, DeleteAccount
<1>8. CASE RequestPasswordReset(p)
    <2>1. \A u \in WithEmail(r.data) : u \in Accounts
          BY DEF WithEmail, Accounts
    <2> QED BY <1>2, <1>3, <1>8, <2>1 DEF RequestPasswordReset, HoldsRow
<1>9. CASE LoadResetToken(p) \/ LoadVerificationToken(p)
    <2>1. /\ LoadResetToken(p) => r.token \in TokenIds
          /\ LoadVerificationToken(p) => r.token \in TokenIds
          BY <1>a, <1>1 DEF LoadResetToken, LoadVerificationToken, At, Facts, ArgsOK, Issued
    <2>2. ASSUME NEW row, row # Null => row \in MailedRows /\ row.user \in Accounts, Consumable(row)
          PROVE  row.user \in Accounts /\ HoldsRow("consume", row)
          BY <2>2 DEF Consumable, HoldsRow
    <2>3. r.token \in TokenIds =>
            /\ resets[r.token] # Null => resets[r.token] \in MailedRows /\ resets[r.token].user \in Accounts
            /\ verifies[r.token] # Null => verifies[r.token] \in MailedRows /\ verifies[r.token].user \in Accounts
          BY <1>a DEF TypeOK, OwnersExist
    <2> QED BY <1>2, <1>3, <1>9, <2>1, <2>2, <2>3 DEF LoadResetToken, LoadVerificationToken
<1>10. CASE LoadResetUser(p)
    <2>1. r.user \in Accounts
          BY <1>a, <1>10 DEF LoadResetUser, At, Facts, NamesUser, UserSteps
    <2>2. users[r.user] \in UserRows
          BY <1>a, <2>1 DEF Accounts, TypeOK
    <2> QED BY <1>3, <1>10, <2>1, <2>2 DEF LoadResetUser, HoldsRow
<1>11. CASE ResendVerification(p)
    <2>1. r.user \in Accounts
          BY <1>a, <1>11 DEF ResendVerification, At, Facts, NamesUser, UserOps
    <2> QED BY <1>2, <1>3, <1>11, <2>1 DEF ResendVerification, HoldsRow
<1> QED BY <1>4, <1>5, <1>6, <1>7, <1>8, <1>9, <1>10, <1>11

\* A commit of a user's row, by the request that acts for the user: what it
\* leaves of the row there is now, and what it writes when that is the row it
\* had loaded.
LEMMA RowWritten ==
  ASSUME AccountsInv, NEW p \in Requests,
         LoginFails(p) \/ LoginSucceeds(p) \/ SetPassword(p) \/ UpdateProfile(p) \/ Anonymise(p)
  PROVE  LET u == requests[p].user
             loaded == requests[p].row
             counts == IF loaded.failed + 1 >= LoginMaxFailedAttempts THEN 0 ELSE loaded.failed + 1 IN
         /\ u \in Accounts /\ users[u] \in UserRows /\ loaded \in UserRows
         /\ users' \in [UserIds -> UserRows \cup {Null}] /\ users'[u] \in UserRows
         /\ \A v \in UserIds \ {u} : users'[v] = users[v]
         /\ racedUsers' = IF users[u] = loaded THEN racedUsers ELSE racedUsers \cup {u}
         /\ LoginFails(p) \/ LoginSucceeds(p) \/ UpdateProfile(p) => users'[u].password = users[u].password
         /\ ~Anonymise(p) => users'[u].email = users[u].email /\ users'[u].deleted = users[u].deleted
         /\ ~Anonymise(p) /\ ~UpdateProfile(p) => users'[u].full_name = users[u].full_name
         /\ Anonymise(p) =>
              /\ users'[u].email \in {Anonymous(u), users[u].email}
              /\ loaded.email # Anonymous(u) => users'[u].email = Anonymous(u)
              /\ users[u] = loaded => users'[u].full_name = "Deleted User"
         /\ Anonymise(p) \/ UpdateProfile(p) => users'[u].failed = users[u].failed
         /\ LoginFails(p) => /\ users'[u].failed \in {counts, users[u].failed}
                             /\ users[u] = loaded => users'[u].failed = counts
         /\ LoginSucceeds(p) \/ SetPassword(p) =>
              /\ users'[u].failed \in {0, users[u].failed}
              /\ users[u] = loaded => users'[u].failed = 0
<1> DEFINE r == requests[p]
           u == r.user
           loaded == r.row
           counts == IF loaded.failed + 1 >= LoginMaxFailedAttempts THEN 0 ELSE loaded.failed + 1
           until == IF loaded.failed + 1 >= LoginMaxFailedAttempts THEN now + LockoutTime ELSE loaded.locked_until
<1>1. Facts(p) /\ TypeOK
      BY DEF AccountsInv
<1>2. u \in Accounts /\ loaded \in UserRows
      BY <1>1 DEF LoginFails, LoginSucceeds, SetPassword, UpdateProfile, Anonymise, At, Facts, NamesUser,
         HoldsRow, UserSteps
<1>3. users[u] \in UserRows /\ u \in UserIds
      BY <1>1, <1>2 DEF Accounts, TypeOK
<1>4. ASSUME NEW s, users' = [users EXCEPT ![u] = s], s \in UserRows
      PROVE  /\ users' \in [UserIds -> UserRows \cup {Null}] /\ users'[u] = s
             /\ \A v \in UserIds \ {u} : users'[v] = users[v]
      BY <1>1, <1>3, <1>4 DEF TypeOK
<1>5. ASSUME NEW data, Writes(u, loaded, data)
      PROVE  /\ users' = [users EXCEPT ![u] = Flushed(users[u], loaded, data)]
             /\ racedUsers' = IF users[u] = loaded THEN racedUsers ELSE racedUsers \cup {u}
      BY <1>1, <1>3, <1>5 DEF Writes, TypeOK
<1>6. loaded.failed \in 0..LoginMaxFailedAttempts /\ loaded.locked_until \in Nat \cup {Null}
      BY <1>2 DEF UserRows
<1>7. counts \in 0..LoginMaxFailedAttempts /\ until \in Nat \cup {Null}
      BY <1>1, <1>6 DEF TypeOK
<1>8. \A q \in Requests :
        /\ LoginFails(q) => requests[q].step = "fail"
        /\ LoginSucceeds(q) => requests[q].step = "succeed"
        /\ SetPassword(q) => requests[q].step = "set_password"
        /\ UpdateProfile(q) => requests[q].step = "rename"
        /\ Anonymise(q) => requests[q].step = "anonymise"
      BY DEF LoginFails, LoginSucceeds, SetPassword, UpdateProfile, Anonymise, At
<1>9. CASE LoginFails(p)
    <2> DEFINE data == [failed |-> counts, locked_until |-> until]
               s == Flushed(users[u], loaded, data)
    <2>1. Writes(u, loaded, data)
          BY <1>9 DEF LoginFails
    <2>2. SendsCounters(data, counts)
          BY <1>7 DEF SendsCounters
    <2> HIDE DEF data, counts, until
    <2>a. CountersSaved(users[u], loaded, s, counts)
          BY <1>2, <1>3, <2>2, FlushedCounters
    <2> HIDE DEF s
    <2>3. /\ s \in UserRows /\ s.email = users[u].email /\ s.full_name = users[u].full_name
          /\ s.password = users[u].password /\ s.deleted = users[u].deleted
          /\ s.failed \in {counts, users[u].failed} /\ (users[u] = loaded => s.failed = counts)
          BY <2>a DEF CountersSaved
    <2>4. users' = [users EXCEPT ![u] = s]
          BY <1>5, <2>1 DEF s
    <2>5. users'[u] = s
          BY <1>4, <2>3, <2>4
    <2> USE DEF counts
    <2> QED BY <1>2, <1>3, <1>4, <1>5, <1>8, <1>9, <2>1, <2>2, <2>3, <2>4, <2>5
<1>10. CASE LoginSucceeds(p)
    <2> DEFINE data == [failed |-> 0, locked_until |-> Null]
               s == Flushed(users[u], loaded, data)
    <2>1. Writes(u, loaded, data)
          BY <1>10 DEF LoginSucceeds
    <2>2. SendsCounters(data, 0)
          BY ZeroFailures DEF SendsCounters
    <2> HIDE DEF data, counts, until
    <2>a. CountersSaved(users[u], loaded, s, 0)
          BY <1>2, <1>3, <2>2, FlushedCounters
    <2> HIDE DEF s
    <2>3. /\ s \in UserRows /\ s.email = users[u].email /\ s.full_name = users[u].full_name
          /\ s.password = users[u].password /\ s.deleted = users[u].deleted
          /\ s.failed \in {0, users[u].failed} /\ (users[u] = loaded => s.failed = 0)
          BY <2>a DEF CountersSaved
    <2>4. users' = [users EXCEPT ![u] = s]
          BY <1>5, <2>1 DEF s
    <2>5. users'[u] = s
          BY <1>4, <2>3, <2>4
    <2> USE DEF counts
    <2> QED BY <1>2, <1>3, <1>4, <1>5, <1>8, <1>10, <2>1, <2>2, <2>3, <2>4, <2>5
<1>11. CASE SetPassword(p)
    <2> DEFINE data == [password |-> r.data, failed |-> 0, locked_until |-> Null]
               s == Flushed(users[u], loaded, data)
    <2>1. Writes(u, loaded, data) /\ r.data \in Passwords
          BY <1>1, <1>11 DEF SetPassword, Facts, ArgsOK, At
    <2>2. SendsPassword(data)
          BY <2>1 DEF SendsPassword
    <2> HIDE DEF data, counts, until
    <2>a. PasswordSaved(users[u], loaded, s)
          BY <1>2, <1>3, <2>2, FlushedPassword
    <2> HIDE DEF s
    <2>3. /\ s \in UserRows /\ s.email = users[u].email /\ s.full_name = users[u].full_name
          /\ s.deleted = users[u].deleted
          /\ s.failed \in {0, users[u].failed} /\ (users[u] = loaded => s.failed = 0)
          BY <2>a DEF PasswordSaved
    <2>4. users' = [users EXCEPT ![u] = s]
          BY <1>5, <2>1 DEF s
    <2>5. users'[u] = s
          BY <1>4, <2>3, <2>4
    <2> USE DEF counts
    <2> QED BY <1>2, <1>3, <1>4, <1>5, <1>8, <1>11, <2>1, <2>2, <2>3, <2>4, <2>5
<1>12. CASE UpdateProfile(p)
    <2> DEFINE data == [full_name |-> r.data]
               s == Flushed(users[u], loaded, data)
    <2>1. Writes(u, loaded, data) /\ r.data \in FullNames
          BY <1>1, <1>12 DEF UpdateProfile, Facts, ArgsOK, At
    <2>2. SendsName(data)
          BY <2>1 DEF SendsName
    <2> HIDE DEF data, counts, until
    <2>a. NameSaved(users[u], loaded, s)
          BY <1>2, <1>3, <2>2, FlushedName
    <2> HIDE DEF s
    <2>3. /\ s \in UserRows /\ s.email = users[u].email /\ s.failed = users[u].failed
          /\ s.password = users[u].password /\ s.deleted = users[u].deleted
          BY <2>a DEF NameSaved
    <2>4. users' = [users EXCEPT ![u] = s]
          BY <1>5, <2>1 DEF s
    <2>5. users'[u] = s
          BY <1>4, <2>3, <2>4
    <2> USE DEF counts
    <2> QED BY <1>2, <1>3, <1>4, <1>5, <1>8, <1>12, <2>1, <2>2, <2>3, <2>4, <2>5
<1>13. CASE Anonymise(p)
    <2> DEFINE data == [email |-> Anonymous(u), full_name |-> "Deleted User",
                        password |-> "unusable", deleted |-> TRUE]
               s == Flushed(users[u], loaded, data)
    <2>1. Writes(u, loaded, data)
          BY <1>13 DEF Anonymise
    <2>2. SendsAnonymous(data, u)
          BY DEF SendsAnonymous
    <2> HIDE DEF data, counts, until
    <2>a. AnonymousSaved(users[u], loaded, s, u)
          BY <1>2, <1>3, <2>2, FlushedAnonymous
    <2> HIDE DEF s
    <2>3. /\ s \in UserRows /\ s.failed = users[u].failed
          /\ s.email \in {Anonymous(u), users[u].email}
          /\ (loaded.email # Anonymous(u) => s.email = Anonymous(u))
          /\ (users[u] = loaded => s.full_name = "Deleted User")
          BY <2>a DEF AnonymousSaved
    <2>4. users' = [users EXCEPT ![u] = s]
          BY <1>5, <2>1 DEF s
    <2>5. users'[u] = s
          BY <1>4, <2>3, <2>4
    <2> USE DEF counts
    <2> QED BY <1>2, <1>3, <1>4, <1>5, <1>8, <1>13, <2>1, <2>2, <2>3, <2>4, <2>5
<1> QED BY <1>9, <1>10, <1>11, <1>12, <1>13

-----------------------------------------------------------------------------
(* The actions that write. *)

LEMMA UsersKeep ==
  ASSUME AccountsInv, users' \in [UserIds -> UserRows \cup {Null}],
         \A u \in UserIds : users[u] # Null => users'[u] # Null,
         streak' \in [UserIds -> Nat], UNCHANGED <<refresh, resets, verifies, counter, now>>
  PROVE  TypeOK' /\ OwnersExist' /\ Grow
BY DEF AccountsInv, TypeOK, OwnersExist, Grow, Accounts

LEMMA RefreshKeep ==
  ASSUME AccountsInv, refresh' \in [TokenIds -> RefreshRows \cup {Null}],
         \A t \in TokenIds : refresh[t] # Null => refresh'[t] # Null,
         \A t \in TokenIds : refresh'[t] # Null => refresh'[t].user \in Accounts,
         UNCHANGED <<users, resets, verifies, counter, streak, now>>
  PROVE  TypeOK' /\ OwnersExist' /\ Grow
BY DEF AccountsInv, TypeOK, OwnersExist, Grow, Accounts

\* What the actions do to a refresh token: one is inserted, chosen ones are revoked.
Inserted(t, u, family, password) ==
  /\ refresh'[t] \in RefreshRows /\ refresh'[t].user = u /\ refresh'[t].family = family
  /\ refresh'[t].password = password /\ ~refresh'[t].revoked

SameButRevoked(t) ==
  /\ refresh'[t] \in RefreshRows /\ refresh'[t].user = refresh[t].user
  /\ refresh'[t].family = refresh[t].family /\ refresh'[t].password = refresh[t].password
  /\ refresh'[t].revoked

LEMMA TokenIssued ==
  ASSUME AccountsInv, NEW p \in Requests, IssueRefreshToken(p)
  PROVE  LET t == FirstFree(refresh) IN
         /\ t \in TokenIds /\ refresh[t] = Null /\ requests[p].user \in Accounts
         /\ refresh' \in [TokenIds -> RefreshRows \cup {Null}]
         /\ \A x \in TokenIds \ {t} : refresh'[x] = refresh[x]
         /\ Inserted(t, requests[p].user, t, requests[p].data[2])
<1> DEFINE r == requests[p]
           t == FirstFree(refresh)
           s == NewRefresh(r.user, t, r.data[2])
<1>1. Facts(p) /\ TypeOK
      BY DEF AccountsInv
<1>2. r.user \in Accounts /\ r.user \in UserIds /\ r.data[2] \in Passwords
      BY <1>1 DEF IssueRefreshToken, Facts, NamesUser, UserSteps, ArgsOK, Accounts
<1>3. t \in TokenIds /\ refresh[t] = Null
      BY <1>1, FirstFreeIsFree DEF IssueRefreshToken, TypeOK
<1>4. s \in RefreshRows /\ s.user = r.user /\ s.family = t /\ ~s.revoked /\ s.password = r.data[2]
      BY <1>1, <1>2, <1>3, NewRefreshRow DEF TypeOK
<1>5. refresh' = [refresh EXCEPT ![t] = s]
      BY DEF IssueRefreshToken
<1> HIDE DEF s, t
<1>6. refresh' \in [TokenIds -> RefreshRows \cup {Null}] /\ refresh'[t] = s
      /\ \A x \in TokenIds \ {t} : refresh'[x] = refresh[x]
      BY <1>1, <1>3, <1>4, <1>5 DEF TypeOK
<1>7. Inserted(t, r.user, t, r.data[2])
      BY <1>4, <1>6 DEF Inserted
<1> QED BY <1>2, <1>3, <1>6, <1>7 DEF t

LEMMA TokenRotated ==
  ASSUME AccountsInv, NEW p \in Requests, RotateRefreshToken(p)
  PROVE  LET t == FirstFree(refresh)
             k == requests[p].token
             row == requests[p].row IN
         /\ t \in TokenIds /\ refresh[t] = Null /\ k \in TokenIds /\ refresh[k] # Null
         /\ requests[p].user \in Accounts /\ row \in RefreshRows
         /\ refresh' \in [TokenIds -> RefreshRows \cup {Null}]
         /\ \A x \in TokenIds \ {t, k} : refresh'[x] = refresh[x]
         /\ SameButRevoked(k)
         /\ Inserted(t, requests[p].user, row.family, row.password)
<1> DEFINE r == requests[p]
           t == FirstFree(refresh)
           k == r.token
           s == NewRefresh(r.user, r.row.family, r.row.password)
           x == [refresh[k] EXCEPT !.revoked = TRUE]
<1>1. Facts(p) /\ TypeOK
      BY DEF AccountsInv
<1>2. r.user \in Accounts /\ r.user \in UserIds /\ r.row \in RefreshRows
      BY <1>1 DEF RotateRefreshToken, At, Facts, NamesUser, UserSteps, HoldsRow, Accounts
<1>3. t \in TokenIds /\ refresh[t] = Null
      BY <1>1, FirstFreeIsFree DEF RotateRefreshToken, TypeOK
<1>4. k \in TokenIds /\ refresh[k] # Null /\ refresh[k] \in RefreshRows
      BY <1>1 DEF RotateRefreshToken, At, Facts, ArgsOK, Issued, TypeOK
<1>5. s \in RefreshRows /\ s.user = r.user /\ s.family = r.row.family /\ ~s.revoked
      /\ s.password = r.row.password
    <2>1. r.row.family \in TokenIds /\ r.row.password \in Passwords \cup {"unusable"} /\ now \in Nat
          BY <1>1, <1>2 DEF RefreshRows, TypeOK
    <2>2. PICK u \in UserIds, f \in TokenIds, pw \in Passwords \cup {"unusable"} :
            u = r.user /\ f = r.row.family /\ pw = r.row.password
          BY <1>2, <2>1
    <2>3. s = NewRefresh(u, f, pw)
          BY <2>2
    <2> DEFINE z == NewRefresh(u, f, pw)
    <2>4. z \in RefreshRows /\ z.user = u /\ z.family = f /\ ~z.revoked /\ z.password = pw
          BY <2>1, NewRefreshRow
    <2> HIDE DEF s, z
    <2> QED BY <2>2, <2>3, <2>4 DEF z
<1>6. x \in RefreshRows /\ x.user = refresh[k].user /\ x.family = refresh[k].family /\ x.revoked
      /\ x.password = refresh[k].password
      BY <1>4, RevokedRow
<1>7. refresh' = [[refresh EXCEPT ![k] = x] EXCEPT ![t] = s]
      BY <1>1, <1>3, <1>4 DEF RotateRefreshToken, TypeOK
<1> HIDE DEF s, t, x
<1>8. refresh' \in [TokenIds -> RefreshRows \cup {Null}] /\ refresh'[t] = s /\ refresh'[k] = x
      /\ \A y \in TokenIds \ {t, k} : refresh'[y] = refresh[y]
      BY <1>1, <1>3, <1>4, <1>5, <1>6, <1>7 DEF TypeOK
<1>9. Inserted(t, r.user, r.row.family, r.row.password) /\ SameButRevoked(k)
      BY <1>5, <1>6, <1>8 DEF Inserted, SameButRevoked
<1> QED BY <1>2, <1>3, <1>4, <1>8, <1>9 DEF t

LEMMA TokensRevoked ==
  ASSUME AccountsInv, NEW chosen \in SUBSET Issued(refresh), Revoke(chosen)
  PROVE  /\ refresh' \in [TokenIds -> RefreshRows \cup {Null}]
         /\ \A t \in TokenIds \ chosen : refresh'[t] = refresh[t]
         /\ \A t \in chosen : SameButRevoked(t)
<1>1. ASSUME NEW t \in chosen PROVE SameButRevoked(t)
    <2>1. t \in TokenIds /\ refresh[t] \in RefreshRows
          BY <1>1 DEF Issued, AccountsInv, TypeOK
    <2>2. refresh'[t] = [refresh[t] EXCEPT !.revoked = TRUE]
          BY <2>1 DEF Revoke
    <2> QED BY <2>1, <2>2, RevokedRow DEF SameButRevoked
<1>2. \A t \in TokenIds \ chosen : refresh'[t] = refresh[t]
      BY DEF Revoke
<1>3. \A t \in TokenIds : refresh'[t] \in RefreshRows \cup {Null}
      BY <1>1, <1>2 DEF SameButRevoked, AccountsInv, TypeOK
<1> QED BY <1>1, <1>2, <1>3 DEF Revoke

\* RevokeRefreshToken is an UPDATE of one row.
LEMMA TokenRevoked ==
  ASSUME AccountsInv, NEW p \in Requests, RevokeRefreshToken(p)
  PROVE  LET k == requests[p].token IN
         /\ k \in TokenIds /\ refresh[k] # Null
         /\ refresh' \in [TokenIds -> RefreshRows \cup {Null}]
         /\ \A t \in TokenIds \ {k} : refresh'[t] = refresh[t]
         /\ SameButRevoked(k)
<1> DEFINE k == requests[p].token
           x == [refresh[k] EXCEPT !.revoked = TRUE]
<1>1. Facts(p) /\ TypeOK
      BY DEF AccountsInv
<1>2. k \in TokenIds /\ refresh[k] # Null /\ refresh[k] \in RefreshRows
      BY <1>1 DEF RevokeRefreshToken, At, Facts, ArgsOK, Issued, TypeOK
<1>3. x \in RefreshRows /\ x.user = refresh[k].user /\ x.family = refresh[k].family /\ x.revoked
      /\ x.password = refresh[k].password
      BY <1>2, RevokedRow
<1>4. refresh' = [refresh EXCEPT ![k] = x]
      BY <1>1, <1>2 DEF RevokeRefreshToken, TypeOK
<1> HIDE DEF x
<1> QED BY <1>1, <1>2, <1>3, <1>4 DEF SameButRevoked, TypeOK

RefreshGrows ==
  /\ refresh' \in [TokenIds -> RefreshRows \cup {Null}]
  /\ \A t \in TokenIds : refresh[t] # Null => refresh'[t] # Null
  /\ \A t \in TokenIds : refresh'[t] # Null => refresh'[t].user \in Accounts

LEMMA SessionsKeep ==
  ASSUME AccountsInv, NEW p \in Requests,
         \/ IssueRefreshToken(p) \/ RotateRefreshToken(p) \/ RevokeFamily(p)
         \/ RevokeAllForUser(p) \/ RevokeRefreshToken(p)
  PROVE  AccountsInv'
<1>1. RefreshGrows
    <2>0. \A t \in TokenIds : refresh[t] # Null => refresh[t].user \in Accounts
          BY DEF AccountsInv, OwnersExist
    <2>1. CASE IssueRefreshToken(p)
          BY <2>0, <2>1, TokenIssued DEF RefreshGrows, Inserted
    <2>2. CASE RotateRefreshToken(p)
          BY <2>0, <2>2, TokenRotated DEF RefreshGrows, Inserted, SameButRevoked
    <2>3. ASSUME NEW chosen \in SUBSET Issued(refresh), Revoke(chosen)
          PROVE  RefreshGrows
          BY <2>0, <2>3, TokensRevoked DEF RefreshGrows, SameButRevoked, Issued
    <2>4. CASE RevokeFamily(p) \/ RevokeAllForUser(p)
          BY <2>3, <2>4 DEF RevokeFamily, RevokeAllForUser
    <2>5. CASE RevokeRefreshToken(p)
          BY <2>0, <2>5, TokenRevoked DEF RefreshGrows, SameButRevoked
    <2> QED BY <2>1, <2>2, <2>4, <2>5
<1>2. UNCHANGED <<users, resets, verifies, counter, streak, now>>
      BY DEF IssueRefreshToken, RotateRefreshToken, RevokeFamily, RevokeAllForUser, RevokeRefreshToken, ghosts
<1>3. TypeOK' /\ OwnersExist' /\ Grow
      BY <1>1, <1>2, RefreshKeep DEF RefreshGrows
<1>4. PICK code : Answers(p, code)
      BY DEF IssueRefreshToken, RotateRefreshToken, RevokeFamily, RevokeAllForUser, RevokeRefreshToken
<1> QED BY <1>3, <1>4, AnswersFacts, AnswersFields, StepKeeps DEF AccountsInv

\* One more account: the row that is inserted.
LEMMA UserInserted ==
  ASSUME AccountsInv, NEW p \in Requests, At(p, "register", "insert"), HasRoom(users),
         users' = [users EXCEPT ![FirstFree(users)] = NewUser(requests[p].data[1], requests[p].data[2])]
  PROVE  LET u == FirstFree(users) IN
         /\ u \in UserIds /\ users[u] = Null
         /\ users' \in [UserIds -> UserRows \cup {Null}] /\ users'[u] \in UserRows
         /\ users'[u].failed = 0 /\ users'[u].deleted = FALSE
         /\ \A v \in UserIds \ {u} : users'[v] = users[v]
<1> DEFINE u == FirstFree(users)
           s == NewUser(requests[p].data[1], requests[p].data[2])
<1>1. Facts(p) /\ TypeOK
      BY DEF AccountsInv
<1>2. u \in UserIds /\ users[u] = Null
      BY <1>1, FirstFreeIsFree DEF TypeOK
<1>3. PICK e \in Emails, pw \in Passwords : e = requests[p].data[1] /\ pw = requests[p].data[2]
      BY <1>1 DEF Facts, ArgsOK, At
<1>4. s \in UserRows /\ s.failed = 0 /\ s.deleted = FALSE
      BY <1>3, NewUserRow
<1> HIDE DEF s, u
<1>5. users' = [users EXCEPT ![u] = s]
      BY DEF s, u
<1> QED BY <1>1, <1>2, <1>4, <1>5 DEF TypeOK, u

LEMMA RegisterKeeps ==
  ASSUME AccountsInv, NEW p \in Requests, InsertUser(p)
  PROVE  AccountsInv'
<1> DEFINE r == requests[p]
           u == FirstFree(users)
<1>1. CASE Refused(p, 500)
      BY <1>1, AnswersKeeps DEF Refused, tables, ghosts
<1>2. CASE /\ HasRoom(users) /\ users' = [users EXCEPT ![u] = NewUser(r.data[1], r.data[2])]
           /\ Moves(p, "mail", u, Null)
           /\ UNCHANGED <<refresh, resets, verifies, counter, now, ghosts>>
    <2>1. /\ u \in UserIds /\ users[u] = Null
          /\ users' \in [UserIds -> UserRows \cup {Null}] /\ users'[u] \in UserRows
          /\ \A v \in UserIds \ {u} : users'[v] = users[v]
          BY <1>2, UserInserted DEF InsertUser
    <2>2. TypeOK' /\ OwnersExist' /\ Grow
        <3>1. streak' \in [UserIds -> Nat]
              BY <1>2 DEF ghosts, AccountsInv, TypeOK
        <3> QED BY <1>2, <2>1, <3>1, UsersKeep
    <2>3. /\ RequestsOK' /\ \A q \in Requests \ {p} : requests'[q] = requests[q]
          /\ requests'[p].step = "mail" /\ requests'[p].user = u /\ requests'[p].op = "register"
          /\ requests'[p].data = r.data
          BY <1>2, MovesFields DEF AccountsInv, InsertUser, At
    <2>4. ArgsOK(requests[p])'
        <3>1. r.data[1] \in Emails /\ r.data[2] \in Passwords
              BY DEF InsertUser, At, AccountsInv, Facts, ArgsOK
        <3> QED BY <2>3, <3>1 DEF ArgsOK
    <2>5. NamesUser(requests[p])'
          BY <2>1, <2>3 DEF NamesUser, Accounts
    <2>6. Facts(p)'
          BY <2>3, <2>4, <2>5 DEF Facts, HoldsRow
    <2> QED BY <2>2, <2>3, <2>6, StepKeeps
<1> QED BY <1>1, <1>2 DEF InsertUser

LEMMA UserWritesKeep ==
  ASSUME AccountsInv, NEW p \in Requests,
         LoginFails(p) \/ LoginSucceeds(p) \/ SetPassword(p) \/ UpdateProfile(p) \/ Anonymise(p)
  PROVE  AccountsInv'
<1> DEFINE u == requests[p].user
<1>1. /\ u \in Accounts /\ users' \in [UserIds -> UserRows \cup {Null}] /\ users'[u] \in UserRows
      /\ \A v \in UserIds \ {u} : users'[v] = users[v]
      BY RowWritten
<1>2. u \in UserIds /\ users[u] # Null
      BY <1>1 DEF Accounts
<1>3. UNCHANGED <<refresh, resets, verifies, counter, now>>
      BY DEF LoginFails, LoginSucceeds, SetPassword, UpdateProfile, Anonymise
<1>4. streak' \in [UserIds -> Nat]
    <2>1. streak \in [UserIds -> Nat]
          BY DEF AccountsInv, TypeOK
    <2>2. streak' = streak \/ \E n : n \in {0, streak[u] + 1} /\ streak' = [streak EXCEPT ![u] = n]
          BY <1>2, <2>1 DEF LoginFails, LoginSucceeds, SetPassword, UpdateProfile, Anonymise
    <2>3. \A v \in UserIds : streak[v] \in Nat
          BY <2>1
    <2>4. streak[u] \in Nat
          BY <1>2, <2>3
    <2>5. \A n \in Nat : n + 1 \in Nat
          OBVIOUS
    <2>6. streak[u] + 1 \in Nat
          BY <2>4, <2>5
    <2> QED BY <1>2, <2>1, <2>2, <2>6
<1>5. TypeOK' /\ OwnersExist' /\ Grow
      BY <1>1, <1>2, <1>3, <1>4, UsersKeep
<1>6. CASE \E code : Answers(p, code)
      BY <1>5, <1>6, AnswersFacts, AnswersFields, StepKeeps DEF AccountsInv
<1>7. CASE \E step \in {"issue", "revoke_all"} : Moves(p, step, u, Null) /\ requests[p].step # "idle"
    <2>1. PICK step \in {"issue", "revoke_all"} : Moves(p, step, u, Null) /\ requests[p].step # "idle"
          BY <1>7
    <2>2. Facts(p)'
          BY <1>1, <1>5, <2>1, MovesFacts DEF HoldsRow
    <2>3. RequestsOK' /\ \A q \in Requests \ {p} : requests'[q] = requests[q]
          BY <2>1, MovesFields DEF AccountsInv
    <2> QED BY <1>5, <2>2, <2>3, StepKeeps
<1> QED BY <1>6, <1>7 DEF LoginFails, LoginSucceeds, SetPassword, UpdateProfile, Anonymise, At

\* What the actions do to a table of mailed tokens.
Inserts(rows1, rows, u) == rows1 = [rows EXCEPT ![FirstFree(rows)] = NewMailed(u)]

Mailed(rows1, rows, t, u) ==
  /\ t \in TokenIds /\ rows[t] = Null /\ rows1 \in [TokenIds -> MailedRows \cup {Null}]
  /\ \A x \in TokenIds \ {t} : rows1[x] = rows[x]
  /\ rows1[t] \in MailedRows /\ rows1[t].user = u /\ rows1[t].sets = 0 /\ ~rows1[t].used

LEMMA MailedInserted ==
  ASSUME NEW rows, NEW rows1, rows \in [TokenIds -> MailedRows \cup {Null}], HasRoom(rows), now \in Nat,
         NEW u \in UserIds, Inserts(rows1, rows, u)
  PROVE  Mailed(rows1, rows, FirstFree(rows), u)
<1>1. FirstFree(rows) \in TokenIds /\ rows[FirstFree(rows)] = Null
      BY FirstFreeIsFree
<1> QED BY <1>1, NewMailedRow DEF Mailed, Inserts

Consumes(rows1, rows, k) == rows1 = [rows EXCEPT ![k].used = TRUE, ![k].sets = @ + 1]

Consumed(rows1, rows, k) ==
  /\ rows1 \in [TokenIds -> MailedRows \cup {Null}]
  /\ \A x \in TokenIds \ {k} : rows1[x] = rows[x]
  /\ rows1[k] \in MailedRows /\ rows1[k].user = rows[k].user
  /\ rows1[k].used /\ rows1[k].sets = rows[k].sets + 1

LEMMA MailedConsumed ==
  ASSUME NEW rows, NEW rows1, rows \in [TokenIds -> MailedRows \cup {Null}],
         NEW k \in TokenIds, rows[k] # Null, Consumes(rows1, rows, k)
  PROVE  Consumed(rows1, rows, k)
<1> DEFINE s == [[rows[k] EXCEPT !.used = TRUE] EXCEPT !.sets = @ + 1]
<1>1. rows1 = [rows EXCEPT ![k] = s]
      BY DEF Consumes
<1>2. s \in MailedRows /\ s.user = rows[k].user /\ s.used /\ s.sets = rows[k].sets + 1
      BY ConsumedRow
<1> HIDE DEF s
<1> QED BY <1>1, <1>2 DEF Consumed

LEMMA MailedKeep ==
  ASSUME AccountsInv,
         resets' \in [TokenIds -> MailedRows \cup {Null}],
         verifies' \in [TokenIds -> MailedRows \cup {Null}],
         \A t \in TokenIds :
           /\ resets[t] # Null => resets'[t] # Null
           /\ verifies[t] # Null => verifies'[t] # Null
           /\ resets'[t] # Null => resets'[t].user \in Accounts
           /\ verifies'[t] # Null => verifies'[t].user \in Accounts,
         UNCHANGED <<users, refresh, counter, streak, now>>
  PROVE  TypeOK' /\ OwnersExist' /\ Grow
BY DEF AccountsInv, TypeOK, OwnersExist, Grow, Accounts

LEMMA ResetInserted ==
  ASSUME AccountsInv, NEW p \in Requests, CreateResetToken(p)
  PROVE  \E u \in Accounts : Mailed(resets', resets, FirstFree(resets), u)
<1>1. Facts(p) /\ TypeOK
      BY DEF AccountsInv
<1>2. PICK u \in UserIds : u \in Accounts /\ u = requests[p].user
      BY <1>1 DEF CreateResetToken, At, Facts, NamesUser, UserSteps, Accounts
<1>3. /\ resets \in [TokenIds -> MailedRows \cup {Null}] /\ HasRoom(resets) /\ now \in Nat
      /\ Inserts(resets', resets, u)
      BY <1>1, <1>2 DEF CreateResetToken, TypeOK, Inserts
<1>4. Mailed(resets', resets, FirstFree(resets), u)
      BY <1>3, MailedInserted
<1> QED BY <1>2, <1>4

LEMMA ResetConsumed ==
  ASSUME AccountsInv, NEW p \in Requests, ConsumeResetToken(p)
  PROVE  LET k == requests[p].token IN
         k \in TokenIds /\ resets[k] # Null /\ Consumed(resets', resets, k)
<1>1. Facts(p) /\ TypeOK
      BY DEF AccountsInv
<1>2. PICK k \in TokenIds : k = requests[p].token /\ resets[k] # Null
      BY <1>1 DEF ConsumeResetToken, At, Facts, ArgsOK, Issued
<1>3. /\ resets \in [TokenIds -> MailedRows \cup {Null}]
      /\ Consumes(resets', resets, k)
      BY <1>1, <1>2 DEF ConsumeResetToken, TypeOK, Consumes
<1>4. Consumed(resets', resets, k)
      BY <1>2, <1>3, MailedConsumed
<1> QED BY <1>2, <1>4

LEMMA MailKeeps ==
  ASSUME AccountsInv, NEW p \in Requests,
         \/ CreateResetToken(p) \/ ConsumeResetToken(p)
         \/ CreateVerificationToken(p) \/ ConsumeVerificationToken(p)
  PROVE  AccountsInv'
<1> DEFINE r == requests[p]
<1>1. Facts(p) /\ TypeOK /\ OwnersExist
      BY DEF AccountsInv
<1>2. r.step # "idle" /\ r.user \in Accounts
      BY <1>1 DEF CreateResetToken, ConsumeResetToken, CreateVerificationToken, ConsumeVerificationToken, At,
         Facts, NamesUser, UserSteps
<1>3. TypeOK' /\ OwnersExist' /\ Grow
    <2>1. CASE CreateResetToken(p)
        <3>1. UNCHANGED <<users, refresh, verifies, counter, streak, now>>
              BY <2>1 DEF CreateResetToken, ghosts
        <3> QED BY <1>1, <2>1, <3>1, ResetInserted, MailedKeep DEF TypeOK, OwnersExist, Mailed
    <2>2. CASE ConsumeResetToken(p)
        <3>1. UNCHANGED <<users, refresh, verifies, counter, streak, now>>
              BY <2>2 DEF ConsumeResetToken
        <3> QED BY <1>1, <2>2, <3>1, ResetConsumed, MailedKeep DEF TypeOK, OwnersExist, Consumed
    <2>3. CASE CreateVerificationToken(p)
        <3>1. UNCHANGED <<users, refresh, resets, counter, streak, now>>
              BY <2>3 DEF CreateVerificationToken, ghosts
        <3>2. PICK u \in UserIds : u \in Accounts /\ u = r.user
              BY <1>2 DEF Accounts
        <3>3. /\ verifies \in [TokenIds -> MailedRows \cup {Null}] /\ HasRoom(verifies) /\ now \in Nat
              /\ Inserts(verifies', verifies, u)
              BY <1>1, <2>3, <3>2 DEF CreateVerificationToken, TypeOK, Inserts
        <3>4. Mailed(verifies', verifies, FirstFree(verifies), u)
              BY <3>3, MailedInserted
        <3> QED BY <1>1, <3>1, <3>2, <3>4, MailedKeep DEF TypeOK, OwnersExist, Mailed
    <2>4. CASE ConsumeVerificationToken(p)
        <3>1. UNCHANGED <<users, refresh, resets, counter, streak, now>>
              BY <2>4 DEF ConsumeVerificationToken, ghosts
        <3>2. PICK k \in TokenIds : k = r.token /\ verifies[k] # Null
              BY <1>1, <2>4 DEF ConsumeVerificationToken, At, Facts, ArgsOK, Issued
        <3>3. /\ verifies \in [TokenIds -> MailedRows \cup {Null}]
              /\ Consumes(verifies', verifies, k)
              BY <1>1, <2>4, <3>2 DEF ConsumeVerificationToken, TypeOK, Consumes
        <3>4. Consumed(verifies', verifies, k)
              BY <3>2, <3>3, MailedConsumed
        <3> QED BY <1>1, <3>1, <3>2, <3>4, MailedKeep DEF TypeOK, OwnersExist, Consumed
    <2> QED BY <2>1, <2>2, <2>3, <2>4
<1>4. CASE \E code : Answers(p, code)
      BY <1>3, <1>4, AnswersFacts, AnswersFields, StepKeeps DEF AccountsInv
<1>5. CASE \E step \in {"issue", "load_user", "verify"} : Moves(p, step, r.user, Null)
    <2>1. PICK step \in {"issue", "load_user", "verify"} : Moves(p, step, r.user, Null)
          BY <1>5
    <2>2. Facts(p)'
          BY <1>2, <1>3, <2>1, MovesFacts DEF HoldsRow
    <2>3. RequestsOK' /\ \A q \in Requests \ {p} : requests'[q] = requests[q]
          BY <2>1, MovesFields DEF AccountsInv
    <2> QED BY <1>3, <2>2, <2>3, StepKeeps
<1> QED BY <1>4, <1>5 DEF CreateResetToken, ConsumeResetToken, CreateVerificationToken, ConsumeVerificationToken

LEMMA VerifiedKeeps ==
  ASSUME AccountsInv, NEW p \in Requests, SetVerified(p)
  PROVE  AccountsInv'
<1> DEFINE u == requests[p].user
           s == [users[u] EXCEPT !.verified = TRUE]
<1>1. Facts(p) /\ TypeOK
      BY DEF AccountsInv
<1>2. u \in UserIds /\ users[u] \in UserRows
      BY <1>1 DEF SetVerified, At, Facts, NamesUser, UserSteps, Accounts, TypeOK
<1>3. s \in UserRows
      BY <1>2 DEF UserRows
<1>4. users' = [users EXCEPT ![u] = s]
      BY <1>1, <1>2 DEF SetVerified, TypeOK
<1> HIDE DEF s
<1>5. users' \in [UserIds -> UserRows \cup {Null}] /\ \A v \in UserIds : users[v] # Null => users'[v] # Null
      BY <1>1, <1>2, <1>3, <1>4 DEF TypeOK
<1>6. UNCHANGED <<refresh, resets, verifies, counter, now, streak>> /\ streak \in [UserIds -> Nat]
      BY <1>1 DEF SetVerified, ghosts, TypeOK
<1>7. TypeOK' /\ OwnersExist' /\ Grow
      BY <1>5, <1>6, UsersKeep
<1>8. Answers(p, 200)
      BY DEF SetVerified
<1> QED BY <1>7, <1>8, AnswersFacts, AnswersFields, StepKeeps DEF AccountsInv

\* The counter of a limiter.
LEMMA LimiterKeeps ==
  ASSUME AccountsInv, NEW p \in Requests, LimiterStep(p)
  PROVE  AccountsInv'
<1>1. TypeOK
      BY DEF AccountsInv
<1>2. UNCHANGED <<users, refresh, resets, verifies, streak, now>>
      BY DEF LimiterStep, Increment, Expire, RedisError, ghosts
<1>3. counter' \in CounterRows \cup {Null}
    <2>1. counter \in CounterRows \cup {Null} /\ now \in Nat
          BY <1>1 DEF TypeOK
    <2>2. CASE Increment(p)
        <3>1. PICK count \in Nat \ {0}, expires \in Nat \cup {Null} :
                counter' = [count |-> count, expires |-> expires]
            <4>1. CASE counter = Null
                <5>1. counter' = [count |-> 1, expires |-> Null]
                      BY <2>2, <4>1 DEF Increment
                <5>2. 1 \in Nat \ {0} /\ Null \in Nat \cup {Null}
                      OBVIOUS
                <5> QED BY <5>1, <5>2
            <4>2. CASE counter # Null
                <5>1. counter.count \in Nat \ {0} /\ counter.expires \in Nat \cup {Null}
                      BY <2>1, <4>2 DEF CounterRows
                <5>2. counter.count + 1 \in Nat \ {0}
                      BY <5>1
                <5> QED BY <2>2, <4>2, <5>1, <5>2 DEF Increment
            <4> QED BY <4>1, <4>2
        <3> QED BY <3>1 DEF CounterRows
    <2>3. CASE Expire(p)
        <3>1. now + LimitWindow \in Nat
              BY <2>1
        <3> QED BY <2>1, <2>3, <3>1 DEF Expire, CounterRows
    <2>4. CASE RedisError(p)
          BY <2>1, <2>4 DEF RedisError
    <2> QED BY <2>2, <2>3, <2>4 DEF LimiterStep
<1>4. TypeOK' /\ OwnersExist' /\ Grow
      BY <1>1, <1>2, <1>3 DEF AccountsInv, TypeOK, OwnersExist, Grow, Accounts
<1>5. CASE \E code : Answers(p, code)
      BY <1>4, <1>5, AnswersFacts, AnswersFields, StepKeeps DEF AccountsInv
<1>6. CASE Moves(p, "expire", Null, Null) /\ requests[p].step # "idle"
    <2>1. Facts(p)'
          BY <1>4, <1>6, MovesFacts DEF HoldsRow, UserSteps
    <2>2. RequestsOK' /\ \A q \in Requests \ {p} : requests'[q] = requests[q]
          BY <1>6, MovesFields DEF AccountsInv
    <2> QED BY <1>4, <2>1, <2>2, StepKeeps
<1> QED BY <1>5, <1>6 DEF LimiterStep, Increment, Expire, RedisError, At

LEMMA CrashKeeps ==
  ASSUME AccountsInv, NEW p \in Requests, Crash(p)
  PROVE  AccountsInv'
BY AnswersKeeps DEF Crash, tables

LEMMA TickKeeps ==
  ASSUME AccountsInv, Tick
  PROVE  AccountsInv'
<1>1. UNCHANGED <<users, refresh, resets, verifies, requests, streak>>
      BY DEF Tick, ghosts
<1>2. now' \in Nat /\ counter' \in CounterRows \cup {Null}
    <2>1. now \in Nat /\ counter \in CounterRows \cup {Null}
          BY DEF AccountsInv, TypeOK
    <2> QED BY <2>1 DEF Tick
<1>3. TypeOK' /\ OwnersExist' /\ RequestsOK'
      BY <1>1, <1>2 DEF AccountsInv, TypeOK, OwnersExist, Accounts, RequestsOK
<1>4. \A p \in Requests : Facts(p)'
      BY <1>1 DEF AccountsInv, Facts, NamesUser, ArgsOK, Accounts, Issued
<1> QED BY <1>3, <1>4 DEF AccountsInv

LEMMA StutterKeeps ==
  ASSUME AccountsInv, UNCHANGED vars
  PROVE  AccountsInv'
<1>1. UNCHANGED <<tables, requests>>
      BY DEF vars, ghosts, tables
<1> QED BY <1>1 DEF tables, AccountsInv, TypeOK, OwnersExist, Accounts, RequestsOK, Facts, NamesUser,
        ArgsOK, Issued

LEMMA NextKeeps ==
  ASSUME AccountsInv, [Next]_vars
  PROVE  AccountsInv'
<1>1. CASE Tick
      BY <1>1, TickKeeps
<1>2. ASSUME NEW p \in Requests, Ask(p) \/ Crash(p) \/ LimiterStep(p)
      PROVE  AccountsInv'
      BY <1>2, AskKeeps, CrashKeeps, LimiterKeeps
<1>3. ASSUME NEW p \in Requests, SessionStep(p)
      PROVE  AccountsInv'
      BY <1>3, LookupKeeps, SessionsKeep DEF SessionStep
<1>4. ASSUME NEW p \in Requests, AccountStep(p)
      PROVE  AccountsInv'
      BY <1>4, LookupKeeps, RegisterKeeps, MailKeeps, UserWritesKeep DEF AccountStep
<1>5. ASSUME NEW p \in Requests, MailStep(p)
      PROVE  AccountsInv'
      BY <1>5, LookupKeeps, MailKeeps, UserWritesKeep, VerifiedKeeps DEF MailStep
<1>6. CASE UNCHANGED vars
      BY <1>6, StutterKeeps
<1> QED BY <1>1, <1>2, <1>3, <1>4, <1>5, <1>6 DEF Next

LEMMA AccountsInvariant == Spec => []AccountsInv
<1>1. AccountsInv /\ [Next]_vars => AccountsInv'
      BY NextKeeps
<1> QED BY InitAccounts, <1>1, PTL DEF Spec

(* Rows stay rows: every user, token and counter has the columns and the      *)
(* values the tables allow, whatever requests, deaths and Redis errors do.    *)
THEOREM AccountsTypeCorrect == Spec => []TypeOK
<1>1. AccountsInv => TypeOK
      BY DEF AccountsInv
<1> QED BY AccountsInvariant, <1>1, PTL

-----------------------------------------------------------------------------
(* What a step of a request touches, and what it holds after it. *)

RequestStep(p) ==
  Ask(p) \/ SessionStep(p) \/ AccountStep(p) \/ MailStep(p) \/ LimiterStep(p) \/ Crash(p)

LEMMA OthersWait ==
  ASSUME AccountsInv, NEW p \in Requests, RequestStep(p)
  PROVE  \A q \in Requests \ {p} : requests'[q] = requests[q]
<1>1. ASSUME NEW code, Answers(p, code)
      PROVE  \A q \in Requests \ {p} : requests'[q] = requests[q]
      BY <1>1, AnswersFields DEF AccountsInv
<1>2. ASSUME NEW step, NEW u, NEW row, Moves(p, step, u, row)
      PROVE  \A q \in Requests \ {p} : requests'[q] = requests[q]
      BY <1>2, MovesFields DEF AccountsInv
<1>3. CASE Ask(p)
      BY <1>3 DEF Ask, AccountsInv, RequestsOK
<1>4. CASE SessionStep(p)
      BY <1>1, <1>2, <1>4 DEF SessionStep, IssueRefreshToken, LoadRefreshToken, RotateRefreshToken,
         RevokeFamily, RevokeAllForUser, LoadLogout, RevokeRefreshToken, Refused, Goes
<1>5. CASE AccountStep(p)
      BY <1>1, <1>2, <1>5 DEF AccountStep, RegisterUser, InsertUser, CreateVerificationToken, LoginUser,
         LoginFails, LoginSucceeds, UpdateMe, UpdateProfile, DeleteAccount, Anonymise, Refused, Goes
<1>6. CASE MailStep(p)
      BY <1>1, <1>2, <1>6 DEF MailStep, RequestPasswordReset, CreateResetToken, LoadResetToken,
         ConsumeResetToken, LoadResetUser, SetPassword, ResendVerification, LoadVerificationToken,
         ConsumeVerificationToken, SetVerified, Refused, Goes
<1>7. CASE LimiterStep(p) \/ Crash(p)
      BY <1>1, <1>2, <1>7 DEF LimiterStep, Increment, Expire, RedisError, Crash
<1> QED BY <1>3, <1>4, <1>5, <1>6, <1>7 DEF RequestStep

RefreshStep(p) ==
  IssueRefreshToken(p) \/ RotateRefreshToken(p) \/ RevokeFamily(p) \/ RevokeAllForUser(p) \/ RevokeRefreshToken(p)
UserWrite(p) ==
  LoginFails(p) \/ LoginSucceeds(p) \/ SetPassword(p) \/ UpdateProfile(p) \/ Anonymise(p)

LEMMA Frames ==
  ASSUME NEW p \in Requests, RequestStep(p)
  PROVE  /\ LimiterStep(p) \/ Crash(p) \/ UNCHANGED <<counter, stuck>>
         /\ RefreshStep(p) \/ UNCHANGED <<refresh, late, forked, burned>>
         /\ UserWrite(p) \/ InsertUser(p) \/ SetVerified(p) \/ UNCHANGED <<users, streak, racedUsers>>
         /\ CreateResetToken(p) \/ ConsumeResetToken(p) \/ UNCHANGED <<resets, racedResets>>
         /\ Crash(p) \/ UNCHANGED cut
         /\ requests[p].step = "revoke_all" => RevokeAllForUser(p) \/ Crash(p)
         /\ requests[p].step = "expire" => LimiterStep(p) \/ Crash(p)
<1>1. CASE Ask(p) \/ Crash(p)
      BY <1>1 DEF Ask, Crash, ghosts
<1>2. CASE SessionStep(p)
      BY <1>2 DEF SessionStep, RefreshStep, IssueRefreshToken, LoadRefreshToken, RotateRefreshToken,
         RevokeFamily, RevokeAllForUser, LoadLogout, RevokeRefreshToken, Refused, Goes, At, ghosts
<1>3. CASE AccountStep(p)
      BY <1>3 DEF AccountStep, UserWrite, RegisterUser, InsertUser, CreateVerificationToken, LoginUser,
         LoginFails, LoginSucceeds, UpdateMe, UpdateProfile, DeleteAccount, Anonymise, Refused, Goes, At, ghosts
<1>4. CASE MailStep(p)
      BY <1>4 DEF MailStep, UserWrite, RequestPasswordReset, CreateResetToken, LoadResetToken,
         ConsumeResetToken, LoadResetUser, SetPassword, ResendVerification, LoadVerificationToken,
         ConsumeVerificationToken, SetVerified, Refused, Goes, At, ghosts
<1>5. CASE LimiterStep(p)
      BY <1>5 DEF LimiterStep, Increment, Expire, RedisError, At, ghosts
<1> QED BY <1>1, <1>2, <1>3, <1>4, <1>5 DEF RequestStep

-----------------------------------------------------------------------------
(* The rate limiter. *)

LEMMA InitCounter == Init => CounterExpires
BY DEF Init, CounterExpires

LEMMA NextCounter ==
  ASSUME AccountsInv, CounterExpires, [Next]_vars
  PROVE  CounterExpires'
<1>1. CASE Tick
      BY <1>1 DEF Tick, CounterExpires, ghosts, At
<1>2. CASE UNCHANGED vars
      BY <1>2 DEF vars, CounterExpires, ghosts, At
<1>3. ASSUME NEW p \in Requests, RequestStep(p)
      PROVE  CounterExpires'
    <2>1. \A q \in Requests \ {p} : requests'[q] = requests[q]
          BY <1>3, OthersWait
    <2>2. CASE Crash(p)
          BY <2>1, <2>2 DEF Crash, CounterExpires, At
    <2>3. CASE RedisError(p)
          BY <2>1, <2>3 DEF RedisError, CounterExpires, At, ghosts
    <2>4. CASE Increment(p)
        <3>1. counter = Null \/ (counter.count \in Nat \ {0} /\ counter # Null)
              BY DEF AccountsInv, TypeOK, CounterRows
        <3>2. CASE counter = Null
            <4>1. Moves(p, "expire", Null, Null) /\ requests[p].op = "limited"
                  BY <2>4, <3>2 DEF Increment, At
            <4>2. At(p, "limited", "expire")'
                  BY <4>1, MovesFields DEF AccountsInv, At
            <4> QED BY <4>2 DEF CounterExpires
        <3>3. CASE counter.count \in Nat \ {0} /\ counter # Null
            <4>1. counter' # Null /\ counter'.expires = counter.expires
                <5>1. counter' = [count |-> counter.count + 1, expires |-> counter.expires]
                      BY <2>4, <3>3 DEF Increment
                <5>2. counter.count + 1 \in Nat \ {0} /\ counter.expires \in Nat \cup {Null}
                      BY <3>3 DEF AccountsInv, TypeOK, CounterRows
                <5>3. counter' \in CounterRows
                      BY <5>1, <5>2 DEF CounterRows
                <5> QED BY <5>1, <5>3
            <4>2. requests[p].step # "expire" /\ stuck' = stuck
                  BY <2>4 DEF Increment, At, ghosts
            <4> QED BY <2>1, <3>3, <4>1, <4>2 DEF CounterExpires, At
        <3> QED BY <3>1, <3>2, <3>3
    <2>5. CASE Expire(p)
        <3>1. counter' = Null \/ counter'.expires = now + LimitWindow
            <4>1. counter # Null => counter \in CounterRows
                  BY DEF AccountsInv, TypeOK
            <4> QED BY <2>5, <4>1 DEF Expire, CounterRows
        <3>2. now + LimitWindow \in Nat
            <4>1. now \in Nat
                  BY DEF AccountsInv, TypeOK
            <4> QED BY <4>1
        <3> QED BY <3>1, <3>2 DEF CounterExpires
    <2>6. CASE ~LimiterStep(p) /\ ~Crash(p)
        <3>1. UNCHANGED <<counter, stuck>> /\ requests[p].step # "expire"
              BY <1>3, <2>6, Frames
        <3> QED BY <2>1, <3>1 DEF CounterExpires, At
    <2> QED BY <2>2, <2>3, <2>4, <2>5, <2>6 DEF LimiterStep
<1> QED BY <1>1, <1>2, <1>3 DEF Next, RequestStep

(* A limiter's counter that has no expiry is one whose creator died or lost   *)
(* Redis between INCR and EXPIRE; otherwise the creator is about to set it.   *)
THEOREM CounterSafety == Spec => []CounterExpires
<1>1. AccountsInv /\ CounterExpires /\ [Next]_vars => CounterExpires'
      BY NextCounter
<1> QED BY InitCounter, AccountsInvariant, <1>1, PTL DEF Spec

-----------------------------------------------------------------------------
(* Password resets.  What a request holds while it is between two of its     *)
(* statements: the token it consumes was unused, the family it acts on is    *)
(* its token's, the account it overwrites had the e-mail address it has, or  *)
(* is anonymous by now, and the account it renames was not deleted.          *)

Holding(r) ==
  /\ r.step = "consume" => ~r.row.used
  /\ r.op = "refresh" /\ r.step \in {"rotate", "revoke_family"} => r.row.family = refresh[r.token].family
  /\ r.step = "anonymise" => users[r.user].email \in {r.row.email, Anonymous(r.user)}
  /\ r.step = "rename" => ~r.row.deleted

RowsHeld == \A p \in Requests : Holding(requests[p])

Lookup(p) ==
  \/ LoadRefreshToken(p) \/ LoadLogout(p) \/ RegisterUser(p) \/ LoginUser(p) \/ UpdateMe(p)
  \/ DeleteAccount(p) \/ RequestPasswordReset(p) \/ LoadResetToken(p) \/ LoadResetUser(p)
  \/ ResendVerification(p) \/ LoadVerificationToken(p)

LEMMA LookupHolds ==
  ASSUME AccountsInv, NEW p \in Requests, Lookup(p)
  PROVE  Holding(requests[p])'
<1> DEFINE r == requests[p]
<1>0. UNCHANGED <<users, refresh>>
      BY DEF Lookup, LoadRefreshToken, LoadLogout, RegisterUser, LoginUser, UpdateMe, DeleteAccount,
         RequestPasswordReset, LoadResetToken, LoadResetUser, ResendVerification, LoadVerificationToken,
         Refused, Goes
<1>1. ASSUME NEW code, Refused(p, code) PROVE Holding(requests[p])'
      BY <1>1, AnswersFields DEF Refused, Holding, AccountsInv
<1>2. ASSUME NEW step, NEW u, NEW row, Goes(p, step, u, row)
      PROVE  /\ requests'[p].step = step /\ requests'[p].user = u /\ requests'[p].row = row
             /\ requests'[p].op = r.op /\ requests'[p].token = r.token
      BY <1>2, MovesFields DEF Goes, AccountsInv
<1>3. ASSUME NEW step \in {"revoke", "insert", "succeed", "fail", "mail", "set_password"}, NEW u, NEW row,
             Goes(p, step, u, row)
      PROVE  Holding(requests[p])'
      BY <1>2, <1>3 DEF Holding
<1>4. CASE LoadRefreshToken(p)
    <2>1. ASSUME NEW step \in {"rotate", "revoke_family"}, Goes(p, step, refresh[r.token].user, refresh[r.token])
          PROVE  Holding(requests[p])'
          BY <1>0, <1>2, <2>1 DEF Holding
    <2> QED BY <1>1, <1>4, <2>1 DEF LoadRefreshToken
<1>5. CASE LoadLogout(p) \/ RegisterUser(p) \/ RequestPasswordReset(p) \/ LoadResetUser(p) \/ ResendVerification(p)
      BY <1>1, <1>3, <1>5 DEF LoadLogout, RegisterUser, RequestPasswordReset, LoadResetUser, ResendVerification
<1>6. CASE LoginUser(p)
      BY <1>1, <1>3, <1>6 DEF LoginUser
<1>7. CASE UpdateMe(p)
    <2>1. ASSUME Authenticated(r.user), Goes(p, "rename", r.user, users[r.user])
          PROVE  Holding(requests[p])'
          BY <1>2, <2>1 DEF Holding, Authenticated
    <2> QED BY <1>1, <1>7, <2>1 DEF UpdateMe
<1>8. CASE DeleteAccount(p)
    <2>1. ASSUME Goes(p, "anonymise", r.user, users[r.user])
          PROVE  Holding(requests[p])'
          BY <1>0, <1>2, <2>1 DEF Holding
    <2> QED BY <1>1, <1>8, <2>1 DEF DeleteAccount
<1>9. ASSUME NEW row, Consumable(row), Goes(p, "consume", row.user, row)
      PROVE  Holding(requests[p])'
      BY <1>2, <1>9 DEF Holding, Consumable
<1>10. CASE LoadResetToken(p) \/ LoadVerificationToken(p)
      BY <1>1, <1>9, <1>10 DEF LoadResetToken, LoadVerificationToken
<1> QED BY <1>4, <1>5, <1>6, <1>7, <1>8, <1>10 DEF Lookup

\* Any other step of a request leaves it without a row.
LEMMA StepPauses ==
  ASSUME AccountsInv, NEW p \in Requests, RequestStep(p), ~Lookup(p)
  PROVE  requests'[p].step \in {"idle", "load", "issue", "mail", "load_user", "revoke_all", "verify", "expire"}
<1>1. ASSUME NEW code, Answers(p, code) PROVE requests'[p].step = "idle"
      BY <1>1, AnswersFields DEF AccountsInv
<1>2. ASSUME NEW step, NEW u, NEW row, Moves(p, step, u, row) PROVE requests'[p].step = step
      BY <1>2, MovesFields DEF AccountsInv
<1>3. CASE Ask(p)
    <2>1. PICK op \in uses : \E a \in Asked(op) :
            requests' = [requests EXCEPT ![p] =
              [Idle EXCEPT !.step = "load", !.op = op, !.user = a[1], !.token = a[2], !.data = a[3]]]
          BY <1>3 DEF Ask
    <2> QED BY <2>1 DEF Idle, AccountsInv, RequestsOK
<1>4. CASE SessionStep(p)
      BY <1>1, <1>2, <1>4 DEF SessionStep, Lookup, IssueRefreshToken, RotateRefreshToken,
         RevokeFamily, RevokeAllForUser, RevokeRefreshToken
<1>5. CASE AccountStep(p)
      BY <1>1, <1>2, <1>5 DEF AccountStep, Lookup, InsertUser, CreateVerificationToken,
         LoginFails, LoginSucceeds, UpdateProfile, Anonymise, Refused
<1>6. CASE MailStep(p)
      BY <1>1, <1>2, <1>6 DEF MailStep, Lookup, CreateResetToken, ConsumeResetToken, SetPassword,
         ConsumeVerificationToken, SetVerified
<1>7. CASE LimiterStep(p) \/ Crash(p)
      BY <1>1, <1>2, <1>7 DEF LimiterStep, Increment, Expire, RedisError, Crash
<1> QED BY <1>3, <1>4, <1>5, <1>6, <1>7 DEF RequestStep

\* A token keeps its user, its family and its password, and once revoked it stays so.
LEMMA TokensStay ==
  ASSUME AccountsInv, NEW p \in Requests, RequestStep(p)
  PROVE  \A t \in TokenIds : refresh[t] # Null =>
           /\ refresh'[t] # Null /\ refresh'[t].user = refresh[t].user
           /\ refresh'[t].family = refresh[t].family /\ refresh'[t].password = refresh[t].password
           /\ refresh[t].revoked => refresh'[t].revoked
<1>1. CASE refresh' = refresh
      BY <1>1
<1>2. CASE IssueRefreshToken(p)
      BY <1>2, TokenIssued
<1>3. CASE RotateRefreshToken(p)
      BY <1>3, TokenRotated DEF SameButRevoked
<1>4. ASSUME NEW chosen \in SUBSET Issued(refresh), Revoke(chosen), NEW t \in TokenIds, refresh[t] # Null
      PROVE  /\ refresh'[t] # Null /\ refresh'[t].user = refresh[t].user
             /\ refresh'[t].family = refresh[t].family /\ refresh'[t].password = refresh[t].password
             /\ refresh[t].revoked => refresh'[t].revoked
      BY <1>4, TokensRevoked DEF SameButRevoked
<1>5. CASE RevokeFamily(p) \/ RevokeAllForUser(p)
      BY <1>4, <1>5 DEF RevokeFamily, RevokeAllForUser
<1>6. CASE RevokeRefreshToken(p)
      BY <1>6, TokenRevoked DEF SameButRevoked
<1> QED BY <1>1, <1>2, <1>3, <1>5, <1>6, Frames DEF RefreshStep

\* Only UserWrite and SetVerified overwrite a row.
LEMMA RowVerified ==
  ASSUME AccountsInv, NEW p \in Requests, SetVerified(p)
  PROVE  \A v \in UserIds : users[v] # Null =>
           /\ users'[v] # Null /\ users'[v].email = users[v].email
           /\ users'[v].full_name = users[v].full_name /\ users'[v].password = users[v].password
           /\ users'[v].failed = users[v].failed /\ users'[v].deleted = users[v].deleted
<1> DEFINE u == requests[p].user
           s == [users[u] EXCEPT !.verified = TRUE]
<1>1. Facts(p) /\ TypeOK
      BY DEF AccountsInv
<1>2. u \in UserIds /\ users[u] \in UserRows
      BY <1>1 DEF SetVerified, At, Facts, NamesUser, UserSteps, Accounts, TypeOK
<1>3. /\ s \in UserRows /\ s.email = users[u].email /\ s.full_name = users[u].full_name
      /\ s.password = users[u].password /\ s.failed = users[u].failed /\ s.deleted = users[u].deleted
      BY <1>2 DEF UserRows
<1>4. users' = [users EXCEPT ![u] = s]
      BY <1>1, <1>2 DEF SetVerified, TypeOK
<1> HIDE DEF s
<1> QED BY <1>1, <1>2, <1>3, <1>4 DEF TypeOK

LEMMA RowInserted ==
  ASSUME AccountsInv, NEW p \in Requests, InsertUser(p)
  PROVE  \/ UNCHANGED <<users, streak, racedUsers>>
         \/ \E u \in UserIds :
              /\ users[u] = Null /\ users'[u] \in UserRows
              /\ users'[u].failed = 0 /\ users'[u].deleted = FALSE
              /\ \A v \in UserIds \ {u} : users'[v] = users[v]
              /\ UNCHANGED <<streak, racedUsers>>
<1>1. CASE Refused(p, 500)
      BY <1>1 DEF Refused, ghosts
<1>2. CASE ~Refused(p, 500)
    <2>1. /\ At(p, "register", "insert") /\ HasRoom(users)
          /\ users' = [users EXCEPT ![FirstFree(users)] = NewUser(requests[p].data[1], requests[p].data[2])]
          /\ UNCHANGED <<streak, racedUsers>>
          BY <1>2 DEF InsertUser, ghosts
    <2> QED BY <2>1, UserInserted
<1> QED BY <1>1, <1>2

LEMMA EmailsStay ==
  ASSUME AccountsInv, NEW p \in Requests, RequestStep(p)
  PROVE  \A u \in UserIds : users[u] # Null =>
           users'[u] # Null /\ users'[u].email \in {users[u].email, Anonymous(u)}
<1>1. CASE users' = users
      BY <1>1
<1>2. CASE UserWrite(p)
      BY <1>2, RowWritten DEF UserWrite
<1>3. CASE InsertUser(p)
      BY <1>3, RowInserted
<1>4. CASE SetVerified(p)
      BY <1>4, RowVerified
<1> QED BY <1>1, <1>2, <1>3, <1>4, Frames

LEMMA HeldKeeps ==
  ASSUME AccountsInv, RowsHeld, [Next]_vars
  PROVE  RowsHeld'
<1>1. CASE Tick \/ UNCHANGED vars
      BY <1>1 DEF Tick, vars, RowsHeld, Holding
<1>2. ASSUME NEW p \in Requests, RequestStep(p)
      PROVE  RowsHeld'
    <2>1. Holding(requests[p])'
        <3>1. CASE Lookup(p)
              BY <3>1, LookupHolds
        <3>2. CASE ~Lookup(p)
              BY <1>2, <3>2, StepPauses DEF Holding
        <3> QED BY <3>1, <3>2
    <2>2. ASSUME NEW q \in Requests \ {p}
          PROVE  Holding(requests[q])'
        <3>1. requests'[q] = requests[q] /\ Holding(requests[q]) /\ Facts(q)
              BY <1>2, OthersWait DEF RowsHeld, AccountsInv
        <3>2. requests[q].op = "refresh" /\ requests[q].step \in {"rotate", "revoke_family"} =>
                 refresh'[requests[q].token].family = refresh[requests[q].token].family
              BY <1>2, <3>1, TokensStay DEF Facts, ArgsOK, Issued
        <3>3. requests[q].step = "anonymise" =>
                 users'[requests[q].user].email \in {users[requests[q].user].email, Anonymous(requests[q].user)}
              BY <1>2, <3>1, EmailsStay DEF Facts, NamesUser, UserSteps, Accounts
        <3> QED BY <3>1, <3>2, <3>3 DEF Holding
    <2> QED BY <2>1, <2>2 DEF RowsHeld
<1> QED BY <1>1, <1>2 DEF Next, RequestStep

HeldInv == AccountsInv /\ RowsHeld

LEMMA HeldInvariant == Spec => []HeldInv
<1>1. Init => HeldInv
    <2>1. Init => RowsHeld
          BY ShapeIdle DEF Init, RowsHeld, Holding
    <2> QED BY <2>1, InitAccounts DEF HeldInv
<1>2. HeldInv /\ [Next]_vars => HeldInv'
      BY NextKeeps, HeldKeeps DEF HeldInv
<1> QED BY <1>1, <1>2, PTL DEF Spec

-----------------------------------------------------------------------------
(* A reset token that was never consumed is unused, and only a race of two   *)
(* requests consumes one again.                                               *)

ResetsCounted ==
  \A t \in TokenIds : resets[t] # Null =>
    /\ ~resets[t].used => resets[t].sets = 0
    /\ t \notin racedResets => resets[t].sets <= 1

ResetInv == HeldInv /\ ResetsCounted

LEMMA NextResets ==
  ASSUME ResetInv, [Next]_vars
  PROVE  ResetsCounted'
<1>1. CASE Tick \/ UNCHANGED vars
      BY <1>1 DEF Tick, vars, ghosts, ResetInv, ResetsCounted
<1>2. ASSUME NEW p \in Requests, RequestStep(p)
      PROVE  ResetsCounted'
    <2>0. AccountsInv
          BY DEF ResetInv, HeldInv
    <2>1. CASE UNCHANGED <<resets, racedResets>>
          BY <2>1 DEF ResetInv, ResetsCounted
    <2>2. CASE CreateResetToken(p)
        <3>1. PICK u \in Accounts : Mailed(resets', resets, FirstFree(resets), u)
              BY <2>0, <2>2, ResetInserted
        <3>2. racedResets' = racedResets
              BY <2>2 DEF CreateResetToken, ghosts
        <3> QED BY <3>1, <3>2 DEF ResetInv, ResetsCounted, Mailed
    <2>3. CASE ConsumeResetToken(p)
        <3> DEFINE k == requests[p].token
                   row == requests[p].row
        <3>1. k \in TokenIds /\ resets[k] # Null /\ Consumed(resets', resets, k)
              BY <2>0, <2>3, ResetConsumed
        <3>2. ~row.used
              BY <2>3 DEF ResetInv, HeldInv, RowsHeld, Holding, ConsumeResetToken, At
        <3>3. racedResets' = IF resets[k] = row THEN racedResets ELSE racedResets \cup {k}
              BY <2>3 DEF ConsumeResetToken
        <3>4. ResetsCounted
              BY DEF ResetInv
        <3>5. k \notin racedResets' => resets[k].sets = 0
              BY <3>1, <3>2, <3>3, <3>4 DEF ResetsCounted
        <3>6. resets'[k].used /\ resets'[k].sets = resets[k].sets + 1
              BY <3>1 DEF Consumed
        <3>7. k \notin racedResets' => resets'[k].sets <= 1
              BY <3>5, <3>6
        <3>8. \A x \in TokenIds \ {k} : resets'[x] = resets[x] /\ (x \in racedResets' <=> x \in racedResets)
              BY <3>1, <3>3 DEF Consumed
        <3> HIDE DEF k
        <3> QED BY <3>4, <3>6, <3>7, <3>8 DEF ResetsCounted
    <2> QED BY <1>2, <2>1, <2>2, <2>3, Frames
<1> QED BY <1>1, <1>2 DEF Next, RequestStep

(* A reset token sets a password once, unless two requests had both read it   *)
(* as unused: whatever order tokens are mailed, loaded and consumed in.       *)
THEOREM ResetSafety == Spec => []ResetTokenOnce
<1>1. Init => ResetsCounted
      BY DEF Init, ResetsCounted
<1>2. HeldInv /\ ResetsCounted /\ [Next]_vars => ResetsCounted'
      BY NextResets DEF ResetInv
<1>3. HeldInv /\ ResetsCounted => ResetTokenOnce
    <2> SUFFICES ASSUME HeldInv, ResetsCounted, NEW t \in TokenIds, resets[t] # Null, resets[t].sets > 1
                 PROVE  t \in racedResets
        BY DEF ResetTokenOnce
    <2>1. t \notin racedResets => resets[t].sets <= 1
          BY DEF ResetsCounted
    <2>2. PICK n \in Nat : n = resets[t].sets
          BY DEF HeldInv, AccountsInv, TypeOK, MailedRows
    <2>3. n > 1 /\ ~(n <= 1)
          BY <2>2
    <2> QED BY <2>1, <2>2, <2>3
<1> QED BY HeldInvariant, <1>1, <1>2, <1>3, PTL DEF Spec

-----------------------------------------------------------------------------
(* A row that nobody wrote over a newer one counts the wrong passwords given *)
(* since it was last cleared.                                                 *)

FailuresCounted ==
  \A u \in UserIds :
    /\ users[u] # Null => users[u].failed < LoginMaxFailedAttempts
    /\ u \notin racedUsers /\ users[u] # Null => streak[u] = users[u].failed
    /\ u \notin racedUsers /\ users[u] = Null => streak[u] = 0

LEMMA NextFailures ==
  ASSUME AccountsInv, FailuresCounted, [Next]_vars
  PROVE  FailuresCounted'
<1>1. CASE Tick \/ UNCHANGED vars
      BY <1>1 DEF Tick, vars, ghosts, FailuresCounted
<1>2. ASSUME NEW p \in Requests, RequestStep(p)
      PROVE  FailuresCounted'
    <2>1. CASE UNCHANGED <<users, streak, racedUsers>>
          BY <2>1 DEF FailuresCounted
    <2>2. CASE InsertUser(p)
        <3>1. CASE \E u \in UserIds :
                     /\ users[u] = Null /\ users'[u] \in UserRows
                     /\ users'[u].failed = 0 /\ users'[u].deleted = FALSE
                     /\ \A v \in UserIds \ {u} : users'[v] = users[v]
                     /\ UNCHANGED <<streak, racedUsers>>
            <4>1. PICK u \in UserIds :
                     /\ users[u] = Null /\ users'[u] \in UserRows /\ users'[u].failed = 0
                     /\ \A v \in UserIds \ {u} : users'[v] = users[v]
                     /\ UNCHANGED <<streak, racedUsers>>
                  BY <3>1
            <4>2. 0 < LoginMaxFailedAttempts
                  OBVIOUS
            <4> QED BY <4>1, <4>2 DEF FailuresCounted
        <3> QED BY <2>1, <2>2, <3>1, RowInserted
    <2>3. CASE SetVerified(p)
        <3>1. UNCHANGED <<streak, racedUsers>>
              BY <2>3 DEF SetVerified, ghosts
        <3>2. \A v \in UserIds : users[v] = Null => users'[v] = Null
              BY <2>3 DEF SetVerified, AccountsInv, TypeOK, Facts, NamesUser, UserSteps, At, Accounts
        <3> QED BY <2>3, <3>1, <3>2, RowVerified DEF FailuresCounted
    <2>4. CASE UserWrite(p)
        <3> DEFINE u == requests[p].user
                   loaded == requests[p].row
                   locks == loaded.failed + 1 >= LoginMaxFailedAttempts
                   counts == IF locks THEN 0 ELSE loaded.failed + 1
        <3>1. /\ u \in Accounts /\ loaded \in UserRows /\ users[u] \in UserRows /\ users'[u] \in UserRows
              /\ \A v \in UserIds \ {u} : users'[v] = users[v]
              /\ racedUsers' = IF users[u] = loaded THEN racedUsers ELSE racedUsers \cup {u}
              BY <2>4, RowWritten DEF UserWrite
        <3>2. u \in UserIds /\ users[u] # Null /\ streak \in [UserIds -> Nat]
              BY <3>1 DEF Accounts, AccountsInv, TypeOK
        <3>3. loaded.failed \in 0..LoginMaxFailedAttempts /\ counts < LoginMaxFailedAttempts
            <4>1. PICK n \in 0..LoginMaxFailedAttempts : n = loaded.failed
                  BY <3>1 DEF UserRows
            <4>2. (IF n + 1 >= LoginMaxFailedAttempts THEN 0 ELSE n + 1) < LoginMaxFailedAttempts
                  OBVIOUS
            <4> QED BY <4>1, <4>2
        <3>4. /\ users[u].failed < LoginMaxFailedAttempts
              /\ u \notin racedUsers => streak[u] = users[u].failed
              BY <3>2 DEF FailuresCounted
        <3>5. /\ users'[u].failed < LoginMaxFailedAttempts
              /\ users[u] = loaded /\ u \notin racedUsers => streak'[u] = users'[u].failed
              /\ \A v \in UserIds \ {u} : streak'[v] = streak[v]
            <4>1. CASE LoginFails(p)
                <5>1. users'[u].failed \in {counts, users[u].failed} /\ (users[u] = loaded => users'[u].failed = counts)
                      BY <4>1, RowWritten
                <5>2. streak' = [streak EXCEPT ![u] = IF locks THEN 0 ELSE @ + 1]
                      BY <4>1 DEF LoginFails
                <5>3. streak'[u] = (IF locks THEN 0 ELSE streak[u] + 1) /\ \A v \in UserIds \ {u} : streak'[v] = streak[v]
                      BY <3>2, <5>2
                <5> QED BY <3>3, <3>4, <5>1, <5>3
            <4>2. CASE LoginSucceeds(p) \/ SetPassword(p)
                <5>1. users'[u].failed \in {0, users[u].failed} /\ (users[u] = loaded => users'[u].failed = 0)
                      BY <4>2, RowWritten
                <5>2. streak' = [streak EXCEPT ![u] = 0]
                      BY <4>2 DEF LoginSucceeds, SetPassword
                <5> QED BY <3>2, <3>4, <5>1, <5>2
            <4>3. CASE UpdateProfile(p) \/ Anonymise(p)
                <5>1. users'[u].failed = users[u].failed
                      BY <4>3, RowWritten
                <5>2. streak' = streak
                      BY <4>3 DEF UpdateProfile, Anonymise
                <5> QED BY <3>4, <5>1, <5>2
            <4> QED BY <2>4, <4>1, <4>2, <4>3 DEF UserWrite
        <3>6. users'[u] # Null
              BY <3>1
        <3> HIDE DEF u, loaded
        <3> QED BY <3>1, <3>5, <3>6 DEF FailuresCounted
    <2> QED BY <1>2, <2>1, <2>2, <2>3, <2>4, Frames
<1> QED BY <1>1, <1>2 DEF Next, RequestStep

(* LoginMaxFailedAttempts wrong passwords in a row lock the account: only an  *)
(* account whose row was written over a newer one can have counted fewer.     *)
THEOREM LockoutSafety == Spec => []LockAfterFailures
<1>1. Init => FailuresCounted
    <2> SUFFICES ASSUME Init PROVE FailuresCounted
        OBVIOUS
    <2>1. streak = [u \in UserIds |-> 0]
          BY DEF Init
    <2>2. \A u \in UserIds : users[u] # Null => users[u].failed = 0
        <3> DEFINE none == [u \in UserIds |-> Null]
        <3>1. CASE users = none
              BY <3>1
        <3>2. ASSUME NEW e \in Emails, NEW pw \in Passwords,
                     users = [none EXCEPT ![FirstFree(none)] = NewUser(e, pw)]
              PROVE  \A u \in UserIds : users[u] # Null => users[u].failed = 0
              BY <3>2, NewUserRow
        <3> QED BY <3>1, <3>2 DEF Init
    <2> QED BY <2>1, <2>2 DEF FailuresCounted
<1>2. AccountsInv /\ FailuresCounted /\ [Next]_vars => FailuresCounted'
      BY NextFailures
<1>3. AccountsInv /\ FailuresCounted => LockAfterFailures
      BY DEF FailuresCounted, LockAfterFailures
<1> QED BY AccountsInvariant, <1>1, <1>2, <1>3, PTL DEF Spec

-----------------------------------------------------------------------------
(* Deleted accounts. *)

DeletedInv == HeldInv /\ DeletedIsAnonymous

LEMMA NextDeleted ==
  ASSUME DeletedInv, [Next]_vars
  PROVE  DeletedIsAnonymous'
<1>0. AccountsInv /\ DeletedIsAnonymous /\ RowsHeld
      BY DEF DeletedInv, HeldInv
<1>1. CASE Tick \/ UNCHANGED vars
      BY <1>0, <1>1 DEF Tick, vars, ghosts, DeletedIsAnonymous
<1>2. ASSUME NEW p \in Requests, RequestStep(p)
      PROVE  DeletedIsAnonymous'
    <2>1. CASE UNCHANGED <<users, racedUsers>>
          BY <1>0, <2>1 DEF DeletedIsAnonymous
    <2>2. CASE InsertUser(p)
          BY <1>0, <2>1, <2>2, RowInserted DEF DeletedIsAnonymous
    <2>3. CASE SetVerified(p)
        <3>1. racedUsers' = racedUsers
              BY <2>3 DEF SetVerified, ghosts
        <3>2. \A v \in UserIds : users[v] = Null => users'[v] = Null
              BY <2>3 DEF SetVerified, AccountsInv, TypeOK, Facts, NamesUser, UserSteps, At, Accounts,
                 DeletedInv, HeldInv
        <3> QED BY <1>0, <2>3, <3>1, <3>2, RowVerified DEF DeletedIsAnonymous
    <2>4. CASE UserWrite(p)
        <3> DEFINE u == requests[p].user
                   loaded == requests[p].row
        <3>1. /\ u \in Accounts /\ loaded \in UserRows /\ users[u] \in UserRows /\ users'[u] \in UserRows
              /\ \A v \in UserIds \ {u} : users'[v] = users[v]
              /\ racedUsers' = IF users[u] = loaded THEN racedUsers ELSE racedUsers \cup {u}
              BY <1>0, <2>4, RowWritten DEF UserWrite
        <3>2. u \in UserIds /\ users[u] # Null
              BY <3>1 DEF Accounts
        <3>3. users[u].deleted =>
                users[u].email = Anonymous(u) /\ (users[u].full_name = "Deleted User" \/ u \in racedUsers)
              BY <1>0, <3>2 DEF DeletedIsAnonymous
        <3>4. users'[u].deleted =>
                users'[u].email = Anonymous(u) /\ (users'[u].full_name = "Deleted User" \/ u \in racedUsers')
            <4>1. CASE Anonymise(p)
                <5>1. /\ users'[u].email \in {Anonymous(u), users[u].email}
                      /\ loaded.email # Anonymous(u) => users'[u].email = Anonymous(u)
                      /\ users[u] = loaded => users'[u].full_name = "Deleted User"
                      BY <1>0, <4>1, RowWritten
                <5>2. users[u].email \in {loaded.email, Anonymous(u)}
                      BY <1>0, <4>1 DEF RowsHeld, Holding, Anonymise, At
                <5> QED BY <3>1, <5>1, <5>2
            <4>2. CASE UpdateProfile(p)
                <5>1. users'[u].email = users[u].email /\ users'[u].deleted = users[u].deleted
                    <6>1. ~Anonymise(p)
                          BY <4>2 DEF UpdateProfile, Anonymise, At
                    <6> QED BY <1>0, <4>2, <6>1, RowWritten
                <5>2. ~loaded.deleted
                      BY <1>0, <4>2 DEF RowsHeld, Holding, UpdateProfile, At
                <5> QED BY <3>1, <3>3, <5>1, <5>2
            <4>3. CASE LoginFails(p) \/ LoginSucceeds(p) \/ SetPassword(p)
                <5>1. ~Anonymise(p) /\ ~UpdateProfile(p)
                      BY <4>3 DEF UpdateProfile, Anonymise, LoginFails, LoginSucceeds, SetPassword, At
                <5>2. /\ users'[u].email = users[u].email /\ users'[u].deleted = users[u].deleted
                      /\ users'[u].full_name = users[u].full_name
                      BY <1>0, <4>3, <5>1, RowWritten
                <5> QED BY <3>1, <3>3, <5>2
            <4> QED BY <2>4, <4>1, <4>2, <4>3 DEF UserWrite
        <3>5. \A v \in UserIds \ {u} : users'[v] = users[v] /\ (v \in racedUsers => v \in racedUsers')
              BY <3>1
        <3> HIDE DEF u, loaded
        <3> QED BY <1>0, <3>4, <3>5 DEF DeletedIsAnonymous
    <2> QED BY <1>2, <2>1, <2>2, <2>3, <2>4, Frames
<1> QED BY <1>1, <1>2 DEF Next, RequestStep

(* A deleted account keeps neither address nor name, except a name that a     *)
(* profile update wrote over the deletion it had not seen.                    *)
THEOREM DeletionSafety == Spec => []DeletedIsAnonymous
<1>1. Init => DeletedIsAnonymous
    <2> DEFINE none == [u \in UserIds |-> Null]
    <2>1. CASE users = none
          BY <2>1 DEF DeletedIsAnonymous
    <2>2. ASSUME NEW e \in Emails, NEW pw \in Passwords,
                 users = [none EXCEPT ![FirstFree(none)] = NewUser(e, pw)]
          PROVE  DeletedIsAnonymous
          BY <2>2, NewUserRow DEF DeletedIsAnonymous
    <2> QED BY <2>1, <2>2 DEF Init
<1>2. HeldInv /\ DeletedIsAnonymous /\ [Next]_vars => DeletedIsAnonymous'
      BY NextDeleted DEF DeletedInv
<1> QED BY HeldInvariant, <1>1, <1>2, PTL DEF Spec

-----------------------------------------------------------------------------
(* Sessions.  Expiry plays no part: what is said of live tokens holds of all *)
(* that have not been revoked.                                                *)

Open(t) == refresh[t] # Null /\ ~refresh[t].revoked

SessionKnown(t) ==
  \/ refresh[t].password = users[refresh[t].user].password
  \/ t \in late
  \/ refresh[t].user \in cut
  \/ \E p \in Requests : requests[p].step = "revoke_all" /\ requests[p].user = refresh[t].user

SessionsKnown == \A t \in TokenIds : Open(t) => SessionKnown(t)

\* A token that was there, while passwords and the requests that revoke stay.
LEMMA SessionStays ==
  ASSUME NEW p \in Requests, \A q \in Requests \ {p} : requests'[q] = requests[q],
         requests[p].step # "revoke_all", NEW t \in TokenIds, refresh[t] # Null, SessionKnown(t),
         refresh'[t].user = refresh[t].user, refresh'[t].password = refresh[t].password,
         t \in late => t \in late', cut \subseteq cut',
         users'[refresh[t].user].password = users[refresh[t].user].password
  PROVE  SessionKnown(t)'
BY DEF SessionKnown

LEMMA PasswordsStay ==
  ASSUME AccountsInv, NEW p \in Requests, RequestStep(p), ~SetPassword(p), ~Anonymise(p)
  PROVE  \A u \in Accounts : users'[u].password = users[u].password
<1>1. CASE users' = users
      BY <1>1
<1>2. CASE LoginFails(p) \/ LoginSucceeds(p) \/ UpdateProfile(p)
      BY <1>2, RowWritten DEF Accounts
<1>3. CASE InsertUser(p)
      BY <1>3, RowInserted DEF Accounts
<1>4. CASE SetVerified(p)
      BY <1>4, RowVerified DEF Accounts
<1> QED BY <1>1, <1>2, <1>3, <1>4, Frames DEF UserWrite

LEMMA NextSessions ==
  ASSUME AccountsInv, SessionsKnown, [Next]_vars
  PROVE  SessionsKnown'
<1>1. CASE Tick \/ UNCHANGED vars
      BY <1>1 DEF Tick, vars, ghosts, SessionsKnown, SessionKnown, Open
<1>2. ASSUME NEW p \in Requests, RequestStep(p)
      PROVE  SessionsKnown'
    <2>1. /\ \A q \in Requests \ {p} : requests'[q] = requests[q]
          /\ \A t \in TokenIds : refresh[t] # Null =>
               /\ refresh'[t] # Null /\ refresh'[t].user = refresh[t].user
               /\ refresh'[t].password = refresh[t].password
               /\ refresh[t].revoked => refresh'[t].revoked
          BY <1>2, OthersWait, TokensStay
    <2>2. \A t \in TokenIds : refresh[t] # Null => refresh[t].user \in Accounts
          BY DEF AccountsInv, OwnersExist
    <2>3. CASE SetPassword(p) \/ Anonymise(p)
        <3> DEFINE u == requests[p].user
        <3>1. requests'[p].step = "revoke_all" /\ requests'[p].user = u
              BY <2>3, MovesFields DEF SetPassword, Anonymise, AccountsInv
        <3>2. UNCHANGED <<refresh, late, cut>> /\ requests[p].step # "revoke_all"
              BY <2>3 DEF SetPassword, Anonymise, At
        <3>3. \A v \in UserIds \ {u} : users'[v] = users[v]
              BY <2>3, RowWritten
        <3>4. ASSUME NEW t \in TokenIds, Open(t)', refresh[t].user = u PROVE SessionKnown(t)'
              BY <3>1, <3>2, <3>4 DEF SessionKnown
        <3>5. ASSUME NEW t \in TokenIds, Open(t)', refresh[t].user # u PROVE SessionKnown(t)'
            <4>1. SessionKnown(t) /\ refresh[t].user \in UserIds /\ refresh[t] # Null
                  BY <2>2, <3>2, <3>5 DEF SessionsKnown, Open, Accounts
            <4> QED BY <2>1, <3>2, <3>3, <3>5, <4>1, SessionStays
        <3> QED BY <3>4, <3>5 DEF SessionsKnown
    <2>4. CASE Crash(p) /\ requests[p].step = "revoke_all"
        <3>1. UNCHANGED <<refresh, users, late>> /\ cut' = cut \cup {requests[p].user}
              BY <2>4 DEF Crash
        <3>2. ASSUME NEW t \in TokenIds, Open(t)' PROVE SessionKnown(t)'
            <4>1. SessionKnown(t)
                  BY <3>1, <3>2 DEF SessionsKnown, Open
            <4>2. CASE refresh[t].user = requests[p].user
                  BY <3>1, <4>2 DEF SessionKnown
            <4>3. CASE refresh[t].user # requests[p].user
                  BY <2>1, <3>1, <4>1, <4>3 DEF SessionKnown
            <4> QED BY <4>2, <4>3
        <3> QED BY <3>2 DEF SessionsKnown
    <2>5. CASE RevokeAllForUser(p)
        <3> DEFINE chosen == {t \in Issued(refresh) : refresh[t].user = requests[p].user}
        <3>1. UNCHANGED <<users, late, cut>> /\ Revoke(chosen)
              BY <2>5 DEF RevokeAllForUser, ghosts
        <3>2. chosen \in SUBSET Issued(refresh)
              OBVIOUS
        <3> HIDE DEF chosen
        <3>3. /\ \A t \in chosen : refresh'[t].revoked
              /\ \A t \in TokenIds \ chosen : refresh'[t] = refresh[t]
              BY <3>1, <3>2, TokensRevoked DEF SameButRevoked
        <3>4. ASSUME NEW t \in TokenIds, Open(t)' PROVE SessionKnown(t)'
            <4>1. t \notin chosen /\ refresh'[t] = refresh[t] /\ Open(t) /\ SessionKnown(t)
                  BY <3>3, <3>4 DEF Open, SessionsKnown
            <4>2. refresh[t].user # requests[p].user
                  BY <4>1 DEF chosen, Issued, Open
            <4> QED BY <2>1, <3>1, <4>1, <4>2 DEF SessionKnown
        <3> QED BY <3>4 DEF SessionsKnown
    <2>6. CASE ~SetPassword(p) /\ ~Anonymise(p) /\ ~RevokeAllForUser(p) /\ ~(Crash(p) /\ requests[p].step = "revoke_all")
        <3>1. requests[p].step # "revoke_all"
              BY <1>2, <2>6, Frames
        <3>2. \A u \in Accounts : users'[u].password = users[u].password
              BY <1>2, <2>6, PasswordsStay
        <3>3. late \subseteq late' /\ cut \subseteq cut'
            <4>1. cut' = cut
                  BY <1>2, <2>6, Frames DEF Crash
            <4>2. CASE RefreshStep(p)
                  BY <4>2 DEF RefreshStep, IssueRefreshToken, RotateRefreshToken, RevokeFamily,
                     RevokeAllForUser, RevokeRefreshToken, ghosts
            <4> QED BY <1>2, <4>1, <4>2, Frames
        <3>4. ASSUME NEW t \in TokenIds, Open(t)', refresh[t] # Null PROVE SessionKnown(t)'
            <4>1. SessionKnown(t) /\ refresh[t].user \in Accounts
                  BY <2>1, <2>2, <3>4 DEF SessionsKnown, Open
            <4> QED BY <2>1, <3>1, <3>2, <3>3, <3>4, <4>1, SessionStays
        <3>5. ASSUME NEW t \in TokenIds, Open(t)', refresh[t] = Null PROVE SessionKnown(t)'
            <4>1. CASE IssueRefreshToken(p)
                <5>1. t = FirstFree(refresh)
                      BY <3>5, <4>1, TokenIssued DEF Open
                <5>2. refresh'[t].user = requests[p].user /\ refresh'[t].password = requests[p].data[2]
                      BY <4>1, <5>1, TokenIssued DEF Inserted
                <5>3. users' = users
                      /\ late' = IF users[requests[p].user].password = requests[p].data[2] THEN late ELSE late \cup {t}
                      BY <4>1, <5>1 DEF IssueRefreshToken
                <5> QED BY <5>2, <5>3 DEF SessionKnown
            <4>2. CASE RotateRefreshToken(p)
                <5>1. t = FirstFree(refresh)
                      BY <3>5, <4>2, TokenRotated DEF Open
                <5>2. refresh'[t].user = requests[p].user /\ refresh'[t].password = requests[p].row.password
                      BY <4>2, <5>1, TokenRotated DEF Inserted
                <5>3. users' = users
                      /\ late' = IF users[requests[p].user].password = requests[p].row.password
                                 THEN late ELSE late \cup {t}
                      BY <4>2, <5>1 DEF RotateRefreshToken
                <5> QED BY <5>2, <5>3 DEF SessionKnown
            <4>3. CASE RevokeFamily(p)
                <5>1. PICK chosen \in SUBSET Issued(refresh) : Revoke(chosen)
                      BY <4>3 DEF RevokeFamily
                <5>2. refresh'[t] = refresh[t]
                      BY <3>5, <5>1, TokensRevoked DEF Issued
                <5> QED BY <3>5, <5>2 DEF Open
            <4>4. CASE RevokeRefreshToken(p)
                  BY <3>5, <4>4, TokenRevoked DEF Open
            <4>5. CASE refresh' = refresh
                  BY <3>5, <4>5 DEF Open
            <4> QED BY <1>2, <2>6, <4>1, <4>2, <4>3, <4>4, <4>5, Frames DEF RefreshStep
        <3> QED BY <3>4, <3>5 DEF SessionsKnown
    <2> QED BY <2>3, <2>4, <2>5, <2>6
<1> QED BY <1>1, <1>2 DEF Next, RequestStep

(* A password change or a deletion ends every session: a token that is still  *)
(* good was opened with the password its user has, or the request that will   *)
(* revoke it is on its way, died, or lost the race the property names.        *)
THEOREM SessionSafety == Spec => []SessionsFollowPassword
<1>1. Init => SessionsKnown
      BY DEF Init, SessionsKnown, Open
<1>2. AccountsInv /\ SessionsKnown /\ [Next]_vars => SessionsKnown'
      BY NextSessions
<1>3. SessionsKnown => SessionsFollowPassword
      BY DEF SessionsKnown, SessionKnown, SessionsFollowPassword, LiveToken, Open
<1> QED BY AccountsInvariant, <1>1, <1>2, <1>3, PTL DEF Spec

-----------------------------------------------------------------------------
(* Families.  A family is named by the token it began with, so a new token's *)
(* family is new; a request holds the family of the token it was given.      *)

FamiliesExist ==
  /\ \A t \in TokenIds : refresh[t] # Null => refresh[t].family \in Issued(refresh)
  /\ burned \subseteq Issued(refresh)

OneOpen ==
  \A f \in TokenIds \ forked :
    /\ \A t1, t2 \in TokenIds :
         Open(t1) /\ Open(t2) /\ refresh[t1].family = f /\ refresh[t2].family = f => t1 = t2
    /\ f \in burned => \A t \in TokenIds : Open(t) => refresh[t].family # f

FamilyInv == HeldInv /\ FamiliesExist /\ OneOpen

\* Nothing is opened, and nobody's family changes: the families stay as they are.
LEMMA FamiliesStay ==
  ASSUME FamilyInv, UNCHANGED <<forked, burned>>,
         \A t \in TokenIds : refresh[t] # Null => refresh'[t] # Null /\ refresh'[t].family = refresh[t].family,
         \A t \in TokenIds : refresh'[t] # Null => refresh[t] # Null,
         \A t \in TokenIds : Open(t)' => Open(t)
  PROVE  FamiliesExist' /\ OneOpen'
<1>1. FamiliesExist'
      BY DEF FamilyInv, FamiliesExist, Issued
<1>2. \A t \in TokenIds : Open(t)' => refresh'[t].family = refresh[t].family
      BY DEF Open
<1>3. OneOpen'
      BY <1>2 DEF FamilyInv, OneOpen
<1> QED BY <1>1, <1>3

LEMMA NextFamilies ==
  ASSUME FamilyInv, [Next]_vars
  PROVE  FamiliesExist' /\ OneOpen'
<1>0. AccountsInv /\ RowsHeld /\ FamiliesExist /\ OneOpen
      BY DEF FamilyInv, HeldInv
<1>1. CASE Tick \/ UNCHANGED vars
    <2>1. UNCHANGED <<refresh, forked, burned>>
          BY <1>1 DEF Tick, vars, ghosts
    <2> QED BY <2>1, FamiliesStay DEF Open
<1>2. ASSUME NEW p \in Requests, RequestStep(p)
      PROVE  FamiliesExist' /\ OneOpen'
    <2>1. CASE UNCHANGED <<refresh, forked, burned>>
          BY <2>1, FamiliesStay DEF Open
    <2>2. CASE IssueRefreshToken(p)
        <3> DEFINE t == FirstFree(refresh)
        <3>1. /\ t \in TokenIds /\ refresh[t] = Null /\ refresh'[t] # Null
              /\ refresh'[t].family = t
              /\ \A x \in TokenIds \ {t} : refresh'[x] = refresh[x]
              BY <1>0, <2>2, TokenIssued DEF Inserted
        <3>2. UNCHANGED <<forked, burned>>
              BY <2>2 DEF IssueRefreshToken
        <3> HIDE DEF t
        <3>3. FamiliesExist'
              BY <1>0, <3>1, <3>2 DEF FamiliesExist, Issued
        <3>4. \A x \in TokenIds \ {t} : refresh[x] # Null => refresh[x].family # t
              BY <1>0, <3>1 DEF FamiliesExist, Issued
        <3>5. t \notin burned
              BY <1>0, <3>1 DEF FamiliesExist, Issued
        <3>6. \A x \in TokenIds \ {t} : Open(x)' => Open(x) /\ refresh'[x].family = refresh[x].family /\ refresh[x].family # t
              BY <3>1, <3>4 DEF Open
        <3>7. OneOpen'
              BY <1>0, <3>1, <3>2, <3>5, <3>6 DEF OneOpen
        <3> QED BY <3>3, <3>7
    <2>3. CASE RotateRefreshToken(p)
        <3> DEFINE t == FirstFree(refresh)
                   k == requests[p].token
                   f == requests[p].row.family
        <3>1. /\ t \in TokenIds /\ refresh[t] = Null /\ k \in TokenIds /\ refresh[k] # Null
              /\ \A x \in TokenIds \ {t, k} : refresh'[x] = refresh[x]
              /\ refresh'[t] # Null /\ refresh'[t].family = f
              /\ refresh'[k] # Null /\ refresh'[k].family = refresh[k].family /\ refresh'[k].revoked
              BY <1>0, <2>3, TokenRotated DEF Inserted, SameButRevoked
        <3>2. f = refresh[k].family
              BY <1>0, <2>3 DEF RowsHeld, Holding, RotateRefreshToken, At
        <3>3. burned' = burned /\ forked' = IF refresh[k].revoked THEN forked \cup {f} ELSE forked
              BY <2>3 DEF RotateRefreshToken
        <3> HIDE DEF t, k, f
        <3>4. FamiliesExist'
              BY <1>0, <3>1, <3>2, <3>3 DEF FamiliesExist, Issued
        <3>5. \A x \in TokenIds \ {t} : Open(x)' => Open(x) /\ refresh'[x].family = refresh[x].family /\ x # k
              BY <3>1 DEF Open
        <3>6. f \notin forked' =>
                /\ Open(k) /\ f \notin burned
                /\ \A x \in TokenIds \ {t} : Open(x)' => refresh'[x].family # f
            <4> SUFFICES ASSUME f \notin forked'
                         PROVE  /\ Open(k) /\ f \notin burned
                                /\ \A x \in TokenIds \ {t} : Open(x)' => refresh'[x].family # f
                OBVIOUS
            <4>1. Open(k) /\ f \notin forked /\ f \in TokenIds
                <5>1. Open(k) /\ f \notin forked
                      BY <3>1, <3>3 DEF Open
                <5>2. f \in TokenIds
                      BY <1>0, <3>1, <3>2 DEF FamiliesExist, Issued
                <5> QED BY <5>1, <5>2
            <4>2. f \notin burned
                  BY <1>0, <3>1, <3>2, <4>1 DEF OneOpen
            <4>3. ASSUME NEW x \in TokenIds \ {t}, Open(x)', refresh'[x].family = f PROVE FALSE
                <5>1. Open(x) /\ refresh[x].family = f /\ x # k
                      BY <3>5, <4>3
                <5> QED BY <1>0, <3>1, <3>2, <4>1, <5>1 DEF OneOpen
            <4> QED BY <4>1, <4>2, <4>3
        <3>7. OneOpen'
            <4> SUFFICES ASSUME NEW g \in TokenIds \ forked'
                PROVE  /\ \A t1, t2 \in TokenIds :
                            Open(t1)' /\ Open(t2)' /\ refresh'[t1].family = g /\ refresh'[t2].family = g => t1 = t2
                       /\ g \in burned' => \A x \in TokenIds : Open(x)' => refresh'[x].family # g
                BY DEF OneOpen
            <4>1. g \in TokenIds \ forked
                  BY <3>3
            <4>2. CASE g = f
                  BY <3>1, <3>3, <3>6, <4>2
            <4>3. CASE g # f
                <5>1. \A x \in TokenIds : Open(x)' /\ refresh'[x].family = g =>
                        Open(x) /\ refresh[x].family = g
                      BY <3>1, <3>5, <4>3
                <5> QED BY <1>0, <3>3, <4>1, <5>1 DEF OneOpen
            <4> QED BY <4>2, <4>3
        <3> QED BY <3>4, <3>7
    <2>4. CASE RevokeFamily(p)
        <3> DEFINE family == requests[p].row.family
                   chosen == {t \in Issued(refresh) : refresh[t].family = family}
        <3>1. Revoke(chosen) /\ burned' = burned \cup {family} /\ forked' = forked
              BY <2>4 DEF RevokeFamily
        <3>2. chosen \in SUBSET Issued(refresh) /\ (\A t \in TokenIds : t \in chosen <=> refresh[t] # Null /\ refresh[t].family = family)
              BY DEF Issued
        <3>3. family \in Issued(refresh)
            <4>1. family = refresh[requests[p].token].family
                  BY <1>0, <2>4 DEF RowsHeld, Holding, RevokeFamily, At
            <4>2. requests[p].token \in Issued(refresh)
                  BY <1>0, <2>4 DEF AccountsInv, Facts, ArgsOK, RevokeFamily, At
            <4> QED BY <1>0, <4>1, <4>2 DEF FamiliesExist, Issued
        <3> HIDE DEF chosen, family
        <3>4. /\ \A t \in TokenIds \ chosen : refresh'[t] = refresh[t]
              /\ \A t \in chosen : refresh'[t] # Null /\ refresh'[t].family = refresh[t].family /\ refresh'[t].revoked
              BY <1>0, <3>1, <3>2, TokensRevoked DEF SameButRevoked
        <3>5. FamiliesExist'
              BY <1>0, <3>1, <3>2, <3>3, <3>4 DEF FamiliesExist, Issued
        <3>6. \A t \in TokenIds : Open(t)' => Open(t) /\ refresh'[t].family = refresh[t].family /\ refresh[t].family # family
              BY <3>2, <3>4 DEF Open
        <3>7. OneOpen'
              BY <1>0, <3>1, <3>6 DEF OneOpen
        <3> QED BY <3>5, <3>7
    <2>5. CASE RevokeAllForUser(p)
        <3> DEFINE chosen == {t \in Issued(refresh) : refresh[t].user = requests[p].user}
        <3>1. Revoke(chosen) /\ UNCHANGED <<forked, burned>>
              BY <2>5 DEF RevokeAllForUser, ghosts
        <3>2. chosen \in SUBSET Issued(refresh)
              OBVIOUS
        <3> HIDE DEF chosen
        <3>3. /\ \A t \in TokenIds \ chosen : refresh'[t] = refresh[t]
              /\ \A t \in chosen : refresh'[t] # Null /\ refresh'[t].family = refresh[t].family /\ refresh'[t].revoked
              BY <1>0, <3>1, <3>2, TokensRevoked DEF SameButRevoked
        <3>4. \A t \in chosen : refresh[t] # Null
              BY <3>2 DEF Issued
        <3> QED BY <3>1, <3>3, <3>4, FamiliesStay DEF Open
    <2>6. CASE RevokeRefreshToken(p)
        <3>1. UNCHANGED <<forked, burned>>
              BY <2>6 DEF RevokeRefreshToken, ghosts
        <3>2. LET k == requests[p].token IN
              /\ k \in TokenIds /\ refresh[k] # Null
              /\ \A t \in TokenIds \ {k} : refresh'[t] = refresh[t]
              /\ refresh'[k] # Null /\ refresh'[k].family = refresh[k].family /\ refresh'[k].revoked
              BY <1>0, <2>6, TokenRevoked DEF SameButRevoked
        <3> QED BY <3>1, <3>2, FamiliesStay DEF Open
    <2> QED BY <1>2, <2>1, <2>2, <2>3, <2>4, <2>5, <2>6, Frames DEF RefreshStep
<1> QED BY <1>1, <1>2 DEF Next, RequestStep

LEMMA FamilyInvariant == Spec => []FamilyInv
<1>1. Init => FamiliesExist /\ OneOpen
      BY DEF Init, FamiliesExist, OneOpen, Open, Issued
<1>2. HeldInv /\ FamiliesExist /\ OneOpen /\ [Next]_vars => FamiliesExist' /\ OneOpen'
      BY NextFamilies DEF FamilyInv
<1>3. HeldInv /\ FamiliesExist /\ OneOpen => FamilyInv
      BY DEF FamilyInv
<1> QED BY HeldInvariant, <1>1, <1>2, <1>3, PTL DEF Spec

(* Rotation hands a session from token to token: at most one token of a       *)
(* family is live, none after one was used twice, unless requests that had    *)
(* both read a token as live forked the family.                               *)
THEOREM RotationSafety == Spec => []OneLiveToken
<1>1. FamilyInv => OneLiveToken
    <2> SUFFICES ASSUME FamilyInv, NEW f \in TokenIds \ forked
                 PROVE  LET live == {t \in TokenIds : LiveToken(t) /\ refresh[t].family = f} IN
                        Cardinality(live) <= 1 /\ (f \in burned => live = {})
        BY DEF OneLiveToken
    <2> DEFINE live == {t \in TokenIds : LiveToken(t) /\ refresh[t].family = f}
    <2>1. \A t \in live : t \in TokenIds /\ Open(t) /\ refresh[t].family = f
          BY DEF LiveToken, Open
    <2> HIDE DEF live
    <2>2. \A t1, t2 \in live : t1 = t2
          BY <2>1 DEF FamilyInv, OneOpen
    <2>3. f \in burned => live = {}
          BY <2>1 DEF FamilyInv, OneOpen
    <2>4. Cardinality(live) <= 1
        <3>1. CASE live = {}
            <4>1. Cardinality(live) = 0
                  BY <3>1, FS_EmptySet
            <4> QED BY <4>1
        <3>2. CASE live # {}
            <4>1. PICK x \in live : live = {x}
                  BY <2>2, <3>2
            <4>2. Cardinality(live) = 1
                  BY <4>1, FS_Singleton
            <4> QED BY <4>2
        <3> QED BY <3>1, <3>2
    <2> QED BY <2>3, <2>4 DEF live
<1> QED BY FamilyInvariant, <1>1, PTL
=============================================================================
