------------------------------ MODULE Accounts ------------------------------
(***************************************************************************)
(* Accounts and sessions: registration, login and its lockout, refresh     *)
(* tokens, password resets, e-mail verification, account deletion          *)
(* (routers/auth.py and the services it calls) and the rate limiter in     *)
(* front of them (api/rate_limit.py).                                      *)
(*                                                                         *)
(* A request is a thread with a database session of its own; every action  *)
(* is one statement or one commit.  Tokens are numbers, handed out in      *)
(* order; a client may present any token it was ever given.  Access tokens *)
(* are not state: an authenticated request names its user, and whether the *)
(* account is deleted is looked up (api/auth.py).  A process may die       *)
(* between two statements: what it committed stays.                        *)
(***************************************************************************)
EXTENDS Naturals, FiniteSets

CONSTANTS
  UserIds, Emails, Passwords, FullNames,
  Requests,          \* request threads
  TokenIds,          \* keys of the token tables, handed out in order
  LoginMaxFailedAttempts, LockoutTime,  \* settings.login_*
  TokenLifetime,     \* stands for the lifetimes of all three kinds of token
  LimitRequests, LimitWindow,  \* max_requests and window_seconds of a limiter
  Mixes,             \* sets of operations: a behaviour uses one of them
  MaxRequests,       \* bound on the requests made
  MaxTime,           \* bound on the clock
  MaxFaults,         \* bound on process deaths and Redis errors
  Null               \* None

ASSUME KeysAreNumbers == UserIds \subseteq Nat /\ TokenIds \subseteq Nat
ASSUME SettingsPositive ==
  /\ LoginMaxFailedAttempts \in Nat \ {0} /\ LimitRequests \in Nat \ {0}
  /\ {LockoutTime, TokenLifetime, LimitWindow} \subseteq Nat \ {0}
ASSUME NamesExist == FullNames # {}

VARIABLES
  users,     \* [UserIds -> row or Null]
  refresh,   \* refresh_tokens: [TokenIds -> row or Null]
  resets,    \* password_reset_tokens
  verifies,  \* email_verification_tokens
  counter,   \* a limiter's Redis key: [count, expires] or Null
  requests,  \* what each thread is doing
  now, asked, faults, uses,
  cut,       \* ghost: users whose sessions a request died before revoking
  late,      \* ghost: refresh tokens issued on a password that had changed
  forked,    \* ghost: families with a rotation of a token no longer live
  burned,    \* ghost: families revoked because a token was used again
  racedUsers, \* ghost: users whose row was written over a newer one
  racedResets, \* ghost: reset tokens consumed by two requests at once
  streak,    \* ghost: wrong passwords since the counter was last cleared
  stuck      \* ghost: the limiter's EXPIRE was lost

ghosts == <<cut, late, forked, burned, racedUsers, racedResets, streak, stuck>>
vars == <<users, refresh, resets, verifies, counter, requests,
          now, asked, faults, uses, ghosts>>

-----------------------------------------------------------------------------
Anonymous(u) == <<"deleted-user", u>>

\* full_name may be "Deleted User" and password a hash nobody knows.
UserRows ==
  [email: Emails \cup {Anonymous(u) : u \in UserIds},
   full_name: FullNames \cup {"Deleted User"},
   password: Passwords \cup {"unusable"},
   failed: 0..LoginMaxFailedAttempts,
   locked_until: Nat \cup {Null},
   verified: BOOLEAN, deleted: BOOLEAN]

\* password is a ghost: the password the session was opened with
RefreshRows ==
  [user: UserIds, family: TokenIds, expires: Nat, revoked: BOOLEAN,
   password: Passwords \cup {"unusable"}]

\* sets is a ghost: how often the token has been consumed
MailedRows == [user: UserIds, expires: Nat, used: BOOLEAN, sets: Nat]

CounterRows == [count: Nat \ {0}, expires: Nat \cup {Null}]

\* None is neither a number nor a row.
ASSUME NullIsNothing ==
  /\ Null \notin Nat /\ Null \notin UserRows /\ Null \notin RefreshRows
  /\ Null \notin MailedRows /\ Null \notin CounterRows

Idle == [step |-> "idle", op |-> Null, user |-> Null, token |-> Null,
         data |-> Null, row |-> Null, answer |-> 200]

NewUser(email, password) ==
  [email |-> email, full_name |-> CHOOSE n \in FullNames : TRUE,
   password |-> password, failed |-> 0, locked_until |-> Null,
   verified |-> FALSE, deleted |-> FALSE]

FirstFree(rows) ==
  CHOOSE i \in DOMAIN rows :
    rows[i] = Null /\ \A j \in DOMAIN rows : rows[j] = Null => i <= j

\* Behaviours that do not register start with one account.
Init ==
  /\ uses \in Mixes
  /\ LET none == [u \in UserIds |-> Null] IN
     IF "register" \in uses THEN users = none
     ELSE \E email \in Emails, pw \in Passwords :
            users = [none EXCEPT ![FirstFree(none)] = NewUser(email, pw)]
  /\ refresh = [t \in TokenIds |-> Null]
  /\ resets = [t \in TokenIds |-> Null]
  /\ verifies = [t \in TokenIds |-> Null]
  /\ counter = Null
  /\ requests = [p \in Requests |-> Idle]
  /\ now = 0 /\ asked = 0 /\ faults = 0
  /\ cut = {} /\ late = {} /\ forked = {} /\ burned = {}
  /\ racedUsers = {} /\ racedResets = {} /\ stuck = FALSE
  /\ streak = [u \in UserIds |-> 0]

-----------------------------------------------------------------------------
(* The life of a request *)

HasRoom(rows) == \E i \in DOMAIN rows : rows[i] = Null

Issued(rows) == {t \in TokenIds : rows[t] # Null}

\* Whom a request of each kind names, with which token and which data.
Accounts == {u \in UserIds : users[u] # Null}

Asked(op) ==
  CASE op \in {"register", "login"} -> {<<Null, Null, <<e, pw>>>> : e \in Emails, pw \in Passwords}
    [] op \in {"refresh", "logout"} -> {<<Null, t, Null>> : t \in Issued(refresh)}
    [] op = "request_reset" -> {<<Null, Null, e>> : e \in Emails}
    [] op = "confirm_reset" -> {<<Null, t, pw>> : t \in Issued(resets), pw \in Passwords}
    [] op = "resend_verification" -> {<<u, Null, Null>> : u \in Accounts}
    [] op = "confirm_verification" -> {<<Null, t, Null>> : t \in Issued(verifies)}
    [] op = "delete_account" -> {<<u, Null, pw>> : u \in Accounts, pw \in Passwords}
    [] op = "update_me" -> {<<u, Null, n>> : u \in Accounts, n \in FullNames}
    [] OTHER -> {<<Null, Null, Null>>}

Ask(p) ==
  /\ requests[p].step = "idle"
  /\ asked < MaxRequests
  /\ \E op \in uses : \E a \in Asked(op) :
       requests' = [requests EXCEPT ![p] =
         [Idle EXCEPT !.step = "load", !.op = op, !.user = a[1], !.token = a[2], !.data = a[3]]]
  /\ asked' = asked + 1
  /\ UNCHANGED <<users, refresh, resets, verifies, counter, now, faults, uses, ghosts>>

At(p, op, step) == requests[p].op = op /\ requests[p].step = step

\* The request has answered with a status code.
Answers(p, code) == requests' = [requests EXCEPT ![p] = [Idle EXCEPT !.answer = code]]

Refused(p, code) ==
  /\ Answers(p, code)
  /\ UNCHANGED <<users, refresh, resets, verifies, counter, now, asked, faults, uses, ghosts>>

\* The request goes on to another statement for user u, holding a loaded row.
Moves(p, step, u, row) ==
  requests' = [requests EXCEPT ![p].step = step, ![p].user = u, ![p].row = row]

Goes(p, step, u, row) ==
  /\ Moves(p, step, u, row)
  /\ UNCHANGED <<users, refresh, resets, verifies, counter, now, asked, faults, uses, ghosts>>

\* SQLAlchemy's UPDATE: only attributes that differ from the loaded row are set.
Flushed(current, loaded, data) ==
  [f \in DOMAIN current |-> IF f \in DOMAIN data /\ data[f] # loaded[f]
                            THEN data[f] ELSE current[f]]

\* One commit of attributes of a user's row.
Writes(u, loaded, data) ==
  /\ users' = [users EXCEPT ![u] = Flushed(@, loaded, data)]
  /\ racedUsers' = IF users[u] = loaded THEN racedUsers ELSE racedUsers \cup {u}

\* Process death: the statements of the request that are left do not happen.
Crash(p) ==
  /\ requests[p].step # "idle"
  /\ faults < MaxFaults
  /\ faults' = faults + 1
  /\ cut' = IF requests[p].step = "revoke_all" THEN cut \cup {requests[p].user} ELSE cut
  /\ stuck' = (stuck \/ requests[p].step = "expire")
  /\ Answers(p, 500)
  /\ UNCHANGED <<users, refresh, resets, verifies, counter, now, asked, uses,
                 late, forked, burned, racedUsers, racedResets, streak>>

Tick ==
  /\ now < MaxTime
  /\ now' = now + 1
  /\ counter' = IF counter # Null /\ counter.expires = now' THEN Null ELSE counter
  /\ UNCHANGED <<users, refresh, resets, verifies, requests, asked, faults, uses, ghosts>>

-----------------------------------------------------------------------------
(* Refresh tokens *)

LiveToken(t) ==
  refresh[t] # Null /\ ~refresh[t].revoked /\ refresh[t].expires >= now

NewRefresh(u, family, password) ==
  [user |-> u, family |-> family, expires |-> now + TokenLifetime,
   revoked |-> FALSE, password |-> password]

\* The token a login or a registration ends with opens a family of its own.
IssueRefreshToken(p) ==
  LET r == requests[p]
      t == FirstFree(refresh) IN
  /\ r.op \in {"register", "login"} /\ r.step = "issue"
  /\ HasRoom(refresh)
  /\ refresh' = [refresh EXCEPT ![t] = NewRefresh(r.user, t, r.data[2])]
  /\ late' = IF users[r.user].password = r.data[2] THEN late ELSE late \cup {t}
  /\ Answers(p, 200)
  /\ UNCHANGED <<users, resets, verifies, counter, now, asked, faults, uses,
                 cut, forked, burned, racedUsers, racedResets, streak, stuck>>

LoadRefreshToken(p) ==
  LET r == requests[p]
      row == refresh[r.token] IN
  /\ At(p, "refresh", "load")
  /\ \/ row = Null /\ Refused(p, 401)
     \/ row # Null /\ row.revoked /\ Goes(p, "revoke_family", row.user, row)
     \/ row # Null /\ ~row.revoked /\ row.expires < now /\ Refused(p, 401)
     \/ row # Null /\ ~row.revoked /\ row.expires >= now /\ Goes(p, "rotate", row.user, row)

\* mutant: the token that was presented stays valid
RotateRefreshTokenKeeping(p) ==
  LET r == requests[p]
      t == FirstFree(refresh) IN
  /\ At(p, "refresh", "rotate")
  /\ HasRoom(refresh)
  /\ refresh' = [refresh EXCEPT ![t] = NewRefresh(r.user, r.row.family, r.row.password)]
  /\ forked' = IF refresh[r.token].revoked THEN forked \cup {r.row.family} ELSE forked
  /\ late' = IF users[r.user].password = r.row.password THEN late ELSE late \cup {t}
  /\ Answers(p, 200)
  /\ UNCHANGED <<users, resets, verifies, counter, now, asked, faults, uses,
                 cut, burned, racedUsers, racedResets, streak, stuck>>

\* One commit revokes the token and inserts its successor.
RotateRefreshToken(p) ==
  LET r == requests[p]
      t == FirstFree(refresh) IN
  /\ At(p, "refresh", "rotate")
  /\ HasRoom(refresh)
  /\ refresh' = [refresh EXCEPT ![r.token].revoked = TRUE,
                                ![t] = NewRefresh(r.user, r.row.family, r.row.password)]
  /\ forked' = IF refresh[r.token].revoked THEN forked \cup {r.row.family} ELSE forked
  /\ late' = IF users[r.user].password = r.row.password THEN late ELSE late \cup {t}
  /\ Answers(p, 200)
  /\ UNCHANGED <<users, resets, verifies, counter, now, asked, faults, uses,
                 cut, burned, racedUsers, racedResets, streak, stuck>>

\* The UPDATE that revokes the chosen rows; those revoked before stay so.
Revoke(chosen) ==
  refresh' = [t \in TokenIds |->
                IF t \in chosen THEN [refresh[t] EXCEPT !.revoked = TRUE] ELSE refresh[t]]

RevokeFamily(p) ==
  LET family == requests[p].row.family IN
  /\ At(p, "refresh", "revoke_family")
  /\ Revoke({t \in Issued(refresh) : refresh[t].family = family})
  /\ burned' = burned \cup {family}
  /\ Answers(p, 401)
  /\ UNCHANGED <<users, resets, verifies, counter, now, asked, faults, uses,
                 cut, late, forked, racedUsers, racedResets, streak, stuck>>

RevokeAllForUser(p) ==
  /\ requests[p].step = "revoke_all"
  /\ Revoke({t \in Issued(refresh) : refresh[t].user = requests[p].user})
  /\ Answers(p, 200)
  /\ UNCHANGED <<users, resets, verifies, counter, now, asked, faults, uses, ghosts>>

LoadLogout(p) ==
  LET row == refresh[requests[p].token] IN
  /\ At(p, "logout", "load")
  /\ \/ (row = Null \/ row.revoked) /\ Refused(p, 200)
     \/ row # Null /\ ~row.revoked /\ Goes(p, "revoke", row.user, row)

RevokeRefreshToken(p) ==
  /\ At(p, "logout", "revoke")
  /\ refresh' = [refresh EXCEPT ![requests[p].token].revoked = TRUE]
  /\ Answers(p, 200)
  /\ UNCHANGED <<users, resets, verifies, counter, now, asked, faults, uses, ghosts>>

-----------------------------------------------------------------------------
(* Registration and login *)

WithEmail(email) == {u \in UserIds : users[u] # Null /\ users[u].email = email}

RegisterUser(p) ==
  LET r == requests[p] IN
  /\ At(p, "register", "load")
  /\ \/ WithEmail(r.data[1]) # {} /\ Refused(p, 409)
     \/ WithEmail(r.data[1]) = {} /\ Goes(p, "insert", Null, Null)

\* The unique index on users.email: its IntegrityError is nobody's to catch.
InsertUser(p) ==
  LET r == requests[p]
      u == FirstFree(users) IN
  /\ At(p, "register", "insert")
  /\ \/ WithEmail(r.data[1]) # {} /\ Refused(p, 500)
     \/ /\ WithEmail(r.data[1]) = {} /\ HasRoom(users)
        /\ users' = [users EXCEPT ![u] = NewUser(r.data[1], r.data[2])]
        /\ Moves(p, "mail", u, Null)
        /\ UNCHANGED <<refresh, resets, verifies, counter, now, asked, faults, uses, ghosts>>

NewMailed(u) == [user |-> u, expires |-> now + TokenLifetime, used |-> FALSE, sets |-> 0]

\* _send_verification_email and resend_verification_email: the token is
\* committed, then mailed.
CreateVerificationToken(p) ==
  LET r == requests[p] IN
  /\ r.op \in {"register", "resend_verification"} /\ r.step = "mail"
  /\ HasRoom(verifies)
  /\ verifies' = [verifies EXCEPT ![FirstFree(verifies)] = NewMailed(r.user)]
  /\ IF r.op = "register" THEN Moves(p, "issue", r.user, Null) ELSE Answers(p, 200)
  /\ UNCHANGED <<users, refresh, resets, counter, now, asked, faults, uses, ghosts>>

Locked(row) == row.locked_until # Null /\ row.locked_until > now

LoginUser(p) ==
  LET r == requests[p]
      found == WithEmail(r.data[1]) IN
  /\ At(p, "login", "load")
  /\ \/ (\A u \in found : users[u].deleted) /\ Refused(p, 401)
     \/ \E u \in found :
          /\ ~users[u].deleted
          /\ \/ Locked(users[u]) /\ Refused(p, 423)
             \/ /\ ~Locked(users[u])
                /\ Goes(p, IF users[u].password = r.data[2] THEN "succeed" ELSE "fail",
                        u, users[u])

\* mutant: the attempt after the last one locks the account
LoginFailsLate(p) ==
  LET r == requests[p]
      locks == r.row.failed + 1 > LoginMaxFailedAttempts IN
  /\ At(p, "login", "fail")
  /\ Writes(r.user, r.row,
       [failed |-> IF locks THEN 0 ELSE r.row.failed + 1,
        locked_until |-> IF locks THEN now + LockoutTime ELSE r.row.locked_until])
  /\ streak' = [streak EXCEPT ![r.user] = IF locks THEN 0 ELSE @ + 1]
  /\ Answers(p, 401)
  /\ UNCHANGED <<refresh, resets, verifies, counter, now, asked, faults, uses,
                 cut, late, forked, burned, racedResets, stuck>>

\* failed_login_attempts is read, incremented and written back.
LoginFails(p) ==
  LET r == requests[p]
      locks == r.row.failed + 1 >= LoginMaxFailedAttempts IN
  /\ At(p, "login", "fail")
  /\ Writes(r.user, r.row,
       [failed |-> IF locks THEN 0 ELSE r.row.failed + 1,
        locked_until |-> IF locks THEN now + LockoutTime ELSE r.row.locked_until])
  /\ streak' = [streak EXCEPT ![r.user] = IF locks THEN 0 ELSE @ + 1]
  /\ Answers(p, 401)
  /\ UNCHANGED <<refresh, resets, verifies, counter, now, asked, faults, uses,
                 cut, late, forked, burned, racedResets, stuck>>

LoginSucceeds(p) ==
  LET r == requests[p] IN
  /\ At(p, "login", "succeed")
  /\ Writes(r.user, r.row, [failed |-> 0, locked_until |-> Null])
  /\ streak' = [streak EXCEPT ![r.user] = 0]
  /\ Moves(p, "issue", r.user, Null)
  /\ UNCHANGED <<refresh, resets, verifies, counter, now, asked, faults, uses,
                 cut, late, forked, burned, racedResets, stuck>>

-----------------------------------------------------------------------------
(* Password reset and e-mail verification *)

RequestPasswordReset(p) ==
  LET found == WithEmail(requests[p].data) IN
  /\ At(p, "request_reset", "load")
  /\ \/ found = {} /\ Refused(p, 200)
     \/ \E u \in found : Goes(p, "mail", u, Null)

CreateResetToken(p) ==
  /\ At(p, "request_reset", "mail")
  /\ HasRoom(resets)
  /\ resets' = [resets EXCEPT ![FirstFree(resets)] = NewMailed(requests[p].user)]
  /\ Answers(p, 200)
  /\ UNCHANGED <<users, refresh, verifies, counter, now, asked, faults, uses, ghosts>>

Consumable(row) == row # Null /\ ~row.used /\ row.expires >= now

\* mutant: whether the token has been used is not asked
LoadResetTokenUsed(p) ==
  LET row == resets[requests[p].token] IN
  /\ At(p, "confirm_reset", "load")
  /\ \/ (row = Null \/ row.expires < now) /\ Refused(p, 400)
     \/ row # Null /\ row.expires >= now /\ Goes(p, "consume", row.user, row)

LoadResetToken(p) ==
  LET row == resets[requests[p].token] IN
  /\ At(p, "confirm_reset", "load")
  /\ \/ ~Consumable(row) /\ Refused(p, 400)
     \/ Consumable(row) /\ Goes(p, "consume", row.user, row)

ConsumeResetToken(p) ==
  LET r == requests[p] IN
  /\ At(p, "confirm_reset", "consume")
  /\ resets' = [resets EXCEPT ![r.token].used = TRUE, ![r.token].sets = @ + 1]
  /\ racedResets' = IF resets[r.token] = r.row THEN racedResets
                                                ELSE racedResets \cup {r.token}
  /\ Moves(p, "load_user", r.user, Null)
  /\ UNCHANGED <<users, refresh, verifies, counter, now, asked, faults, uses,
                 cut, late, forked, burned, racedUsers, streak, stuck>>

LoadResetUser(p) ==
  LET u == requests[p].user IN
  /\ At(p, "confirm_reset", "load_user")
  /\ Goes(p, "set_password", u, users[u])

\* mutant: the sessions are left alone
SetPasswordKeepingSessions(p) ==
  LET r == requests[p] IN
  /\ At(p, "confirm_reset", "set_password")
  /\ Writes(r.user, r.row, [password |-> r.data, failed |-> 0, locked_until |-> Null])
  /\ streak' = [streak EXCEPT ![r.user] = 0]
  /\ Answers(p, 200)
  /\ UNCHANGED <<refresh, resets, verifies, counter, now, asked, faults, uses,
                 cut, late, forked, burned, racedResets, stuck>>

\* The sessions are revoked in a transaction of its own (RevokeAllForUser).
SetPassword(p) ==
  LET r == requests[p] IN
  /\ At(p, "confirm_reset", "set_password")
  /\ Writes(r.user, r.row, [password |-> r.data, failed |-> 0, locked_until |-> Null])
  /\ streak' = [streak EXCEPT ![r.user] = 0]
  /\ Moves(p, "revoke_all", r.user, Null)
  /\ UNCHANGED <<refresh, resets, verifies, counter, now, asked, faults, uses,
                 cut, late, forked, burned, racedResets, stuck>>

\* get_current_user: an account that is deleted is not found.
Authenticated(u) == users[u] # Null /\ ~users[u].deleted

ResendVerification(p) ==
  LET u == requests[p].user IN
  /\ At(p, "resend_verification", "load")
  /\ \/ ~Authenticated(u) /\ Refused(p, 401)
     \/ Authenticated(u) /\ users[u].verified /\ Refused(p, 409)
     \/ Authenticated(u) /\ ~users[u].verified /\ Goes(p, "mail", u, Null)

LoadVerificationToken(p) ==
  LET row == verifies[requests[p].token] IN
  /\ At(p, "confirm_verification", "load")
  /\ \/ ~Consumable(row) /\ Refused(p, 400)
     \/ Consumable(row) /\ Goes(p, "consume", row.user, row)

ConsumeVerificationToken(p) ==
  LET r == requests[p] IN
  /\ At(p, "confirm_verification", "consume")
  /\ verifies' = [verifies EXCEPT ![r.token].used = TRUE, ![r.token].sets = @ + 1]
  /\ Moves(p, "verify", r.user, Null)
  /\ UNCHANGED <<users, refresh, resets, counter, now, asked, faults, uses, ghosts>>

SetVerified(p) ==
  LET u == requests[p].user IN
  /\ At(p, "confirm_verification", "verify")
  /\ users' = [users EXCEPT ![u].verified = TRUE]
  /\ Answers(p, 200)
  /\ UNCHANGED <<refresh, resets, verifies, counter, now, asked, faults, uses, ghosts>>

-----------------------------------------------------------------------------
(* The profile and the end of an account *)

UpdateMe(p) ==
  LET u == requests[p].user IN
  /\ At(p, "update_me", "load")
  /\ \/ ~Authenticated(u) /\ Refused(p, 401)
     \/ Authenticated(u) /\ Goes(p, "rename", u, users[u])

UpdateProfile(p) ==
  LET r == requests[p] IN
  /\ At(p, "update_me", "rename")
  /\ Writes(r.user, r.row, [full_name |-> r.data])
  /\ Answers(p, 200)
  /\ UNCHANGED <<refresh, resets, verifies, counter, now, asked, faults, uses,
                 cut, late, forked, burned, racedResets, streak, stuck>>

DeleteAccount(p) ==
  LET r == requests[p] IN
  /\ At(p, "delete_account", "load")
  /\ \/ ~Authenticated(r.user) /\ Refused(p, 401)
     \/ Authenticated(r.user) /\ users[r.user].password # r.data /\ Refused(p, 401)
     \/ Authenticated(r.user) /\ users[r.user].password = r.data
          /\ Goes(p, "anonymise", r.user, users[r.user])

\* mutant: only what a login looks at is overwritten
AnonymisePartly(p) ==
  LET r == requests[p] IN
  /\ At(p, "delete_account", "anonymise")
  /\ Writes(r.user, r.row, [email |-> Anonymous(r.user), password |-> "unusable",
                            deleted |-> TRUE])
  /\ Moves(p, "revoke_all", r.user, Null)
  /\ UNCHANGED <<refresh, resets, verifies, counter, now, asked, faults, uses,
                 cut, late, forked, burned, racedResets, streak, stuck>>

Anonymise(p) ==
  LET r == requests[p] IN
  /\ At(p, "delete_account", "anonymise")
  /\ Writes(r.user, r.row, [email |-> Anonymous(r.user), full_name |-> "Deleted User",
                            password |-> "unusable", deleted |-> TRUE])
  /\ Moves(p, "revoke_all", r.user, Null)
  /\ UNCHANGED <<refresh, resets, verifies, counter, now, asked, faults, uses,
                 cut, late, forked, burned, racedResets, streak, stuck>>

-----------------------------------------------------------------------------
(* The rate limiter: one key, whose clients ask for a limited route *)

\* mutant: the first request is taken to count 0
IncrementFromZero(p) ==
  LET count == IF counter = Null THEN 1 ELSE counter.count + 1 IN
  /\ At(p, "limited", "load")
  /\ counter' = [count |-> count, expires |-> IF counter = Null THEN Null ELSE counter.expires]
  /\ IF count = 0 THEN Moves(p, "expire", Null, Null)
     ELSE Answers(p, IF count > LimitRequests THEN 429 ELSE 200)
  /\ UNCHANGED <<users, refresh, resets, verifies, now, asked, faults, uses, ghosts>>

\* INCR creates a missing key with the value 1 and no expiry.
Increment(p) ==
  LET count == IF counter = Null THEN 1 ELSE counter.count + 1 IN
  /\ At(p, "limited", "load")
  /\ counter' = [count |-> count, expires |-> IF counter = Null THEN Null ELSE counter.expires]
  /\ IF count = 1 THEN Moves(p, "expire", Null, Null)
     ELSE Answers(p, IF count > LimitRequests THEN 429 ELSE 200)
  /\ UNCHANGED <<users, refresh, resets, verifies, now, asked, faults, uses, ghosts>>

Expire(p) ==
  /\ At(p, "limited", "expire")
  /\ counter' = IF counter = Null THEN Null
                ELSE [counter EXCEPT !.expires = now + LimitWindow]
  /\ Answers(p, 200)
  /\ UNCHANGED <<users, refresh, resets, verifies, now, asked, faults, uses, ghosts>>

\* Redis fails at INCR or at EXPIRE: the request is let through.
RedisError(p) ==
  /\ requests[p].op = "limited" /\ requests[p].step \in {"load", "expire"}
  /\ faults < MaxFaults
  /\ faults' = faults + 1
  /\ stuck' = (stuck \/ requests[p].step = "expire")
  /\ Answers(p, 200)
  /\ UNCHANGED <<users, refresh, resets, verifies, counter, now, asked, uses,
                 cut, late, forked, burned, racedUsers, racedResets, streak>>

-----------------------------------------------------------------------------
SessionStep(p) ==
  \/ IssueRefreshToken(p) \/ LoadRefreshToken(p) \/ RotateRefreshToken(p)
  \/ RevokeFamily(p) \/ RevokeAllForUser(p) \/ LoadLogout(p) \/ RevokeRefreshToken(p)

AccountStep(p) ==
  \/ RegisterUser(p) \/ InsertUser(p) \/ CreateVerificationToken(p)
  \/ LoginUser(p) \/ LoginFails(p) \/ LoginSucceeds(p)
  \/ UpdateMe(p) \/ UpdateProfile(p) \/ DeleteAccount(p) \/ Anonymise(p)

MailStep(p) ==
  \/ RequestPasswordReset(p) \/ CreateResetToken(p)
  \/ LoadResetToken(p) \/ ConsumeResetToken(p) \/ LoadResetUser(p) \/ SetPassword(p)
  \/ ResendVerification(p) \/ LoadVerificationToken(p)
  \/ ConsumeVerificationToken(p) \/ SetVerified(p)

LimiterStep(p) == Increment(p) \/ Expire(p) \/ RedisError(p)

Next ==
  \/ Tick
  \/ \E p \in Requests :
       Ask(p) \/ SessionStep(p) \/ AccountStep(p) \/ MailStep(p) \/ LimiterStep(p) \/ Crash(p)

Spec == Init /\ [][Next]_vars

-----------------------------------------------------------------------------
TypeOK ==
  /\ users \in [UserIds -> UserRows \cup {Null}]
  /\ refresh \in [TokenIds -> RefreshRows \cup {Null}]
  /\ resets \in [TokenIds -> MailedRows \cup {Null}]
  /\ verifies \in [TokenIds -> MailedRows \cup {Null}]
  /\ counter \in CounterRows \cup {Null}
  /\ streak \in [UserIds -> Nat] /\ now \in Nat

(* "A password change invalidates every existing session"                  *)
(* (password_reset_service.py:51), and a deletion does: a live refresh     *)
(* token was opened with the password its user has now, except while the   *)
(* request that changed it has yet to revoke, after that request died, and *)
(* for a token issued by a request that had checked the old password.      *)
SessionsFollowPassword ==
  \A t \in TokenIds :
    LiveToken(t) =>
      \/ refresh[t].password = users[refresh[t].user].password
      \/ t \in late
      \/ refresh[t].user \in cut
      \/ \E p \in Requests :
           requests[p].step = "revoke_all" /\ requests[p].user = refresh[t].user

(* Rotation hands a session from token to token: a family has at most one  *)
(* live token, and none once a used token was presented again              *)
(* (token_service.py:42), unless two rotations of a token, or a rotation   *)
(* and a revocation, had both read it as live.                             *)
OneLiveToken ==
  \A f \in TokenIds \ forked :
    LET live == {t \in TokenIds : LiveToken(t) /\ refresh[t].family = f} IN
    /\ Cardinality(live) <= 1
    /\ f \in burned => live = {}

(* A reset token sets a password once; it does so twice only when two      *)
(* requests had both read it as unused (consume_password_reset_token).     *)
ResetTokenOnce ==
  \A t \in TokenIds : resets[t] # Null /\ resets[t].sets > 1 => t \in racedResets

(* LoginMaxFailedAttempts wrong passwords lock the account, counted since  *)
(* it was last locked, logged into or reset (login_user).  The user's row  *)
(* has no version: once any request wrote it over a row newer than the one *)
(* it had loaded, a failure counted or a profile saved, nothing is said.   *)
LockAfterFailures ==
  \A u \in UserIds : u \notin racedUsers => streak[u] < LoginMaxFailedAttempts

(* A deleted account does not keep its e-mail address, nor its name unless *)
(* some request wrote the user's row over a newer one; a profile update    *)
(* that had loaded the account before its deletion writes the name back    *)
(* (delete_account).                                                       *)
DeletedIsAnonymous ==
  \A u \in UserIds :
    users[u] # Null /\ users[u].deleted =>
      /\ users[u].email = Anonymous(u)
      /\ users[u].full_name = "Deleted User" \/ u \in racedUsers

(* A limiter's counter always comes to its end: it has an expiry, or the   *)
(* request that created it is about to set one.  Only a process death or a *)
(* Redis error between INCR and EXPIRE leaves a counter that refuses its   *)
(* clients for good (_check_rate_limit).                                   *)
CounterExpires ==
  counter # Null /\ counter.expires = Null =>
    stuck \/ \E p \in Requests : At(p, "limited", "expire")
=============================================================================
