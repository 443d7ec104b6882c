---------------------------- MODULE Authentication ----------------------------
(***************************************************************************)
(* Login and logout: AuthenticationService of                              *)
(* modules/mgmt/auth/authentication/service.py, its two routes, the login  *)
(* log it writes and the session service it calls, together with the two   *)
(* administrative routes over the same sessions.                           *)
(*                                                                         *)
(* A request is a chain of short transactions: every log_* helper and      *)
(* create_session commit on their own, so a login that fails commits the   *)
(* log row first and the counter after it, and a login that succeeds       *)
(* commits the user row, the session and the log row one after another.    *)
(* A stage names what the worker does next.  S is the session service on   *)
(* the same workers, clock and table.                                      *)
(***************************************************************************)
EXTENDS Naturals, Sequences, FiniteSets

CONSTANTS
  Users, Tokens, Workers, NoUser,
  SessionTicks, ExtendTicks, AwareColumns, MaxTime, MaxIds,  \* see Sessions
  MaxFailed,    \* failures that lock an account (5 in the code)
  LockTicks,    \* how long a lock lasts (30 minutes in the code)
  NoTime,       \* NULL in locked_until
  MaxWrong,     \* bound: wrong passwords logged for a user when one more comes
  MaxRefused,   \* bound: the same for unknown users and for refused logins
  MaxCrashes    \* bound: crashes of the service

VARIABLES
  now, sessions, call,   \* of Sessions
  users,        \* users[u]: the login columns of the row of idam.users
  logs,         \* logs[u][k]: rows of kind k in idam.login_logs
  streak,       \* history: wrong passwords logged since the last login
  req,          \* req[w]: the request worker w serves
  reply,        \* what the last step sent to a client
  crashes       \* history: requests cut short

vars == <<now, sessions, call, users, logs, streak, req, reply, crashes>>
sessionVars == <<now, sessions, call>>

ASSUME SessionsAssumption ==
  /\ SessionTicks \in Nat /\ ExtendTicks \in Nat /\ AwareColumns \in BOOLEAN
  /\ MaxTime \in Nat /\ MaxIds \in Nat /\ IsFiniteSet(Tokens)
  /\ NoUser \notin Users
ASSUME LockAssumption == MaxFailed \in Nat \ {0} /\ LockTicks \in Nat
ASSUME LogBoundAssumption == MaxWrong \in Nat /\ MaxRefused \in Nat /\ MaxCrashes \in Nat
ASSUME NoTimeAssumption == NoTime \notin Nat

S == INSTANCE Sessions

\* The kinds of log row, with their attempt_type, success and failure_reason.
AttemptType ==
  [login |-> "LOGIN", logout |-> "LOGOUT", lock |-> "LOCKED",
   unknown |-> "FAILED_LOGIN", wrong |-> "FAILED_LOGIN",
   refused |-> "FAILED_LOGIN"]
Kinds == DOMAIN AttemptType
Successes == {"login", "logout"}

UserRow == [status : {"ACTIVE", "LOCKED"}, failed : Nat,
            until : Nat \cup {NoTime}]
NewUser == [status |-> "ACTIVE", failed |-> 0, until |-> NoTime]

Stages == {"idle", "logUnknown", "logWrong", "reload", "count", "logRefused",
           "open", "create", "logLogin",
           "validating", "revoking", "logLogout", "managing"}
Request == [stage : Stages, user : Users \cup {NoUser}, tokens : SUBSET Tokens,
            row : UserRow]
NoRequest == [stage |-> "idle", user |-> NoUser, tokens |-> {}, row |-> NewUser]

Reply == [to : {"nobody", "login", "logout", "manage"}, tokens : SUBSET Tokens,
          code : {0, 200, 401, 423, 500}]
Silence == [to |-> "nobody", tokens |-> {}, code |-> 0]

At(w, stage) == req[w].stage = stage

\* Worker w holds the user, tokens and row it read for its request.
Load(w, stage, u, ts, row) ==
  /\ req' = [req EXCEPT ![w] = [stage |-> stage, user |-> u, tokens |-> ts,
                                row |-> row]]
  /\ reply' = Silence

GoTo(w, stage) ==
  /\ req' = [req EXCEPT ![w].stage = stage]
  /\ reply' = Silence

\* The request is answered; the handler's locals go with it.
Answer(w, to, code) ==
  /\ reply' = [to |-> to, tokens |-> req[w].tokens, code |-> code]
  /\ req' = [req EXCEPT ![w] = NoRequest]
  /\ S!Forget(w)

Log(u, k) == logs' = [logs EXCEPT ![u][k] = @ + 1]

\* A request that will log a row of kind k for u may begin (bound).
Room(u, k) == logs[u][k] < IF k = "wrong" THEN MaxWrong ELSE MaxRefused

\* The UPDATE of a flush: the columns whose assigned value differs from the
\* loaded one; the row keeps what it holds in the others.
Flush(current, loaded, assigned) ==
  [status |-> IF assigned.status # loaded.status
              THEN assigned.status ELSE current.status,
   failed |-> IF assigned.failed # loaded.failed
              THEN assigned.failed ELSE current.failed,
   until  |-> IF assigned.until # loaded.until
              THEN assigned.until ELSE current.until]

-------------------------------------------------------------------------------
Init ==
  /\ S!Init
  /\ users = [u \in Users |-> NewUser]
  /\ logs = [u \in Users \cup {NoUser} |-> [k \in Kinds |-> 0]]
  /\ streak = [u \in Users |-> 0]
  /\ req = [w \in Workers |-> NoRequest]
  /\ reply = Silence
  /\ crashes = 0

Tick ==
  /\ S!Tick
  /\ reply' = Silence
  /\ UNCHANGED <<users, logs, streak, req, crashes>>

(***************************************************************************)
(* POST /login                                                             *)
(***************************************************************************)
\* No user has that username or email.
LoginUnknown(w) ==
  /\ At(w, "idle")
  /\ Room(NoUser, "unknown")
  /\ Load(w, "logUnknown", NoUser, {}, NewUser)
  /\ UNCHANGED <<sessionVars, users, logs, streak, crashes>>

LogUnknown(w) ==
  /\ At(w, "logUnknown")
  /\ Log(NoUser, "unknown")
  /\ Answer(w, "login", 401)
  /\ UNCHANGED <<users, streak, crashes>>

\* The password does not match; whether the account is locked is not looked at.
LoginWrong(w, u) ==
  /\ At(w, "idle")
  /\ Room(u, "wrong")
  /\ Load(w, "logWrong", u, {}, NewUser)
  /\ UNCHANGED <<sessionVars, users, logs, streak, crashes>>

\* Faulty variant of LogWrong: a row that cannot be written is passed over.
LogWrongLenient(w) ==
  /\ At(w, "logWrong")
  /\ Log(req[w].user, "wrong") \/ UNCHANGED logs
  /\ streak' = [streak EXCEPT ![req[w].user] = @ + 1]
  /\ GoTo(w, "reload")
  /\ UNCHANGED <<sessionVars, users, crashes>>

LogWrong(w) ==
  /\ At(w, "logWrong")
  /\ Log(req[w].user, "wrong")
  /\ streak' = [streak EXCEPT ![req[w].user] = @ + 1]
  /\ GoTo(w, "reload")
  /\ UNCHANGED <<sessionVars, users, crashes>>

\* The commit of the log row expired the user; the next access reads it again.
ReloadUser(w) ==
  /\ At(w, "reload")
  /\ Load(w, "count", req[w].user, {}, users[req[w].user])
  /\ UNCHANGED <<sessionVars, users, logs, streak, crashes>>

\* Faulty variant of CountFailure: the LOCKED row is not written.
CountFailureUnlogged(w) ==
  LET u == req[w].user
      loaded == req[w].row
      n == loaded.failed + 1
  IN /\ At(w, "count")
     /\ \/ /\ n < MaxFailed
           /\ users' = [users EXCEPT ![u].failed = n]
        \/ /\ n >= MaxFailed
           /\ users' = [users EXCEPT ![u].failed = n, ![u].status = "LOCKED",
                                     ![u].until = now + LockTicks]
     /\ Answer(w, "login", 401)
     /\ UNCHANGED <<logs, streak, crashes>>

\* The failure is counted and committed; the one that reaches the threshold
\* locks the account in the transaction of the LOCKED log row.  The new
\* deadline is never equal to the loaded one, so it is always written.
CountFailure(w) ==
  LET u == req[w].user
      loaded == req[w].row
      n == loaded.failed + 1
      locked == Flush(users[u], loaded,
                      [loaded EXCEPT !.failed = n, !.status = "LOCKED"])
  IN /\ At(w, "count")
     /\ \/ /\ n < MaxFailed
           /\ users' = [users EXCEPT ![u].failed = n]
           /\ UNCHANGED logs
        \/ /\ n >= MaxFailed
           /\ users' = [users EXCEPT ![u] =
                          [locked EXCEPT !.until = now + LockTicks]]
           /\ Log(u, "lock")
     /\ Answer(w, "login", 401)
     /\ UNCHANGED <<streak, crashes>>

\* Faulty variants of LoginRight: the lock is not looked at; the comparison
\* with the clock is the wrong way round.
LoginRightUnchecked(w, u) ==
  /\ At(w, "idle")
  /\ \E t \in Tokens : sessions[t].status = "NONE"
  /\ Load(w, "open", u, {}, users[u])
  /\ UNCHANGED <<sessionVars, users, logs, streak, crashes>>

LoginRightReversed(w, u) ==
  /\ At(w, "idle")
  /\ IF users[u].until # NoTime /\ users[u].until <= now
     THEN Room(u, "refused") /\ Load(w, "logRefused", u, {}, NewUser)
     ELSE /\ \E t \in Tokens : sessions[t].status = "NONE"
          /\ Load(w, "open", u, {}, users[u])
  /\ UNCHANGED <<sessionVars, users, logs, streak, crashes>>

\* The password matches.  Comparing an aware locked_until with the naive
\* datetime.now() raises; a lock in force is refused; an elapsed lock, and an
\* account that is not locked, goes on.
LoginRight(w, u) ==
  LET row == users[u]
      dated == row.status = "LOCKED" /\ row.until # NoTime
  IN /\ At(w, "idle")
     /\ \/ /\ dated
           /\ AwareColumns
           /\ Answer(w, "login", 500)
        \/ /\ dated
           /\ ~AwareColumns
           /\ row.until > now
           /\ Room(u, "refused")
           /\ Load(w, "logRefused", u, {}, NewUser)
           /\ UNCHANGED sessionVars
        \/ /\ ~(dated /\ (AwareColumns \/ row.until > now))
           /\ \E t \in Tokens : sessions[t].status = "NONE"
           /\ Load(w, "open", u, {}, row)
           /\ UNCHANGED sessionVars
     /\ UNCHANGED <<users, logs, streak, crashes>>

LogRefused(w) ==
  /\ At(w, "logRefused")
  /\ Log(req[w].user, "refused")
  /\ Answer(w, "login", 423)
  /\ UNCHANGED <<users, streak, crashes>>

\* Faulty variants of OpenAccount: columns assigned wrongly or not at all.
OpenAccountAssigning(w, locked, open) ==
  LET u == req[w].user
      loaded == req[w].row
  IN /\ At(w, "open")
     /\ users' = [users EXCEPT ![u] =
                    Flush(@, loaded, IF loaded.status = "LOCKED"
                                     THEN locked ELSE open)]
     /\ streak' = [streak EXCEPT ![u] = 0]
     /\ Load(w, "create", u, {}, NewUser)
     /\ UNCHANGED <<sessionVars, logs, crashes>>
OpenAccountKeepsDeadline(w) ==
  OpenAccountAssigning(w, [req[w].row EXCEPT !.failed = 0, !.status = "ACTIVE"],
                       [req[w].row EXCEPT !.failed = 0])
OpenAccountKeepsStatus(w) ==
  OpenAccountAssigning(w, [req[w].row EXCEPT !.failed = 0, !.until = NoTime],
                       [req[w].row EXCEPT !.failed = 0])
OpenAccountKeepsCount(w) == OpenAccountAssigning(w, NewUser, req[w].row)
OpenAccountNullCount(w) ==
  OpenAccountAssigning(w, NewUser, [req[w].row EXCEPT !.failed = NoTime])

\* The first commit of a login: an elapsed lock is lifted, the count restarts.
OpenAccount(w) ==
  LET u == req[w].user
      loaded == req[w].row
      assigned == IF loaded.status = "LOCKED"
                  THEN NewUser ELSE [loaded EXCEPT !.failed = 0]
  IN /\ At(w, "open")
     /\ users' = [users EXCEPT ![u] = Flush(users[u], loaded, assigned)]
     /\ streak' = [streak EXCEPT ![u] = 0]
     /\ Load(w, "create", u, {}, NewUser)
     /\ UNCHANGED <<sessionVars, logs, crashes>>

\* Faulty variant of StartSession: the login ends without its log row.
StartSessionUnlogged(w) ==
  /\ At(w, "create")
  /\ S!CreateSession(w, req[w].user)
  /\ req' = [req EXCEPT ![w] = NoRequest]
  /\ reply' = [to |-> "login", tokens |-> {}, code |-> 200]
  /\ UNCHANGED <<users, logs, streak, crashes>>

StartSession(w) ==
  /\ At(w, "create")
  /\ S!CreateSession(w, req[w].user)
  /\ GoTo(w, "logLogin")
  /\ UNCHANGED <<users, logs, streak, crashes>>

LogLogin(w) ==
  /\ At(w, "logLogin")
  /\ Log(req[w].user, "login")
  /\ Answer(w, "login", 200)
  /\ UNCHANGED <<users, streak, crashes>>

(***************************************************************************)
(* POST /logout                                                            *)
(***************************************************************************)
Logout(w, t) ==
  /\ At(w, "idle")
  /\ S!ValidateSession(w, t, "validate")
  /\ Load(w, "validating", NoUser, {t}, NewUser)
  /\ UNCHANGED <<users, logs, streak, crashes>>

\* Faulty variants of LogoutRevoke: the session is not revoked; it is written
\* without looking it up.
LogoutKeepsSession(w) ==
  /\ At(w, "validating")
  /\ call[w].result = "ok"
  /\ GoTo(w, "revoking")
  /\ UNCHANGED <<sessionVars, users, logs, streak, crashes>>

LogoutWritesSession(w) ==
  /\ At(w, "validating")
  /\ call[w].result = "ok"
  /\ sessions' = [t \in Tokens |->
                    IF t \in req[w].tokens
                    THEN [sessions[t] EXCEPT !.status = "REVOKED"]
                    ELSE sessions[t]]
  /\ GoTo(w, "revoking")
  /\ UNCHANGED <<now, call, users, logs, streak, crashes>>

LogoutRevoke(w) ==
  /\ At(w, "validating")
  /\ call[w].result = "ok"
  /\ \E t \in req[w].tokens : S!RevokeSession(w, t)
  /\ GoTo(w, "revoking")
  /\ UNCHANGED <<users, logs, streak, crashes>>


\* No valid session: the route raises 401 inside its own try block, whose
\* except clause turns it, like the error of the comparison, into 500.
LogoutFails(w) ==
  /\ At(w, "validating") \/ At(w, "revoking")
  /\ S!Free(w)
  /\ call[w].result # "ok"
  /\ Answer(w, "logout", 500)
  /\ UNCHANGED <<users, logs, streak, crashes>>

LogLogout(w) ==
  /\ At(w, "revoking")
  /\ S!Free(w)
  /\ call[w].result = "ok"
  /\ \E t \in req[w].tokens : Log(sessions[t].user, "logout")
  /\ Answer(w, "logout", 200)
  /\ UNCHANGED <<users, streak, crashes>>

(***************************************************************************)
(* POST /sessions/revoke and POST /sessions/cleanup                        *)
(***************************************************************************)
ManageSessions(w) ==
  /\ At(w, "idle")
  /\ S!CleanupExpired(w) \/ \E ids \in S!IdLists : S!RevokeSessions(w, ids)
  /\ Load(w, "managing", NoUser, {}, NewUser)
  /\ UNCHANGED <<users, logs, streak, crashes>>

\* A step of the session service under a request that waits for it.
ServiceStep(w) ==
  /\ S!Continue(w)
  /\ reply' = Silence
  /\ UNCHANGED <<users, logs, streak, req, crashes>>

ManageDone(w) ==
  /\ At(w, "managing")
  /\ S!Free(w)
  /\ Answer(w, "manage", 200)
  /\ UNCHANGED <<users, logs, streak, crashes>>

\* The server process dies between two commits and is restarted: the client
\* gets no answer and what was not committed is lost.
Crash(w) ==
  /\ ~At(w, "idle")
  /\ crashes < MaxCrashes
  /\ crashes' = crashes + 1
  /\ req' = [req EXCEPT ![w] = NoRequest]
  /\ reply' = Silence
  /\ S!Abort(w) \/ S!Forget(w)
  /\ UNCHANGED <<users, logs, streak>>

\* The steps that carry on the request of worker w.
Serve(w) ==
  \/ LogUnknown(w) \/ LogWrong(w) \/ ReloadUser(w) \/ CountFailure(w)
  \/ LogRefused(w) \/ OpenAccount(w) \/ StartSession(w) \/ LogLogin(w)
  \/ LogoutRevoke(w) \/ LogoutFails(w) \/ LogLogout(w)
  \/ ServiceStep(w) \/ ManageDone(w)

Receive(w) ==
  \/ LoginUnknown(w)
  \/ \E u \in Users : LoginWrong(w, u) \/ LoginRight(w, u)
  \/ \E t \in Tokens : Logout(w, t)
  \/ ManageSessions(w)

Next ==
  \/ Tick
  \/ \E w \in Workers : Receive(w) \/ Serve(w) \/ Crash(w)

Spec == Init /\ [][Next]_vars
-------------------------------------------------------------------------------
\* Every variable has its type.
TypeOK ==
  /\ S!TypeOK
  /\ users \in [Users -> UserRow]
  /\ logs \in [Users \cup {NoUser} -> [Kinds -> Nat]]
  /\ streak \in [Users -> Nat]
  /\ req \in [Workers -> Request]
  /\ reply \in Reply
  /\ crashes \in Nat

Serving(u, stages) ==
  {w \in Workers : req[w].user = u /\ req[w].stage \in stages}

\* The three columns that make up a lock agree: an account is LOCKED exactly
\* when it has a deadline and exactly when its count reached the threshold.
\* They are written by two flushes that each name only the changed columns.
LockConsistent ==
  \A u \in Users :
    /\ (users[u].status = "LOCKED") <=> (users[u].until # NoTime)
    /\ (users[u].status = "LOCKED") <=> (users[u].failed >= MaxFailed)

\* The counter is neither ahead of nor behind the log it is written after: it
\* counts only failures that were logged since the last login, and it misses
\* only those still being served or cut off by a crash.
CountMatchesLog ==
  \A u \in Users :
    /\ users[u].failed <= streak[u]
    /\ streak[u] <= users[u].failed + crashes
                      + Cardinality(Serving(u, {"reload", "count"}))

\* Every failure that is counted, or is about to be, has a row in the log of its
\* own: processes that count at the same time may lose a failure, never invent
\* one.  So nobody was ever locked by fewer wrong passwords than it takes.
LockEarned ==
  \A u \in Users :
    /\ users[u].failed + Cardinality(Serving(u, {"reload", "count"}))
         <= logs[u].wrong
    /\ users[u].status = "LOCKED" => MaxFailed <= logs[u].wrong

\* A deadline is set in the transaction that writes the LOCKED log row: no
\* crash and no other worker leaves a lock without its audit row.
LockAudited ==
  [][\A u \in Users :
       users'[u].until \notin {NoTime, users[u].until}
       => logs'[u].lock = logs[u].lock + 1]_vars

\* A LOGIN row follows the session it is about, and a session without a LOGIN
\* row is one whose login is being served or was cut off by a crash.
LoginsMatchSessions ==
  \A u \in Users :
    LET opened == Cardinality({t \in Tokens : sessions[t].user = u})
        logged == logs[u].login + Cardinality(Serving(u, {"logLogin"}))
    IN logged <= opened /\ opened <= logged + crashes

\* A session is opened only for an account that is not locked and whose count
\* of failures restarted, two transactions after the account was looked at.
OpenedUnlocked ==
  [][\A t \in Tokens :
       sessions[t].status = "NONE" /\ sessions'[t].status = "ACTIVE"
       => /\ users[sessions'[t].user].status = "ACTIVE"
          /\ users[sessions'[t].user].failed = 0]_vars

\* What the route documents: whatever a logout answered, 200 or that the token
\* was not valid, its session is not ACTIVE any more.
LogoutEndsSession ==
  reply.to = "logout" => reply.tokens \cap S!Active = {}

\* What it keeps: with one worker the only session that goes on after its logout
\* is one whose expires_at was loaded with a time zone, and that logout failed
\* with 500; nobody is told of a logout that did not happen.
LogoutAnswersTrue ==
  reply.to = "logout" /\ reply.tokens \cap S!Active # {}
    => AwareColumns /\ reply.code = 500

\* The requests use the session service only as it may be used.
SessionsSpec == S!Spec

\* With one worker the failure columns behave as AccountLock promises: the
\* counter moves one by one, the lock comes at the threshold, and it is lifted
\* only by a login after its deadline.
Account == INSTANCE AccountLock
             WITH count <- [u \in Users |-> users[u].failed],
                  until <- [u \in Users |-> users[u].until]
AccountSpec == Account!Spec

-------------------------------------------------------------------------------
\* One server process finishes the requests it reads, one after the other and
\* in the order of arrival, time passes, and the owner of an account goes on
\* trying the right password.
Fairness ==
  /\ WF_vars(Tick)
  /\ \A w \in Workers : WF_vars(Serve(w))
  /\ \A u \in Users : SF_vars(\E w \in Workers : LoginRight(w, u))

FairSpec == Spec /\ Fairness

\* A locked account is unlocked by its owner once the lock has elapsed, unless
\* further wrong passwords move the deadline (the login service answers "try
\* again later" to the owner of a locked account).
LockReleased ==
  \A u \in Users :
    (users[u].status = "LOCKED" /\ \E t \in Tokens : sessions[t].status = "NONE")
    ~> \/ users[u].status = "ACTIVE"
       \/ users[u].until # NoTime /\ users[u].until > MaxTime
       \/ \A t \in Tokens : sessions[t].status # "NONE"
===============================================================================
