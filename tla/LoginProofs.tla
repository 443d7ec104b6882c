------------------------------ MODULE LoginProofs ------------------------------
(***************************************************************************)
(* Theorems about what a login or a logout leaves behind: the counter, the *)
(* log and the sessions account for each other, whatever requests a crash  *)
(* cuts short.                                                             *)
(***************************************************************************)
EXTENDS AuthenticationProofs, FiniteSetTheorems

\* A step of some request.
Step(w) == Receive(w) \/ Serve(w) \/ Crash(w)

\* Log adds one row.
LEMMA LogAdds ==
  ASSUME TypeOK, NEW u \in Users \cup {NoUser}, NEW k \in Kinds, Log(u, k),
         NEW v \in Users \cup {NoUser}, NEW j \in Kinds
  PROVE  logs'[v][j] = IF v = u /\ j = k THEN logs[v][j] + 1 ELSE logs[v][j]
BY DEF TypeOK, Log

\* A step of a request leaves the log alone or adds one row to it.
LEMMA OneRow ==
  ASSUME RequestInv, NEW w \in Workers, Step(w)
  PROVE  \/ logs' = logs
         \/ At(w, "logLogin") /\ LogLogin(w) /\ Log(req[w].user, "login")
         \/ CountFailure(w) /\ Log(req[w].user, "lock")
         \/ \E u \in Users \cup {NoUser}, k \in Kinds \ {"login", "lock"} : Log(u, k)
<1> DEFINE Other == \E u \in Users \cup {NoUser}, k \in Kinds \ {"login", "lock"} : Log(u, k)
<1>0. /\ req[w].user \in Users \cup {NoUser} /\ req[w].tokens \in SUBSET Tokens
      /\ {"logout", "unknown", "wrong", "refused"} \subseteq Kinds \ {"login", "lock"}
      /\ \A t \in Tokens : sessions[t].user \in Users \cup {NoUser}
  BY DEF RequestInv, TypeOK, Request, Kinds, AttemptType, S!TypeOK, S!Row
<1>1. CASE LogUnknown(w) \/ LogWrong(w) \/ LogRefused(w)
  <2>1. Other
    BY <1>0, <1>1 DEF LogUnknown, LogWrong, LogRefused
  <2>2. QED
    BY <2>1
<1>2. CASE LogLogout(w)
  <2> PICK t \in req[w].tokens : Log(sessions[t].user, "logout")
    BY <1>2 DEF LogLogout
  <2>1. Other
    BY <1>0
  <2>2. QED
    BY <2>1
<1>3. CASE CountFailure(w)
  BY <1>3 DEF CountFailure
<1>4. CASE LogLogin(w)
  BY <1>4 DEF LogLogin
<1>5. CASE /\ ~LogUnknown(w) /\ ~LogWrong(w) /\ ~LogRefused(w)
           /\ ~LogLogout(w) /\ ~CountFailure(w) /\ ~LogLogin(w)
  BY <1>5 DEF Step, Receive, LoginUnknown, LoginWrong, LoginRight, Logout,
     ManageSessions, Serve, ReloadUser, OpenAccount, StartSession, LogoutRevoke,
     LogoutFails, ServiceStep, ManageDone, Crash
<1>6. QED
  BY <1>1, <1>2, <1>3, <1>4, <1>5

-------------------------------------------------------------------------------
\* Every deadline has its LOCKED row, for any number of workers: whatever
\* versions of the row their flushes mix, only CountFailure writes a deadline.
LEMMA AuditStep ==
  RequestInv /\ [Next]_vars
    => \A u \in Users : users'[u].until \notin {NoTime, users[u].until}
                          => logs'[u].lock = logs[u].lock + 1
<1> SUFFICES ASSUME RequestInv, [Next]_vars, NEW u \in Users,
                    users'[u].until \notin {NoTime, users[u].until}
             PROVE  logs'[u].lock = logs[u].lock + 1
  OBVIOUS
<1>0. TypeOK /\ users \in [Users -> UserRow] /\ "lock" \in Kinds
  BY DEF RequestInv, TypeOK, Kinds, AttemptType
<1>1. PICK w \in Workers : Step(w)
  BY DEF Next, Tick, vars, Step
<1>2. CASE OpenAccount(w)
  <2>1. req[w].row \in UserRow
    BY DEF RequestInv, TypeOK, Request
  <2>2. PICK row \in UserRow :
          /\ users' = [users EXCEPT ![req[w].user] =
                         Flush(users[req[w].user], req[w].row, row)]
          /\ row.until \in {NoTime, req[w].row.until}
    <3>1. NewUser \in UserRow /\ NewUser.until = NoTime
      BY DEF NewUser, UserRow
    <3>2. [req[w].row EXCEPT !.failed = 0] \in UserRow
      BY <2>1 DEF UserRow
    <3>3. [req[w].row EXCEPT !.failed = 0].until = req[w].row.until
      BY <2>1 DEF UserRow
    <3>4. QED
      BY <1>2, <3>1, <3>2, <3>3 DEF OpenAccount
  <2>3. QED
    BY <1>0, <2>2 DEF Flush
<1>3. CASE CountFailure(w)
  <2>1. req[w].user \in Users
    BY <1>3 DEF CountFailure, At, RequestInv, Addressed, LoginStages
  <2>2. CASE users' = [users EXCEPT ![req[w].user].failed = req[w].row.failed + 1]
    BY <1>0, <2>1, <2>2 DEF UserRow
  <2>3. CASE /\ Log(req[w].user, "lock")
             /\ \E row : users' = [users EXCEPT ![req[w].user] = row]
    <3>1. u = req[w].user
      BY <1>0, <2>3
    <3>2. QED
      BY <1>0, <2>3, <3>1, LogAdds
  <2>4. QED
    BY <1>3, <2>2, <2>3 DEF CountFailure
<1>4. CASE ~CountFailure(w) /\ ~OpenAccount(w)
  BY <1>1, <1>4, UsersKept DEF Step
<1>5. QED
  BY <1>2, <1>3, <1>4

\* No crash and no other worker leaves a lock without its audit row.
THEOREM LocksAudited == Spec => LockAudited
<1> DEFINE A == \A u \in Users : users'[u].until \notin {NoTime, users[u].until}
                                   => logs'[u].lock = logs[u].lock + 1
<1>1. RequestInv /\ [Next]_vars => [A]_vars
  BY AuditStep
<1>2. QED
  BY <1>1, RequestInvariant, PTL DEF Spec, LockAudited

-------------------------------------------------------------------------------
\* Only StartSession opens a session; nothing gives one to another user, and a
\* token without a row belongs to nobody.
Unowned == \A t \in Tokens : sessions[t].status = "NONE" => sessions[t].user = NoUser

LEMMA RowsKept ==
  ASSUME RequestInv, NEW w \in Workers, Step(w), ~StartSession(w), NEW t \in Tokens
  PROVE  /\ sessions'[t].user = sessions[t].user
         /\ sessions'[t].status \in {"NONE", "ACTIVE"} => sessions'[t].status = sessions[t].status
<1> DEFINE Kept == /\ sessions'[t].user = sessions[t].user
                   /\ sessions'[t].status \in {"NONE", "ACTIVE"}
                        => sessions'[t].status = sessions[t].status
<1>0. sessions \in [Tokens -> S!Row]
  BY DEF RequestInv, TypeOK, S!TypeOK
<1>1. sessions' = sessions => Kept
  OBVIOUS
<1>2. ASSUME NEW ts, NEW st \in {"EXPIRED", "REVOKED"}, S!SetStatus(ts, st)
      PROVE  Kept
  BY <1>0, <1>2 DEF S!SetStatus, S!Row
<1>3. ASSUME S!Continue(w) PROVE Kept
  <2>1. CASE S!CommitExtend(w)
    BY <1>0, <2>1 DEF S!CommitExtend, S!Row
  <2>2. CASE S!CommitVerify(w)
    BY <1>0, <2>2 DEF S!CommitVerify, S!Row
  <2>3. QED
    BY <1>1, <1>2, <1>3, <2>1, <2>2 DEF S!Continue, S!CommitExpire,
       S!CommitRevoke, S!CommitCleanup, S!ScanNext, S!CommitScan
<1>4. CASE ServiceStep(w)
  BY <1>3, <1>4 DEF ServiceStep
<1>5. CASE Receive(w)
  BY <1>1, <1>5 DEF Receive, LoginUnknown, LoginWrong, LoginRight, Logout,
     ManageSessions, Answer, sessionVars, S!ValidateSession, S!CleanupExpired,
     S!RevokeSessions, S!Forget
<1>6. CASE Serve(w) /\ ~ServiceStep(w)
  BY <1>1, <1>6 DEF Serve, LogUnknown, LogWrong, ReloadUser, CountFailure,
     LogRefused, OpenAccount, LogLogin, LogoutRevoke, LogoutFails, LogLogout,
     ManageDone, Answer, sessionVars, S!RevokeSession, S!Forget
<1>7. CASE Crash(w)
  BY <1>1, <1>7 DEF Crash, S!Abort, S!Forget
<1>8. QED
  BY <1>4, <1>5, <1>6, <1>7 DEF Step

LEMMA OpensOne ==
  ASSUME RequestInv, NEW w \in Workers, StartSession(w)
  PROVE  /\ req[w].user \in Users /\ req[w].stage = "create"
         /\ \E t \in Tokens :
              /\ sessions[t].status = "NONE"
              /\ sessions'[t].status = "ACTIVE" /\ sessions'[t].user = req[w].user
              /\ \A x \in Tokens \ {t} : sessions'[x] = sessions[x]
<1>1. req[w].user \in Users /\ req[w].stage = "create"
  BY DEF StartSession, At, RequestInv, Addressed, LoginStages
<1>2. sessions \in [Tokens -> S!Row]
  BY DEF RequestInv, TypeOK, S!TypeOK
<1>3. PICK t \in Tokens :
        /\ sessions[t].status = "NONE"
        /\ sessions' = [sessions EXCEPT ![t] =
                          [status |-> "ACTIVE", user |-> req[w].user,
                           expires |-> now + SessionTicks, mfa |-> FALSE]]
  BY DEF StartSession, S!CreateSession
<1>4. QED
  BY <1>1, <1>2, <1>3

LEMMA UnownedStep == RequestInv /\ Unowned /\ [Next]_vars => Unowned'
<1> SUFFICES ASSUME RequestInv, Unowned, [Next]_vars, NEW t \in Tokens,
                    sessions'[t].status = "NONE"
             PROVE  sessions'[t].user = NoUser
  BY DEF Unowned
<1>1. CASE sessions' = sessions
  BY <1>1 DEF Unowned
<1>2. ASSUME NEW w \in Workers, Step(w) PROVE sessions'[t].user = NoUser
  BY <1>2, RowsKept, OpensOne DEF Unowned
<1>3. QED
  BY <1>1, <1>2 DEF Next, Tick, S!Tick, vars, Step

-------------------------------------------------------------------------------
\* With one worker an account that was opened is as the commit left it when the
\* session is inserted, two transactions later.
Unlocked(w) ==
  req[w].stage = "create" =>
    users[req[w].user].status = "ACTIVE" /\ users[req[w].user].failed = 0
OpenInv == \A w \in Workers : Unlocked(w)

\* What OpenAccount writes when the row it loaded is the row of the table.
LEMMA OpenedRow ==
  ASSUME RequestInv, LockInv, NEW w \in Workers, OpenAccount(w)
  PROVE  /\ req[w].user \in Users
         /\ users' = [users EXCEPT ![req[w].user] = NewUser]
<1> DEFINE u == req[w].user
<1>1. u \in Users
  BY DEF OpenAccount, At, RequestInv, Addressed, LoginStages
<1>2. req[w].row = users[u] /\ users[u] \in UserRow
  BY <1>1 DEF OpenAccount, At, LockInv, Fresh, RequestInv, TypeOK
<1>3. CASE users[u].status = "LOCKED"
  BY <1>1, <1>2, <1>3 DEF OpenAccount, Flush, NewUser, UserRow
<1>4. CASE users[u].status = "ACTIVE"
  <2>1. users[u].until = NoTime
    BY <1>1, <1>4 DEF LockInv, LockConsistent
  <2>2. QED
    BY <1>1, <1>2, <1>4, <2>1 DEF OpenAccount, Flush, NewUser, UserRow
<1>5. QED
  BY <1>1, <1>2, <1>3, <1>4 DEF UserRow

\* The stage of a request after a step.
LEMMA NotCreating ==
  ASSUME RequestInv, NEW w \in Workers, Step(w), ~OpenAccount(w),
         req'[w].stage = "create"
  PROVE  /\ req'[w] = req[w]
         /\ ~CountFailure(w)
<1>0. req \in [Workers -> Request]
  BY DEF RequestInv, TypeOK
<1>1. ASSUME NEW stage, NEW u, NEW ts, NEW row, Load(w, stage, u, ts, row)
      PROVE  stage = "create"
  BY <1>0, <1>1 DEF Load
<1>2. ASSUME NEW to, NEW code, Answer(w, to, code) PROVE FALSE
  BY <1>0, <1>2 DEF Answer, NoRequest
<1>3. ASSUME NEW stage, GoTo(w, stage) PROVE stage = "create"
  BY <1>0, <1>3 DEF GoTo, Request
<1>4. ~CountFailure(w)
  BY <1>2 DEF CountFailure
<1>5. CASE Receive(w)
  BY <1>1, <1>2, <1>5 DEF Receive, LoginUnknown, LoginWrong, LoginRight, Logout,
     ManageSessions
<1>6. CASE Serve(w)
  BY <1>1, <1>2, <1>3, <1>6 DEF Serve, LogUnknown, LogWrong, ReloadUser,
     CountFailure, LogRefused, StartSession, LogLogin, LogoutRevoke, LogoutFails,
     LogLogout, ServiceStep, ManageDone
<1>7. CASE Crash(w)
  BY <1>0, <1>7 DEF Crash, NoRequest
<1>8. QED
  BY <1>4, <1>5, <1>6, <1>7 DEF Step

LEMMA OpenStep ==
  SingleWorker /\ RequestInv /\ LockInv /\ OpenInv /\ [Next]_vars
    => /\ OpenInv'
       /\ \A t \in Tokens :
            sessions[t].status = "NONE" /\ sessions'[t].status = "ACTIVE"
            => /\ users[sessions'[t].user].status = "ACTIVE"
               /\ users[sessions'[t].user].failed = 0
<1> SUFFICES ASSUME SingleWorker, RequestInv, LockInv, OpenInv, [Next]_vars
             PROVE  /\ OpenInv'
                    /\ \A t \in Tokens :
                         sessions[t].status = "NONE" /\ sessions'[t].status = "ACTIVE"
                         => /\ users[sessions'[t].user].status = "ACTIVE"
                            /\ users[sessions'[t].user].failed = 0
  OBVIOUS
<1>1. CASE UNCHANGED <<sessions, users, req>>
  BY <1>1 DEF OpenInv, Unlocked
<1>2. ASSUME NEW w \in Workers, Step(w)
      PROVE  OpenInv'
  <2> SUFFICES ASSUME req'[w].stage = "create"
               PROVE  Unlocked(w)'
    BY DEF SingleWorker, OpenInv, Unlocked
  <2>1. CASE OpenAccount(w)
    <3>1. req' = [req EXCEPT ![w] = [stage |-> "create", user |-> req[w].user,
                                     tokens |-> {}, row |-> NewUser]]
      BY <2>1 DEF OpenAccount, Load
    <3>2. req'[w].user = req[w].user
      BY <3>1 DEF RequestInv, TypeOK
    <3>3. QED
      BY <2>1, <3>2, OpenedRow DEF Unlocked, NewUser, RequestInv, TypeOK
  <2>2. CASE ~OpenAccount(w)
    <3>1. req'[w] = req[w] /\ ~CountFailure(w)
      BY <1>2, <2>2, NotCreating
    <3>2. users' = users
      BY <1>2, <2>2, <3>1, UsersKept DEF Step
    <3>3. QED
      BY <3>1, <3>2 DEF OpenInv, Unlocked
  <2>3. QED
    BY <2>1, <2>2
<1>3. ASSUME NEW w \in Workers, Step(w), NEW t \in Tokens,
             sessions[t].status = "NONE", sessions'[t].status = "ACTIVE"
      PROVE  /\ users[sessions'[t].user].status = "ACTIVE"
             /\ users[sessions'[t].user].failed = 0
  <2>1. StartSession(w)
    BY <1>3, RowsKept
  <2>2. req[w].stage = "create" /\ sessions'[t].user = req[w].user
    BY <1>3, <2>1, OpensOne
  <2>3. QED
    BY <2>2 DEF OpenInv, Unlocked
<1>4. QED
  BY <1>1, <1>2, <1>3 DEF Next, Tick, S!Tick, vars, Step

\* With one worker a session is opened only for an account that is not locked.
THEOREM OpensUnlocked == SingleWorker => (Spec => OpenedUnlocked)
<1> SUFFICES ASSUME SingleWorker PROVE Spec => OpenedUnlocked
  OBVIOUS
<1> DEFINE A == \A t \in Tokens :
                  sessions[t].status = "NONE" /\ sessions'[t].status = "ACTIVE"
                  => /\ users[sessions'[t].user].status = "ACTIVE"
                     /\ users[sessions'[t].user].failed = 0
<1>1. Init => OpenInv
  BY DEF Init, NoRequest, OpenInv, Unlocked
<1>2. RequestInv /\ LockInv /\ [Next]_vars => LockInv'
  BY LockStep
<1>3. RequestInv /\ LockInv /\ OpenInv /\ [Next]_vars => OpenInv' /\ [A]_vars
  BY OpenStep
<1>4. QED
  BY <1>1, <1>2, <1>3, LockInit, RequestInvariant, PTL DEF Spec, OpenedUnlocked

-------------------------------------------------------------------------------
\* Which step takes a request to a stage that is counted, and from it.
LEMMA Moves ==
  ASSUME RequestInv, NEW w \in Workers, Step(w)
  PROVE  /\ \A v \in Workers \ {w} : req'[v] = req[v]
         /\ req'[w].stage = "logLogin" => req'[w] = req[w] \/ StartSession(w)
         /\ req'[w].stage = "reload" => req'[w] = req[w] \/ LogWrong(w)
         /\ req'[w].stage = "count" => req'[w] = req[w] \/ ReloadUser(w)
         /\ req[w].stage = "logLogin" => req'[w] = req[w] \/ LogLogin(w) \/ Crash(w)
         /\ req[w].stage = "reload" => req'[w] = req[w] \/ ReloadUser(w) \/ Crash(w)
         /\ req[w].stage = "count" => req'[w] = req[w] \/ CountFailure(w) \/ Crash(w)
<1> DEFINE Others == \A v \in Workers \ {w} : req'[v] = req[v]
           Becomes(stage) == Others /\ req'[w].stage = stage
<1>0. req \in [Workers -> Request]
  BY DEF RequestInv, TypeOK
<1>1. ASSUME NEW stage, NEW u, NEW ts, NEW row, Load(w, stage, u, ts, row)
      PROVE  Becomes(stage)
  BY <1>0, <1>1 DEF Load
<1>2. ASSUME NEW to, NEW code, Answer(w, to, code) PROVE Becomes("idle")
  BY <1>0, <1>2 DEF Answer, NoRequest
<1>3. ASSUME NEW stage, GoTo(w, stage) PROVE Becomes(stage)
  BY <1>0, <1>3 DEF GoTo, Request
<1>4. CASE Receive(w)
  <2>1. /\ req[w].stage = "idle"
        /\ \E stage \in {"idle", "logUnknown", "logWrong", "logRefused", "open",
                         "validating", "managing"} : Becomes(stage)
    BY <1>1, <1>2, <1>4 DEF Receive, LoginUnknown, LoginWrong, LoginRight, Logout,
       ManageSessions, At
  <2>2. QED
    BY <2>1
<1>5. CASE Serve(w)
  <2>1. CASE ServiceStep(w)
    BY <2>1 DEF ServiceStep
  <2>2. CASE LogWrong(w)
    BY <1>3, <2>2 DEF LogWrong, At
  <2>3. CASE ReloadUser(w)
    BY <1>1, <2>3 DEF ReloadUser, At
  <2>4. CASE CountFailure(w)
    BY <1>2, <2>4 DEF CountFailure, At
  <2>5. CASE StartSession(w)
    BY <1>3, <2>5 DEF StartSession, At
  <2>6. CASE LogLogin(w)
    BY <1>2, <2>6 DEF LogLogin, At
  <2>7. CASE LogUnknown(w) \/ LogRefused(w) \/ OpenAccount(w) \/ LogoutRevoke(w)
             \/ LogoutFails(w) \/ LogLogout(w) \/ ManageDone(w)
    <3>1. /\ req[w].stage \in {"logUnknown", "logRefused", "open", "validating",
                               "revoking", "managing"}
          /\ \E stage \in {"idle", "create", "revoking"} : Becomes(stage)
      BY <1>1, <1>2, <1>3, <2>7 DEF LogUnknown, LogRefused, OpenAccount,
         LogoutRevoke, LogoutFails, LogLogout, ManageDone, At
    <3>2. QED
      BY <3>1
  <2>8. QED
    BY <1>5, <2>1, <2>2, <2>3, <2>4, <2>5, <2>6, <2>7 DEF Serve
<1>6. CASE Crash(w)
  BY <1>0, <1>6 DEF Crash, NoRequest
<1>7. QED
  BY <1>4, <1>5, <1>6 DEF Step

\* Adding an element to a set that is counted, and taking one away.
LEMMA OneMore ==
  ASSUME NEW A, IsFiniteSet(A), NEW x, x \notin A
  PROVE  /\ Cardinality(A) \in Nat /\ IsFiniteSet(A \cup {x})
         /\ Cardinality(A \cup {x}) = Cardinality(A) + 1
BY FS_AddElement, FS_CardinalityType

LEMMA OneLess ==
  ASSUME NEW A, IsFiniteSet(A), NEW x \in A
  PROVE  /\ Cardinality(A) \in Nat /\ Cardinality(A \ {x}) \in Nat
         /\ Cardinality(A) = Cardinality(A \ {x}) + 1
<1>1. IsFiniteSet(A \ {x}) /\ Cardinality(A \ {x}) = Cardinality(A) - 1
  BY FS_RemoveElement
<1>2. QED
  BY <1>1, FS_CardinalityType

Opened(u) == {t \in Tokens : sessions[t].user = u}
Logging(u) == Serving(u, {"logLogin"})
MatchInv == Unowned /\ LoginsMatchSessions

\* Sessions, LOGIN rows and the requests between them move together.
LEMMA MatchStep ==
  ASSUME RequestInv, MatchInv, [Next]_vars, IsFiniteSet(Workers)
  PROVE  MatchInv'
<1>0. /\ logs \in [Users \cup {NoUser} -> [Kinds -> Nat]] /\ crashes \in Nat
      /\ "login" \in Kinds /\ NoUser \notin Users /\ req \in [Workers -> Request]
  BY SessionsAssumption DEF RequestInv, TypeOK, Kinds, AttemptType
<1>f. \A u : IsFiniteSet(Opened(u)) /\ IsFiniteSet(Logging(u))
  BY FS_Subset, SessionsAssumption DEF Opened, Logging, Serving
<1>n. \A u : Cardinality(Opened(u)) \in Nat /\ Cardinality(Logging(u)) \in Nat
  BY <1>f, FS_CardinalityType
<1>1. Unowned'
  BY UnownedStep DEF MatchInv
<1>m. ASSUME NEW u \in Users
      PROVE  /\ logs[u].login + Cardinality(Logging(u)) <= Cardinality(Opened(u))
             /\ Cardinality(Opened(u))
                  <= logs[u].login + Cardinality(Logging(u)) + crashes
  BY DEF MatchInv, LoginsMatchSessions, Opened, Logging
<1>2. SUFFICES ASSUME NEW u \in Users
               PROVE  /\ logs'[u].login + Cardinality(Logging(u)') <= Cardinality(Opened(u)')
                      /\ Cardinality(Opened(u)')
                           <= logs'[u].login + Cardinality(Logging(u)') + crashes'
  BY <1>1 DEF MatchInv, LoginsMatchSessions, Opened, Logging
<1>l. logs[u].login \in Nat
  BY <1>0
<1>3. CASE UNCHANGED <<sessions, logs, req, crashes>>
  BY <1>3, <1>m DEF Opened, Logging, Serving
<1>4. ASSUME NEW w \in Workers, Step(w)
      PROVE  /\ logs'[u].login + Cardinality(Logging(u)') <= Cardinality(Opened(u)')
             /\ Cardinality(Opened(u)')
                  <= logs'[u].login + Cardinality(Logging(u)') + crashes'
  <2>0. \A v \in Workers \ {w} : req'[v] = req[v]
    BY <1>4, Moves
  <2>1. CASE StartSession(w)
    <3>1. logs' = logs /\ crashes' = crashes
      BY <2>1 DEF StartSession
    <3>2. req' = [req EXCEPT ![w].stage = "logLogin"]
      BY <2>1 DEF StartSession, GoTo
    <3>3. req[w].user \in Users /\ req[w].stage = "create"
      BY <2>1, OpensOne
    <3>4. PICK t \in Tokens :
            /\ sessions[t].status = "NONE" /\ sessions'[t].user = req[w].user
            /\ \A x \in Tokens \ {t} : sessions'[x] = sessions[x]
      BY <2>1, OpensOne
    <3>5. sessions[t].user = NoUser
      BY <3>4 DEF MatchInv, Unowned
    <3>6. CASE u = req[w].user
      <4>1. Opened(u)' = Opened(u) \cup {t} /\ t \notin Opened(u)
        BY <1>0, <3>4, <3>5, <3>6 DEF Opened
      <4>2. Logging(u)' = Logging(u) \cup {w} /\ w \notin Logging(u)
        BY <1>0, <3>2, <3>3, <3>6 DEF Logging, Serving, Request
      <4>3. /\ Cardinality(Opened(u)') = Cardinality(Opened(u)) + 1
            /\ Cardinality(Logging(u)') = Cardinality(Logging(u)) + 1
        BY <1>f, <4>1, <4>2, OneMore
      <4>4. QED
        BY <1>0, <1>l, <1>m, <1>n, <3>1, <4>3
    <3>7. CASE u # req[w].user
      <4>1. Opened(u)' = Opened(u)
        BY <1>0, <3>4, <3>5, <3>7 DEF Opened
      <4>2. Logging(u)' = Logging(u)
        BY <1>0, <3>2, <3>3, <3>7 DEF Logging, Serving, Request
      <4>3. QED
        BY <1>m, <3>1, <4>1, <4>2
    <3>8. QED
      BY <3>6, <3>7
  <2>2. CASE ~StartSession(w)
    <3>1. Opened(u)' = Opened(u)
      BY <1>4, <2>2, RowsKept DEF Opened
    <3>2. CASE LogLogin(w)
      <4>1. /\ Log(req[w].user, "login") /\ req[w].stage = "logLogin"
            /\ crashes' = crashes /\ req' = [req EXCEPT ![w] = NoRequest]
        BY <3>2 DEF LogLogin, Answer, At
      <4>2. CASE u = req[w].user
        <5>1. w \in Logging(u) /\ Logging(u)' = Logging(u) \ {w}
          BY <1>0, <4>1, <4>2 DEF Logging, Serving, NoRequest
        <5>2. logs'[u].login = logs[u].login + 1
          BY <1>0, <4>1, <4>2, LogAdds DEF RequestInv
        <5>3. Cardinality(Logging(u)) = Cardinality(Logging(u)') + 1
              /\ Cardinality(Logging(u)') \in Nat
          BY <1>f, <5>1, OneLess
        <5>4. QED
          BY <1>0, <1>l, <1>m, <1>n, <3>1, <4>1, <5>2, <5>3
      <4>3. CASE u # req[w].user
        <5>1. Logging(u)' = Logging(u)
          BY <1>0, <4>1, <4>3 DEF Logging, Serving, NoRequest
        <5>2. TypeOK /\ req[w].user \in Users \cup {NoUser}
          BY DEF RequestInv, TypeOK, Request
        <5>3. logs'[u].login = logs[u].login
          BY <1>0, <4>1, <4>3, <5>2, LogAdds
        <5>4. QED
          BY <1>m, <3>1, <4>1, <5>1, <5>3
      <4>4. QED
        BY <4>2, <4>3
    <3>3. CASE ~LogLogin(w)
      <4>1. logs'[u].login = logs[u].login
        <5>0. TypeOK /\ req[w].user \in Users \cup {NoUser}
          BY DEF RequestInv, TypeOK, Request
        <5>1. "lock" \in Kinds
          BY DEF Kinds, AttemptType
        <5>2. ASSUME NEW v \in Users \cup {NoUser}, NEW k \in Kinds \ {"login"},
                     Log(v, k)
              PROVE  logs'[u].login = logs[u].login
          BY <1>0, <5>0, <5>2, LogAdds
        <5>3. CASE Log(req[w].user, "lock")
          BY <5>0, <5>1, <5>2, <5>3
        <5>4. CASE \E v \in Users \cup {NoUser}, k \in Kinds \ {"login", "lock"} : Log(v, k)
          BY <5>2, <5>4
        <5>5. \/ logs' = logs
              \/ Log(req[w].user, "lock")
              \/ \E v \in Users \cup {NoUser}, k \in Kinds \ {"login", "lock"} : Log(v, k)
          BY <1>4, <3>3, OneRow
        <5>6. QED
          BY <5>3, <5>4, <5>5
      <4>2. CASE Crash(w)
        <5>1. /\ crashes' = crashes + 1 /\ req' = [req EXCEPT ![w] = NoRequest]
          BY <4>2 DEF Crash
        <5>2. CASE w \in Logging(u)
          <6>1. Logging(u)' = Logging(u) \ {w}
            BY <1>0, <5>1, <5>2 DEF Logging, Serving, NoRequest
          <6>2. Cardinality(Logging(u)) = Cardinality(Logging(u)') + 1
                /\ Cardinality(Logging(u)') \in Nat
            BY <1>f, <5>2, <6>1, OneLess
          <6>3. QED
            BY <1>0, <1>l, <1>m, <1>n, <3>1, <4>1, <5>1, <6>2
        <5>3. CASE w \notin Logging(u)
          <6>1. Logging(u)' = Logging(u)
            BY <1>0, <5>1, <5>3 DEF Logging, Serving, NoRequest
          <6>2. QED
            BY <1>0, <1>l, <1>m, <1>n, <3>1, <4>1, <5>1, <6>1
        <5>4. QED
          BY <5>2, <5>3
      <4>3. CASE ~Crash(w)
        <5>1. crashes' = crashes
          BY <1>4, <4>3 DEF Step, Receive, LoginUnknown, LoginWrong, LoginRight,
             Logout, ManageSessions, Serve, LogUnknown, LogWrong, ReloadUser,
             CountFailure, LogRefused, OpenAccount, StartSession, LogLogin,
             LogoutRevoke, LogoutFails, LogLogout, ServiceStep, ManageDone
        <5>2. \/ req'[w] = req[w]
              \/ req'[w].stage # "logLogin" /\ req[w].stage # "logLogin"
          BY <1>4, <2>2, <3>3, <4>3, Moves
        <5>3. Logging(u)' = Logging(u)
          BY <2>0, <5>2 DEF Logging, Serving
        <5>4. QED
          BY <1>m, <3>1, <4>1, <5>1, <5>3
      <4>4. QED
        BY <4>2, <4>3
    <3>4. QED
      BY <3>2, <3>3
  <2>3. QED
    BY <2>1, <2>2
<1>5. QED
  BY <1>3, <1>4 DEF Next, Tick, S!Tick, vars, Step

\* Every LOGIN row has its session, and every session its LOGIN row but for the
\* logins that are being served or were cut off, for any number of workers.
THEOREM LoginsMatch == IsFiniteSet(Workers) => (Spec => []LoginsMatchSessions)
<1> SUFFICES ASSUME IsFiniteSet(Workers) PROVE Spec => []LoginsMatchSessions
  OBVIOUS
<1>1. Init => MatchInv
  <2> SUFFICES ASSUME Init PROVE MatchInv
    OBVIOUS
  <2>1. Unowned
    BY DEF Init, S!Init, S!NoRow, Unowned
  <2>2. ASSUME NEW u \in Users PROVE Opened(u) = {} /\ Logging(u) = {}
    BY SessionsAssumption DEF Init, S!Init, S!NoRow, NoRequest, Opened, Logging,
       Serving
  <2>3. ASSUME NEW u \in Users PROVE logs[u].login = 0 /\ crashes = 0
    BY DEF Init, Kinds, AttemptType
  <2>4. ASSUME NEW u \in Users
        PROVE  /\ logs[u].login + Cardinality(Logging(u)) <= Cardinality(Opened(u))
               /\ Cardinality(Opened(u))
                    <= logs[u].login + Cardinality(Logging(u)) + crashes
    BY <2>2, <2>3, FS_EmptySet
  <2>5. QED
    BY <2>1, <2>4 DEF MatchInv, LoginsMatchSessions, Opened, Logging
<1>2. RequestInv /\ MatchInv /\ [Next]_vars => MatchInv'
  BY MatchStep
<1>3. MatchInv => LoginsMatchSessions
  BY DEF MatchInv
<1>4. QED
  BY <1>1, <1>2, <1>3, RequestInvariant, PTL DEF Spec

-------------------------------------------------------------------------------
\* A failure is logged before it is counted: with one worker the counter is
\* behind by the failure being served, and by those that crashes cut off.
Counting(u) == Serving(u, {"reload", "count"})
Counted(u) ==
  /\ users[u].failed + Cardinality(Counting(u)) <= streak[u]
  /\ streak[u] <= users[u].failed + crashes + Cardinality(Counting(u))
CountInv == \A u \in Users : Counted(u)

LEMMA CountOne ==
  ASSUME SingleWorker, NEW w \in Workers, NEW u
  PROVE  /\ Cardinality(Counting(u)) = IF w \in Counting(u) THEN 1 ELSE 0
         /\ Cardinality(Counting(u)') = IF w \in Counting(u)' THEN 1 ELSE 0
<1>1. Counting(u) \in {{}, {w}} /\ Counting(u)' \in {{}, {w}}
  BY DEF SingleWorker, Counting, Serving
<1>2. Cardinality({}) = 0 /\ Cardinality({w}) = 1
  BY FS_EmptySet, FS_Singleton
<1>3. QED
  BY <1>1, <1>2

LEMMA CountStep ==
  ASSUME SingleWorker, RequestInv, LockInv, CountInv, [Next]_vars
  PROVE  CountInv'
<1> SUFFICES ASSUME NEW u \in Users PROVE Counted(u)'
  BY DEF CountInv
<1>0. /\ users \in [Users -> UserRow] /\ streak \in [Users -> Nat]
      /\ crashes \in Nat /\ users[u].failed \in Nat /\ streak[u] \in Nat
      /\ req \in [Workers -> Request]
  BY DEF RequestInv, TypeOK, UserRow
<1>1. CASE UNCHANGED <<users, streak, req, crashes>>
  BY <1>1 DEF CountInv, Counted, Counting, Serving
<1>2. ASSUME NEW w \in Workers, Step(w) PROVE Counted(u)'
  <2> DEFINE before == IF w \in Counting(u) THEN 1 ELSE 0
             after == IF w \in Counting(u)' THEN 1 ELSE 0
  <2>1. /\ users[u].failed + before <= streak[u]
        /\ streak[u] <= users[u].failed + crashes + before
    BY CountOne DEF CountInv, Counted
  <2>2. SUFFICES /\ users'[u].failed + after <= streak'[u]
                 /\ streak'[u] <= users'[u].failed + crashes' + after
    BY CountOne DEF Counted
  <2>3. CASE LogWrong(w)
    <3>1. /\ users' = users /\ crashes' = crashes
          /\ streak' = [streak EXCEPT ![req[w].user] = streak[req[w].user] + 1]
          /\ req' = [req EXCEPT ![w].stage = "reload"] /\ req[w].stage = "logWrong"
      BY <2>3 DEF LogWrong, GoTo, At
    <3>2. w \notin Counting(u) /\ (w \in Counting(u)' <=> u = req[w].user)
      BY <1>0, <3>1 DEF Counting, Serving, Request
    <3>3. QED
      BY <1>0, <2>1, <3>1, <3>2
  <2>4. CASE ReloadUser(w)
    <3>1. /\ UNCHANGED <<users, streak, crashes>> /\ req[w].stage = "reload"
          /\ req'[w].stage = "count" /\ req'[w].user = req[w].user
      BY <1>0, <2>4 DEF ReloadUser, Load, At
    <3>2. w \in Counting(u)' <=> w \in Counting(u)
      BY <3>1 DEF Counting, Serving
    <3>3. QED
      BY <2>1, <3>1, <3>2
  <2>5. CASE CountFailure(w)
    <3>1. /\ req[w].stage = "count" /\ req[w].user \in Users
          /\ req[w].row = users[req[w].user]
          /\ UNCHANGED <<streak, crashes>> /\ req' = [req EXCEPT ![w] = NoRequest]
      BY <2>5 DEF CountFailure, At, Answer, RequestInv, Addressed, LoginStages,
         LockInv, Fresh
    <3>2. users'[u].failed = IF u = req[w].user THEN users[u].failed + 1
                             ELSE users[u].failed
      BY <1>0, <2>5, <3>1 DEF CountFailure, Flush, UserRow
    <3>3. w \notin Counting(u)' /\ (w \in Counting(u) <=> u = req[w].user)
      BY <1>0, <3>1 DEF Counting, Serving, NoRequest
    <3>4. QED
      BY <1>0, <2>1, <3>1, <3>2, <3>3
  <2>6. CASE OpenAccount(w)
    <3>1. /\ req[w].stage = "open" /\ req'[w].stage = "create" /\ crashes' = crashes
          /\ streak' = [streak EXCEPT ![req[w].user] = 0]
      BY <1>0, <2>6 DEF OpenAccount, Load, At
    <3>2. users' = [users EXCEPT ![req[w].user] = NewUser]
      BY <2>6, OpenedRow
    <3>3. w \notin Counting(u) /\ w \notin Counting(u)'
      BY <3>1 DEF Counting, Serving
    <3>4. QED
      BY <1>0, <2>1, <3>1, <3>2, <3>3 DEF NewUser
  <2>7. CASE Crash(w)
    <3>1. /\ UNCHANGED <<users, streak>> /\ crashes' = crashes + 1
          /\ req' = [req EXCEPT ![w] = NoRequest]
      BY <2>7 DEF Crash
    <3>2. w \notin Counting(u)'
      BY <1>0, <3>1 DEF Counting, Serving, NoRequest
    <3>3. QED
      BY <1>0, <2>1, <3>1, <3>2
  <2>8. CASE /\ ~LogWrong(w) /\ ~ReloadUser(w) /\ ~CountFailure(w)
             /\ ~OpenAccount(w) /\ ~Crash(w)
    <3>1. UNCHANGED <<users, streak, crashes>>
      BY <1>2, <2>8 DEF Step, Receive, LoginUnknown, LoginWrong, LoginRight,
         Logout, ManageSessions, Serve, LogUnknown, LogRefused, StartSession,
         LogLogin, LogoutRevoke, LogoutFails, LogLogout, ServiceStep, ManageDone
    <3>2. \/ req'[w] = req[w]
          \/ /\ req[w].stage \notin {"reload", "count"}
             /\ req'[w].stage \notin {"reload", "count"}
      BY <1>2, <2>8, Moves
    <3>3. w \in Counting(u)' <=> w \in Counting(u)
      BY <3>2 DEF Counting, Serving
    <3>4. QED
      BY <2>1, <3>1, <3>3
  <2>9. QED
    BY <2>3, <2>4, <2>5, <2>6, <2>7, <2>8
<1>3. QED
  BY <1>1, <1>2 DEF Next, Tick, S!Tick, vars, Step

\* With one worker the counter is neither ahead of nor behind the log, but for
\* the failures being served and those cut off by crashes.
THEOREM CountFollowsLog == SingleWorker => (Spec => []CountMatchesLog)
<1> SUFFICES ASSUME SingleWorker PROVE Spec => []CountMatchesLog
  OBVIOUS
<1>c. \A u : Cardinality(Counting(u)) \in Nat
  <2> TAKE u
  <2>1. Counting(u) = {} \/ \E w \in Workers : Counting(u) = {w}
    BY DEF SingleWorker, Counting, Serving
  <2>2. Cardinality({}) = 0 /\ \A w : Cardinality({w}) = 1
    BY FS_EmptySet, FS_Singleton
  <2>3. 0 \in Nat /\ 1 \in Nat
    OBVIOUS
  <2>4. QED
    BY <2>1, <2>2, <2>3
<1>1. Init => CountInv
  <2> SUFFICES ASSUME Init, NEW u \in Users PROVE Counted(u)
    BY DEF CountInv
  <2>1. Counting(u) = {}
    BY DEF Init, NoRequest, Counting, Serving
  <2>2. users[u].failed = 0 /\ streak[u] = 0 /\ crashes = 0
    BY DEF Init, NewUser
  <2>3. QED
    BY <2>1, <2>2, FS_EmptySet DEF Counted
<1>2. RequestInv /\ LockInv /\ [Next]_vars => LockInv'
  BY LockStep
<1>3. RequestInv /\ LockInv /\ CountInv /\ [Next]_vars => CountInv'
  BY CountStep
<1>4. RequestInv /\ CountInv => CountMatchesLog
  <2> SUFFICES ASSUME RequestInv, CountInv, NEW u \in Users
               PROVE  /\ users[u].failed <= streak[u]
                      /\ streak[u] <= users[u].failed + crashes
                                        + Cardinality(Counting(u))
    BY DEF CountMatchesLog, Counting
  <2>1. users[u].failed \in Nat /\ streak[u] \in Nat
    BY DEF RequestInv, TypeOK, UserRow
  <2>2. Cardinality(Counting(u)) \in Nat
    BY <1>c
  <2>3. QED
    BY <2>1, <2>2 DEF CountInv, Counted
<1>5. QED
  BY <1>1, <1>2, <1>3, <1>4, LockInit, RequestInvariant, PTL DEF Spec

-------------------------------------------------------------------------------
\* A failure that is counted has its row, whatever row the counting worker read:
\* what it read, its own failure and those being served are all in the log.
Earned(u) ==
  /\ users[u].failed + Cardinality(Counting(u)) <= logs[u].wrong
  /\ users[u].status = "LOCKED" => MaxFailed <= logs[u].wrong
Held(w) ==
  At(w, "count") =>
    req[w].row.failed + Cardinality(Counting(req[w].user)) <= logs[req[w].user].wrong
EarnedInv == /\ \A u \in Users : Earned(u)
             /\ \A w \in Workers : Held(w)

\* Only a failure that was just logged joins those waiting to be counted.
LEMMA CountingShrinks ==
  ASSUME RequestInv, NEW w \in Workers, Step(w), ~LogWrong(w), NEW u,
         IsFiniteSet(Workers)
  PROVE  /\ Counting(u)' \subseteq Counting(u)
         /\ Cardinality(Counting(u)) \in Nat /\ Cardinality(Counting(u)') \in Nat
         /\ Cardinality(Counting(u)') <= Cardinality(Counting(u))
<1>1. ASSUME NEW v \in Workers, v \in Counting(u)' PROVE v \in Counting(u)
  <2>1. req'[v].user = u /\ req'[v].stage \in {"reload", "count"}
    BY <1>1 DEF Counting, Serving
  <2>2. CASE req'[v] = req[v]
    BY <2>1, <2>2 DEF Counting, Serving
  <2>3. CASE req'[v] # req[v]
    <3>1. v = w /\ ReloadUser(w)
      BY <2>1, <2>3, Moves
    <3>2. req[w].stage = "reload" /\ req'[w].user = req[w].user
      BY <3>1 DEF ReloadUser, Load, At, RequestInv, TypeOK
    <3>3. QED
      BY <2>1, <3>1, <3>2 DEF Counting, Serving
  <2>4. QED
    BY <2>2, <2>3
<1>2. Counting(u)' \subseteq Counting(u)
  BY <1>1 DEF Counting, Serving
<1>3. IsFiniteSet(Counting(u))
  BY FS_Subset DEF Counting, Serving
<1>4. QED
  BY <1>2, <1>3, FS_Subset, FS_CardinalityType

\* No step takes a row out of the log.
LEMMA WrongRowsGrow ==
  ASSUME RequestInv, NEW w \in Workers, Step(w), NEW u \in Users
  PROVE  logs[u].wrong \in Nat /\ logs'[u].wrong \in Nat /\ logs[u].wrong <= logs'[u].wrong
<1>0. /\ TypeOK /\ logs[u].wrong \in Nat /\ {"login", "lock", "wrong"} \subseteq Kinds
      /\ req[w].user \in Users \cup {NoUser}
  BY DEF RequestInv, TypeOK, Request, Kinds, AttemptType
<1>1. ASSUME NEW v \in Users \cup {NoUser}, NEW k \in Kinds, Log(v, k)
      PROVE  logs'[u].wrong \in Nat /\ logs[u].wrong <= logs'[u].wrong
  <2>1. logs'[u].wrong = IF u = v /\ "wrong" = k THEN logs[u].wrong + 1
                         ELSE logs[u].wrong
    BY <1>0, <1>1, LogAdds
  <2>2. QED
    BY <1>0, <2>1
<1>2. QED
  BY <1>0, <1>1, OneRow

LEMMA EarnedStep ==
  ASSUME RequestInv, EarnedInv, [Next]_vars, IsFiniteSet(Workers)
  PROVE  EarnedInv'
<1>0. /\ users \in [Users -> UserRow] /\ req \in [Workers -> Request]
      /\ logs \in [Users \cup {NoUser} -> [Kinds -> Nat]] /\ "wrong" \in Kinds
  BY DEF RequestInv, TypeOK, Kinds, AttemptType
<1>f. \A u : IsFiniteSet(Counting(u))
  BY FS_Subset DEF Counting, Serving
<1>n. \A u : Cardinality(Counting(u)) \in Nat
  BY <1>f, FS_CardinalityType
<1>u. \A w \in Workers : req[w].stage \in {"logWrong", "reload", "count", "open"}
                           => req[w].user \in Users
  BY DEF RequestInv, Addressed, LoginStages
<1>1. CASE UNCHANGED <<users, logs, req>>
  BY <1>1 DEF EarnedInv, Earned, Held, At, Counting, Serving
<1>2. ASSUME NEW w \in Workers, Step(w), LogWrong(w) PROVE EarnedInv'
  <2> DEFINE z == req[w].user
  <2>1. /\ req[w].stage = "logWrong" /\ z \in Users /\ users' = users
        /\ req' = [req EXCEPT ![w].stage = "reload"] /\ Log(z, "wrong")
    BY <1>2, <1>u DEF LogWrong, At, GoTo
  <2>2. ASSUME NEW u \in Users
        PROVE  logs'[u].wrong = IF u = z THEN logs[u].wrong + 1 ELSE logs[u].wrong
    BY <1>0, <2>1, LogAdds DEF RequestInv
  <2>3. ASSUME NEW u \in Users
        PROVE  Cardinality(Counting(u)') = IF u = z THEN Cardinality(Counting(u)) + 1
                                           ELSE Cardinality(Counting(u))
    <3>1. CASE u = z
      <4>1. Counting(u)' = Counting(u) \cup {w} /\ w \notin Counting(u)
        BY <1>0, <2>1, <3>1 DEF Counting, Serving, Request
      <4>2. QED
        BY <1>f, <3>1, <4>1, OneMore
    <3>2. CASE u # z
      <4>1. Counting(u)' = Counting(u)
        BY <1>0, <2>1, <3>2 DEF Counting, Serving, Request
      <4>2. QED
        BY <3>2, <4>1
    <3>3. QED
      BY <3>1, <3>2
  <2>4. ASSUME NEW u \in Users PROVE Earned(u)'
    <3>1. logs[u].wrong \in Nat /\ users[u].failed \in Nat
      BY <1>0 DEF UserRow
    <3>2. QED
      BY <1>n, <2>1, <2>2, <2>3, <3>1, LockAssumption DEF EarnedInv, Earned
  <2>5. ASSUME NEW v \in Workers, At(v, "count")' PROVE Held(v)'
    <3>1. v # w /\ req'[v] = req[v] /\ req[v].stage = "count"
      BY <1>0, <2>1, <2>5 DEF At, Request
    <3>2. PICK x \in Users : x = req[v].user
      BY <1>u, <3>1
    <3>3. req[v].row.failed + Cardinality(Counting(x)) <= logs[x].wrong
      BY <3>1, <3>2 DEF EarnedInv, Held, At
    <3>4. /\ Cardinality(Counting(x)) \in Nat /\ req[v].row.failed \in Nat
          /\ logs[x].wrong \in Nat
      BY <1>0, <1>n DEF Request, UserRow
    <3>5. req'[v].row.failed + Cardinality(Counting(x)') <= logs'[x].wrong
      BY <2>2, <2>3, <3>1, <3>3, <3>4
    <3>6. QED
      BY <3>1, <3>2, <3>5 DEF Held, Counting, Serving
  <2>6. QED
    BY <2>4, <2>5 DEF EarnedInv, Held
<1>3. ASSUME NEW w \in Workers, Step(w), ~LogWrong(w) PROVE EarnedInv'
  <2>1. ASSUME NEW u \in Users
        PROVE  /\ Cardinality(Counting(u)) \in Nat /\ Cardinality(Counting(u)') \in Nat
               /\ Cardinality(Counting(u)') <= Cardinality(Counting(u))
               /\ logs[u].wrong \in Nat /\ logs'[u].wrong \in Nat
               /\ logs[u].wrong <= logs'[u].wrong
               /\ users[u].failed \in Nat
    BY <1>0, <1>3, CountingShrinks, WrongRowsGrow DEF UserRow
  <2>2. ASSUME NEW v \in Workers, At(v, "count")' PROVE Held(v)'
    <3>1. /\ req'[v].user = req[v].user
          /\ \/ req'[v] = req[v]
             \/ req[v].stage = "reload" /\ req'[v].row = users[req[v].user]
      BY <1>0, <1>3, <2>2, Moves DEF ReloadUser, Load, At
    <3>2. PICK z \in Users : z = req[v].user
      BY <1>u, <2>2, <3>1 DEF At
    <3>3. req'[v].row.failed \in Nat
      BY <1>0, <2>1, <3>1, <3>2 DEF Request, UserRow
    <3>4. req'[v].row.failed + Cardinality(Counting(z)) <= logs[z].wrong
      BY <2>2, <3>1, <3>2 DEF EarnedInv, Earned, Held, At
    <3>5. req'[v].row.failed + Cardinality(Counting(z)') <= logs'[z].wrong
      BY <2>1, <3>3, <3>4
    <3>6. QED
      BY <3>1, <3>2, <3>5 DEF Held, Counting, Serving
  <2>3. ASSUME NEW u \in Users PROVE Earned(u)'
    <3>0. Earned(u)
      BY DEF EarnedInv
    <3>1. CASE users'[u] = users[u]
      BY <2>1, <3>0, <3>1, LockAssumption DEF Earned
    <3>2. CASE CountFailure(w) /\ users'[u] # users[u]
      <4> DEFINE n == req[w].row.failed + 1
      <4>1. /\ req[w].stage = "count" /\ req[w].user \in Users
            /\ req' = [req EXCEPT ![w] = NoRequest]
        BY <1>u, <3>2 DEF CountFailure, At, Answer
      <4>2. /\ u = req[w].user /\ users'[u].failed = n
            /\ \/ users'[u].status = users[u].status
               \/ MaxFailed <= n
        BY <1>0, <3>2, <4>1, LockAssumption DEF CountFailure, Flush, UserRow, Request
      <4>3. w \in Counting(u) /\ Counting(u)' = Counting(u) \ {w}
        BY <1>0, <4>1, <4>2 DEF Counting, Serving, NoRequest
      <4>4. Cardinality(Counting(u)) = Cardinality(Counting(u)') + 1
        BY <1>f, <4>3, OneLess
      <4>5. req[w].row.failed + Cardinality(Counting(u)) <= logs[u].wrong
        BY <4>1, <4>2 DEF EarnedInv, Held, At
      <4>6. req[w].row.failed \in Nat
        BY <1>0 DEF Request, UserRow
      <4>7. users'[u].failed + Cardinality(Counting(u)') <= logs'[u].wrong
        BY <2>1, <4>2, <4>4, <4>5, <4>6
      <4>8. n <= logs'[u].wrong
        BY <2>1, <4>4, <4>5, <4>6
      <4>9. users'[u].status = "LOCKED" => MaxFailed <= logs'[u].wrong
        BY <2>1, <3>0, <4>2, <4>6, <4>8, LockAssumption DEF Earned
      <4>10. QED
        BY <4>7, <4>9 DEF Earned
    <3>3. CASE OpenAccount(w) /\ users'[u] # users[u]
      <4>1. req[w].row \in UserRow /\ req[w].user \in Users
        BY <1>0, <1>u, <3>3 DEF OpenAccount, At, Request
      <4>2. /\ users'[u].failed \in {0, users[u].failed}
            /\ users'[u].status \in {"ACTIVE", users[u].status}
        BY <1>0, <3>3, <4>1 DEF OpenAccount, Flush, NewUser, UserRow
      <4>3. QED
        BY <2>1, <3>0, <4>2, LockAssumption DEF Earned
    <3>4. QED
      BY <1>3, <3>1, <3>2, <3>3, UsersKept DEF Step
  <2>4. QED
    BY <2>2, <2>3 DEF EarnedInv, Held
<1>4. QED
  BY <1>1, <1>2, <1>3 DEF Next, Tick, vars, Step

\* Whatever failures a second process loses, none is invented: an account that
\* is LOCKED had enough wrong passwords in its log.
THEOREM LocksEarned == IsFiniteSet(Workers) => (Spec => []LockEarned)
<1> SUFFICES ASSUME IsFiniteSet(Workers) PROVE Spec => []LockEarned
  OBVIOUS
<1>1. Init => EarnedInv
  <2> SUFFICES ASSUME Init PROVE EarnedInv
    OBVIOUS
  <2>1. ASSUME NEW u \in Users
        PROVE  /\ Counting(u) = {} /\ logs[u].wrong = 0 /\ users[u].failed = 0
               /\ users[u].status = "ACTIVE"
    BY <2>1 DEF Init, NoRequest, NewUser, Kinds, AttemptType, Counting, Serving
  <2>2. ASSUME NEW u \in Users PROVE Earned(u)
    <3>1. Counting(u) = {} /\ Cardinality({}) = 0
      BY <2>1, FS_EmptySet
    <3>2. Cardinality(Counting(u)) = 0
      BY <3>1
    <3>3. QED
      BY <2>1, <3>2 DEF Earned
  <2>3. ASSUME NEW w \in Workers PROVE Held(w)
    BY DEF Init, NoRequest, At, Held
  <2>4. QED
    BY <2>2, <2>3 DEF EarnedInv
<1>2. RequestInv /\ EarnedInv /\ [Next]_vars => EarnedInv'
  BY EarnedStep
<1>3. EarnedInv => LockEarned
  BY DEF EarnedInv, Earned, LockEarned, Counting
<1>4. QED
  BY <1>1, <1>2, <1>3, RequestInvariant, PTL DEF Spec

-------------------------------------------------------------------------------
\* While a logout waits for the session service it is about its own session, and
\* what has been answered without success is over, or could not be looked at.
Ending(w) ==
  /\ At(w, "validating") =>
       /\ \A t, x \in req[w].tokens : t = x
       /\ call[w].busy => call[w].op = "expire" /\ req[w].tokens \subseteq call[w].picked
       /\ ~call[w].busy /\ call[w].result # "ok"
            => req[w].tokens \cap S!Active = {} \/ AwareColumns
  /\ At(w, "revoking") =>
       /\ call[w].busy => call[w].op = "revoke" /\ req[w].tokens \subseteq call[w].picked
       /\ ~call[w].busy => req[w].tokens \cap S!Active = {}
LogoutInv == LogoutAnswersTrue /\ \A w \in Workers : Ending(w)

LEMMA LogoutStep ==
  ASSUME SingleWorker, RequestInv, LogoutInv, [Next]_vars
  PROVE  LogoutInv'
<1>0. /\ sessions \in [Tokens -> S!Row] /\ call \in [Workers -> S!Call]
      /\ req \in [Workers -> Request]
  BY DEF RequestInv, TypeOK, S!TypeOK
<1>1. CASE UNCHANGED vars
  BY <1>1 DEF vars, LogoutInv, LogoutAnswersTrue, Ending, At, S!Active
<1>2. CASE Tick
  BY <1>2 DEF Tick, S!Tick, Silence, LogoutInv, LogoutAnswersTrue, Ending, At, S!Active
<1>3. ASSUME NEW w \in Workers, Step(w) PROVE LogoutInv'
  <2>0. SUFFICES LogoutAnswersTrue' /\ Ending(w)'
    BY DEF SingleWorker, LogoutInv
  <2>1. Ending(w)
    BY DEF LogoutInv
  <2>a. ASSUME NEW stage, NEW u, NEW ts, NEW row, Load(w, stage, u, ts, row)
        PROVE  /\ req'[w].stage = stage /\ req'[w].tokens = ts
               /\ reply'.to # "logout"
    BY <1>0, <2>a DEF Load, Silence
  <2>b. ASSUME NEW to, NEW code, Answer(w, to, code)
        PROVE  /\ req'[w].stage = "idle" /\ reply'.to = to
               /\ reply'.tokens = req[w].tokens /\ reply'.code = code
    BY <1>0, <2>b DEF Answer, NoRequest
  <2>c. ASSUME NEW stage, GoTo(w, stage)
        PROVE  /\ req'[w].stage = stage /\ req'[w].tokens = req[w].tokens
               /\ reply'.to # "logout"
    BY <1>0, <2>c DEF GoTo, Silence, Request
  <2>3. ASSUME NEW t \in Tokens, Logout(w, t)
        PROVE  LogoutAnswersTrue' /\ Ending(w)'
    <3>1. /\ S!ValidateSession(w, t, "validate") /\ req'[w].stage = "validating"
          /\ req'[w].tokens = {t} /\ reply'.to # "logout"
      BY <2>3, <2>a DEF Logout
    <3>2. /\ call'[w].busy => call'[w].op = "expire" /\ t \in call'[w].picked
          /\ ~call'[w].busy /\ call'[w].result # "ok" => t \notin S!Active \/ AwareColumns
          /\ sessions' = sessions
      BY <1>0, <3>1 DEF S!ValidateSession, S!Await, S!Return
    <3>3. QED
      BY <3>1, <3>2 DEF LogoutAnswersTrue, Ending, At, S!Active
  <2>4. CASE LogoutRevoke(w)
    <3>1. PICK t \in req[w].tokens : S!RevokeSession(w, t)
      BY <2>4 DEF LogoutRevoke
    <3>2. /\ req'[w].stage = "revoking" /\ req'[w].tokens = req[w].tokens
          /\ reply'.to # "logout"
      BY <2>4, <2>c DEF LogoutRevoke
    <3>3. QED
      BY <1>0, <2>1, <2>4, <3>1, <3>2
         DEF LogoutRevoke, S!RevokeSession, S!Await, S!Return, LogoutAnswersTrue,
             Ending, At, S!Active
  <2>5. CASE LogoutFails(w) \/ LogLogout(w)
    <3>1. /\ req'[w].stage = "idle" /\ reply'.tokens = req[w].tokens
          /\ \/ req[w].tokens \cap S!Active = {}
             \/ AwareColumns /\ reply'.code = 500
      BY <2>1, <2>5, <2>b DEF LogoutFails, LogLogout, Ending, S!Free
    <3>2. sessions' = sessions
      BY <2>5 DEF LogoutFails, LogLogout, Answer, S!Forget
    <3>3. QED
      BY <3>1, <3>2 DEF LogoutAnswersTrue, Ending, At, S!Active
  <2>6. CASE ServiceStep(w)
    <3>1. /\ S!Continue(w) /\ req' = req /\ reply'.to # "logout"
      BY <2>6 DEF ServiceStep, Silence
    <3>2. CASE At(w, "validating")
      <4>1. S!CommitExpire(w)
        BY <2>1, <3>1, <3>2 DEF Ending, S!Continue, S!Waiting, S!CommitRevoke,
           S!CommitCleanup, S!ScanNext, S!CommitScan, S!CommitExtend, S!CommitVerify
      <4>2. QED
        BY <1>0, <2>1, <3>1, <3>2, <4>1
           DEF Ending, At, S!CommitExpire, S!Waiting, S!SetStatus, S!Return,
               S!Active, S!Row, LogoutAnswersTrue
    <3>3. CASE At(w, "revoking")
      <4>1. S!CommitRevoke(w)
        BY <2>1, <3>1, <3>3 DEF Ending, S!Continue, S!Waiting, S!CommitExpire,
           S!CommitCleanup, S!ScanNext, S!CommitScan, S!CommitExtend, S!CommitVerify
      <4>2. QED
        BY <1>0, <2>1, <3>1, <3>3, <4>1
           DEF Ending, At, S!CommitRevoke, S!Waiting, S!SetStatus, S!Return,
               S!Active, S!Row, LogoutAnswersTrue
    <3>4. CASE ~At(w, "validating") /\ ~At(w, "revoking")
      BY <3>1, <3>4 DEF Ending, At, LogoutAnswersTrue
    <3>5. QED
      BY <3>2, <3>3, <3>4
  <2>7. CASE Receive(w) /\ \A t \in Tokens : ~Logout(w, t)
    <3>1. /\ req'[w].stage \in {"idle", "logUnknown", "logWrong", "logRefused", "open",
                                "managing"}
          /\ reply'.to # "logout"
      BY <2>7, <2>a, <2>b DEF Receive, LoginUnknown, LoginWrong, LoginRight,
         ManageSessions
    <3>2. QED
      BY <3>1 DEF LogoutAnswersTrue, Ending, At
  <2>8. CASE Crash(w)
    <3>1. req'[w].stage = "idle" /\ reply'.to # "logout"
      BY <1>0, <2>8 DEF Crash, NoRequest, Silence
    <3>2. QED
      BY <3>1 DEF LogoutAnswersTrue, Ending, At
  <2>9. CASE \/ LogUnknown(w) \/ LogWrong(w) \/ ReloadUser(w) \/ CountFailure(w)
             \/ LogRefused(w) \/ OpenAccount(w) \/ StartSession(w) \/ LogLogin(w)
             \/ ManageDone(w)
    <3>1. /\ req'[w].stage \in {"idle", "reload", "count", "create", "logLogin"}
          /\ reply'.to # "logout"
      BY <2>9, <2>a, <2>b, <2>c DEF LogUnknown, LogWrong, ReloadUser, CountFailure,
         LogRefused, OpenAccount, StartSession, LogLogin, ManageDone
    <3>2. QED
      BY <3>1 DEF LogoutAnswersTrue, Ending, At
  <2>10. QED
    BY <1>3, <2>3, <2>4, <2>5, <2>6, <2>7, <2>8, <2>9 DEF Step, Serve
<1>4. QED
  BY <1>1, <1>2, <1>3 DEF Next, Step

\* With one worker a session is over when its logout is answered, but for one
\* whose expires_at cannot be compared, and then the answer is 500.
THEOREM LogoutEnds == SingleWorker => (Spec => []LogoutAnswersTrue)
<1> SUFFICES ASSUME SingleWorker PROVE Spec => []LogoutAnswersTrue
  OBVIOUS
<1>1. Init => LogoutInv
  BY DEF Init, NoRequest, Silence, LogoutInv, LogoutAnswersTrue, Ending, At
<1>2. RequestInv /\ LogoutInv /\ [Next]_vars => LogoutInv'
  BY LogoutStep
<1>3. LogoutInv => LogoutAnswersTrue
  BY DEF LogoutInv
<1>4. QED
  BY <1>1, <1>2, <1>3, RequestInvariant, PTL DEF Spec

-------------------------------------------------------------------------------
\* Nobody is told of a logout that did not happen, whatever the other workers do
\* between the look at the session, the commit of its end and the answer.
ToldEnded ==
  reply.to = "logout" /\ reply.code = 200 => reply.tokens \cap S!Active = {}

\* A logout that goes on to log itself has ended its session, and a session that
\* ended is not opened again.
Revoking(w) ==
  /\ At(w, "validating") => \A t, x \in req[w].tokens : t = x
  /\ At(w, "revoking") /\ call[w].busy =>
       call[w].op = "revoke" /\ req[w].tokens \subseteq call[w].picked
  /\ At(w, "revoking") /\ ~call[w].busy /\ call[w].result = "ok" =>
       \A t \in req[w].tokens : sessions[t].status \notin {"NONE", "ACTIVE"}
ToldInv == ToldEnded /\ \A w \in Workers : Revoking(w)

\* A call of the session service belongs to the worker that made it.
LEMMA CallsKept ==
  ASSUME RequestInv, NEW w \in Workers, Step(w), NEW v \in Workers \ {w}
  PROVE  call'[v] = call[v]
<1> DEFINE Kept == call'[v] = call[v]
<1>0. call \in [Workers -> S!Call]
  BY DEF RequestInv, TypeOK, S!TypeOK
<1>1. ASSUME NEW op, NEW ts, S!Await(w, op, ts) PROVE Kept
  BY <1>0, <1>1 DEF S!Await
<1>2. ASSUME NEW op, NEW ts, NEW n, NEW result, S!Return(w, op, ts, n, result)
      PROVE  Kept
  BY <1>0, <1>2 DEF S!Return
<1>3. S!Forget(w) \/ S!Abort(w) \/ call' = call => Kept
  BY <1>0, <1>2 DEF S!Forget, S!Abort
<1>4. CASE ServiceStep(w)
  BY <1>0, <1>2, <1>4 DEF ServiceStep, S!Continue, S!CommitExpire, S!CommitRevoke,
     S!CommitCleanup, S!ScanNext, S!CommitScan, S!CommitExtend, S!CommitVerify
<1>5. CASE Receive(w)
  BY <1>0, <1>1, <1>2, <1>3, <1>5 DEF Receive, LoginUnknown, LoginWrong, LoginRight,
     Logout, ManageSessions, Answer, sessionVars, S!ValidateSession,
     S!CleanupExpired, S!RevokeSessions
<1>6. CASE Serve(w) /\ ~ServiceStep(w)
  BY <1>1, <1>2, <1>3, <1>6 DEF Serve, LogUnknown, LogWrong, ReloadUser,
     CountFailure, LogRefused, OpenAccount, StartSession, LogLogin, LogoutRevoke,
     LogoutFails, LogLogout, ManageDone, Answer, sessionVars, S!CreateSession,
     S!RevokeSession
<1>7. CASE Crash(w)
  BY <1>3, <1>7 DEF Crash
<1>8. QED
  BY <1>4, <1>5, <1>6, <1>7 DEF Step

\* A session that has ended stays so.
LEMMA EndedKept ==
  ASSUME RequestInv, NEW w \in Workers, Step(w), NEW t \in Tokens,
         sessions[t].status \notin {"NONE", "ACTIVE"}
  PROVE  sessions'[t].status \notin {"NONE", "ACTIVE"}
<1>1. CASE StartSession(w)
  BY <1>1, OpensOne
<1>2. CASE ~StartSession(w)
  BY <1>2, RowsKept
<1>3. QED
  BY <1>1, <1>2

\* What the worker that steps does to its own logout.
LEMMA RevokingStep ==
  ASSUME RequestInv, NEW w \in Workers, Revoking(w), Step(w)
  PROVE  Revoking(w)'
<1>0. /\ sessions \in [Tokens -> S!Row] /\ call \in [Workers -> S!Call]
      /\ req \in [Workers -> Request]
  BY DEF RequestInv, TypeOK, S!TypeOK
<1>a. ASSUME NEW stage, NEW u, NEW ts, NEW row, Load(w, stage, u, ts, row)
      PROVE  req'[w].stage = stage /\ req'[w].tokens = ts
  BY <1>0, <1>a DEF Load
<1>b. ASSUME NEW to, NEW code, Answer(w, to, code) PROVE req'[w].stage = "idle"
  BY <1>0, <1>b DEF Answer, NoRequest
<1>c. ASSUME NEW stage, GoTo(w, stage)
      PROVE  req'[w].stage = stage /\ req'[w].tokens = req[w].tokens
  BY <1>0, <1>c DEF GoTo, Request
<1>1. ASSUME NEW t \in Tokens, Logout(w, t) PROVE Revoking(w)'
  BY <1>1, <1>a DEF Logout, Revoking, At
<1>2. CASE LogoutRevoke(w)
  <2>1. PICK t \in req[w].tokens : S!RevokeSession(w, t)
    BY <1>2 DEF LogoutRevoke
  <2>2. /\ req'[w].stage = "revoking" /\ req'[w].tokens = req[w].tokens
        /\ \A x \in req[w].tokens : x = t
    BY <1>2, <1>c DEF LogoutRevoke, Revoking, At
  <2>3. QED
    BY <1>0, <2>1, <2>2 DEF S!RevokeSession, S!Await, S!Return, Revoking, At
<1>3. CASE ServiceStep(w)
  <2>1. S!Continue(w) /\ req' = req
    BY <1>3 DEF ServiceStep
  <2>2. CASE At(w, "revoking")
    <3>1. S!CommitRevoke(w)
      BY <2>1, <2>2 DEF Revoking, S!Continue, S!Waiting, S!CommitExpire,
         S!CommitRevoke, S!CommitCleanup, S!ScanNext, S!CommitScan,
         S!CommitExtend, S!CommitVerify
    <3>2. req[w].tokens \subseteq call[w].picked /\ req[w].tokens \subseteq Tokens
      BY <1>0, <2>2, <3>1 DEF Revoking, S!CommitRevoke, S!Waiting, Request
    <3>3. \A t \in req[w].tokens : sessions'[t].status = "REVOKED"
      BY <1>0, <3>1, <3>2 DEF S!CommitRevoke, S!SetStatus, S!Row
    <3>4. ~call'[w].busy
      BY <1>0, <3>1 DEF S!CommitRevoke, S!Return
    <3>5. QED
      BY <2>1, <2>2, <3>3, <3>4 DEF Revoking, At
  <2>3. CASE ~At(w, "revoking")
    BY <2>1, <2>3 DEF Revoking, At
  <2>4. QED
    BY <2>2, <2>3
<1>4. CASE Receive(w) /\ \A t \in Tokens : ~Logout(w, t)
  <2>1. req'[w].stage \in {"idle", "logUnknown", "logWrong", "logRefused", "open",
                           "managing"}
    BY <1>4, <1>a, <1>b DEF Receive, LoginUnknown, LoginWrong, LoginRight,
       ManageSessions
  <2>2. QED
    BY <2>1 DEF Revoking, At
<1>5. CASE Crash(w)
  BY <1>0, <1>5 DEF Crash, NoRequest, Revoking, At
<1>6. CASE Serve(w) /\ ~ServiceStep(w) /\ ~LogoutRevoke(w)
  <2>1. req'[w].stage \in {"idle", "reload", "count", "create", "logLogin"}
    BY <1>6, <1>a, <1>b, <1>c DEF Serve, LogUnknown, LogWrong, ReloadUser,
       CountFailure, LogRefused, OpenAccount, StartSession, LogLogin, LogoutFails,
       LogLogout, ManageDone
  <2>2. QED
    BY <2>1 DEF Revoking, At
<1>7. QED
  BY <1>1, <1>2, <1>3, <1>4, <1>5, <1>6 DEF Step, Receive

\* Only LogLogout answers a logout with 200.
LEMMA OnlyLogLogout ==
  ASSUME NEW w \in Workers, Step(w), ~LogLogout(w)
  PROVE  ~(reply'.to = "logout" /\ reply'.code = 200)
<1> DEFINE Other == ~(reply'.to = "logout" /\ reply'.code = 200)
<1>1. reply' = Silence => Other
  BY DEF Silence
<1>2. ASSUME NEW to, NEW code, Answer(w, to, code), to # "logout" \/ code # 200
      PROVE  Other
  BY <1>2 DEF Answer
<1>3. CASE Receive(w)
  BY <1>1, <1>2, <1>3 DEF Receive, LoginUnknown, LoginWrong, LoginRight, Logout,
     ManageSessions, Load
<1>4. CASE Serve(w)
  BY <1>1, <1>2, <1>4 DEF Serve, LogUnknown, LogWrong, ReloadUser, CountFailure,
     LogRefused, OpenAccount, StartSession, LogLogin, LogoutRevoke, LogoutFails,
     ServiceStep, ManageDone, Load, GoTo
<1>5. CASE Crash(w)
  BY <1>1, <1>5 DEF Crash
<1>6. QED
  BY <1>3, <1>4, <1>5 DEF Step

LEMMA ToldStep ==
  ASSUME RequestInv, ToldInv, [Next]_vars
  PROVE  ToldInv'
<1>1. CASE UNCHANGED vars
  BY <1>1 DEF vars, ToldInv, ToldEnded, Revoking, At, S!Active
<1>2. CASE Tick
  BY <1>2 DEF Tick, S!Tick, Silence, ToldInv, ToldEnded, Revoking, At
<1>3. ASSUME NEW w \in Workers, Step(w) PROVE ToldInv'
  <2>1. ASSUME NEW v \in Workers PROVE Revoking(v)'
    <3>1. Revoking(v)
      BY DEF ToldInv
    <3>2. CASE v = w
      BY <1>3, <3>1, <3>2, RevokingStep
    <3>3. CASE v # w
      <4>1. req'[v] = req[v] /\ call'[v] = call[v] /\ req[v].tokens \subseteq Tokens
        BY <1>3, <3>3, Moves, CallsKept DEF RequestInv, TypeOK, Request
      <4>2. QED
        BY <1>3, <3>1, <4>1, EndedKept DEF Revoking, At
    <3>4. QED
      BY <3>2, <3>3
  <2>2. ToldEnded'
    <3>1. CASE LogLogout(w)
      <4>1. /\ reply'.tokens = req[w].tokens /\ sessions' = sessions
            /\ req[w].stage = "revoking" /\ ~call[w].busy /\ call[w].result = "ok"
        BY <3>1 DEF LogLogout, At, S!Free, Answer, S!Forget
      <4>2. \A t \in req[w].tokens : sessions[t].status # "ACTIVE"
        BY <4>1 DEF ToldInv, Revoking, At
      <4>3. QED
        BY <4>1, <4>2 DEF ToldEnded, S!Active
    <3>2. CASE ~LogLogout(w)
      BY <1>3, <3>2, OnlyLogLogout DEF ToldEnded
    <3>3. QED
      BY <3>1, <3>2
  <2>3. QED
    BY <2>1, <2>2 DEF ToldInv
<1>4. QED
  BY <1>1, <1>2, <1>3 DEF Next, Step

\* For any number of workers and either kind of column: a logout answered 200
\* has ended its session.
THEOREM LogoutTold == Spec => []ToldEnded
<1>1. Init => ToldInv
  BY DEF Init, NoRequest, Silence, ToldInv, ToldEnded, Revoking, At
<1>2. RequestInv /\ ToldInv /\ [Next]_vars => ToldInv'
  BY ToldStep
<1>3. ToldInv => ToldEnded
  BY DEF ToldInv
<1>4. QED
  BY <1>1, <1>2, <1>3, RequestInvariant, PTL DEF Spec
===============================================================================
