------------------------- MODULE AuthenticationProofs -------------------------
(***************************************************************************)
(* Theorems about login and logout: the requests use the session service   *)
(* only as it may be used, so what SessionsProofs proves of the service    *)
(* holds of the server, for any number of workers, users and tokens.       *)
(***************************************************************************)
EXTENDS Authentication, TLAPS

\* The theorems of the session service, about the state of Authentication.
P == INSTANCE SessionsProofs

\* S and P are two instances of one module: an operation of one is the same
\* operation of the other.
LEMMA SameSets ==
  /\ \A X : S!Cardinality(X) = P!Cardinality(X)
  /\ S!IdLists = P!IdLists /\ S!Active = P!Active /\ S!Overdue = P!Overdue
  /\ P!IsFiniteSet(Tokens)
<1>1. P!IsFiniteSet(Tokens)
  BY SessionsAssumption DEF P!IsFiniteSet, IsFiniteSet
<1>2. QED
  BY <1>1 DEF S!Cardinality, P!Cardinality, S!IdLists, P!IdLists, S!Active,
     P!Active, S!Overdue, P!Overdue

LEMMA SameBegin ==
  ASSUME NEW w, S!Begin(w)
  PROVE  P!Begin(w)
<1> USE SameSets DEF S!Free, P!Free, S!Await, P!Await, S!Return, P!Return
<1>1. ASSUME NEW u, S!CreateSession(w, u) PROVE P!CreateSession(w, u)
  BY <1>1 DEF S!CreateSession, P!CreateSession
<1>2. ASSUME NEW t, NEW then, S!ValidateSession(w, t, then)
      PROVE  P!ValidateSession(w, t, then)
  BY <1>2 DEF S!ValidateSession, P!ValidateSession
<1>3. ASSUME NEW t, S!RevokeSession(w, t) PROVE P!RevokeSession(w, t)
  BY <1>3 DEF S!RevokeSession, P!RevokeSession
<1>4. ASSUME NEW u, NEW keep, S!RevokeUserSessions(w, u, keep)
      PROVE  P!RevokeUserSessions(w, u, keep)
  BY <1>4 DEF S!RevokeUserSessions, P!RevokeUserSessions
<1>5. S!CleanupExpired(w) => P!CleanupExpired(w)
  BY DEF S!CleanupExpired, P!CleanupExpired
<1>6. ASSUME NEW ids, S!RevokeSessions(w, ids) PROVE P!RevokeSessions(w, ids)
  BY <1>6 DEF S!RevokeSessions, P!RevokeSessions
<1>7. QED
  BY <1>1, <1>2, <1>3, <1>4, <1>5, <1>6 DEF S!Begin, P!Begin

LEMMA SameContinue ==
  ASSUME NEW w, S!Continue(w)
  PROVE  P!Continue(w)
<1> USE SameSets DEF S!Waiting, P!Waiting, S!SetStatus, P!SetStatus, S!Return,
                     P!Return
<1>1. S!CommitExpire(w) => P!CommitExpire(w)
  BY DEF S!CommitExpire, P!CommitExpire
<1>2. S!CommitRevoke(w) => P!CommitRevoke(w)
  BY DEF S!CommitRevoke, P!CommitRevoke
<1>3. S!CommitCleanup(w) => P!CommitCleanup(w)
  BY DEF S!CommitCleanup, P!CommitCleanup
<1>4. S!ScanNext(w) => P!ScanNext(w)
  BY DEF S!ScanNext, P!ScanNext
<1>5. S!CommitScan(w) => P!CommitScan(w)
  BY DEF S!CommitScan, P!CommitScan
<1>6. S!CommitExtend(w) => P!CommitExtend(w)
  BY DEF S!CommitExtend, P!CommitExtend
<1>7. S!CommitVerify(w) => P!CommitVerify(w)
  BY DEF S!CommitVerify, P!CommitVerify
<1>8. QED
  BY <1>1, <1>2, <1>3, <1>4, <1>5, <1>6, <1>7 DEF S!Continue, P!Continue

LEMMA SameService ==
  /\ S!Init => P!Init
  /\ [S!Next]_(S!vars) => [P!Next]_(P!vars)
  /\ P!TypeOK <=> S!TypeOK
  /\ P!TypeOK' <=> S!TypeOK'
<1>1. S!Init => P!Init
  BY DEF S!Init, P!Init, S!NoRow, P!NoRow, S!NoCall, P!NoCall
<1>2. S!Next => P!Next
  <2>1. S!Tick => P!Tick
    BY DEF S!Tick, P!Tick
  <2>2. ASSUME NEW w PROVE /\ S!Forget(w) => P!Forget(w)
                           /\ S!Abort(w) => P!Abort(w)
    BY DEF S!Forget, P!Forget, S!Free, P!Free, S!NoCall, P!NoCall, S!Abort,
           P!Abort, S!Return, P!Return
  <2>3. QED
    BY <2>1, <2>2, SameBegin, SameContinue DEF S!Next, P!Next
<1>3. [S!Next]_(S!vars) => [P!Next]_(P!vars)
  BY <1>2 DEF S!vars, P!vars
<1>4. (P!TypeOK <=> S!TypeOK) /\ (P!TypeOK' <=> S!TypeOK')
  BY DEF S!TypeOK, P!TypeOK, S!Row, P!Row, S!Statuses, P!Statuses, S!Call,
         P!Call, S!Ops, P!Ops, S!Results, P!Results
<1>5. QED
  BY <1>1, <1>3, <1>4

-------------------------------------------------------------------------------
\* A request in one of these stages is a login of a user that exists; without
\* this a log row or a session could be written for nobody.
LoginStages == {"logWrong", "reload", "count", "logRefused", "open", "create",
                "logLogin"}
Addressed(w) == req[w].stage \in LoginStages => req[w].user \in Users
RequestInv == TypeOK /\ \A w \in Workers : Addressed(w)

\* What Load, GoTo, Answer and Log write is well typed.
LEMMA LoadTyped ==
  ASSUME RequestInv, NEW w \in Workers, NEW stage \in Stages,
         NEW u \in Users \cup {NoUser}, NEW ts \in SUBSET Tokens,
         NEW row \in UserRow, Load(w, stage, u, ts, row),
         stage \in LoginStages => u \in Users
  PROVE  /\ req' \in [Workers -> Request] /\ reply' \in Reply
         /\ \A v \in Workers : Addressed(v)'
  BY DEF RequestInv, TypeOK, Load, Request, Reply, Silence, Addressed

LEMMA GoToTyped ==
  ASSUME RequestInv, NEW w \in Workers, NEW stage \in Stages, GoTo(w, stage),
         stage \in LoginStages => req[w].user \in Users
  PROVE  /\ req' \in [Workers -> Request] /\ reply' \in Reply
         /\ \A v \in Workers : Addressed(v)'
  BY DEF RequestInv, TypeOK, GoTo, Request, Reply, Silence, Addressed

LEMMA AnswerTyped ==
  ASSUME RequestInv, NEW w \in Workers, NEW to \in {"login", "logout", "manage"},
         NEW code \in {200, 401, 423, 500}, Answer(w, to, code)
  PROVE  /\ req' \in [Workers -> Request] /\ reply' \in Reply
         /\ \A v \in Workers : Addressed(v)'
  BY DEF RequestInv, TypeOK, Answer, Request, Reply, NoRequest, NewUser, UserRow,
         Stages, LoginStages, Addressed

LEMMA LogTyped ==
  ASSUME TypeOK, NEW u \in Users \cup {NoUser}, NEW k \in Kinds, Log(u, k)
  PROVE  logs' \in [Users \cup {NoUser} -> [Kinds -> Nat]]
  BY DEF TypeOK, Log

\* Every step is a step of the session service, or leaves it alone.
LEMMA SessionStep ==
  RequestInv /\ [Next]_vars => [S!Next]_(S!vars)
<1> SUFFICES ASSUME RequestInv, [Next]_vars PROVE [S!Next]_(S!vars)
  OBVIOUS
<1>0. sessionVars = S!vars
  BY DEF sessionVars, S!vars
<1>1. CASE UNCHANGED vars
  BY <1>1 DEF vars, S!vars
<1>2. CASE Tick
  BY <1>2 DEF Tick, S!Next
<1>3. ASSUME NEW w \in Workers, S!Begin(w) \/ S!Continue(w) \/ S!Forget(w) \/ S!Abort(w)
      PROVE  S!Next
  BY <1>3 DEF S!Next
<1>4. ASSUME NEW w \in Workers, Receive(w) PROVE [S!Next]_(S!vars)
  <2>1. ASSUME NEW t \in Tokens, Logout(w, t) PROVE S!Begin(w)
    BY <2>1 DEF Logout, S!Begin
  <2>2. CASE ManageSessions(w)
    BY <2>2, <1>3 DEF ManageSessions, S!Begin
  <2>3. ASSUME NEW u \in Users, LoginRight(w, u) PROVE [S!Next]_(S!vars)
    BY <2>3, <1>3 DEF LoginRight, Answer, sessionVars, S!vars
  <2>4. ASSUME NEW u \in Users, LoginWrong(w, u) PROVE [S!Next]_(S!vars)
    BY <2>4 DEF LoginWrong, sessionVars, S!vars
  <2>5. CASE LoginUnknown(w)
    BY <2>5 DEF LoginUnknown, sessionVars, S!vars
  <2>6. QED
    BY <1>3, <1>4, <2>1, <2>2, <2>3, <2>4, <2>5 DEF Receive
<1>5. ASSUME NEW w \in Workers, Serve(w) PROVE [S!Next]_(S!vars)
  <2>1. ASSUME NEW to, NEW code, Answer(w, to, code) PROVE S!Next
    BY <1>3, <2>1 DEF Answer
  <2>2. CASE \/ LogUnknown(w) \/ CountFailure(w) \/ LogRefused(w)
             \/ LogLogin(w) \/ LogoutFails(w) \/ LogLogout(w) \/ ManageDone(w)
    BY <2>1, <2>2 DEF LogUnknown, CountFailure, LogRefused, LogLogin,
                      LogoutFails, LogLogout, ManageDone
  <2>3. CASE LogWrong(w) \/ ReloadUser(w) \/ OpenAccount(w)
    BY <2>3 DEF LogWrong, ReloadUser, OpenAccount, sessionVars, S!vars
  <2>4. CASE StartSession(w)
    <3>1. req[w].user \in Users
      BY <2>4 DEF StartSession, At, RequestInv, Addressed, LoginStages
    <3>2. S!Begin(w)
      BY <2>4, <3>1 DEF StartSession, S!Begin
    <3>3. QED
      BY <1>3, <3>2
  <2>5. CASE LogoutRevoke(w)
    <3>1. req[w].tokens \in SUBSET Tokens
      BY DEF RequestInv, TypeOK, Request
    <3>2. S!Begin(w)
      BY <2>5, <3>1 DEF LogoutRevoke, S!Begin
    <3>3. QED
      BY <1>3, <3>2
  <2>6. CASE ServiceStep(w)
    BY <1>3, <2>6 DEF ServiceStep
  <2>7. QED
    BY <1>5, <2>2, <2>3, <2>4, <2>5, <2>6 DEF Serve
<1>6. ASSUME NEW w \in Workers, Crash(w) PROVE S!Next
  BY <1>3, <1>6 DEF Crash
<1>7. QED
  BY <1>1, <1>2, <1>4, <1>5, <1>6 DEF Next

\* Every step keeps the types and serves only users that exist.
LEMMA RequestStep ==
  RequestInv /\ [Next]_vars => RequestInv'
<1> SUFFICES ASSUME RequestInv, [Next]_vars PROVE RequestInv'
  OBVIOUS
<1> DEFINE Typed == /\ req' \in [Workers -> Request] /\ reply' \in Reply
                    /\ \A v \in Workers : Addressed(v)'
           Kept == /\ users' \in [Users -> UserRow]
                   /\ logs' \in [Users \cup {NoUser} -> [Kinds -> Nat]]
                   /\ streak' \in [Users -> Nat]
                   /\ crashes' \in Nat
<1>0. TypeOK /\ S!TypeOK' /\ S!TypeOK
  <2>1. TypeOK /\ S!TypeOK
    BY DEF RequestInv, TypeOK
  <2>2. [S!Next]_(S!vars)
    BY SessionStep
  <2>3. P!TypeOK /\ [P!Next]_(P!vars)
    BY <2>1, <2>2, SameService
  <2>4. P!TypeOK'
    BY <2>3, P!StepTyped, SameSets, SessionsAssumption
  <2>5. QED
    BY <2>1, <2>4, SameService
<1>r. \A w \in Workers :
        /\ req[w].user \in Users \cup {NoUser} /\ req[w].row \in UserRow
        /\ req[w].tokens \in SUBSET Tokens
  BY DEF RequestInv, TypeOK, Request
<1>n. NewUser \in UserRow /\ NoUser \in Users \cup {NoUser}
  BY DEF NewUser, UserRow
<1>k. UNCHANGED <<users, logs, streak, crashes>> => Kept
  BY <1>0 DEF TypeOK
<1>1. CASE UNCHANGED vars
  BY <1>0, <1>1, <1>k DEF vars, RequestInv, TypeOK, Addressed
<1>2. CASE Tick
  BY <1>0, <1>2, <1>k
     DEF Tick, RequestInv, TypeOK, Addressed, Silence, Reply
<1>3. ASSUME NEW w \in Workers, Receive(w) PROVE Typed /\ Kept
  <2>1. ASSUME NEW u \in Users, LoginRight(w, u) PROVE Typed /\ Kept
    <3>1. users[u] \in UserRow
      BY <1>0 DEF TypeOK
    <3>2. Typed
      <4>1. CASE Answer(w, "login", 500)
        BY <4>1, AnswerTyped
      <4>2. CASE Load(w, "logRefused", u, {}, NewUser)
        BY <4>2, <1>n, LoadTyped DEF Stages
      <4>3. CASE Load(w, "open", u, {}, users[u])
        BY <4>3, <3>1, LoadTyped DEF Stages
      <4>4. QED
        BY <2>1, <4>1, <4>2, <4>3 DEF LoginRight
    <3>3. QED
      BY <2>1, <3>2, <1>k DEF LoginRight
  <2>2. ASSUME NEW u \in Users, LoginWrong(w, u) PROVE Typed /\ Kept
    <3>1. Typed
      BY <2>2, <1>n, LoadTyped DEF LoginWrong, Stages
    <3>2. QED
      BY <2>2, <3>1, <1>k DEF LoginWrong
  <2>3. CASE LoginUnknown(w)
    <3>1. Typed
      BY <2>3, <1>n, LoadTyped DEF LoginUnknown, Stages, LoginStages
    <3>2. QED
      BY <2>3, <3>1, <1>k DEF LoginUnknown
  <2>4. ASSUME NEW t \in Tokens, Logout(w, t) PROVE Typed /\ Kept
    <3>1. Typed
      BY <2>4, <1>n, LoadTyped DEF Logout, Stages, LoginStages
    <3>2. QED
      BY <2>4, <3>1, <1>k DEF Logout
  <2>5. CASE ManageSessions(w)
    <3>1. Typed
      BY <2>5, <1>n, LoadTyped DEF ManageSessions, Stages, LoginStages
    <3>2. QED
      BY <2>5, <3>1, <1>k DEF ManageSessions
  <2>6. QED
    BY <1>3, <2>1, <2>2, <2>3, <2>4, <2>5 DEF Receive
<1>4. ASSUME NEW w \in Workers, Serve(w) PROVE Typed /\ Kept
  <2>0. /\ At(w, "logWrong") \/ At(w, "reload") \/ At(w, "count")
             \/ At(w, "open") \/ At(w, "create")
          => req[w].user \in Users
        /\ {"login", "logout", "lock", "unknown", "wrong", "refused"} = Kinds
    BY DEF RequestInv, Addressed, At, LoginStages, Kinds, AttemptType
  <2>1. ASSUME UNCHANGED <<users, streak, crashes>>,
               logs' \in [Users \cup {NoUser} -> [Kinds -> Nat]]
        PROVE  Kept
    BY <1>0, <2>1 DEF TypeOK
  <2>2. CASE LogUnknown(w) \/ LogRefused(w) \/ LogLogin(w)
    <3>1. CASE LogUnknown(w)
      <4>1. /\ Answer(w, "login", 401) /\ Log(NoUser, "unknown")
            /\ UNCHANGED <<users, streak, crashes>>
        BY <3>1 DEF LogUnknown
      <4>2. NoUser \in Users \cup {NoUser} /\ "unknown" \in Kinds
        BY <2>0
      <4>3. logs' \in [Users \cup {NoUser} -> [Kinds -> Nat]]
        BY <1>0, <4>1, <4>2, LogTyped
      <4>4. Typed
        BY <4>1, AnswerTyped
      <4>5. QED
        BY <2>1, <4>1, <4>3, <4>4
    <3>2. CASE LogRefused(w)
      <4>1. /\ Answer(w, "login", 423) /\ Log(req[w].user, "refused")
            /\ UNCHANGED <<users, streak, crashes>>
        BY <3>2 DEF LogRefused
      <4>2. req[w].user \in Users \cup {NoUser} /\ "refused" \in Kinds
        BY <1>r, <2>0
      <4>3. logs' \in [Users \cup {NoUser} -> [Kinds -> Nat]]
        BY <1>0, <4>1, <4>2, LogTyped
      <4>4. Typed
        BY <4>1, AnswerTyped
      <4>5. QED
        BY <2>1, <4>1, <4>3, <4>4
    <3>3. CASE LogLogin(w)
      <4>1. /\ Answer(w, "login", 200) /\ Log(req[w].user, "login")
            /\ UNCHANGED <<users, streak, crashes>>
        BY <3>3 DEF LogLogin
      <4>2. req[w].user \in Users \cup {NoUser} /\ "login" \in Kinds
        BY <1>r, <2>0
      <4>3. logs' \in [Users \cup {NoUser} -> [Kinds -> Nat]]
        BY <1>0, <4>1, <4>2, LogTyped
      <4>4. Typed
        BY <4>1, AnswerTyped
      <4>5. QED
        BY <2>1, <4>1, <4>3, <4>4
    <3>4. QED
      BY <2>2, <3>1, <3>2, <3>3
  <2>3. CASE LogoutFails(w) \/ ManageDone(w)
    <3>1. /\ Answer(w, "logout", 500) \/ Answer(w, "manage", 200)
          /\ UNCHANGED <<users, logs, streak, crashes>>
      BY <2>3 DEF LogoutFails, ManageDone
    <3>2. Typed
      BY <3>1, AnswerTyped
    <3>3. QED
      BY <1>k, <3>1, <3>2
  <2>4. CASE LogLogout(w)
    <3> PICK t \in req[w].tokens : Log(sessions[t].user, "logout")
      BY <2>4 DEF LogLogout
    <3>1. sessions[t].user \in Users \cup {NoUser} /\ "logout" \in Kinds
      BY <1>0, <1>r, <2>0 DEF S!TypeOK, S!Row
    <3>2. logs' \in [Users \cup {NoUser} -> [Kinds -> Nat]]
      BY <1>0, <3>1, LogTyped
    <3>3. Answer(w, "logout", 200) /\ UNCHANGED <<users, streak, crashes>>
      BY <2>4 DEF LogLogout
    <3>4. Typed
      BY <3>3, AnswerTyped
    <3>5. QED
      BY <2>1, <3>2, <3>3, <3>4
  <2>5. CASE LogWrong(w)
    <3>1. Typed
      BY <2>0, <2>5, GoToTyped DEF LogWrong, Stages
    <3>2. Kept
      BY <1>0, <2>0, <2>5, LogTyped DEF LogWrong, TypeOK
    <3>3. QED
      BY <3>1, <3>2
  <2>6. CASE ReloadUser(w)
    <3>1. users[req[w].user] \in UserRow
      BY <1>0, <2>0, <2>6 DEF ReloadUser, TypeOK
    <3>2. Typed
      BY <2>0, <2>6, <3>1, LoadTyped DEF ReloadUser, Stages
    <3>3. QED
      BY <2>6, <3>2, <1>k DEF ReloadUser
  <2>7. CASE CountFailure(w)
    <3>1. Typed
      BY <2>7, AnswerTyped DEF CountFailure
    <3>2. users' \in [Users -> UserRow]
      <4>1. users \in [Users -> UserRow] /\ req[w].user \in Users
        BY <1>0, <2>0, <2>7 DEF CountFailure, TypeOK
      <4>2. req[w].row.failed + 1 \in Nat /\ now + LockTicks \in Nat
        BY <1>0, <1>r, LockAssumption DEF UserRow, S!TypeOK
      <4>3. QED
        BY <1>r, <2>7, <4>1, <4>2 DEF CountFailure, Flush, UserRow
    <3>3. Kept
      BY <1>0, <2>0, <2>7, <3>2, LogTyped DEF CountFailure, TypeOK
    <3>4. QED
      BY <3>1, <3>3
  <2>8. CASE OpenAccount(w)
    <3>1. Typed
      BY <1>n, <2>0, <2>8, LoadTyped DEF OpenAccount, Stages
    <3>2. users' \in [Users -> UserRow]
      BY <1>0, <1>r, <2>0, <2>8 DEF OpenAccount, Flush, NewUser, TypeOK, UserRow
    <3>3. Kept
      BY <1>0, <2>0, <2>8, <3>2 DEF OpenAccount, TypeOK
    <3>4. QED
      BY <3>1, <3>3
  <2>9. CASE StartSession(w)
    <3>1. Typed
      BY <2>0, <2>9, GoToTyped DEF StartSession, Stages
    <3>2. QED
      BY <2>9, <3>1, <1>k DEF StartSession
  <2>10. CASE LogoutRevoke(w)
    <3>1. Typed
      BY <2>10, GoToTyped DEF LogoutRevoke, Stages, LoginStages
    <3>2. QED
      BY <2>10, <3>1, <1>k DEF LogoutRevoke
  <2>11. CASE ServiceStep(w)
    BY <1>0, <2>11, <1>k
       DEF ServiceStep, RequestInv, TypeOK, Addressed, Silence, Reply
  <2>12. QED
    BY <1>4, <2>2, <2>3, <2>4, <2>5, <2>6, <2>7, <2>8, <2>9, <2>10, <2>11
       DEF Serve
<1>5. ASSUME NEW w \in Workers, Crash(w) PROVE Typed /\ Kept
  <2>1. Typed
    BY <1>0, <1>5, <1>n DEF Crash, TypeOK, RequestInv, Addressed, NoRequest,
       Request, Stages, LoginStages, Silence, Reply
  <2>2. Kept
    BY <1>0, <1>5 DEF Crash, TypeOK
  <2>3. QED
    BY <2>1, <2>2
<1>6. QED
  BY <1>0, <1>1, <1>2, <1>3, <1>4, <1>5 DEF Next, RequestInv, TypeOK

LEMMA RequestInit == Init => RequestInv
<1> SUFFICES ASSUME Init PROVE RequestInv
  OBVIOUS
<1>1. S!TypeOK
  BY DEF Init, S!Init, S!TypeOK, S!NoRow, S!Row, S!Statuses, S!NoCall, S!Call,
         S!Ops, S!Results
<1>2. NewUser \in UserRow
  BY DEF NewUser, UserRow
<1>3. NoRequest \in Request /\ Silence \in Reply /\ NoRequest.stage = "idle"
  BY <1>2 DEF NoRequest, Request, Stages, Silence, Reply
<1>4. QED
  BY <1>1, <1>2, <1>3 DEF Init, RequestInv, TypeOK, Addressed, LoginStages

LEMMA RequestInvariant == Spec => []RequestInv
  BY RequestInit, RequestStep, PTL DEF Spec

\* Type correctness of login and logout.
THEOREM TypeCorrect == Spec => []TypeOK
<1>1. RequestInv => TypeOK
  BY DEF RequestInv
<1>2. QED
  BY <1>1, RequestInvariant, PTL

\* Login and logout use the session service only as it may be used: every
\* behaviour of the server, crashes included, is one of the service.
THEOREM UsesSessionService == Spec => SessionsSpec
<1>1. Init => S!Init
  BY DEF Init
<1>2. QED
  BY <1>1, RequestInvariant, SessionStep, PTL DEF Spec, SessionsSpec, S!Spec

\* Whatever the requests, crashes and workers: no session of the server comes
\* back after it ended.
THEOREM EndedForGood == Spec => S!NoResurrection
<1>1. Spec => P!Spec
  <2>1. Init => P!Init
    BY SameService DEF Init
  <2>2. RequestInv /\ [Next]_vars => [P!Next]_(P!vars)
    BY SessionStep, SameService
  <2>3. QED
    BY <2>1, <2>2, RequestInvariant, PTL DEF Spec, P!Spec
<1>2. P!Spec => P!NoResurrection
  BY P!EndedForGood, SameSets, SessionsAssumption
<1>3. P!NoResurrection => S!NoResurrection
  <2> DEFINE A == \A t \in Tokens : sessions[t].status \in P!Ended
                                     => sessions'[t].status \in P!Ended
             B == \A t \in Tokens : sessions[t].status \in S!Ended
                                     => sessions'[t].status \in S!Ended
  <2>1. [A]_(P!vars) => [B]_(S!vars)
    BY DEF P!vars, S!vars, P!Ended, S!Ended
  <2>2. QED
    BY <2>1, PTL DEF P!NoResurrection, S!NoResurrection
<1>4. QED
  BY <1>1, <1>2, <1>3

-------------------------------------------------------------------------------
\* The image starts one server process.
SingleWorker == \A v, w \in Workers : v = w

\* With one worker the row a request holds is the row of the table, and an
\* account that is about to be opened is not locked or its lock has elapsed.
Fresh(w) ==
  /\ req[w].stage \in {"count", "open"} => req[w].row = users[req[w].user]
  /\ req[w].stage = "open" =>
       \/ req[w].row.status # "LOCKED"
       \/ req[w].row.until = NoTime
       \/ req[w].row.until <= now
LockInv == LockConsistent /\ \A w \in Workers : Fresh(w)

\* Only the clock moves the clock.
LEMMA ClockKept ==
  ASSUME NEW w \in Workers, Receive(w) \/ Serve(w) \/ Crash(w)
  PROVE  now' = now
<1>1. S!Begin(w) \/ S!Continue(w) \/ S!Forget(w) \/ S!Abort(w) => now' = now
  BY DEF S!Begin, S!CreateSession, S!ValidateSession, S!RevokeSession,
         S!RevokeUserSessions, S!CleanupExpired, S!RevokeSessions,
         S!Continue, S!CommitExpire, S!CommitRevoke, S!CommitCleanup,
         S!ScanNext, S!CommitScan, S!CommitExtend, S!CommitVerify,
         S!Forget, S!Abort
<1>2. CASE Receive(w)
  BY <1>1, <1>2 DEF Receive, LoginUnknown, LoginWrong, LoginRight, Logout,
     ManageSessions, sessionVars, Answer, S!ValidateSession, S!CleanupExpired,
     S!RevokeSessions
<1>3. CASE Serve(w)
  BY <1>1, <1>3 DEF Serve, LogUnknown, LogWrong, ReloadUser, CountFailure,
     LogRefused, OpenAccount, StartSession, LogLogin, LogoutRevoke, LogoutFails,
     LogLogout, ServiceStep, ManageDone, Answer, sessionVars, S!CreateSession,
     S!RevokeSession
<1>4. CASE Crash(w)
  BY <1>1, <1>4 DEF Crash
<1>5. QED
  BY <1>2, <1>3, <1>4

\* Only two steps of a request write a row of idam.users.
LEMMA UsersKept ==
  ASSUME RequestInv, NEW w \in Workers,
         Receive(w) \/ Serve(w) \/ Crash(w), ~CountFailure(w), ~OpenAccount(w)
  PROVE  users' = users
BY DEF Receive, LoginUnknown, LoginWrong, LoginRight, Logout, ManageSessions,
   Serve, LogUnknown, LogWrong, ReloadUser, LogRefused, StartSession, LogLogin,
   LogoutRevoke, LogoutFails, LogLogout, ServiceStep, ManageDone, Crash

LEMMA FreshStep ==
  ASSUME RequestInv, LockInv, NEW w \in Workers,
         Receive(w) \/ Serve(w) \/ Crash(w)
  PROVE  Fresh(w)'
<1> USE DEF RequestInv, TypeOK
<1>0. Fresh(w) /\ now' = now
  BY ClockKept DEF LockInv
<1>1. ASSUME NEW stage, NEW u, NEW ts, NEW row, Load(w, stage, u, ts, row),
             stage \notin {"count", "open"}
      PROVE  Fresh(w)'
  BY <1>1 DEF Load, Fresh
<1>2. ASSUME NEW to, NEW code, Answer(w, to, code) PROVE Fresh(w)'
  BY <1>2 DEF Answer, NoRequest, Fresh
<1>3. ASSUME NEW stage, GoTo(w, stage), stage \notin {"count", "open"}
      PROVE  Fresh(w)'
  BY <1>3 DEF GoTo, Fresh, Request
<1>4. CASE Receive(w)
  <2>1. ASSUME NEW u \in Users, LoginRight(w, u) PROVE Fresh(w)'
    <3>1. users[u].until = NoTime \/ users[u].until \in Nat
      BY DEF UserRow
    <3>2. \/ Answer(w, "login", 500)
          \/ Load(w, "logRefused", u, {}, NewUser)
          \/ /\ Load(w, "open", u, {}, users[u])
             /\ \/ users[u].status # "LOCKED"
                \/ users[u].until = NoTime
                \/ ~(users[u].until > now)
      BY <2>1 DEF LoginRight
    <3>3. CASE /\ Load(w, "open", u, {}, users[u])
               /\ \/ users[u].status # "LOCKED"
                  \/ users[u].until = NoTime
                  \/ ~(users[u].until > now)
      BY <1>0, <2>1, <3>1, <3>3 DEF LoginRight, Load, Fresh, S!TypeOK
    <3>4. QED
      BY <1>1, <1>2, <3>2, <3>3
  <2>2. LoginUnknown(w) => Fresh(w)'
    BY <1>1 DEF LoginUnknown
  <2>3. ASSUME NEW u \in Users, LoginWrong(w, u) PROVE Fresh(w)'
    BY <1>1, <2>3 DEF LoginWrong
  <2>4. ASSUME NEW t \in Tokens, Logout(w, t) PROVE Fresh(w)'
    BY <1>1, <2>4 DEF Logout
  <2>5. ManageSessions(w) => Fresh(w)'
    BY <1>1 DEF ManageSessions
  <2>6. QED
    BY <1>4, <2>1, <2>2, <2>3, <2>4, <2>5 DEF Receive
<1>5. CASE Serve(w)
  <2>1. CASE ReloadUser(w)
    BY <1>0, <2>1 DEF ReloadUser, Load, Fresh
  <2>2. CASE ServiceStep(w)
    BY <1>0, <2>2, UsersKept DEF ServiceStep, Fresh
  <2>3. QED
    BY <1>1, <1>2, <1>3, <1>5, <2>1, <2>2
       DEF Serve, LogUnknown, LogWrong, CountFailure, LogRefused, OpenAccount,
           StartSession, LogLogin, LogoutRevoke, LogoutFails, LogLogout, ManageDone
<1>6. CASE Crash(w)
  BY <1>6 DEF Crash, NoRequest, Fresh
<1>7. QED
  BY <1>4, <1>5, <1>6

LEMMA LockStep ==
  SingleWorker /\ RequestInv /\ LockInv /\ [Next]_vars
    => LockInv' /\ [Account!Next]_(Account!vars)
<1> SUFFICES ASSUME SingleWorker, RequestInv, LockInv, [Next]_vars
             PROVE  LockInv' /\ [Account!Next]_(Account!vars)
  OBVIOUS
<1>0. /\ users \in [Users -> UserRow] /\ req \in [Workers -> Request]
      /\ now \in Nat /\ LockConsistent
  BY DEF RequestInv, TypeOK, S!TypeOK, LockInv
<1>1. ASSUME users' = users
      PROVE  /\ LockConsistent'
             /\ now' = now => UNCHANGED Account!vars
  BY <1>0, <1>1 DEF LockConsistent, Account!vars
<1>2. CASE UNCHANGED vars
  BY <1>1, <1>2 DEF vars, LockInv, Fresh
<1>3. CASE Tick
  <2>1. LockInv'
    BY <1>0, <1>1, <1>3 DEF Tick, S!Tick, LockInv, Fresh, Request, UserRow
  <2>2. Account!Tick
    BY <1>3 DEF Tick, S!Tick, Account!Tick
  <2>3. QED
    BY <2>1, <2>2 DEF Account!Next
<1>4. ASSUME NEW w \in Workers, Receive(w) \/ Serve(w) \/ Crash(w)
      PROVE  LockInv' /\ [Account!Next]_(Account!vars)
  <2>0. now' = now /\ Fresh(w)
    BY <1>4, ClockKept DEF LockInv
  <2>1. \A v \in Workers : Fresh(v)'
    <3> TAKE v \in Workers
    <3> QED
      BY <1>4, FreshStep DEF SingleWorker
  <2>a. LockConsistent' => LockInv'
    BY <2>1 DEF LockInv
  <2>b. ASSUME NEW a \in Users,
               Account!Fail(a) \/ Account!Lock(a) \/ Account!LogIn(a)
        PROVE  Account!Next
    BY <2>b DEF Account!Next
  <2>2. CASE CountFailure(w)
    <3> PICK u \in Users : u = req[w].user
      BY <2>2 DEF CountFailure, At, RequestInv, Addressed, LoginStages
    <3> DEFINE n == users[u].failed + 1
    <3>1. u = req[w].user /\ req[w].row = users[u]
      BY <2>0, <2>2 DEF CountFailure, At, Fresh
    <3>2. users[u].failed \in Nat
      BY <1>0, <3>1 DEF UserRow
    <3>3. CASE n < MaxFailed /\ users' = [users EXCEPT ![u].failed = n]
      <4>1. LockConsistent'
        BY <1>0, <3>1, <3>2, <3>3, LockAssumption DEF LockConsistent, UserRow
      <4>2. Account!Fail(u)
        BY <1>0, <2>0, <3>1, <3>3 DEF Account!Fail, UserRow
      <4>3. QED
        BY <2>a, <2>b, <3>1, <4>1, <4>2
    <3>4. CASE /\ n >= MaxFailed
               /\ users' = [users EXCEPT ![u] =
                             [status |-> "LOCKED", failed |-> n,
                              until |-> now + LockTicks]]
      <4>1. LockConsistent'
        BY <1>0, <3>1, <3>2, <3>4, LockAssumption, NoTimeAssumption
           DEF LockConsistent, UserRow
      <4>2. Account!Lock(u)
        BY <1>0, <2>0, <3>1, <3>4 DEF Account!Lock, UserRow
      <4>3. QED
        BY <2>a, <2>b, <3>1, <4>1, <4>2
    <3>5. QED
      BY <1>0, <2>2, <3>1, <3>2, <3>3, <3>4 DEF CountFailure, Flush, UserRow
  <2>3. CASE OpenAccount(w)
    <3> PICK u \in Users : u = req[w].user
      BY <2>3 DEF OpenAccount, At, RequestInv, Addressed, LoginStages
    <3>1. u = req[w].user /\ req[w].row = users[u]
      BY <2>0, <2>3 DEF OpenAccount, At, Fresh
    <3>2. users[u].until = NoTime \/ users[u].until <= now
      BY <1>0, <2>0, <2>3, <3>1 DEF OpenAccount, At, Fresh, LockConsistent, UserRow
    <3>3. users' = [users EXCEPT ![u] = NewUser]
      <4>1. users[u] \in UserRow
        BY <1>0, <3>1
      <4>2. CASE users[u].status = "LOCKED"
        BY <2>3, <3>1, <4>1, <4>2 DEF OpenAccount, Flush, NewUser, UserRow
      <4>3. CASE users[u].status = "ACTIVE"
        <5>1. users[u].until = NoTime
          BY <1>0, <3>1, <4>3 DEF LockConsistent
        <5>2. QED
          BY <2>3, <3>1, <4>1, <4>3, <5>1
             DEF OpenAccount, Flush, NewUser, UserRow
      <4>4. QED
        BY <4>1, <4>2, <4>3 DEF UserRow
    <3>4. LockConsistent'
      BY <1>0, <3>1, <3>3, LockAssumption DEF NewUser, LockConsistent, UserRow
    <3>5. Account!LogIn(u)
      BY <1>0, <2>0, <3>1, <3>2, <3>3 DEF Account!LogIn, NewUser, UserRow
    <3>6. QED
      BY <2>a, <2>b, <3>1, <3>4, <3>5
  <2>4. CASE ~CountFailure(w) /\ ~OpenAccount(w)
    BY <1>1, <1>4, <2>0, <2>1, <2>4, UsersKept DEF LockInv
  <2>5. QED
    BY <2>2, <2>3, <2>4
<1>5. QED
  BY <1>2, <1>3, <1>4 DEF Next

\* Both facts about the lock of an account start with the server.
LEMMA LockInit == Init => LockInv /\ Account!Init
<1> SUFFICES ASSUME Init PROVE LockInv /\ Account!Init
  OBVIOUS
<1>1. Account!Init
  BY DEF Init, S!Init, NewUser, Account!Init
<1>2. LockConsistent
  BY LockAssumption DEF Init, NewUser, LockConsistent
<1>3. QED
  BY <1>1, <1>2 DEF Init, NoRequest, LockInv, Fresh

\* With one worker the three columns of a lock agree in every state, though
\* two different flushes write them and crashes come between transactions.
THEOREM LockColumnsAgree == SingleWorker => (Spec => []LockConsistent)
<1> SUFFICES ASSUME SingleWorker PROVE Spec => []LockConsistent
  OBVIOUS
<1>1. RequestInv /\ LockInv /\ [Next]_vars => LockInv'
  BY LockStep
<1>2. LockInv => LockConsistent
  BY DEF LockInv
<1>3. QED
  BY <1>1, <1>2, LockInit, RequestInvariant, PTL DEF Spec

\* With one worker the server keeps the promise of AccountLock: the count of
\* failures grows one by one, the account is locked at the threshold, and only
\* a login after the deadline lifts the lock.
THEOREM ImplementsAccountLock == SingleWorker => (Spec => AccountSpec)
<1> SUFFICES ASSUME SingleWorker PROVE Spec => AccountSpec
  OBVIOUS
<1>1. RequestInv /\ LockInv /\ [Next]_vars
        => LockInv' /\ [Account!Next]_(Account!vars)
  BY LockStep
<1>2. QED
  BY <1>1, LockInit, RequestInvariant, PTL DEF Spec, AccountSpec, Account!Spec
===============================================================================
