---------------------------- MODULE SessionsProofs ----------------------------
(***************************************************************************)
(* Theorems about the session service, for any number of workers.          *)
(***************************************************************************)
EXTENDS Sessions, FiniteSetTheorems, TLAPS

\* What one step may do to the status column: a new row becomes ACTIVE, an old
\* row keeps its status or gets one of a session that ended.
StatusStep ==
  \A t \in Tokens :
    \/ sessions'[t].status = sessions[t].status
    \/ sessions[t].status = "NONE" /\ sessions'[t].status = "ACTIVE"
    \/ sessions'[t].status \in Ended

\* A call that begins to wait, or ends, is well typed: Await and Return in
\* every operation of the service.
LEMMA CallTyped ==
  ASSUME TypeOK, NEW w \in Workers, NEW op \in Ops, NEW ts \in SUBSET Tokens,
         \/ Await(w, op, ts)
         \/ \E n \in Nat, r \in Results : Return(w, op, ts, n, r)
  PROVE  call' \in [Workers -> Call]
<1>1. <<>> \in Seq(Tokens) /\ "none" \in Results
  BY DEF Results
<1>2. CASE Await(w, op, ts)
  BY <1>1, <1>2 DEF Await, TypeOK, Call
<1>3. ASSUME NEW n \in Nat, NEW r \in Results, Return(w, op, ts, n, r)
      PROVE  call' \in [Workers -> Call]
  BY <1>1, <1>3 DEF Return, TypeOK, Call
<1>4. QED
  BY <1>2, <1>3

\* SetStatus writes a status of a session that ended into typed rows.
LEMMA SetStatusTyped ==
  ASSUME TypeOK, NEW ts \in SUBSET Tokens, NEW st \in Ended, SetStatus(ts, st)
  PROVE  sessions' \in [Tokens -> Row] /\ StatusStep
  BY DEF TypeOK, SetStatus, Row, Statuses, Ended, StatusStep

\* The number of rows a bulk operation reports is a number.
LEMMA PickedCountable ==
  ASSUME TypeOK, NEW w \in Workers
  PROVE  /\ call[w].picked \in SUBSET Tokens
         /\ Cardinality(call[w].picked) \in Nat
<1>1. call[w].picked \in SUBSET Tokens
  BY DEF TypeOK, Call
<1>2. IsFiniteSet(call[w].picked)
  BY <1>1, FiniteAssumption, FS_Subset
<1>3. QED
  BY <1>1, <1>2, FS_CardinalityType

\* Every step keeps the types, and moves statuses only as StatusStep says.
LEMMA StepTyped ==
  TypeOK /\ [Next]_vars => TypeOK' /\ StatusStep
<1> SUFFICES ASSUME TypeOK, [Next]_vars PROVE TypeOK' /\ StatusStep
  OBVIOUS
<1> DEFINE Kept == now' = now /\ sessions' = sessions
<1>0. Kept => now' \in Nat /\ sessions' \in [Tokens -> Row] /\ StatusStep
  BY DEF TypeOK, StatusStep
<1>1. CASE UNCHANGED vars
  BY <1>1 DEF vars, TypeOK, StatusStep
<1>2. CASE Tick
  BY <1>2 DEF Tick, TypeOK, StatusStep
<1>3. ASSUME NEW w \in Workers, Begin(w) PROVE TypeOK' /\ StatusStep
  <2>1. ASSUME NEW u \in Users, CreateSession(w, u) PROVE TypeOK' /\ StatusStep
    <3> PICK t \in Tokens :
          /\ sessions[t].status = "NONE"
          /\ sessions' = [sessions EXCEPT ![t] =
                            [status |-> "ACTIVE", user |-> u,
                             expires |-> now + SessionTicks, mfa |-> FALSE]]
          /\ Return(w, "create", {t}, 1, "ok")
      BY <2>1 DEF CreateSession
    <3>1. sessions' \in [Tokens -> Row] /\ StatusStep
      BY TicksAssumption DEF TypeOK, Row, Statuses, StatusStep
    <3>2. call' \in [Workers -> Call]
      BY CallTyped, {t} \in SUBSET Tokens, 1 \in Nat DEF Ops, Results
    <3>3. QED
      BY <2>1, <3>1, <3>2 DEF CreateSession, TypeOK
  <2>2. ASSUME NEW t \in Tokens, NEW then \in {"validate", "extend", "verify"},
               ValidateSession(w, t, then)
        PROVE  TypeOK' /\ StatusStep
    <3>0. \/ Await(w, "expire", {t}) \/ Await(w, then, {t})
          \/ Return(w, then, {t}, 0, "refused")
          \/ Return(w, then, {t}, 0, "error")
          \/ Return(w, then, {t}, 1, "ok")
      BY <2>2 DEF ValidateSession
    <3>1. \/ \E op \in Ops : Await(w, op, {t})
          \/ \E op \in Ops, n \in Nat, r \in Results : Return(w, op, {t}, n, r)
      BY <3>0 DEF Ops, Results
    <3>2. call' \in [Workers -> Call]
      BY <3>1, CallTyped, {t} \in SUBSET Tokens
    <3>3. QED
      BY <2>2, <3>2, <1>0 DEF ValidateSession, TypeOK
  <2>3. ASSUME NEW t \in Tokens, RevokeSession(w, t) PROVE TypeOK' /\ StatusStep
    <3>1. call' \in [Workers -> Call]
      BY <2>3, CallTyped DEF RevokeSession, Ops, Results
    <3>2. QED
      BY <2>3, <3>1, <1>0 DEF RevokeSession, TypeOK
  <2>4. ASSUME NEW u \in Users, NEW keep, RevokeUserSessions(w, u, keep)
        PROVE  TypeOK' /\ StatusStep
    <3> DEFINE ts == {t \in Active : sessions[t].user = u} \ keep
    <3>1. ts \in SUBSET Tokens
      BY DEF Active
    <3>2. call' \in [Workers -> Call]
      BY <2>4, <3>1, CallTyped DEF RevokeUserSessions, Ops
    <3>3. QED
      BY <2>4, <3>2, <1>0 DEF RevokeUserSessions, TypeOK
  <2>5. CASE CleanupExpired(w)
    <3>1. Overdue \in SUBSET Tokens
      BY DEF Overdue, Active
    <3>2. call' \in [Workers -> Call]
      BY <2>5, <3>1, CallTyped DEF CleanupExpired, Ops
    <3>3. QED
      BY <2>5, <3>2, <1>0 DEF CleanupExpired, TypeOK
  <2>6. ASSUME NEW ids \in IdLists, RevokeSessions(w, ids)
        PROVE  TypeOK' /\ StatusStep
    <3>1. ids \in Seq(Tokens)
      BY BoundAssumption DEF IdLists
    <3>2. call' \in [Workers -> Call]
      BY <2>6, <3>1 DEF RevokeSessions, TypeOK, Call, Ops, Results
    <3>3. QED
      BY <2>6, <3>2, <1>0 DEF RevokeSessions, TypeOK
  <2>7. QED
    BY <1>3, <2>1, <2>2, <2>3, <2>4, <2>5, <2>6 DEF Begin
<1>4. ASSUME NEW w \in Workers, Continue(w) PROVE TypeOK' /\ StatusStep
  <2> DEFINE ts == call[w].picked
  <2>0. ts \in SUBSET Tokens /\ Cardinality(ts) \in Nat
    BY PickedCountable
  <2>1. ASSUME NEW op \in Ops, NEW n \in Nat, NEW r \in Results,
               Return(w, op, ts, n, r)
        PROVE  call' \in [Workers -> Call]
    BY <2>0, <2>1, CallTyped
  <2>2. CASE CommitExpire(w)
    <3>1. sessions' \in [Tokens -> Row] /\ StatusStep
      BY <2>0, <2>2, SetStatusTyped DEF CommitExpire, Ended
    <3>2. call' \in [Workers -> Call]
      BY <2>1, <2>2 DEF CommitExpire, Ops, Results
    <3>3. QED
      BY <2>2, <3>1, <3>2 DEF CommitExpire, TypeOK
  <2>3. CASE CommitRevoke(w)
    <3>1. sessions' \in [Tokens -> Row] /\ StatusStep
      BY <2>0, <2>3, SetStatusTyped DEF CommitRevoke, Ended
    <3>2. call' \in [Workers -> Call]
      BY <2>0, <2>1, <2>3 DEF CommitRevoke, Ops, Results
    <3>3. QED
      BY <2>3, <3>1, <3>2 DEF CommitRevoke, TypeOK
  <2>4. CASE CommitCleanup(w)
    <3>1. sessions' \in [Tokens -> Row] /\ StatusStep
      BY <2>0, <2>4, SetStatusTyped DEF CommitCleanup, Ended
    <3>2. call' \in [Workers -> Call]
      BY <2>0, <2>1, <2>4 DEF CommitCleanup, Ops, Results
    <3>3. QED
      BY <2>4, <3>1, <3>2 DEF CommitCleanup, TypeOK
  <2>5. CASE ScanNext(w)
    <3>1. /\ call[w].left \in Seq(Tokens) /\ call[w].left # <<>>
          /\ call[w].count \in Nat
      BY <2>5 DEF ScanNext, TypeOK, Call
    <3>2. Tail(call[w].left) \in Seq(Tokens) /\ Head(call[w].left) \in Tokens
      BY <3>1
    <3>3. /\ ts \cup ({Head(call[w].left)} \cap Active) \in SUBSET Tokens
          /\ call[w].count + 1 \in Nat
      BY <2>0, <3>1, <3>2
    <3>4. call' \in [Workers -> Call]
      BY <2>5, <3>1, <3>2, <3>3 DEF ScanNext, TypeOK, Call
    <3>5. QED
      BY <2>5, <3>4, <1>0 DEF ScanNext, TypeOK
  <2>6. CASE CommitScan(w)
    <3>1. sessions' \in [Tokens -> Row] /\ StatusStep
      BY <2>0, <2>6, SetStatusTyped DEF CommitScan, Ended
    <3>2. call[w].count \in Nat
      BY DEF TypeOK, Call
    <3>3. call' \in [Workers -> Call]
      BY <2>1, <2>6, <3>2 DEF CommitScan, Ops, Results
    <3>4. QED
      BY <2>6, <3>1, <3>3 DEF CommitScan, TypeOK
  <2>7. CASE CommitExtend(w)
    <3>1. sessions' \in [Tokens -> Row] /\ StatusStep
      BY <2>7, TicksAssumption DEF CommitExtend, TypeOK, Row, StatusStep
    <3>2. call' \in [Workers -> Call]
      BY <2>1, <2>7 DEF CommitExtend, Ops, Results
    <3>3. QED
      BY <2>7, <3>1, <3>2 DEF CommitExtend, TypeOK
  <2>8. CASE CommitVerify(w)
    <3>1. sessions' \in [Tokens -> Row] /\ StatusStep
      BY <2>8 DEF CommitVerify, TypeOK, Row, StatusStep
    <3>2. call' \in [Workers -> Call]
      BY <2>1, <2>8 DEF CommitVerify, Ops, Results
    <3>3. QED
      BY <2>8, <3>1, <3>2 DEF CommitVerify, TypeOK
  <2>9. QED
    BY <1>4, <2>2, <2>3, <2>4, <2>5, <2>6, <2>7, <2>8 DEF Continue
<1>5. ASSUME NEW w \in Workers, Forget(w) PROVE TypeOK' /\ StatusStep
  <2>1. call' \in [Workers -> Call]
    BY <1>5 DEF Forget, NoCall, TypeOK, Call, Ops, Results
  <2>2. QED
    BY <1>5, <2>1, <1>0 DEF Forget, TypeOK
<1>6. ASSUME NEW w \in Workers, Abort(w) PROVE TypeOK' /\ StatusStep
  <2>1. call' \in [Workers -> Call]
    BY <1>6, CallTyped, 0 \in Nat DEF Abort, TypeOK, Call, Results
  <2>2. QED
    BY <1>6, <2>1, <1>0 DEF Abort, TypeOK
<1>7. QED
  BY <1>1, <1>2, <1>3, <1>4, <1>5, <1>6 DEF Next

\* Type correctness of the session service.
THEOREM TypeCorrect == Spec => []TypeOK
<1>1. Init => TypeOK
  BY DEF Init, TypeOK, NoRow, Row, Statuses, NoCall, Call, Ops, Results
<1>2. TypeOK /\ [Next]_vars => TypeOK'
  BY StepTyped
<1>3. QED
  BY <1>1, <1>2, PTL DEF Spec

\* A session that ended is never ACTIVE again, for every number of workers,
\* users and tokens: the stale writes of concurrent requests cannot revive it.
THEOREM EndedForGood == Spec => NoResurrection
<1> DEFINE Step ==
      \A t \in Tokens :
        sessions[t].status \in Ended => sessions'[t].status \in Ended
<1>1. TypeOK /\ [Next]_vars => Step
  BY StepTyped DEF StatusStep, Ended
<1>2. TypeOK /\ [Next]_vars => [Step]_vars
  BY <1>1
<1>3. QED
  BY <1>2, TypeCorrect, PTL DEF Spec, NoResurrection

\* Why RevokedAreEnded holds: between its SELECT and its commit a revocation
\* holds rows that exist, and no other worker makes a row vanish; after its
\* commit the rows it took have ended, and no other worker revives a row.
Taken(v) ==
  \A t \in call[v].picked :
    call[v].op \in {"revoke", "scan"} =>
      /\ call[v].busy => sessions[t].status # "NONE"
      /\ ~call[v].busy /\ call[v].result = "ok" => sessions[t].status \in Ended
RevokedInv == \A v \in Workers : Taken(v)

\* A step of another worker does not disturb what worker v took.
LEMMA OthersKeepTaken ==
  ASSUME TypeOK, StatusStep, NEW v \in Workers, Taken(v), call'[v] = call[v]
  PROVE  Taken(v)'
<1>1. call[v].picked \in SUBSET Tokens
  BY DEF TypeOK, Call
<1>2. \A t \in Tokens :
        /\ sessions[t].status # "NONE" => sessions'[t].status # "NONE"
        /\ sessions[t].status \in Ended => sessions'[t].status \in Ended
  BY DEF StatusStep, Ended
<1>3. QED
  BY <1>1, <1>2 DEF Taken

\* A call that is not a revocation, that failed, or that took no row, has
\* nothing to answer for.
LEMMA NothingTaken ==
  ASSUME NEW w \in Workers,
         \/ call'[w].op \notin {"revoke", "scan"}
         \/ call'[w].picked = {}
         \/ ~call'[w].busy /\ call'[w].result # "ok"
  PROVE  Taken(w)'
  BY DEF Taken

\* What a step does to the calls of the other workers: nothing.
LEMMA OthersUntouched ==
  ASSUME TypeOK, NEW w \in Workers, NEW v \in Workers, v # w,
         Begin(w) \/ Continue(w) \/ Forget(w) \/ Abort(w)
  PROVE  call'[v] = call[v]
<1>1. CASE Begin(w)
  BY <1>1 DEF TypeOK, Begin, CreateSession, ValidateSession, RevokeSession,
              RevokeUserSessions, CleanupExpired, RevokeSessions, Await, Return
<1>2. CASE Continue(w)
  BY <1>2 DEF TypeOK, Continue, CommitExpire, CommitRevoke, CommitCleanup,
              ScanNext, CommitScan, CommitExtend, CommitVerify, Return
<1>3. CASE Forget(w) \/ Abort(w)
  BY <1>3 DEF TypeOK, Forget, Abort, Return
<1>4. QED
  BY <1>1, <1>2, <1>3

LEMMA RevokedStep ==
  TypeOK /\ RevokedInv /\ [Next]_vars => RevokedInv'
<1> SUFFICES ASSUME TypeOK, RevokedInv, [Next]_vars, NEW v \in Workers
             PROVE  Taken(v)'
  BY DEF RevokedInv
<1>0. StatusStep /\ Taken(v)
  BY StepTyped DEF RevokedInv
<1>1. CASE UNCHANGED vars \/ Tick
  BY <1>0, <1>1, OthersKeepTaken DEF vars, Tick
<1>2. ASSUME NEW w \in Workers, Begin(w) \/ Continue(w) \/ Forget(w) \/ Abort(w)
      PROVE  Taken(v)'
  <2>1. CASE v # w
    BY <1>0, <1>2, <2>1, OthersUntouched, OthersKeepTaken
  <2>2. CASE v = w
    <3>1. ASSUME Begin(w) PROVE Taken(w)'
      <4>1. ASSUME NEW u \in Users, CreateSession(w, u) PROVE Taken(w)'
        <5> PICK t \in Tokens : Return(w, "create", {t}, 1, "ok")
          BY <4>1 DEF CreateSession
        <5> QED
          BY DEF Return, TypeOK, Taken
      <4>2. ASSUME NEW t \in Tokens,
                   NEW then \in {"validate", "extend", "verify"},
                   ValidateSession(w, t, then)
            PROVE  Taken(w)'
        BY <4>2, NothingTaken DEF TypeOK, Await, Return, ValidateSession
      <4>3. ASSUME NEW t \in Tokens, RevokeSession(w, t) PROVE Taken(w)'
        <5>1. CASE t \in Active
          BY <4>3, <5>1 DEF RevokeSession, Await, Active, TypeOK, Taken
        <5>2. CASE t \notin Active
          BY <4>3, <5>2 DEF RevokeSession, Return, TypeOK, Taken
        <5>3. QED
          BY <5>1, <5>2
      <4>4. ASSUME NEW u \in Users, NEW keep, RevokeUserSessions(w, u, keep)
            PROVE  Taken(w)'
        BY <4>4 DEF RevokeUserSessions, Await, Active, TypeOK, Taken
      <4>5. CASE CleanupExpired(w)
        BY <4>5, NothingTaken DEF TypeOK, Await, Return, CleanupExpired
      <4>6. ASSUME NEW ids \in IdLists, RevokeSessions(w, ids) PROVE Taken(w)'
        BY <4>6 DEF RevokeSessions, TypeOK, Taken
      <4>7. QED
        BY <3>1, <4>1, <4>2, <4>3, <4>4, <4>5, <4>6 DEF Begin
    <3>2. ASSUME Continue(w) PROVE Taken(w)'
      <4>0. call[w].picked \in SUBSET Tokens
        BY DEF TypeOK, Call
      <4>1. CASE CommitExpire(w)
        BY <4>1, NothingTaken DEF TypeOK, Await, Return, CommitExpire
      <4>2. CASE CommitRevoke(w)
        <5>1. ~call'[w].busy /\ call'[w].picked = call[w].picked
          BY <4>2 DEF CommitRevoke, Return, TypeOK
        <5>2. \A t \in call[w].picked : sessions'[t].status = "REVOKED"
          BY <4>0, <4>2 DEF CommitRevoke, SetStatus, TypeOK
        <5>3. QED
          BY <5>1, <5>2 DEF Ended, Taken
      <4>3. CASE CommitCleanup(w)
        BY <4>3, NothingTaken DEF TypeOK, Await, Return, CommitCleanup
      <4>4. CASE ScanNext(w)
        <5>1. \A t \in call[w].picked : sessions[t].status # "NONE"
          BY <1>0, <2>2, <4>4 DEF ScanNext, Waiting, Taken
        <5>2. \A t \in call'[w].picked : t \in call[w].picked \/ t \in Active
          BY <4>4 DEF ScanNext, TypeOK, Call
        <5>3. call'[w].busy
          BY <4>4 DEF ScanNext, Waiting, TypeOK, Call
        <5>4. QED
          BY <4>4, <5>1, <5>2, <5>3 DEF ScanNext, Active, Taken
      <4>5. CASE CommitScan(w)
        <5>1. ~call'[w].busy /\ call'[w].picked = call[w].picked
          BY <4>5 DEF CommitScan, Return, TypeOK
        <5>2. \A t \in call[w].picked : sessions'[t].status = "REVOKED"
          BY <4>0, <4>5 DEF CommitScan, SetStatus, TypeOK
        <5>3. QED
          BY <5>1, <5>2 DEF Ended, Taken
      <4>6. CASE CommitExtend(w)
        BY <4>6, NothingTaken DEF TypeOK, Await, Return, CommitExtend
      <4>7. CASE CommitVerify(w)
        BY <4>7, NothingTaken DEF TypeOK, Await, Return, CommitVerify
      <4>8. QED
        BY <3>2, <4>1, <4>2, <4>3, <4>4, <4>5, <4>6, <4>7 DEF Continue
    <3>3. ASSUME Forget(w) PROVE Taken(w)'
      BY <3>3 DEF Forget, NoCall, TypeOK, Taken
    <3>4. ASSUME Abort(w) PROVE Taken(w)'
      BY <3>4, NothingTaken DEF TypeOK, Await, Return, Abort
    <3>5. QED
      BY <1>2, <2>2, <3>1, <3>2, <3>3, <3>4
  <2>3. QED
    BY <2>1, <2>2
<1>3. QED
  BY <1>1, <1>2 DEF Next

\* When a revocation has answered ok, none of the sessions it took is ACTIVE,
\* then or later, for every number of workers writing the same rows.
THEOREM RevocationHolds == Spec => []RevokedAreEnded
<1>1. Init => RevokedInv
  BY DEF Init, NoCall, RevokedInv, Taken
<1>2. RevokedInv => RevokedAreEnded
  BY DEF RevokedInv, Taken, RevokedAreEnded, Free, Active, Ended
<1>3. QED
  BY <1>1, <1>2, RevokedStep, TypeCorrect, PTL DEF Spec

-------------------------------------------------------------------------------
\* The image starts one server process.
SingleWorker == \A v, w \in Workers : v = w

\* With one worker nothing happens between the SELECT of a call and its commit
\* but the passing of time: the rows it holds are as it read them.
Held(w) ==
  call[w].busy =>
    /\ call[w].picked \subseteq Active
    /\ call[w].op \in {"expire", "cleanup"} => call[w].picked \subseteq Overdue
    /\ call[w].op = "extend" => \E t \in Tokens : call[w].picked = {t}
HeldInv == \A w \in Workers : Held(w)

LEMMA HeldStep ==
  SingleWorker /\ TypeOK /\ HeldInv /\ [Next]_vars => HeldInv'
<1> SUFFICES ASSUME SingleWorker, TypeOK, HeldInv, [Next]_vars,
                    NEW v \in Workers
             PROVE  Held(v)'
  BY DEF HeldInv
<1>0. Held(v)
  BY DEF HeldInv
<1>1. CASE UNCHANGED vars
  BY <1>0, <1>1 DEF vars, Held, Active, Overdue
<1>2. CASE Tick
  <2>1. Active' = Active
    BY <1>2 DEF Tick, Active
  <2>2. Overdue \subseteq Overdue'
    BY <1>2, <2>1 DEF Tick, Overdue, Active, TypeOK, Row
  <2>3. QED
    BY <1>0, <1>2, <2>1, <2>2 DEF Tick, Held
<1>3. ASSUME NEW w \in Workers, Begin(w) \/ Continue(w) \/ Forget(w) \/ Abort(w)
      PROVE  Held(v)'
  <2>0. v = w
    BY DEF SingleWorker
  <2>1. ASSUME NEW u \in Users, CreateSession(w, u) PROVE Held(w)'
    BY <2>1 DEF CreateSession, Return, TypeOK, Held
  <2>2. ASSUME NEW t \in Tokens, NEW then \in {"validate", "extend", "verify"},
               ValidateSession(w, t, then)
        PROVE  Held(w)'
    <3>1. Active' = Active /\ Overdue' = Overdue
      BY <2>2 DEF ValidateSession, Active, Overdue
    <3>2. CASE Await(w, "expire", {t}) /\ t \in Overdue
      BY <3>1, <3>2 DEF Await, TypeOK, Held, Overdue
    <3>3. CASE Await(w, then, {t}) /\ t \in Active
      BY <3>1, <3>3 DEF Await, TypeOK, Held
    <3>4. CASE \E n, r : Return(w, then, {t}, n, r)
      BY <3>4 DEF Return, TypeOK, Held
    <3>5. QED
      BY <2>2, <3>2, <3>3, <3>4 DEF ValidateSession
  <2>3. ASSUME NEW t \in Tokens, RevokeSession(w, t) PROVE Held(w)'
    BY <2>3 DEF RevokeSession, Await, Return, TypeOK, Held, Active
  <2>4. ASSUME NEW u \in Users, NEW keep, RevokeUserSessions(w, u, keep)
        PROVE  Held(w)'
    BY <2>4 DEF RevokeUserSessions, Await, TypeOK, Held, Active
  <2>5. CASE CleanupExpired(w)
    BY <2>0, <2>5 DEF CleanupExpired, Await, TypeOK, Held, Active, Overdue
  <2>6. ASSUME NEW ids \in IdLists, RevokeSessions(w, ids) PROVE Held(w)'
    BY <2>6 DEF RevokeSessions, TypeOK, Held
  <2>7. CASE ScanNext(w)
    <3>1. Active' = Active
      BY <2>7 DEF ScanNext, Active
    <3>2. call[w].busy /\ call[w].op = "scan"
      BY <2>7 DEF ScanNext, Waiting
    <3>3. call'[w].picked \subseteq call[w].picked \cup Active
      BY <2>7 DEF ScanNext, TypeOK, Call
    <3>4. call'[w].op = "scan"
      BY <2>7, <3>2 DEF ScanNext, TypeOK, Call
    <3>5. QED
      BY <1>0, <2>0, <3>1, <3>2, <3>3, <3>4 DEF Held
  <2>8. CASE \/ CommitExpire(w) \/ CommitRevoke(w) \/ CommitCleanup(w)
             \/ CommitScan(w) \/ CommitExtend(w) \/ CommitVerify(w)
    BY <2>0, <2>8 DEF CommitExpire, CommitRevoke, CommitCleanup, CommitScan,
                CommitExtend, CommitVerify, Return, TypeOK, Held
  <2>9. CASE Forget(w) \/ Abort(w)
    BY <2>0, <2>9 DEF Forget, NoCall, Abort, Return, TypeOK, Held
  <2>10. QED
    BY <1>3, <2>0, <2>1, <2>2, <2>3, <2>4, <2>5, <2>6, <2>7, <2>8, <2>9
       DEF Begin, Continue
<1>4. QED
  BY <1>1, <1>2, <1>3 DEF Next

LEMMA LifecycleStep ==
  TypeOK /\ HeldInv /\ [Next]_vars => [Lifecycle!Next]_(Lifecycle!vars)
<1> SUFFICES ASSUME TypeOK, HeldInv, [Next]_vars
             PROVE  [Lifecycle!Next]_(Lifecycle!vars)
  OBVIOUS
<1>1. CASE UNCHANGED vars
  BY <1>1 DEF vars, Lifecycle!vars
<1>2. CASE Tick
  BY <1>2 DEF Tick, Lifecycle!Next, Lifecycle!Tick
<1>3. ASSUME UNCHANGED <<now, sessions>>
      PROVE  UNCHANGED Lifecycle!vars
  BY <1>3 DEF Lifecycle!vars
<1>4. ASSUME NEW w \in Workers, NEW u \in Users, CreateSession(w, u)
      PROVE  Lifecycle!Next
  <2> PICK t \in Tokens :
        /\ sessions[t].status = "NONE"
        /\ sessions' = [sessions EXCEPT ![t] =
                          [status |-> "ACTIVE", user |-> u,
                           expires |-> now + SessionTicks, mfa |-> FALSE]]
    BY <1>4 DEF CreateSession
  <2>1. Lifecycle!Open(t)
    BY <1>4 DEF CreateSession, TypeOK, Row, Lifecycle!Open
  <2>2. QED
    BY <2>1 DEF Lifecycle!Next
<1>5. ASSUME NEW ts \in SUBSET Tokens, ts \subseteq Active, now' = now
      PROVE  /\ SetStatus(ts, "REVOKED") => Lifecycle!Revoke(ts)
             /\ SetStatus(ts, "EXPIRED") /\ ts \subseteq Overdue
                  => Lifecycle!Expire(ts)
  BY <1>5 DEF SetStatus, TypeOK, Row, Active, Overdue, Lifecycle!Revoke,
              Lifecycle!Expire
<1>6. ASSUME NEW w \in Workers, Continue(w)
      PROVE  Lifecycle!Next \/ UNCHANGED Lifecycle!vars
  <2>0. call[w].picked \in SUBSET Tokens /\ Held(w)
    BY DEF TypeOK, Call, HeldInv
  <2>1. CASE CommitExpire(w) \/ CommitCleanup(w)
    BY <1>5, <2>0, <2>1
       DEF CommitExpire, CommitCleanup, Waiting, Held, Lifecycle!Next
  <2>2. CASE CommitRevoke(w) \/ CommitScan(w)
    BY <1>5, <2>0, <2>2
       DEF CommitRevoke, CommitScan, Waiting, Held, Lifecycle!Next
  <2>3. CASE CommitExtend(w)
    <3> PICK t \in Tokens : call[w].picked = {t} /\ t \in Active
      BY <2>0, <2>3 DEF CommitExtend, Waiting, Held
    <3>1. Lifecycle!Extend(t)
      BY <2>3 DEF CommitExtend, TypeOK, Row, Active, Lifecycle!Extend
    <3>2. QED
      BY <3>1 DEF Lifecycle!Next
  <2>4. CASE CommitVerify(w)
    BY <2>0, <2>4 DEF CommitVerify, TypeOK, Row, Lifecycle!vars
  <2>5. CASE ScanNext(w)
    BY <1>3, <2>5 DEF ScanNext
  <2>6. QED
    BY <1>6, <2>1, <2>2, <2>3, <2>4, <2>5 DEF Continue
<1>7. ASSUME NEW w \in Workers, Begin(w)
      PROVE  Lifecycle!Next \/ UNCHANGED Lifecycle!vars
  BY <1>3, <1>4, <1>7 DEF Begin, ValidateSession, RevokeSession,
     RevokeUserSessions, CleanupExpired, RevokeSessions
<1>8. QED
  BY <1>1, <1>2, <1>3, <1>6, <1>7 DEF Next, Forget, Abort

\* One server process keeps the promise of SessionLifecycle: a session ends
\* once, never by expiry before its deadline, and stays as it ended.
THEOREM OneWorkerLifecycle == SingleWorker => (Spec => LifecycleSpec)
<1> SUFFICES ASSUME SingleWorker PROVE Spec => LifecycleSpec
  OBVIOUS
<1>1. Init => HeldInv
  BY DEF Init, NoCall, HeldInv, Held
<1>2. Init => Lifecycle!Init
  BY DEF Init, NoRow, Lifecycle!Init
<1>3. TypeOK /\ HeldInv /\ [Next]_vars => HeldInv'
  BY HeldStep
<1>4. QED
  BY <1>1, <1>2, <1>3, TypeCorrect, LifecycleStep, PTL
     DEF Spec, LifecycleSpec, Lifecycle!Spec
===============================================================================
