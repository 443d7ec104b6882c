------------------------------- MODULE Sessions -------------------------------
(***************************************************************************)
(* The session service: SessionService of services/mgmt/session_service.py *)
(* and the two state-changing routes of modules/mgmt/idam/session.         *)
(*                                                                         *)
(* A worker is one server process; it runs one handler at a time on a      *)
(* SQLAlchemy session of its own.  A handler first SELECTs rows, then      *)
(* flushes and commits the columns it assigned, so each operation is a     *)
(* reading step followed by a committing step, and the committing step     *)
(* writes those columns over whatever the row holds by then (READ          *)
(* COMMITTED; the UPDATE names the primary key and nothing else).  What    *)
(* an operation did not commit is rolled back when the handler dies.       *)
(***************************************************************************)
EXTENDS Naturals, Sequences, FiniteSets

CONSTANTS
  Users,        \* ids of idam.users
  Tokens,       \* session tokens; the row of a token is keyed by its hash
  Workers,      \* server processes: the image starts one, a scaled service more
  NoUser,       \* owner of a row that does not exist yet
  SessionTicks, \* expires_in_hours of create_session
  ExtendTicks,  \* extend_hours of extend_session
  AwareColumns, \* TRUE: timestamps are loaded with a time zone
  MaxTime,      \* bound: the clock stops there
  MaxIds        \* bound: length of the id list of POST /sessions/revoke

VARIABLES
  now,          \* datetime.now()
  sessions,     \* sessions[t]: the row of idam.sessions
  call          \* call[w]: the service call worker w runs, or ran last

vars == <<now, sessions, call>>

ASSUME TicksAssumption == SessionTicks \in Nat /\ ExtendTicks \in Nat
ASSUME BoundAssumption == MaxTime \in Nat /\ MaxIds \in Nat
ASSUME AwareAssumption == AwareColumns \in BOOLEAN
ASSUME FiniteAssumption == IsFiniteSet(Tokens)
ASSUME NoUserAssumption == NoUser \notin Users

Statuses == {"NONE", "ACTIVE", "EXPIRED", "REVOKED"}
Row == [status : Statuses, user : Users \cup {NoUser}, expires : Nat,
        mfa : BOOLEAN]
NoRow == [status |-> "NONE", user |-> NoUser, expires |-> 0, mfa |-> FALSE]

\* "scan" is the loop of revoke_sessions; the others wait for their commit.
Ops == {"none", "create", "validate", "expire", "revoke", "cleanup", "scan",
        "extend", "verify"}
Results == {"none", "ok", "refused", "error"}
IdLists == UNION {[1..n -> Tokens] : n \in 0..MaxIds}

Call == [busy : BOOLEAN, op : Ops, picked : SUBSET Tokens,
         left : Seq(Tokens), count : Nat, result : Results]
NoCall == [busy |-> FALSE, op |-> "none", picked |-> {}, left |-> <<>>,
           count |-> 0, result |-> "none"]

Active == {t \in Tokens : sessions[t].status = "ACTIVE"}
Overdue == {t \in Active : sessions[t].expires < now}

Free(w) == ~call[w].busy
Waiting(w, op) == call[w].busy /\ call[w].op = op

\* Worker w holds the rows ts and will commit op.
Await(w, op, ts) ==
  call' = [call EXCEPT ![w] =
             [busy |-> TRUE, op |-> op, picked |-> ts, left |-> <<>>,
              count |-> 0, result |-> "none"]]

\* The call of worker w ends; op says what it was, count how many rows it took.
Return(w, op, ts, n, result) ==
  call' = [call EXCEPT ![w] =
             [busy |-> FALSE, op |-> op, picked |-> ts, left |-> <<>>,
              count |-> n, result |-> result]]

\* UPDATE ... SET status = st for the rows ts, the other columns untouched.
SetStatus(ts, st) ==
  sessions' = [t \in Tokens |->
                 IF t \in ts THEN [sessions[t] EXCEPT !.status = st]
                             ELSE sessions[t]]

-------------------------------------------------------------------------------
Init ==
  /\ now = 0
  /\ sessions = [t \in Tokens |-> NoRow]
  /\ call = [w \in Workers |-> NoCall]

Tick ==
  /\ now < MaxTime
  /\ now' = now + 1
  /\ UNCHANGED <<sessions, call>>

\* create_session: a fresh random token, one INSERT, one commit.
CreateSession(w, u) ==
  /\ Free(w)
  /\ \E t \in Tokens :
       /\ sessions[t].status = "NONE"
       /\ sessions' = [sessions EXCEPT ![t] =
                         [status |-> "ACTIVE", user |-> u,
                          expires |-> now + SessionTicks, mfa |-> FALSE]]
       /\ Return(w, "create", {t}, 1, "ok")
  /\ UNCHANGED now

\* validate_session up to its first commit, as called by the operation then.
\* Comparing an aware expires_at with the naive datetime.now() raises.
ValidateSession(w, t, then) ==
  /\ Free(w)
  /\ \/ /\ t \notin Active
        /\ Return(w, then, {t}, 0, "refused")
     \/ /\ t \in Active
        /\ AwareColumns
        /\ Return(w, then, {t}, 0, "error")
     \/ /\ t \in Overdue
        /\ ~AwareColumns
        /\ Await(w, "expire", {t})
     \/ /\ t \in Active \ Overdue
        /\ ~AwareColumns
        /\ IF then = "validate" THEN Return(w, then, {t}, 1, "ok")
                                ELSE Await(w, then, {t})
  /\ UNCHANGED <<now, sessions>>

CommitExpire(w) ==
  /\ Waiting(w, "expire")
  /\ SetStatus(call[w].picked, "EXPIRED")
  /\ Return(w, "expire", call[w].picked, 0, "refused")
  /\ UNCHANGED now

\* revoke_session: the lookup of an ACTIVE row, then the commit.
RevokeSession(w, t) ==
  /\ Free(w)
  /\ IF t \in Active THEN Await(w, "revoke", {t})
                     ELSE Return(w, "revoke", {t}, 0, "refused")
  /\ UNCHANGED <<now, sessions>>

\* revoke_user_sessions; keep is empty or holds the session to exclude.
RevokeUserSessions(w, u, keep) ==
  /\ Free(w)
  /\ Await(w, "revoke", {t \in Active : sessions[t].user = u} \ keep)
  /\ UNCHANGED <<now, sessions>>

CommitRevoke(w) ==
  /\ Waiting(w, "revoke")
  /\ SetStatus(call[w].picked, "REVOKED")
  /\ Return(w, "revoke", call[w].picked, Cardinality(call[w].picked), "ok")
  /\ UNCHANGED now

\* Faulty variant of CleanupExpired: the filter on expires_at is missing.
CleanupAllActive(w) ==
  /\ Free(w)
  /\ Await(w, "cleanup", Active)
  /\ UNCHANGED <<now, sessions>>

\* cleanup_expired_sessions: here the database compares the timestamps.
CleanupExpired(w) ==
  /\ Free(w)
  /\ Await(w, "cleanup", Overdue)
  /\ UNCHANGED <<now, sessions>>

\* Faulty variant of CommitCleanup: a status the column does not know.
CommitCleanupClosed(w) ==
  /\ Waiting(w, "cleanup")
  /\ SetStatus(call[w].picked, "CLOSED")
  /\ Return(w, "cleanup", call[w].picked, Cardinality(call[w].picked), "ok")
  /\ UNCHANGED now

CommitCleanup(w) ==
  /\ Waiting(w, "cleanup")
  /\ SetStatus(call[w].picked, "EXPIRED")
  /\ Return(w, "cleanup", call[w].picked, Cardinality(call[w].picked), "ok")
  /\ UNCHANGED now

\* revoke_sessions: one SELECT for each id of the list, one commit at the end.
RevokeSessions(w, ids) ==
  /\ Free(w)
  /\ call' = [call EXCEPT ![w] =
                [busy |-> TRUE, op |-> "scan", picked |-> {}, left |-> ids,
                 count |-> 0, result |-> "none"]]
  /\ UNCHANGED <<now, sessions>>

\* The status assigned to a row of the list is not flushed before the commit,
\* so the SELECT of a repeated id finds the row ACTIVE again and counts it.
ScanNext(w) ==
  LET c == call[w]
      t == Head(c.left)
  IN /\ Waiting(w, "scan")
     /\ c.left # <<>>
     /\ call' = [call EXCEPT ![w] =
                   [c EXCEPT !.left = Tail(c.left),
                             !.picked = c.picked \cup ({t} \cap Active),
                             !.count = IF t \in Active THEN c.count + 1
                                                       ELSE c.count]]
     /\ UNCHANGED <<now, sessions>>

CommitScan(w) ==
  /\ Waiting(w, "scan")
  /\ call[w].left = <<>>
  /\ SetStatus(call[w].picked, "REVOKED")
  /\ Return(w, "scan", call[w].picked, call[w].count, "ok")
  /\ UNCHANGED now

\* Faulty variant of CommitExtend: the row is written back as it was read.
CommitExtendWholeRow(w) ==
  /\ Waiting(w, "extend")
  /\ sessions' = [t \in Tokens |->
                    IF t \in call[w].picked
                    THEN [sessions[t] EXCEPT !.status = "ACTIVE",
                                             !.expires = now + ExtendTicks]
                    ELSE sessions[t]]
  /\ Return(w, "extend", call[w].picked, 1, "ok")
  /\ UNCHANGED now

\* extend_session after its validate_session.
CommitExtend(w) ==
  /\ Waiting(w, "extend")
  /\ sessions' = [t \in Tokens |->
                    IF t \in call[w].picked
                    THEN [sessions[t] EXCEPT !.expires = now + ExtendTicks]
                    ELSE sessions[t]]
  /\ Return(w, "extend", call[w].picked, 1, "ok")
  /\ UNCHANGED now

\* Faulty variant of CommitVerify: the row is written back as it was read.
CommitVerifyWholeRow(w) ==
  /\ Waiting(w, "verify")
  /\ sessions' = [t \in Tokens |->
                    IF t \in call[w].picked
                    THEN [sessions[t] EXCEPT !.status = "ACTIVE", !.mfa = TRUE]
                    ELSE sessions[t]]
  /\ Return(w, "verify", call[w].picked, 1, "ok")
  /\ UNCHANGED now

\* verify_mfa_for_session after its validate_session.
CommitVerify(w) ==
  /\ Waiting(w, "verify")
  /\ sessions' = [t \in Tokens |->
                    IF t \in call[w].picked
                    THEN [sessions[t] EXCEPT !.mfa = TRUE]
                    ELSE sessions[t]]
  /\ Return(w, "verify", call[w].picked, 1, "ok")
  /\ UNCHANGED now

\* The handler that made the call drops its result.
Forget(w) ==
  /\ Free(w)
  /\ call' = [call EXCEPT ![w] = NoCall]
  /\ UNCHANGED <<now, sessions>>

\* The process dies or the database call fails: nothing is committed.
Abort(w) ==
  /\ call[w].busy
  /\ Return(w, call[w].op, call[w].picked, 0, "error")
  /\ UNCHANGED <<now, sessions>>

\* The steps that carry a call on once it has begun.
Continue(w) ==
  \/ CommitExpire(w) \/ CommitRevoke(w) \/ CommitCleanup(w)
  \/ ScanNext(w) \/ CommitScan(w) \/ CommitExtend(w) \/ CommitVerify(w)

Begin(w) ==
  \/ \E u \in Users : CreateSession(w, u)
  \/ \E t \in Tokens, then \in {"validate", "extend", "verify"} :
       ValidateSession(w, t, then)
  \/ \E t \in Tokens : RevokeSession(w, t)
  \/ \E u \in Users, keep \in {{}} \cup {{t} : t \in Tokens} :
       RevokeUserSessions(w, u, keep)
  \/ CleanupExpired(w)
  \/ \E ids \in IdLists : RevokeSessions(w, ids)

Next ==
  \/ Tick
  \/ \E w \in Workers : Begin(w) \/ Continue(w) \/ Forget(w) \/ Abort(w)

Spec == Init /\ [][Next]_vars
-------------------------------------------------------------------------------
\* Every variable has its type.
TypeOK ==
  /\ now \in Nat
  /\ sessions \in [Tokens -> Row]
  /\ call \in [Workers -> Call]

\* A session that ended never becomes ACTIVE again, however many workers write
\* its row from stale reads: extend_session and verify_mfa_for_session commit
\* after their validation, and must not bring back what was revoked meanwhile.
Ended == {"EXPIRED", "REVOKED"}
NoResurrection ==
  [][\A t \in Tokens :
       sessions[t].status \in Ended => sessions'[t].status \in Ended]_vars

\* When a revocation has answered, none of the sessions it took is ACTIVE, then
\* or later: revoke_session, revoke_user_sessions and the revoke route.
RevokedAreEnded ==
  \A w \in Workers :
    /\ Free(w)
    /\ call[w].op \in {"revoke", "scan"}
    /\ call[w].result = "ok"
    => call[w].picked \cap Active = {}

\* The rows of the service, seen one by one, live as SessionLifecycle says.
\* With one worker the service implements it: an expiry is never early and the
\* way a session ended is final.  With several it does not.
Lifecycle == INSTANCE SessionLifecycle
               WITH status <- [t \in Tokens |-> sessions[t].status],
                    expires <- [t \in Tokens |-> sessions[t].expires]
LifecycleSpec == Lifecycle!Spec
===============================================================================
