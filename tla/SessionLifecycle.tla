--------------------------- MODULE SessionLifecycle ---------------------------
(***************************************************************************)
(* What the session service promises about one row of idam.sessions: a     *)
(* token is opened once, it ends once, by expiry only after its deadline   *)
(* or by revocation, and a session that ended stays as it ended.           *)
(* Sessions is the service that implements it.                             *)
(***************************************************************************)
EXTENDS Naturals

CONSTANTS Tokens,       \* session tokens
          SessionTicks, \* life of a new session
          ExtendTicks   \* life of an extended session

VARIABLES now,          \* the wall clock
          status,       \* status[t]: "NONE", or the status column
          expires       \* expires[t]: the expires_at column

vars == <<now, status, expires>>

Init ==
  /\ now = 0
  /\ status = [t \in Tokens |-> "NONE"]
  /\ expires = [t \in Tokens |-> 0]

Tick ==
  /\ now' = now + 1
  /\ UNCHANGED <<status, expires>>

Open(t) ==
  /\ status[t] = "NONE"
  /\ status' = [status EXCEPT ![t] = "ACTIVE"]
  /\ expires' = [expires EXCEPT ![t] = now + SessionTicks]
  /\ UNCHANGED now

\* One transaction may expire several sessions; each of them is overdue.
Expire(ts) ==
  /\ \A t \in ts : status[t] = "ACTIVE" /\ expires[t] < now
  /\ status' = [t \in Tokens |-> IF t \in ts THEN "EXPIRED" ELSE status[t]]
  /\ UNCHANGED <<now, expires>>

Revoke(ts) ==
  /\ \A t \in ts : status[t] = "ACTIVE"
  /\ status' = [t \in Tokens |-> IF t \in ts THEN "REVOKED" ELSE status[t]]
  /\ UNCHANGED <<now, expires>>

Extend(t) ==
  /\ status[t] = "ACTIVE"
  /\ expires' = [expires EXCEPT ![t] = now + ExtendTicks]
  /\ UNCHANGED <<now, status>>

Next ==
  \/ Tick
  \/ \E t \in Tokens : Open(t) \/ Extend(t)
  \/ \E ts \in SUBSET Tokens : Expire(ts) \/ Revoke(ts)

Spec == Init /\ [][Next]_vars
===============================================================================
