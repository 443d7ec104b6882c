------------------------------ MODULE AccountLock ------------------------------
(***************************************************************************)
(* What the login service promises about the failure columns of one user:  *)
(* wrong passwords are counted, the count that reaches MaxFailed locks the *)
(* account, every further wrong password moves the deadline on, and only a *)
(* login after the deadline, or on an account that is not locked, resets   *)
(* both columns.  Authentication implements it when one worker serves.     *)
(***************************************************************************)
EXTENDS Naturals

CONSTANTS Users, MaxFailed, LockTicks,
          NoTime        \* NULL in a timestamp column

VARIABLES now, count, until

vars == <<now, count, until>>

Init ==
  /\ now = 0
  /\ count = [u \in Users |-> 0]
  /\ until = [u \in Users |-> NoTime]

Tick ==
  /\ now' = now + 1
  /\ UNCHANGED <<count, until>>

Fail(u) ==
  /\ count[u] + 1 < MaxFailed
  /\ count' = [count EXCEPT ![u] = @ + 1]
  /\ UNCHANGED <<now, until>>

Lock(u) ==
  /\ count[u] + 1 >= MaxFailed
  /\ count' = [count EXCEPT ![u] = @ + 1]
  /\ until' = [until EXCEPT ![u] = now + LockTicks]
  /\ UNCHANGED now

LogIn(u) ==
  /\ until[u] = NoTime \/ until[u] <= now
  /\ count' = [count EXCEPT ![u] = 0]
  /\ until' = [until EXCEPT ![u] = NoTime]
  /\ UNCHANGED now

Next == Tick \/ \E u \in Users : Fail(u) \/ Lock(u) \/ LogIn(u)

Spec == Init /\ [][Next]_vars
===============================================================================
