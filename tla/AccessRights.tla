----------------------------- MODULE AccessRights -----------------------------
(***************************************************************************)
(* What the services for roles and permissions and the seeding script      *)
(* promise together: a role, a permission or a user appears and disappears *)
(* in one step, with every grant and assignment of it; two roles or two    *)
(* permissions never share a code; a link joins two that are there and     *)
(* goes alone.  Which mapping rows stand for the links is left open.       *)
(* AccessControl is the service that implements it, Seeding the script.    *)
(***************************************************************************)
EXTENDS Naturals

CONSTANTS
  Roles, Permissions, Users,  \* ids, never used twice
  Codes,                      \* of roles and permissions
  Null,                       \* a column without a value
  SqlSchema                   \* TRUE: a permission is granted to a role once

VARIABLES
  things,   \* rows of roles, permissions and users
  held      \* held[<<r, x>>]: how many times role r is linked to x

vars == <<things, held>>

Things == Roles \cup Permissions \cup Users
Pairs == Roles \X (Permissions \cup Users)

Live == {x \in Things : things[x].life = "LIVE"}
\* The rows if exactly these exist: two of a family have different codes.
Distinct(rows) ==
  \A family \in {Roles, Permissions} : \A x, y \in family :
    rows[x] = rows[y] /\ rows[x].life = "LIVE" => x = y

Init ==
  /\ things = [x \in Things |-> [life |-> "NONE", code |-> Null]]
  /\ held = [p \in Pairs |-> 0]

\* A client adds one row, a phase of the script all that it missed.
Enter(batch) ==
  /\ \A x \in batch : things[x].life = "NONE"
  /\ \E code \in [batch -> Codes \cup {Null}] :
       things' = [x \in Things |-> IF x \in batch
                                   THEN [life |-> "LIVE", code |-> code[x]]
                                   ELSE things[x]]
  /\ Distinct(things')
  /\ UNCHANGED held

Remove(x) ==
  /\ x \in Live
  /\ things' = [things EXCEPT ![x] = [life |-> "GONE", code |-> Null]]
  /\ held' = [p \in Pairs |-> IF x \in {p[1], p[2]} THEN 0 ELSE held[p]]

Link(p) ==
  /\ {p[1], p[2]} \subseteq Live
  /\ SqlSchema /\ p[2] \in Permissions => held[p] = 0
  /\ held' = [held EXCEPT ![p] = @ + 1]
  /\ UNCHANGED things

Unlink(p) ==
  /\ held[p] > 0
  /\ held' = [held EXCEPT ![p] = @ - 1]
  /\ UNCHANGED things

Next ==
  \/ \E batch \in SUBSET Things : Enter(batch)
  \/ \E x \in Things : Remove(x)
  \/ \E p \in Pairs : Link(p) \/ Unlink(p)

Spec == Init /\ [][Next]_vars
===============================================================================
