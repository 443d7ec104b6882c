------------------------------- MODULE Directory -------------------------------
(***************************************************************************)
(* What signup, user management and tenant management promise together:    *)
(* every request takes effect in one step or not at all, an email and a    *)
(* username belong to one user at a time, and the founder of a tenant      *)
(* appears with the tenant and with the membership that joins them.        *)
(* Accounts is the service that implements it.                             *)
(***************************************************************************)
CONSTANTS
  Users,     \* ids of idam.users, never used twice
  Emails,    \* email addresses
  Names,     \* usernames
  Tenants,   \* ids of tnnt.tenants
  Titles,    \* tenant names
  Codes,     \* tenant codes that clients choose
  Null       \* a column without a value; the random code of a signup

VARIABLES
  users,     \* users[i]: the row of idam.users
  tenants,   \* tenants[t]: the row of tnnt.tenants
  members    \* the rows of tnnt.tenant_users

vars == <<users, tenants, members>>

Kinds == {"MASTER", "TENANT", "USER"}
UserRow == [life : {"NONE", "LIVE", "GONE"}, email : Emails \cup {Null},
            name : Names \cup {Null}, kind : Kinds \cup {"NONE"}]
NoUserRow == [life |-> "NONE", email |-> Null, name |-> Null, kind |-> "NONE"]
GoneRow == [life |-> "GONE", email |-> Null, name |-> Null, kind |-> "NONE"]

TenantRow == [life : {"NONE", "LIVE", "DELETED"}, title : Titles \cup {Null},
              code : Codes \cup {Null}]
NoTenantRow == [life |-> "NONE", title |-> Null, code |-> Null]

Member == [tenant : Tenants, user : Users, admin : BOOLEAN]

NewUser(e, n, k) == [life |-> "LIVE", email |-> e, name |-> n, kind |-> k]
NewTenant(title, c) == [life |-> "LIVE", title |-> title, code |-> c]

Live == {i \in Users : users[i].life = "LIVE"}
\* The users that own the email e or the username n.
Owners(e, n) == {i \in Live : users[i].email = e \/ users[i].name = n}

Init ==
  /\ users = [i \in Users |-> NoUserRow]
  /\ tenants = [t \in Tenants |-> NoTenantRow]
  /\ members = {}

\* A user appears whose email and username nobody owns.
Enter(i, e, n, k) ==
  /\ users[i].life = "NONE"
  /\ Owners(e, n) = {}
  /\ users' = [users EXCEPT ![i] = NewUser(e, n, k)]

AddUser(i, e, n, k) ==
  /\ k # "TENANT"
  /\ Enter(i, e, n, k)
  /\ UNCHANGED <<tenants, members>>

Found(i, t, e, n, title) ==
  /\ Enter(i, e, n, "TENANT")
  /\ tenants[t].life = "NONE"
  /\ tenants' = [tenants EXCEPT ![t] = NewTenant(title, Null)]
  /\ members' = members \cup {[tenant |-> t, user |-> i, admin |-> TRUE]}

Join(i, t, e, n) ==
  /\ Enter(i, e, n, "TENANT")
  /\ tenants[t].life # "NONE"
  /\ members' = members \cup {[tenant |-> t, user |-> i, admin |-> FALSE]}
  /\ UNCHANGED tenants

Rename(i, e, n) ==
  /\ users[i].life = "LIVE"
  /\ Owners(e, n) \subseteq {i}
  /\ users' = [users EXCEPT ![i] = NewUser(e, n, users[i].kind)]
  /\ UNCHANGED <<tenants, members>>

Remove(i) ==
  /\ users[i].life = "LIVE"
  /\ users' = [users EXCEPT ![i] = GoneRow]
  /\ members' = {m \in members : m.user # i}
  /\ UNCHANGED tenants

AddTenant(t, title, c) ==
  /\ tenants[t].life = "NONE"
  /\ tenants' = [tenants EXCEPT ![t] = NewTenant(title, c)]
  /\ UNCHANGED <<users, members>>

\* A deleted tenant may still be edited by a request that found it before.
EditTenant(t, title, c) ==
  /\ tenants[t].life # "NONE"
  /\ tenants' = [tenants EXCEPT ![t] =
                   [life |-> tenants[t].life, title |-> title, code |-> c]]
  /\ UNCHANGED <<users, members>>

DropTenant(t) ==
  /\ tenants[t].life # "NONE"
  /\ tenants' = [tenants EXCEPT ![t] =
                   [life |-> "DELETED", title |-> tenants[t].title,
                    code |-> tenants[t].code]]
  /\ UNCHANGED <<users, members>>

UserStep(i) ==
  \/ \E e \in Emails, n \in Names :
       \/ \E k \in Kinds : AddUser(i, e, n, k)
       \/ \E t \in Tenants : Join(i, t, e, n) \/ \E x \in Titles : Found(i, t, e, n, x)
       \/ Rename(i, e, n)
  \/ Remove(i)

TenantStep(t) ==
  \/ \E x \in Titles, c \in Codes \cup {Null} : EditTenant(t, x, c)
  \/ \E x \in Titles, c \in Codes : AddTenant(t, x, c)
  \/ DropTenant(t)

Next ==
  \/ \E i \in Users : UserStep(i)
  \/ \E t \in Tenants : TenantStep(t)

Spec == Init /\ [][Next]_vars
===============================================================================
