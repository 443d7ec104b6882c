------------------------------- MODULE Accounts -------------------------------
(***************************************************************************)
(* Signup (AuthenticationService.signup), user management (UserService)    *)
(* and tenant management (TenantService) over idam.users, tnnt.tenants and *)
(* tnnt.tenant_users.                                                      *)
(*                                                                         *)
(* A worker reads and checks, then inserts or updates, then commits; other *)
(* workers run in between.  A row that is flushed and not committed is     *)
(* seen by nobody else, but its keys are taken: the unique index makes     *)
(* another INSERT or UPDATE of the same key wait for the transaction.      *)
(***************************************************************************)
CONSTANTS
  Users, Emails, Names, Tenants, Titles, Codes, Null,   \* see Directory
  Workers,      \* server processes
  SqlSchema     \* TRUE: tables as packages/database creates them;
                \* FALSE: tables as the ORM models declare them

VARIABLES
  users, tenants, members,   \* of Directory
  opened,       \* users with rows in idam.sessions
  txn,          \* txn[w]: the request worker w serves
  reply         \* what the last step answered

tables == <<users, tenants, members, opened>>
vars == <<tables, txn, reply>>

D == INSTANCE Directory
R == INSTANCE Routes

ASSUME NullAssumption ==
  Null \notin Users \cup Emails \cup Names \cup Tenants \cup Titles \cup Codes
ASSUME SchemaAssumption == SqlSchema \in BOOLEAN

Stages == {"idle", "username", "insert", "tenant", "enlist", "link",
           "rename", "remove", "removing", "newTenant", "editTenant",
           "dropTenant", "signedUp", "created", "renamed", "settled", "edited"}
\* What a handler holds: the fields of the request (Null: not given) and the
\* user and tenant it loaded or flushed.
Txn == [stage : Stages, email : Emails \cup {Null}, name : Names \cup {Null},
        kind : D!Kinds \cup {"NONE"}, title : Titles \cup {Null},
        code : Codes \cup {Null}, user : Users \cup {Null},
        tenant : Tenants \cup {Null}, founds : BOOLEAN]
NoTxn == [stage |-> "idle", email |-> Null, name |-> Null, kind |-> "NONE",
          title |-> Null, code |-> Null, user |-> Null, tenant |-> Null,
          founds |-> FALSE]
\* A request whose commit is done: what is left is to read the row again and to
\* answer on the route.
WroteUser(stage, i) == [NoTxn EXCEPT !.stage = stage, !.user = i]
WroteTenant(stage, t) == [NoTxn EXCEPT !.stage = stage, !.tenant = t]
Reloads == [signedUp |-> "signup", created |-> "createUser", renamed |-> "updateUser",
            settled |-> "createTenant", edited |-> "updateTenant"]

RouteNames == {"nobody", "signup", "readUsers", "readUser", "createUser",
               "updateUser", "deleteUser", "readTenants", "readTenant",
               "createTenant", "updateTenant", "deleteTenant", "switchTenant"}
Reply == [to : RouteNames, result : {"none"} \cup R!Outcomes]
Silence == [to |-> "nobody", result |-> "none"]

At(w, stage) == txn[w].stage = stage

Begin(w, t) ==
  /\ At(w, "idle")
  /\ txn' = [txn EXCEPT ![w] = t]
  /\ reply' = Silence
  /\ UNCHANGED tables

GoTo(w, stage) ==
  /\ txn' = [txn EXCEPT ![w].stage = stage]
  /\ reply' = Silence

\* The request is answered; what was flushed and not committed is rolled back.
Answer(w, to, result) ==
  /\ txn' = [txn EXCEPT ![w] = NoTxn]
  /\ reply' = [to |-> to, result |-> result]
Refuse(w, to, result) == Answer(w, to, result) /\ UNCHANGED tables
Commit(w, t) ==
  /\ txn' = [txn EXCEPT ![w] = t]
  /\ reply' = Silence

\* Rows that some transaction has flushed and not committed.
Flushed == {w \in Workers : At(w, "link")}
FreshUsers ==
  {i \in Users : users[i].life = "NONE" /\ \A v \in Flushed : txn[v].user # i}
FreshTenants ==
  {t \in Tenants : tenants[t].life = "NONE" /\ \A v \in Workers : txn[v].tenant # t}

\* Faulty variant of Waits: a key is taken from the moment a request asks for it.
WaitsEarly(w, e, n) ==
  \E v \in Workers \ {w} :
    txn[v].stage \in {"enlist", "link"} /\ (txn[v].email = e \/ txn[v].name = n)

\* The unique indexes on email and username.
Waits(w, e, n) ==
  \E v \in Flushed \ {w} : txn[v].email = e \/ txn[v].name = n

Conflict(e, n, i) == D!Owners(e, n) \ {i} # {}

Init ==
  /\ D!Init
  /\ opened = {}
  /\ txn = [w \in Workers |-> NoTxn]
  /\ reply = Silence

(***************************************************************************)
(* POST /signup                                                            *)
(***************************************************************************)
SignupEmail(w, e, n, k, x, founds) ==
  /\ At(w, "idle")
  /\ \/ /\ \E i \in D!Live : users[i].email = e
        /\ Refuse(w, "signup", "refused")
     \/ /\ \A i \in D!Live : users[i].email # e
        /\ Begin(w, [NoTxn EXCEPT !.stage = "username", !.email = e,
                                  !.name = n, !.kind = k, !.title = x,
                                  !.founds = founds])

SignupUsername(w) ==
  /\ At(w, "username")
  /\ \/ /\ \E i \in D!Live : users[i].name = txn[w].name
        /\ Answer(w, "signup", "refused")
     \/ /\ \A i \in D!Live : users[i].name # txn[w].name
        /\ GoTo(w, IF txn[w].kind = "MASTER" THEN "insert" ELSE "tenant")
  /\ UNCHANGED tables

\* Faulty variant of InsertUser: the columns have no unique index.
InsertUserUnchecked(w) ==
  /\ At(w, "insert")
  /\ \E i \in FreshUsers :
       /\ users' = [users EXCEPT ![i] = D!NewUser(txn[w].email, txn[w].name, txn[w].kind)]
       /\ Commit(w, WroteUser("signedUp", i))
  /\ UNCHANGED <<tenants, members, opened>>

\* INSERT and commit of a user who belongs to no tenant: an administrator, or
\* a user of UserService.create_user, whose type is the column's default USER
\* and refused by ck_users__user_type.
InsertUser(w) ==
  LET q == txn[w]
      stage == IF q.kind = "USER" THEN "created" ELSE "signedUp"
      barred == SqlSchema /\ q.kind = "USER"
  IN /\ At(w, "insert")
     /\ barred \/ ~Waits(w, q.email, q.name)
     /\ \/ /\ barred \/ Conflict(q.email, q.name, Null)
           /\ Refuse(w, Reloads[stage], "error")
        \/ /\ ~barred
           /\ ~Conflict(q.email, q.name, Null)
           /\ \E i \in FreshUsers :
                /\ users' = [users EXCEPT ![i] = D!NewUser(q.email, q.name, q.kind)]
                /\ Commit(w, WroteUser(stage, i))
           /\ UNCHANGED <<tenants, members, opened>>

\* Faulty variant of FindTenant: the new tenant is committed, as
\* TenantService.create_tenant does, where the signup flushes it.
FindTenantCommitted(w) ==
  /\ At(w, "tenant")
  /\ txn[w].founds
  /\ \E t \in FreshTenants :
       /\ tenants' = [tenants EXCEPT ![t] = D!NewTenant(txn[w].title, Null)]
       /\ txn' = [txn EXCEPT ![w].stage = "enlist", ![w].tenant = t]
  /\ reply' = Silence
  /\ UNCHANGED <<users, members, opened>>

\* A founder's tenant name must be new among all rows, deleted ones included;
\* its row is flushed under a random code.  Who joins needs an invitation,
\* which nobody checks, and the name of a tenant, deleted or not.
FindTenant(w) ==
  LET q == txn[w]
      named == {t \in Tenants : tenants[t].life # "NONE" /\ tenants[t].title = q.title}
  IN /\ At(w, "tenant")
     /\ \/ /\ q.founds => named # {}
           /\ Answer(w, "signup", "refused")
        \/ /\ q.founds => named = {}
           /\ \E t \in IF q.founds THEN FreshTenants ELSE named :
                txn' = [txn EXCEPT ![w].stage = "enlist", ![w].tenant = t]
           /\ reply' = Silence
     /\ UNCHANGED tables

\* Faulty variants of FlushUser: the user is committed before it is linked; no
\* unique index makes it wait.
FlushUserCommitted(w) ==
  /\ At(w, "enlist")
  /\ ~Waits(w, txn[w].email, txn[w].name)
  /\ ~Conflict(txn[w].email, txn[w].name, Null)
  /\ \E i \in FreshUsers :
       /\ users' = [users EXCEPT ![i] =
                      D!NewUser(txn[w].email, txn[w].name, "TENANT")]
       /\ txn' = [txn EXCEPT ![w].stage = "link", ![w].user = i]
  /\ reply' = Silence
  /\ UNCHANGED <<tenants, members, opened>>

FlushUserUnlocked(w) ==
  /\ At(w, "enlist")
  /\ ~Conflict(txn[w].email, txn[w].name, Null)
  /\ \E i \in FreshUsers :
       txn' = [txn EXCEPT ![w].stage = "link", ![w].user = i]
  /\ reply' = Silence
  /\ UNCHANGED tables

FlushUser(w) ==
  LET q == txn[w]
  IN /\ At(w, "enlist")
     /\ ~Waits(w, q.email, q.name)
     /\ \/ /\ Conflict(q.email, q.name, Null)
           /\ Answer(w, "signup", "error")
        \/ /\ ~Conflict(q.email, q.name, Null)
           /\ \E i \in FreshUsers :
                txn' = [txn EXCEPT ![w].stage = "link", ![w].user = i]
           /\ reply' = Silence
     /\ UNCHANGED tables

\* The membership and the commit of all three rows.  The table of the SQL
\* schema has no column "deleted", so there the INSERT fails.
LinkTenantUser(w) ==
  LET q == txn[w]
  IN /\ At(w, "link")
     /\ \/ /\ SqlSchema
           /\ Refuse(w, "signup", "error")
        \/ /\ ~SqlSchema
           /\ users' = [users EXCEPT ![q.user] = D!NewUser(q.email, q.name, "TENANT")]
           /\ tenants' = IF q.founds
                         THEN [tenants EXCEPT ![q.tenant] = D!NewTenant(q.title, Null)]
                         ELSE tenants
           /\ members' = members \cup
                {[tenant |-> q.tenant, user |-> q.user, admin |-> q.founds]}
           /\ Commit(w, WroteUser("signedUp", q.user))
           /\ UNCHANGED opened

(***************************************************************************)
(* /users                                                                  *)
(***************************************************************************)
CreateUser(w, e, n) ==
  /\ At(w, "idle")
  /\ \/ /\ D!Owners(e, n) # {}
        /\ Refuse(w, "createUser", "refused")
     \/ /\ D!Owners(e, n) = {}
        /\ Begin(w, [NoTxn EXCEPT !.stage = "insert", !.email = e, !.name = n,
                                  !.kind = "USER"])

\* The new email or username (Null: not among the fields) is looked for by a
\* subquery that selects from all users without a condition: any other user
\* refuses the change.  A change of other fields alone is not checked, and a
\* request without fields has nothing to do.  A value that the row already has
\* is not written.
UpdateUser(w, i, e, n) ==
  LET keys == e # Null \/ n # Null
  IN /\ At(w, "idle")
     /\ \/ /\ i \notin D!Live
           /\ Refuse(w, "updateUser", "missing")
        \/ /\ i \in D!Live
           /\ keys
           /\ D!Live # {i}
           /\ Refuse(w, "updateUser", "refused")
        \/ /\ i \in D!Live
           /\ ~keys
           /\ Refuse(w, "updateUser", "ok")
        \/ /\ i \in D!Live
           /\ keys => D!Live = {i}
           /\ Begin(w, [NoTxn EXCEPT !.stage = "rename", !.user = i,
                          !.email = IF users[i].email = e THEN Null ELSE e,
                          !.name = IF users[i].name = n THEN Null ELSE n])

\* UPDATE of the columns that change.  It raises for a row that is gone by now, a
\* key that has an owner by now, and a field the client sent as null.
RenameUser(w) ==
  LET q == txn[w]
      row == users[q.user]
      email == IF q.email = Null THEN row.email ELSE q.email
      name == IF q.name = Null THEN row.name ELSE q.name
  IN /\ At(w, "rename")
     /\ ~Waits(w, q.email, q.name)
     /\ \/ Refuse(w, "updateUser", "error")
        \/ /\ row.life = "LIVE"
           /\ ~Conflict(email, name, q.user)
           /\ users' = [users EXCEPT ![q.user] = D!NewUser(email, name, row.kind)]
           /\ Commit(w, WroteUser("renamed", q.user))
           /\ UNCHANGED <<tenants, members, opened>>

DeleteUser(w, i) ==
  /\ At(w, "idle")
  /\ \/ /\ i \notin D!Live
        /\ Refuse(w, "deleteUser", "missing")
     \/ /\ i \in D!Live
        /\ Begin(w, [NoTxn EXCEPT !.stage = "remove", !.user = i])

\* Before it deletes the row the ORM sets user_id of the rows it finds in
\* idam.sessions to NULL, which the column does not take.
DetachSessions(w) ==
  /\ At(w, "remove")
  /\ \/ /\ txn[w].user \in opened
        /\ Answer(w, "deleteUser", "error")
     \/ /\ txn[w].user \notin opened
        /\ GoTo(w, "removing")
  /\ UNCHANGED tables

\* Faulty variant of RemoveUser: sessions opened meanwhile are not cascaded.
RemoveUserOnly(w) ==
  LET i == txn[w].user
  IN /\ At(w, "removing")
     /\ users' = [users EXCEPT ![i] = D!GoneRow]
     /\ members' = {m \in members : m.user # i}
     /\ Answer(w, "deleteUser", "ok")
     /\ UNCHANGED <<tenants, opened>>

\* DELETE and commit: the keys cascade over what was inserted meanwhile.  A row
\* that another request deleted is only warned about.
RemoveUser(w) ==
  LET i == txn[w].user
  IN /\ At(w, "removing")
     /\ users' = [users EXCEPT ![i] = D!GoneRow]
     /\ members' = {m \in members : m.user # i}
     /\ opened' = opened \ {i}
     /\ Answer(w, "deleteUser", "ok")
     /\ UNCHANGED tenants

\* A login commits a session row of its own transaction.
OpenSession(i) ==
  /\ i \in D!Live
  /\ opened' = opened \cup {i}
  /\ reply' = Silence
  /\ UNCHANGED <<users, tenants, members, txn>>

(***************************************************************************)
(* /tenants                                                                *)
(***************************************************************************)
LiveTenants == {t \in Tenants : tenants[t].life = "LIVE"}
CodeTaken(c, t) == \E s \in LiveTenants \ {t} : tenants[s].code = c

CreateTenant(w, x, c) ==
  /\ At(w, "idle")
  /\ \/ /\ CodeTaken(c, Null)
        /\ Refuse(w, "createTenant", "refused")
     \/ /\ ~CodeTaken(c, Null)
        /\ Begin(w, [NoTxn EXCEPT !.stage = "newTenant", !.title = x, !.code = c])

\* Faulty variant of IndexConflict: the index covers rows that are not deleted.
LiveIndexConflict(c, t) == SqlSchema /\ CodeTaken(c, t)

\* The unique index of the SQL schema covers deleted rows; the check does not.
IndexConflict(c, t) ==
  /\ SqlSchema
  /\ \E s \in Tenants \ {t} : tenants[s].life # "NONE" /\ tenants[s].code = c

\* The INSERT fails as well when the client leaves business_type to its
\* default, which is longer than the column.
CommitNewTenant(w) ==
  LET q == txn[w]
  IN /\ At(w, "newTenant")
     /\ \/ Refuse(w, "createTenant", "error")
        \/ /\ ~IndexConflict(q.code, Null)
           /\ \E t \in FreshTenants :
                /\ tenants' = [tenants EXCEPT ![t] = D!NewTenant(q.title, q.code)]
                /\ Commit(w, WroteTenant("settled", t))
           /\ UNCHANGED <<users, members, opened>>

UpdateTenant(w, t, x, c) ==
  /\ At(w, "idle")
  /\ \/ /\ t \notin LiveTenants
        /\ Refuse(w, "updateTenant", "missing")
     \/ /\ t \in LiveTenants
        /\ c # Null /\ c # tenants[t].code /\ CodeTaken(c, Null)
        /\ Refuse(w, "updateTenant", "refused")
     \/ /\ t \in LiveTenants
        /\ ~(c # Null /\ c # tenants[t].code /\ CodeTaken(c, Null))
        /\ Begin(w, [NoTxn EXCEPT !.stage = "editTenant", !.tenant = t,
                       !.title = IF tenants[t].title = x THEN Null ELSE x,
                       !.code = IF tenants[t].code = c THEN Null ELSE c])

\* Faulty variant of CommitEditTenant: the row is written back as it was read.
CommitEditTenantWholeRow(w) ==
  LET q == txn[w]
  IN /\ At(w, "editTenant")
     /\ tenants' = [tenants EXCEPT ![q.tenant].life = "LIVE"]
     /\ Commit(w, WroteTenant("edited", q.tenant))
     /\ UNCHANGED <<users, members, opened>>

CommitEditTenant(w) ==
  LET q == txn[w]
      row == tenants[q.tenant]
  IN /\ At(w, "editTenant")
     /\ \/ /\ q.code # Null /\ IndexConflict(q.code, q.tenant)
           /\ Refuse(w, "updateTenant", "error")
        \/ /\ ~(q.code # Null /\ IndexConflict(q.code, q.tenant))
           /\ tenants' = [tenants EXCEPT ![q.tenant] =
                [life |-> row.life,
                 title |-> IF q.title = Null THEN row.title ELSE q.title,
                 code |-> IF q.code = Null THEN row.code ELSE q.code]]
           /\ Commit(w, WroteTenant("edited", q.tenant))
           /\ UNCHANGED <<users, members, opened>>

DeleteTenant(w, t) ==
  /\ At(w, "idle")
  /\ \/ /\ t \notin LiveTenants
        /\ Refuse(w, "deleteTenant", "missing")
     \/ /\ t \in LiveTenants
        /\ Begin(w, [NoTxn EXCEPT !.stage = "dropTenant", !.tenant = t])

\* Faulty variant of CommitDropTenant: a status instead of the flag.
CommitDropTenantArchived(w) ==
  /\ At(w, "dropTenant")
  /\ tenants' = [tenants EXCEPT ![txn[w].tenant].life = "ARCHIVED"]
  /\ Answer(w, "deleteTenant", "ok")
  /\ UNCHANGED <<users, members, opened>>

CommitDropTenant(w) ==
  LET row == tenants[txn[w].tenant]
  IN /\ At(w, "dropTenant")
     /\ tenants' = [tenants EXCEPT ![txn[w].tenant] =
                      [life |-> "DELETED", title |-> row.title, code |-> row.code]]
     /\ Answer(w, "deleteTenant", "ok")
     /\ UNCHANGED <<users, members, opened>>

\* suspend_tenant and activate_tenant import a name that the models do not
\* define, after they found the tenant and before they change it.
SwitchTenant(w, t) ==
  /\ At(w, "idle")
  /\ Refuse(w, "switchTenant", IF t \in LiveTenants THEN "error" ELSE "missing")

(***************************************************************************)
(* Answers                                                                 *)
(***************************************************************************)
\* Faulty variant of Reload: the request answers with the row it wrote.
ReloadSkipped(w) ==
  /\ txn[w].stage \in DOMAIN Reloads
  /\ Refuse(w, Reloads[txn[w].stage], "ok")

\* refresh, a SELECT of a new transaction: it raises when another request has
\* deleted the user since the commit.  A tenant only gets a flag: it is found.
Reload(w) ==
  LET q == txn[w]
      there == IF q.user # Null THEN q.user \in D!Live
               ELSE tenants[q.tenant].life # "NONE"
  IN /\ q.stage \in DOMAIN Reloads
     /\ Refuse(w, Reloads[q.stage], IF there THEN "ok" ELSE "error")

ReadUser(w, i) ==
  /\ At(w, "idle")
  /\ Refuse(w, "readUser", IF i \in D!Live THEN "ok" ELSE "missing")

ReadTenant(w, t) ==
  /\ At(w, "idle")
  /\ Refuse(w, "readTenant", IF t \in LiveTenants THEN "ok" ELSE "missing")

\* The lists take skip and limit as they come; a negative one raises.  The list
\* of users counts them in a second SELECT.
ReadUsers(w) ==
  /\ At(w, "idle")
  /\ \E result \in {"ok", "error"} : Refuse(w, "readUsers", result)

ReadTenants(w) ==
  /\ At(w, "idle")
  /\ \E result \in {"ok", "error"} : Refuse(w, "readTenants", result)

\* What the client is told.
Told(said) ==
  LET q == said.result
  IN CASE said.to = "signup" -> R!Signup(q)
       [] said.to = "readUsers" -> R!ReadUsers(q)
       [] said.to = "readUser" -> R!ReadUser(q)
       [] said.to = "createUser" -> R!CreateUser(q)
       [] said.to = "updateUser" -> R!UpdateUser(q)
       [] said.to = "deleteUser" -> R!DeleteUser(q)
       [] said.to = "readTenants" -> R!ReadTenants(q)
       [] said.to = "readTenant" -> R!ReadTenant(q)
       [] said.to = "createTenant" -> R!CreateTenant(q)
       [] said.to = "updateTenant" -> R!UpdateTenant(q)
       [] said.to = "deleteTenant" -> R!DeleteTenant(q)
       [] said.to = "switchTenant" -> R!SwitchTenant(q)

-------------------------------------------------------------------------------
\* The process dies, or the database call fails: nothing is committed.
Crash(w) ==
  /\ ~At(w, "idle")
  /\ txn' = [txn EXCEPT ![w] = NoTxn]
  /\ reply' = Silence
  /\ UNCHANGED tables

Receive(w) ==
  \/ \E e \in Emails, n \in Names :
       \/ SignupEmail(w, e, n, "MASTER", Null, FALSE)
       \/ \E x \in Titles, founds \in BOOLEAN : SignupEmail(w, e, n, "TENANT", x, founds)
       \/ CreateUser(w, e, n)
  \/ \E i \in Users, e \in Emails \cup {Null}, n \in Names \cup {Null} : UpdateUser(w, i, e, n)
  \/ \E i \in Users : DeleteUser(w, i) \/ ReadUser(w, i)
  \/ \E x \in Titles, c \in Codes : CreateTenant(w, x, c)
  \/ \E t \in Tenants :
       \/ \E x \in Titles \cup {Null}, c \in Codes \cup {Null} : UpdateTenant(w, t, x, c)
       \/ DeleteTenant(w, t) \/ SwitchTenant(w, t) \/ ReadTenant(w, t)
  \/ ReadUsers(w) \/ ReadTenants(w)

Serve(w) ==
  \/ SignupUsername(w) \/ InsertUser(w) \/ FindTenant(w) \/ FlushUser(w)
  \/ LinkTenantUser(w) \/ RenameUser(w) \/ DetachSessions(w) \/ RemoveUser(w)
  \/ CommitNewTenant(w) \/ CommitEditTenant(w) \/ CommitDropTenant(w) \/ Reload(w)

Next ==
  \/ \E i \in Users : OpenSession(i)
  \/ \E w \in Workers : Receive(w) \/ Serve(w) \/ Crash(w)

Spec == Init /\ [][Next]_vars

\* The server goes on with every request.  A statement that waits for the key of
\* another transaction is woken when that one ends; it may then wait for the
\* next, but newcomers do not get past it for ever.
Fairness == \A w \in Workers : SF_vars(Serve(w))

FairSpec == Spec /\ Fairness
-------------------------------------------------------------------------------
\* Every variable has its type.
TypeOK ==
  /\ users \in [Users -> D!UserRow]
  /\ tenants \in [Tenants -> D!TenantRow]
  /\ members \subseteq D!Member
  /\ opened \subseteq Users
  /\ txn \in [Workers -> Txn]
  /\ reply \in Reply

\* Two users share neither an email nor a username, whatever signups, creations
\* and changes ran at the same time.
IdentitiesUnique ==
  \A i, j \in D!Live :
    users[i].email = users[j].email \/ users[i].name = users[j].name => i = j

\* A tenant of a signup (its code is random) appears together with its founder
\* and with the founder's membership, or not at all.
FoundedWhole ==
  [][\A t \in Tenants :
       /\ tenants[t].life = "NONE" /\ tenants'[t].life # "NONE"
       /\ tenants'[t].code = Null
       => \E i \in Users :
            /\ users[i].life = "NONE" /\ users'[i].life = "LIVE"
            /\ [tenant |-> t, user |-> i, admin |-> TRUE] \in members']_vars

\* A user of type TENANT belongs to a tenant; no crash between the three
\* INSERTs leaves one without.
TenantUsersEnrolled ==
  \A i \in D!Live :
    users[i].kind = "TENANT" => \E m \in members : m.user = i

\* Memberships and sessions belong to users that exist, whatever was inserted
\* while a deletion ran.
NothingLeftBehind ==
  /\ \A m \in members : m.user \in D!Live /\ tenants[m.tenant].life # "NONE"
  /\ opened \subseteq D!Live

\* A tenant that was deleted stays deleted, also under a change that loaded it
\* before.
DeletionIsFinal ==
  [][\A t \in Tenants : tenants[t].life = "DELETED" => tenants'[t].life = "DELETED"]_vars

\* Under the SQL schema a code belongs to one tenant for ever, deleted or not.
CodesUnique ==
  SqlSchema =>
    \A s, t \in Tenants :
      tenants[s].code # Null /\ tenants[s].code = tenants[t].code => s = t

\* Who signs up is told of success exactly when the account is there at that
\* moment, whatever was deleted between the commit and the answer; who deletes a
\* user, exactly when nothing of the user is left; and a tenant that was created
\* is never answered as a failure.  (Creating or changing a user under /users is
\* never answered as a success: its response model refuses the row.)
AccountsAsTold ==
  [][\A w \in Workers :
       LET i == txn[w].user
           told == Told(reply').success
       IN /\ ~At(w, "idle") /\ txn'[w].stage = "idle" /\ reply' # Silence
          => /\ reply'.to = "signup" => (told <=> i \in D!Live')
             /\ reply'.to = "deleteUser" =>
                  (told <=> i \notin D!Live' \cup opened'
                            /\ \A m \in members' : m.user # i)
             /\ reply'.to = "createTenant" => (told <=> txn[w].tenant # Null)]_vars

\* Every request ends, with an answer or a crash: two that wait for each other's
\* flushed keys would not.  (Bound: the instance may run out of user ids, which
\* the database does not.)
RequestsEnd ==
  \A w \in Workers :
    ~At(w, "idle") ~> \/ At(w, "idle")
                     \/ \A i \in Users : users[i].life = "GONE"

\* Every request takes effect in one step or not at all.
DirectorySpec == D!Spec
===============================================================================
