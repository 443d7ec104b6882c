---------------------------- MODULE AccountsProofs ----------------------------
(***************************************************************************)
(* Theorems about signup, user management and tenant management, for any   *)
(* number of workers, users and tenants, under both schemas.               *)
(***************************************************************************)
EXTENDS Accounts, TLAPS

\* What the committed rows satisfy.
RowsSound ==
  /\ \A i \in Users : users[i].life = "LIVE" =>
       users[i].email \in Emails /\ users[i].name \in Names /\ users[i].kind \in D!Kinds
  /\ \A i \in Users : users[i].life = "GONE" => users[i] = D!GoneRow
  /\ \A t \in Tenants : tenants[t].life # "NONE" => tenants[t].title \in Titles
  /\ \A m \in members : m.user \in D!Live /\ tenants[m.tenant].life # "NONE"
  /\ opened \subseteq D!Live

\* Nobody owns the email e or the username n.
Unowned(e, n) ==
  \A i \in Users :
    users[i].life = "LIVE" => users[i].email # e /\ users[i].name # n

\* What a request knows at its stage, however many requests ran since it looked.
Holds(q) ==
  /\ q.stage \in {"username", "insert", "tenant", "enlist", "link"}
       => q.email \in Emails /\ q.name \in Names
  /\ q.stage = "username" => q.kind \in {"MASTER", "TENANT"}
  /\ q.stage = "username" /\ q.kind = "TENANT" => q.title \in Titles
  /\ q.stage = "insert" => q.kind \in {"MASTER", "USER"}
  /\ q.stage \in {"tenant", "enlist", "link"} => q.title \in Titles
  /\ q.stage \in {"enlist", "link"} =>
       q.tenant \in Tenants /\ (q.founds <=> tenants[q.tenant].life = "NONE")
  /\ q.stage = "link" => /\ q.user \in Users
                         /\ users[q.user].life = "NONE"
                         /\ Unowned(q.email, q.name)
  /\ q.stage \in {"rename", "remove", "removing"} =>
       q.user \in Users /\ users[q.user].life # "NONE"
  /\ q.stage = "newTenant" => q.title \in Titles /\ q.code \in Codes /\ q.tenant = Null
  /\ q.stage \in {"editTenant", "dropTenant"} =>
       q.tenant \in Tenants /\ tenants[q.tenant].life # "NONE"
  /\ q.stage \in {"username", "insert", "tenant", "enlist"} => q.user = Null
  /\ q.stage \in {"signedUp", "created", "renamed"} => q.user \in Users
  /\ q.stage \in {"settled", "edited"} =>
       q.user = Null /\ q.tenant \in Tenants /\ tenants[q.tenant].life # "NONE"

\* The uncommitted rows of two requests never meet.
Apart(q, r) ==
  /\ q.stage = "link" /\ r.stage = "link" =>
       q.user # r.user /\ q.email # r.email /\ q.name # r.name
  /\ q.stage \in {"enlist", "link"} /\ r.stage \in {"enlist", "link"}
       /\ q.founds /\ r.founds => q.tenant # r.tenant

IInv ==
  /\ TypeOK
  /\ RowsSound
  /\ \A w \in Workers : Holds(txn[w])
  /\ \A v, w \in Workers : v # w => Apart(txn[v], txn[w])

-------------------------------------------------------------------------------
\* Begin, GoTo and Answer without effect on the tables: one record changes.
LEMMA MoveKeeps ==
  ASSUME IInv, UNCHANGED tables, reply' \in Reply,
         NEW w \in Workers, NEW q \in Txn, txn' = [txn EXCEPT ![w] = q],
         Holds(q), \A v \in Workers : v # w => Apart(txn[v], q)
  PROVE  IInv'
<1>1. TypeOK'
  BY DEF IInv, TypeOK, tables
<1>2. RowsSound'
  BY DEF IInv, RowsSound, tables, D!Live
<1>3. \A v \in Workers : txn'[v] = IF v = w THEN q ELSE txn[v]
  BY DEF IInv, TypeOK
<1>4. \A v \in Workers : Holds(txn[v]) => v = w \/ Holds(txn[v])'
  BY <1>3 DEF Holds, tables, Unowned
<1>5. \A v \in Workers : Holds(txn[v])'
  BY <1>3, <1>4 DEF IInv, Holds, tables, Unowned
<1>6. \A v \in Workers : v # w => Apart(q, txn[v])
  BY DEF Apart
<1>7. \A v, u \in Workers : v # u => Apart(txn[v], txn[u])'
  BY <1>3, <1>6 DEF IInv, Apart
<1>8. QED
  BY <1>1, <1>2, <1>5, <1>7 DEF IInv

\* The record of an idle worker claims nothing.
LEMMA NoTxnHolds ==
  /\ NoTxn \in Txn
  /\ Holds(NoTxn)
  /\ \A r : Apart(r, NoTxn)
  BY DEF NoTxn, Txn, Stages, D!Kinds, Holds, Apart

\* A request that ends without effect: Refuse, and Crash.
LEMMA RefuseKeeps ==
  ASSUME IInv, UNCHANGED tables, reply' \in Reply,
         NEW w \in Workers, txn' = [txn EXCEPT ![w] = NoTxn]
  PROVE  IInv'
  BY MoveKeeps, NoTxnHolds

\* After its commit a request has nothing that is not committed.
Rests(q) == q \in Txn /\ Holds(q)' /\ q.stage \notin {"enlist", "link"}

LEMMA RestsAnswered == Rests(NoTxn)
  BY NoTxnHolds DEF Rests, NoTxn, Holds

LEMMA RestsUser ==
  ASSUME NEW i \in Users, NEW stage \in {"signedUp", "created", "renamed"}
  PROVE  Rests(WroteUser(stage, i))
<1>1. WroteUser(stage, i) \in Txn
  BY DEF WroteUser, NoTxn, Txn, Stages, D!Kinds
<1>2. /\ WroteUser(stage, i).stage = stage
      /\ WroteUser(stage, i).user = i
  BY DEF WroteUser, NoTxn
<1>3. QED
  BY <1>1, <1>2 DEF Rests, Holds

LEMMA RestsTenant ==
  ASSUME NEW t \in Tenants, NEW stage \in {"settled", "edited"},
         tenants'[t].life # "NONE"
  PROVE  Rests(WroteTenant(stage, t))
<1>1. WroteTenant(stage, t) \in Txn
  BY DEF WroteTenant, NoTxn, Txn, Stages, D!Kinds
<1>2. /\ WroteTenant(stage, t).stage = stage
      /\ WroteTenant(stage, t).user = Null
      /\ WroteTenant(stage, t).tenant = t
  BY DEF WroteTenant, NoTxn
<1>3. QED
  BY <1>1, <1>2 DEF Rests, Holds

\* The commit of the request of w, of which q is left, undoes no row that exists,
\* touches no row that another request fills and takes no key of another.
Commits(w, q) ==
  /\ reply' \in Reply
  /\ txn' = [txn EXCEPT ![w] = q] /\ Rests(q)
  /\ users' \in [Users -> D!UserRow] /\ tenants' \in [Tenants -> D!TenantRow]
  /\ members' \subseteq D!Member /\ opened' \subseteq Users
  /\ RowsSound'
  /\ \A i \in Users : users[i].life # "NONE" => users'[i].life # "NONE"
  /\ \A t \in Tenants : tenants[t].life # "NONE" => tenants'[t].life # "NONE"
  /\ \A v \in Workers : v # w /\ txn[v].stage = "link" =>
       /\ users'[txn[v].user].life = "NONE"
       /\ \A i \in Users : users'[i].life = "LIVE" =>
            users'[i].email # txn[v].email /\ users'[i].name # txn[v].name
  /\ \A v \in Workers :
       v # w /\ txn[v].stage \in {"enlist", "link"} /\ txn[v].founds
         => tenants'[txn[v].tenant].life = "NONE"

\* The others keep what they know when such a commit happens.
LEMMA CommitKeeps ==
  ASSUME IInv, NEW w \in Workers, NEW q, Commits(w, q)
  PROVE  IInv'
<1> USE DEF Commits, Rests
<1>1. \A v \in Workers : txn'[v] = IF v = w THEN q ELSE txn[v]
  BY DEF IInv, TypeOK
<1>2. TypeOK'
  BY DEF IInv, TypeOK
<1>4. ASSUME NEW v \in Workers, v # w PROVE Holds(txn[v])'
  <2>1. Holds(txn[v]) /\ txn'[v] = txn[v]
    BY <1>1, <1>4 DEF IInv
  <2>2. txn[v].stage \in {"enlist", "link"} =>
          (txn[v].founds <=> tenants'[txn[v].tenant].life = "NONE")
    BY <2>1, <1>4 DEF Holds
  <2>3. QED
    BY <2>1, <2>2, <1>4 DEF Holds, Unowned
<1>5. \A v \in Workers : Holds(txn[v])'
  BY <1>1, <1>4 DEF Holds, Unowned
<1>6. \A v, u \in Workers : v # u => Apart(txn[v], txn[u])'
  BY <1>1 DEF IInv, Apart
<1>7. QED
  BY <1>2, <1>5, <1>6 DEF IInv

-------------------------------------------------------------------------------
\* What every step is shown to do: keep the invariant, and do at most one step
\* of Directory.
Good == IInv' /\ (D!Next \/ UNCHANGED D!vars)

LEMMA TablesKept ==
  UNCHANGED tables => UNCHANGED D!vars
  BY DEF tables, D!vars

LEMMA ReplyTyped ==
  /\ Silence \in Reply
  /\ \A to \in RouteNames, r \in {"ok", "refused", "missing", "error"} :
       [to |-> to, result |-> r] \in Reply
  BY DEF Silence, Reply, RouteNames, R!Outcomes

\* A request that is answered and changes nothing.
LEMMA RefuseGood ==
  ASSUME IInv, NEW w \in Workers, NEW to \in RouteNames,
         NEW r \in {"ok", "refused", "missing", "error"},
         Answer(w, to, r), UNCHANGED tables
  PROVE  Good
  BY RefuseKeeps, ReplyTyped, TablesKept DEF Answer, Good

\* A request that is loaded: its record must hold, and keep apart from others.
LEMMA BeginGood ==
  ASSUME IInv, NEW w \in Workers, NEW q \in Txn, Begin(w, q), Holds(q),
         q.stage \notin {"enlist", "link"}
  PROVE  Good
<1>1. \A v \in Workers : Apart(txn[v], q)
  BY DEF Apart
<1>2. QED
  BY <1>1, MoveKeeps, ReplyTyped, TablesKept DEF Begin, Good

\* The stages that only read: SignupEmail to FlushUser.
LEMMA SignupEmailGood ==
  ASSUME IInv, NEW w \in Workers, NEW e \in Emails, NEW n \in Names,
         NEW k, NEW x, NEW founds \in BOOLEAN, SignupEmail(w, e, n, k, x, founds),
         \/ k = "MASTER" /\ x = Null
         \/ k = "TENANT" /\ x \in Titles
  PROVE  Good
<1> DEFINE q == [NoTxn EXCEPT !.stage = "username", !.email = e,
                              !.name = n, !.kind = k, !.title = x,
                              !.founds = founds]
<1>1. CASE Refuse(w, "signup", "refused")
  BY <1>1, RefuseGood DEF Refuse, RouteNames
<1>2. CASE Begin(w, q)
  <2>1. q \in Txn /\ Holds(q) /\ q.stage = "username"
    BY DEF NoTxn, Txn, Stages, D!Kinds, Holds
  <2>2. QED
    BY <1>2, <2>1, BeginGood
<1>3. QED
  BY <1>1, <1>2 DEF SignupEmail

LEMMA SignupUsernameGood ==
  ASSUME IInv, NEW w \in Workers, SignupUsername(w)
  PROVE  Good
<1>1. CASE Answer(w, "signup", "refused")
  BY <1>1, RefuseGood DEF SignupUsername, RouteNames
<1>2. CASE GoTo(w, IF txn[w].kind = "MASTER" THEN "insert" ELSE "tenant")
  <2> DEFINE st == IF txn[w].kind = "MASTER" THEN "insert" ELSE "tenant"
             q == [txn[w] EXCEPT !.stage = st]
  <2>1. txn[w] \in Txn /\ Holds(txn[w]) /\ txn[w].stage = "username"
    BY DEF IInv, TypeOK, SignupUsername, At
  <2>2. q \in Txn /\ Holds(q) /\ q.stage \notin {"enlist", "link"}
    BY <2>1 DEF Txn, Stages, Holds
  <2>3. txn' = [txn EXCEPT ![w] = q] /\ reply' = Silence
    BY <1>2, <2>1 DEF GoTo, IInv, TypeOK
  <2>4. \A v \in Workers : Apart(txn[v], q)
    BY <2>2 DEF Apart
  <2>5. QED
    BY <2>2, <2>3, <2>4, MoveKeeps, ReplyTyped, TablesKept DEF SignupUsername, Good
<1>3. QED
  BY <1>1, <1>2 DEF SignupUsername

LEMMA FindTenantGood ==
  ASSUME IInv, NEW w \in Workers, FindTenant(w)
  PROVE  Good
<1>0. txn[w] \in Txn /\ Holds(txn[w]) /\ txn[w].stage = "tenant"
  BY DEF IInv, TypeOK, FindTenant, At
<1>1. CASE Answer(w, "signup", "refused")
  BY <1>1, RefuseGood DEF FindTenant, RouteNames
<1>2. ASSUME NEW t \in Tenants, txn[w].founds => t \in FreshTenants,
             ~txn[w].founds => tenants[t].life # "NONE",
             txn' = [txn EXCEPT ![w].stage = "enlist", ![w].tenant = t],
             reply' = Silence
      PROVE  Good
  <2> DEFINE q == [txn[w] EXCEPT !.stage = "enlist", !.tenant = t]
  <2>1. q \in Txn /\ Holds(q) /\ q.stage = "enlist" /\ q.tenant = t
          /\ q.founds = txn[w].founds
    BY <1>0, <1>2 DEF Txn, Stages, Holds, FreshTenants
  <2>2. txn' = [txn EXCEPT ![w] = q]
    BY <1>0, <1>2 DEF IInv, TypeOK
  <2>3. \A v \in Workers : Apart(txn[v], q)
    BY <2>1, <1>2 DEF Apart, FreshTenants
  <2>4. QED
    BY <1>2, <2>1, <2>2, <2>3, MoveKeeps, ReplyTyped, TablesKept DEF FindTenant, Good
<1>3. QED
  BY <1>1, <1>2 DEF FindTenant, FreshTenants

\* The flushed row keeps apart from all others: its id is fresh, and Waits is
\* false.
LEMMA FlushUserGood ==
  ASSUME IInv, NEW w \in Workers, FlushUser(w)
  PROVE  Good
<1>0. txn[w] \in Txn /\ Holds(txn[w]) /\ txn[w].stage = "enlist"
  BY DEF IInv, TypeOK, FlushUser, At
<1>1. CASE Answer(w, "signup", "error")
  BY <1>1, RefuseGood DEF FlushUser, RouteNames
<1>2. ASSUME ~Conflict(txn[w].email, txn[w].name, Null),
             NEW i \in FreshUsers,
             txn' = [txn EXCEPT ![w].stage = "link", ![w].user = i],
             reply' = Silence
      PROVE  Good
  <2> DEFINE q == [txn[w] EXCEPT !.stage = "link", !.user = i]
  <2>1. Unowned(txn[w].email, txn[w].name)
    BY <1>2, NullAssumption DEF Conflict, D!Owners, D!Live, Unowned
  <2>2. i \in Users /\ users[i].life = "NONE"
    BY DEF FreshUsers
  <2>3. q \in Txn /\ Holds(q) /\ q.stage = "link" /\ q.user = i
          /\ q.email = txn[w].email /\ q.name = txn[w].name
          /\ q.founds = txn[w].founds /\ q.tenant = txn[w].tenant
    BY <1>0, <2>1, <2>2 DEF Txn, Stages, Holds
  <2>4. txn' = [txn EXCEPT ![w] = q]
    BY <1>0, <1>2 DEF IInv, TypeOK
  <2>5. ASSUME NEW v \in Workers, v # w PROVE Apart(txn[v], q)
    <3>1. txn[v].stage = "link" =>
            txn[v].user # i /\ txn[v].email # q.email /\ txn[v].name # q.name
      BY <2>3, <2>5 DEF FreshUsers, Flushed, At, FlushUser, Waits
    <3>2. Apart(txn[v], txn[w])
      BY <2>5 DEF IInv
    <3>3. QED
      BY <1>0, <2>3, <3>1, <3>2 DEF Apart
  <2>6. QED
    BY <1>2, <2>3, <2>4, <2>5, MoveKeeps, ReplyTyped, TablesKept DEF FlushUser, Good
<1>3. QED
  BY <1>1, <1>2 DEF FlushUser

\* A commit that writes one user row, and no row and no key of another request.
LEMMA UserCommitGood ==
  ASSUME IInv, NEW w \in Workers,
         reply' \in Reply,
         NEW q, txn' = [txn EXCEPT ![w] = q], Rests(q),
         UNCHANGED <<tenants, members, opened>>,
         NEW i \in Users, NEW row \in D!UserRow,
         users' = [users EXCEPT ![i] = row],
         row.life = "LIVE", row.email \in Emails, row.name \in Names,
         row.kind \in D!Kinds,
         \A v \in Workers : v # w /\ txn[v].stage = "link" =>
           txn[v].user # i /\ txn[v].email # row.email /\ txn[v].name # row.name
  PROVE  IInv'
<1>1. \A j \in Users : users'[j] = IF j = i THEN row ELSE users[j]
  BY DEF IInv, TypeOK
<1>3. /\ users' \in [Users -> D!UserRow] /\ tenants' \in [Tenants -> D!TenantRow]
      /\ members' \subseteq D!Member /\ opened' \subseteq Users
  BY DEF IInv, TypeOK
<1>4. RowsSound'
  BY <1>1 DEF IInv, TypeOK, RowsSound, D!Live
<1>5. ASSUME NEW v \in Workers, v # w, txn[v].stage = "link"
      PROVE  /\ users'[txn[v].user].life = "NONE"
             /\ \A j \in Users : users'[j].life = "LIVE" =>
                  users'[j].email # txn[v].email /\ users'[j].name # txn[v].name
  <2>1. Holds(txn[v])
    BY DEF IInv
  <2>2. QED
    BY <1>1, <1>5, <2>1 DEF Holds, Unowned
<1>6. \A v \in Workers :
        v # w /\ txn[v].stage \in {"enlist", "link"} /\ txn[v].founds
          => tenants'[txn[v].tenant].life = "NONE"
  BY DEF IInv, Holds
<1>7. /\ \A j \in Users : users[j].life # "NONE" => users'[j].life # "NONE"
      /\ \A t \in Tenants : tenants[t].life # "NONE" => tenants'[t].life # "NONE"
  BY <1>1
<1>8. Commits(w, q)
  BY <1>3, <1>4, <1>5, <1>6, <1>7 DEF Commits
<1>9. QED
  BY <1>8, CommitKeeps

\* The commit of an administrator: InsertUser.
LEMMA InsertUserGood ==
  ASSUME IInv, NEW w \in Workers, InsertUser(w)
  PROVE  Good
<1> DEFINE q == txn[w]
           st == IF q.kind = "USER" THEN "created" ELSE "signedUp"
<1>0. q \in Txn /\ Holds(q) /\ q.stage = "insert" /\ q.email \in Emails
        /\ q.name \in Names /\ q.kind \in {"MASTER", "USER"}
  BY DEF IInv, TypeOK, InsertUser, At, Holds
<1>1. CASE Refuse(w, Reloads[st], "error")
  <2>1. Reloads[st] \in RouteNames
    BY DEF Reloads, RouteNames
  <2>2. QED
    BY <1>1, <2>1, RefuseGood DEF Refuse
<1>2. ASSUME ~Waits(w, q.email, q.name), ~Conflict(q.email, q.name, Null),
             NEW i \in FreshUsers,
             users' = [users EXCEPT ![i] = D!NewUser(q.email, q.name, q.kind)],
             Commit(w, WroteUser(st, i)), UNCHANGED <<tenants, members, opened>>
      PROVE  Good
  <2>1. D!Owners(q.email, q.name) = {}
    BY <1>2, NullAssumption DEF Conflict, D!Owners, D!Live
  <2>2. i \in Users /\ users[i].life = "NONE"
    BY DEF FreshUsers
  <2>3. \A v \in Workers : v # w /\ txn[v].stage = "link" =>
          txn[v].user # i /\ txn[v].email # q.email /\ txn[v].name # q.name
    BY <1>2 DEF FreshUsers, Flushed, At, Waits
  <2>4. q.kind \in D!Kinds
    BY <1>0 DEF D!Kinds
  <2>5. IInv'
    <3>1. PICK row \in D!UserRow : row = D!NewUser(q.email, q.name, q.kind)
      BY <1>0, <2>4 DEF D!NewUser, D!UserRow
    <3>2. /\ row.life = "LIVE" /\ row.email = q.email /\ row.name = q.name
          /\ row.kind = q.kind
      BY <3>1 DEF D!NewUser
    <3>3. users' = [users EXCEPT ![i] = row]
      BY <1>2, <3>1
    <3>4. /\ reply' \in Reply /\ txn' = [txn EXCEPT ![w] = WroteUser(st, i)]
          /\ Rests(WroteUser(st, i))
      BY <1>2, <2>2, ReplyTyped, RestsUser DEF Commit
    <3>5. \A v \in Workers : v # w /\ txn[v].stage = "link" =>
            txn[v].user # i /\ txn[v].email # row.email /\ txn[v].name # row.name
      BY <2>3, <3>2
    <3>6. row.email \in Emails /\ row.name \in Names /\ row.kind \in D!Kinds
      BY <1>0, <2>4, <3>2
    <3>7. UNCHANGED <<tenants, members, opened>> /\ row.life = "LIVE" /\ i \in Users
      BY <1>2, <2>2, <3>2
    <3>8. QED
      BY <3>3, <3>4, <3>5, <3>6, <3>7, UserCommitGood
  <2>6. D!AddUser(i, q.email, q.name, q.kind)
    BY <1>0, <1>2, <2>1, <2>2 DEF D!AddUser, D!Enter
  <2>7. D!Next
    BY <1>0, <2>2, <2>6 DEF D!Next, D!UserStep, D!Kinds
  <2>8. QED
    BY <2>5, <2>7 DEF Good
<1>3. QED
  BY <1>1, <1>2 DEF InsertUser

\* The commit of a signup's rows: LinkTenantUser.
LEMMA LinkTenantUserGood ==
  ASSUME IInv, NEW w \in Workers, LinkTenantUser(w)
  PROVE  Good
<1> DEFINE q == txn[w]
           i == q.user
           t == q.tenant
           m == [tenant |-> q.tenant, user |-> q.user, admin |-> q.founds]
<1>0. /\ q \in Txn /\ Holds(q) /\ q.stage = "link"
      /\ i \in Users /\ users[i].life = "NONE"
      /\ t \in Tenants /\ (q.founds <=> tenants[t].life = "NONE")
      /\ q.email \in Emails /\ q.name \in Names /\ q.title \in Titles
      /\ Unowned(q.email, q.name) /\ q.founds \in BOOLEAN
  BY DEF IInv, TypeOK, LinkTenantUser, At, Holds, Txn
<1>1. CASE Refuse(w, "signup", "error")
  BY <1>1, RefuseGood DEF Refuse, RouteNames
<1>2. ASSUME users' = [users EXCEPT ![i] = D!NewUser(q.email, q.name, "TENANT")],
             tenants' = IF q.founds
                        THEN [tenants EXCEPT ![t] = D!NewTenant(q.title, Null)]
                        ELSE tenants,
             members' = members \cup {m},
             Commit(w, WroteUser("signedUp", i)), opened' = opened
      PROVE  Good
  <2>1. D!Owners(q.email, q.name) = {}
    BY <1>0 DEF Unowned, D!Owners, D!Live
  <2>2. \A j \in Users : users'[j] = IF j = i
                                    THEN D!NewUser(q.email, q.name, "TENANT")
                                    ELSE users[j]
    BY <1>2 DEF IInv, TypeOK
  <2>3. \A s \in Tenants : tenants'[s] = IF s = t /\ q.founds
                                        THEN D!NewTenant(q.title, Null)
                                        ELSE tenants[s]
    BY <1>2 DEF IInv, TypeOK
  <2>4. users' \in [Users -> D!UserRow]
    BY <1>0, <1>2 DEF IInv, TypeOK, D!UserRow, D!NewUser, D!Kinds
  <2>5. tenants' \in [Tenants -> D!TenantRow]
    BY <1>0, <1>2 DEF IInv, TypeOK, D!TenantRow, D!NewTenant
  <2>6. members' \subseteq D!Member
    BY <1>0, <1>2 DEF IInv, TypeOK, D!Member
  <2>7. RowsSound'
    BY <1>0, <1>2, <2>2, <2>3
       DEF IInv, TypeOK, RowsSound, D!Live, D!NewUser, D!NewTenant, D!Kinds, D!Member
  <2>8. ASSUME NEW v \in Workers, v # w, txn[v].stage = "link"
        PROVE  /\ users'[txn[v].user].life = "NONE"
               /\ \A j \in Users : users'[j].life = "LIVE" =>
                    users'[j].email # txn[v].email /\ users'[j].name # txn[v].name
    <3>1. Holds(txn[v]) /\ Apart(txn[v], txn[w])
      BY <2>8 DEF IInv
    <3>2. QED
      BY <1>0, <2>2, <2>8, <3>1 DEF Holds, Unowned, Apart, D!NewUser
  <2>9. ASSUME NEW v \in Workers, v # w, txn[v].stage \in {"enlist", "link"},
               txn[v].founds
        PROVE  tenants'[txn[v].tenant].life = "NONE"
    <3>1. Holds(txn[v]) /\ Apart(txn[v], txn[w])
      BY <2>9 DEF IInv
    <3>2. QED
      BY <1>0, <2>3, <2>9, <3>1 DEF Holds, Apart
  <2>10. \A j \in Users : users[j].life # "NONE" => users'[j].life # "NONE"
    BY <1>0, <2>2
  <2>11. \A s \in Tenants : tenants[s].life # "NONE" => tenants'[s].life # "NONE"
    BY <2>3 DEF D!NewTenant
  <2>12. opened' \subseteq Users
    BY <1>2 DEF IInv, TypeOK
  <2>13. IInv'
    <3>1. /\ reply' \in Reply /\ txn' = [txn EXCEPT ![w] = WroteUser("signedUp", i)]
          /\ Rests(WroteUser("signedUp", i))
      BY <1>0, <1>2, ReplyTyped, RestsUser DEF Commit
    <3>2. Commits(w, WroteUser("signedUp", i))
      BY <2>4, <2>5, <2>6, <2>7, <2>8, <2>9, <2>10, <2>11, <2>12, <3>1 DEF Commits
    <3>3. QED
      BY <3>2, CommitKeeps
  <2>14. D!Enter(i, q.email, q.name, "TENANT")
    BY <1>0, <1>2, <2>1 DEF D!Enter
  <2>15. q.founds => D!Found(i, t, q.email, q.name, q.title)
    BY <1>0, <1>2, <2>14 DEF D!Found
  <2>16. ~q.founds => D!Join(i, t, q.email, q.name)
    BY <1>0, <1>2, <2>14 DEF D!Join
  <2>17. D!Next
    BY <1>0, <2>15, <2>16 DEF D!Next, D!UserStep
  <2>18. QED
    BY <2>13, <2>17 DEF Good
<1>3. QED
  BY <1>1, <1>2 DEF LinkTenantUser

\* The requests of user management that load a record: CreateUser, UpdateUser,
\* DeleteUser.
LEMMA UserRequestsGood ==
  ASSUME IInv, NEW w \in Workers,
         \/ \E e \in Emails, n \in Names : CreateUser(w, e, n)
         \/ \E i \in Users, e \in Emails \cup {Null}, n \in Names \cup {Null} :
              UpdateUser(w, i, e, n)
         \/ \E i \in Users : DeleteUser(w, i)
  PROVE  Good
<1>1. ASSUME NEW e \in Emails, NEW n \in Names, CreateUser(w, e, n) PROVE Good
  <2> DEFINE q == [NoTxn EXCEPT !.stage = "insert", !.email = e, !.name = n,
                                !.kind = "USER"]
  <2>1. q \in Txn /\ Holds(q) /\ q.stage = "insert"
    BY DEF NoTxn, Txn, Stages, D!Kinds, Holds
  <2>2. CASE Refuse(w, "createUser", "refused")
    BY <2>2, RefuseGood DEF Refuse, RouteNames
  <2>3. CASE Begin(w, q)
    <3> HIDE DEF q
    <3>1. QED
      BY <2>1, <2>3, BeginGood
  <2>4. QED
    BY <1>1, <2>2, <2>3 DEF CreateUser
<1>2. ASSUME NEW e \in Emails \cup {Null}, NEW n \in Names \cup {Null},
             NEW i \in Users, UpdateUser(w, i, e, n)
      PROVE  Good
  <2> DEFINE q == [NoTxn EXCEPT !.stage = "rename", !.user = i,
                     !.email = IF users[i].email = e THEN Null ELSE e,
                     !.name = IF users[i].name = n THEN Null ELSE n]
  <2>1. CASE \E result \in {"missing", "refused", "ok"} : Refuse(w, "updateUser", result)
    BY <2>1, RefuseGood DEF Refuse, RouteNames, R!Outcomes
  <2>2. CASE i \in D!Live /\ Begin(w, q)
    <3>1. users[i].life # "NONE"
      BY <2>2 DEF D!Live
    <3>2. q \in Txn /\ Holds(q) /\ q.stage = "rename"
      BY <3>1 DEF NoTxn, Txn, Stages, D!Kinds, Holds
    <3> HIDE DEF q
    <3>3. QED
      BY <2>2, <3>2, BeginGood
  <2>3. QED
    BY <1>2, <2>1, <2>2 DEF UpdateUser
<1>3. ASSUME NEW i \in Users, DeleteUser(w, i) PROVE Good
  <2> DEFINE q == [NoTxn EXCEPT !.stage = "remove", !.user = i]
  <2>1. CASE Refuse(w, "deleteUser", "missing")
    BY <2>1, RefuseGood DEF Refuse, RouteNames
  <2>2. CASE i \in D!Live /\ Begin(w, q)
    <3>1. q \in Txn /\ Holds(q) /\ q.stage = "remove"
      BY <2>2 DEF NoTxn, Txn, Stages, D!Kinds, Holds, D!Live
    <3> HIDE DEF q
    <3>2. QED
      BY <2>2, <3>1, BeginGood
  <2>3. QED
    BY <1>3, <2>1, <2>2 DEF DeleteUser
<1>4. QED
  BY <1>1, <1>2, <1>3

\* The change of a user's keys: RenameUser.
LEMMA RenameUserGood ==
  ASSUME IInv, NEW w \in Workers, RenameUser(w)
  PROVE  Good
<1> DEFINE q == txn[w]
           i == q.user
           row == users[i]
           email == IF q.email = Null THEN row.email ELSE q.email
           name == IF q.name = Null THEN row.name ELSE q.name
<1>0. q \in Txn /\ i \in Users /\ row.life # "NONE"
  BY DEF IInv, TypeOK, RenameUser, At, Holds
<1>1. CASE Refuse(w, "updateUser", "error")
  BY <1>1, RefuseGood DEF Refuse, RouteNames
<1>2. ASSUME ~Waits(w, q.email, q.name), row.life = "LIVE",
             ~Conflict(email, name, i),
             users' = [users EXCEPT ![i] = D!NewUser(email, name, row.kind)],
             Commit(w, WroteUser("renamed", i)), UNCHANGED <<tenants, members, opened>>
      PROVE  Good
  <2>1. email \in Emails /\ name \in Names /\ row.kind \in D!Kinds
    BY <1>0, <1>2 DEF IInv, RowsSound, Txn
  <2>2. D!Owners(email, name) \subseteq {i}
    BY <1>2 DEF Conflict
  <2>3. ASSUME NEW v \in Workers, v # w, txn[v].stage = "link"
        PROVE  txn[v].user # i /\ txn[v].email # email /\ txn[v].name # name
    <3>1. Holds(txn[v])
      BY DEF IInv
    <3>2. txn[v].email # q.email /\ txn[v].name # q.name
      BY <1>2, <2>3 DEF Flushed, At, Waits
    <3>3. txn[v].user # i /\ txn[v].email # row.email /\ txn[v].name # row.name
      BY <1>0, <1>2, <2>3, <3>1 DEF Holds, Unowned
    <3>4. QED
      BY <3>2, <3>3
  <2>4. IInv'
    <3>1. PICK r \in D!UserRow : r = D!NewUser(email, name, row.kind)
      BY <2>1 DEF D!NewUser, D!UserRow
    <3>2. r.life = "LIVE" /\ r.email = email /\ r.name = name /\ r.kind = row.kind
      BY <3>1 DEF D!NewUser
    <3>3. users' = [users EXCEPT ![i] = r]
      BY <1>2, <3>1
    <3>4. /\ reply' \in Reply /\ txn' = [txn EXCEPT ![w] = WroteUser("renamed", i)]
          /\ Rests(WroteUser("renamed", i))
      BY <1>0, <1>2, ReplyTyped, RestsUser DEF Commit
    <3>5. \A v \in Workers : v # w /\ txn[v].stage = "link" =>
            txn[v].user # i /\ txn[v].email # r.email /\ txn[v].name # r.name
      BY <2>3, <3>2
    <3>6. r.email \in Emails /\ r.name \in Names /\ r.kind \in D!Kinds
      BY <2>1, <3>2
    <3>7. UNCHANGED <<tenants, members, opened>> /\ r.life = "LIVE" /\ i \in Users
      BY <1>0, <1>2, <3>2
    <3> HIDE DEF i
    <3>8. QED
      BY <3>3, <3>4, <3>5, <3>6, <3>7, UserCommitGood
  <2>5. D!Rename(i, email, name)
    BY <1>2, <2>2 DEF D!Rename
  <2>6. D!Next
    BY <1>0, <2>1, <2>5 DEF D!Next, D!UserStep
  <2>7. QED
    BY <2>4, <2>6 DEF Good
<1>3. QED
  BY <1>1, <1>2 DEF RenameUser

LEMMA DetachSessionsGood ==
  ASSUME IInv, NEW w \in Workers, DetachSessions(w)
  PROVE  Good
<1>1. CASE Answer(w, "deleteUser", "error")
  BY <1>1, RefuseGood DEF DetachSessions, RouteNames
<1>2. CASE GoTo(w, "removing")
  <2> DEFINE q == [txn[w] EXCEPT !.stage = "removing"]
  <2>1. txn[w] \in Txn /\ Holds(txn[w]) /\ txn[w].stage = "remove"
    BY DEF IInv, TypeOK, DetachSessions, At
  <2>2. q \in Txn /\ Holds(q) /\ q.stage = "removing"
    BY <2>1 DEF Txn, Stages, Holds
  <2>3. txn' = [txn EXCEPT ![w] = q] /\ reply' = Silence
    BY <1>2, <2>1 DEF GoTo, IInv, TypeOK
  <2>4. \A v \in Workers : Apart(txn[v], q)
    BY <2>2 DEF Apart
  <2>5. QED
    BY <2>2, <2>3, <2>4, MoveKeeps, ReplyTyped, TablesKept DEF DetachSessions, Good
<1>3. QED
  BY <1>1, <1>2 DEF DetachSessions

\* The deletion and what cascades: a user that is gone already has no row left
\* anywhere, so that a second deletion changes nothing.
LEMMA RemoveUserGood ==
  ASSUME IInv, NEW w \in Workers, RemoveUser(w)
  PROVE  Good
<1> DEFINE i == txn[w].user
<1>0. i \in Users /\ users[i].life # "NONE"
  BY DEF IInv, TypeOK, RemoveUser, At, Holds
<1>1. /\ users' = [users EXCEPT ![i] = D!GoneRow]
      /\ members' = {m \in members : m.user # i}
      /\ opened' = opened \ {i}
      /\ Answer(w, "deleteUser", "ok")
      /\ UNCHANGED tenants
  BY DEF RemoveUser
<1>2. users' \in [Users -> D!UserRow]
  BY <1>0, <1>1 DEF IInv, TypeOK, D!UserRow, D!GoneRow
<1>3. \A j \in Users : users'[j] = IF j = i THEN D!GoneRow ELSE users[j]
  BY <1>1 DEF IInv, TypeOK
<1>4. RowsSound'
  BY <1>0, <1>1, <1>3 DEF IInv, TypeOK, RowsSound, D!Live, D!GoneRow
<1>5. \A v \in Workers : v # w /\ txn[v].stage = "link" =>
        /\ users'[txn[v].user].life = "NONE"
        /\ \A j \in Users : users'[j].life = "LIVE" =>
             users'[j].email # txn[v].email /\ users'[j].name # txn[v].name
  BY <1>0, <1>3 DEF IInv, Holds, Unowned, D!GoneRow
<1>6. \A v \in Workers :
        v # w /\ txn[v].stage \in {"enlist", "link"} /\ txn[v].founds
          => tenants'[txn[v].tenant].life = "NONE"
  BY <1>1 DEF IInv, Holds
<1>7. \A j \in Users : users[j].life # "NONE" => users'[j].life # "NONE"
  BY <1>3 DEF D!GoneRow
<1>8. members' \subseteq D!Member /\ opened' \subseteq Users
  BY <1>1 DEF IInv, TypeOK
<1>9. IInv'
  <2>1. reply' \in Reply /\ txn' = [txn EXCEPT ![w] = NoTxn]
    BY <1>1, ReplyTyped DEF Answer, RouteNames
  <2>2. tenants' \in [Tenants -> D!TenantRow]
          /\ \A t \in Tenants : tenants[t].life # "NONE" => tenants'[t].life # "NONE"
    BY <1>1 DEF IInv, TypeOK
  <2>3. Commits(w, NoTxn)
    BY <1>2, <1>4, <1>5, <1>6, <1>7, <1>8, <2>1, <2>2, RestsAnswered DEF Commits
  <2>4. QED
    BY <2>3, CommitKeeps
<1>10. CASE users[i].life = "LIVE"
  <2>1. D!Remove(i)
    BY <1>1, <1>10 DEF D!Remove
  <2>2. QED
    BY <1>0, <1>9, <2>1 DEF Good, D!Next, D!UserStep
<1>11. CASE users[i].life # "LIVE"
  <2>1. users[i].life = "GONE" /\ users[i] = D!GoneRow
    BY <1>0, <1>11 DEF IInv, TypeOK, RowsSound, D!UserRow
  <2>2. users' = users
    BY <1>1, <2>1 DEF IInv, TypeOK
  <2>3. members' = members
    BY <1>1, <1>11 DEF IInv, RowsSound, D!Live
  <2>4. QED
    BY <1>1, <1>9, <2>2, <2>3 DEF Good, D!vars
<1>12. QED
  BY <1>10, <1>11

\* A login: the session belongs to a user that exists.
LEMMA OpenSessionGood ==
  ASSUME IInv, NEW i \in Users, OpenSession(i)
  PROVE  Good
<1>1. TypeOK' /\ RowsSound'
  BY ReplyTyped DEF IInv, TypeOK, RowsSound, OpenSession, D!Live
<1>2. \A w \in Workers : Holds(txn[w])'
  BY DEF IInv, OpenSession, Holds, Unowned
<1>3. \A v, w \in Workers : v # w => Apart(txn[v], txn[w])'
  BY DEF IInv, OpenSession, Apart
<1>4. QED
  BY <1>1, <1>2, <1>3 DEF IInv, Good, OpenSession, D!vars

\* The requests of tenant management that load a record or change nothing:
\* CreateTenant, UpdateTenant, DeleteTenant, SwitchTenant.
LEMMA TenantRequestsGood ==
  ASSUME IInv, NEW w \in Workers,
         \/ \E x \in Titles, c \in Codes : CreateTenant(w, x, c)
         \/ \E t \in Tenants :
              \/ \E x \in Titles \cup {Null}, c \in Codes \cup {Null} :
                   UpdateTenant(w, t, x, c)
              \/ DeleteTenant(w, t) \/ SwitchTenant(w, t)
  PROVE  Good
<1>1. ASSUME NEW x \in Titles, NEW c \in Codes, CreateTenant(w, x, c) PROVE Good
  <2> DEFINE q == [NoTxn EXCEPT !.stage = "newTenant", !.title = x, !.code = c]
  <2>1. q \in Txn /\ Holds(q) /\ q.stage = "newTenant"
    BY DEF NoTxn, Txn, Stages, D!Kinds, Holds
  <2>2. CASE Refuse(w, "createTenant", "refused")
    BY <2>2, RefuseGood DEF Refuse, RouteNames
  <2>3. CASE Begin(w, q)
    <3> HIDE DEF q
    <3>1. QED
      BY <2>1, <2>3, BeginGood
  <2>4. QED
    BY <1>1, <2>2, <2>3 DEF CreateTenant
<1>2. ASSUME NEW t \in Tenants, NEW x \in Titles \cup {Null},
             NEW c \in Codes \cup {Null}, UpdateTenant(w, t, x, c)
      PROVE  Good
  <2> DEFINE q == [NoTxn EXCEPT !.stage = "editTenant", !.tenant = t,
                     !.title = IF tenants[t].title = x THEN Null ELSE x,
                     !.code = IF tenants[t].code = c THEN Null ELSE c]
  <2>1. CASE Refuse(w, "updateTenant", "missing") \/ Refuse(w, "updateTenant", "refused")
    BY <2>1, RefuseGood DEF Refuse, RouteNames
  <2>2. CASE t \in LiveTenants /\ Begin(w, q)
    <3>1. q \in Txn /\ Holds(q) /\ q.stage = "editTenant"
      BY <2>2 DEF NoTxn, Txn, Stages, D!Kinds, Holds, LiveTenants
    <3> HIDE DEF q
    <3>2. QED
      BY <2>2, <3>1, BeginGood
  <2>3. QED
    BY <1>2, <2>1, <2>2 DEF UpdateTenant
<1>3. ASSUME NEW t \in Tenants, DeleteTenant(w, t) PROVE Good
  <2> DEFINE q == [NoTxn EXCEPT !.stage = "dropTenant", !.tenant = t]
  <2>1. CASE Refuse(w, "deleteTenant", "missing")
    BY <2>1, RefuseGood DEF Refuse, RouteNames
  <2>2. CASE t \in LiveTenants /\ Begin(w, q)
    <3>1. q \in Txn /\ Holds(q) /\ q.stage = "dropTenant"
      BY <2>2 DEF NoTxn, Txn, Stages, D!Kinds, Holds, LiveTenants
    <3> HIDE DEF q
    <3>2. QED
      BY <2>2, <3>1, BeginGood
  <2>3. QED
    BY <1>3, <2>1, <2>2 DEF DeleteTenant
<1>4. ASSUME NEW t \in Tenants, SwitchTenant(w, t) PROVE Good
  BY <1>4, RefuseGood DEF SwitchTenant, Refuse, RouteNames
<1>5. QED
  BY <1>1, <1>2, <1>3, <1>4

\* A commit that writes one tenant row, and no row of another request.
LEMMA TenantCommitGood ==
  ASSUME IInv, NEW w \in Workers, reply' \in Reply,
         NEW q, txn' = [txn EXCEPT ![w] = q], Rests(q),
         UNCHANGED <<users, members, opened>>,
         NEW t \in Tenants, NEW row \in D!TenantRow,
         tenants' = [tenants EXCEPT ![t] = row],
         row.life # "NONE", row.title \in Titles,
         \A v \in Workers :
           v # w /\ txn[v].stage \in {"enlist", "link"} /\ txn[v].founds
             => txn[v].tenant # t
  PROVE  IInv'
<1>1. \A s \in Tenants : tenants'[s] = IF s = t THEN row ELSE tenants[s]
  BY DEF IInv, TypeOK
<1>2. tenants' \in [Tenants -> D!TenantRow]
  BY DEF IInv, TypeOK
<1>3. RowsSound'
  BY <1>1 DEF IInv, TypeOK, RowsSound, D!Live, D!Member
<1>4. \A v \in Workers : v # w /\ txn[v].stage = "link" =>
        /\ users'[txn[v].user].life = "NONE"
        /\ \A j \in Users : users'[j].life = "LIVE" =>
             users'[j].email # txn[v].email /\ users'[j].name # txn[v].name
  BY DEF IInv, Holds, Unowned
<1>5. \A v \in Workers :
        v # w /\ txn[v].stage \in {"enlist", "link"} /\ txn[v].founds
          => tenants'[txn[v].tenant].life = "NONE"
  BY <1>1 DEF IInv, Holds
<1>6. \A s \in Tenants : tenants[s].life # "NONE" => tenants'[s].life # "NONE"
  BY <1>1
<1>7. /\ users' \in [Users -> D!UserRow]
      /\ members' \subseteq D!Member /\ opened' \subseteq Users
      /\ \A i \in Users : users[i].life # "NONE" => users'[i].life # "NONE"
  BY DEF IInv, TypeOK
<1>9. Commits(w, q)
  BY <1>2, <1>3, <1>4, <1>5, <1>6, <1>7 DEF Commits
<1>10. QED
  BY <1>9, CommitKeeps

\* No founder holds the id of a tenant that exists.
LEMMA FoundersElsewhere ==
  ASSUME IInv, NEW t \in Tenants, tenants[t].life # "NONE"
  PROVE  \A v \in Workers :
           txn[v].stage \in {"enlist", "link"} /\ txn[v].founds => txn[v].tenant # t
  BY DEF IInv, Holds

LEMMA TenantCommitsGood ==
  ASSUME IInv, NEW w \in Workers,
         CommitNewTenant(w) \/ CommitEditTenant(w) \/ CommitDropTenant(w)
  PROVE  Good
<1> DEFINE q == txn[w]
<1>0. q \in Txn /\ Holds(q)
  BY DEF IInv, TypeOK
<1>1. CASE CommitNewTenant(w)
  <2>1. q.title \in Titles /\ q.code \in Codes
    BY <1>0, <1>1 DEF CommitNewTenant, At, Holds
  <2>2. CASE Refuse(w, "createTenant", "error")
    BY <2>2, RefuseGood DEF Refuse, RouteNames
  <2>3. ASSUME NEW t \in FreshTenants,
               tenants' = [tenants EXCEPT ![t] = D!NewTenant(q.title, q.code)],
               Commit(w, WroteTenant("settled", t)), UNCHANGED <<users, members, opened>>
        PROVE  Good
    <3>1. t \in Tenants /\ tenants[t].life = "NONE"
            /\ \A v \in Workers : txn[v].tenant # t
      BY DEF FreshTenants
    <3>2. D!NewTenant(q.title, q.code) \in D!TenantRow
            /\ D!NewTenant(q.title, q.code).life # "NONE"
            /\ D!NewTenant(q.title, q.code).title \in Titles
      BY <2>1 DEF D!NewTenant, D!TenantRow
    <3>3. IInv'
      <4>1. tenants'[t].life # "NONE"
        BY <2>3, <3>1, <3>2 DEF IInv, TypeOK
      <4>2. /\ reply' \in Reply /\ txn' = [txn EXCEPT ![w] = WroteTenant("settled", t)]
            /\ Rests(WroteTenant("settled", t))
        BY <2>3, <3>1, <4>1, ReplyTyped, RestsTenant DEF Commit
      <4>3. QED
        BY <2>3, <3>1, <3>2, <4>2, TenantCommitGood
    <3>4. D!AddTenant(t, q.title, q.code)
      BY <2>3, <3>1 DEF D!AddTenant
    <3>5. QED
      BY <2>1, <3>1, <3>3, <3>4 DEF Good, D!Next, D!TenantStep
  <2>4. QED
    BY <1>1, <2>2, <2>3 DEF CommitNewTenant
<1>2. CASE CommitEditTenant(w)
  <2> DEFINE t == q.tenant
             title == IF q.title = Null THEN tenants[t].title ELSE q.title
             code == IF q.code = Null THEN tenants[t].code ELSE q.code
             row == [life |-> tenants[t].life, title |-> title, code |-> code]
  <2>1. t \in Tenants /\ tenants[t].life # "NONE"
    BY <1>0, <1>2 DEF CommitEditTenant, At, Holds
  <2>2. CASE Refuse(w, "updateTenant", "error")
    BY <2>2, RefuseGood DEF Refuse, RouteNames
  <2>3. CASE /\ tenants' = [tenants EXCEPT ![t] = row]
             /\ Commit(w, WroteTenant("edited", t))
             /\ UNCHANGED <<users, members, opened>>
    <3>1. tenants[t] \in D!TenantRow /\ tenants[t].title \in Titles
      BY <2>1 DEF IInv, TypeOK, RowsSound
    <3>2. row \in D!TenantRow /\ row.life # "NONE" /\ row.title \in Titles
            /\ title \in Titles /\ code \in Codes \cup {Null}
      BY <1>0, <2>1, <3>1 DEF D!TenantRow, Txn
    <3>3. IInv'
      <4>1. \A v \in Workers :
              txn[v].stage \in {"enlist", "link"} /\ txn[v].founds
                => txn[v].tenant # t
        BY <2>1, FoundersElsewhere
      <4>2. tenants'[t].life # "NONE"
        BY <2>1, <2>3, <3>2 DEF IInv, TypeOK
      <4>3. /\ reply' \in Reply /\ txn' = [txn EXCEPT ![w] = WroteTenant("edited", t)]
            /\ Rests(WroteTenant("edited", t))
        BY <2>1, <2>3, <4>2, ReplyTyped, RestsTenant DEF Commit
      <4> HIDE DEF row, t
      <4>4. QED
        BY <2>1, <2>3, <3>2, <4>1, <4>3, TenantCommitGood
    <3>4. D!EditTenant(t, title, code)
      BY <2>1, <2>3 DEF D!EditTenant
    <3>5. QED
      BY <2>1, <3>2, <3>3, <3>4 DEF Good, D!Next, D!TenantStep
  <2>4. QED
    BY <1>2, <2>2, <2>3 DEF CommitEditTenant
<1>3. CASE CommitDropTenant(w)
  <2> DEFINE t == q.tenant
             row == [life |-> "DELETED", title |-> tenants[t].title,
                     code |-> tenants[t].code]
  <2>1. t \in Tenants /\ tenants[t].life # "NONE"
    BY <1>0, <1>3 DEF CommitDropTenant, At, Holds
  <2>2. /\ tenants' = [tenants EXCEPT ![t] = row]
        /\ Answer(w, "deleteTenant", "ok")
        /\ UNCHANGED <<users, members, opened>>
    BY <1>3 DEF CommitDropTenant
  <2>3. tenants[t] \in D!TenantRow /\ tenants[t].title \in Titles
    BY <2>1 DEF IInv, TypeOK, RowsSound
  <2>4. row \in D!TenantRow /\ row.life # "NONE" /\ row.title \in Titles
    BY <2>3 DEF D!TenantRow
  <2>5. IInv'
    <3>1. \A v \in Workers :
            txn[v].stage \in {"enlist", "link"} /\ txn[v].founds
              => txn[v].tenant # t
      BY <2>1, FoundersElsewhere
    <3>2. reply' \in Reply /\ txn' = [txn EXCEPT ![w] = NoTxn]
      BY <2>2, ReplyTyped DEF Answer, RouteNames
    <3> HIDE DEF row, t
    <3>3. QED
      BY <2>1, <2>2, <2>4, <3>1, <3>2, RestsAnswered, TenantCommitGood
  <2>6. D!DropTenant(t)
    BY <2>1, <2>2 DEF D!DropTenant
  <2>7. QED
    BY <2>1, <2>5, <2>6 DEF Good, D!Next, D!TenantStep
<1>4. QED
  BY <1>1, <1>2, <1>3

\* The reads, and the read that follows a commit.
LEMMA ReadsGood ==
  ASSUME IInv, NEW w \in Workers,
         \/ Reload(w) \/ ReadUsers(w) \/ ReadTenants(w)
         \/ \E i \in Users : ReadUser(w, i)
         \/ \E t \in Tenants : ReadTenant(w, t)
  PROVE  Good
<1>1. PICK to \in RouteNames, r \in {"ok", "missing", "error"} : Refuse(w, to, r)
  <2>1. \A stage \in DOMAIN Reloads : Reloads[stage] \in RouteNames
    BY DEF Reloads, RouteNames
  <2>2. CASE Reload(w)
    BY <2>1, <2>2 DEF Reload
  <2>3. QED
    BY <2>2 DEF ReadUsers, ReadTenants, ReadUser, ReadTenant, RouteNames
<1>2. QED
  BY <1>1, RefuseGood DEF Refuse

LEMMA CrashGood ==
  ASSUME IInv, NEW w \in Workers, Crash(w)
  PROVE  Good
  BY RefuseKeeps, ReplyTyped, TablesKept DEF Crash, Good

-------------------------------------------------------------------------------
LEMMA InitGood ==
  Init => IInv /\ D!Init
<1> SUFFICES ASSUME Init PROVE IInv /\ D!Init
  OBVIOUS
<1>1. TypeOK
  BY NoTxnHolds, ReplyTyped
     DEF Init, TypeOK, D!Init, D!UserRow, D!NoUserRow, D!TenantRow, D!NoTenantRow
<1>2. RowsSound
  BY DEF Init, D!Init, RowsSound, D!NoUserRow, D!NoTenantRow
<1>3. QED
  BY <1>1, <1>2, NoTxnHolds DEF Init, IInv

\* Every step of the server keeps the invariant and is one of Directory, or
\* changes no table of it.
LEMMA StepGood ==
  IInv /\ [Next]_vars => IInv' /\ [D!Next]_(D!vars)
<1> SUFFICES ASSUME IInv, [Next]_vars PROVE Good
  BY DEF Good
<1>1. CASE UNCHANGED vars
  <2>1. TypeOK' /\ RowsSound'
    BY <1>1 DEF IInv, TypeOK, RowsSound, vars, tables, D!Live
  <2>2. \A w \in Workers : Holds(txn[w])'
    BY <1>1 DEF IInv, vars, tables, Holds, Unowned
  <2>3. \A v, w \in Workers : v # w => Apart(txn[v], txn[w])'
    BY <1>1 DEF IInv, vars, Apart
  <2>4. QED
    BY <1>1, <2>1, <2>2, <2>3 DEF IInv, Good, vars, tables, D!vars
<1>2. ASSUME NEW i \in Users, OpenSession(i) PROVE Good
  BY <1>2, OpenSessionGood
<1>3. ASSUME NEW w \in Workers, Receive(w) PROVE Good
  <2>1. ASSUME NEW e \in Emails, NEW n \in Names,
               SignupEmail(w, e, n, "MASTER", Null, FALSE)
        PROVE  Good
    BY <2>1, SignupEmailGood
  <2>2. ASSUME NEW e \in Emails, NEW n \in Names, NEW x \in Titles,
               NEW founds \in BOOLEAN, SignupEmail(w, e, n, "TENANT", x, founds)
        PROVE  Good
    BY <2>2, SignupEmailGood
  <2>3. QED
    BY <1>3, <2>1, <2>2, UserRequestsGood, TenantRequestsGood, ReadsGood
       DEF Receive
<1>4. ASSUME NEW w \in Workers, Serve(w) PROVE Good
  BY <1>4, SignupUsernameGood, InsertUserGood, FindTenantGood, FlushUserGood,
     LinkTenantUserGood, RenameUserGood, DetachSessionsGood, RemoveUserGood,
     TenantCommitsGood, ReadsGood DEF Serve
<1>5. ASSUME NEW w \in Workers, Crash(w) PROVE Good
  BY <1>5, CrashGood
<1>6. QED
  BY <1>1, <1>2, <1>3, <1>4, <1>5 DEF Next

LEMMA Invariance == Spec => []IInv
<1>1. Init => IInv
  BY InitGood
<1>2. IInv /\ [Next]_vars => IInv'
  BY StepGood
<1>3. QED
  BY <1>1, <1>2, PTL DEF Spec

\* The tables, the requests under way and the answers keep their types, for
\* every number of workers and under both schemas.
THEOREM TypeCorrect == Spec => []TypeOK
<1>1. IInv => TypeOK
  BY DEF IInv
<1>2. QED
  BY <1>1, Invariance, PTL

\* Signup, user and tenant management implement Directory: whatever the workers
\* read before they wrote, a request takes effect in one step or not at all.
THEOREM ImplementsDirectory == Spec => DirectorySpec
<1>1. Init => D!Init
  BY InitGood
<1>2. IInv /\ [Next]_vars => [D!Next]_(D!vars)
  BY StepGood
<1>3. QED
  BY <1>1, <1>2, Invariance, PTL DEF Spec, DirectorySpec, D!Spec

\* No membership and no session outlives its user.
THEOREM LeavesNothing == Spec => []NothingLeftBehind
<1>1. IInv => NothingLeftBehind
  BY DEF IInv, RowsSound, NothingLeftBehind
<1>2. QED
  BY <1>1, Invariance, PTL

-------------------------------------------------------------------------------
\* What follows is proved of Directory alone and carried over by the
\* refinement: the interleavings of the workers play no part in it.
LEMMA UniqueStep ==
  ASSUME users \in [Users -> D!UserRow], IdentitiesUnique, [D!Next]_(D!vars)
  PROVE  IdentitiesUnique'
<1>1. CASE UNCHANGED D!vars
  BY <1>1 DEF IdentitiesUnique, D!Live, D!vars
<1>2. ASSUME NEW i \in Users, NEW e \in Emails, NEW n \in Names, NEW k,
             D!Owners(e, n) \subseteq {i},
             users' = [users EXCEPT ![i] = D!NewUser(e, n, k)]
      PROVE  IdentitiesUnique'
  BY <1>2 DEF IdentitiesUnique, D!Live, D!Owners, D!NewUser
<1>3. ASSUME NEW i \in Users, D!UserStep(i) PROVE IdentitiesUnique'
  <2>1. ASSUME NEW e \in Emails, NEW n \in Names, NEW k, D!Enter(i, e, n, k)
        PROVE  IdentitiesUnique'
    BY <1>2, <2>1 DEF D!Enter
  <2>2. ASSUME NEW e \in Emails, NEW n \in Names, D!Rename(i, e, n)
        PROVE  IdentitiesUnique'
    BY <1>2, <2>2 DEF D!Rename
  <2>3. CASE D!Remove(i)
    BY <2>3 DEF D!Remove, D!GoneRow, IdentitiesUnique, D!Live
  <2>4. QED
    BY <1>3, <2>1, <2>2, <2>3 DEF D!UserStep, D!AddUser, D!Found, D!Join
<1>4. ASSUME NEW t \in Tenants, D!TenantStep(t) PROVE IdentitiesUnique'
  BY <1>4 DEF D!TenantStep, D!EditTenant, D!AddTenant, D!DropTenant,
              IdentitiesUnique, D!Live
<1>5. QED
  BY <1>1, <1>3, <1>4 DEF D!Next

\* Two users never share an email or a username, however many signups, creations
\* and changes run at the same time.
THEOREM UniqueIdentities == Spec => []IdentitiesUnique
<1>1. Init => IdentitiesUnique
  BY DEF Init, D!Init, IdentitiesUnique, D!Live, D!NoUserRow
<1>2. IInv /\ IdentitiesUnique /\ [Next]_vars => IdentitiesUnique'
  BY UniqueStep, StepGood DEF IInv, TypeOK
<1>3. QED
  BY <1>1, <1>2, Invariance, PTL DEF Spec

\* A user of type TENANT always has a membership.
THEOREM EnrolledAlways == Spec => []TenantUsersEnrolled
<1>1. Init => TenantUsersEnrolled
  BY DEF Init, D!Init, TenantUsersEnrolled, D!Live, D!NoUserRow
<1>2. ASSUME IInv, TenantUsersEnrolled, [Next]_vars PROVE TenantUsersEnrolled'
  <2>0. [D!Next]_(D!vars) /\ users \in [Users -> D!UserRow]
    BY <1>2, StepGood DEF IInv, TypeOK
  <2>1. CASE UNCHANGED D!vars
    BY <1>2, <2>1 DEF TenantUsersEnrolled, D!Live, D!vars
  <2>2. ASSUME NEW i \in Users, D!UserStep(i) PROVE TenantUsersEnrolled'
    <3>1. ASSUME NEW e \in Emails, NEW n \in Names, NEW k \in D!Kinds,
                 D!AddUser(i, e, n, k)
          PROVE  TenantUsersEnrolled'
      BY <1>2, <2>0, <3>1 DEF TenantUsersEnrolled, D!Live, D!AddUser, D!Enter, D!NewUser
    <3>2. ASSUME NEW e \in Emails, NEW n \in Names, NEW t \in Tenants,
                 D!Join(i, t, e, n) \/ \E x \in Titles : D!Found(i, t, e, n, x)
          PROVE  TenantUsersEnrolled'
      <4>1. \E m \in members' : m.user = i
        <5> DEFINE m(a) == [tenant |-> t, user |-> i, admin |-> a]
        <5>1. m(TRUE) \in members' \/ m(FALSE) \in members'
          BY <3>2 DEF D!Join, D!Found
        <5>2. m(TRUE).user = i /\ m(FALSE).user = i
          OBVIOUS
        <5>3. QED
          BY <5>1, <5>2
      <4>2. /\ users' = [users EXCEPT ![i] = D!NewUser(e, n, "TENANT")]
            /\ members \subseteq members'
        BY <3>2 DEF D!Join, D!Found, D!Enter
      <4>3. ASSUME NEW j \in Users, users'[j].life = "LIVE", users'[j].kind = "TENANT"
            PROVE  \E m \in members' : m.user = j
        <5>1. CASE j = i
          BY <4>1, <5>1
        <5>2. CASE j # i
          <6>1. users'[j] = users[j]
            BY <2>0, <4>2, <5>2
          <6>2. \E m \in members : m.user = j
            BY <1>2, <4>3, <6>1 DEF TenantUsersEnrolled, D!Live
          <6>3. QED
            BY <4>2, <6>2
        <5>3. QED
          BY <5>1, <5>2
      <4>4. QED
        BY <4>3 DEF TenantUsersEnrolled, D!Live
    <3>3. ASSUME NEW e \in Emails, NEW n \in Names, D!Rename(i, e, n)
          PROVE  TenantUsersEnrolled'
      BY <1>2, <2>0, <3>3 DEF TenantUsersEnrolled, D!Live, D!Rename, D!NewUser
    <3>4. CASE D!Remove(i)
      BY <1>2, <2>0, <3>4 DEF TenantUsersEnrolled, D!Live, D!Remove, D!GoneRow
    <3>5. QED
      BY <2>2, <3>1, <3>2, <3>3, <3>4 DEF D!UserStep
  <2>3. ASSUME NEW t \in Tenants, D!TenantStep(t) PROVE TenantUsersEnrolled'
    BY <1>2, <2>3 DEF D!TenantStep, D!EditTenant, D!AddTenant, D!DropTenant,
                      TenantUsersEnrolled, D!Live
  <2>4. QED
    BY <2>0, <2>1, <2>2, <2>3 DEF D!Next
<1>3. QED
  BY <1>1, <1>2, Invariance, PTL DEF Spec

\* A deleted tenant stays deleted, also under a change loaded before.
THEOREM DeletedForGood == Spec => DeletionIsFinal
<1> DEFINE Final ==
      \A t \in Tenants : tenants[t].life = "DELETED" => tenants'[t].life = "DELETED"
<1>1. ASSUME IInv, [Next]_vars PROVE Final \/ UNCHANGED vars
  <2>0. [D!Next]_(D!vars) /\ tenants \in [Tenants -> D!TenantRow]
    BY <1>1, StepGood DEF IInv, TypeOK
  <2>1. CASE UNCHANGED D!vars
    BY <2>1 DEF D!vars
  <2>2. ASSUME NEW i \in Users, D!UserStep(i) PROVE Final
    BY <2>0, <2>2 DEF D!UserStep, D!AddUser, D!Found, D!Join, D!Rename, D!Remove
  <2>3. ASSUME NEW t \in Tenants, D!TenantStep(t) PROVE Final
    BY <2>0, <2>3 DEF D!TenantStep, D!EditTenant, D!AddTenant, D!DropTenant
  <2>4. QED
    BY <2>0, <2>1, <2>2, <2>3 DEF D!Next
<1>2. QED
  BY <1>1, Invariance, PTL DEF Spec, DeletionIsFinal

\* A tenant of a signup appears with its founder and the membership of both.
THEOREM FoundedTogether == Spec => FoundedWhole
<1> DEFINE Whole ==
      \A t \in Tenants :
        /\ tenants[t].life = "NONE" /\ tenants'[t].life # "NONE"
        /\ tenants'[t].code = Null
        => \E i \in Users :
             /\ users[i].life = "NONE" /\ users'[i].life = "LIVE"
             /\ [tenant |-> t, user |-> i, admin |-> TRUE] \in members'
<1>1. ASSUME IInv, [Next]_vars PROVE Whole \/ UNCHANGED vars
  <2>0. /\ [D!Next]_(D!vars)
        /\ tenants \in [Tenants -> D!TenantRow] /\ users \in [Users -> D!UserRow]
    BY <1>1, StepGood DEF IInv, TypeOK
  <2>1. CASE UNCHANGED tenants
    BY <2>1
  <2>2. ASSUME NEW i \in Users, NEW s \in Tenants, NEW e \in Emails,
               NEW n \in Names, NEW x \in Titles, D!Found(i, s, e, n, x)
        PROVE  Whole
    BY <2>0, <2>2 DEF D!Found, D!Enter, D!NewUser, D!NewTenant
  <2>3. ASSUME NEW s \in Tenants, D!TenantStep(s) PROVE Whole
    <3>1. ASSUME NEW x \in Titles, NEW c \in Codes, D!AddTenant(s, x, c)
          PROVE  Whole
      <4>1. c # Null
        BY NullAssumption
      <4>2. QED
        BY <2>0, <3>1, <4>1 DEF D!AddTenant, D!NewTenant
    <3>2. ASSUME NEW x, NEW c, D!EditTenant(s, x, c) PROVE Whole
      BY <2>0, <3>2 DEF D!EditTenant
    <3>3. CASE D!DropTenant(s)
      BY <2>0, <3>3 DEF D!DropTenant
    <3>4. QED
      BY <2>3, <3>1, <3>2, <3>3 DEF D!TenantStep
  <2>4. QED
    BY <2>0, <2>1, <2>2, <2>3
       DEF D!Next, D!UserStep, D!AddUser, D!Join, D!Rename, D!Remove, D!vars
<1>2. QED
  BY <1>1, Invariance, PTL DEF Spec, FoundedWhole

-------------------------------------------------------------------------------
\* What AccountsAsTold asks of one process.
Truthful(w) ==
  ~At(w, "idle") /\ txn'[w].stage = "idle" /\ reply' # Silence
  => /\ reply'.to = "signup" => (Told(reply').success <=> txn[w].user \in D!Live')
     /\ reply'.to = "deleteUser" =>
          (Told(reply').success <=> txn[w].user \notin D!Live' \cup opened'
                                    /\ \A m \in members' : m.user # txn[w].user)
     /\ reply'.to = "createTenant" =>
          (Told(reply').success <=> txn[w].tenant # Null)

\* What the routes make of the outcomes.
LEMMA ToldOutcomes ==
  ASSUME NEW r \in {"ok", "refused", "missing", "error"}
  PROVE  \A to \in {"signup", "deleteUser", "createTenant"} :
           Told([to |-> to, result |-> r]).success <=> r = "ok"
  BY DEF Told, R!Signup, R!DeleteUser, R!CreateTenant, R!Caught, R!Envelope, R!Raised

\* An answer without effect is truthful when what it says of the tables is.
LEMMA RefuseTruthful ==
  ASSUME NEW w \in Workers, NEW to \in RouteNames,
         NEW r \in {"ok", "refused", "missing", "error"},
         Refuse(w, to, r),
         to = "signup" => (r = "ok" <=> txn[w].user \in D!Live),
         to = "createTenant" => (r = "ok" <=> txn[w].tenant # Null),
         to = "deleteUser" => r # "ok" /\ txn[w].user \in opened
  PROVE  Truthful(w)
<1>1. reply' = [to |-> to, result |-> r] /\ reply'.to = to /\ UNCHANGED tables
  BY DEF Refuse, Answer
<1>2. D!Live' = D!Live /\ opened' = opened
  BY <1>1 DEF tables, D!Live
<1>3. to \in {"signup", "deleteUser", "createTenant"}
        => (Told(reply').success <=> r = "ok")
  BY <1>1, ToldOutcomes
<1>4. QED
  BY <1>1, <1>2, <1>3 DEF Truthful

\* Nothing is said.
LEMMA SilentTruthful ==
  ASSUME reply' = Silence PROVE \A w : Truthful(w)
  BY DEF Truthful

\* The answers of signup: the account that is told of is there.
LEMMA SignupTruthful ==
  ASSUME IInv, NEW w \in Workers,
         SignupUsername(w) \/ FindTenant(w) \/ FlushUser(w)
           \/ LinkTenantUser(w) \/ InsertUser(w)
  PROVE  Truthful(w)
<1>1. Holds(txn[w]) /\ txn[w] \in Txn
  BY DEF IInv, TypeOK
<1>2. txn[w].user \notin D!Live
  BY <1>1, NullAssumption
     DEF Holds, D!Live, At, SignupUsername, FindTenant, FlushUser, LinkTenantUser, InsertUser
<1>3. ASSUME NEW to \in {"signup", "createUser"}, NEW r \in {"refused", "error"},
             Refuse(w, to, r)
      PROVE  Truthful(w)
  BY <1>2, <1>3, RefuseTruthful DEF RouteNames
<1>4. CASE SignupUsername(w)
  BY <1>3, <1>4, SilentTruthful DEF SignupUsername, GoTo, Refuse
<1>5. CASE FindTenant(w)
  BY <1>3, <1>5, SilentTruthful DEF FindTenant, Refuse
<1>6. CASE FlushUser(w)
  BY <1>3, <1>6, SilentTruthful DEF FlushUser, Refuse
<1>7. CASE LinkTenantUser(w)
  BY <1>3, <1>7, SilentTruthful DEF LinkTenantUser, Commit
<1>8. CASE InsertUser(w)
  <2>1. \A stage \in {"created", "signedUp"} : Reloads[stage] \in {"signup", "createUser"}
    BY DEF Reloads
  <2>2. QED
    BY <1>3, <1>8, <2>1, SilentTruthful DEF InsertUser, Commit
<1>9. QED
  BY <1>4, <1>5, <1>6, <1>7, <1>8

\* The answers of /users and /tenants.
LEMMA ManageTruthful ==
  ASSUME IInv, NEW w \in Workers,
         \/ RenameUser(w) \/ DetachSessions(w) \/ RemoveUser(w)
         \/ CommitNewTenant(w) \/ CommitEditTenant(w) \/ CommitDropTenant(w)
  PROVE  Truthful(w)
<1>1. Holds(txn[w]) /\ txn[w] \in Txn
  BY DEF IInv, TypeOK
<1>2. CASE RenameUser(w)
  <2>1. CASE Refuse(w, "updateUser", "error")
    BY <2>1, RefuseTruthful DEF RouteNames
  <2>2. QED
    BY <1>2, <2>1, SilentTruthful DEF RenameUser, Commit
<1>3. CASE DetachSessions(w)
  <2>1. CASE Refuse(w, "deleteUser", "error") /\ txn[w].user \in opened
    BY <2>1, RefuseTruthful DEF RouteNames
  <2>2. QED
    BY <1>3, <2>1, SilentTruthful DEF DetachSessions, Refuse, GoTo
<1>4. CASE RemoveUser(w)
  <2> DEFINE i == txn[w].user
  <2>1. /\ users' = [users EXCEPT ![i] = D!GoneRow]
        /\ members' = {m \in members : m.user # i}
        /\ opened' = opened \ {i}
        /\ reply' = [to |-> "deleteUser", result |-> "ok"]
    BY <1>4 DEF RemoveUser, Answer
  <2>2. i \notin D!Live'
    BY <2>1 DEF IInv, TypeOK, D!Live, D!GoneRow
  <2>3. Told(reply').success /\ reply'.to = "deleteUser"
    BY <2>1, ToldOutcomes
  <2>4. QED
    BY <2>1, <2>2, <2>3 DEF Truthful
<1>5. CASE CommitNewTenant(w)
  <2>1. txn[w].tenant = Null
    BY <1>1, <1>5 DEF CommitNewTenant, At, Holds
  <2>2. CASE Refuse(w, "createTenant", "error")
    BY <2>1, <2>2, RefuseTruthful DEF RouteNames
  <2>3. QED
    BY <1>5, <2>2, SilentTruthful DEF CommitNewTenant, Commit
<1>6. CASE CommitEditTenant(w)
  <2>1. CASE Refuse(w, "updateTenant", "error")
    BY <2>1, RefuseTruthful DEF RouteNames
  <2>2. QED
    BY <1>6, <2>1, SilentTruthful DEF CommitEditTenant, Commit
<1>7. CASE CommitDropTenant(w)
  <2>1. reply'.to = "deleteTenant"
    BY <1>7 DEF CommitDropTenant, Answer
  <2>2. QED
    BY <2>1 DEF Truthful
<1>8. QED
  BY <1>2, <1>3, <1>4, <1>5, <1>6, <1>7

\* The answers given after the read that follows a commit: a user may have been
\* deleted since, a tenant is still there.
LEMMA ReloadTruthful ==
  ASSUME IInv, NEW w \in Workers, Reload(w)
  PROVE  Truthful(w)
<1> DEFINE q == txn[w]
           there == IF q.user # Null THEN q.user \in D!Live
                    ELSE tenants[q.tenant].life # "NONE"
           r == IF there THEN "ok" ELSE "error"
<1>1. Holds(q) /\ q.stage \in DOMAIN Reloads /\ Refuse(w, Reloads[q.stage], r)
  BY DEF Reload, IInv
<1>2. /\ DOMAIN Reloads = {"signedUp", "created", "renamed", "settled", "edited"}
      /\ Reloads.signedUp = "signup" /\ Reloads.settled = "createTenant"
      /\ Reloads.created = "createUser" /\ Reloads.renamed = "updateUser"
      /\ Reloads.edited = "updateTenant"
  BY DEF Reloads
<1>3. Reloads[q.stage] \in RouteNames \ {"deleteUser"}
  BY <1>1, <1>2 DEF RouteNames
<1>4. Reloads[q.stage] = "signup" => (r = "ok" <=> q.user \in D!Live)
  <2>1. SUFFICES ASSUME Reloads[q.stage] = "signup"
                 PROVE  r = "ok" <=> q.user \in D!Live
    OBVIOUS
  <2>2. q.user # Null
    BY <1>1, <1>2, <2>1, NullAssumption DEF Holds
  <2>3. QED
    BY <2>2
<1>5. Reloads[q.stage] = "createTenant" => (r = "ok" <=> q.tenant # Null)
  <2>1. SUFFICES ASSUME Reloads[q.stage] = "createTenant"
                 PROVE  r = "ok" <=> q.tenant # Null
    OBVIOUS
  <2>2. q.user = Null /\ q.tenant # Null /\ tenants[q.tenant].life # "NONE"
    BY <1>1, <1>2, <2>1, NullAssumption DEF Holds
  <2>3. QED
    BY <2>2
<1>6. r \in {"ok", "refused", "missing", "error"}
  OBVIOUS
<1> HIDE DEF q, r
<1>7. QED
  BY <1>1, <1>3, <1>4, <1>5, <1>6, RefuseTruthful DEF q

\* A step is one process's: it replaces one record.
Moves(v) == \E q : txn' = [txn EXCEPT ![v] = q]

LEMMA StepsMove ==
  ASSUME NEW v
  PROVE  /\ \A to, r : Answer(v, to, r) \/ Refuse(v, to, r) => Moves(v)
         /\ \A q : Begin(v, q) => Moves(v) /\ At(v, "idle")
         /\ \A q : Commit(v, q) => Moves(v)
         /\ \A stage : GoTo(v, stage) => Moves(v)
  BY Zenon DEF Answer, Refuse, Begin, Commit, GoTo, Moves

LEMMA ReceiveMoves ==
  ASSUME NEW v \in Workers, Receive(v)
  PROVE  Moves(v) /\ At(v, "idle")
<1>1. ASSUME NEW e, NEW n, NEW k, NEW x, NEW founds, SignupEmail(v, e, n, k, x, founds)
      PROVE  Moves(v) /\ At(v, "idle")
  BY <1>1, StepsMove, Zenon DEF SignupEmail
<1>2. ASSUME NEW e, NEW n, CreateUser(v, e, n) PROVE Moves(v) /\ At(v, "idle")
  BY <1>2, StepsMove, Zenon DEF CreateUser
<1>3. ASSUME NEW i, NEW e, NEW n, UpdateUser(v, i, e, n)
      PROVE  Moves(v) /\ At(v, "idle")
  BY <1>3, StepsMove, Zenon DEF UpdateUser
<1>4. ASSUME NEW i, DeleteUser(v, i) \/ ReadUser(v, i)
      PROVE  Moves(v) /\ At(v, "idle")
  BY <1>4, StepsMove, Zenon DEF DeleteUser, ReadUser
<1>5. ASSUME NEW x, NEW c, CreateTenant(v, x, c) PROVE Moves(v) /\ At(v, "idle")
  BY <1>5, StepsMove, Zenon DEF CreateTenant
<1>6. ASSUME NEW t, NEW x, NEW c, UpdateTenant(v, t, x, c)
      PROVE  Moves(v) /\ At(v, "idle")
  BY <1>6, StepsMove, Zenon DEF UpdateTenant
<1>7. ASSUME NEW t, DeleteTenant(v, t) \/ SwitchTenant(v, t) \/ ReadTenant(v, t)
      PROVE  Moves(v) /\ At(v, "idle")
  BY <1>7, StepsMove, Zenon DEF DeleteTenant, SwitchTenant, ReadTenant
<1>8. CASE ReadUsers(v) \/ ReadTenants(v)
  BY <1>8, StepsMove, Zenon DEF ReadUsers, ReadTenants
<1>9. QED
  BY <1>1, <1>2, <1>3, <1>4, <1>5, <1>6, <1>7, <1>8, Zenon DEF Receive

\* Who signs up is told of success exactly when the account is there, who deletes
\* a user exactly when nothing of the user is left, and a tenant that was created
\* is never answered as a failure, for every number of workers.
THEOREM AnswersTrue == Spec => AccountsAsTold
<1>1. ASSUME IInv, [Next]_vars, NEW w \in Workers PROVE Truthful(w) \/ UNCHANGED vars
  <2>1. ASSUME NEW v \in Workers, Moves(v), v # w \/ At(w, "idle")
        PROVE  Truthful(w)
    BY <1>1, <2>1 DEF IInv, TypeOK, Truthful, Moves, At
  <2>2. CASE \E i \in Users : OpenSession(i)
    BY <2>2, SilentTruthful DEF OpenSession
  <2>3. ASSUME NEW v \in Workers, Receive(v) PROVE Truthful(w)
    BY <2>1, <2>3, ReceiveMoves
  <2>4. ASSUME NEW v \in Workers, Serve(v) PROVE Truthful(w)
    <3>1. Moves(v)
      <4>1. CASE SignupUsername(v) \/ InsertUser(v) \/ FindTenant(v)
        BY <4>1, StepsMove DEF SignupUsername, InsertUser, FindTenant, Moves
      <4>2. CASE FlushUser(v) \/ LinkTenantUser(v)
        BY <4>2, StepsMove DEF FlushUser, LinkTenantUser, Moves
      <4>3. CASE RenameUser(v) \/ DetachSessions(v) \/ RemoveUser(v)
        BY <4>3, StepsMove DEF RenameUser, DetachSessions, RemoveUser
      <4>4. CASE CommitNewTenant(v) \/ CommitEditTenant(v) \/ CommitDropTenant(v)
        BY <4>4, StepsMove DEF CommitNewTenant, CommitEditTenant, CommitDropTenant
      <4>5. CASE Reload(v)
        BY <4>5, StepsMove DEF Reload
      <4>6. QED
        BY <2>4, <4>1, <4>2, <4>3, <4>4, <4>5 DEF Serve
    <3>2. CASE v # w
      BY <2>1, <3>1, <3>2
    <3>3. CASE v = w
      BY <1>1, <2>4, <3>3, SignupTruthful, ManageTruthful, ReloadTruthful DEF Serve
    <3>4. QED
      BY <3>2, <3>3
  <2>5. CASE \E v \in Workers : Crash(v)
    BY <2>5, SilentTruthful DEF Crash
  <2>6. QED
    BY <1>1, <2>2, <2>3, <2>4, <2>5 DEF Next
<1>2. (\A w \in Workers : Truthful(w)) \/ UNCHANGED vars
      <=> [\A w \in Workers :
             LET i == txn[w].user
                 told == Told(reply').success
             IN /\ ~At(w, "idle") /\ txn'[w].stage = "idle" /\ reply' # Silence
                => /\ reply'.to = "signup" => (told <=> i \in D!Live')
                   /\ reply'.to = "deleteUser" =>
                        (told <=> i \notin D!Live' \cup opened'
                                  /\ \A m \in members' : m.user # i)
                   /\ reply'.to = "createTenant" => (told <=> txn[w].tenant # Null)]_vars
  BY DEF Truthful
<1>3. IInv /\ [Next]_vars => (\A w \in Workers : Truthful(w)) \/ UNCHANGED vars
  BY <1>1
<1>4. QED
  BY <1>2, <1>3, Invariance, PTL DEF Spec, AccountsAsTold

-------------------------------------------------------------------------------
\* The index covers the rows that exist: one that does not exist has no code.
CodesInv ==
  /\ \A t \in Tenants : tenants[t].life = "NONE" => tenants[t].code = Null
  /\ CodesUnique

\* A write that the unique index lets pass.
Indexed(t, row) ==
  /\ tenants' = [tenants EXCEPT ![t] = row]
  /\ row.life # "NONE"
  /\ row.code \in {Null, tenants[t].code} \/ ~IndexConflict(row.code, t)

\* Under the SQL schema whoever writes a tenant asks the index, whatever the
\* check before it found.
LEMMA CodeWrites ==
  ASSUME IInv, SqlSchema, NEW w \in Workers, Receive(w) \/ Serve(w) \/ Crash(w)
  PROVE  tenants' = tenants \/ \E t \in Tenants : \E row : Indexed(t, row)
<1> DEFINE q == txn[w]
           Writes == \E t \in Tenants : \E row : Indexed(t, row)
<1>0. tenants \in [Tenants -> D!TenantRow] /\ Holds(q)
  BY DEF IInv, TypeOK
<1>1. CASE CommitNewTenant(w)
  <2>1. ASSUME NEW t \in FreshTenants, ~IndexConflict(q.code, Null),
               tenants' = [tenants EXCEPT ![t] = D!NewTenant(q.title, q.code)]
        PROVE  Writes
    <3>1. t \in Tenants /\ ~IndexConflict(q.code, t)
      BY <2>1, NullAssumption DEF FreshTenants, IndexConflict
    <3>2. Indexed(t, D!NewTenant(q.title, q.code))
      BY <2>1, <3>1 DEF Indexed, D!NewTenant
    <3>3. QED
      BY <3>1, <3>2
  <2>2. QED
    BY <1>1, <2>1 DEF CommitNewTenant, Refuse, tables
<1>2. CASE CommitEditTenant(w)
  <2>1. q.tenant \in Tenants /\ tenants[q.tenant].life # "NONE"
    BY <1>0, <1>2 DEF CommitEditTenant, At, Holds
  <2> DEFINE row == [life |-> tenants[q.tenant].life,
                     title |-> IF q.title = Null THEN tenants[q.tenant].title ELSE q.title,
                     code |-> IF q.code = Null THEN tenants[q.tenant].code ELSE q.code]
  <2>2. CASE /\ ~(q.code # Null /\ IndexConflict(q.code, q.tenant))
             /\ tenants' = [tenants EXCEPT ![q.tenant] = row]
    <3>1. Indexed(q.tenant, row)
      BY <2>1, <2>2 DEF Indexed
    <3>2. QED
      BY <2>1, <3>1
  <2>3. QED
    BY <1>2, <2>2 DEF CommitEditTenant, Refuse, tables
<1>3. CASE CommitDropTenant(w)
  <2>1. q.tenant \in Tenants
    BY <1>0, <1>3 DEF CommitDropTenant, At, Holds
  <2>2. Indexed(q.tenant, [life |-> "DELETED", title |-> tenants[q.tenant].title,
                           code |-> tenants[q.tenant].code])
    BY <1>3 DEF CommitDropTenant, Indexed
  <2>3. QED
    BY <2>1, <2>2
<1>4. CASE Receive(w)
  BY <1>4 DEF Receive, SignupEmail, CreateUser, UpdateUser, DeleteUser, ReadUser,
     CreateTenant, UpdateTenant, DeleteTenant, SwitchTenant, ReadTenant, ReadUsers,
     ReadTenants, Begin, Refuse, tables
<1>5. CASE Crash(w)
  BY <1>5 DEF Crash, tables
<1>6. CASE /\ Serve(w)
           /\ ~CommitNewTenant(w) /\ ~CommitEditTenant(w) /\ ~CommitDropTenant(w)
  BY <1>6 DEF Serve, SignupUsername, InsertUser, FindTenant, FlushUser,
     LinkTenantUser, RenameUser, DetachSessions, RemoveUser, Reload, Refuse, tables
<1>7. QED
  BY <1>1, <1>2, <1>3, <1>4, <1>5, <1>6

LEMMA CodeStep == IInv /\ CodesInv /\ [Next]_vars => CodesInv'
<1> SUFFICES ASSUME IInv, CodesInv, [Next]_vars PROVE CodesInv'
  OBVIOUS
<1>0. tenants \in [Tenants -> D!TenantRow]
  BY DEF IInv, TypeOK
<1>1. CASE tenants' = tenants
  BY <1>1 DEF CodesInv, CodesUnique
<1>2. ASSUME NEW t \in Tenants, NEW row, Indexed(t, row) PROVE CodesInv'
  <2>1. \A s \in Tenants : tenants'[s] = IF s = t THEN row ELSE tenants[s]
    BY <1>0, <1>2 DEF Indexed
  <2>2. ASSUME SqlSchema, NEW s \in Tenants, s # t, row.code # Null,
               tenants[s].code = row.code
        PROVE  FALSE
    BY <1>2, <2>2 DEF Indexed, IndexConflict, CodesInv, CodesUnique
  <2>3. QED
    BY <1>2, <2>1, <2>2 DEF Indexed, CodesInv, CodesUnique
<1>3. ASSUME ~SqlSchema PROVE CodesInv'
  <2>1. \A t \in Tenants : tenants'[t].life = "NONE" => tenants'[t] = tenants[t]
    <3>1. [D!Next]_(D!vars)
      BY StepGood
    <3>2. QED
      BY <1>0, <3>1 DEF D!Next, D!UserStep, D!TenantStep, D!AddUser, D!Found,
         D!Join, D!Rename, D!Remove, D!EditTenant, D!AddTenant, D!DropTenant,
         D!NewTenant, D!vars
  <2>2. QED
    BY <1>3, <2>1 DEF CodesInv, CodesUnique
<1>4. ASSUME SqlSchema, NEW w \in Workers, Receive(w) \/ Serve(w) \/ Crash(w)
      PROVE  CodesInv'
  BY <1>1, <1>2, <1>4, CodeWrites
<1>5. QED
  BY <1>1, <1>3, <1>4, SchemaAssumption DEF Next, OpenSession, vars, tables

\* Under the SQL schema a code is never given to a second tenant, though the check
\* looks at the tenants that are not deleted only and another request may write
\* between check and commit.
THEOREM CodesForGood == Spec => []CodesUnique
<1>1. Init => CodesInv
  BY DEF Init, D!Init, D!NoTenantRow, CodesInv, CodesUnique
<1>2. CodesInv => CodesUnique
  BY DEF CodesInv
<1>3. QED
  BY <1>1, <1>2, CodeStep, Invariance, PTL DEF Spec
-------------------------------------------------------------------------------
\* No tenant that exists, deleted or not, has the title x.
NameFree(x) == \A t \in Tenants : tenants[t].life # "NONE" => tenants[t].title # x

\* A founder that is past its look at the names still has a name to itself.
Reserved(q) == q.stage \in {"enlist", "link"} /\ q.founds => NameFree(q.title)
NamesInv == \A w \in Workers : Reserved(txn[w])

\* One server process: it answers a request before it takes the next.
SingleWorker == \A v, w \in Workers : v = w

\* A tenant of a signup (its code is random) has a title that no tenant had
\* before it, deleted or not.
FounderNamesNew ==
  [][\A s, t \in Tenants :
       /\ tenants[t].life = "NONE" /\ tenants'[t].life # "NONE"
       /\ tenants'[t].code = Null
       /\ tenants[s].life # "NONE"
       => tenants[s].title # tenants'[t].title]_vars

\* What a step of the only process leaves in its record is reserved.
LEMMA ReservedStep ==
  ASSUME TypeOK, NEW w \in Workers, Reserved(txn[w]), Receive(w) \/ Serve(w) \/ Crash(w)
  PROVE  Reserved(txn[w])'
<1> DEFINE q == txn[w]
<1>0. /\ txn \in [Workers -> Txn]
      /\ \A x : [txn EXCEPT ![w] = x][w] = x
  BY DEF TypeOK
<1>1. ASSUME txn'[w].stage \notin {"enlist", "link"} PROVE Reserved(txn[w])'
  BY <1>1 DEF Reserved
<1>2. CASE FindTenant(w)
  <2>1. CASE txn' = [txn EXCEPT ![w] = NoTxn]
    BY <1>0, <1>1, <2>1 DEF NoTxn
  <2>2. CASE /\ q.founds => {t \in Tenants : tenants[t].life # "NONE"
                                             /\ tenants[t].title = q.title} = {}
             /\ \E t : txn' = [txn EXCEPT ![w].stage = "enlist", ![w].tenant = t]
    <3>1. txn'[w].founds = q.founds /\ txn'[w].title = q.title
      BY <1>0, <2>2 DEF Txn
    <3>2. tenants' = tenants
      BY <1>2 DEF FindTenant, tables
    <3>3. QED
      BY <2>2, <3>1, <3>2 DEF Reserved, NameFree
  <2>3. QED
    BY <1>2, <2>1, <2>2 DEF FindTenant, Answer
<1>3. CASE FlushUser(w)
  <2>1. CASE txn' = [txn EXCEPT ![w] = NoTxn]
    BY <1>0, <1>1, <2>1 DEF NoTxn
  <2>2. CASE \E i : txn' = [txn EXCEPT ![w].stage = "link", ![w].user = i]
    <3>1. txn'[w].founds = q.founds /\ txn'[w].title = q.title
      BY <1>0, <2>2 DEF Txn
    <3>2. tenants' = tenants /\ q.stage = "enlist"
      BY <1>3 DEF FlushUser, At, tables
    <3>3. QED
      BY <3>1, <3>2 DEF Reserved, NameFree
  <2>3. QED
    BY <1>3, <2>1, <2>2 DEF FlushUser, Answer
<1>4. ASSUME NEW x, txn' = [txn EXCEPT ![w] = x], x.stage \notin {"enlist", "link"}
      PROVE  Reserved(txn[w])'
  BY <1>0, <1>1, <1>4
<1>5. ASSUME NEW stage, GoTo(w, stage), stage \notin {"enlist", "link"}
      PROVE  Reserved(txn[w])'
  <2>1. txn'[w].stage = stage
    BY <1>0, <1>5 DEF GoTo, Txn
  <2>2. QED
    BY <1>1, <1>5, <2>1
<1>6. /\ NoTxn.stage = "idle"
      /\ \A stage, i : WroteUser(stage, i).stage = stage
      /\ \A stage, t : WroteTenant(stage, t).stage = stage
  BY DEF NoTxn, WroteUser, WroteTenant
<1>7. ASSUME NEW to, NEW r, Answer(w, to, r) \/ Refuse(w, to, r)
      PROVE  Reserved(txn[w])'
  <2>1. txn' = [txn EXCEPT ![w] = NoTxn]
    BY <1>7 DEF Answer, Refuse
  <2>2. QED
    BY <1>4, <1>6, <2>1
<1>8. CASE SignupUsername(w) \/ DetachSessions(w)
  BY <1>5, <1>7, <1>8 DEF SignupUsername, DetachSessions
<1>9. CASE InsertUser(w) \/ LinkTenantUser(w) \/ RenameUser(w) \/ RemoveUser(w)
  BY <1>4, <1>6, <1>7, <1>9 DEF InsertUser, LinkTenantUser, RenameUser, RemoveUser, Commit
<1>10. CASE \/ CommitNewTenant(w) \/ CommitEditTenant(w) \/ CommitDropTenant(w)
            \/ Reload(w)
  BY <1>4, <1>6, <1>7, <1>10
     DEF CommitNewTenant, CommitEditTenant, CommitDropTenant, Reload, Commit
<1>11. CASE Receive(w)
  <2>1. ASSUME NEW x, Begin(w, x), x.stage \notin {"enlist", "link"}
        PROVE  Reserved(txn[w])'
    BY <1>4, <2>1 DEF Begin
  <2>2. ASSUME NEW e, NEW n, NEW k, NEW x, NEW founds, SignupEmail(w, e, n, k, x, founds)
        PROVE  Reserved(txn[w])'
    BY <1>7, <2>1, <2>2 DEF SignupEmail, NoTxn
  <2>3. ASSUME NEW e, NEW n, CreateUser(w, e, n) PROVE Reserved(txn[w])'
    BY <1>7, <2>1, <2>3 DEF CreateUser, NoTxn
  <2>4. ASSUME NEW i, NEW e, NEW n, UpdateUser(w, i, e, n) PROVE Reserved(txn[w])'
    BY <1>7, <2>1, <2>4 DEF UpdateUser, NoTxn
  <2>5. ASSUME NEW i, DeleteUser(w, i) \/ ReadUser(w, i) PROVE Reserved(txn[w])'
    BY <1>7, <2>1, <2>5 DEF DeleteUser, ReadUser, NoTxn
  <2>6. ASSUME NEW x, NEW c, CreateTenant(w, x, c) PROVE Reserved(txn[w])'
    BY <1>7, <2>1, <2>6 DEF CreateTenant, NoTxn
  <2>7. ASSUME NEW t, NEW x, NEW c, UpdateTenant(w, t, x, c) PROVE Reserved(txn[w])'
    BY <1>7, <2>1, <2>7 DEF UpdateTenant, NoTxn
  <2>8. ASSUME NEW t, DeleteTenant(w, t) \/ SwitchTenant(w, t) \/ ReadTenant(w, t)
        PROVE  Reserved(txn[w])'
    BY <1>7, <2>1, <2>8 DEF DeleteTenant, SwitchTenant, ReadTenant, NoTxn
  <2>9. CASE ReadUsers(w) \/ ReadTenants(w)
    BY <1>7, <2>9 DEF ReadUsers, ReadTenants
  <2>10. QED
    BY <1>11, <2>2, <2>3, <2>4, <2>5, <2>6, <2>7, <2>8, <2>9, Zenon DEF Receive
<1>12. CASE Crash(w)
  BY <1>4, <1>6, <1>12 DEF Crash
<1>13. QED
  BY <1>2, <1>3, <1>8, <1>9, <1>10, <1>11, <1>12, Zenon DEF Serve

\* A tenant that a step makes with a random code carries the name that the step's
\* request had reserved.
LEMMA FounderNamed ==
  ASSUME IInv, NEW w \in Workers, Receive(w) \/ Serve(w) \/ Crash(w),
         NEW t \in Tenants, tenants[t].life = "NONE", tenants'[t].life # "NONE",
         tenants'[t].code = Null
  PROVE  /\ txn[w].stage = "link" /\ txn[w].founds
         /\ tenants'[t].title = txn[w].title
<1> DEFINE q == txn[w]
<1>0. tenants \in [Tenants -> D!TenantRow] /\ Holds(q)
  BY DEF IInv, TypeOK
<1>1. tenants' # tenants
  OBVIOUS
<1>2. CASE LinkTenantUser(w)
  <2>1. q.stage = "link" /\ q.founds
    BY <1>1, <1>2 DEF LinkTenantUser, At, Refuse, tables
  <2>2. tenants' = [tenants EXCEPT ![q.tenant] = D!NewTenant(q.title, Null)]
    BY <1>1, <1>2 DEF LinkTenantUser, Refuse, tables
  <2>3. QED
    BY <1>0, <2>1, <2>2 DEF D!NewTenant
<1>3. CASE CommitNewTenant(w)
  <2>1. q.code # Null
    BY <1>0, <1>3, NullAssumption DEF CommitNewTenant, At, Holds
  <2>2. PICK s \in FreshTenants :
          tenants' = [tenants EXCEPT ![s] = D!NewTenant(q.title, q.code)]
    BY <1>1, <1>3 DEF CommitNewTenant, Refuse, tables
  <2>3. QED
    BY <1>0, <2>1, <2>2 DEF D!NewTenant
<1>4. CASE CommitEditTenant(w) \/ CommitDropTenant(w)
  <2>1. tenants[q.tenant].life # "NONE"
    BY <1>0, <1>4 DEF CommitEditTenant, CommitDropTenant, At, Holds
  <2>2. \E row : tenants' = [tenants EXCEPT ![q.tenant] = row]
    BY <1>1, <1>4 DEF CommitEditTenant, CommitDropTenant, Refuse, tables
  <2>3. QED
    BY <1>0, <2>1, <2>2
<1>5. CASE Receive(w)
  BY <1>1, <1>5 DEF Receive, SignupEmail, CreateUser, UpdateUser, DeleteUser, ReadUser,
     CreateTenant, UpdateTenant, DeleteTenant, SwitchTenant, ReadTenant, ReadUsers,
     ReadTenants, Begin, Refuse, tables
<1>6. CASE Crash(w)
  BY <1>1, <1>6 DEF Crash, tables
<1>7. CASE \/ SignupUsername(w) \/ InsertUser(w) \/ FindTenant(w) \/ FlushUser(w)
           \/ RenameUser(w) \/ DetachSessions(w) \/ RemoveUser(w) \/ Reload(w)
  <2>1. tenants' = tenants
    BY <1>7 DEF SignupUsername, InsertUser, FindTenant, FlushUser, RenameUser,
       DetachSessions, RemoveUser, Reload, Refuse, tables
  <2>2. QED
    BY <1>1, <2>1
<1>8. QED
  BY <1>2, <1>3, <1>4, <1>5, <1>6, <1>7, Zenon DEF Serve

\* One process that serves a request to its end keeps the promise that no unique
\* index keeps: the name of a founder's tenant is new among all tenants, because
\* nobody writes one between the look at the names and the commit.
THEOREM FoundersNamesNew == SingleWorker => (Spec => FounderNamesNew)
<1> SUFFICES ASSUME SingleWorker PROVE Spec => FounderNamesNew
  OBVIOUS
<1>1. Init => NamesInv
  BY DEF Init, NamesInv, Reserved, NoTxn
<1>2. IInv /\ NamesInv /\ [Next]_vars => NamesInv'
  <2> SUFFICES ASSUME IInv, NamesInv, [Next]_vars, NEW w \in Workers
               PROVE  Reserved(txn[w])'
    BY DEF NamesInv
  <2>1. CASE UNCHANGED <<tenants, txn>>
    BY <2>1 DEF NamesInv, Reserved, NameFree
  <2>2. ASSUME NEW v \in Workers, Receive(v) \/ Serve(v) \/ Crash(v)
        PROVE  Reserved(txn[w])'
    <3>1. v = w
      BY DEF SingleWorker
    <3>2. QED
      BY <2>2, <3>1, ReservedStep DEF IInv, NamesInv
  <2>3. QED
    BY <2>1, <2>2 DEF Next, OpenSession, vars, tables
<1>3. IInv /\ NamesInv /\ [Next]_vars =>
        [\A s, t \in Tenants :
           /\ tenants[t].life = "NONE" /\ tenants'[t].life # "NONE"
           /\ tenants'[t].code = Null
           /\ tenants[s].life # "NONE"
           => tenants[s].title # tenants'[t].title]_vars
  <2> SUFFICES ASSUME IInv, NamesInv, Next, NEW s \in Tenants, NEW t \in Tenants,
                      tenants[t].life = "NONE", tenants'[t].life # "NONE",
                      tenants'[t].code = Null, tenants[s].life # "NONE"
               PROVE  tenants[s].title # tenants'[t].title
    OBVIOUS
  <2>1. PICK w \in Workers : Receive(w) \/ Serve(w) \/ Crash(w)
    BY DEF Next, OpenSession
  <2>2. /\ txn[w].stage = "link" /\ txn[w].founds
        /\ tenants'[t].title = txn[w].title
    BY <2>1, FounderNamed
  <2>3. QED
    BY <2>2 DEF NamesInv, Reserved, NameFree
<1>4. QED
  BY <1>1, <1>2, <1>3, Invariance, PTL DEF Spec, FounderNamesNew
===============================================================================
