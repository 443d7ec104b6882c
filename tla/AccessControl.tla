----------------------------- MODULE AccessControl -----------------------------
(***************************************************************************)
(* Roles, permissions and who has them: idam.roles, idam.permissions,      *)
(* idam.role_permissions and idam.user_roles, as RoleService,              *)
(* PermissionService, RolePermissionService and UserRoleService change     *)
(* them.                                                                   *)
(*                                                                         *)
(* Every operation reads first and writes in a later step; other server    *)
(* processes run in between, and only the constraints of the tables are    *)
(* looked at when the write happens.                                       *)
(***************************************************************************)
EXTENDS Naturals, FiniteSets

CONSTANTS
  Roles, Permissions, Users, Codes,
  Links,        \* ids of mapping rows
  Workers,      \* server processes
  Null,
  SqlSchema     \* TRUE: tables as packages/database creates them;
                \* FALSE: tables as the ORM models declare them

VARIABLES
  things,       \* rows of roles, permissions and users
  links,        \* rows of role_permissions and user_roles
  txn,          \* txn[w]: the request worker w serves
  reply         \* what the last step answered

tables == <<things, links>>
vars == <<things, links, txn, reply>>

Things == Roles \cup Permissions \cup Users
\* What a role is linked to: permissions it grants, users it is assigned to.
Ends == Permissions \cup Users

ASSUME FamiliesAssumption ==
  /\ Roles \cap Ends = {} /\ Permissions \cap Users = {}
  /\ Null \notin Things \cup Codes \cup Links
ASSUME FiniteAssumption == IsFiniteSet(Workers) /\ IsFiniteSet(Links)
ASSUME SchemaAssumption == SqlSchema \in BOOLEAN

Lives == {"NONE", "LIVE", "GONE"}
Thing == [life : Lives, code : Codes \cup {Null}]
Link == [life : Lives, role : Roles \cup {Null}, end : Ends \cup {Null}]
\* A row that is not there, never inserted or deleted.
NoThing(life) == [life |-> life, code |-> Null]
NoLink(life) == [life |-> life, role |-> Null, end |-> Null]

\* The routes that read their row again after the commit, by the stage of a
\* request that has committed.
Reloads == [created |-> "create", edited |-> "update", linked |-> "assign"]
Stages == {"idle", "new", "edit", "drop", "dropping", "check", "insert", "unlink"}
            \cup DOMAIN Reloads
\* What a handler holds: the row it creates, changes or deletes, the code it
\* asked for, the pair it links, the mapping row it deletes.
Txn == [stage : Stages, thing : Things \cup {Null}, code : Codes \cup {Null},
        role : Roles \cup {Null}, end : Ends \cup {Null}, link : Links \cup {Null}]
NoTxn == [stage |-> "idle", thing |-> Null, code |-> Null, role |-> Null,
          end |-> Null, link |-> Null]
Creates(x, c) == [NoTxn EXCEPT !.stage = "new", !.thing = x, !.code = c]
Holds(stage, x) == [NoTxn EXCEPT !.stage = stage, !.thing = x]
Pairs(r, x) == [NoTxn EXCEPT !.stage = "check", !.role = r, !.end = x]
HoldsLink(stage, i) == [NoTxn EXCEPT !.stage = stage, !.link = i]

R == INSTANCE Routes

RouteNames == {"nobody", "list", "read", "create", "update", "delete",
               "deleteUser", "links", "assign", "unassign",
               "keys", "createKey", "changeKey", "deleteKey"}
Replies == [to : RouteNames, result : {"none"} \cup R!Outcomes]
Says(to, result) == [to |-> to, result |-> result]
Silence == Says("nobody", "none")

At(w, stage) == txn[w].stage = stage
Live == {x \in Things : things[x].life = "LIVE"}
LiveLinks == {i \in Links : links[i].life = "LIVE"}
\* The mapping rows of one pair, and those that refer to x.
Rows(r, x) == {i \in LiveLinks : links[i].role = r /\ links[i].end = x}
Uses(x) == {i \in LiveLinks : links[i].role = x \/ links[i].end = x}

Begin(w, t) ==
  /\ At(w, "idle")
  /\ txn' = [txn EXCEPT ![w] = t]
  /\ reply' = Silence
  /\ UNCHANGED tables

GoTo(w, stage) ==
  /\ txn' = [txn EXCEPT ![w].stage = stage]
  /\ reply' = Silence
  /\ UNCHANGED tables

Answer(w, said) ==
  /\ txn' = [txn EXCEPT ![w] = NoTxn]
  /\ reply' = said
Refuse(w, said) == Answer(w, said) /\ UNCHANGED tables

\* The commit; what is left to do is to read the row again.
Commit(w, t) ==
  /\ txn' = [txn EXCEPT ![w] = t]
  /\ reply' = Silence

Init ==
  /\ things = [x \in Things |-> NoThing("NONE")]
  /\ links = [i \in Links |-> NoLink("NONE")]
  /\ txn = [w \in Workers |-> NoTxn]
  /\ reply = Silence

(***************************************************************************)
(* Roles and permissions                                                   *)
(***************************************************************************)
\* Ids are random: no two requests create the same row.
Unused(family) ==
  {x \in family : things[x].life = "NONE" /\ \A v \in Workers : txn[v].thing # x}

CodeTaken(family, c) == \E x \in family \cap Live : things[x].code = c

\* create_role looks for nothing.  create_permission looks for the code as the
\* client wrote it; what it stores is the code in upper case without blanks, so
\* only a code written that way (exact) can be found.
CreateRole(w, c) ==
  \E x \in Unused(Roles) : Begin(w, Creates(x, c))

CreatePermission(w, c, exact) ==
  /\ At(w, "idle")
  /\ \/ /\ exact /\ CodeTaken(Permissions, c)
        /\ Refuse(w, Says("create", "refused"))
     \/ /\ ~(exact /\ CodeTaken(Permissions, c))
        /\ \E x \in Unused(Permissions) : Begin(w, Creates(x, c))

\* Faulty variant of InsertThing: the code columns have no unique index.
InsertThingUnchecked(w) ==
  /\ At(w, "new")
  /\ things' = [things EXCEPT ![txn[w].thing] = [life |-> "LIVE", code |-> txn[w].code]]
  /\ Commit(w, Holds("created", txn[w].thing))
  /\ UNCHANGED links

\* INSERT and commit.  It fails on a code that is taken, and on a type, scope or
\* status that the CHECK constraints do not know.
InsertThing(w) ==
  LET q == txn[w]
      family == IF q.thing \in Roles THEN Roles ELSE Permissions
  IN /\ At(w, "new")
     /\ \/ Refuse(w, Says("create", "error"))
        \/ /\ ~CodeTaken(family, q.code)
           /\ things' = [things EXCEPT ![q.thing] = [life |-> "LIVE", code |-> q.code]]
           /\ Commit(w, Holds("created", q.thing))
           /\ UNCHANGED links

\* The code is not among the fields of an update: what it can change are
\* columns that nothing here depends on.
UpdateThing(w, x) ==
  /\ At(w, "idle")
  /\ \/ x \notin Live /\ Refuse(w, Says("update", "missing"))
     \/ x \in Live /\ Begin(w, Holds("edit", x))

\* UPDATE of a row that was deleted meanwhile raises.
CommitUpdate(w) ==
  /\ At(w, "edit")
  /\ \/ Refuse(w, Says("update", "error"))
     \/ txn[w].thing \in Live /\ GoTo(w, "edited")

Deletion(x, result) == Says(IF x \in Users THEN "deleteUser" ELSE "delete", result)

\* DELETE of a role, a permission (is_system is not looked at) or a user.
DeleteThing(w, x) ==
  /\ At(w, "idle")
  /\ \/ x \notin Live /\ Refuse(w, Deletion(x, "missing"))
     \/ x \in Live /\ Begin(w, Holds("drop", x))

\* The flush sets the keys of the mapping rows that it finds to NULL, which the
\* columns do not take.  A user may have sessions or log rows as well.
DetachLinks(w) ==
  LET x == txn[w].thing
  IN /\ At(w, "drop")
     /\ \/ (Uses(x) # {} \/ x \in Users) /\ Refuse(w, Deletion(x, "error"))
        \/ Uses(x) = {} /\ GoTo(w, "dropping")

\* Faulty variants of RemoveThing: the row is flagged instead of deleted; rows
\* linked meanwhile are not cascaded.
RemoveThingFlagged(w) ==
  /\ At(w, "dropping")
  /\ things' = [things EXCEPT ![txn[w].thing].life = "DELETED"]
  /\ Answer(w, Deletion(txn[w].thing, "ok"))
  /\ UNCHANGED links

RemoveThingOnly(w) ==
  /\ At(w, "dropping")
  /\ things' = [things EXCEPT ![txn[w].thing] = NoThing("GONE")]
  /\ Answer(w, Deletion(txn[w].thing, "ok"))
  /\ UNCHANGED links

\* DELETE and commit: the keys cascade over what was linked meanwhile.  A row
\* that another request deleted is only warned about.
RemoveThing(w) ==
  LET x == txn[w].thing
  IN /\ At(w, "dropping")
     /\ things' = [things EXCEPT ![x] = NoThing("GONE")]
     /\ links' = [i \in Links |-> IF i \in Uses(x) THEN NoLink("GONE") ELSE links[i]]
     /\ Answer(w, Deletion(txn[w].thing, "ok"))

\* A user is created elsewhere (module Accounts).
EnrolUser(x) ==
  /\ x \in Users /\ things[x].life = "NONE"
  /\ things' = [things EXCEPT ![x] = [life |-> "LIVE", code |-> Null]]
  /\ reply' = Silence
  /\ UNCHANGED <<links, txn>>

(***************************************************************************)
(* Granting permissions to roles, assigning roles to users                 *)
(***************************************************************************)
\* assign_permission_to_role and assign_role_to_user load both ends first.
Assign(w, r, x) ==
  /\ At(w, "idle")
  /\ \/ {r, x} \subseteq Live /\ Begin(w, Pairs(r, x))
     \/ ~({r, x} \subseteq Live) /\ Refuse(w, Says("assign", "refused"))

\* Faulty variant of CheckPair: nobody looks whether the pair is linked.
CheckPairSkipped(w) == At(w, "check") /\ GoTo(w, "insert")

CheckPair(w) ==
  LET q == txn[w]
  IN /\ At(w, "check")
     /\ \/ Rows(q.role, q.end) # {} /\ Refuse(w, Says("assign", "refused"))
        \/ Rows(q.role, q.end) = {} /\ GoTo(w, "insert")

\* ux_role_permissions makes a grant unique.  UNIQUE (user_id, role_id,
\* tenant_context) does not bind an assignment: its tenant_context is NULL.
IndexConflict(r, x) == SqlSchema /\ x \in Permissions /\ Rows(r, x) # {}

\* Faulty variant of InsertLink: no unique index.
InsertLinkUnindexed(w) ==
  LET q == txn[w]
  IN /\ At(w, "insert")
     /\ {q.role, q.end} \subseteq Live
     /\ \E i \in Links :
          /\ links[i].life = "NONE"
          /\ links' = [links EXCEPT ![i] =
                         [life |-> "LIVE", role |-> q.role, end |-> q.end]]
          /\ Commit(w, HoldsLink("linked", i))
     /\ UNCHANGED things

\* INSERT and commit; the foreign keys ask for both ends.
InsertLink(w) ==
  LET q == txn[w]
      sound == {q.role, q.end} \subseteq Live /\ ~IndexConflict(q.role, q.end)
  IN /\ At(w, "insert")
     /\ \/ ~sound /\ Refuse(w, Says("assign", "error"))
        \/ /\ sound
           /\ \E i \in Links :
                /\ links[i].life = "NONE"
                /\ links' = [links EXCEPT ![i] =
                               [life |-> "LIVE", role |-> q.role, end |-> q.end]]
                /\ Commit(w, HoldsLink("linked", i))
           /\ UNCHANGED things

\* unassign_... loads the first row of the pair, and only that one.
Unassign(w, r, x) ==
  /\ At(w, "idle")
  /\ \/ Rows(r, x) = {} /\ Refuse(w, Says("unassign", "missing"))
     \/ \E i \in Rows(r, x) : Begin(w, HoldsLink("unlink", i))

\* Faulty variant of RemoveLink: the rows of the pair are deleted.
RemoveLinkPair(w) ==
  LET row == links[txn[w].link]
  IN /\ At(w, "unlink")
     /\ links' = [i \in Links |-> IF i \in Rows(row.role, row.end)
                                  THEN NoLink("GONE") ELSE links[i]]
     /\ Answer(w, Says("unassign", "ok"))
     /\ UNCHANGED things

\* Deleting a row that another request deleted is only warned about.
RemoveLink(w) ==
  /\ At(w, "unlink")
  /\ links' = [links EXCEPT ![txn[w].link] = NoLink("GONE")]
  /\ Answer(w, Says("unassign", "ok"))
  /\ UNCHANGED things

(***************************************************************************)
(* Answers                                                                 *)
(***************************************************************************)
\* Faulty variant of Reload: the request answers with the row it wrote.
ReloadSkipped(w) ==
  /\ txn[w].stage \in DOMAIN Reloads
  /\ Refuse(w, Says(Reloads[txn[w].stage], "ok"))

\* refresh, a SELECT of a new transaction: it raises when another request has
\* deleted the row since the commit.
Reload(w) ==
  LET q == txn[w]
      there == IF q.link = Null THEN q.thing \in Live ELSE q.link \in LiveLinks
  IN /\ q.stage \in DOMAIN Reloads
     /\ Refuse(w, Says(Reloads[q.stage], IF there THEN "ok" ELSE "error"))

\* One SELECT: a role or a permission, a list of them, a page of the permissions
\* of a role or of the roles of a user (no row if there is no such role or user).
ReadThing(w, x) ==
  /\ At(w, "idle")
  /\ Refuse(w, Says("read", IF x \in Live THEN "ok" ELSE "missing"))

\* The list of roles takes skip and limit as they come; a negative one raises.
ReadThings(w) ==
  /\ At(w, "idle")
  /\ \E result \in {"ok", "error"} : Refuse(w, Says("list", result))

ReadLinks(w, x) ==
  LET found == IF x \in Users THEN Uses(x)
               ELSE {i \in Uses(x) : links[i].end \in Permissions}
  IN /\ At(w, "idle")
     /\ \E page \in SUBSET found :
          Refuse(w, Says("links", IF page = {} THEN "missing" ELSE "ok"))

\* An API key cannot be made: its model does not know the field name.  So every
\* list of keys is empty and no key is found.
CreateApiKey(w) == At(w, "idle") /\ Refuse(w, Says("createKey", "error"))

FindApiKey(w) ==
  /\ At(w, "idle")
  /\ \E to \in {"keys", "changeKey", "deleteKey"} : Refuse(w, Says(to, "missing"))

\* What the client is told.
Told(said) ==
  LET q == said.result
  IN CASE said.to = "list" -> R!ReadThings(q)
       [] said.to = "read" -> R!ReadThing(q)
       [] said.to = "create" -> R!CreateThing(q)
       [] said.to = "update" -> R!UpdateThing(q)
       [] said.to = "delete" -> R!DeleteThing(q)
       [] said.to = "deleteUser" -> R!DeleteUser(q)
       [] said.to = "links" -> R!ReadLinks(q)
       [] said.to = "assign" -> R!Assign(q)
       [] said.to = "unassign" -> R!Unassign(q)
       [] said.to = "keys" -> R!ReadKeys(q)
       [] said.to = "createKey" -> R!CreateKey(q)
       [] said.to = "changeKey" -> R!ChangeKey(q)
       [] said.to = "deleteKey" -> R!DeleteKey(q)

-------------------------------------------------------------------------------
\* The process dies, or the database call fails: nothing is committed.
Crash(w) ==
  /\ ~At(w, "idle")
  /\ Refuse(w, Silence)

Receive(w) ==
  \/ \E c \in Codes :
       \/ CreateRole(w, c)
       \/ \E exact \in BOOLEAN : CreatePermission(w, c, exact)
  \/ \E x \in Roles \cup Permissions : UpdateThing(w, x) \/ ReadThing(w, x)
  \/ \E x \in Things : DeleteThing(w, x)
  \/ \E r \in Roles, x \in Ends : Assign(w, r, x) \/ Unassign(w, r, x)
  \/ \E x \in Roles \cup Users : ReadLinks(w, x)
  \/ ReadThings(w) \/ CreateApiKey(w) \/ FindApiKey(w)

Serve(w) ==
  \/ InsertThing(w) \/ CommitUpdate(w) \/ DetachLinks(w) \/ RemoveThing(w)
  \/ CheckPair(w) \/ InsertLink(w) \/ RemoveLink(w) \/ Reload(w)

Next ==
  \/ \E x \in Users : EnrolUser(x)
  \/ \E w \in Workers : Receive(w) \/ Serve(w) \/ Crash(w)

Spec == Init /\ [][Next]_vars
-------------------------------------------------------------------------------
\* Every variable has its type.
TypeOK ==
  /\ things \in [Things -> Thing]
  /\ links \in [Links -> Link]
  /\ txn \in [Workers -> Txn]
  /\ reply \in Replies

\* Nobody has a role, and no role a permission, that was deleted; a deleted
\* user has no role: whatever was linked while the deletion ran.
NoOrphans ==
  \A i \in LiveLinks : links[i].role \in Live /\ links[i].end \in Live

\* Two roles, or two permissions, have different codes, although role creation
\* checks nothing and the check of permission creation compares another spelling.
CodesUnique ==
  \A family \in {Roles, Permissions} : \A x, y \in family \cap Live :
    things[x].code = things[y].code => x = y

\* Under the SQL schema a permission is granted to a role once.
GrantsUnique ==
  SqlSchema =>
    \A r \in Roles, x \in Permissions : \A i, j \in Rows(r, x) : i = j

\* The client of a creation or a change is told of success exactly when the row
\* is there at that moment: whoever is told of a failure may ask again, whatever
\* was deleted between the commit and the answer.
RowsAsTold ==
  [][\A w \in Workers :
       /\ txn[w].stage \in {"new", "created", "edited"}
       /\ txn'[w].stage = "idle" /\ reply' # Silence
       => (Told(reply').success <=> txn[w].thing \in Live')]_vars

\* Without an index that helps, a role is assigned to a user at most as many
\* times as there are processes; with one process, once.  An unassignment
\* removes one row, so each row too many is an unassignment that leaves the role.
AssignmentsBounded ==
  \A r \in Roles, x \in Users : Cardinality(Rows(r, x)) <= Cardinality(Workers)

\* Seen without the mapping rows, the tables change as AccessRights says,
\* whatever the requests interleave: a deletion takes every link with it, an
\* unassignment one link of its pair, and a grant is not given twice.
Rights == INSTANCE AccessRights
            WITH held <- [p \in Roles \X Ends |-> Cardinality(Rows(p[1], p[2]))]
RightsSpec == Rights!Spec
===============================================================================
