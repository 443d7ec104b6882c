-------------------------- MODULE AccessControlProofs --------------------------
(***************************************************************************)
(* Theorems about roles, permissions and their mappings, for any number of *)
(* workers and any tables, under both schemas, with the seeding script     *)
(* beside the server processes and without it.                             *)
(***************************************************************************)
EXTENDS Seeding, FiniteSetTheorems, TLAPS

\* What a request carries at its stage.
Asks(q) ==
  /\ q.stage = "new" => q.thing \in Roles \cup Permissions /\ q.code \in Codes
  /\ q.stage \in {"edit", "drop", "dropping", "created", "edited"} =>
       q.thing \in Things /\ q.link = Null
  /\ q.stage \in {"check", "insert"} => q.role \in Roles /\ q.end \in Ends
  /\ q.stage \in {"unlink", "linked"} => q.link \in Links

\* Nobody else knows the row that a request is about to create.
Fresh ==
  \A w \in Workers :
    At(w, "new") =>
      /\ things[txn[w].thing].life = "NONE"
      /\ \A v \in Workers \ {w} : txn[v].thing # txn[w].thing

\* The requests that found the pair unlinked and will link it.
Waiting(r, x) == {w \in Workers : At(w, "insert") /\ txn[w].role = r /\ txn[w].end = x}

\* A process either waits to add a row of the pair or has not looked yet, and
\* who looks when there is a row does not wait: rows and waiting processes
\* together are never more than the processes.
PairsBounded ==
  \A r \in Roles, x \in Ends :
    Cardinality(Rows(r, x)) + Cardinality(Waiting(r, x)) <= Cardinality(Workers)

Typed == TypeOK /\ \A w \in Workers : Asks(txn[w])

-------------------------------------------------------------------------------
LEMMA SaysTyped ==
  ASSUME NEW to \in RouteNames, NEW result \in {"none", "ok", "missing", "refused", "error"}
  PROVE  Says(to, result) \in Replies
BY DEF Says, Replies, R!Outcomes

LEMMA SilenceTyped == Silence \in Replies
BY SaysTyped DEF Silence, RouteNames

LEMMA DeletionTyped ==
  ASSUME NEW x, NEW result \in {"ok", "missing", "error"}
  PROVE  Deletion(x, result) \in Replies
BY SaysTyped DEF Deletion, RouteNames

\* Every step of a worker puts a typed request in its place, an answered one too.
LEMMA MoveTyped ==
  ASSUME Typed, things' \in [Things -> Thing], links' \in [Links -> Link],
         reply' \in Replies,
         NEW w \in Workers, NEW q \in Txn, Asks(q), txn' = [txn EXCEPT ![w] = q]
  PROVE  Typed'
<1>1. TypeOK'  BY DEF Typed, TypeOK
<1>2. \A v \in Workers : Asks(txn'[v])  BY DEF Typed, TypeOK
<1> QED  BY <1>1, <1>2 DEF Typed, Asks

LEMMA NoTxnTyped == NoTxn \in Txn /\ Asks(NoTxn)
BY DEF NoTxn, Txn, Asks, Stages

LEMMA TablesTyped ==
  ASSUME Typed, UNCHANGED tables
  PROVE  things' \in [Things -> Thing] /\ links' \in [Links -> Link]
BY DEF Typed, TypeOK, tables

LEMMA AnswerTyped ==
  ASSUME Typed, NEW w \in Workers, NEW said \in Replies, Refuse(w, said)
  PROVE  Typed'
BY NoTxnTyped, MoveTyped, TablesTyped DEF Refuse, Answer

LEMMA BeginTyped ==
  ASSUME Typed, NEW w \in Workers, NEW q \in Txn, Asks(q), Begin(w, q)
  PROVE  Typed'
BY MoveTyped, TablesTyped, SilenceTyped DEF Begin

LEMMA CommitTyped ==
  ASSUME Typed, NEW w \in Workers, NEW q \in Txn, Asks(q), Commit(w, q),
         things' \in [Things -> Thing], links' \in [Links -> Link]
  PROVE  Typed'
BY MoveTyped, SilenceTyped DEF Commit

LEMMA DoneTyped ==
  ASSUME Typed, NEW w \in Workers, NEW said \in Replies, Answer(w, said),
         things' \in [Things -> Thing], links' \in [Links -> Link]
  PROVE  Typed'
BY MoveTyped, NoTxnTyped DEF Answer

\* The stages that GoTo is used for keep what the request carries.
LEMMA GoToTyped ==
  ASSUME Typed, NEW w \in Workers,
         \/ At(w, "drop") /\ GoTo(w, "dropping")
         \/ At(w, "check") /\ GoTo(w, "insert")
         \/ At(w, "edit") /\ GoTo(w, "edited")
  PROVE  Typed'
<1> PICK stage \in {"dropping", "insert", "edited"} :
           /\ GoTo(w, stage)
           /\ stage = "dropping" => At(w, "drop")
           /\ stage = "insert" => At(w, "check")
           /\ stage = "edited" => At(w, "edit")
      OBVIOUS
<1> DEFINE q == [txn[w] EXCEPT !.stage = stage]
<1>1. txn[w] \in Txn /\ Asks(txn[w])  BY DEF Typed, TypeOK
<1>2. q \in Txn /\ Asks(q)  BY <1>1 DEF Txn, Stages, Reloads, Asks, At
<1>3. txn' = [txn EXCEPT ![w] = q]  BY DEF GoTo, Typed, TypeOK
<1> QED  BY <1>2, <1>3, MoveTyped, TablesTyped, SilenceTyped DEF GoTo

\* Nothing ill-typed is ever written or carried: what a request begins with.
LEMMA ReceiveTyped ==
  ASSUME Typed, NEW w \in Workers, Receive(w)
  PROVE  Typed'
<1> USE DEF RouteNames
<1>1. ASSUME NEW said \in Replies, Refuse(w, said)  PROVE Typed'
  BY <1>1, AnswerTyped
<1>2. ASSUME NEW x \in Roles \cup Permissions, NEW c \in Codes, Begin(w, Creates(x, c))
      PROVE  Typed'
  <2>1. Creates(x, c) \in Txn /\ Asks(Creates(x, c))
    BY DEF Creates, NoTxn, Txn, Stages, Asks, Things
  <2> QED  BY <1>2, <2>1, BeginTyped
<1>3. ASSUME NEW stage \in {"edit", "drop"}, NEW x \in Things, Begin(w, Holds(stage, x))
      PROVE  Typed'
  <2>1. Holds(stage, x) \in Txn /\ Asks(Holds(stage, x))
    BY DEF Holds, NoTxn, Txn, Stages, Asks
  <2> QED  BY <1>3, <2>1, BeginTyped
<1>4. ASSUME NEW c \in Codes, NEW exact \in BOOLEAN,
             CreateRole(w, c) \/ CreatePermission(w, c, exact)
      PROVE  Typed'
  <2>1. Says("create", "refused") \in Replies  BY SaysTyped
  <2>2. Unused(Roles) \subseteq Roles /\ Unused(Permissions) \subseteq Permissions
    BY DEF Unused
  <2> QED  BY <1>1, <1>2, <1>4, <2>1, <2>2 DEF CreateRole, CreatePermission
<1>5. ASSUME NEW x \in Things, UpdateThing(w, x) \/ DeleteThing(w, x)  PROVE Typed'
  <2>1. Says("update", "missing") \in Replies  BY SaysTyped
  <2>2. Deletion(x, "missing") \in Replies  BY DeletionTyped
  <2> QED  BY <1>1, <1>3, <1>5, <2>1, <2>2 DEF UpdateThing, DeleteThing
<1>6. ASSUME NEW r \in Roles, NEW x \in Ends, Assign(w, r, x)  PROVE Typed'
  <2>1. Pairs(r, x) \in Txn /\ Asks(Pairs(r, x))
    BY DEF Pairs, NoTxn, Txn, Stages, Asks
  <2>2. CASE Begin(w, Pairs(r, x))  BY <2>1, <2>2, BeginTyped
  <2>3. Says("assign", "refused") \in Replies  BY SaysTyped
  <2> QED  BY <1>1, <1>6, <2>2, <2>3 DEF Assign
<1>7. ASSUME NEW r \in Roles, NEW x \in Ends, Unassign(w, r, x)  PROVE Typed'
  <2>1. Says("unassign", "missing") \in Replies  BY SaysTyped
  <2>2. ASSUME NEW i \in Rows(r, x), Begin(w, HoldsLink("unlink", i))  PROVE Typed'
    <3> i \in Links  BY DEF Rows, LiveLinks
    <3>1. HoldsLink("unlink", i) \in Txn /\ Asks(HoldsLink("unlink", i))
      BY DEF HoldsLink, NoTxn, Txn, Stages, Asks
    <3> QED  BY <2>2, <3>1, BeginTyped
  <2> QED  BY <1>1, <1>7, <2>1, <2>2 DEF Unassign
<1>8. ASSUME NEW x, ReadThing(w, x) \/ ReadLinks(w, x) \/ ReadThings(w)
      PROVE  Typed'
  <2>1. /\ Says("read", IF x \in Live THEN "ok" ELSE "missing") \in Replies
        /\ \A result \in {"ok", "error"} : Says("list", result) \in Replies
    BY SaysTyped
  <2>2. \A page : Says("links", IF page = {} THEN "missing" ELSE "ok") \in Replies
    BY SaysTyped
  <2> QED  BY <1>1, <1>8, <2>1, <2>2 DEF ReadThing, ReadLinks, ReadThings
<1>9. CASE CreateApiKey(w) \/ FindApiKey(w)
  <2>1. /\ Says("createKey", "error") \in Replies
        /\ \A to \in {"keys", "changeKey", "deleteKey"} : Says(to, "missing") \in Replies
    BY SaysTyped
  <2> QED  BY <1>1, <1>9, <2>1 DEF CreateApiKey, FindApiKey
<1>10. Roles \cup Permissions \subseteq Things /\ TRUE \in BOOLEAN  BY DEF Things
<1> QED
  BY <1>4, <1>5, <1>6, <1>7, <1>8, <1>9, <1>10 DEF Receive

\* What it writes and hands on.
LEMMA ServeTyped ==
  ASSUME Typed, NEW w \in Workers, Serve(w) \/ Crash(w)
  PROVE  Typed'
<1> USE DEF RouteNames
<1>1. ASSUME NEW said \in Replies, Refuse(w, said)  PROVE Typed'
  BY <1>1, AnswerTyped
<1>2. CASE InsertThing(w)
  <2> DEFINE x == txn[w].thing
  <2>1. /\ x \in Roles \cup Permissions
        /\ txn[w].code \in Codes
    BY <1>2 DEF InsertThing, Typed, Asks, At
  <2>2. CASE Refuse(w, Says("create", "error"))  BY <1>1, <2>2, SaysTyped
  <2>3. CASE /\ things' = [things EXCEPT ![x] = [life |-> "LIVE", code |-> txn[w].code]]
             /\ Commit(w, Holds("created", x)) /\ UNCHANGED links
    <3>1. things' \in [Things -> Thing] /\ links' \in [Links -> Link]
      BY <2>1, <2>3 DEF Typed, TypeOK, Thing, Lives
    <3>2. Holds("created", x) \in Txn /\ Asks(Holds("created", x))
      BY <2>1 DEF Holds, NoTxn, Txn, Stages, Reloads, Asks, Things
    <3> QED  BY <2>3, <3>1, <3>2, CommitTyped
  <2> QED  BY <1>2, <2>2, <2>3 DEF InsertThing
<1>3. CASE RemoveThing(w)
  <2>1. things' \in [Things -> Thing] /\ links' \in [Links -> Link]
    BY <1>3 DEF RemoveThing, Typed, TypeOK, Thing, Link, Lives, NoThing, NoLink
  <2>2. Deletion(txn[w].thing, "ok") \in Replies  BY DeletionTyped
  <2> QED  BY <1>3, <2>1, <2>2, DoneTyped DEF RemoveThing
<1>4. CASE InsertLink(w)
  <2> DEFINE row == [life |-> "LIVE", role |-> txn[w].role, end |-> txn[w].end]
  <2>1. row \in Link  BY <1>4 DEF InsertLink, Typed, Asks, At, Link, Lives
  <2>2. CASE Refuse(w, Says("assign", "error"))  BY <1>1, <2>2, SaysTyped
  <2>3. ASSUME NEW i \in Links, links' = [links EXCEPT ![i] = row],
               Commit(w, HoldsLink("linked", i)), UNCHANGED things
        PROVE  Typed'
    <3>1. things' \in [Things -> Thing] /\ links' \in [Links -> Link]
      BY <2>1, <2>3 DEF Typed, TypeOK
    <3>2. HoldsLink("linked", i) \in Txn /\ Asks(HoldsLink("linked", i))
      BY DEF HoldsLink, NoTxn, Txn, Stages, Reloads, Asks
    <3> QED  BY <2>3, <3>1, <3>2, CommitTyped
  <2> QED  BY <1>4, <2>2, <2>3 DEF InsertLink
<1>5. CASE RemoveLink(w)
  <2>1. things' \in [Things -> Thing] /\ links' \in [Links -> Link]
    BY <1>5 DEF RemoveLink, Typed, TypeOK, Link, Lives, NoLink
  <2>2. Says("unassign", "ok") \in Replies  BY SaysTyped
  <2> QED  BY <1>5, <2>1, <2>2, DoneTyped DEF RemoveLink
<1>6. CASE CommitUpdate(w) \/ DetachLinks(w) \/ CheckPair(w) \/ Crash(w)
  <2>1. /\ Says("update", "error") \in Replies
        /\ Says("assign", "refused") \in Replies
    BY SaysTyped
  <2>2. Deletion(txn[w].thing, "error") \in Replies  BY DeletionTyped
  <2> QED
    BY <1>1, <1>6, <2>1, <2>2, SilenceTyped, GoToTyped
       DEF CommitUpdate, DetachLinks, CheckPair, Crash
<1>7. CASE Reload(w)
  <2>1. \A there \in BOOLEAN : \A to \in RouteNames :
          Says(to, IF there THEN "ok" ELSE "error") \in Replies
    BY SaysTyped
  <2>2. Reloads[txn[w].stage] \in RouteNames  BY <1>7 DEF Reload, Reloads
  <2> QED  BY <1>1, <1>7, <2>1, <2>2 DEF Reload
<1> QED  BY <1>2, <1>3, <1>4, <1>5, <1>6, <1>7 DEF Serve

LEMMA StepTyped ==
  ASSUME Typed, [Next]_vars
  PROVE  Typed'
<1>1. ASSUME NEW x \in Users, EnrolUser(x)  PROVE Typed'
  <2>1. TypeOK'
    BY <1>1, SilenceTyped DEF EnrolUser, Typed, TypeOK, Thing, Lives, Things
  <2> QED  BY <1>1, <2>1 DEF EnrolUser, Typed, Asks
<1>2. CASE UNCHANGED vars
  <2>1. TypeOK'  BY <1>2 DEF Typed, TypeOK, vars
  <2> QED  BY <1>2, <2>1 DEF Typed, Asks, vars
<1> QED  BY <1>1, <1>2, ReceiveTyped, ServeTyped DEF Next

LEMMA InitTyped == Init => Typed
<1> SUFFICES ASSUME Init PROVE Typed  OBVIOUS
<1>1. TypeOK
  BY NoTxnTyped, SilenceTyped DEF Init, TypeOK, Thing, Link, Lives, NoThing, NoLink
<1>2. \A w \in Workers : Asks(txn[w])  BY NoTxnTyped DEF Init
<1> QED  BY <1>1, <1>2 DEF Typed

\* Every variable has its type, and every request what its stage needs.
THEOREM TypeCorrect == Spec => []TypeOK
<1>1. Typed /\ [Next]_vars => Typed'  BY StepTyped
<1>2. Typed => TypeOK  BY DEF Typed
<1> QED  BY InitTyped, <1>1, <1>2, PTL DEF Spec

-------------------------------------------------------------------------------
\* The steps that write a table.
LEMMA Writers ==
  ASSUME [Next]_vars
  PROVE  \/ UNCHANGED tables
         \/ \E w \in Workers :
              InsertThing(w) \/ RemoveThing(w) \/ InsertLink(w) \/ RemoveLink(w)
         \/ \E x \in Users : EnrolUser(x)
<1>1. ASSUME NEW w \in Workers, Receive(w)  PROVE UNCHANGED tables
  BY <1>1 DEF Receive, CreateRole, CreatePermission, UpdateThing, DeleteThing,
              Assign, Unassign, ReadThing, ReadThings, ReadLinks, CreateApiKey,
              FindApiKey, Begin, Refuse
<1>2. ASSUME NEW w \in Workers,
             \/ CommitUpdate(w) \/ DetachLinks(w) \/ CheckPair(w) \/ Reload(w)
             \/ Crash(w)
      PROVE  UNCHANGED tables
  BY <1>2 DEF CommitUpdate, DetachLinks, CheckPair, Reload, Crash, GoTo, Refuse
<1> QED  BY <1>1, <1>2 DEF Next, Serve, vars, tables

\* A foreign key refuses a link to a row that is gone, and a deletion takes
\* along the links made since it looked.
LEMMA StepOrphans ==
  ASSUME Typed, Typed', NoOrphans, [Next]_vars
  PROVE  NoOrphans'
<1>1. CASE UNCHANGED tables
  BY <1>1 DEF NoOrphans, LiveLinks, Live, tables
<1>2. ASSUME NEW w \in Workers, InsertThing(w), ~UNCHANGED tables  PROVE NoOrphans'
  <2>1. /\ things' = [things EXCEPT ![txn[w].thing] =
                        [life |-> "LIVE", code |-> txn[w].code]]
        /\ links' = links
    BY <1>2 DEF InsertThing, Refuse
  <2>2. Live \subseteq Live'  BY <2>1 DEF Live, Typed, TypeOK
  <2> QED  BY <2>1, <2>2 DEF NoOrphans, LiveLinks
<1>3. ASSUME NEW w \in Workers, RemoveThing(w)  PROVE NoOrphans'
  <2> DEFINE x == txn[w].thing
  <2>1. /\ things' = [things EXCEPT ![x] = NoThing("GONE")]
        /\ links' = [i \in Links |-> IF i \in Uses(x) THEN NoLink("GONE") ELSE links[i]]
    BY <1>3 DEF RemoveThing
  <2> HIDE DEF x
  <2>2. Live \ {x} \subseteq Live'  BY <2>1 DEF Live, Typed, TypeOK
  <2>3. ASSUME NEW i \in LiveLinks'
        PROVE  /\ links'[i] = links[i] /\ i \in LiveLinks
               /\ links[i].role # x /\ links[i].end # x
    BY <2>1 DEF LiveLinks, Uses, NoLink
  <2> QED  BY <2>2, <2>3 DEF NoOrphans
<1>4. ASSUME NEW w \in Workers, InsertLink(w), ~UNCHANGED tables  PROVE NoOrphans'
  <2> PICK j \in Links :
        links' = [links EXCEPT ![j] =
                    [life |-> "LIVE", role |-> txn[w].role, end |-> txn[w].end]]
    BY <1>4 DEF InsertLink, Refuse
  <2>1. things' = things /\ {txn[w].role, txn[w].end} \subseteq Live
    BY <1>4 DEF InsertLink, Refuse
  <2>2. Live' = Live  BY <2>1 DEF Live
  <2> QED  BY <2>1, <2>2 DEF NoOrphans, LiveLinks, Typed, TypeOK
<1>5. ASSUME NEW w \in Workers, RemoveLink(w)  PROVE NoOrphans'
  <2>1. /\ links' = [links EXCEPT ![txn[w].link] = NoLink("GONE")]
        /\ things' = things
    BY <1>5 DEF RemoveLink
  <2>2. Live' = Live  BY <2>1 DEF Live
  <2> QED  BY <2>1, <2>2 DEF NoOrphans, LiveLinks, NoLink, Typed, TypeOK
<1>6. ASSUME NEW x \in Users, EnrolUser(x)  PROVE NoOrphans'
  <2>1. /\ things' = [things EXCEPT ![x] = [life |-> "LIVE", code |-> Null]]
        /\ links' = links
    BY <1>6 DEF EnrolUser
  <2>2. Live \subseteq Live'  BY <2>1 DEF Live, Typed, TypeOK
  <2> QED  BY <2>1, <2>2 DEF NoOrphans, LiveLinks
<1> QED  BY <1>1, <1>2, <1>3, <1>4, <1>5, <1>6, Writers

\* Only an INSERT writes a code, and the index asks for it at that moment.
LEMMA StepCodes ==
  ASSUME Typed, CodesUnique, [Next]_vars
  PROVE  CodesUnique'
<1> USE FamiliesAssumption
<1>1. CASE UNCHANGED tables
  BY <1>1 DEF CodesUnique, Live, tables
<1>2. ASSUME NEW w \in Workers, InsertThing(w), ~UNCHANGED tables
      PROVE  CodesUnique'
  <2> DEFINE z == txn[w].thing
             mine == IF z \in Roles THEN Roles ELSE Permissions
  <2>1. /\ things' = [things EXCEPT ![z] = [life |-> "LIVE", code |-> txn[w].code]]
        /\ ~CodeTaken(mine, txn[w].code)
    BY <1>2 DEF InsertThing, Refuse
  <2>2. z \in Roles \cup Permissions /\ z \in Things
    BY <1>2 DEF InsertThing, Typed, Asks, At, Things
  <2> SUFFICES ASSUME NEW family \in {Roles, Permissions},
                      NEW x \in family \cap Live', NEW y \in family \cap Live',
                      things'[x].code = things'[y].code
               PROVE  x = y
    BY DEF CodesUnique
  <2>3. \A v \in Things \ {z} : things'[v] = things[v]
    BY <2>1 DEF Typed, TypeOK
  <2>4. things'[z].code = txn[w].code  BY <2>1, <2>2 DEF Typed, TypeOK
  <2>5. \A v \in Live' \ {z} : v \in Live  BY <2>3 DEF Live
  <2>6. x \in Things /\ y \in Things  BY DEF Live
  <2>7. z \in family => mine = family  BY <2>2 DEF Ends
  <2>8. CASE x # z /\ y # z
    BY <2>3, <2>5, <2>6, <2>8 DEF CodesUnique
  <2>9. CASE x = z \/ y = z
    <3>1. z \in family /\ mine = family  BY <2>7, <2>9
    <3>2. \A v \in family \cap Live : things[v].code # txn[w].code
      BY <2>1, <3>1 DEF CodeTaken
    <3> QED  BY <2>3, <2>4, <2>5, <2>6, <2>9, <3>2
  <2> QED  BY <2>8, <2>9
<1>3. ASSUME NEW w \in Workers, RemoveThing(w)  PROVE CodesUnique'
  <2>1. \A v \in Live' : v \in Live /\ things'[v] = things[v]
    BY <1>3 DEF RemoveThing, Live, NoThing, Typed, TypeOK
  <2> QED  BY <2>1 DEF CodesUnique
<1>4. ASSUME NEW w \in Workers, InsertLink(w) \/ RemoveLink(w)  PROVE CodesUnique'
  <2>1. things' = things  BY <1>4 DEF InsertLink, RemoveLink, Refuse, tables
  <2> QED  BY <2>1 DEF CodesUnique, Live
<1>5. ASSUME NEW u \in Users, EnrolUser(u)  PROVE CodesUnique'
  <2>1. things' = [things EXCEPT ![u] = [life |-> "LIVE", code |-> Null]]
    BY <1>5 DEF EnrolUser
  <2>2. \A v \in Live' \ {u} : v \in Live /\ things'[v] = things[v]
    BY <2>1 DEF Live, Typed, TypeOK
  <2>3. u \notin Roles /\ u \notin Permissions  BY DEF Ends
  <2> QED  BY <2>2, <2>3 DEF CodesUnique
<1> QED  BY <1>1, <1>2, <1>3, <1>4, <1>5, Writers

-------------------------------------------------------------------------------
\* What a step does to the rows of one pair: none is added except by InsertLink,
\* which adds one row to the pair it waited for.
LEMMA RowsStep ==
  ASSUME Typed, [Next]_vars, NEW r \in Roles, NEW x \in Ends
  PROVE  \/ Rows(r, x)' \subseteq Rows(r, x)
         \/ \E w \in Waiting(r, x), j \in Links :
              /\ Commit(w, HoldsLink("linked", j)) /\ ~IndexConflict(r, x)
              /\ Rows(r, x)' = Rows(r, x) \cup {j}
<1> USE DEF Typed, TypeOK
<1>1. CASE links' = links  BY <1>1 DEF Rows, LiveLinks
<1>2. ASSUME NEW w \in Workers, RemoveThing(w)
      PROVE  Rows(r, x)' \subseteq Rows(r, x)
  BY <1>2 DEF RemoveThing, NoLink, Rows, LiveLinks
<1>3. ASSUME NEW w \in Workers, RemoveLink(w)
      PROVE  Rows(r, x)' \subseteq Rows(r, x)
  BY <1>3 DEF RemoveLink, NoLink, Rows, LiveLinks
<1>4. ASSUME NEW w \in Workers, InsertLink(w), links' # links
      PROVE  \/ Rows(r, x)' \subseteq Rows(r, x)
             \/ /\ w \in Waiting(r, x) /\ ~IndexConflict(r, x)
                /\ \E j \in Links : /\ Commit(w, HoldsLink("linked", j))
                                   /\ Rows(r, x)' = Rows(r, x) \cup {j}
  <2>1. At(w, "insert") /\ ~IndexConflict(txn[w].role, txn[w].end)
    BY <1>4 DEF InsertLink, Refuse, tables
  <2>2. PICK j \in Links :
          /\ links' = [links EXCEPT ![j] =
                      [life |-> "LIVE", role |-> txn[w].role, end |-> txn[w].end]]
          /\ Commit(w, HoldsLink("linked", j))
    BY <1>4 DEF InsertLink, Refuse, tables
  <2>3. CASE txn[w].role = r /\ txn[w].end = x
    <3>1. Rows(r, x)' = Rows(r, x) \cup {j}  BY <2>2, <2>3 DEF Rows, LiveLinks
    <3> QED  BY <2>1, <2>2, <2>3, <3>1 DEF Waiting
  <2>4. CASE ~(txn[w].role = r /\ txn[w].end = x)
    BY <2>2, <2>4 DEF Rows, LiveLinks
  <2> QED  BY <2>3, <2>4
<1>5. ASSUME NEW w \in Workers, InsertThing(w)  PROVE links' = links
  BY <1>5 DEF InsertThing, Refuse, tables
<1>6. ASSUME NEW u \in Users, EnrolUser(u)  PROVE links' = links
  BY <1>6 DEF EnrolUser
<1> QED
  <2>1. Waiting(r, x) \subseteq Workers  BY DEF Waiting
  <2> QED  BY <1>1, <1>2, <1>3, <1>4, <1>5, <1>6, <2>1, Writers DEF tables

\* The index lets the rows of a granted pair grow from none to one only.
LEMMA StepGrants ==
  ASSUME Typed, GrantsUnique, [Next]_vars
  PROVE  GrantsUnique'
<1> SUFFICES ASSUME SqlSchema, NEW r \in Roles, NEW x \in Permissions,
                    NEW i \in Rows(r, x)', NEW j \in Rows(r, x)'
             PROVE  i = j
  BY DEF GrantsUnique
<1>1. x \in Ends  BY DEF Ends
<1>2. CASE Rows(r, x)' \subseteq Rows(r, x)  BY <1>2 DEF GrantsUnique
<1>3. ASSUME NEW k \in Links, ~IndexConflict(r, x), Rows(r, x)' = Rows(r, x) \cup {k}
      PROVE  i = j
  BY <1>3 DEF IndexConflict
<1> QED  BY <1>1, <1>2, <1>3, RowsStep

\* What a step does to the processes that wait to link a pair: one joins them
\* only if the pair has no row, and who adds the row leaves.
LEMMA WaitingStep ==
  ASSUME Typed, [Next]_vars, NEW r \in Roles, NEW x \in Ends
  PROVE  \/ Waiting(r, x)' \subseteq Waiting(r, x)
         \/ Rows(r, x) = {} /\ Rows(r, x)' = {}
<1> USE DEF Typed, TypeOK
<1>1. ASSUME NEW w \in Workers, NEW said, Answer(w, said)
      PROVE  Waiting(r, x)' \subseteq Waiting(r, x)
  BY <1>1 DEF Answer, NoTxn, Waiting, At
<1>2. ASSUME NEW w \in Workers, NEW q, q.stage # "insert",
             Begin(w, q) \/ Commit(w, q)
      PROVE  Waiting(r, x)' \subseteq Waiting(r, x)
  BY <1>2 DEF Begin, Commit, Waiting, At
<1>3. ASSUME NEW w \in Workers, GoTo(w, "dropping") \/ GoTo(w, "edited")
      PROVE  Waiting(r, x)' \subseteq Waiting(r, x)
  BY <1>3 DEF GoTo, Waiting, At, Txn
<1>4. ASSUME NEW w \in Workers, CheckPair(w), GoTo(w, "insert")
      PROVE  \/ Waiting(r, x)' \subseteq Waiting(r, x)
             \/ Rows(r, x) = {} /\ Rows(r, x)' = {}
  <2>1. CASE Rows(r, x) = {}
    BY <1>4, <2>1 DEF GoTo, tables, Rows, LiveLinks
  <2>2. CASE Rows(r, x) # {}
    <3>1. ~(txn[w].role = r /\ txn[w].end = x)
      BY <1>4, <2>2 DEF CheckPair, Refuse, Answer, GoTo, NoTxn, Txn
    <3>2. txn' = [txn EXCEPT ![w].stage = "insert"]  BY <1>4 DEF GoTo
    <3> QED  BY <3>1, <3>2 DEF Waiting, At, Txn
  <2> QED  BY <2>1, <2>2
<1>5. ASSUME txn' = txn  PROVE Waiting(r, x)' \subseteq Waiting(r, x)
  BY <1>5 DEF Waiting, At
<1>6. ASSUME NEW w \in Workers, Receive(w)
      PROVE  Waiting(r, x)' \subseteq Waiting(r, x)
  <2> DEFINE Begins == \E q : q.stage # "insert" /\ Begin(w, q)
             Answers == \E said : Answer(w, said)
  <2>1. ASSUME NEW c, NEW exact, CreateRole(w, c) \/ CreatePermission(w, c, exact)
        PROVE  Answers \/ Begins
    <3>1. \A y : Creates(y, c).stage # "insert"  BY DEF Creates, NoTxn
    <3>2. Answers \/ \E y : Begin(w, Creates(y, c))
      BY <2>1 DEF CreateRole, CreatePermission, Refuse
    <3> QED  BY <3>1, <3>2
  <2>2. ASSUME NEW y, UpdateThing(w, y) \/ DeleteThing(w, y)  PROVE Answers \/ Begins
    <3>1. Holds("edit", y).stage # "insert" /\ Holds("drop", y).stage # "insert"
      BY DEF Holds, NoTxn
    <3>2. Answers \/ Begin(w, Holds("edit", y)) \/ Begin(w, Holds("drop", y))
      BY <2>2 DEF UpdateThing, DeleteThing, Refuse
    <3> QED  BY <3>1, <3>2
  <2>3. ASSUME NEW s, NEW y, Assign(w, s, y)  PROVE Answers \/ Begins
    <3>1. Pairs(s, y).stage # "insert"  BY DEF Pairs, NoTxn
    <3>2. Answers \/ Begin(w, Pairs(s, y))  BY <2>3 DEF Assign, Refuse
    <3> QED  BY <3>1, <3>2
  <2>4. ASSUME NEW s, NEW y, Unassign(w, s, y)  PROVE Answers \/ Begins
    <3>1. \A i : HoldsLink("unlink", i).stage # "insert"  BY DEF HoldsLink, NoTxn
    <3>2. Answers \/ \E i : Begin(w, HoldsLink("unlink", i))
      BY <2>4 DEF Unassign, Refuse
    <3> QED  BY <3>1, <3>2
  <2>5. ASSUME \/ \E y : ReadThing(w, y) \/ ReadLinks(w, y)
               \/ ReadThings(w) \/ CreateApiKey(w) \/ FindApiKey(w)
        PROVE  Answers
    BY <2>5 DEF ReadThing, ReadLinks, ReadThings, CreateApiKey, FindApiKey, Refuse
  <2>6. Answers \/ Begins
    BY <1>6, <2>1, <2>2, <2>3, <2>4, <2>5 DEF Receive
  <2> QED  BY <1>1, <1>2, <2>6
<1>7. ASSUME NEW w \in Workers, Serve(w) \/ Crash(w)
      PROVE  \/ \E said : Answer(w, said)
             \/ \E q : q.stage # "insert" /\ Commit(w, q)
             \/ GoTo(w, "dropping") \/ GoTo(w, "edited")
             \/ CheckPair(w) /\ GoTo(w, "insert")
  <2>1. /\ \A y : Holds("created", y).stage # "insert"
        /\ \A i : HoldsLink("linked", i).stage # "insert"
    BY DEF Holds, HoldsLink, NoTxn
  <2> QED
    BY <1>7, <2>1 DEF Serve, Crash, InsertThing, CommitUpdate, DetachLinks,
                      RemoveThing, CheckPair, InsertLink, RemoveLink, Reload, Refuse
<1>8. ASSUME NEW u \in Users, EnrolUser(u)  PROVE txn' = txn
  BY <1>8 DEF EnrolUser
<1> QED  BY <1>1, <1>2, <1>3, <1>4, <1>5, <1>6, <1>7, <1>8 DEF Next, vars

LEMMA PairsFinite ==
  ASSUME NEW r, NEW x
  PROVE  /\ IsFiniteSet(Rows(r, x)) /\ Cardinality(Rows(r, x)) \in Nat
         /\ IsFiniteSet(Waiting(r, x)) /\ Cardinality(Waiting(r, x)) \in Nat
         /\ Cardinality(Waiting(r, x)) <= Cardinality(Workers)
         /\ Cardinality(Workers) \in Nat
<1>1. Rows(r, x) \in SUBSET Links  BY DEF Rows, LiveLinks
<1>2. Waiting(r, x) \in SUBSET Workers  BY DEF Waiting
<1> QED  BY <1>1, <1>2, FiniteAssumption, FS_Subset, FS_CardinalityType

LEMMA StepPairs ==
  ASSUME Typed, Typed', PairsBounded, [Next]_vars
  PROVE  PairsBounded'
<1> SUFFICES ASSUME NEW r \in Roles, NEW x \in Ends
             PROVE  Cardinality(Rows(r, x)') + Cardinality(Waiting(r, x)')
                      <= Cardinality(Workers)
  BY DEF PairsBounded
<1> DEFINE rows == Rows(r, x)
           rest == Waiting(r, x)
           n == Cardinality(Workers)
<1>1. /\ IsFiniteSet(rows) /\ Cardinality(rows) \in Nat
      /\ IsFiniteSet(rest) /\ Cardinality(rest) \in Nat
      /\ Cardinality(rest) <= n /\ n \in Nat
  BY PairsFinite
<1>2. /\ rest' \in SUBSET Workers /\ rows' \in SUBSET Links
  BY DEF Waiting, Rows, LiveLinks
<1>3. /\ IsFiniteSet(rows') /\ Cardinality(rows') \in Nat
      /\ IsFiniteSet(rest') /\ Cardinality(rest') \in Nat
      /\ Cardinality(rest') <= n
  BY <1>2, FiniteAssumption, FS_Subset, FS_CardinalityType
<1>4. Cardinality(rows) + Cardinality(rest) <= n  BY DEF PairsBounded
<1>5. \/ rows' \subseteq rows
      \/ \E w \in rest, j \in Links :
           Commit(w, HoldsLink("linked", j)) /\ rows' = rows \cup {j}
  BY RowsStep
<1>6. rest' \subseteq rest \/ (rows = {} /\ rows' = {})
  BY WaitingStep
<1> HIDE DEF rows, rest, n
<1>7. CASE rows = {} /\ rows' = {}
  BY <1>1, <1>3, <1>7, FS_EmptySet DEF rows, rest, n
<1>8. CASE rows' \subseteq rows /\ rest' \subseteq rest
  <2>1. Cardinality(rows') <= Cardinality(rows)  BY <1>1, <1>8, FS_Subset
  <2>2. Cardinality(rest') <= Cardinality(rest)  BY <1>1, <1>8, FS_Subset
  <2>3. Cardinality(rows') + Cardinality(rest') <= n
    BY <1>1, <1>3, <1>4, <2>1, <2>2
  <2> QED  BY <2>3 DEF rows, rest, n
<1>9. ASSUME NEW w \in rest, NEW j \in Links, Commit(w, HoldsLink("linked", j)),
             rows' = rows \cup {j}, rest' \subseteq rest
      PROVE  Cardinality(Rows(r, x)') + Cardinality(Waiting(r, x)')
               <= Cardinality(Workers)
  <2>1. Cardinality(rows') <= Cardinality(rows) + 1
    <3>1. Cardinality(rows \cup {j}) =
            IF j \in rows THEN Cardinality(rows) ELSE Cardinality(rows) + 1
      BY <1>1, FS_AddElement
    <3>2. Cardinality(rows') = Cardinality(rows \cup {j})  BY <1>9
    <3> QED  BY <1>1, <3>1, <3>2
  <2>2. w \notin rest'
    BY <1>9 DEF rest, Waiting, At, Commit, HoldsLink, NoTxn, Typed, TypeOK
  <2>3. rest' \in SUBSET (rest \ {w})  BY <1>9, <2>2
  <2>4. /\ IsFiniteSet(rest \ {w})
        /\ Cardinality(rest \ {w}) = Cardinality(rest) - 1
    BY <1>1, <1>9, FS_RemoveElement
  <2>5. Cardinality(rest') <= Cardinality(rest) - 1
    BY <2>3, <2>4, FS_Subset
  <2>6. Cardinality(rows') + Cardinality(rest') <= n
    BY <1>1, <1>3, <1>4, <2>1, <2>5
  <2> QED  BY <2>6 DEF rows, rest, n
<1> QED  BY <1>5, <1>6, <1>7, <1>8, <1>9

-------------------------------------------------------------------------------
\* A request changes its own worker's entry only.
LEMMA OwnStep ==
  ASSUME Typed, [Next]_vars, NEW w \in Workers, txn'[w] # txn[w]
  PROVE  Receive(w) \/ Serve(w) \/ Crash(w)
<1>1. ASSUME NEW v \in Workers, NEW q, Begin(v, q) \/ Commit(v, q)
      PROVE  v = w
  BY <1>1 DEF Begin, Commit, Typed, TypeOK
<1>2. ASSUME NEW v \in Workers, NEW stage, GoTo(v, stage)
      PROVE  v = w
  BY <1>2 DEF GoTo, Typed, TypeOK
<1>3. ASSUME NEW v \in Workers, NEW said, Answer(v, said)
      PROVE  v = w
  BY <1>3 DEF Answer, Typed, TypeOK
<1>4. ASSUME NEW v \in Workers, Receive(v)
      PROVE  v = w
  BY <1>1, <1>3, <1>4
     DEF Receive, CreateRole, CreatePermission, UpdateThing, DeleteThing, Assign,
         Unassign, ReadThing, ReadThings, ReadLinks, CreateApiKey, FindApiKey, Refuse
<1>5. ASSUME NEW v \in Workers, Serve(v) \/ Crash(v)
      PROVE  v = w
  BY <1>1, <1>2, <1>3, <1>5
     DEF Serve, Crash, InsertThing, CommitUpdate, DetachLinks, RemoveThing,
         CheckPair, InsertLink, RemoveLink, Reload, Refuse
<1> QED  BY <1>4, <1>5 DEF Next, EnrolUser, vars

\* The row a request holds after a step: none, the one it held, one that is
\* there, or one that it is about to create and nobody knows.
LEMMA ThingStep ==
  ASSUME Typed, [Next]_vars, NEW w \in Workers, txn'[w] # txn[w]
  PROVE  \/ \E x \in Unused(Roles) \cup Unused(Permissions), c \in Codes :
               Begin(w, Creates(x, c))
         \/ /\ txn'[w].stage # "new"
            /\ txn'[w].thing \in Live \cup {Null, txn[w].thing}
<1> DEFINE Kept == /\ txn'[w].stage # "new"
                   /\ txn'[w].thing \in Live \cup {Null, txn[w].thing}
           New == \E x \in Unused(Roles) \cup Unused(Permissions), c \in Codes :
                    Begin(w, Creates(x, c))
<1>1. ASSUME NEW said, Answer(w, said)  PROVE Kept
  BY <1>1 DEF Answer, NoTxn, Typed, TypeOK
<1>2. ASSUME NEW q, Begin(w, q) \/ Commit(w, q)  PROVE txn'[w] = q
  BY <1>2 DEF Begin, Commit, Typed, TypeOK
<1>3. ASSUME NEW stage \in {"dropping", "insert", "edited"}, GoTo(w, stage)  PROVE Kept
  BY <1>3 DEF GoTo, Typed, TypeOK, Txn
<1>4. CASE Receive(w)
  <2>1. ASSUME NEW c \in Codes, NEW exact, CreateRole(w, c) \/ CreatePermission(w, c, exact)
        PROVE  New \/ Kept
    BY <1>1, <2>1 DEF CreateRole, CreatePermission, Refuse
  <2>2. ASSUME NEW y \in Things, UpdateThing(w, y) \/ DeleteThing(w, y)  PROVE Kept
    <3>1. ASSUME NEW stage \in {"edit", "drop"}, y \in Live, Begin(w, Holds(stage, y))
          PROVE  Kept
      BY <1>2, <3>1 DEF Holds, NoTxn
    <3> QED  BY <1>1, <2>2, <3>1 DEF UpdateThing, DeleteThing, Refuse
  <2>3. ASSUME NEW s, NEW y, Assign(w, s, y)  PROVE Kept
    <3>1. ASSUME Begin(w, Pairs(s, y))  PROVE Kept  BY <1>2, <3>1 DEF Pairs, NoTxn
    <3> QED  BY <1>1, <2>3, <3>1 DEF Assign, Refuse
  <2>4. ASSUME NEW s, NEW y, Unassign(w, s, y)  PROVE Kept
    <3>1. ASSUME NEW i, Begin(w, HoldsLink("unlink", i))  PROVE Kept
      BY <1>2, <3>1 DEF HoldsLink, NoTxn
    <3> QED  BY <1>1, <2>4, <3>1 DEF Unassign, Refuse
  <2>5. ASSUME \/ \E y : ReadThing(w, y) \/ ReadLinks(w, y)
               \/ ReadThings(w) \/ CreateApiKey(w) \/ FindApiKey(w)
        PROVE  Kept
    BY <1>1, <2>5 DEF ReadThing, ReadLinks, ReadThings, CreateApiKey, FindApiKey, Refuse
  <2>6. Roles \cup Permissions \subseteq Things  BY DEF Things
  <2> QED  BY <1>4, <2>1, <2>2, <2>3, <2>4, <2>5, <2>6 DEF Receive
<1>5. CASE Serve(w) \/ Crash(w)
  <2>1. ASSUME Commit(w, Holds("created", txn[w].thing))  PROVE Kept
    BY <1>2, <2>1 DEF Holds, NoTxn
  <2>2. ASSUME NEW i, Commit(w, HoldsLink("linked", i))  PROVE Kept
    BY <1>2, <2>2 DEF HoldsLink, NoTxn
  <2> QED
    BY <1>1, <1>3, <1>5, <2>1, <2>2
       DEF Serve, Crash, InsertThing, CommitUpdate, DetachLinks, RemoveThing,
           CheckPair, InsertLink, RemoveLink, Reload, Refuse
<1> QED  BY <1>4, <1>5, OwnStep

\* A row about to be created stays unknown to everybody else.
LEMMA StepFresh ==
  ASSUME Typed, Fresh, [Next]_vars
  PROVE  Fresh'
<1> USE FamiliesAssumption DEF Typed, TypeOK
<1> SUFFICES ASSUME NEW w \in Workers, At(w, "new")'
             PROVE  /\ things'[txn'[w].thing].life = "NONE"
                    /\ \A v \in Workers \ {w} : txn'[v].thing # txn'[w].thing
  BY DEF Fresh
<1>1. CASE txn'[w] # txn[w]
  <2> PICK x \in Unused(Roles) \cup Unused(Permissions), c \in Codes :
             Begin(w, Creates(x, c))
    BY <1>1, ThingStep DEF At
  <2>1. things[x].life = "NONE" /\ \A v \in Workers : txn[v].thing # x
    BY DEF Unused
  <2>2. txn'[w] = Creates(x, c) /\ things' = things
    BY DEF Begin, tables
  <2>3. \A v \in Workers \ {w} : txn'[v] = txn[v]  BY DEF Begin
  <2>4. Creates(x, c).thing = x  BY DEF Creates, NoTxn
  <2> QED  BY <2>1, <2>2, <2>3, <2>4
<1>2. CASE txn'[w] = txn[w]
  <2> DEFINE z == txn[w].thing
  <2>1. /\ At(w, "new") /\ z \in Roles \cup Permissions /\ z \in Things
        /\ things[z].life = "NONE"
        /\ \A v \in Workers \ {w} : txn[v].thing # z
    BY <1>2 DEF At, Fresh, Asks, Things
  <2> HIDE DEF z
  <2>2. things'[z].life = "NONE"
    <3>1. ASSUME NEW v \in Workers, InsertThing(v), things' # things
          PROVE  things'[z] = things[z]
      <4>1. /\ things' = [things EXCEPT ![txn[v].thing] =
                            [life |-> "LIVE", code |-> txn[v].code]]
            /\ Commit(v, Holds("created", txn[v].thing))
        BY <3>1 DEF InsertThing, Refuse, tables
      <4>2. txn'[v].stage = "created"  BY <4>1 DEF Commit, Holds, NoTxn
      <4>3. v # w  BY <1>2, <2>1, <4>2 DEF At
      <4> QED  BY <2>1, <4>1, <4>3
    <3>2. ASSUME NEW v \in Workers, RemoveThing(v)  PROVE things'[z] = things[z]
      <4>1. v # w  BY <2>1, <3>2 DEF RemoveThing, At
      <4>2. txn[v].thing # z  BY <2>1, <4>1
      <4> QED  BY <2>1, <3>2, <4>2 DEF RemoveThing
    <3>3. ASSUME NEW v \in Workers, InsertLink(v) \/ RemoveLink(v)
          PROVE  things'[z] = things[z]
      BY <3>3 DEF InsertLink, RemoveLink, Refuse, tables
    <3>4. ASSUME NEW x \in Users, EnrolUser(x)  PROVE things'[z] = things[z]
      <4>1. z # x  BY <2>1 DEF Ends
      <4> QED  BY <2>1, <3>4, <4>1 DEF EnrolUser
    <3> QED  BY <2>1, <3>1, <3>2, <3>3, <3>4, Writers DEF tables
  <2>3. ASSUME NEW v \in Workers \ {w}  PROVE txn'[v].thing # z
    <3>1. CASE txn'[v] = txn[v]  BY <2>1, <3>1
    <3>2. CASE txn'[v] # txn[v]
      <4>1. z \notin Live /\ z # Null  BY <2>1 DEF Live
      <4>2. ASSUME NEW x \in Unused(Roles) \cup Unused(Permissions), NEW c \in Codes,
                   Begin(v, Creates(x, c))
            PROVE  txn'[v].thing # z
        <5>1. txn'[v].thing = x  BY <4>2 DEF Begin, Creates, NoTxn
        <5>2. x # txn[w].thing  BY DEF Unused
        <5> QED  BY <5>1, <5>2 DEF z
      <4> QED  BY <2>1, <3>2, <4>1, <4>2, ThingStep
    <3> QED  BY <3>1, <3>2
  <2> QED  BY <1>2, <2>2, <2>3 DEF z
<1> QED  BY <1>1, <1>2

LEMMA ToldRow ==
  ASSUME NEW to \in {"create", "update"}
  PROVE  Told(Says(to, "ok")).success /\ ~Told(Says(to, "error")).success
<1>1. CASE to = "create"
  BY <1>1 DEF Told, Says, R!CreateThing, R!Mapped, R!Envelope, R!Raised
<1>2. CASE to = "update"
  BY <1>2 DEF Told, Says, R!UpdateThing, R!Mapped, R!Envelope, R!Raised
<1> QED  BY <1>1, <1>2

\* The answer to a creation or a change says what is in the table.
LEMMA StepTold ==
  ASSUME Typed, Fresh, [Next]_vars, NEW w \in Workers,
         txn[w].stage \in {"new", "created", "edited"},
         txn'[w].stage = "idle", reply' # Silence
  PROVE  Told(reply').success <=> txn[w].thing \in Live'
<1>1. Receive(w) \/ Serve(w) \/ Crash(w)  BY OwnStep
<1>2. InsertThing(w) \/ Reload(w)
  <2>1. ~Receive(w)
    BY DEF Receive, CreateRole, CreatePermission, UpdateThing, DeleteThing, Assign,
           Unassign, ReadThing, ReadThings, ReadLinks, CreateApiKey, FindApiKey,
           Begin, At
  <2>2. ~Crash(w)  BY DEF Crash, Refuse, Answer
  <2> QED
    BY <1>1, <2>1, <2>2
       DEF Serve, CommitUpdate, DetachLinks, RemoveThing, CheckPair, InsertLink,
           RemoveLink, At
<1>3. CASE InsertThing(w)
  <2>1. txn[w].thing \in Things /\ things[txn[w].thing].life = "NONE"
    BY <1>3 DEF InsertThing, Fresh, Typed, Asks, At, Things
  <2>2. ~Commit(w, Holds("created", txn[w].thing))
    BY DEF Commit, Holds, NoTxn, Typed, TypeOK
  <2>3. reply' = Says("create", "error") /\ things' = things
    BY <1>3, <2>2 DEF InsertThing, Refuse, Answer, tables
  <2> QED  BY <2>1, <2>3, ToldRow DEF Live
<1>4. CASE Reload(w)
  <2> DEFINE there == txn[w].thing \in Live
             to == Reloads[txn[w].stage]
  <2>1. txn[w].link = Null /\ to \in {"create", "update"}
    BY <1>4 DEF Reload, Reloads, Typed, Asks
  <2>2. /\ reply' = Says(to, IF there THEN "ok" ELSE "error")
        /\ things' = things
    BY <1>4, <2>1 DEF Reload, Refuse, Answer, tables
  <2>3. Live' = Live  BY <2>2 DEF Live
  <2> HIDE DEF to
  <2> QED  BY <2>1, <2>2, <2>3, ToldRow
<1> QED  BY <1>2, <1>3, <1>4

-------------------------------------------------------------------------------
IInv == /\ Typed /\ NoOrphans /\ CodesUnique /\ GrantsUnique /\ PairsBounded
        /\ Fresh

LEMMA InitGood == Init => IInv
<1> SUFFICES ASSUME Init PROVE IInv  OBVIOUS
<1>1. Live = {} /\ LiveLinks = {}
  BY DEF Init, Live, LiveLinks, NoThing, NoLink
<1>2. NoOrphans /\ CodesUnique /\ GrantsUnique
  BY <1>1 DEF NoOrphans, CodesUnique, GrantsUnique, Rows
<1>3. PairsBounded
  <2> SUFFICES ASSUME NEW r \in Roles, NEW x \in Ends
               PROVE  Cardinality(Rows(r, x)) + Cardinality(Waiting(r, x))
                        <= Cardinality(Workers)
    BY DEF PairsBounded
  <2>1. Rows(r, x) = {}  BY <1>1 DEF Rows
  <2> QED  BY <2>1, PairsFinite, FS_EmptySet
<1>4. Fresh  BY DEF Init, Fresh, At, NoTxn
<1> QED  BY <1>2, <1>3, <1>4, InitTyped DEF IInv

LEMMA StepGood == IInv /\ [Next]_vars => IInv'
BY StepTyped, StepOrphans, StepCodes, StepGrants, StepPairs, StepFresh DEF IInv

\* No mapping row refers to a role, a permission or a user that is gone.
THEOREM LinksWhole == Spec => []NoOrphans
<1>1. IInv => NoOrphans  BY DEF IInv
<1> QED  BY InitGood, StepGood, <1>1, PTL DEF Spec

\* No two roles and no two permissions share a code.
THEOREM UniqueCodes == Spec => []CodesUnique
<1>1. IInv => CodesUnique  BY DEF IInv
<1> QED  BY InitGood, StepGood, <1>1, PTL DEF Spec

\* Under the SQL schema no permission is granted to a role twice.
THEOREM UniqueGrants == Spec => []GrantsUnique
<1>1. IInv => GrantsUnique  BY DEF IInv
<1> QED  BY InitGood, StepGood, <1>1, PTL DEF Spec

\* A role is assigned to a user at most as many times as there are processes.
THEOREM BoundedAssignments == Spec => []AssignmentsBounded
<1>1. IInv => AssignmentsBounded
  <2> SUFFICES ASSUME IInv, NEW r \in Roles, NEW x \in Users
               PROVE  Cardinality(Rows(r, x)) <= Cardinality(Workers)
    BY DEF AssignmentsBounded
  <2>1. Cardinality(Rows(r, x)) + Cardinality(Waiting(r, x)) <= Cardinality(Workers)
    BY DEF IInv, PairsBounded, Ends
  <2> QED  BY <2>1, PairsFinite
<1> QED  BY InitGood, StepGood, <1>1, PTL DEF Spec

\* Whoever creates or changes a role or a permission is told whether the row is
\* there, whatever other requests did between the commit and the answer.
THEOREM ToldRight == Spec => RowsAsTold
<1>1. IInv /\ [Next]_vars =>
        [\A w \in Workers :
           /\ txn[w].stage \in {"new", "created", "edited"}
           /\ txn'[w].stage = "idle" /\ reply' # Silence
           => (Told(reply').success <=> txn[w].thing \in Live')]_vars
  BY StepTold DEF IInv
<1> QED  BY InitGood, StepGood, <1>1, PTL DEF Spec, RowsAsTold

\* With one process a role is assigned to a user once: what an unassignment
\* removes is the only row there is.
THEOREM OneWorkerAssignments ==
  ASSUME Cardinality(Workers) = 1
  PROVE  Spec => [](\A r \in Roles, x \in Users : \A i, j \in Rows(r, x) : i = j)
<1> DEFINE Single == \A r \in Roles, x \in Users : \A i, j \in Rows(r, x) : i = j
<1>1. AssignmentsBounded => Single
  <2> SUFFICES ASSUME AssignmentsBounded, NEW r \in Roles, NEW x \in Users,
                      NEW i \in Rows(r, x), NEW j \in Rows(r, x)
               PROVE  i = j
    OBVIOUS
  <2>1. IsFiniteSet(Rows(r, x)) /\ Cardinality(Rows(r, x)) \in Nat
    BY PairsFinite
  <2>2. Cardinality(Rows(r, x)) <= 1  BY DEF AssignmentsBounded
  <2>3. Cardinality(Rows(r, x)) = 0 \/ Cardinality(Rows(r, x)) = 1
    BY <2>1, <2>2
  <2>4. Rows(r, x) # {}  OBVIOUS
  <2>5. Cardinality(Rows(r, x)) = 1  BY <2>1, <2>3, <2>4, FS_EmptySet
  <2> QED  BY <2>1, <2>5, FS_Singleton
<1> QED  BY BoundedAssignments, <1>1, PTL
-------------------------------------------------------------------------------
(***************************************************************************)
(* With the seeding script                                                 *)
(***************************************************************************)
\* A phase commits each missing code once, under an id nobody knows.
LEMMA InsertedRows ==
  ASSUME Typed, NEW f \in {"roles", "permissions"}, NEW codes \in SUBSET Codes,
         NEW ids \in Insertions(f, codes), things' = Inserted(ids)
  PROVE  /\ things' \in [Things -> Thing] /\ Live \subseteq Live'
         /\ \A x \in Things :
              \/ things'[x] = things[x]
              \/ /\ x \in Unused(Family[f])
                 /\ \E c \in codes : ids[c] = x /\ things'[x] = [life |-> "LIVE", code |-> c]
         /\ \A c \in codes : /\ ids[c] \in Unused(Family[f]) /\ ids[c] \in Things
                            /\ things'[ids[c]] = [life |-> "LIVE", code |-> c]
<1>1. /\ ids \in [codes -> Unused(Family[f])]
      /\ \A c, d \in codes : ids[c] = ids[d] => c = d
  BY DEF Insertions
<1>2. Unused(Family[f]) \subseteq Things
  BY DEF Unused, Family, Things
<1>3. ASSUME NEW c \in codes
      PROVE  (CHOOSE d \in DOMAIN ids : ids[d] = ids[c]) = c
  BY <1>1
<1>4. ASSUME NEW c \in codes
      PROVE  /\ ids[c] \in Unused(Family[f]) /\ ids[c] \in Things
             /\ things'[ids[c]] = [life |-> "LIVE", code |-> c]
  <2>1. ids[c] \in Unused(Family[f]) /\ ids[c] \in Things  BY <1>1, <1>2
  <2> QED  BY <1>1, <1>3, <2>1 DEF Inserted, SeededRow, SeededRow
<1>5. ASSUME NEW x \in Things
      PROVE  \/ things'[x] = things[x]
             \/ /\ x \in Unused(Family[f])
                /\ \E c \in codes : ids[c] = x /\ things'[x] = [life |-> "LIVE", code |-> c]
  <2>1. CASE \E c \in codes : ids[c] = x  BY <1>4, <2>1
  <2>2. CASE ~\E c \in codes : ids[c] = x  BY <1>1, <2>2 DEF Inserted, SeededRow
  <2> QED  BY <2>1, <2>2
<1>6. things' \in [Things -> Thing]
  <2>1. ASSUME NEW x \in Things  PROVE things'[x] \in Thing
    <3>1. CASE things'[x] = things[x]  BY <3>1 DEF Typed, TypeOK
    <3>2. ASSUME NEW c \in codes, things'[x] = [life |-> "LIVE", code |-> c]
          PROVE  things'[x] \in Thing
      BY <3>2 DEF Thing, Lives
    <3> QED  BY <1>5, <3>1, <3>2
  <2>2. things' = [x \in Things |-> SeededRow(ids, x)]  BY DEF Inserted
  <2> QED  BY <2>1, <2>2
<1>7. Live \subseteq Live'
  <2> SUFFICES ASSUME NEW x \in Live PROVE x \in Live'  OBVIOUS
  <2>1. x \in Things /\ things[x].life = "LIVE"  BY DEF Live
  <2>2. things'[x].life = "LIVE"
    <3>1. CASE things'[x] = things[x]  BY <2>1, <3>1
    <3>2. ASSUME NEW c \in codes, things'[x] = [life |-> "LIVE", code |-> c]
          PROVE  things'[x].life = "LIVE"
      BY <3>2
    <3> QED  BY <1>5, <2>1, <3>1, <3>2
  <2> QED  BY <2>1, <2>2 DEF Live
<1> QED  BY <1>4, <1>5, <1>6, <1>7

\* What a phase that is not refused adds.
LEMMA PhaseCommit ==
  ASSUME CommitPhase, things' # things
  PROVE  /\ seed.phase \in {"roles", "permissions"} /\ seed.left = {}
         /\ \E ids \in Insertions(seed.phase, seed.missing) : things' = Inserted(ids)
         /\ \A c \in seed.missing : ~CodeTaken(Family[seed.phase], c)
BY DEF CommitPhase, Family

LEMMA LookForKeeps ==
  ASSUME NEW c, LookFor(c)
  PROVE  UNCHANGED vars
BY DEF LookFor

LEMMA SeedStepFamily ==
  ASSUME Typed, SeedTypeOK, CodesUnique, CommitPhase, things' # things
  PROVE  CodesUnique'
<1> USE FamiliesAssumption
<1> DEFINE f == seed.phase
           m == seed.missing
<1>1. f \in {"roles", "permissions"} /\ m \in SUBSET Codes
  BY PhaseCommit DEF SeedTypeOK, Seed
<1> PICK ids \in Insertions(f, m) : things' = Inserted(ids)
  BY PhaseCommit
<1>2. \A c \in m : ~CodeTaken(Family[f], c)  BY PhaseCommit
<1> HIDE DEF f, m
<1>3. /\ \A x \in Things :
           \/ things'[x] = things[x]
           \/ /\ x \in Unused(Family[f])
              /\ \E c \in m : ids[c] = x /\ things'[x] = [life |-> "LIVE", code |-> c]
  BY <1>1, InsertedRows
<1> SUFFICES ASSUME NEW family \in {Roles, Permissions},
                    NEW x \in family \cap Live', NEW y \in family \cap Live',
                    things'[x].code = things'[y].code
             PROVE  x = y
  BY DEF CodesUnique
<1>4. x \in Things /\ y \in Things  BY DEF Live
<1>5. ASSUME NEW v \in family \cap Live', NEW c \in m, ids[c] = v,
             v \in Unused(Family[f])
      PROVE  \A u \in family \cap Live : things[u].code # c
  <2>1. v \in Family[f]  BY <1>5 DEF Unused
  <2>2. Family[f] = family  BY <1>1, <2>1 DEF Family, Ends
  <2> QED  BY <1>2, <2>2 DEF CodeTaken
<1>6. \A v \in family \cap Live' : things'[v] = things[v] => v \in family \cap Live
  BY DEF Live
<1>7. CASE things'[x] = things[x] /\ things'[y] = things[y]
  BY <1>6, <1>7 DEF CodesUnique
<1>8. CASE things'[x] = things[x] /\ things'[y] # things[y]
  <2> PICK c \in m : ids[c] = y /\ things'[y] = [life |-> "LIVE", code |-> c]
    BY <1>3, <1>4, <1>8
  <2>1. y \in Unused(Family[f])  BY <1>3, <1>4, <1>8
  <2>2. things'[y].code = c  OBVIOUS
  <2> QED  BY <1>5, <1>6, <1>8, <2>1, <2>2
<1>9. CASE things'[x] # things[x] /\ things'[y] = things[y]
  <2> PICK c \in m : ids[c] = x /\ things'[x] = [life |-> "LIVE", code |-> c]
    BY <1>3, <1>4, <1>9
  <2>1. x \in Unused(Family[f])  BY <1>3, <1>4, <1>9
  <2>2. things'[x].code = c  OBVIOUS
  <2> QED  BY <1>5, <1>6, <1>9, <2>1, <2>2
<1>10. CASE things'[x] # things[x] /\ things'[y] # things[y]
  <2> PICK c \in m : ids[c] = x /\ things'[x] = [life |-> "LIVE", code |-> c]
    BY <1>3, <1>4, <1>10
  <2> PICK d \in m : ids[d] = y /\ things'[y] = [life |-> "LIVE", code |-> d]
    BY <1>3, <1>4, <1>10
  <2>1. things'[x].code = c /\ things'[y].code = d  OBVIOUS
  <2> QED  BY <2>1
<1> QED  BY <1>7, <1>8, <1>9, <1>10

\* The script keeps what the requests rely on.
LEMMA ScriptGood ==
  ASSUME IInv, SeedTypeOK, SeedStep
  PROVE  IInv'
<1> USE DEF IInv
<1>1. UNCHANGED <<links, txn, reply>> /\ (CommitPhase \/ things' = things)
  BY LookForKeeps
     DEF SeedStep, StartSeeding, CommitPhase, AssignPermissions, SeedCrash, vars
<1>2. GrantsUnique' /\ PairsBounded'
  BY <1>1 DEF GrantsUnique, PairsBounded, Rows, LiveLinks, Waiting, At
<1>3. CASE things' = things
  <2>1. UNCHANGED vars  BY <1>1, <1>3 DEF vars
  <2> QED  BY <2>1, StepGood
<1>4. CASE CommitPhase /\ things' # things
  <2> DEFINE f == seed.phase
             m == seed.missing
  <2>1. f \in {"roles", "permissions"} /\ m \in SUBSET Codes
    BY <1>4, PhaseCommit DEF SeedTypeOK, Seed
  <2> PICK ids \in Insertions(f, m) : things' = Inserted(ids)
    BY <1>4, PhaseCommit
  <2> HIDE DEF f, m
  <2>2. /\ things' \in [Things -> Thing] /\ Live \subseteq Live'
        /\ \A x \in Things : things'[x] = things[x] \/ x \in Unused(Family[f])
    BY <2>1, InsertedRows
  <2>3. Typed'  BY <1>1, <2>2 DEF Typed, TypeOK, Asks
  <2>4. NoOrphans'  BY <1>1, <2>2 DEF NoOrphans, LiveLinks
  <2>5. Fresh'
    <3> SUFFICES ASSUME NEW w \in Workers, At(w, "new")
                 PROVE  things'[txn[w].thing].life = "NONE"
      BY <1>1 DEF Fresh, At
    <3>1. txn[w].thing \in Things /\ things[txn[w].thing].life = "NONE"
      BY DEF Fresh, Typed, Asks, At, Things
    <3>2. txn[w].thing \notin Unused(Family[f])  BY DEF Unused
    <3> QED  BY <2>2, <3>1, <3>2
  <2> QED  BY <1>2, <1>4, <2>3, <2>4, <2>5, SeedStepFamily
<1> QED  BY <1>1, <1>3, <1>4

LEMMA SeedTyped ==
  ASSUME SeedTypeOK, [SeedNext]_seedVars
  PROVE  SeedTypeOK'
<1> USE CatalogueAssumption DEF SeedTypeOK, Seed
<1>1. NoSeed \in Seed  BY DEF NoSeed
<1>2. ASSUME NEW w \in Workers \cup {Null}, NEW f \in {"roles", "permissions"}
      PROVE  Phase(w, f) \in Seed
  BY DEF Phase, Catalogue
<1>3. \A w \in Workers \cup {Null} : Grants(w) \in Seed  BY DEF Grants
<1>4. CASE CommitPhase  BY <1>1, <1>2, <1>3, <1>4 DEF CommitPhase, NextPhase
<1>5. ASSUME NEW c \in Codes, LookFor(c)  PROVE SeedTypeOK'
  BY <1>5 DEF LookFor
<1>6. ASSUME NEW w \in Workers, StartSeeding(w)  PROVE SeedTypeOK'
  BY <1>2, <1>6 DEF StartSeeding
<1>7. CASE AssignPermissions \/ SeedCrash
  BY <1>1, <1>7 DEF AssignPermissions, SeedCrash
<1>8. CASE Meanwhile \/ UNCHANGED seedVars
  BY <1>8 DEF Meanwhile, seedVars
<1> QED  BY <1>4, <1>5, <1>6, <1>7, <1>8 DEF SeedNext, SeedStep

SeedInv == IInv /\ SeedTypeOK

LEMMA SeedInitGood == SeedInit => SeedInv
BY InitGood DEF SeedInit, SeedInv, SeedTypeOK, Seed, NoSeed

LEMMA SeedStepGood == SeedInv /\ [SeedNext]_seedVars => SeedInv'
<1> SUFFICES ASSUME SeedInv, [SeedNext]_seedVars PROVE SeedInv'  OBVIOUS
<1>1. SeedStep \/ [Next]_vars  BY DEF SeedNext, Meanwhile, Next, seedVars, vars
<1> QED  BY <1>1, ScriptGood, SeedTyped, StepGood DEF SeedInv

\* The tables and the requests keep their types while the script runs beside.
THEOREM SeedingTypeCorrect == SeedSpec => []TypeOK
<1>1. SeedInv => TypeOK  BY DEF SeedInv, IInv, Typed
<1> QED  BY SeedInitGood, SeedStepGood, <1>1, PTL DEF SeedSpec

\* However often the script is run, and whatever runs beside it, no code gets a
\* second row and nothing else that holds without it is lost.
THEOREM SeedingKeeps ==
  SeedSpec => [](CodesUnique /\ NoOrphans /\ GrantsUnique)
<1>1. SeedInv => CodesUnique /\ NoOrphans /\ GrantsUnique  BY DEF SeedInv, IInv
<1> QED  BY SeedInitGood, SeedStepGood, <1>1, PTL DEF SeedSpec

\* A phase adds its rows all at once.
THEOREM SeedingWhole == SeedSpec => SeededWhole
<1>1. ASSUME SeedInv, [SeedNext]_seedVars, seed' # seed, things' # things,
             NEW c \in Catalogue[seed.phase], c \in seed.left \cup seed.missing
      PROVE  \E x \in Family[seed.phase] : things'[x] = [life |-> "LIVE", code |-> c]
  <2>1. CommitPhase
    BY <1>1, LookForKeeps
       DEF SeedNext, SeedStep, StartSeeding, AssignPermissions, SeedCrash,
           Meanwhile, seedVars, vars
  <2> DEFINE f == seed.phase
             m == seed.missing
  <2>2. /\ f \in {"roles", "permissions"} /\ m \in SUBSET Codes
        /\ c \in m
    BY <1>1, <2>1, PhaseCommit DEF SeedInv, SeedTypeOK, Seed
  <2> PICK ids \in Insertions(f, m) : things' = Inserted(ids)
    BY <1>1, <2>1, PhaseCommit
  <2> HIDE DEF f, m
  <2>3. /\ ids[c] \in Unused(Family[f])
        /\ things'[ids[c]] = [life |-> "LIVE", code |-> c]
    BY <1>1, <2>2, InsertedRows DEF SeedInv, IInv
  <2> QED  BY <2>3 DEF Unused, f
<1>2. SeedInv /\ [SeedNext]_seedVars =>
        [seed' # seed /\ things' # things
         => \A c \in Catalogue[seed.phase] :
              c \in seed.left \cup seed.missing =>
                \E x \in Family[seed.phase] :
                  things'[x] = [life |-> "LIVE", code |-> c]]_seedVars
  BY <1>1
<1> QED  BY SeedInitGood, SeedStepGood, <1>2, PTL DEF SeedSpec, SeededWhole

-------------------------------------------------------------------------------
\* AccessRights: who has what, without the mapping rows.  A request deletes only
\* a row that was there when it looked, and a row that is gone keeps nothing.
Dropped ==
  /\ \A x \in Things : things[x].life = "GONE" => things[x] = NoThing("GONE")
  /\ \A w \in Workers :
       txn[w].stage \in {"drop", "dropping"} => things[txn[w].thing].life # "NONE"

\* A row is inserted, and it is deleted.
LEMMA ThingsAge ==
  ASSUME Typed, Fresh, [Next]_vars, NEW x \in Things
  PROVE  \/ things'[x] = things[x]
         \/ things[x].life = "NONE" /\ things'[x].life = "LIVE"
         \/ \E w \in Workers : RemoveThing(w) /\ x = txn[w].thing
<1> USE FamiliesAssumption DEF Typed, TypeOK
<1>1. ASSUME NEW w \in Workers, InsertThing(w), ~UNCHANGED tables
      PROVE  \/ things'[x] = things[x]
             \/ things[x].life = "NONE" /\ things'[x].life = "LIVE"
  BY <1>1 DEF InsertThing, Refuse, Fresh, At
<1>2. ASSUME NEW w \in Workers, RemoveThing(w)
      PROVE  things'[x] = things[x] \/ x = txn[w].thing
  BY <1>2 DEF RemoveThing
<1>3. ASSUME NEW w \in Workers, InsertLink(w) \/ RemoveLink(w)
      PROVE  things' = things
  BY <1>3 DEF InsertLink, RemoveLink, Refuse, tables
<1>4. ASSUME NEW u \in Users, EnrolUser(u)
      PROVE  \/ things'[x] = things[x]
             \/ things[x].life = "NONE" /\ things'[x].life = "LIVE"
  BY <1>4 DEF EnrolUser
<1> QED  BY <1>1, <1>2, <1>3, <1>4, Writers DEF tables

\* A deletion is begun for a row that is there, and goes on with that row.
LEMMA Deletes ==
  ASSUME Typed, [Next]_vars, NEW w \in Workers, txn'[w] # txn[w],
         txn'[w].stage \in {"drop", "dropping"}
  PROVE  \/ txn'[w].thing \in Live
         \/ txn[w].stage = "drop" /\ txn'[w].thing = txn[w].thing
<1> USE DEF Typed, TypeOK
<1>1. ASSUME NEW said, Answer(w, said)  PROVE FALSE
  BY <1>1 DEF Answer, NoTxn
<1>2. ASSUME NEW q, Begin(w, q) \/ Commit(w, q)  PROVE txn'[w] = q
  BY <1>2 DEF Begin, Commit
<1>3. CASE Receive(w)
  <2>1. ASSUME NEW x \in Things, DeleteThing(w, x)  PROVE txn'[w].thing \in Live
    BY <1>1, <1>2, <2>1 DEF DeleteThing, Refuse, Holds, NoTxn
  <2>2. ASSUME NEW x \in Roles \cup Permissions, UpdateThing(w, x)  PROVE FALSE
    BY <1>1, <1>2, <2>2 DEF UpdateThing, Refuse, Holds, NoTxn
  <2>3. ASSUME NEW r \in Roles, NEW x \in Ends, Assign(w, r, x) \/ Unassign(w, r, x)
        PROVE  FALSE
    BY <1>1, <1>2, <2>3 DEF Assign, Unassign, Refuse, Pairs, HoldsLink, NoTxn
  <2>4. ASSUME NEW c \in Codes, NEW exact \in BOOLEAN,
               CreateRole(w, c) \/ CreatePermission(w, c, exact)
        PROVE  FALSE
    BY <1>1, <1>2, <2>4 DEF CreateRole, CreatePermission, Refuse, Creates, NoTxn
  <2> QED
    BY <1>1, <1>3, <2>1, <2>2, <2>3, <2>4
       DEF Receive, ReadThing, ReadThings, ReadLinks, CreateApiKey, FindApiKey, Refuse
<1>4. ASSUME NEW stage, GoTo(w, stage)
      PROVE  txn'[w].stage = stage /\ txn'[w].thing = txn[w].thing
  BY <1>4 DEF GoTo, Txn
<1>5. CASE Serve(w)
  BY <1>1, <1>2, <1>4, <1>5
     DEF Serve, InsertThing, CommitUpdate, DetachLinks, RemoveThing, CheckPair,
         InsertLink, RemoveLink, Reload, Refuse, At, Holds, HoldsLink, NoTxn
<1>6. CASE Crash(w)  BY <1>1, <1>6 DEF Crash, Refuse
<1> QED  BY <1>3, <1>5, <1>6, OwnStep

LEMMA StepDropped ==
  ASSUME Typed, Fresh, Dropped, [Next]_vars
  PROVE  Dropped'
<1> USE DEF Typed, TypeOK
<1>1. ASSUME NEW x \in Things
      PROVE  /\ things[x].life # "NONE" => things'[x].life # "NONE"
             /\ things'[x].life = "GONE" => things'[x] = NoThing("GONE")
  <2>1. ASSUME NEW w \in Workers, RemoveThing(w), x = txn[w].thing
        PROVE  things'[x] = NoThing("GONE") /\ things'[x].life = "GONE"
    BY <2>1 DEF RemoveThing, NoThing
  <2> QED  BY <2>1, ThingsAge DEF Dropped
<1>2. ASSUME NEW w \in Workers, txn'[w].stage \in {"drop", "dropping"}
      PROVE  things'[txn'[w].thing].life # "NONE"
  <2>1. CASE txn'[w] = txn[w]
    <3>1. txn[w].thing \in Things  BY <1>2, <2>1 DEF Asks
    <3> QED  BY <1>1, <1>2, <2>1, <3>1 DEF Dropped
  <2>2. CASE txn'[w] # txn[w]
    <3>1. \/ txn'[w].thing \in Live
          \/ txn[w].stage = "drop" /\ txn'[w].thing = txn[w].thing
      BY <1>2, <2>2, Deletes
    <3>2. txn'[w].thing \in Things /\ things[txn'[w].thing].life # "NONE"
      BY <3>1 DEF Live, Dropped, Asks
    <3> QED  BY <1>1, <3>2
  <2> QED  BY <2>1, <2>2
<1> QED  BY <1>1, <1>2 DEF Dropped

\* The links of every pair, counted.
Held == [p \in Roles \X Ends |-> Cardinality(Rows(p[1], p[2]))]

LEMMA RightsPairs == Rights!Pairs = Roles \X Ends /\ Rights!Things = Things
BY DEF Rights!Pairs, Rights!Things, Ends, Things

LEMMA HeldKept ==
  ASSUME \A p \in Roles \X Ends : Rows(p[1], p[2])' = Rows(p[1], p[2])
  PROVE  Held' = Held
BY DEF Held

\* One row more, or one row less, of one pair.
LEMMA HeldMoves ==
  ASSUME NEW p \in Roles \X Ends, NEW j,
         \A q \in Roles \X Ends \ {p} : Rows(q[1], q[2])' = Rows(q[1], q[2])
  PROVE  /\ /\ j \notin Rows(p[1], p[2])
            /\ Rows(p[1], p[2])' = Rows(p[1], p[2]) \cup {j}
            => Held' = [Held EXCEPT ![p] = Held[p] + 1]
         /\ /\ j \in Rows(p[1], p[2])
            /\ Rows(p[1], p[2])' = Rows(p[1], p[2]) \ {j}
            => Held[p] > 0 /\ Held' = [Held EXCEPT ![p] = Held[p] - 1]
<1> DEFINE rows == Rows(p[1], p[2])
<1>1. IsFiniteSet(rows) /\ Cardinality(rows) \in Nat  BY PairsFinite
<1>2. /\ j \notin rows => Cardinality(rows \cup {j}) = Cardinality(rows) + 1
      /\ j \in rows => Cardinality(rows \ {j}) = Cardinality(rows) - 1
  BY <1>1, FS_AddElement, FS_RemoveElement
<1>3. j \in rows => Cardinality(rows) > 0
  <2>1. j \in rows => Cardinality(rows) # 0  BY <1>1, FS_EmptySet
  <2> QED  BY <1>1, <2>1
<1>4. Held[p] = Cardinality(rows) /\ Held'[p] = Cardinality(Rows(p[1], p[2])')
  BY DEF Held
<1>5. \A q \in Roles \X Ends \ {p} : Held'[q] = Held[q]  BY DEF Held
<1>6. Held = [q \in Roles \X Ends |-> Held[q]] /\ Held' = [q \in Roles \X Ends |-> Held'[q]]
  BY DEF Held
<1> HIDE DEF Held, rows
<1> QED  BY <1>2, <1>3, <1>4, <1>5, <1>6 DEF rows

\* Rows that appear, appear at once.
LEMMA Enters ==
  ASSUME Typed, things' \in [Things -> Thing], CodesUnique', links' = links,
         \A x \in Things : \/ things'[x] = things[x]
                           \/ things[x].life = "NONE" /\ things'[x].life = "LIVE"
  PROVE  Rights!Next
<1> DEFINE batch == {x \in Things : things'[x] # things[x]}
           code == [x \in batch |-> things'[x].code]
<1>1. batch \in SUBSET Rights!Things  BY RightsPairs
<1>2. \A x \in batch : things[x].life = "NONE"  OBVIOUS
<1>3. code \in [batch -> Codes \cup {Null}]  BY DEF Thing
<1>4. things' = [x \in Things |-> IF x \in batch THEN [life |-> "LIVE", code |-> code[x]]
                                  ELSE things[x]]
  <2>1. \A x \in batch : things'[x] = [life |-> "LIVE", code |-> code[x]]  BY DEF Thing
  <2> QED  BY <2>1
<1>5. Rights!Distinct(things')
  <2>1. Roles \subseteq Things /\ Permissions \subseteq Things  BY DEF Things
  <2> QED  BY <2>1 DEF Rights!Distinct, CodesUnique, Live
<1>6. \A p \in Roles \X Ends : Rows(p[1], p[2])' = Rows(p[1], p[2])
  BY DEF Rows, LiveLinks
<1>7. Held' = Held  BY <1>6, HeldKept
<1> HIDE DEF code
<1>8. Rights!Enter(batch)
  BY <1>2, <1>3, <1>4, <1>5, <1>7, RightsPairs DEF Rights!Enter, Held
<1> QED  BY <1>1, <1>8 DEF Rights!Next

\* A deletion takes every link of its row; the second one of two finds nothing.
LEMMA Removes ==
  ASSUME Typed, NoOrphans, Dropped, NEW w \in Workers, RemoveThing(w)
  PROVE  Rights!Next \/ UNCHANGED Rights!vars
<1> USE FamiliesAssumption DEF Typed, TypeOK
<1> DEFINE x == txn[w].thing
<1>1. /\ x \in Things /\ things' = [things EXCEPT ![x] = NoThing("GONE")]
      /\ links' = [i \in Links |-> IF i \in Uses(x) THEN NoLink("GONE") ELSE links[i]]
      /\ things[x].life # "NONE"
  BY DEF RemoveThing, At, Asks, Dropped
<1> HIDE DEF x
<1>2. ASSUME NEW p \in Roles \X Ends
      PROVE  Rows(p[1], p[2])' = IF x \in {p[1], p[2]} THEN {} ELSE Rows(p[1], p[2])
  <2>1. CASE x \in {p[1], p[2]}
    <3>1. Rows(p[1], p[2]) \subseteq Uses(x)  BY <2>1 DEF Rows, Uses
    <3>2. \A i \in Rows(p[1], p[2])' : FALSE
      BY <1>1, <3>1 DEF Rows, LiveLinks, NoLink
    <3> QED  BY <2>1, <3>2
  <2>2. CASE x \notin {p[1], p[2]}
    <3>1. \A i \in Rows(p[1], p[2]) : i \notin Uses(x)  BY <2>2 DEF Rows, Uses
    <3>2. \A i \in Links : i \in Rows(p[1], p[2])' <=> i \in Rows(p[1], p[2])
      BY <1>1, <3>1 DEF Rows, LiveLinks, NoLink
    <3>3. Rows(p[1], p[2])' \subseteq Links /\ Rows(p[1], p[2]) \subseteq Links
      BY DEF Rows, LiveLinks
    <3> QED  BY <2>2, <3>2, <3>3
  <2> QED  BY <2>1, <2>2
<1>3. CASE x \in Live
  <2>1. Held' = [p \in Roles \X Ends |-> IF x \in {p[1], p[2]} THEN 0 ELSE Held[p]]
    BY <1>2, FS_EmptySet DEF Held
  <2>2. Rights!Remove(x)
    <3>1. x \in Rights!Live  BY <1>1, <1>3, RightsPairs DEF Rights!Live, Live
    <3> QED  BY <1>1, <2>1, <3>1, RightsPairs DEF Rights!Remove, Held, NoThing
  <2> QED  BY <1>1, <2>2, RightsPairs DEF Rights!Next
<1>4. CASE x \notin Live
  <2>1. things[x].life = "GONE"  BY <1>1, <1>4 DEF Live, Thing, Lives
  <2>2. things[x] = NoThing("GONE")  BY <1>1, <2>1 DEF Dropped
  <2>3. things' = things  BY <1>1, <2>2
  <2>4. Uses(x) = {}  BY <1>4 DEF NoOrphans, Uses
  <2>5. links' = links  BY <1>1, <2>4
  <2>6. Held' = Held  BY <2>5, HeldKept DEF Rows, LiveLinks
  <2> QED  BY <2>3, <2>6 DEF Rights!vars, Held
<1> QED  BY <1>3, <1>4

LEMMA LinksOne ==
  ASSUME Typed, NEW w \in Workers, InsertLink(w), ~UNCHANGED tables
  PROVE  Rights!Next
<1>1. PICK r \in Roles, x \in Ends : r = txn[w].role /\ x = txn[w].end
  BY DEF InsertLink, At, Typed, TypeOK, Asks
<1>2. {r, x} \subseteq Live /\ ~IndexConflict(r, x) /\ things' = things
  BY <1>1, FamiliesAssumption DEF InsertLink, Refuse, Typed, TypeOK
<1>3. PICK j \in Links :
        /\ links[j].life = "NONE"
        /\ links' = [links EXCEPT ![j] = [life |-> "LIVE", role |-> r, end |-> x]]
  BY <1>1 DEF InsertLink, Refuse
<1>4. PICK p \in Roles \X Ends : p[1] = r /\ p[2] = x
  <2>1. <<r, x>> \in Roles \X Ends  OBVIOUS
  <2> QED  BY <2>1
<1>5. \A i \in Links \ {j} : links'[i] = links[i]  BY <1>3 DEF Typed, TypeOK
<1>6. \A q \in Roles \X Ends :
        Rows(q[1], q[2]) \subseteq Links /\ Rows(q[1], q[2])' \subseteq Links
  BY DEF Rows, LiveLinks
<1>7. j \notin Rows(p[1], p[2])  BY <1>3 DEF Rows, LiveLinks
<1>8. Rows(p[1], p[2])' = Rows(p[1], p[2]) \cup {j}
  <2>1. j \in Rows(p[1], p[2])'
    BY <1>3, <1>4 DEF Typed, TypeOK, Rows, LiveLinks
  <2>2. \A i \in Links \ {j} : i \in Rows(p[1], p[2])' <=> i \in Rows(p[1], p[2])
    BY <1>5 DEF Rows, LiveLinks
  <2> QED  BY <1>6, <2>1, <2>2
<1>9. ASSUME NEW q \in Roles \X Ends \ {p}
      PROVE  Rows(q[1], q[2])' = Rows(q[1], q[2])
  <2>1. q \in Roles \X Ends /\ (q[1] # r \/ q[2] # x)  BY <1>4, <1>9
  <2>2. j \notin Rows(q[1], q[2])  BY <1>3 DEF Rows, LiveLinks
  <2>3. j \notin Rows(q[1], q[2])'
    BY <1>3, <2>1 DEF Typed, TypeOK, Rows, LiveLinks
  <2>4. \A i \in Links \ {j} : i \in Rows(q[1], q[2])' <=> i \in Rows(q[1], q[2])
    BY <1>5 DEF Rows, LiveLinks
  <2> QED  BY <1>6, <2>1, <2>2, <2>3, <2>4
<1>10. Held' = [Held EXCEPT ![p] = Held[p] + 1]
  BY <1>7, <1>8, <1>9, HeldMoves
<1>11. SqlSchema /\ x \in Permissions => Held[p] = 0
  BY <1>2, <1>4, FS_EmptySet DEF Held, IndexConflict
<1>12. {r, x} \subseteq Rights!Live  BY <1>2, RightsPairs DEF Rights!Live, Live
<1>13. Rights!Link(p)
  BY <1>2, <1>4, <1>10, <1>11, <1>12, RightsPairs DEF Rights!Link, Held
<1> QED  BY <1>13, RightsPairs DEF Rights!Next

\* An unassignment takes one link, unless its row went in the meantime.
LEMMA UnlinksOne ==
  ASSUME Typed, NoOrphans, NEW w \in Workers, RemoveLink(w)
  PROVE  Rights!Next \/ UNCHANGED Rights!vars
<1>1. PICK j \in Links : j = txn[w].link
  BY DEF RemoveLink, At, Typed, TypeOK, Asks
<1>2. links' = [links EXCEPT ![j] = NoLink("GONE")] /\ things' = things
  BY <1>1 DEF RemoveLink
<1>3. ASSUME NEW q \in Roles \X Ends
      PROVE  \A i \in Links :
               i \in Rows(q[1], q[2])' <=> i \in Rows(q[1], q[2]) /\ i # j
  BY <1>2 DEF Typed, TypeOK, Rows, LiveLinks, NoLink
<1>4. \A q \in Roles \X Ends :
        Rows(q[1], q[2]) \subseteq Links /\ Rows(q[1], q[2])' \subseteq Links
  BY DEF Rows, LiveLinks
<1>5. CASE j \notin LiveLinks
  <2>1. \A q \in Roles \X Ends : j \notin Rows(q[1], q[2])  BY <1>5 DEF Rows
  <2>2. ASSUME NEW q \in Roles \X Ends
        PROVE  Rows(q[1], q[2])' = Rows(q[1], q[2])
    BY <1>3, <1>4, <2>1
  <2>3. Held' = Held  BY <2>2, HeldKept
  <2> QED  BY <1>2, <2>3 DEF Rights!vars, Held
<1>6. CASE j \in LiveLinks
  <2>1. links[j].role \in Live /\ links[j].end \in Live  BY <1>6 DEF NoOrphans
  <2>2. links[j].role \in Roles /\ links[j].end \in Ends
    BY <1>1, <2>1, FamiliesAssumption DEF Typed, TypeOK, Live, Link
  <2>3. PICK p \in Roles \X Ends : p[1] = links[j].role /\ p[2] = links[j].end
    <3>1. <<links[j].role, links[j].end>> \in Roles \X Ends  BY <2>2
    <3> QED  BY <3>1
  <2>4. j \in Rows(p[1], p[2])  BY <1>6, <2>3 DEF Rows
  <2>5. \A q \in Roles \X Ends \ {p} : j \notin Rows(q[1], q[2])
    BY <2>3 DEF Rows
  <2>6. Rows(p[1], p[2])' = Rows(p[1], p[2]) \ {j}  BY <1>3, <1>4
  <2>7. ASSUME NEW q \in Roles \X Ends \ {p}
        PROVE  Rows(q[1], q[2])' = Rows(q[1], q[2])
    <3>1. q \in Roles \X Ends /\ j \notin Rows(q[1], q[2])  BY <2>5, <2>7
    <3>2. \A i \in Links : i \in Rows(q[1], q[2])' <=> i \in Rows(q[1], q[2])
      BY <1>3, <3>1
    <3>3. Rows(q[1], q[2]) \subseteq Links /\ Rows(q[1], q[2])' \subseteq Links
      BY <1>4, <3>1
    <3> QED  BY <3>2, <3>3
  <2>8. Held[p] > 0 /\ Held' = [Held EXCEPT ![p] = Held[p] - 1]
    BY <2>4, <2>6, <2>7, HeldMoves
  <2>9. Rights!Unlink(p)
    BY <1>2, <2>8, RightsPairs DEF Rights!Unlink, Held
  <2> QED  BY <2>9, RightsPairs DEF Rights!Next
<1> QED  BY <1>5, <1>6

\* Every step of the services is one of AccessRights, or changes nothing there.
LEMMA StepRights ==
  ASSUME IInv, IInv', Dropped, [Next]_vars
  PROVE  Rights!Next \/ UNCHANGED Rights!vars
<1> USE DEF IInv
<1>1. CASE UNCHANGED tables
  <2>1. Held' = Held  BY <1>1, HeldKept DEF tables, Rows, LiveLinks
  <2> QED  BY <1>1, <2>1 DEF tables, Rights!vars, Held
<1>2. CASE links' = links /\ ~\E w \in Workers : RemoveThing(w)
  <2>1. things' \in [Things -> Thing]  BY DEF Typed, TypeOK
  <2>2. \A x \in Things : \/ things'[x] = things[x]
                          \/ things[x].life = "NONE" /\ things'[x].life = "LIVE"
    BY <1>2, ThingsAge
  <2> QED  BY <1>2, <2>1, <2>2, Enters
<1>3. ASSUME NEW w \in Workers, InsertThing(w)
      PROVE  links' = links /\ ~\E v \in Workers : RemoveThing(v)
  <2>1. links' = links  BY <1>3 DEF InsertThing, Refuse, tables
  <2>2. ASSUME NEW v \in Workers, RemoveThing(v)  PROVE FALSE
    <3>1. txn[w].stage = "new" /\ txn[v].stage = "dropping"
      BY <1>3, <2>2 DEF InsertThing, RemoveThing, At
    <3>2. txn'[v] = txn[v]
      BY <1>3, <3>1 DEF InsertThing, Refuse, Answer, Commit, Typed, TypeOK
    <3>3. txn'[v] = NoTxn  BY <2>2 DEF RemoveThing, Answer, Typed, TypeOK
    <3> QED  BY <3>1, <3>2, <3>3 DEF NoTxn
  <2> QED  BY <2>1, <2>2
<1>4. ASSUME NEW u \in Users, EnrolUser(u)
      PROVE  links' = links /\ ~\E v \in Workers : RemoveThing(v)
  <2>1. ASSUME NEW v \in Workers, RemoveThing(v)  PROVE FALSE
    BY <1>4, <2>1 DEF EnrolUser, RemoveThing, Answer, At, NoTxn, Typed, TypeOK
  <2> QED  BY <1>4, <2>1 DEF EnrolUser
<1>5. ASSUME NEW w \in Workers, InsertLink(w) \/ RemoveLink(w) \/ RemoveThing(w)
      PROVE  Rights!Next \/ UNCHANGED Rights!vars
  BY <1>1, <1>5, LinksOne, UnlinksOne, Removes
<1> QED  BY <1>1, <1>2, <1>3, <1>4, <1>5, Writers

LEMMA InitRights == Init => Rights!Init /\ Dropped
<1> SUFFICES ASSUME Init PROVE Rights!Init /\ Dropped  OBVIOUS
<1>1. Dropped  BY DEF Init, Dropped, NoThing, NoTxn
<1>2. Held = [p \in Roles \X Ends |-> 0]
  <2>1. \A p \in Roles \X Ends : Rows(p[1], p[2]) = {}
    BY DEF Init, Rows, LiveLinks, NoLink
  <2> QED  BY <2>1, FS_EmptySet DEF Held
<1>3. Rights!Init
  BY <1>2, RightsPairs DEF Init, Rights!Init, Held, NoThing
<1> QED  BY <1>1, <1>3

\* The services implement AccessRights: whatever the requests interleave, a
\* deletion takes every link with it, an unassignment one link of its pair, and
\* no row and no grant is made twice.
THEOREM AccessImplementsRights == Spec => RightsSpec
<1> DEFINE Inv == IInv /\ Dropped
<1>1. Init => Inv /\ Rights!Init  BY InitGood, InitRights
<1>2. Inv /\ [Next]_vars => Inv'
  BY StepGood, StepDropped DEF IInv
<1>3. Inv /\ Inv' /\ [Next]_vars => [Rights!Next]_(Rights!vars)
  BY StepRights
<1> HIDE DEF Inv
<1> QED  BY <1>1, <1>2, <1>3, PTL DEF Spec, RightsSpec, Rights!Spec

LEMMA ScriptRights ==
  ASSUME SeedInv, SeedInv', Dropped, SeedStep
  PROVE  Dropped' /\ (Rights!Next \/ UNCHANGED Rights!vars)
<1> USE DEF SeedInv, IInv
<1>1. UNCHANGED <<links, txn, reply>> /\ (CommitPhase \/ things' = things)
  BY LookForKeeps
     DEF SeedStep, StartSeeding, CommitPhase, AssignPermissions, SeedCrash, vars
<1>2. CASE things' = things
  <2>1. UNCHANGED vars  BY <1>1, <1>2 DEF vars
  <2> QED  BY <2>1, StepRights, StepDropped
<1>3. CASE CommitPhase /\ things' # things
  <2> DEFINE f == seed.phase
             m == seed.missing
  <2>1. f \in {"roles", "permissions"} /\ m \in SUBSET Codes
    BY <1>3, PhaseCommit DEF SeedTypeOK, Seed
  <2> PICK ids \in Insertions(f, m) : things' = Inserted(ids)
    BY <1>3, PhaseCommit
  <2> HIDE DEF f, m
  <2>2. ASSUME NEW x \in Things
        PROVE  \/ things'[x] = things[x]
               \/ things[x].life = "NONE" /\ things'[x].life = "LIVE"
    <3>1. \/ things'[x] = things[x]
          \/ /\ x \in Unused(Family[f])
             /\ \E c \in m : ids[c] = x /\ things'[x] = [life |-> "LIVE", code |-> c]
      BY <2>1, InsertedRows
    <3>2. x \in Unused(Family[f]) => things[x].life = "NONE"  BY DEF Unused
    <3>3. ASSUME NEW c \in m, things'[x] = [life |-> "LIVE", code |-> c]
          PROVE  things'[x].life = "LIVE"
      BY <3>3
    <3> QED  BY <3>1, <3>2, <3>3
  <2>3. Rights!Next
    BY <1>1, <2>2, Enters DEF Typed, TypeOK
  <2>4. Dropped'
    <3>1. \A x \in Things :
            /\ things'[x].life = "GONE" => things'[x] = NoThing("GONE")
            /\ things[x].life # "NONE" => things'[x].life # "NONE"
      BY <2>2 DEF Dropped
    <3>2. \A w \in Workers :
            txn[w].stage \in {"drop", "dropping"} => txn[w].thing \in Things
      BY DEF Typed, Asks
    <3> QED  BY <1>1, <3>1, <3>2 DEF Dropped
  <2> QED  BY <2>3, <2>4
<1> QED  BY <1>1, <1>2, <1>3

\* So they do while the script seeds the catalogue: a phase of it is one entry
\* of all the rows it missed.
THEOREM SeedingImplementsRights == SeedSpec => RightsSpec
<1> DEFINE Inv == SeedInv /\ Dropped
<1>1. SeedInit => Inv /\ Rights!Init
  BY SeedInitGood, InitRights DEF SeedInit
<1>2. Inv /\ [SeedNext]_seedVars => Inv' /\ [Rights!Next]_(Rights!vars)
  <2> SUFFICES ASSUME Inv, [SeedNext]_seedVars
               PROVE  Inv' /\ [Rights!Next]_(Rights!vars)
    OBVIOUS
  <2>1. SeedInv'  BY SeedStepGood
  <2>2. SeedStep \/ [Next]_vars  BY DEF SeedNext, Meanwhile, Next, seedVars, vars
  <2>3. CASE SeedStep  BY <2>1, <2>3, ScriptRights
  <2>4. CASE [Next]_vars
    BY <2>1, <2>4, StepDropped, StepRights DEF SeedInv, IInv
  <2> QED  BY <2>2, <2>3, <2>4
<1> HIDE DEF Inv
<1> QED  BY <1>1, <1>2, PTL DEF SeedSpec, RightsSpec, Rights!Spec
===============================================================================
