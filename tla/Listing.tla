-------------------------------- MODULE Listing --------------------------------
(***************************************************************************)
(* Paged listings: get_login_logs of modules/mgmt/idam/login_log and       *)
(* get_sessions of modules/mgmt/idam/session, and a client that walks      *)
(* through the pages until it has read as many as the last answer said.    *)
(*                                                                         *)
(* A request runs two SELECTs, one for the total and one for the rows of   *)
(* the page, newest first.  Other server processes change the table        *)
(* between the pages and between the two SELECTs.                          *)
(***************************************************************************)
EXTENDS Naturals, FiniteSets

CONSTANTS
  Rows,         \* rows that may come to pass the filter of the listing
  Workers,      \* server processes
  Nobody,       \* no process
  PageSize,     \* the size parameter
  Mutable,      \* FALSE: login log, rows are only added; TRUE: sessions
  MaxStamp      \* bound: number of different timestamps

VARIABLES
  stamp,        \* stamp[r]: created_at or last_activity_at, 0 before the INSERT
  listed,       \* the rows that pass the filter
  walk          \* the client's walk and the request it waits for

vars == <<stamp, listed, walk>>

ASSUME RowsAssumption == IsFiniteSet(Rows) /\ Nobody \notin Workers
ASSUME SizeAssumption == PageSize \in Nat \ {0} /\ MaxStamp \in Nat
ASSUME MutableAssumption == Mutable \in BOOLEAN

\* page counts the pages read, total is the first SELECT of the last request.
\* History: the rows that stayed untouched since the walk began (standing), those
\* that left (departed) and came (arrived) since, and the number that came
\* between the two SELECTs of the last request (late).
Walk == [stage : {"idle", "page", "between", "done"}, server : Workers \cup {Nobody},
         page : Nat, total : Nat, seen : SUBSET Rows, standing : SUBSET Rows,
         departed : SUBSET Rows, late : SUBSET Rows]
NoWalk == [stage |-> "idle", server |-> Nobody, page |-> 0, total |-> 0,
           seen |-> {}, standing |-> {}, departed |-> {}, late |-> {}]
Walking == walk.stage \in {"page", "between"}

Stamps == 1..MaxStamp
\* Faulty variant of Fresh: the clock is read in whole seconds.
FreshSeconds == Stamps

\* Timestamps are taken in microseconds: no two rows share one.
Fresh == Stamps \ {stamp[r] : r \in Rows}

\* SELECT count(id) under the filter of the request.
Total == Cardinality(listed)

\* ORDER BY ... DESC: the rows listed before r.
Before(r) == {x \in listed : stamp[x] > stamp[r]}

\* Faulty variant of PageRows: the offset counts pages from zero.
PageRowsOffByOne(page) ==
  {r \in listed : /\ Cardinality(Before(r)) >= (page + 1) * PageSize
                  /\ Cardinality(Before(r)) < (page + 2) * PageSize}

\* OFFSET page * size LIMIT size: the route counts pages from one.
PageRows(page) ==
  {r \in listed : /\ Cardinality(Before(r)) >= page * PageSize
                  /\ Cardinality(Before(r)) < (page + 1) * PageSize}

\* ceil(total / size)
Pages(total) == (total + PageSize - 1) \div PageSize

Init ==
  /\ stamp = [r \in Rows |-> 0]
  /\ listed = {}
  /\ walk = NoWalk

(***************************************************************************)
(* The request of the client                                               *)
(***************************************************************************)
\* The request for page one: the first SELECT counts the rows.
AskFirst(w) ==
  /\ walk.stage \in {"idle", "done"}
  /\ walk' = [NoWalk EXCEPT !.stage = "page", !.server = w,
                            !.total = Total, !.standing = listed]
  /\ UNCHANGED <<stamp, listed>>

\* The request for the next page counts them again.
AskNext(w) ==
  /\ walk.stage = "between"
  /\ walk' = [walk EXCEPT !.stage = "page", !.server = w,
                          !.total = Total, !.late = {}]
  /\ UNCHANGED <<stamp, listed>>

\* The rows of the page and the number of pages; the client asks for the next
\* page until it has read that many.
ReadPage(w) ==
  /\ walk.stage = "page"
  /\ walk.server = w
  /\ walk' = [walk EXCEPT
                !.stage = IF walk.page + 1 >= Pages(walk.total)
                          THEN "done" ELSE "between",
                !.server = Nobody, !.page = walk.page + 1,
                !.seen = walk.seen \cup PageRows(walk.page)]
  /\ UNCHANGED <<stamp, listed>>

(***************************************************************************)
(* Other requests, on processes that do not serve the client               *)
(***************************************************************************)
\* A row is inserted.  Its timestamp was taken before the commit that makes it
\* visible, so it need not be the newest of the table.
Insert(w, r) ==
  /\ w # walk.server
  /\ stamp[r] = 0
  /\ \E s \in Fresh : stamp' = [stamp EXCEPT ![r] = s]
  /\ listed' = listed \cup {r}
  /\ walk' = IF walk.stage = "page"
             THEN [walk EXCEPT !.late = @ \cup {r}] ELSE walk

\* A session changes its status and passes the filter no more.
Depart(w, r) ==
  /\ Mutable
  /\ w # walk.server
  /\ r \in listed
  /\ listed' = listed \ {r}
  /\ walk' = IF Walking
             THEN [walk EXCEPT !.standing = @ \ {r}, !.departed = @ \cup {r}]
             ELSE walk
  /\ UNCHANGED stamp

\* validate_session or extend_session renews last_activity_at.
Touch(w, r) ==
  /\ Mutable
  /\ w # walk.server
  /\ r \in listed
  /\ \E s \in Fresh : s > stamp[r] /\ stamp' = [stamp EXCEPT ![r] = s]
  /\ walk' = IF Walking THEN [walk EXCEPT !.standing = @ \ {r}] ELSE walk
  /\ UNCHANGED listed

Next ==
  \E w \in Workers :
    \/ AskFirst(w) \/ AskNext(w) \/ ReadPage(w)
    \/ \E r \in Rows : Insert(w, r) \/ Depart(w, r) \/ Touch(w, r)

Spec == Init /\ [][Next]_vars
-------------------------------------------------------------------------------
\* Every variable has its type; rows that were inserted have different stamps.
TypeOK ==
  /\ stamp \in [Rows -> Nat]
  /\ listed \in SUBSET {r \in Rows : stamp[r] # 0}
  /\ walk \in Walk
  /\ \A r, x \in Rows : stamp[r] # 0 /\ stamp[r] = stamp[x] => r = x

\* Rows that were in the listing all the time and that the client never got.
Missed == walk.standing \ walk.seen

\* A finished walk misses at most one such row for each row that left the
\* listing during the walk and for each row that came between the count and the
\* page of its last request.  Pages are cut by position, newest first: a row
\* that comes pushes others to later pages, one that leaves pulls them forward.
MissedBounded ==
  walk.stage = "done"
  => Cardinality(Missed) <= Cardinality(walk.departed) + Cardinality(walk.late)

\* In particular a walk through the login log of one server process is complete.
OneProcessComplete ==
  walk.stage = "done" /\ ~Mutable /\ (\A v, w \in Workers : v = w) => Missed = {}
===============================================================================
