---------------------------- MODULE StatisticsProofs ----------------------------
(***************************************************************************)
(* Theorems about the two reports: what their figures, each from a SELECT  *)
(* of its own, have to do with each other, for any number of workers,      *)
(* users and tokens.                                                       *)
(***************************************************************************)
EXTENDS Statistics, LoginProofs

\* What is left of a report after each of its SELECTs.
LoginLefts ==
  {<<"total", "successful", "failed", "users", "reasons">>,
   <<"successful", "failed", "users", "reasons">>,
   <<"failed", "users", "reasons">>, <<"users", "reasons">>, <<"reasons">>, <<>>}
SessionLefts ==
  {<<"active", "expired", "revoked", "owners", "verified">>,
   <<"expired", "revoked", "owners", "verified">>,
   <<"revoked", "owners", "verified">>, <<"owners", "verified">>,
   <<"verified">>, <<>>}

LoginNames == {"total", "successful", "failed", "users", "reasons"}
SessionNames == {"active", "expired", "revoked", "owners", "verified"}

\* Every variable of a report has its type.
Report == [what : {"none", "logins", "sessions"}, servers : SUBSET Workers,
           left : LoginLefts \cup SessionLefts, figure : [Figures -> Nat],
           start : Nat, came : Nat, moved : Nat, restated : Nat]

LEMMA FigureNames == Figures = LoginNames \cup SessionNames
<1>1. \A i : i \in 1..5 <=> i \in {1, 2, 3, 4, 5}
  OBVIOUS
<1>2. {Order.logins[i] : i \in 1..5} = LoginNames
  BY <1>1 DEF Order, LoginNames
<1>3. {Order.sessions[i] : i \in 1..5} = SessionNames
  BY <1>1 DEF Order, SessionNames
<1>4. DOMAIN Order = {"logins", "sessions"}
  BY DEF Order
<1>5. Figures = {Order.logins[i] : i \in 1..5} \cup {Order.sessions[i] : i \in 1..5}
  BY <1>4 DEF Figures
<1>6. QED
  BY <1>2, <1>3, <1>5

-------------------------------------------------------------------------------
\* Counting: two sets without a common element, and a set that may grow by
\* what is in another.
LEMMA Apart ==
  ASSUME NEW A, NEW B, IsFiniteSet(A), IsFiniteSet(B), A \cap B = {}
  PROVE  /\ IsFiniteSet(A \cup B)
         /\ Cardinality(A) \in Nat /\ Cardinality(B) \in Nat
         /\ Cardinality(A \cup B) = Cardinality(A) + Cardinality(B)
<1>1. Cardinality(A \cap B) = 0
  BY FS_EmptySet
<1>2. /\ IsFiniteSet(A \cup B)
      /\ Cardinality(A \cup B) = Cardinality(A) + Cardinality(B) - Cardinality(A \cap B)
  BY FS_Union
<1>3. Cardinality(A) \in Nat /\ Cardinality(B) \in Nat
  BY FS_CardinalityType
<1>4. QED
  BY <1>1, <1>2, <1>3

LEMMA Within ==
  ASSUME NEW A, NEW B, NEW C, IsFiniteSet(A), IsFiniteSet(B), C \subseteq A \cup B
  PROVE  /\ IsFiniteSet(C)
         /\ Cardinality(A) \in Nat /\ Cardinality(B) \in Nat /\ Cardinality(C) \in Nat
         /\ Cardinality(C) <= Cardinality(A) + Cardinality(B)
<1>1. /\ IsFiniteSet(A \cup B)
      /\ Cardinality(A \cup B) = Cardinality(A) + Cardinality(B) - Cardinality(A \cap B)
  BY FS_Union
<1>2. IsFiniteSet(C) /\ Cardinality(C) <= Cardinality(A \cup B)
  BY <1>1, FS_Subset
<1>3. IsFiniteSet(A \cap B)
  BY FS_Intersection
<1>4. /\ Cardinality(A) \in Nat /\ Cardinality(B) \in Nat /\ Cardinality(C) \in Nat
      /\ Cardinality(A \cap B) \in Nat /\ Cardinality(A \cup B) \in Nat
  BY <1>1, <1>2, <1>3, FS_CardinalityType
<1>5. QED
  BY <1>1, <1>2, <1>4

-------------------------------------------------------------------------------
\* A log counts rows of each kind for each user and for nobody.
LogType == [Users \cup {NoUser} -> [Kinds -> Nat]]

LEMMA RowOfLog ==
  ASSUME NEW log \in LogType, NEW kinds
  PROVE  \A r : r \in LogRows(log, kinds) <=>
                  \E u \in Users \cup {NoUser}, k \in kinds : \E n \in 1..log[u][k] :
                    r = <<u, k, n>>
<1>1. DOMAIN log = Users \cup {NoUser}
  BY DEF LogType
<1>2. \A r, u, k : r \in RowsOf(log, u, k) <=> \E n \in 1..log[u][k] : r = <<u, k, n>>
  BY DEF RowsOf
<1>3. \A r : r \in LogRows(log, kinds) <=>
              \E u \in DOMAIN log, k \in kinds : r \in RowsOf(log, u, k)
  BY DEF LogRows
<1>4. QED
  BY <1>1, <1>2, <1>3

\* Some of the rows.
LEMMA LogPart ==
  ASSUME NEW log \in LogType, IsFiniteSet(LogRows(log, Kinds)), NEW A \in SUBSET Kinds
  PROVE  IsFiniteSet(LogRows(log, A)) /\ Cardinality(LogRows(log, A)) \in Nat
<1>1. LogRows(log, A) \subseteq LogRows(log, Kinds)
  BY RowOfLog
<1>2. QED
  BY <1>1, FS_Subset, FS_CardinalityType

LEMMA LogSplits ==
  ASSUME NEW log \in LogType, IsFiniteSet(LogRows(log, Kinds)),
         NEW A \in SUBSET Kinds, NEW B \in SUBSET Kinds, A \cap B = {}
  PROVE  Cardinality(LogRows(log, A \cup B))
           = Cardinality(LogRows(log, A)) + Cardinality(LogRows(log, B))
<1>1. LogRows(log, A \cup B) = LogRows(log, A) \cup LogRows(log, B)
  <2>1. \A r : r \in LogRows(log, A \cup B)
                 <=> r \in LogRows(log, A) \/ r \in LogRows(log, B)
    BY RowOfLog
  <2>2. QED
    BY <2>1
<1>2. LogRows(log, A) \cap LogRows(log, B) = {}
  BY RowOfLog
<1>3. QED
  BY <1>1, <1>2, LogPart, Apart

\* Every row is a login, a logout or a failure; nothing is logged of no kind.
LEMMA LogAll ==
  ASSUME NEW log \in LogType, IsFiniteSet(LogRows(log, Kinds))
  PROVE  /\ Cardinality(LogRows(log, Kinds))
              = Cardinality(LogRows(log, {"login"})) + Cardinality(LogRows(log, {"logout"}))
                  + Cardinality(LogRows(log, Kinds \ Successes))
         /\ Cardinality(LogRows(log, {})) = 0
<1>1. /\ {"login"} \in SUBSET Kinds /\ {"logout"} \in SUBSET Kinds
      /\ {"login"} \cup {"logout"} \in SUBSET Kinds
      /\ ({"login"} \cup {"logout"}) \cup (Kinds \ Successes) = Kinds
      /\ ({"login"} \cup {"logout"}) \cap (Kinds \ Successes) = {}
      /\ {"login"} \cap {"logout"} = {}
  BY DEF Kinds, AttemptType, Successes
<1>2. Cardinality(LogRows(log, Kinds))
        = Cardinality(LogRows(log, {"login"} \cup {"logout"}))
            + Cardinality(LogRows(log, Kinds \ Successes))
  BY <1>1, LogSplits
<1>3. Cardinality(LogRows(log, {"login"} \cup {"logout"}))
        = Cardinality(LogRows(log, {"login"})) + Cardinality(LogRows(log, {"logout"}))
  BY <1>1, LogSplits
<1>4. LogRows(log, {}) = {}
  BY DEF LogRows
<1>5. QED
  BY <1>2, <1>3, <1>4, FS_EmptySet

\* A log that lost no row and gained at most one.
LEMMA LogGrows ==
  ASSUME NEW log \in LogType, NEW new \in LogType, IsFiniteSet(LogRows(log, Kinds)),
         \/ new = log
         \/ \E u \in Users \cup {NoUser}, k \in Kinds :
              new = [log EXCEPT ![u][k] = @ + 1]
  PROVE  /\ IsFiniteSet(LogRows(new, Kinds))
         /\ \A A \in SUBSET Kinds :
              Cardinality(LogRows(log, A)) <= Cardinality(LogRows(new, A))
<1>1. CASE new = log
  BY <1>1, LogPart
<1>2. ASSUME NEW u \in Users \cup {NoUser}, NEW k \in Kinds,
             new = [log EXCEPT ![u][k] = @ + 1]
      PROVE  /\ IsFiniteSet(LogRows(new, Kinds))
             /\ \A A \in SUBSET Kinds :
                  Cardinality(LogRows(log, A)) <= Cardinality(LogRows(new, A))
  <2>0. \A v \in Users \cup {NoUser}, j \in Kinds :
          /\ log[v][j] \in Nat
          /\ new[v][j] = IF v = u /\ j = k THEN log[u][k] + 1 ELSE log[v][j]
    BY <1>2 DEF LogType
  <2>1. LogRows(new, Kinds) \subseteq LogRows(log, Kinds) \cup {<<u, k, log[u][k] + 1>>}
    <3>1. ASSUME NEW v \in Users \cup {NoUser}, NEW j \in Kinds, NEW n \in 1..new[v][j]
          PROVE  n \in 1..log[v][j] \/ <<v, j, n>> = <<u, k, log[u][k] + 1>>
      BY <2>0
    <3>2. QED
      BY <3>1, RowOfLog
  <2>2. IsFiniteSet(LogRows(new, Kinds))
    <3>1. IsFiniteSet(LogRows(log, Kinds) \cup {<<u, k, log[u][k] + 1>>})
      BY FS_AddElement
    <3>2. QED
      BY <2>1, <3>1, FS_Subset
  <2>3. ASSUME NEW A \in SUBSET Kinds
        PROVE  Cardinality(LogRows(log, A)) <= Cardinality(LogRows(new, A))
    <3>1. \A v \in Users \cup {NoUser}, j \in A : 1..log[v][j] \subseteq 1..new[v][j]
      BY <2>0
    <3>2. LogRows(log, A) \subseteq LogRows(new, A)
      BY <3>1, RowOfLog
    <3>3. IsFiniteSet(LogRows(new, A))
      BY <2>2, LogPart
    <3>4. QED
      BY <3>2, <3>3, FS_Subset
  <2>4. QED
    BY <2>2, <2>3
<1>3. QED
  BY <1>1, <1>2

\* A user with a login is named by a row of a login.
LEMMA UsersLogged ==
  ASSUME NEW log \in LogType, IsFiniteSet(LogRows(log, Kinds))
  PROVE  /\ Cardinality({u \in Users : log[u].login > 0}) \in Nat
         /\ Cardinality({u \in Users : log[u].login > 0})
              <= Cardinality(LogRows(log, {"login"}))
<1> DEFINE Known == {u \in Users : log[u].login > 0}
           first == [u \in Known |-> <<u, "login", 1>>]
<1>1. "login" \in Kinds
  BY DEF Kinds, AttemptType
<1>2. \A u \in Known : <<u, "login", 1>> \in LogRows(log, {"login"})
  <2>1. \A u \in Known : 1 \in 1..log[u]["login"]
    BY <1>1 DEF LogType
  <2>2. QED
    BY <2>1, RowOfLog
<1>3. first \in Injection(Known, LogRows(log, {"login"}))
  BY <1>2 DEF Injection, IsInjective
<1>4. IsFiniteSet(LogRows(log, {"login"}))
  BY <1>1, LogPart
<1>5. QED
  BY <1>3, <1>4, FS_Injection, FS_CardinalityType

-------------------------------------------------------------------------------
\* The rows of the session table.
In(rows, status) == {t \in Tokens : rows[t].status = status}
Past(rows) == In(rows, "EXPIRED") \cup In(rows, "REVOKED")
Known(rows) == In(rows, "ACTIVE") \cup Past(rows)
Moved(rows, new) == {t \in Tokens : rows[t].status # new[t].status}
Restated(rows, new) ==
  {t \in Moved(rows, new) : rows[t].status = "REVOKED" /\ new[t].status = "EXPIRED"}

LEMMA TokensFinite ==
  ASSUME NEW A, A \subseteq Tokens
  PROVE  IsFiniteSet(A) /\ Cardinality(A) \in Nat
BY SessionsAssumption, FS_Subset, FS_CardinalityType

LEMMA StatusCounts ==
  ASSUME NEW rows \in [Tokens -> S!Row]
  PROVE  /\ Known(rows) = Tokens \ In(rows, "NONE")
         /\ Cardinality(Past(rows))
              = Cardinality(In(rows, "EXPIRED")) + Cardinality(In(rows, "REVOKED"))
         /\ Cardinality(Known(rows))
              = Cardinality(In(rows, "ACTIVE")) + Cardinality(In(rows, "EXPIRED"))
                  + Cardinality(In(rows, "REVOKED"))
<1>1. Known(rows) = Tokens \ In(rows, "NONE")
  BY DEF Known, Past, In, S!Row, S!Statuses
<1>2. /\ In(rows, "ACTIVE") \subseteq Tokens /\ In(rows, "EXPIRED") \subseteq Tokens
      /\ In(rows, "REVOKED") \subseteq Tokens
      /\ In(rows, "EXPIRED") \cap In(rows, "REVOKED") = {}
      /\ In(rows, "ACTIVE") \cap Past(rows) = {}
  BY DEF In, Past
<1>3. /\ IsFiniteSet(In(rows, "ACTIVE")) /\ IsFiniteSet(In(rows, "EXPIRED"))
      /\ IsFiniteSet(In(rows, "REVOKED"))
  BY <1>2, TokensFinite
<1>4. /\ IsFiniteSet(Past(rows))
      /\ Cardinality(In(rows, "EXPIRED")) \in Nat /\ Cardinality(In(rows, "REVOKED")) \in Nat
      /\ Cardinality(Past(rows))
           = Cardinality(In(rows, "EXPIRED")) + Cardinality(In(rows, "REVOKED"))
  BY <1>2, <1>3, Apart DEF Past
<1>5. /\ Cardinality(In(rows, "ACTIVE")) \in Nat
      /\ Cardinality(Known(rows))
           = Cardinality(In(rows, "ACTIVE")) + Cardinality(Past(rows))
  BY <1>2, <1>3, <1>4, Apart DEF Known
<1>6. QED
  BY <1>1, <1>4, <1>5

\* A session gets a row, or ends, or ends another way, and is counted as moved.
Lives(rows, new) ==
  \A t \in Tokens :
    \/ new[t].status = rows[t].status
    \/ rows[t].status = "NONE" /\ new[t].status = "ACTIVE"
    \/ new[t].status \in {"EXPIRED", "REVOKED"}

LEMMA StatusesMove ==
  ASSUME NEW rows \in [Tokens -> S!Row], NEW new \in [Tokens -> S!Row],
         Lives(rows, new)
  PROVE  LET m == Cardinality(Moved(rows, new))
         IN /\ Cardinality(Known(rows)) <= Cardinality(Known(new))
            /\ Cardinality(Known(new)) <= Cardinality(Known(rows)) + m
            /\ Cardinality(Past(rows)) <= Cardinality(Past(new))
            /\ Cardinality(Past(new)) <= Cardinality(Past(rows)) + m
            /\ Cardinality(In(rows, "REVOKED"))
                 <= Cardinality(In(new, "REVOKED")) + Cardinality(Restated(rows, new))
            /\ Cardinality(In(new, "REVOKED")) <= Cardinality(In(rows, "REVOKED")) + m
            /\ Cardinality(In(new, "ACTIVE")) <= Cardinality(In(rows, "ACTIVE")) + m
<1>1. /\ Known(rows) \subseteq Known(new) /\ Known(new) \subseteq Known(rows) \cup Moved(rows, new)
      /\ Past(rows) \subseteq Past(new) /\ Past(new) \subseteq Past(rows) \cup Moved(rows, new)
      /\ In(rows, "REVOKED") \subseteq In(new, "REVOKED") \cup Restated(rows, new)
      /\ In(new, "REVOKED") \subseteq In(rows, "REVOKED") \cup Moved(rows, new)
      /\ In(new, "ACTIVE") \subseteq In(rows, "ACTIVE") \cup Moved(rows, new)
  BY DEF Lives, Known, Past, In, Moved, Restated, S!Row, S!Statuses
<1>2. /\ \A r \in {rows, new} :
            /\ IsFiniteSet(Known(r)) /\ IsFiniteSet(Past(r))
            /\ IsFiniteSet(In(r, "REVOKED")) /\ IsFiniteSet(In(r, "ACTIVE"))
      /\ IsFiniteSet(Moved(rows, new)) /\ IsFiniteSet(Restated(rows, new))
  <2>1. /\ \A r \in {rows, new} :
            /\ Known(r) \subseteq Tokens /\ Past(r) \subseteq Tokens
            /\ In(r, "REVOKED") \subseteq Tokens /\ In(r, "ACTIVE") \subseteq Tokens
        /\ Moved(rows, new) \subseteq Tokens /\ Restated(rows, new) \subseteq Tokens
    BY DEF Known, Past, In, Moved, Restated
  <2>2. QED
    BY <2>1, TokensFinite
<1>3. /\ Cardinality(Known(rows)) <= Cardinality(Known(new))
      /\ Cardinality(Past(rows)) <= Cardinality(Past(new))
  BY <1>1, <1>2, FS_Subset
<1>4. /\ Cardinality(Known(new)) <= Cardinality(Known(rows)) + Cardinality(Moved(rows, new))
      /\ Cardinality(Past(new)) <= Cardinality(Past(rows)) + Cardinality(Moved(rows, new))
  BY <1>1, <1>2, Within
<1>5. /\ Cardinality(In(rows, "REVOKED"))
           <= Cardinality(In(new, "REVOKED")) + Cardinality(Restated(rows, new))
      /\ Cardinality(In(new, "REVOKED"))
           <= Cardinality(In(rows, "REVOKED")) + Cardinality(Moved(rows, new))
      /\ Cardinality(In(new, "ACTIVE"))
           <= Cardinality(In(rows, "ACTIVE")) + Cardinality(Moved(rows, new))
  BY <1>1, <1>2, Within
<1>6. QED
  BY <1>3, <1>4, <1>5

\* The owners of some sessions are not more than the sessions.
LEMMA OwnersCounted ==
  ASSUME NEW rows \in [Tokens -> S!Row], NEW A, A \subseteq Tokens
  PROVE  /\ Cardinality({rows[t].user : t \in A}) \in Nat
         /\ Cardinality({rows[t].user : t \in A}) <= Cardinality(A)
<1> DEFINE owners == {rows[t].user : t \in A}
           owner == [t \in A |-> rows[t].user]
<1>1. owner \in Surjection(A, owners)
  BY DEF Surjection
<1>2. IsFiniteSet(A)
  BY TokensFinite
<1>3. QED
  BY <1>1, <1>2, FS_Surjection, FS_CardinalityType

-------------------------------------------------------------------------------
\* At least n of the five figures have been read.
Done(left, n) == Len(left) + n <= 5

\* A login report r under way over the log: the figures read so far and what
\* the next SELECTs would return now account for the log when the request came
\* in, but for the rows that came since.
LoginFit(r, entered, ended, bad) ==
  LET f == r.figure
      logins == IF Done(r.left, 2) THEN f.successful ELSE entered
      failures == IF Done(r.left, 5) THEN f.reasons ELSE bad
      sum == logins + failures + r.start
  IN /\ r.start <= ended
     /\ ended <= r.start + r.came
     /\ Done(r.left, 1) => f.total <= sum + r.came /\ sum <= f.total + r.came
     /\ Done(r.left, 2) => entered <= f.successful + r.came
     /\ Done(r.left, 4) => f.users <= f.successful + r.came
LoginSums(r, log) ==
  LoginFit(r, Cardinality(LogRows(log, {"login"})),
           Cardinality(LogRows(log, {"logout"})),
           Cardinality(LogRows(log, Kinds \ Successes)))

\* A session report r under way over the rows, the same way.
SessionFit(r, held, overdue, taken) ==
  LET f == r.figure
      active == IF Done(r.left, 1) THEN f.active ELSE held
      expired == IF Done(r.left, 2) THEN f.expired ELSE overdue
      revoked == IF Done(r.left, 3) THEN f.revoked ELSE taken
      sum == active + expired + revoked
  IN /\ r.start <= sum + r.restated
     /\ sum <= r.start + r.moved
     /\ Done(r.left, 1) => held <= f.active + r.moved
     /\ Done(r.left, 4) => f.owners <= f.active + r.moved
     /\ Done(r.left, 5) => f.verified <= f.active + r.moved
SessionSums(r, rows) ==
  SessionFit(r, Cardinality(In(rows, "ACTIVE")), Cardinality(In(rows, "EXPIRED")),
             Cardinality(In(rows, "REVOKED")))

LEMMA FiguresRead ==
  ASSUME NEW f \in [Figures -> Nat]
  PROVE  /\ f.total \in Nat /\ f.successful \in Nat /\ f.failed \in Nat
         /\ f.users \in Nat /\ f.reasons \in Nat
         /\ f.active \in Nat /\ f.expired \in Nat /\ f.revoked \in Nat
         /\ f.owners \in Nat /\ f.verified \in Nat
BY FigureNames DEF LoginNames, SessionNames

\* A step that logs at most one row moves came and keeps the rest of the report.
LEMMA LoginMoves ==
  ASSUME NEW r \in Report, NEW s \in Report,
         NEW log \in LogType, NEW new \in LogType,
         IsFiniteSet(LogRows(log, Kinds)), IsFiniteSet(LogRows(new, Kinds)),
         \A A \in SUBSET Kinds :
           Cardinality(LogRows(log, A)) <= Cardinality(LogRows(new, A)),
         s.left = r.left, s.figure = r.figure, s.start = r.start,
         s.came = r.came + Cardinality(LogRows(new, Kinds))
                         - Cardinality(LogRows(log, Kinds)),
         LoginSums(r, log)
  PROVE  LoginSums(s, new)
<1> DEFINE bad == Kinds \ Successes
<1>1. /\ {"login"} \in SUBSET Kinds /\ {"logout"} \in SUBSET Kinds
      /\ bad \in SUBSET Kinds
  BY DEF Kinds, AttemptType, Successes
<1>2. \A A \in {{"login"}, {"logout"}, bad} :
        /\ Cardinality(LogRows(log, A)) \in Nat
        /\ Cardinality(LogRows(new, A)) \in Nat
        /\ Cardinality(LogRows(log, A)) <= Cardinality(LogRows(new, A))
  BY <1>1, LogPart
<1>3. /\ Cardinality(LogRows(log, Kinds))
           = Cardinality(LogRows(log, {"login"})) + Cardinality(LogRows(log, {"logout"}))
               + Cardinality(LogRows(log, bad))
      /\ Cardinality(LogRows(new, Kinds))
           = Cardinality(LogRows(new, {"login"})) + Cardinality(LogRows(new, {"logout"}))
               + Cardinality(LogRows(new, bad))
  BY LogAll
<1>4. /\ r.start \in Nat /\ r.came \in Nat /\ s.came \in Nat
      /\ r.figure \in [Figures -> Nat]
  BY DEF Report
<1>5. /\ r.figure.total \in Nat /\ r.figure.successful \in Nat
      /\ r.figure.reasons \in Nat /\ r.figure.users \in Nat
  BY <1>4, FiguresRead
<1>6. QED
  BY <1>2, <1>3, <1>4, <1>5 DEF LoginFit, LoginSums

\* A SELECT returns the next figure and leaves the rest of the report.
Reads(r, s, value) ==
  /\ s.left = Tail(r.left)
  /\ s.figure = [r.figure EXCEPT ![Head(r.left)] = value]
  /\ s.start = r.start /\ s.came = r.came
  /\ s.moved = r.moved /\ s.restated = r.restated

\* The SELECTs come one after the other.
LEMMA LoginLeft ==
  ASSUME NEW left \in LoginLefts, left # <<>>
  PROVE  /\ Head(left) \in LoginNames /\ Tail(left) \in LoginLefts
         /\ Head(left) = "total" => Len(left) = 5 /\ Len(Tail(left)) = 4
         /\ Head(left) = "successful" => Len(left) = 4 /\ Len(Tail(left)) = 3
         /\ Head(left) = "failed" => Len(left) = 3 /\ Len(Tail(left)) = 2
         /\ Head(left) = "users" => Len(left) = 2 /\ Len(Tail(left)) = 1
         /\ Head(left) = "reasons" => Len(left) = 1 /\ Len(Tail(left)) = 0
<1>1. CASE left = <<"total", "successful", "failed", "users", "reasons">>
  <2>1. /\ Head(left) = "total" /\ Tail(left) = <<"successful", "failed", "users", "reasons">>
        /\ Len(left) = 5 /\ Len(<<"successful", "failed", "users", "reasons">>) = 4
    BY <1>1
  <2>2. QED
    BY <2>1 DEF LoginLefts, LoginNames
<1>2. CASE left = <<"successful", "failed", "users", "reasons">>
  <2>1. /\ Head(left) = "successful" /\ Tail(left) = <<"failed", "users", "reasons">>
        /\ Len(left) = 4 /\ Len(<<"failed", "users", "reasons">>) = 3
    BY <1>2
  <2>2. QED
    BY <2>1 DEF LoginLefts, LoginNames
<1>3. CASE left = <<"failed", "users", "reasons">>
  <2>1. /\ Head(left) = "failed" /\ Tail(left) = <<"users", "reasons">>
        /\ Len(left) = 3 /\ Len(<<"users", "reasons">>) = 2
    BY <1>3
  <2>2. QED
    BY <2>1 DEF LoginLefts, LoginNames
<1>4. CASE left = <<"users", "reasons">>
  <2>1. /\ Head(left) = "users" /\ Tail(left) = <<"reasons">>
        /\ Len(left) = 2 /\ Len(<<"reasons">>) = 1
    BY <1>4
  <2>2. QED
    BY <2>1 DEF LoginLefts, LoginNames
<1>5. CASE left = <<"reasons">>
  <2>1. /\ Head(left) = "reasons" /\ Tail(left) = <<>>
        /\ Len(left) = 1 /\ Len(<<>>) = 0
    BY <1>5
  <2>2. QED
    BY <2>1 DEF LoginLefts, LoginNames
<1>6. QED
  BY <1>1, <1>2, <1>3, <1>4, <1>5 DEF LoginLefts

LEMMA SessionLeft ==
  ASSUME NEW left \in SessionLefts, left # <<>>
  PROVE  /\ Head(left) \in SessionNames /\ Tail(left) \in SessionLefts
         /\ Head(left) = "active" => Len(left) = 5 /\ Len(Tail(left)) = 4
         /\ Head(left) = "expired" => Len(left) = 4 /\ Len(Tail(left)) = 3
         /\ Head(left) = "revoked" => Len(left) = 3 /\ Len(Tail(left)) = 2
         /\ Head(left) = "owners" => Len(left) = 2 /\ Len(Tail(left)) = 1
         /\ Head(left) = "verified" => Len(left) = 1 /\ Len(Tail(left)) = 0
<1>1. CASE left = <<"active", "expired", "revoked", "owners", "verified">>
  <2>1. /\ Head(left) = "active" /\ Tail(left) = <<"expired", "revoked", "owners", "verified">>
        /\ Len(left) = 5 /\ Len(<<"expired", "revoked", "owners", "verified">>) = 4
    BY <1>1
  <2>2. QED
    BY <2>1 DEF SessionLefts, SessionNames
<1>2. CASE left = <<"expired", "revoked", "owners", "verified">>
  <2>1. /\ Head(left) = "expired" /\ Tail(left) = <<"revoked", "owners", "verified">>
        /\ Len(left) = 4 /\ Len(<<"revoked", "owners", "verified">>) = 3
    BY <1>2
  <2>2. QED
    BY <2>1 DEF SessionLefts, SessionNames
<1>3. CASE left = <<"revoked", "owners", "verified">>
  <2>1. /\ Head(left) = "revoked" /\ Tail(left) = <<"owners", "verified">>
        /\ Len(left) = 3 /\ Len(<<"owners", "verified">>) = 2
    BY <1>3
  <2>2. QED
    BY <2>1 DEF SessionLefts, SessionNames
<1>4. CASE left = <<"owners", "verified">>
  <2>1. /\ Head(left) = "owners" /\ Tail(left) = <<"verified">>
        /\ Len(left) = 2 /\ Len(<<"verified">>) = 1
    BY <1>4
  <2>2. QED
    BY <2>1 DEF SessionLefts, SessionNames
<1>5. CASE left = <<"verified">>
  <2>1. /\ Head(left) = "verified" /\ Tail(left) = <<>>
        /\ Len(left) = 1 /\ Len(<<>>) = 0
    BY <1>5
  <2>2. QED
    BY <2>1 DEF SessionLefts, SessionNames
<1>6. QED
  BY <1>1, <1>2, <1>3, <1>4, <1>5 DEF SessionLefts

\* Each SELECT of the login report sees the log as it is.
LEMMA LoginReads ==
  ASSUME NEW r \in Report, NEW s \in Report, NEW log \in LogType, NEW value \in Nat,
         IsFiniteSet(LogRows(log, Kinds)),
         r.left \in LoginLefts, r.left # <<>>, Reads(r, s, value),
         Head(r.left) = "total" => value = Cardinality(LogRows(log, Kinds)),
         Head(r.left) = "successful" => value = Cardinality(LogRows(log, {"login"})),
         Head(r.left) = "users" => value <= Cardinality(LogRows(log, {"login"})),
         Head(r.left) = "reasons" => value = Cardinality(LogRows(log, Kinds \ Successes)),
         LoginSums(r, log)
  PROVE  LoginSums(s, log)
<1>1. /\ {"login"} \in SUBSET Kinds /\ {"logout"} \in SUBSET Kinds
      /\ Kinds \ Successes \in SUBSET Kinds
  BY DEF Kinds, AttemptType, Successes
<1>2. PICK entered \in Nat, ended \in Nat, bad \in Nat :
        /\ entered = Cardinality(LogRows(log, {"login"}))
        /\ ended = Cardinality(LogRows(log, {"logout"}))
        /\ bad = Cardinality(LogRows(log, Kinds \ Successes))
  BY <1>1, LogPart
<1>3. /\ Cardinality(LogRows(log, Kinds)) = entered + ended + bad
      /\ LoginFit(r, entered, ended, bad)
      /\ LoginSums(s, log) <=> LoginFit(s, entered, ended, bad)
  BY <1>2, LogAll DEF LoginSums
<1>4. /\ r.start \in Nat /\ r.came \in Nat
      /\ s.start = r.start /\ s.came = r.came
  BY DEF Report, Reads
<1>5. /\ r.figure.total \in Nat /\ r.figure.successful \in Nat
      /\ s.figure.reasons \in Nat /\ s.figure.users \in Nat
  BY FiguresRead DEF Report
<1>6. \A name \in LoginNames :
        s.figure[name] = IF name = Head(r.left) THEN value ELSE r.figure[name]
  BY FigureNames DEF Report, Reads
<1>7. s.left = Tail(r.left)
  BY DEF Reads
<1>8. CASE Head(r.left) = "total"
  <2>1. /\ Len(r.left) = 5 /\ Len(s.left) = 4
        /\ s.figure.total = entered + ended + bad
    BY <1>2, <1>3, <1>6, <1>7, <1>8, LoginLeft DEF LoginNames
  <2>2. /\ ~Done(r.left, 1) /\ ~Done(r.left, 2) /\ ~Done(r.left, 3)
        /\ ~Done(r.left, 4) /\ ~Done(r.left, 5)
        /\ Done(s.left, 1) /\ ~Done(s.left, 2) /\ ~Done(s.left, 3)
        /\ ~Done(s.left, 4) /\ ~Done(s.left, 5)
    BY <2>1 DEF Done
  <2>3. r.start <= ended /\ ended <= r.start + r.came
    BY <1>3 DEF LoginFit
  <2>4. /\ s.start <= ended /\ ended <= s.start + s.came
        /\ s.figure.total <= entered + bad + s.start + s.came
        /\ entered + bad + s.start <= s.figure.total + s.came
    BY <1>4, <2>1, <2>3
  <2>5. LoginFit(s, entered, ended, bad)
    BY <2>2, <2>4 DEF LoginFit
  <2>6. QED
    BY <1>3, <2>5
<1>9. CASE Head(r.left) = "successful"
  <2>1. /\ Len(r.left) = 4 /\ Len(s.left) = 3 /\ s.figure.total = r.figure.total
        /\ s.figure.successful = entered
    BY <1>2, <1>3, <1>6, <1>7, <1>9, LoginLeft DEF LoginNames
  <2>2. /\ Done(r.left, 1) /\ ~Done(r.left, 2) /\ ~Done(r.left, 3)
        /\ ~Done(r.left, 4) /\ ~Done(r.left, 5)
        /\ Done(s.left, 1) /\ Done(s.left, 2) /\ ~Done(s.left, 3)
        /\ ~Done(s.left, 4) /\ ~Done(s.left, 5)
    BY <2>1 DEF Done
  <2>3. LoginFit(s, entered, ended, bad)
    BY <1>3, <1>4, <1>5, <2>1, <2>2 DEF LoginFit
  <2>4. QED
    BY <1>3, <2>3
<1>10. CASE Head(r.left) = "failed"
  <2>1. /\ Len(r.left) = 3 /\ Len(s.left) = 2 /\ s.figure.total = r.figure.total
        /\ s.figure.successful = r.figure.successful
    BY <1>2, <1>3, <1>6, <1>7, <1>10, LoginLeft DEF LoginNames
  <2>2. /\ Done(r.left, 1) /\ Done(r.left, 2) /\ ~Done(r.left, 3)
        /\ ~Done(r.left, 4) /\ ~Done(r.left, 5)
        /\ Done(s.left, 1) /\ Done(s.left, 2) /\ Done(s.left, 3)
        /\ ~Done(s.left, 4) /\ ~Done(s.left, 5)
    BY <2>1 DEF Done
  <2>3. LoginFit(s, entered, ended, bad)
    BY <1>3, <1>4, <1>5, <2>1, <2>2 DEF LoginFit
  <2>4. QED
    BY <1>3, <2>3
<1>11. CASE Head(r.left) = "users"
  <2>1. /\ Len(r.left) = 2 /\ Len(s.left) = 1 /\ s.figure.total = r.figure.total
        /\ s.figure.successful = r.figure.successful
        /\ s.figure.users <= entered
    BY <1>2, <1>3, <1>6, <1>7, <1>11, LoginLeft DEF LoginNames
  <2>2. /\ Done(r.left, 1) /\ Done(r.left, 2) /\ Done(r.left, 3)
        /\ ~Done(r.left, 4) /\ ~Done(r.left, 5)
        /\ Done(s.left, 1) /\ Done(s.left, 2) /\ Done(s.left, 3)
        /\ Done(s.left, 4) /\ ~Done(s.left, 5)
    BY <2>1 DEF Done
  <2>3. entered <= r.figure.successful + r.came
    BY <1>3, <2>2 DEF LoginFit
  <2>4. s.figure.users <= s.figure.successful + s.came
    BY <1>4, <1>5, <2>1, <2>3
  <2>5. LoginFit(s, entered, ended, bad)
    BY <1>3, <1>4, <2>1, <2>2, <2>3, <2>4 DEF LoginFit
  <2>6. QED
    BY <1>3, <2>5
<1>12. CASE Head(r.left) = "reasons"
  <2>1. /\ Len(r.left) = 1 /\ Len(s.left) = 0 /\ s.figure.total = r.figure.total
        /\ s.figure.successful = r.figure.successful
        /\ s.figure.users = r.figure.users
        /\ s.figure.reasons = bad
    BY <1>2, <1>3, <1>6, <1>7, <1>12, LoginLeft DEF LoginNames
  <2>2. /\ Done(r.left, 1) /\ Done(r.left, 2) /\ Done(r.left, 3)
        /\ Done(r.left, 4) /\ ~Done(r.left, 5)
        /\ Done(s.left, 1) /\ Done(s.left, 2) /\ Done(s.left, 3)
        /\ Done(s.left, 4) /\ Done(s.left, 5)
    BY <2>1 DEF Done
  <2>3. LoginFit(s, entered, ended, bad)
    BY <1>3, <1>4, <1>5, <2>1, <2>2 DEF LoginFit
  <2>4. QED
    BY <1>3, <2>3
<1>13. QED
  BY <1>8, <1>9, <1>10, <1>11, <1>12, LoginLeft DEF LoginNames

\* A step that moves some statuses counts them and keeps the rest of the report.
LEMMA SessionMoves ==
  ASSUME NEW r \in Report, NEW s \in Report,
         NEW rows \in [Tokens -> S!Row], NEW new \in [Tokens -> S!Row],
         Lives(rows, new),
         s.left = r.left, s.figure = r.figure, s.start = r.start,
         s.moved = r.moved + Cardinality(Moved(rows, new)),
         s.restated = r.restated + Cardinality(Restated(rows, new)),
         r.left \in SessionLefts, SessionSums(r, rows)
  PROVE  SessionSums(s, new)
<1> DEFINE moved == Cardinality(Moved(rows, new))
           restated == Cardinality(Restated(rows, new))
           active == Cardinality(In(rows, "ACTIVE"))
           expired == Cardinality(In(rows, "EXPIRED"))
           revoked == Cardinality(In(rows, "REVOKED"))
           active2 == Cardinality(In(new, "ACTIVE"))
           expired2 == Cardinality(In(new, "EXPIRED"))
           revoked2 == Cardinality(In(new, "REVOKED"))
<1>1. /\ moved \in Nat /\ restated \in Nat
      /\ active \in Nat /\ expired \in Nat /\ revoked \in Nat
      /\ active2 \in Nat /\ expired2 \in Nat /\ revoked2 \in Nat
  <2>1. Moved(rows, new) \subseteq Tokens /\ Restated(rows, new) \subseteq Tokens
    BY DEF Moved, Restated
  <2>2. \A x, status : In(x, status) \subseteq Tokens
    BY DEF In
  <2>3. QED
    BY <2>1, <2>2, TokensFinite
<1>2. /\ active + expired + revoked <= active2 + expired2 + revoked2
      /\ active2 + expired2 + revoked2 <= active + expired + revoked + moved
      /\ expired + revoked <= expired2 + revoked2
      /\ expired2 + revoked2 <= expired + revoked + moved
      /\ revoked <= revoked2 + restated /\ revoked2 <= revoked + moved
      /\ active2 <= active + moved
  BY StatusesMove, StatusCounts
<1>3. /\ r.start \in Nat /\ r.moved \in Nat /\ r.restated \in Nat
      /\ r.figure \in [Figures -> Nat]
  BY DEF Report
<1>4. /\ r.figure.active \in Nat /\ r.figure.expired \in Nat
      /\ r.figure.revoked \in Nat /\ r.figure.owners \in Nat
      /\ r.figure.verified \in Nat
  BY <1>3, FiguresRead
<1>5. /\ Len(r.left) \in 0..5
      /\ Done(r.left, 3) => Done(r.left, 2)
      /\ Done(r.left, 2) => Done(r.left, 1)
  BY DEF SessionLefts, Done
<1>6. /\ Done(r.left, 1) => active2 <= r.figure.active + s.moved
      /\ Done(r.left, 4) => r.figure.owners <= r.figure.active + s.moved
      /\ Done(r.left, 5) => r.figure.verified <= r.figure.active + s.moved
  BY <1>1, <1>2, <1>3, <1>4 DEF SessionFit, SessionSums
<1>7. CASE ~Done(r.left, 1)
  <2>1. /\ r.start <= active + expired + revoked + r.restated
        /\ active + expired + revoked <= r.start + r.moved
    BY <1>5, <1>7 DEF SessionFit, SessionSums
  <2>2. /\ s.start <= active2 + expired2 + revoked2 + s.restated
        /\ active2 + expired2 + revoked2 <= s.start + s.moved
    BY <1>1, <1>2, <1>3, <1>4, <2>1
  <2>3. QED
    BY <1>5, <1>6, <1>7, <2>2 DEF SessionFit, SessionSums
<1>8. CASE Done(r.left, 1) /\ ~Done(r.left, 2)
  <2>1. /\ r.start <= r.figure.active + expired + revoked + r.restated
        /\ r.figure.active + expired + revoked <= r.start + r.moved
    BY <1>5, <1>8 DEF SessionFit, SessionSums
  <2>2. /\ s.start <= r.figure.active + expired2 + revoked2 + s.restated
        /\ r.figure.active + expired2 + revoked2 <= s.start + s.moved
    BY <1>1, <1>2, <1>3, <1>4, <2>1
  <2>3. QED
    BY <1>5, <1>6, <1>8, <2>2 DEF SessionFit, SessionSums
<1>9. CASE Done(r.left, 2) /\ ~Done(r.left, 3)
  <2>1. /\ r.start <= r.figure.active + r.figure.expired + revoked + r.restated
        /\ r.figure.active + r.figure.expired + revoked <= r.start + r.moved
    BY <1>5, <1>9 DEF SessionFit, SessionSums
  <2>2. /\ s.start <= r.figure.active + r.figure.expired + revoked2 + s.restated
        /\ r.figure.active + r.figure.expired + revoked2 <= s.start + s.moved
    BY <1>1, <1>2, <1>3, <1>4, <2>1
  <2>3. QED
    BY <1>5, <1>6, <1>9, <2>2 DEF SessionFit, SessionSums
<1>10. CASE Done(r.left, 3)
  <2>1. /\ r.start <= r.figure.active + r.figure.expired + r.figure.revoked + r.restated
        /\ r.figure.active + r.figure.expired + r.figure.revoked <= r.start + r.moved
    BY <1>5, <1>10 DEF SessionFit, SessionSums
  <2>2. /\ s.start <= r.figure.active + r.figure.expired + r.figure.revoked + s.restated
        /\ r.figure.active + r.figure.expired + r.figure.revoked <= s.start + s.moved
    BY <1>1, <1>2, <1>3, <1>4, <2>1
  <2>3. QED
    BY <1>5, <1>6, <1>10, <2>2 DEF SessionFit, SessionSums
<1>11. QED
  BY <1>5, <1>7, <1>8, <1>9, <1>10

\* Each SELECT of the session report sees the rows as they are.
LEMMA SessionReads ==
  ASSUME NEW r \in Report, NEW s \in Report, NEW rows \in [Tokens -> S!Row],
         NEW value \in Nat,
         r.left \in SessionLefts, r.left # <<>>, Reads(r, s, value),
         Head(r.left) = "active" => value = Cardinality(In(rows, "ACTIVE")),
         Head(r.left) = "expired" => value = Cardinality(In(rows, "EXPIRED")),
         Head(r.left) = "revoked" => value = Cardinality(In(rows, "REVOKED")),
         Head(r.left) \in {"owners", "verified"}
           => value <= Cardinality(In(rows, "ACTIVE")),
         SessionSums(r, rows)
  PROVE  SessionSums(s, rows)
<1>0. PICK held \in Nat, overdue \in Nat, taken \in Nat :
        /\ held = Cardinality(In(rows, "ACTIVE"))
        /\ overdue = Cardinality(In(rows, "EXPIRED"))
        /\ taken = Cardinality(In(rows, "REVOKED"))
  <2>1. \A status : In(rows, status) \subseteq Tokens
    BY DEF In
  <2>2. QED
    BY <2>1, TokensFinite
<1>1. /\ SessionFit(r, held, overdue, taken)
      /\ SessionSums(s, rows) <=> SessionFit(s, held, overdue, taken)
  BY <1>0 DEF SessionSums
<1>2. /\ r.start \in Nat /\ r.moved \in Nat /\ r.restated \in Nat
      /\ s.start = r.start /\ s.moved = r.moved /\ s.restated = r.restated
  BY DEF Report, Reads
<1>3. /\ r.figure.active \in Nat /\ r.figure.expired \in Nat /\ r.figure.revoked \in Nat
      /\ r.figure.owners \in Nat
  BY FiguresRead DEF Report
<1>4. \A name \in SessionNames :
        s.figure[name] = IF name = Head(r.left) THEN value ELSE r.figure[name]
  BY FigureNames DEF Report, Reads
<1>5. s.left = Tail(r.left)
  BY DEF Reads
<1>6. CASE Head(r.left) = "active"
  <2>1. Len(r.left) = 5 /\ Len(s.left) = 4 /\ s.figure.active = held
    BY <1>0, <1>4, <1>5, <1>6, SessionLeft DEF SessionNames
  <2>2. /\ ~Done(r.left, 1) /\ ~Done(r.left, 2) /\ ~Done(r.left, 3)
        /\ ~Done(r.left, 4) /\ ~Done(r.left, 5)
        /\ Done(s.left, 1) /\ ~Done(s.left, 2) /\ ~Done(s.left, 3)
        /\ ~Done(s.left, 4) /\ ~Done(s.left, 5)
    BY <2>1 DEF Done
  <2>3. SessionFit(s, held, overdue, taken)
    BY <1>1, <1>2, <1>3, <2>1, <2>2 DEF SessionFit
  <2>4. QED
    BY <1>1, <2>3
<1>7. CASE Head(r.left) = "expired"
  <2>1. /\ Len(r.left) = 4 /\ Len(s.left) = 3 /\ s.figure.active = r.figure.active
        /\ s.figure.expired = overdue
    BY <1>0, <1>4, <1>5, <1>7, SessionLeft DEF SessionNames
  <2>2. /\ Done(r.left, 1) /\ ~Done(r.left, 2) /\ ~Done(r.left, 3)
        /\ ~Done(r.left, 4) /\ ~Done(r.left, 5)
        /\ Done(s.left, 1) /\ Done(s.left, 2) /\ ~Done(s.left, 3)
        /\ ~Done(s.left, 4) /\ ~Done(s.left, 5)
    BY <2>1 DEF Done
  <2>3. SessionFit(s, held, overdue, taken)
    BY <1>1, <1>2, <1>3, <2>1, <2>2 DEF SessionFit
  <2>4. QED
    BY <1>1, <2>3
<1>8. CASE Head(r.left) = "revoked"
  <2>1. /\ Len(r.left) = 3 /\ Len(s.left) = 2 /\ s.figure.active = r.figure.active
        /\ s.figure.expired = r.figure.expired /\ s.figure.revoked = taken
    BY <1>0, <1>4, <1>5, <1>8, SessionLeft DEF SessionNames
  <2>2. /\ Done(r.left, 1) /\ Done(r.left, 2) /\ ~Done(r.left, 3)
        /\ ~Done(r.left, 4) /\ ~Done(r.left, 5)
        /\ Done(s.left, 1) /\ Done(s.left, 2) /\ Done(s.left, 3)
        /\ ~Done(s.left, 4) /\ ~Done(s.left, 5)
    BY <2>1 DEF Done
  <2>3. SessionFit(s, held, overdue, taken)
    BY <1>1, <1>2, <1>3, <2>1, <2>2 DEF SessionFit
  <2>4. QED
    BY <1>1, <2>3
<1>9. CASE Head(r.left) = "owners"
  <2>1. /\ Len(r.left) = 2 /\ Len(s.left) = 1 /\ s.figure.active = r.figure.active
        /\ s.figure.expired = r.figure.expired
        /\ s.figure.revoked = r.figure.revoked
        /\ s.figure.owners = value /\ value <= held
    BY <1>0, <1>4, <1>5, <1>9, SessionLeft DEF SessionNames
  <2>2. /\ Done(r.left, 1) /\ Done(r.left, 2) /\ Done(r.left, 3)
        /\ ~Done(r.left, 4) /\ ~Done(r.left, 5)
        /\ Done(s.left, 1) /\ Done(s.left, 2) /\ Done(s.left, 3)
        /\ Done(s.left, 4) /\ ~Done(s.left, 5)
    BY <2>1 DEF Done
  <2>3. held <= r.figure.active + r.moved
    BY <1>1, <2>2 DEF SessionFit
  <2>4. value <= s.figure.active + s.moved
    BY <1>2, <1>3, <2>1, <2>3
  <2>5. SessionFit(s, held, overdue, taken)
    BY <1>1, <1>2, <2>1, <2>2, <2>3, <2>4 DEF SessionFit
  <2>6. QED
    BY <1>1, <2>5
<1>10. CASE Head(r.left) = "verified"
  <2>1. /\ Len(r.left) = 1 /\ Len(s.left) = 0 /\ s.figure.active = r.figure.active
        /\ s.figure.expired = r.figure.expired
        /\ s.figure.revoked = r.figure.revoked /\ s.figure.owners = r.figure.owners
        /\ s.figure.verified = value /\ value <= held
    BY <1>0, <1>4, <1>5, <1>10, SessionLeft DEF SessionNames
  <2>2. /\ Done(r.left, 1) /\ Done(r.left, 2) /\ Done(r.left, 3)
        /\ Done(r.left, 4) /\ ~Done(r.left, 5)
        /\ Done(s.left, 1) /\ Done(s.left, 2) /\ Done(s.left, 3)
        /\ Done(s.left, 4) /\ Done(s.left, 5)
    BY <2>1 DEF Done
  <2>3. held <= r.figure.active + r.moved
    BY <1>1, <2>2 DEF SessionFit
  <2>4. value <= s.figure.active + s.moved
    BY <1>2, <1>3, <2>1, <2>3
  <2>5. SessionFit(s, held, overdue, taken)
    BY <1>1, <1>2, <2>1, <2>2, <2>3, <2>4 DEF SessionFit
  <2>6. QED
    BY <1>1, <2>5
<1>11. QED
  BY <1>6, <1>7, <1>8, <1>9, <1>10, SessionLeft DEF SessionNames

-------------------------------------------------------------------------------
\* What the SELECTs of the two reports return in a state.
LEMMA LoginSelects ==
  ASSUME logs \in LogType, IsFiniteSet(LogRows(logs, Kinds))
  PROVE  /\ LoginFigure.total = Cardinality(LogRows(logs, Kinds))
         /\ LoginFigure.successful = Cardinality(LogRows(logs, {"login"}))
         /\ LoginFigure.users <= Cardinality(LogRows(logs, {"login"}))
         /\ LoginFigure.reasons = Cardinality(LogRows(logs, Kinds \ Successes))
         /\ \A name \in LoginNames : LoginFigure[name] \in Nat
<1>1. /\ {k \in Successes : AttemptType[k] = "LOGIN"} = {"login"}
      /\ {k \in Kinds \ Successes : AttemptType[k] = "LOGIN"} = {}
  BY DEF Kinds, AttemptType, Successes
<1>2. /\ LoginFigure.total = Cardinality(LogRows(logs, Kinds))
      /\ LoginFigure.successful = Cardinality(LogRows(logs, {"login"}))
      /\ LoginFigure.failed = Cardinality(LogRows(logs, {}))
      /\ LoginFigure.users = Cardinality({u \in Users : logs[u].login > 0})
      /\ LoginFigure.reasons = Cardinality(LogRows(logs, Kinds \ Successes))
  BY <1>1 DEF LoginFigure, Logged
<1>3. Cardinality(LogRows(logs, {})) = 0
  BY LogAll
<1>4. {"login"} \in SUBSET Kinds /\ Kinds \ Successes \in SUBSET Kinds
  BY DEF Kinds, AttemptType
<1>5. /\ Cardinality(LogRows(logs, Kinds)) \in Nat
      /\ Cardinality(LogRows(logs, {"login"})) \in Nat
      /\ Cardinality(LogRows(logs, Kinds \ Successes)) \in Nat
  BY <1>4, LogPart
<1>6. /\ Cardinality({u \in Users : logs[u].login > 0}) \in Nat
      /\ Cardinality({u \in Users : logs[u].login > 0})
           <= Cardinality(LogRows(logs, {"login"}))
  BY UsersLogged
<1>7. QED
  BY <1>2, <1>3, <1>5, <1>6 DEF LoginNames

LEMMA SessionSelects ==
  ASSUME sessions \in [Tokens -> S!Row]
  PROVE  /\ SessionFigure.active = Cardinality(In(sessions, "ACTIVE"))
         /\ SessionFigure.expired = Cardinality(In(sessions, "EXPIRED"))
         /\ SessionFigure.revoked = Cardinality(In(sessions, "REVOKED"))
         /\ SessionFigure.owners <= Cardinality(In(sessions, "ACTIVE"))
         /\ SessionFigure.verified <= Cardinality(In(sessions, "ACTIVE"))
         /\ \A name \in SessionNames : SessionFigure[name] \in Nat
<1> DEFINE active == In(sessions, "ACTIVE")
           owners == {sessions[t].user : t \in active}
           verified == {t \in active : sessions[t].mfa}
<1>1. /\ Having("ACTIVE") = active /\ Having("EXPIRED") = In(sessions, "EXPIRED")
      /\ Having("REVOKED") = In(sessions, "REVOKED")
  BY DEF Having, In
<1>2. /\ SessionFigure.active = Cardinality(active)
      /\ SessionFigure.expired = Cardinality(In(sessions, "EXPIRED"))
      /\ SessionFigure.revoked = Cardinality(In(sessions, "REVOKED"))
      /\ SessionFigure.owners = Cardinality(owners)
      /\ SessionFigure.verified = Cardinality(verified)
  BY <1>1 DEF SessionFigure
<1>3. /\ active \subseteq Tokens /\ In(sessions, "EXPIRED") \subseteq Tokens
      /\ In(sessions, "REVOKED") \subseteq Tokens /\ verified \subseteq active
      /\ verified \subseteq Tokens
  BY DEF In
<1>4. /\ IsFiniteSet(active) /\ Cardinality(active) \in Nat
      /\ Cardinality(In(sessions, "EXPIRED")) \in Nat
      /\ Cardinality(In(sessions, "REVOKED")) \in Nat
      /\ Cardinality(verified) \in Nat
  BY <1>3, TokensFinite
<1>5. Cardinality(verified) <= Cardinality(active)
  BY <1>3, <1>4, FS_Subset
<1>6. Cardinality(owners) \in Nat /\ Cardinality(owners) <= Cardinality(active)
  BY <1>3, OwnersCounted
<1>7. QED
  BY <1>2, <1>4, <1>5, <1>6 DEF SessionNames

-------------------------------------------------------------------------------
\* A step of a login, a logout or a clean-up, seen from a report.
LEMMA LogStep ==
  ASSUME RequestInv, [Next]_vars, IsFiniteSet(LogRows(logs, Kinds))
  PROVE  /\ logs \in LogType /\ logs' \in LogType
         /\ IsFiniteSet(LogRows(logs', Kinds))
         /\ \A A \in SUBSET Kinds :
              Cardinality(LogRows(logs, A)) <= Cardinality(LogRows(logs', A))
<1>1. logs \in LogType /\ logs' \in LogType
  BY RequestStep DEF RequestInv, TypeOK, LogType
<1>2. \/ logs' = logs
      \/ \E u \in Users \cup {NoUser}, k \in Kinds : Log(u, k)
  <2>1. ASSUME NEW w \in Workers, Step(w)
        PROVE  \/ logs' = logs
               \/ \E u \in Users \cup {NoUser}, k \in Kinds : Log(u, k)
    <3>1. /\ req[w].user \in Users \cup {NoUser}
          /\ "login" \in Kinds /\ "lock" \in Kinds
      BY DEF RequestInv, TypeOK, Request, Kinds, AttemptType
    <3>2. QED
      BY <2>1, <3>1, OneRow
  <2>2. QED
    BY <2>1 DEF Next, Tick, vars, Step
<1>3. QED
  BY <1>1, <1>2, LogGrows DEF Log

LEMMA SessionRowsStep ==
  ASSUME RequestInv, [Next]_vars
  PROVE  /\ sessions \in [Tokens -> S!Row] /\ sessions' \in [Tokens -> S!Row]
         /\ Lives(sessions, sessions')
<1>1. sessions \in [Tokens -> S!Row] /\ sessions' \in [Tokens -> S!Row]
  BY RequestStep DEF RequestInv, TypeOK, S!TypeOK
<1>2. P!TypeOK /\ [P!Next]_(P!vars)
  BY SessionStep, SameService DEF RequestInv, TypeOK
<1>3. P!StatusStep
  BY <1>2, P!StepTyped, SameSets, SessionsAssumption
<1>4. QED
  BY <1>1, <1>3 DEF P!StatusStep, P!Ended, Lives

-------------------------------------------------------------------------------
\* The report under way accounts for the state it is read from.
StatsInv ==
  /\ RequestInv
  /\ IsFiniteSet(LogRows(logs, Kinds))
  /\ report \in Report
  /\ report.what = "logins" => report.left \in LoginLefts /\ LoginSums(report, logs)
  /\ report.what = "sessions" =>
       report.left \in SessionLefts /\ SessionSums(report, sessions)

LEMMA StatsStart == StatsInit => StatsInv
<1> SUFFICES ASSUME StatsInit PROVE StatsInv
  OBVIOUS
<1>1. RequestInv
  BY RequestInit DEF StatsInit
<1>2. LogRows(logs, Kinds) = {}
  <2>1. \A u \in DOMAIN logs, k \in Kinds : 1..logs[u][k] = {}
    BY DEF StatsInit, Init
  <2>2. \A u \in DOMAIN logs, k \in Kinds : RowsOf(logs, u, k) = {}
    BY <2>1 DEF RowsOf
  <2>3. QED
    BY <2>2 DEF LogRows
<1>3. report \in Report /\ report.what = "none"
  BY DEF StatsInit, NoReport, Report, LoginLefts
<1>4. QED
  BY <1>1, <1>2, <1>3, FS_EmptySet DEF StatsInv

\* What Ask and ReadFigure leave alone.
Elsewhere == UNCHANGED <<sessionVars, users, logs, streak, req, crashes>>

LEMMA RequestKept ==
  ASSUME RequestInv, Elsewhere, reply' = Silence
  PROVE  RequestInv'
<1>1. S!TypeOK'
  BY DEF RequestInv, TypeOK, Elsewhere, sessionVars, S!TypeOK
<1>2. QED
  BY <1>1 DEF RequestInv, TypeOK, Elsewhere, sessionVars, Addressed, Silence, Reply

LEMMA AskStep ==
  ASSUME StatsInv, NEW w \in Workers, Ask(w, "logins") \/ Ask(w, "sessions")
  PROVE  StatsInv'
<1>1. Elsewhere /\ reply' = Silence
  BY DEF Ask, Elsewhere
<1>2. RequestInv' /\ IsFiniteSet(LogRows(logs, Kinds))'
  BY <1>1, RequestKept DEF StatsInv, Elsewhere
<1>3. /\ logs \in LogType /\ logs' = logs
      /\ sessions \in [Tokens -> S!Row] /\ sessions' = sessions
  BY <1>1 DEF StatsInv, RequestInv, TypeOK, S!TypeOK, LogType, Elsewhere, sessionVars
<1>4. CASE Ask(w, "logins")
  <2>1. Cardinality(LogRows(logs, {"logout"})) \in Nat
    <3>1. {"logout"} \in SUBSET Kinds
      BY DEF Kinds, AttemptType
    <3>2. QED
      BY <1>3, <3>1, LogPart DEF StatsInv
  <2>2. /\ report'.what = "logins" /\ report'.servers = {w}
        /\ report'.left = Order.logins /\ report'.figure = NoReport.figure
        /\ report'.start = Cardinality(LogRows(logs, {"logout"}))
        /\ report'.came = 0 /\ report'.moved = 0 /\ report'.restated = 0
        /\ report' = [what |-> "logins", servers |-> {w}, left |-> Order.logins,
                      figure |-> NoReport.figure,
                      start |-> Cardinality(LogRows(logs, {"logout"})),
                      came |-> 0, moved |-> 0, restated |-> 0]
    BY <1>4 DEF Ask, NoReport, Logged
  <2>3. /\ Order.logins \in LoginLefts /\ Len(Order.logins) = 5
        /\ NoReport.figure \in [Figures -> Nat]
    BY DEF Order, LoginLefts, NoReport
  <2>4. report' \in Report
    BY <2>1, <2>2, <2>3 DEF Report
  <2>5. LoginSums(report', logs')
    BY <1>3, <2>1, <2>2, <2>3 DEF LoginFit, LoginSums, Done
  <2>6. QED
    BY <1>2, <2>2, <2>3, <2>4, <2>5 DEF StatsInv
<1>5. CASE Ask(w, "sessions")
  <2>1. /\ Known(sessions) = Existing
        /\ Cardinality(Existing) = Cardinality(In(sessions, "ACTIVE"))
             + Cardinality(In(sessions, "EXPIRED")) + Cardinality(In(sessions, "REVOKED"))
    BY <1>3, StatusCounts DEF Existing, Having, In
  <2>2. Cardinality(Existing) \in Nat
    BY TokensFinite DEF Existing
  <2>3. /\ report'.what = "sessions" /\ report'.servers = {w}
        /\ report'.left = Order.sessions /\ report'.figure = NoReport.figure
        /\ report'.start = Cardinality(Existing)
        /\ report'.came = 0 /\ report'.moved = 0 /\ report'.restated = 0
        /\ report' = [what |-> "sessions", servers |-> {w}, left |-> Order.sessions,
                      figure |-> NoReport.figure, start |-> Cardinality(Existing),
                      came |-> 0, moved |-> 0, restated |-> 0]
    BY <1>5 DEF Ask, NoReport
  <2>4. /\ Order.sessions \in SessionLefts /\ Len(Order.sessions) = 5
        /\ NoReport.figure \in [Figures -> Nat]
    BY DEF Order, SessionLefts, NoReport
  <2>5. report' \in Report
    BY <2>2, <2>3, <2>4 DEF Report
  <2>6. SessionSums(report', sessions')
    BY <1>3, <2>1, <2>2, <2>3, <2>4 DEF SessionFit, SessionSums, Done
  <2>7. QED
    BY <1>2, <2>3, <2>4, <2>5, <2>6 DEF StatsInv
<1>6. QED
  BY <1>4, <1>5

\* The next figure of a report is read into it.
LEMMA ReadsTyped ==
  ASSUME report \in Report, NEW w, NEW what, NEW figure,
         ReadFigure(w, what, figure), Head(report.left) \in Figures,
         figure[Head(report.left)] \in Nat,
         Tail(report.left) \in LoginLefts \cup SessionLefts
  PROVE  /\ report' \in Report /\ report'.what = what /\ report.what = what
         /\ report.left # <<>>
         /\ Reads(report, report', figure[Head(report.left)])
<1> DEFINE f == Head(report.left)
           figures == [report.figure EXCEPT ![f] = figure[f]]
<1>1. report' = [report EXCEPT !.left = Tail(report.left), !.figure = figures]
  BY DEF ReadFigure
<1>2. figures \in [Figures -> Nat]
  BY DEF Report
<1>3. HIDE DEF figures, f
<1>4. /\ report' \in Report /\ report'.what = report.what
      /\ report'.left = Tail(report.left) /\ report'.figure = figures
      /\ report'.start = report.start /\ report'.came = report.came
      /\ report'.moved = report.moved /\ report'.restated = report.restated
  BY <1>1, <1>2 DEF Report
<1>5. report.what = what /\ report.left # <<>>
  BY DEF ReadFigure, Reporting
<1>6. QED
  BY <1>4, <1>5 DEF Reads, figures, f

LEMMA ReadStep ==
  ASSUME StatsInv, NEW w \in Workers,
         \/ ReadFigure(w, "logins", LoginFigure)
         \/ ReadFigure(w, "sessions", SessionFigure)
  PROVE  StatsInv'
<1> DEFINE f == Head(report.left)
<1>1. Elsewhere /\ reply' = Silence
  BY DEF ReadFigure, Elsewhere
<1>2. RequestInv' /\ IsFiniteSet(LogRows(logs, Kinds))'
  BY <1>1, RequestKept DEF StatsInv, Elsewhere
<1>3. /\ logs \in LogType /\ logs' = logs
      /\ sessions \in [Tokens -> S!Row] /\ sessions' = sessions
      /\ report \in Report /\ IsFiniteSet(LogRows(logs, Kinds))
  BY <1>1 DEF StatsInv, RequestInv, TypeOK, S!TypeOK, LogType, Elsewhere, sessionVars
<1>4. CASE ReadFigure(w, "logins", LoginFigure)
  <2>1. report.left \in LoginLefts /\ report.left # <<>> /\ LoginSums(report, logs)
    BY <1>4 DEF ReadFigure, Reporting, StatsInv
  <2>2. f \in LoginNames /\ f \in Figures /\ Tail(report.left) \in LoginLefts
    BY <2>1, LoginLeft, FigureNames
  <2>3. LoginFigure[f] \in Nat
    BY <1>3, <2>2, LoginSelects
  <2>4. /\ report' \in Report /\ report'.what = "logins"
        /\ Reads(report, report', LoginFigure[f])
    BY <1>3, <1>4, <2>2, <2>3, ReadsTyped
  <2>5. LoginSums(report', logs)
    BY <1>3, <2>1, <2>3, <2>4, LoginReads, LoginSelects
  <2>6. report'.left \in LoginLefts
    BY <2>2, <2>4 DEF Reads
  <2>7. QED
    BY <1>2, <1>3, <2>4, <2>5, <2>6 DEF StatsInv
<1>5. CASE ReadFigure(w, "sessions", SessionFigure)
  <2>1. /\ report.left \in SessionLefts /\ report.left # <<>>
        /\ SessionSums(report, sessions)
    BY <1>5 DEF ReadFigure, Reporting, StatsInv
  <2>2. f \in SessionNames /\ f \in Figures /\ Tail(report.left) \in SessionLefts
    BY <2>1, SessionLeft, FigureNames
  <2>3. SessionFigure[f] \in Nat
    BY <1>3, <2>2, SessionSelects
  <2>4. /\ report' \in Report /\ report'.what = "sessions"
        /\ Reads(report, report', SessionFigure[f])
    BY <1>3, <1>5, <2>2, <2>3, ReadsTyped
  <2>5. SessionSums(report', sessions)
    BY <1>3, <2>1, <2>3, <2>4, SessionReads, SessionSelects
  <2>6. report'.left \in SessionLefts
    BY <2>2, <2>4 DEF Reads
  <2>7. QED
    BY <1>2, <1>3, <2>4, <2>5, <2>6 DEF StatsInv
<1>6. QED
  BY <1>4, <1>5

LEMMA OthersStep ==
  ASSUME StatsInv, Meanwhile
  PROVE  StatsInv' /\ Next
<1> DEFINE gone == Cardinality(Moved(sessions, sessions'))
           back == Cardinality(Restated(sessions, sessions'))
           rows == Cardinality(LogRows(logs, Kinds))
           later == Cardinality(LogRows(logs', Kinds))
<1>1. Next
  BY DEF Meanwhile, Next
<1>2. RequestInv /\ RequestInv'
  BY <1>1, RequestStep DEF StatsInv
<1>3. /\ logs \in LogType /\ logs' \in LogType
      /\ IsFiniteSet(LogRows(logs, Kinds)) /\ IsFiniteSet(LogRows(logs', Kinds))
      /\ \A A \in SUBSET Kinds :
           Cardinality(LogRows(logs, A)) <= Cardinality(LogRows(logs', A))
  BY <1>1, <1>2, LogStep DEF StatsInv
<1>4. /\ sessions \in [Tokens -> S!Row] /\ sessions' \in [Tokens -> S!Row]
      /\ Lives(sessions, sessions')
  BY <1>1, <1>2, SessionRowsStep
<1>5. CASE report.left = <<>>
  <2>1. report' = NoReport
    BY <1>5 DEF Meanwhile, Reporting
  <2>2. report' \in Report /\ report'.what = "none"
    BY <2>1 DEF NoReport, Report, LoginLefts
  <2>3. QED
    BY <1>1, <1>2, <1>3, <2>2 DEF StatsInv
<1>6. CASE report.left # <<>>
  <2>1. report' = [report EXCEPT !.came = report.came + later - rows,
                                 !.moved = report.moved + gone,
                                 !.restated = report.restated + back]
    BY <1>6 DEF Meanwhile, Reporting, Moved, Restated, Logged
  <2>2. report \in Report
    BY DEF StatsInv
  <2>3. rows \in Nat /\ later \in Nat /\ rows <= later
    BY <1>3, LogPart
  <2>4. gone \in Nat /\ back \in Nat
    <3>1. /\ Moved(sessions, sessions') \subseteq Tokens
          /\ Restated(sessions, sessions') \subseteq Tokens
      BY DEF Moved, Restated
    <3>2. QED
      BY <3>1, TokensFinite
  <2>5. HIDE DEF rows, later, gone, back
  <2>6. /\ report.came + later - rows \in Nat /\ report.moved + gone \in Nat
        /\ report.restated + back \in Nat
    BY <2>2, <2>3, <2>4 DEF Report
  <2>7. /\ report' \in Report /\ report'.what = report.what
        /\ report'.left = report.left /\ report'.figure = report.figure
        /\ report'.start = report.start
        /\ report'.came = report.came + later - rows
        /\ report'.moved = report.moved + gone
        /\ report'.restated = report.restated + back
    BY <2>1, <2>2, <2>6 DEF Report
  <2>8. ASSUME report.what = "logins"
        PROVE  report'.left \in LoginLefts /\ LoginSums(report', logs')
    BY <1>3, <2>2, <2>7, <2>8, LoginMoves DEF StatsInv, later, rows
  <2>9. ASSUME report.what = "sessions"
        PROVE  report'.left \in SessionLefts /\ SessionSums(report', sessions')
    BY <1>4, <2>2, <2>7, <2>9, SessionMoves DEF StatsInv, gone, back
  <2>10. QED
    BY <1>1, <1>2, <1>3, <2>7, <2>8, <2>9 DEF StatsInv
<1>7. QED
  BY <1>5, <1>6

\* A report and its SELECTs change nothing but the report.
LEMMA StatsStep ==
  StatsInv /\ [StatsNext]_allVars => StatsInv' /\ ([Next]_vars \/ Elsewhere)
<1> SUFFICES ASSUME StatsInv, [StatsNext]_allVars
             PROVE  StatsInv' /\ ([Next]_vars \/ Elsewhere)
  OBVIOUS
<1>1. CASE UNCHANGED allVars
  <2>1. UNCHANGED vars /\ report' = report
    BY <1>1 DEF allVars
  <2>2. RequestInv'
    BY <2>1, RequestStep DEF StatsInv
  <2>3. QED
    BY <2>1, <2>2 DEF StatsInv, vars
<1>2. ASSUME NEW w \in Workers, Ask(w, "logins") \/ Ask(w, "sessions")
      PROVE  StatsInv' /\ Elsewhere
  BY <1>2, AskStep DEF Ask, Elsewhere
<1>3. ASSUME NEW w \in Workers, \/ ReadFigure(w, "logins", LoginFigure)
                                \/ ReadFigure(w, "sessions", SessionFigure)
      PROVE  StatsInv' /\ Elsewhere
  BY <1>3, ReadStep DEF ReadFigure, Elsewhere
<1>4. CASE Meanwhile
  BY <1>4, OthersStep
<1>5. QED
  BY <1>1, <1>2, <1>3, <1>4 DEF StatsNext

LEMMA StatsInvariant == StatsSpec => []StatsInv
BY StatsStart, StatsStep, PTL DEF StatsSpec

\* GET /login-logs/stats: the figures of a login report, each from a SELECT of
\* its own, account for every row of the log but those that came meanwhile, for
\* any number of workers and users.
THEOREM LoginReportAddsUp == StatsSpec => []LoginFiguresAddUp
<1>1. StatsInv => LoginFiguresAddUp
  <2> SUFFICES ASSUME StatsInv, Reported("logins") PROVE LoginFiguresAddUp
    BY DEF LoginFiguresAddUp
  <2>1. /\ LoginSums(report, logs) /\ Len(report.left) = 0
        /\ report.figure \in [Figures -> Nat] /\ report.start \in Nat
        /\ report.came \in Nat
    BY DEF StatsInv, Report, Reported, Reporting
  <2>2. /\ report.figure.total \in Nat /\ report.figure.successful \in Nat
        /\ report.figure.reasons \in Nat /\ report.figure.users \in Nat
    BY <2>1, FiguresRead
  <2>3. LET f == report.figure
            sum == f.successful + f.reasons + report.start
        IN /\ f.total <= sum + report.came /\ sum <= f.total + report.came
           /\ f.users <= f.successful + report.came
    BY <2>1 DEF LoginFit, LoginSums, Done
  <2>4. report.figure.successful <= report.figure.total + report.came
    BY <2>1, <2>2, <2>3
  <2>5. QED
    BY <2>1, <2>2, <2>3, <2>4 DEF LoginFiguresAddUp
<1>2. QED
  BY <1>1, StatsInvariant, PTL

\* GET /sessions/stats: a session report counts every session that existed when
\* it was asked for, but for a revocation that a stale expiry overwrote, and
\* counts one twice only when it changed meanwhile, for any number of workers,
\* users and tokens.
THEOREM SessionReportAddsUp == StatsSpec => []SessionFiguresAddUp
<1>1. StatsInv => SessionFiguresAddUp
  <2> SUFFICES ASSUME StatsInv, Reported("sessions") PROVE SessionFiguresAddUp
    BY DEF SessionFiguresAddUp
  <2>1. SessionSums(report, sessions) /\ Len(report.left) = 0
    BY DEF StatsInv, Reported, Reporting
  <2>2. /\ Done(report.left, 1) /\ Done(report.left, 2) /\ Done(report.left, 3)
        /\ Done(report.left, 4) /\ Done(report.left, 5)
    BY <2>1 DEF Done
  <2>3. QED
    BY <2>1, <2>2 DEF SessionFit, SessionSums, SessionFiguresAddUp
<1>2. QED
  BY <1>1, StatsInvariant, PTL

\* A server that makes reports still uses the session service only as it may
\* be used.
THEOREM ReportsUseSessionService == StatsSpec => SessionsSpec
<1>1. StatsInit => S!Init
  BY DEF StatsInit, Init
<1>2. StatsInv /\ [StatsNext]_allVars => [S!Next]_(S!vars)
  BY StatsStep, SessionStep DEF StatsInv, Elsewhere, sessionVars, S!vars
<1>3. QED
  BY <1>1, <1>2, StatsInvariant, PTL DEF StatsSpec, SessionsSpec, S!Spec
===============================================================================
