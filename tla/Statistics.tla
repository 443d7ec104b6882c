------------------------------ MODULE Statistics ------------------------------
(***************************************************************************)
(* The two reports GET /login-logs/stats and GET /sessions/stats, made by  *)
(* one server process while the others of Authentication serve logins,     *)
(* logouts and clean-ups.                                                  *)
(*                                                                         *)
(* A report runs one SELECT per figure, and each sees what was committed   *)
(* by then.  The period of the login report is longer than the clock of    *)
(* an instance runs.  The figures about IP addresses are left out.         *)
(***************************************************************************)
EXTENDS Authentication

VARIABLE report     \* the report being made, or answered by the last step

allVars == <<vars, report>>

\* The figures in the order of their SELECTs.
Order == [logins   |-> <<"total", "successful", "failed", "users", "reasons">>,
          sessions |-> <<"active", "expired", "revoked", "owners", "verified">>]
Figures == UNION {{Order[what][i] : i \in 1..5} : what \in DOMAIN Order}

\* History: start is the number of LOGOUT rows or of sessions when the request
\* came in; since then came rows were logged and moved sessions got another
\* status, restated of them from REVOKED to EXPIRED.
NoReport == [what |-> "none", servers |-> {}, left |-> <<>>,
             figure |-> [f \in Figures |-> 0],
             start |-> 0, came |-> 0, moved |-> 0, restated |-> 0]
Reporting == report.left # <<>>
Reported(what) == report.what = what /\ ~Reporting

\* The rows of a log: the n-th of a kind that names a user, or nobody.
RowsOf(log, u, k) == {<<u, k, n>> : n \in 1..log[u][k]}
LogRows(log, kinds) == UNION {RowsOf(log, u, k) : u \in DOMAIN log, k \in kinds}
Logged(kinds) == Cardinality(LogRows(logs, kinds))
Having(status) == {t \in Tokens : sessions[t].status = status}
Existing == Tokens \ Having("NONE")

\* Faulty variants: LOGOUT rows pass the filter of successful logins, the
\* reasons are counted for failed logins only; EXPIRED twice, REVOKED never.
LoginFigureAnyType ==
  [total |-> Logged(Kinds), successful |-> Logged(Successes), failed |-> 0,
   users |-> 0, reasons |-> Logged(Kinds \ Successes)]
SessionFigureTwice ==
  [active |-> Cardinality(Having("ACTIVE")), expired |-> Cardinality(Having("EXPIRED")),
   revoked |-> Cardinality(Having("EXPIRED")), owners |-> 0, verified |-> 0]

\* What each SELECT of get_login_stats would return now.  No kind of row that
\* is not a success has the attempt_type LOGIN.
LoginFigure ==
  [total      |-> Logged(Kinds),
   successful |-> Logged({k \in Successes : AttemptType[k] = "LOGIN"}),
   failed     |-> Logged({k \in Kinds \ Successes : AttemptType[k] = "LOGIN"}),
   users      |-> Cardinality({u \in Users : logs[u].login > 0}),
   reasons    |-> Logged(Kinds \ Successes)]

\* What each SELECT of get_session_stats would return now.
SessionFigure ==
  [active   |-> Cardinality(Having("ACTIVE")),
   expired  |-> Cardinality(Having("EXPIRED")),
   revoked  |-> Cardinality(Having("REVOKED")),
   owners   |-> Cardinality({sessions[t].user : t \in Having("ACTIVE")}),
   verified |-> Cardinality({t \in Having("ACTIVE") : sessions[t].mfa})]

StatsInit == Init /\ report = NoReport

\* The request comes in.
Ask(w, what) ==
  /\ ~Reporting
  /\ At(w, "idle")
  /\ report' = [NoReport EXCEPT
                  !.what = what, !.servers = {w}, !.left = Order[what],
                  !.start = IF what = "logins" THEN Logged({"logout"})
                                               ELSE Cardinality(Existing)]
  /\ reply' = Silence
  /\ UNCHANGED <<sessionVars, users, logs, streak, req, crashes>>

\* The next SELECT; after the last one the report is answered.
ReadFigure(w, what, figure) ==
  LET f == Head(report.left)
  IN /\ Reporting
     /\ w \in report.servers
     /\ report.what = what
     /\ report' = [report EXCEPT !.left = Tail(report.left),
                                 !.figure = [@ EXCEPT ![f] = figure[f]]]
     /\ reply' = Silence
     /\ UNCHANGED <<sessionVars, users, logs, streak, req, crashes>>

\* A step of the other processes, seen from the report.
Meanwhile ==
  /\ \/ Tick
     \/ \E w \in Workers :
          /\ ~(Reporting /\ w \in report.servers)
          /\ Receive(w) \/ Serve(w) \/ Crash(w)
  /\ report' =
       IF ~Reporting THEN NoReport
       ELSE LET moved == {t \in Tokens : sessions[t].status # sessions'[t].status}
            IN [report EXCEPT
                  !.came = @ + Logged(Kinds)' - Logged(Kinds),
                  !.moved = @ + Cardinality(moved),
                  !.restated = @ + Cardinality({t \in moved :
                                     /\ sessions[t].status = "REVOKED"
                                     /\ sessions'[t].status = "EXPIRED"})]

StatsNext ==
  \/ \E w \in Workers :
       \/ Ask(w, "logins") \/ ReadFigure(w, "logins", LoginFigure)
       \/ Ask(w, "sessions") \/ ReadFigure(w, "sessions", SessionFigure)
  \/ Meanwhile

StatsSpec == StatsInit /\ [][StatsNext]_allVars
-------------------------------------------------------------------------------
\* The login report accounts for every row: what is neither a successful login
\* nor listed under a failure reason is a logout.  Rows logged between its
\* SELECTs are the only reason for a difference, so with one server process the
\* figures agree and the success rate is at most 100 percent; every user counted
\* has a login counted.  The failures are those of failure_reasons: the figure
\* of failed logins stays 0, and nothing here depends on what it counts.
LoginFiguresAddUp ==
  Reported("logins") =>
    LET f == report.figure
        sum == f.successful + f.reasons + report.start
    IN /\ f.total <= sum + report.came
       /\ sum <= f.total + report.came
       /\ f.successful <= f.total + report.came
       /\ f.users <= f.successful + report.came

\* The session report counts every session that existed when it was asked for,
\* unless a stale expiry overwrote a revocation meanwhile; it counts one twice, or
\* a user or a second factor of one it did not count, only when that session
\* changed between the SELECTs.
SessionFiguresAddUp ==
  Reported("sessions") =>
    LET f == report.figure
        sum == f.active + f.expired + f.revoked
    IN /\ report.start <= sum + report.restated
       /\ sum <= report.start + report.moved
       /\ f.owners <= f.active + report.moved
       /\ f.verified <= f.active + report.moved
===============================================================================
