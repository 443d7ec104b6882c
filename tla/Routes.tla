-------------------------------- MODULE Routes --------------------------------
(***************************************************************************)
(* What the client of a REST route is told: the status code, and success   *)
(* of the envelope.  One operator per handler of the routers of users,     *)
(* tenants, roles, permissions, their mappings and API keys; its argument  *)
(* is what the service below it returned or raised:                        *)
(*   "ok"       the row, or TRUE                                           *)
(*   "missing"  None, FALSE or an empty list                               *)
(*   "refused"  ValueError of a check, before anything is written          *)
(*   "error"    any other exception; the transaction is rolled back        *)
(***************************************************************************)
EXTENDS Naturals

Outcomes == {"ok", "missing", "refused", "error"}

Envelope(code, success) == [code |-> code, success |-> success]
Raised(code) == Envelope(code, FALSE)

\* The handler catches everything and keeps the status of the route.
Caught(code, outcome) == Envelope(code, outcome = "ok")

\* The handler catches nothing; a row that is missing is an envelope.
Uncaught(code, outcome) ==
  IF outcome \in {"ok", "missing"} THEN Caught(code, outcome) ELSE Raised(500)

\* A row that is missing is 404; every exception is 500, a refusal too.
Mapped(code, outcome) ==
  CASE outcome = "ok" -> Envelope(code, TRUE)
    [] outcome = "missing" -> Raised(404)
    [] OTHER -> Raised(500)

\* The response model asks for text where the row has a UUID or a timestamp: the
\* answer is made and then refused, after the service committed.
Unserialised(response, outcome) ==
  IF outcome = "ok" THEN Raised(500) ELSE response

\* /users
ReadUsers(outcome) == Caught(200, outcome)
ReadUser(outcome) == Unserialised(Caught(200, outcome), outcome)
CreateUser(outcome) == Unserialised(Caught(201, outcome), outcome)
UpdateUser(outcome) == Unserialised(Caught(200, outcome), outcome)
DeleteUser(outcome) == Caught(200, outcome)

\* /tenants
ReadTenants(outcome) == Caught(200, outcome)
ReadTenant(outcome) == Uncaught(200, outcome)
CreateTenant(outcome) == Caught(201, outcome)
UpdateTenant(outcome) == Uncaught(200, outcome)
DeleteTenant(outcome) == Uncaught(200, outcome)
SwitchTenant(outcome) == Uncaught(200, outcome)

\* /roles and /permissions
ReadThings(outcome) == Mapped(200, outcome)
ReadThing(outcome) == Mapped(200, outcome)
CreateThing(outcome) == Mapped(201, outcome)
UpdateThing(outcome) == Mapped(200, outcome)
DeleteThing(outcome) == Mapped(204, outcome)

\* /role-permissions and /user-roles
ReadLinks(outcome) ==
  IF outcome = "missing" THEN Envelope(200, TRUE) ELSE Raised(500)
Assign(outcome) ==
  IF outcome = "refused" THEN Raised(400)
  ELSE Unserialised(Mapped(201, outcome), outcome)
Unassign(outcome) == Mapped(204, outcome)

\* /api-keys
ReadKeys(outcome) ==
  IF outcome = "missing" THEN Envelope(200, TRUE) ELSE Mapped(200, outcome)
CreateKey(outcome) == Mapped(201, outcome)
ChangeKey(outcome) == Mapped(200, outcome)
DeleteKey(outcome) == Mapped(204, outcome)

\* /signup
Signup(outcome) ==
  CASE outcome = "ok" -> Envelope(201, TRUE)
    [] outcome = "refused" -> Raised(409)
    [] OTHER -> Raised(500)
===============================================================================
