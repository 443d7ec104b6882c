-------------------------------- MODULE Seeding -------------------------------
(***************************************************************************)
(* The three phases of seed_data.py, run by one of the processes of        *)
(* AccessControl while the others serve: the permissions of the            *)
(* catalogue, its roles, and the grants.  Each phase looks for its rows    *)
(* one SELECT at a time and writes what it missed in one transaction.      *)
(*                                                                         *)
(* At this commit seed_idam_data raises before the first phase: it calls   *)
(* get_db without the request that get_db asks for.  The module models     *)
(* the phases as they run with a session of get_mgmt_db.                   *)
(***************************************************************************)
EXTENDS AccessControl

CONSTANTS
  PermissionCodes, RoleCodes,   \* the catalogue
  BarredCodes     \* codes whose row has an action or a role type that the CHECK
                  \* constraints of the SQL schema do not know

ASSUME CatalogueAssumption ==
  /\ PermissionCodes \cup RoleCodes \cup BarredCodes \subseteq Codes
  /\ Null \notin Workers

VARIABLE seed     \* host: the process that runs the script; phase: what it is
                  \* at; left: codes to look for; missing: codes without a
                  \* row, whose rows are pending

seedVars == <<vars, seed>>

Catalogue == [permissions |-> PermissionCodes, roles |-> RoleCodes]
Family == [permissions |-> Permissions, roles |-> Roles]
Seed == [host : Workers \cup {Null}, phase : {"idle", "permissions", "roles", "grants"},
         left : SUBSET Codes, missing : SUBSET Codes]
NoSeed == [host |-> Null, phase |-> "idle", left |-> {}, missing |-> {}]
Phase(w, f) == [host |-> w, phase |-> f, left |-> Catalogue[f], missing |-> {}]
Grants(w) == [host |-> w, phase |-> "grants", left |-> {}, missing |-> {}]
NextPhase == IF seed.phase = "permissions" THEN Phase(seed.host, "roles")
                                           ELSE Grants(seed.host)

SeedInit == Init /\ seed = NoSeed

StartSeeding(w) ==
  /\ seed.phase = "idle" /\ At(w, "idle")
  /\ seed' = Phase(w, "permissions")
  /\ UNCHANGED vars

\* A row for each code, under ids nobody uses.
Insertions(f, codes) ==
  {ids \in [codes -> Unused(Family[f])] :
     \A c, d \in codes : ids[c] = ids[d] => c = d}
SeededRow(ids, x) ==
  IF \E c \in DOMAIN ids : ids[c] = x
  THEN [life |-> "LIVE", code |-> CHOOSE c \in DOMAIN ids : ids[c] = x]
  ELSE things[x]
Inserted(ids) == [x \in Things |-> SeededRow(ids, x)]

\* Faulty variant of LookFor: the rows are committed one by one, as they are
\* missed.
LookForCommitted(c) ==
  LET f == seed.phase
  IN /\ f \in DOMAIN Family /\ c \in seed.left
     /\ seed' = [seed EXCEPT !.left = seed.left \ {c}]
     /\ \/ CodeTaken(Family[f], c) /\ things' = things
        \/ /\ ~CodeTaken(Family[f], c)
           /\ \E ids \in Insertions(f, {c}) : things' = Inserted(ids)
     /\ UNCHANGED <<links, txn, reply>>

LookFor(c) ==
  LET f == seed.phase
  IN /\ f \in DOMAIN Family /\ c \in seed.left
     /\ seed' = [seed EXCEPT !.left = seed.left \ {c},
                   !.missing = IF CodeTaken(Family[f], c) THEN seed.missing
                               ELSE seed.missing \cup {c}]
     /\ UNCHANGED vars

\* The flush of all pending rows and the commit.  One code that was taken
\* meanwhile, or one row that a CHECK refuses, ends the script.
CommitPhase ==
  LET f == seed.phase
      refused == \/ SqlSchema /\ seed.missing \cap BarredCodes # {}
                 \/ \E c \in seed.missing : CodeTaken(Family[f], c)
  IN /\ f \in DOMAIN Family /\ seed.left = {}
     /\ \/ refused /\ seed' = NoSeed /\ UNCHANGED things
        \/ /\ ~refused
           /\ \E ids \in Insertions(f, seed.missing) : things' = Inserted(ids)
           /\ seed' = NextPhase
     /\ UNCHANGED <<links, txn, reply>>

\* Either every pair it looks for is granted, or the flush raises: granted_by of
\* a new grant is the word "system" and the column is a UUID.
AssignPermissions ==
  /\ seed.phase = "grants"
  /\ seed' = NoSeed
  /\ UNCHANGED vars

\* The script dies, or a database call fails: the phase is rolled back.
SeedCrash ==
  /\ seed.phase # "idle"
  /\ seed' = NoSeed
  /\ UNCHANGED vars

SeedStep ==
  \/ \E w \in Workers : StartSeeding(w)
  \/ CommitPhase \/ AssignPermissions \/ SeedCrash
  \/ \E c \in Codes : LookFor(c)

\* A step of the other processes.
Meanwhile ==
  /\ \/ \E x \in Users : EnrolUser(x)
     \/ \E w \in Workers \ {seed.host} : Receive(w) \/ Serve(w) \/ Crash(w)
  /\ UNCHANGED seed

SeedNext == SeedStep \/ Meanwhile
SeedSpec == SeedInit /\ [][SeedNext]_seedVars
-------------------------------------------------------------------------------
\* The script's own state has its type (used by the proofs).
SeedTypeOK == seed \in Seed

\* A phase of the script appears whole or not at all: when it adds rows, every
\* code of its catalogue has one in that moment, except a code whose row the
\* script had found and somebody deleted since.
SeededWhole ==
  [][seed' # seed /\ things' # things
     => \A c \in Catalogue[seed.phase] :
          c \in seed.left \cup seed.missing =>
            \E x \in Family[seed.phase] :
              things'[x] = [life |-> "LIVE", code |-> c]]_seedVars
===============================================================================
