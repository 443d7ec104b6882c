# CXG platform: a verification development of the API server

The repository holds a multi-tenant business platform. Everything that runs at
this commit is `apps/api-server`: a FastAPI application over SQLAlchemy and
PostgreSQL. The frontends, the AI parts and the shared packages are empty
directories. The modules here model how the API server changes its database:
each handler is a chain of SELECTs, flushes and commits on rows that other
requests read and write too, and a process that dies in the middle of the chain
leaves behind what it had committed.

All source paths below are relative to `src/apps/api-server/src/` unless they
start with `packages/` or another top-level name of the repository.

## 1. The system

### Processes and transactions

* The container starts one uvicorn process; `docker-compose.prod.yml` restarts
  it when it dies (`restart: unless-stopped`). Routes are declared `async` but
  their bodies block, so one process serves one request at a time, in the order
  of arrival. Scaling the service gives several processes over the same
  database. `Workers` is the set of processes: one element is the service as
  deployed, two the service scaled.
* `core/database.py` makes a SQLAlchemy session per request with
  `autoflush=False`. A handler reads rows, assigns attributes and commits; the
  UPDATE names only the columns whose value changed, finds the row by its
  primary key and runs at READ COMMITTED. The modules therefore give every
  operation a reading step and a committing step, and the committing step writes
  its columns over whatever the row holds by then.
* After a commit the handler reads its row again (`db.refresh`) before it
  answers. That is a transaction of its own: a row that was deleted in between
  makes it raise, after the change was committed.
* What a handler has not committed is rolled back when it fails or dies.

### Components

| Component | State | Operations | Hard behaviour | Module |
|---|---|---|---|---|
| Session service (`services/mgmt/session_service.py`, `modules/mgmt/idam/session`) | rows of `idam.sessions`: status, owner, deadline, MFA flag | create, validate (expires on sight), revoke one / by user / by list, clean up, extend, verify MFA | stale reads committed later; a bulk revocation that waits with its rows; ids repeated in a list; time comparisons | `Sessions` |
| Login and logout (`modules/mgmt/auth/authentication`, `services/mgmt/login_log_service.py`) | login columns of `idam.users`, rows of `idam.login_logs`, the request being served | login in all its outcomes, logout, the two administrative session routes | a chain of short transactions cut by crashes; lock as a deadline nobody watches; counter kept by read and later write | `Authentication` |
| Signup, users and tenants (`signup` in the same service, `modules/mgmt/idam/user`, `modules/mgmt/tnnt/tenant`) | `idam.users`, `tnnt.tenants`, `tnnt.tenant_users` | signup of an administrator or of a tenant's founder, create / update / delete / read users and tenants | check-then-insert against unique indexes; one transaction over three tables; deletion through the ORM against NOT NULL keys; an answer that fails after its commit | `Accounts`, `Routes` |
| Roles and permissions (`modules/mgmt/idam/role`, `permission`, `role_permission`, `user_role`) | `idam.roles`, `idam.permissions` and two mapping tables | create / update / delete / read roles and permissions, assign, unassign and list them | check-then-insert where no index helps (`UNIQUE` with a NULL column); deletion of what is in use | `AccessRights`, `AccessControl`, `Routes` |
| Seeding (`modules/mgmt/idam/seed_data.py`) | none of its own | three phases: permissions, roles, grants | looks for its codes one by one and inserts at the end of the phase, beside requests or another run; dies between phases | `Seeding` |
| Listings and statistics (`idam/login_log`, `idam/session`) | none of their own | two paged listings, two reports | pages cut by position from a table that changes; total, page and every figure from SELECTs of their own | `Listing`, `Statistics` |
| API keys (`modules/mgmt/idam/api_key`) | `idam.api_keys`, always empty | create raises `TypeError` (the model has no `name` column), so lists are empty and no key is found | none reachable | `AccessControl`, `Routes` |
| Wiring (`main.py`, `core/`), GraphQL mock, the other domains (`audt`, `auto`, `bill`, `bkup`, `cnfg`, `ifra`, `intg`, `mntr`, `noti`, `stat`, `supt`) | none / column declarations only | none | none | not modelled |

What makes each correct:

* Sessions end once and for good (`NoResurrection`), by expiry only after their
  deadline (`LifecycleSpec`), and what a revocation took stays ended
  (`RevokedAreEnded`).
* Login and logout: lock columns agree (`LockConsistent`), counter, log and locks
  account for each other (`CountMatchesLog`, `LockEarned`, `LockAudited`,
  `LoginsMatchSessions`), only an unlocked account is opened (`OpenedUnlocked`,
  `AccountSpec`), a logout ends the session (`LogoutEndsSession`, which the
  columns as declared break) or says that it did not (`LogoutAnswersTrue`), a
  lock ends (`LockReleased`), and the session service is used as it allows
  (`SessionsSpec`).
* Accounts: each request is one step or none (`DirectorySpec`), identities and
  codes are unique (`IdentitiesUnique`, `CodesUnique`), a tenant comes with its
  founder (`FoundedWhole`), tenant users are members (`TenantUsersEnrolled`),
  nothing outlives its user (`NothingLeftBehind`), a deletion is final
  (`DeletionIsFinal`), and the client is told the truth (`AccountsAsTold`).
* Access control: no mapping outlives its ends (`NoOrphans`), codes and grants
  are unique (`CodesUnique`, `GrantsUnique`), duplicate assignments are bounded
  by the processes (`AssignmentsBounded`), the client is told the truth
  (`RowsAsTold`), and a phase of the seeding script appears whole or not at all
  (`SeededWhole`) without breaking any of these. Without the mapping rows, all
  of it is one abstract machine of rows and links (`RightsSpec`).
* Listings and statistics: a client that walks through all pages misses no more
  rows than left the listing or came late (`MissedBounded`), and the figures of
  a report differ by no more than what happened while it was made
  (`LoginFiguresAddUp`, `SessionFiguresAddUp`).

Components meet in four ways: by calls inside one request (login calls the log
service and the session service, each of which commits on its own), by rows of
shared tables (sessions and users are written by login, by logout and by the
administrative routes; roles and permissions by requests and by the script), by
foreign keys (deleting a user or a role touches the rows that refer to it), and
by reads of what others write (the reports over the login log and the sessions).

At this commit some files that the code imports are absent
(`models/mgmt/tnnt/tenant.py`, files of `models/mgmt/idam`, the packages
`tenant_role` and `tenant_user`; `core/auth_deps.py` imports a module that does
not exist). The models take the imports as resolved to the declarations the code
uses.

## 2. Modules

### `SessionLifecycle`: what one session row promises

Status and deadline of each token: a token is opened once, extended while
ACTIVE, ended once, by expiry only after its deadline or by revocation, and stays
as it ended.

### `Sessions`: the session service

* `sessions[t]` is the row of token `t` (tokens are random and never reused; the
  row is found by the token's hash), `call[w]` the service call that worker `w`
  runs or ran last, `now` the clock.
* `CreateSession`, `ValidateSession`, `RevokeSession`, `RevokeUserSessions`,
  `CleanupExpired` and `RevokeSessions` begin a call (the SELECT and the early
  returns); `CommitExpire`, `CommitRevoke`, `CommitCleanup`, `CommitScan`,
  `CommitExtend` and `CommitVerify` are the commits. `extend_session` and
  `verify_mfa_for_session` are `ValidateSession` followed by their own commit.
  `revoke_sessions` reads one id after the other (`ScanNext`) and commits once.
  `Abort` is an error or the death of the process, `Forget` the caller dropping
  the result.
* `AwareColumns` says how a timestamp is loaded. The models declare
  `TIMESTAMP(timezone=True)`, psycopg2 then returns aware values, and comparing
  one with the naive `datetime.now()` raises: that is `TRUE`, the service as
  declared. `FALSE` is the behaviour the code is written for
  (`apps/api-server/migrations/migration_timezone_fix.sql` is about the same
  columns). Both are checked.

### `AccountLock`: what the failure columns of one account promise

Wrong passwords are counted; the count that reaches `MaxFailed` locks; further
wrong passwords move the deadline; only a login after the deadline, or on an
account that is not locked, resets.

### `Authentication`: login, logout and the administrative routes

* `req[w]` is the request of worker `w`; its `stage` names the next transaction.
  A wrong password is `LoginWrong` (read) - `LogWrong` (commit of the log row) -
  `ReloadUser` (the commit expired the loaded attributes) - `CountFailure` (the
  counter and, at the threshold, lock columns and LOCKED row in one commit). A
  right password is `LoginRight` - `LogRefused`, or `OpenAccount` (commit of the
  user row) - `StartSession` - `LogLogin`. Logout is `Logout` - `LogoutRevoke` -
  `LogLogout`, or `LogoutFails`.
* `Flush` is the UPDATE of a changed-columns flush over the current row.
* `S == INSTANCE Sessions` runs on the same workers, clock and table: the stages
  call its actions, `ServiceStep` lets it take its own steps, `Crash` may cut a
  request anywhere.
* `streak` (wrong passwords logged since the last login) and `crashes` are
  history variables.

### `Directory`: what signup, user and tenant management promise

Who exists and who belongs where, with each request as one step: `AddUser`,
`Found` (tenant, founder and membership together), `Join`, `Rename`, `Remove`
and the three changes of a tenant. Emails and usernames have one owner.

### `Accounts`: signup, users and tenants in detail

* `users`, `tenants`, `members` are the committed rows (the variables of
  `Directory`), `opened` the users with session rows, `txn[w]` the request of
  worker `w`: its stage, the fields the client sent, the rows it loaded.
* Signup is `SignupEmail` - `SignupUsername` - `InsertUser` for an
  administrator, and - `FindTenant` - `FlushUser` - `LinkTenantUser` for a
  tenant's user. Flushed rows live in `txn` until the commit: nobody sees them,
  but their keys are taken, and another INSERT of the same key waits (`Waits`)
  as it does on the unique index.
* Every other change is a check followed by its commit (`CreateUser` -
  `InsertUser`, `UpdateUser` - `RenameUser`, `DeleteUser` - `DetachSessions` -
  `RemoveUser`, `CreateTenant` - `CommitNewTenant`, ...). A change of a user names
  an email, a username, both or neither (`Null` is a field the client did not
  send); duplicates are looked for only when it names one. `RemoveUser` cascades;
  `DetachSessions` is the ORM setting `user_id` of the sessions it finds to
  NULL, which fails.
* Creating or changing a row ends with `Reload`, the `refresh` after the commit:
  it fails on a user deleted meanwhile, never on a tenant (tenants are only
  flagged). `ReadUser`, `ReadUsers`, `ReadTenant` and `ReadTenants` are the reads.
* `Crash` ends a request anywhere and rolls back what it had flushed.
* `SqlSchema` chooses between the tables of `packages/database` (`TRUE`) and
  those the ORM models declare (`FALSE`): they differ in the unique index on
  tenant codes, in the CHECK on user types and in whether a row of
  `tenant_users` can be inserted at all.

### `AccessRights`: who has what

Which roles, permissions and users are there, and how often each role is linked
to each permission and user: rows enter in one step (`Enter`: one row of a
client, all missing rows of a phase of the script), a deletion takes the row with
every link of it (`Remove`), a link joins two rows that are there (`Link`) and
goes alone (`Unlink`), a permission is granted once under the SQL schema.
`AccessControl!Rights` maps `held` to the numbers of mapping rows.

### `AccessControl`: roles, permissions, grants and assignments

* `things[x]` is the row of a role, a permission or a user, `links[i]` a row of
  `role_permissions` (its end is a permission) or of `user_roles` (a user).
* Assigning is `Assign` (both ends are loaded) - `CheckPair` (the pair is looked
  for) - `InsertLink` (foreign keys and index are asked again). `Assign` loads
  its two ends in one step: the INSERT asks for both anew, so reading them apart
  would only change which refusal is answered.
* Taking back is `Unassign` (the first row of the pair) - `RemoveLink`. Deleting
  is `DeleteThing` - `DetachLinks` (fails if a mapping row is found) -
  `RemoveThing` (cascades over rows linked meanwhile).
* `CreateRole` checks nothing. `CreatePermission` compares the code as the
  client wrote it with codes stored stripped and in upper case; `exact` says
  whether the client's spelling is the stored one.
* `UpdateThing` - `CommitUpdate` changes no modelled column (codes are not among
  the fields of an update); what is left is whether the row is still there.
* Creations, changes and assignments end with `Reload`, as in `Accounts`.
  `ReadThing`, `ReadThings` and `ReadLinks` are the reads, `CreateApiKey` and
  `FindApiKey` the routes of the keys that cannot exist.

### `Routes`: what the client is told

One operator per handler of the routers: status code and `success` of the
envelope, from what the service returned or raised ("ok", "missing", "refused",
"error"). `Told` of `Accounts` and `AccessControl` applies the operator of the
route to the outcome that the request ended with; `AccountsAsTold` and
`RowsAsTold` compare the answer with the tables. `Unserialised` is a response
model that asks for text where the row has a UUID or a timestamp: the answer is
made, then refused, and the client reads 500 after the service committed.

### `Seeding`: the script beside the server

`Seeding` extends `AccessControl` by a script that one of the processes (`host`)
runs in place of requests. A phase looks for its codes one SELECT at a time
(`LookFor`) and commits the missing ones together (`CommitPhase`), which ends the
script when a code was taken meanwhile or a CHECK refuses a row
(`BarredCodes`). `AssignPermissions` never writes: it either finds every pair or
raises, because `granted_by` of a new grant is the word "system" and the column
a UUID. `SeedCrash` cuts the script anywhere, `Meanwhile` is a step of the other
processes, and the script may run again and again. At this commit
`seed_idam_data` raises before its first phase (it calls `get_db` without the
request that `get_db` asks for); the phases are modelled as they run with a
session of `get_mgmt_db`.

### `Listing`: paged listings and a client that walks through them

A request runs two SELECTs: `AskFirst` and `AskNext` count the rows, `ReadPage`
cuts the page out of the ordered table by position. Between the pages and
between the two SELECTs other processes add rows (`Insert`; the timestamp was
taken before the commit, so a new row need not be the newest), take them out
(`Depart`: a session that no longer passes the filter) and move them to the
front (`Touch`: `last_activity_at`). `Mutable` tells the sessions from the login
log, which is only added to. What the client missed is told by history fields of
the walk. No two rows carry the same timestamp (`Fresh`): that is an assumption
of the model and not a promise of the code. The ORDER BY has no second column, so
two rows stamped in the same microsecond by two processes may change places
between two pages, and nothing is claimed of such rows.

### `Statistics`: the two reports

`Statistics` extends `Authentication`: `Ask` receives the request for a report,
`ReadFigure` is one SELECT, `Meanwhile` a step of the other processes, whose log
rows and changes of sessions the report's history fields count. `LoginFigure`
and `SessionFigure` are the WHERE clauses; `LogRows` names the rows of the log by
user, kind and number, so that a figure is the size of a set.

`MCSessions`, `MCAuthentication`, `MCAccounts`, `MCAccessControl`, `MCListing`
and `MCStatistics` hold what only the checker needs; `SessionsProofs`,
`AuthenticationProofs`, `LoginProofs`, `AccountsProofs`, `AccessControlProofs`,
`ListingProofs` and `StatisticsProofs` hold the theorems.

## 3. Checks

| Run | Question |
|---|---|
| `sessions_one` | One process, two users, two tokens: does every operation keep to `SessionLifecycle`? |
| `sessions_many` | Two processes with stale reads: can an ended session come back, or a revoked one survive the answer? |
| `sessions_count` | Is `revoked_count` the number of sessions revoked? No: a repeated id counts twice. |
| `auth_one` | One process with a crash and under fairness, timestamps compared as meant: do lock columns, counter and log agree; do logins open unlocked accounts only; is the session of a token gone once its logout is answered; does the account implement `AccountLock`; does the owner of a locked account get in again? |
| `auth_deployed` | Columns as declared, two processes that serve one user, a crash: do sessions, LOGIN rows and LOCKED rows account for each other; can processes that count failures at once count one that nobody logged; is anyone told of a logout that did not happen? |
| `auth_logout_deployed` | Columns as declared: is a session ended once its logout is answered, as the route documents? No: the comparison raises, the client reads 500 and the session stays ACTIVE. |
| `auth_unlock_deployed` | Columns as declared, under fairness: does the owner of a locked account get in again? No: the comparison raises on every attempt. |
| `accounts_many` | Two processes, two users, two tenants, ORM tables: does every request of signup, user and tenant management take effect in one step or not at all, with unique identities and whole memberships, and is it answered truthfully? |
| `accounts_sql` | Two processes under the SQL schema, two tenants, two codes: does a code ever pass to a second tenant, can a stale change bring a deleted tenant back; under fairness, does a request that waits for a key another has flushed end? |
| `access_many` | Two processes, one of which may run the seeding script: references whole after deletions, codes and grants unique, duplicate assignments bounded, phases whole, answers true; do services and script implement `AccessRights`? |
| `listing_walk` | Four rows, pages of two: how many rows can a walk through the pages miss? |
| `statistics_report` | Two processes, one making a report: do the figures add up, up to what happened meanwhile; do requests use the session service as `Sessions` allows? |

**Bounds.**

* Time: `MaxTime` stops the clock; 2 to 5 ticks are enough to open, let expire,
  extend and expire again with lives of one or two ticks. `MaxIds` is the length
  of the id list (2 makes a repeated id possible).
* Login: `MaxFailed = 2` gives a failure below the threshold, the one that locks,
  and further ones while locked. `MaxWrong` and `MaxRefused` bound the log rows
  and so the failures; `MaxCrashes` the crashes. `auth_deployed` has one user,
  since the columns and the log of a user are written only by requests about that
  user, and `MaxWrong = 3`: two processes count at once and a third failure follows
  (1,496,277 states). Its sessions are overdue one tick after they are opened
  (`SessionTicks = 0`) and its two tokens let one login open a session while
  another one is being logged out. `LoginsMatch` is the same claim for any number
  of users and processes.
* Two processes are what any race here needs: each operation reads once and
  commits once.
* `Accounts`: two users, emails and names let every pair of identities collide;
  rows are never reused after a deletion, so two users are a whole life and its
  neighbour, and two tenants let one be founded while the other is deleted
  (508,398 distinct states for `accounts_many`). `accounts_sql` has one user, one
  email and one name, so that every two signups want the same keys, and two codes
  (96,267 states); when its only user is deleted no id is left for another, which
  `RequestsEnd` excepts.
* `AccessControl`: three mapping rows are one more than two processes may legally
  insert for one pair, so a broken bound shows; the catalogue has two
  permissions, one of which the CHECK bars, and one role (190,416 states).
* `Listing`: four rows and pages of two are two full pages, so that a row can
  slip from the second to the first while the client is between them. `MaxStamp`
  is five: every row can be inserted and one touched afterwards.
* `Statistics`: one user, one token, no crash, a lock at the first failure: each
  kind of log row and each status of a session can appear between any two
  SELECTs.

`access_many` and `accounts_many` use a VIEW that leaves out the
last answer, which no action reads; the properties about answers are action
properties, which are checked on every transition. SYMMETRY is used where ids
and processes are only compared, never with liveness.

**Deadlock** is checked in every run: a worker can always forget its last
answer or take another request.

**Fairness** (`Authentication!Fairness`). Weak fairness of the clock; weak
fairness of `Serve(w)`, since a process carries a request it has read through
to its answer; strong fairness of a login with the right password, since the
owner of an account tries again and a process that is busy when one attempt
arrives serves it later. Nothing is assumed about the clean-up: no scheduler
calls it at this commit. `Accounts!Fairness` is strong fairness of `Serve(w)`: an
INSERT that waits for a flushed key is enabled again and again as the holders
commit or roll back, and PostgreSQL wakes it when its holder ends.

### Disagreements found

Runs of their own:

* `revoked_count` (run `sessions_count`): the pending status is not flushed
  before the next SELECT, so a repeated id counts again.
* Locked accounts (run `auth_unlock_deployed`): with `locked_until` loaded as
  declared, `locked_until > datetime.now()` raises, the login is answered 500
  and the lock is never lifted.
* Logout (run `auth_logout_deployed`): with `expires_at` loaded as declared,
  `validate_session` raises at `services/mgmt/session_service.py:137` before the
  session is revoked. The route says that it logs the user out by invalidating
  the session token (`auth/authentication/router.py:124`); the client is answered
  500 and the session stays ACTIVE. With the columns loaded as the code means them
  the same definition holds (`auth_one`, where `LogoutAnswersTrue` comes down to
  it).

Met on the way, part of the modelled behaviour and not runs of their own:

* Sessions and login: the same comparison in `validate_session` makes extension
  and MFA verification answer 500 without touching the row. An invalid
  token at logout is answered 500, not the documented 401, because the 401 is
  raised inside the `try` whose `except Exception` replaces it
  (`auth/authentication/router.py:143,147`). The lock lasts 30 minutes while
  `core/config.py:8` names 15.
* Statistics: failures are counted among rows with `attempt_type` LOGIN, which
  failures never have (`idam/login_log/service.py:207`): the figure, which line 202 calls
  the failed logins, is always 0. `LoginFiguresAddUp` leaves it out: the reasons of
  the failures already account for every one of them, and the property says the
  same whether the figure is 0 or right.
* Answers: the user routes document 404 and 409 but answer envelopes with status
  200 and 201; the tenant routes document them but answer envelopes or 500.
  Reading, creating and changing a user, and every assignment, are answered 500
  although the service succeeded (`Unserialised` in `Routes`).
* Accounts: under the SQL schema every TENANT signup is rolled back
  (`tnnt.tenant_users` has no column `deleted`, and its CHECK refuses a primary
  user who is no administrator) and `create_user` fails on `ck_users__user_type`
  with the default type USER. A user who ever logged in cannot be deleted.
  `suspend_tenant` and `activate_tenant` raise ImportError.
  `db.query(*conditions).exists()` (`idam/user/service.py:243`) renders an EXISTS
  without a condition, so `update_user` refuses every change that names an email
  or a username as soon as another user exists, where the route documents a
  refusal of duplicates (`idam/user/router.py:308`). Two founders at the
  same time may found two tenants of one name, which no index prevents (with one
  server process they cannot: `FoundersNamesNew`), and a
  deleted tenant still takes new members
  (`auth/authentication/service.py:145` looks for the name only).
* Access control: an unassignment after a double assignment leaves the role in
  place; the protection of system permissions that `permission/service.py:12,17`
  names is not in the code.
* Seeding: the script raises before it writes; run with a session of its own it
  would end at the VIEW permissions and CUSTOM roles, which the CHECKs of the SQL
  schema do not know, and at its first grant. What `README_SEED.md:119` promises,
  no duplicates however often it runs, is proved of its phases
  (`SeedingKeeps`).

## 4. Proofs

All for every value of the constants within the named assumptions (the sets are
arbitrary, `Tokens` and `Rows` finite because they are counted).

`SessionsProofs`

* `TypeCorrect`: `Spec => []TypeOK`.
* `EndedForGood`: `Spec => NoResurrection`, any number of workers. It follows
  from `StepTyped` and one lemma per writing action: no commit assigns ACTIVE
  except `CreateSession`, and that one only to a token without a row.
* `RevocationHolds`: `Spec => []RevokedAreEnded`, any number of workers. The
  invariant is not inductive alone: the rows of a call that has answered must
  stay ended under the writes of the *other* calls, so the proof carries that
  every picked row has been opened and combines it with `EndedForGood`'s step
  (`OthersKeepTaken`, `RevokedStep`).
* `OneWorkerLifecycle`: with `SingleWorker`, the service implements
  `SessionLifecycle`. The strengthening (`HeldInv`) says that the rows held by
  the only worker are still as it read them: ACTIVE, and overdue when it is
  about to write EXPIRED.

`AuthenticationProofs`

* `TypeCorrect`; `UsesSessionService` (every step of the server is a step or a
  stutter of the session service, any number of workers and crashes), from which
  `EndedForGood` is inherited.
* `LockColumnsAgree`: with `SingleWorker`, `[]LockConsistent`. Inductive part:
  while a request is between reading and writing, the row it loaded is still the
  row of the table (`Fresh`), so a changed-columns flush cannot mix two versions.
* `ImplementsAccountLock`: with `SingleWorker`, the refinement of `AccountLock`,
  on top of the same invariant.

`LoginProofs`, on top of `AuthenticationProofs`

* `LocksAudited`: `Spec => LockAudited`, any number of workers: whatever versions
  of a row the flushes mix, only `CountFailure` writes a deadline, and it adds
  the LOCKED row in the same commit.
* `LoginsMatch`: `Spec => []LoginsMatchSessions`, any finite number of workers.
  Sessions, LOGIN rows and the requests between `StartSession` and `LogLogin`
  move together; the strengthening (`Unowned`) says that a token without a row
  belongs to nobody, so that a new session adds one to one user.
* `OpensUnlocked`: with `SingleWorker`, an account about to get its session is
  as the commit of `OpenAccount` left it.
* `CountFollowsLog`: with `SingleWorker`, `[]CountMatchesLog`. The strengthening
  bounds the counter, together with the failures logged and not yet counted, by
  the failures in the log since the last login.
* `LocksEarned`: `IsFiniteSet(Workers) => (Spec => []LockEarned)`, either kind of
  column. Processes may lose an increment, so the counter cannot be followed
  exactly; what bounds it is the log. The strengthening (`Held`) says that the
  count a process has read, together with the failures being counted at that
  moment, is at most the number of failures logged.
* `LogoutEnds`: with `SingleWorker`, `Spec => []LogoutAnswersTrue`, either kind of
  column: a session that goes on after its logout was answered means that the
  timestamps are loaded as declared and that the answer was 500. `Ending` says at
  each stage of a logout that it is about its own token and what the session
  service holds for it. With a second process a token that the logout found to have
  no session can get one before the answer.
* `LogoutTold`: `Spec => []ToldEnded`, any number of workers and either kind of
  column: after a logout answered with 200 the session is not ACTIVE. A logout
  that goes on to its log row has ended its session (`Revoking`), and no
  process brings a session back.

`AccountsProofs` (any number of workers, both schemas, `NullAssumption` only)

* `ImplementsDirectory`: `Spec => DirectorySpec`. A commit step can only be one
  atomic step of `Directory` if what the request learned in earlier
  transactions still holds when it commits. The inductive invariant states
  exactly that, per stage (`Holds`): a loaded row still exists or is known to be
  gone, the keys of a flushed user have no owner, a founder's tenant has no row
  yet, and what a request wrote it still names when it answers; and that two open
  requests never hold the same uncommitted row or keys (`Apart`). `StepGood`
  proves invariant and simulation together, one lemma per action.
* `UniqueIdentities`, `EnrolledAlways`, `FoundedTogether`, `DeletedForGood`
  follow from `Directory`'s steps through the refinement, `LeavesNothing` and
  `TypeCorrect` from the invariant.
* `AnswersTrue`: `Spec => AccountsAsTold`. `Holds` says which user or tenant a
  request is about at each stage, so that the answer of its last step can be
  compared with the tables of that step (`Truthful`).
* `CodesForGood`: `Spec => []CodesUnique`. A tenant without a row has no code, and
  every action that writes a tenant asks the index first.
* `FoundersNamesNew`: `SingleWorker => (Spec => FounderNamesNew)`, stated and
  proved in `AccountsProofs` and no property of a run. No index makes
  `tenant_name` unique; with one server process nobody writes a tenant between
  a founder's look at the names and its commit, so the name is still free
  (`Reserved`) when the row appears. Only a session may be opened in between.

`AccessControlProofs` (any number of workers, both schemas)

* `LinksWhole`, `UniqueCodes`, `UniqueGrants`: from typed rows and requests
  (`Typed`) and the steps that write a table (`Writers`).
* `BoundedAssignments`: not inductive alone, because a process that found no row
  may add one later. Counted together, rows of a pair and processes about to add
  one never exceed the processes (`PairsBounded`): only an empty pair gains a
  waiting process, and an INSERT turns one waiting process into one row.
  `OneWorkerAssignments` is its corollary for one process. `FiniteAssumption`
  (finitely many processes and rows) is needed to count.
* `ToldRight`: `Spec => RowsAsTold`. A failed creation is answered truthfully
  only because nobody else can have made the row: the strengthening (`Fresh`)
  says that no other request knows the row that a request is about to create.
* `SeedingTypeCorrect`, `SeedingKeeps`, `SeedingWhole`: the script beside the
  server, for every catalogue. The script's steps keep the invariant of
  `AccessControl`, so uniqueness and whole references hold however often it runs;
  a phase is whole because a code that is missing when it commits has a row after
  it.
* `AccessImplementsRights` and `SeedingImplementsRights`: `Spec => RightsSpec`,
  and `SeedSpec => RightsSpec`. One lemma per writing step (`Enters`, `Removes`,
  `LinksOne`, `UnlinksOne`), each saying how the number of rows of every pair
  moves (`HeldMoves`). The invariant above does not suffice for a deletion, which
  is committed two transactions after its row was found: `Dropped` adds that this
  row has existed, and that a row that is gone has kept nothing. So the second of
  two deletions changes nothing, and the first one is `Remove`: by `NoOrphans`
  the cascade leaves no link of the row.

`ListingProofs` (any number of rows and processes, every page size)

* `TypeCorrect`, and that no two rows share a timestamp, so that positions in the
  listing differ.
* `MissedAtMost`: `Spec => []MissedBounded`. A row that comes or is touched lowers
  no other row's position, one that departs lowers each by at most one; the rows
  that slipped in front of the pages still to be read are therefore at most the
  departed ones (`Skipped`). What remains of the missed rows lies behind the last
  page that the client asks for, and those are at most the rows that came between
  its two SELECTs.
* `CompleteWhenAlone`: with one process and the login log, nothing is missed.

`StatisticsProofs` (any number of workers and users, finitely many tokens)

* `LoginReportAddsUp`, `SessionReportAddsUp`: `StatsSpec => []LoginFiguresAddUp`
  and `StatsSpec => []SessionFiguresAddUp`. What is claimed of an answered report
  says nothing while it is being made, so the invariant (`LoginSums`,
  `SessionSums`) claims it of the figures read so far together with those that
  the remaining SELECTs would return now. A SELECT then changes nothing; a login,
  a logout or a clean-up moves each pending figure by no more than `came`,
  `moved` or `restated` moves. For the log this holds because a step adds rows to
  the finite set of logged rows, and every kind of row is counted by one figure;
  for the sessions because each row that enters or leaves a status is one that moved, and
  a status other than NONE is never left for NONE (`StatusStep`, from the session
  service's own invariant).
* `ReportsUseSessionService`: a report's own steps are stutters of the server, so
  what the server promises holds beside it.

`SingleWorker` is a hypothesis of the theorems that name it, not an assumption of
the modules: with several processes they are false. Two processes may lose an
increment or write a counter over a reset (`LockConsistent`, `CountMatchesLog`
and `AccountLock` fail, while `LockEarned` still holds), two founders may find
the same name free (`FounderNamesNew` fails on the instance of `accounts_many`),
and a clean-up may write EXPIRED over a revocation or over an extension (`SessionLifecycle` fails, while `NoResurrection` and
`RevokedAreEnded` still hold).

**Model-checked only**: liveness (`LockReleased`, `RequestsEnd`), which is out of
the prover's reach as every property that needs fairness is.

## 5. Not modelled

Password hashing and the access token (a password is right or wrong), request
parsing and the layout of answers beyond status and success, log output, the
filters a client sets on a listing and the columns of its items, figures about IP
addresses, the device and network columns of a session, the reasons of log rows
beyond their kind; functions that nothing calls (`log_password_reset`,
`AuthenticationService.create_user`, `create_tenant` and `update_tenant` beside
their routed variants, `create_user_role`, `update_user_role`,
`delete_user_role`, `list_user_roles`, the changing functions of
`LoginLogService`); and the components marked so in the table above. The SQL
under `packages/database` is read for constraints and cascades; the constraints
are guards of the actions that meet them.

## 6. Plan

Done: sessions, login and logout, accounts, access control with its seeding,
listings and statistics, the answers of the routes, with their proofs. Next, in
this order:

1. The composition of `Accounts` with `Authentication`: deleting a user while it
   logs in, of which `Accounts` sees the session only (`opened`).
2. The life of the access token beside the life of the session
   (`ACCESS_TOKEN_EXPIRE_MINUTES // 60 or 24`).
