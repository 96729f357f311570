# Verification of the logistics backend

TLA+ specifications of the backend in `src/` (a NestJS service over a Prisma
client), the TLC configurations that check them on small instances, and proofs
that TLAPS checks for every value of the constants.

* [How to run](#how-to-run)
* [The system](#the-system): the inventory
* [What makes it hard](#what-makes-it-hard)
* [Modules](#modules): what each one models, its properties and its proof
* [Runs and bounds](#runs-and-bounds)
* [Where the code and its documents differ](#where-the-code-and-its-documents-differ)
* [Fairness](#fairness)
* [What is proved, and what is only checked](#what-is-proved-and-what-is-only-checked)
* [What is not modelled](#what-is-not-modelled)
* [Plan](#plan)

## How to run

    tlc -workers 2 -config MCAuthSessions.cfg MCAuthSessions
    tlapm AuthSessions_proofs.tla

Every `MC*.cfg` names the module of its prefix, except `MCAuthReset.cfg`, which
goes with `MCAuthSessions`, `MCShipmentProof.cfg` and `MCShipmentDelivered.cfg`
with `MCShipmentOperations`, and `MCEscrowRefund.cfg` with `MCEscrowLedger`.
`PROJECT.json` lists the runs, the source lines of every definition, and for each
property a mutant of the code that breaks it (the operators commented `Mutant:` in
the modules; no specification uses them).

## The system

One Node process serves HTTP requests. A handler is a method of a controller; it
runs without interruption between two `await`s. Three kinds of state exist:

* rows in PostgreSQL, reached through Prisma;
* lists and Maps in the memory of a service, lost when the process ends;
* queries and transactions that were sent and are not awaited.

| Component | State | Operations | Correct when |
|---|---|---|---|
| Authentication (`modules/auth`) | rows of users, sessions, reset tokens, 2FA challenges; signed access tokens | login, refresh, logout, invalidateSession, requestPasswordReset, completePasswordReset, beginTwoFactorSetup, verifyTwoFactor | an ended session stays ended and its access token with it after a lifetime; a password change ends every session of the user; what is exchanged once is not exchanged by many |
| Warehouse flow (`modules/warehouse`, `modules/packages`) | a Map of package states in memory, rows of packages and package_events | startPick, scanItem, pack, generateLabel, stage, markReady, create | no step before those it presupposes; a package shown as ready was ready |
| Rate limiter (`common/rate-limit.guard.ts`) | a Map of buckets in memory | canActivate | the limit bounds what passes; a refused client is let in again when it was told |
| Shipment operations (`modules/shipments`, `drivers`, `dispatch`, `disponent`) | rows of shipments, assignments, attempts, proofs | create, assign, reassign, accept, reject, pickup, deliver | whoever holds a shipment got it by an assignment, a pickup or a delivery; a proof on file is traceable and stays |
| Escrow and ledger (`shipments/operations.service.ts`, `modules/ledger`, `escrow`, `payments`) | an array of entries in memory, rows of ledger_entries | releaseEscrow, refund, append, reverse | entries are only added; a reversal matches what it reverses; audit records name their entries, also those of earlier runs of the process |
| Disputes (`modules/disputes`) | a Map of evidence in memory, rows of disputes and evidence | addEvidence, resolve | no decision without evidence |
| AI workflows (`modules/ai`) | rows of tasks, recommendations, action requests, gates | ten recommendation endpoints | no action of high risk without an approval; rows refer to rows; recordings are complete |
| Audit log (`modules/audit`) | a list in memory, rows of audit_logs | create, list | records are only added, and name what they are about |
| Approvals (`modules/approvals`) | rows of approval requests and decisions | request, decide, approve a refund | the status of a request is its last decision (one decision is enough); a decision that was acknowledged is on file |
| State tables (`state-machine.service.ts`) | none | canTransition, assertTransition, next | the sequences of `docs/STATE_MACHINES.md` lead home and around no milestone |
| Orders, returns | one row each | create, confirm; create, set status | what a client was told is stored; what is booked stays booked |
| Access control (`common/*guard.ts`, `modules/rbac`) | none | canActivate of the guards, hasPermission | no combination of roles gains what the disponent is denied; permissions do not add up to `super_admin` |
| Tracking, location (`modules/tracking`) | a list and a Map in memory, rows of tracking_events | append, checkIn, validate | - |
| Notifications, documents, queues | mock lists in memory, rows of notifications and documents | enqueue, createReference | - |
| Provider adapters, generic resources, inventory, users, meta, observability | rows written once, constant answers | create, read | - |
| Encryption, error filter, DTOs, bootstrap | none | - | - |

How they interact. Controllers call services in the same process; nothing goes
through a queue (`queue.service.ts` starts no worker). Three guards stand before
every handler, in the order of `app.module.ts`: the rate limiter, the JWT guard, the
roles guard. `OperationsService` asks `LogisticsPolicyService` with values **from
the request** and then writes through Prisma, appends to `LedgerService` and to
`AuditLogService`. `AiWorkflowService` asks `AiGovernanceService`, which asks the
same policies and `RbacService`. The warehouse and the dispatch share nothing: the
readiness of a package reaches an assignment as a field of the request. No handler
that changes a status asks `StateMachineService`; its one user is the endpoint that
lists next statuses. What all share is the process: a rejection nobody handles ends
it under everyone.

### Queries and their errors

A Prisma client sends a query when its promise is awaited or given a handler. The
code treats promises in five ways, and the models tell them apart:

* awaited, with an exception as the answer to an error (`AuthSessions`,
  `CaseDesk`): a query may take effect and still fail;
* awaited, with a fallback answer marked `developmentFallback` and audited like a
  success (orders in `CaseDesk`);
* `void prisma.x.update(...).catch(...)` and `void prisma.$transaction([...]).catch(...)`
  send, and drop an error: a query commits at any later time, in any order, or
  never (`WarehouseFlow`, `ShipmentOperations`, tracking events in `ProcessLists`);
* `void this.persist(...)` of an async method sends, and an error is an unhandled
  rejection that ends the process (`AiWorkflow`);
* `void prisma.x.create(...)` without a handler (`ledger.service.ts:38`,
  `dispute-workflow.service.ts:44`, `notification.service.ts:25`, the documents) is
  never sent by Prisma's lazy promises; a client with eager promises, as the test
  doubles have, sends it and lets an error end the process. `EscrowLedger` and
  `ProcessLists` have both, chosen by `sendsUnawaited` in the initial state.

## What makes it hard

* Interleaving: handlers read, await and write by id without looking again
  (refresh, password reset, two-factor verification, approval).
* Order and loss: updates of one row commit in another order than they were sent,
  or not at all, after the answer was given.
* Restarts: checks run on memory that is not read back, ids start over.
* Trust in the request: assignments, pickups and releases are checked against
  what the client claims the state is.
* Partial failure: several inserts without a transaction; one unhandled error
  ends the process for all requests, while the queries they sent still execute.
* Boundaries: the end of a rate-limit window, the rounding of `retryAfterSeconds`,
  the last moment of an access token.

`PROJECT.json` lists each hazard at its line with the properties that cover it.

## Modules

Four components have an abstract specification that says what they promise, and
are shown to implement it.

| Component | Abstract | Detailed | Instance | Proofs |
|---|---|---|---|---|
| sessions | `SessionRegistry` | `AuthSessions` | `MCAuthSessions` | `AuthSessions_proofs` |
| packages | `PackageChecklist` | `WarehouseFlow` | `MCWarehouseFlow` | `WarehouseFlow_proofs` |
| shipments | `CustodyTransfer` | `ShipmentOperations` | `MCShipmentOperations` | `ShipmentOperations_proofs` |
| ledger, disputes | `LedgerBook` | `EscrowLedger` | `MCEscrowLedger` | `EscrowLedger_proofs` |
| AI workflows | | `AiWorkflow` | `MCAiWorkflow` | `AiWorkflow_proofs` |
| guards, access tokens | | `RateLimiter`, `Permissions`, composed in `RequestAdmission` | `MCRequestAdmission` | `RequestAdmission_proofs` |
| orders, returns, approvals, 2FA; lists | | `StateTables`, `CaseDesk` and `ProcessLists`, composed in `BackOffice` | `MCBackOffice` | `BackOffice_proofs` |
| warehouse with dispatch | | `WarehouseFlow` and `ShipmentOperations`, composed in `Fulfilment` | `MCFulfilment` | `Fulfilment_proofs` |

### AuthSessions

`session` and `token` are the tables, `password` the hash of each user, and
`handler[r]` the continuation of request `r`: what it has read and does next. A
handler of the code is one action for each stretch between database calls:
`refresh` is `RefreshFindSession`, `RefreshRevokeSession`, `IssueSession`; a
completion is `CompleteFindToken`, `CompleteTransaction`. `RequestFails` cuts a
handler off after any of them. bcrypt and JWT awaits touch no shared state and are
joined to the step before. A refresh token is named by its session. `parent`,
`born`, `applied`, `seen` and `resets` are history.

*Properties.* `RotationChain`: a replaced session is revoked and of the same user.
`NoActiveSessionPredatesReset`: no session from before a password change is
usable after it. `ExchangedTokenRefused`: a refresh that starts after its token
was exchanged is refused, and `UsedTokenRefused` the same of the completion of a
password reset. `RotationFanOut`, `ResetFanOut`: what a token has
opened or changed, and what requests under way can still open or change with it,
are together at most as many as the requests served at the same time.
`ImplementsRegistry`.

*Proof.* The invariants are not inductive alone: a handler between two awaits
acts on what it read. `IInv` adds that blank rows carry nothing (`BlankRows`) and
what each continuation knows about the rows it names (`HandlersBacked`): the
session it revokes was granted, the predecessor of the session it will create is
revoked and of the same user. The two bounds have an invariant of their own
(`FanOut`) on top: a refresh finds only sessions without successors, because
`RotationChain` has those with successors revoked, and every successor takes the
place of a request in the count; so the sets involved are finite although
`SessionIds` need not be. `UsedTokenRefused` rests on its part
`UnusedChangesNothing`. Only `Requests` is assumed to be finite.

### WarehouseFlow

`flow` is the Map, `row` the table, `pending` the UPDATEs under way (a bag, as
equal ones can be), `trail` the records of accepted operations. The table may hold
rows that the seed inserted as ready (`SeedRow`); `seeded`, a history, names those no
UPDATE has changed yet.
`isSafeDevPackage` looks at an id; `devPackages` is the set it accepts. `Operate`
is what all six operations end with: change the Map, send the UPDATE, write the
records. `ApplyUpdate` and `DropUpdate` settle UPDATEs in any order.

*Properties.* `StatusBacked`: a package has completed every step its status and
its other steps presuppose, in any sequence of calls. `ReadyRowEarned`: a row
that says ready, and is not as the seed made it, was preceded by all operations.
`ImplementsChecklist`: a row counts as published once an operation has written it.

*Proof.* `IInv` adds that an UPDATE to readyForDispatch, sent or applied, comes
from an accepted `markReady` (`ReadyWritesTrailed`), and that a completed step of
an ordinary package has its entry in the trail (`StepsTrailed`).

### RequestAdmission, with RateLimiter and Permissions

`RateLimiter`: `bucket` is the Map; time is relative (`left` is `resetAt - now`).
The three outcomes of `canActivate` are `OpenWindow`, `Count`, `Refuse`; the clock
is `Tick`. `recent` and `promise` are history: `recent[k]` has a record for every
request that was let through in the last `Window[k]` ticks, its age and its number
among those of its tick. `Permissions`: the permission map, the two functions that
read it, and the spellings of roles that the JWT guard knows; all constant.

`RequestAdmission` puts them in the order of `app.module.ts`. A request is a record
with its path, the actor headers, the address, the session of its access token and
the session it names. `Key` is the choice of policy and identity (the limiter runs
before anybody has set the user, so that a bearer token is counted by its address);
a request that the later guards turn away has been counted (`TurnAway`). `Serve`
runs the session handlers of one user: `Find`, `SignToken`, `CreateSession` are
login and refresh, `End` is logout and invalidation. An access token is signed
before its session row exists and is good until `left` is 0, whatever becomes of
the session. `ago` is history.

*Properties.* `SlidingBound`: over any interval as long as a window at most twice
the limit less one pass. `BucketAccounts`: the count is exact.
`RetryAfterHonest`: waiting as told ends the refusal. `FullWindowEnds`: a full
window ends however a client keeps calling. `AccessBounded`: whoever passes with an
access token had a session less than a lifetime ago. `FurtherRolesOnlyAdd` and
`PermissionsMatchRoles` are constant and evaluated as an assumption: for all sets of
up to two roles and one more, only the disponent takes permissions away, and only the excluded
ones; all permissions that have names do not amount to `super_admin`.

*Proof.* The two bounds of the limiter need to know what the last window leaves
behind (`LastWindow`): while it is open, the count is the number of requests since
it was opened, one of them is the request that opened it, and all older ones that
are still recent are less than the limit. The last part is what makes
`2 * Limit - 1` inductive: when a window ends, the request that opened it leaves
the interval at the same tick (`TickWindow`), so that at least one request less
than the limit stays. `Counting` and `AsManyWhenOlder` are the facts about finite
sets this uses; no sum is needed. `LimiterSteps` shows that every step of the guards
together is one of the limiter or a stutter (`AdmissionRunsLimiter`), so that the
limiter is proved once, in its own terms. `WindowsEndInTime`: no request lengthens an
open window, every tick shortens it. For the tokens `IInv` says that one of an ended
session ages as the end does (`TokensWearOff`: `left + ago <= Lifetime`).
`CeilCovers` is the arithmetic of `Math.ceil` for every length of a second.
`RolesOnlyAdd` is `FurtherRolesOnlyAdd` for any sets of roles, `SuperAdminRoutes` says
with which headers a route for `super_admin` alone is passed.

### BackOffice, with CaseDesk, ProcessLists and StateTables

`StateTables`: the five tables of `state-machine.service.ts` as sets of pairs.
`Reachable` doubles the length of the steps five times (`LeadsTo`), which is more than
any table has statuses, and needs no recursion.
`TablesLeadHome` and `MilestonesCannotBeSkipped` are constant and evaluated as an
assumption: every status of a table can come up, the final ones are those in which
a case is over, and no way around a payment, a pickup, an accepted proof, an escrow,
a review or an inspection exists.

`CaseDesk` has the handlers that wait for one query. `handler[r]` is what request
`r` waits for: its query is sent, has executed, or belongs to a process that ended
(`orphan`). A query executes at some time after it was sent, also after its process
has ended; `Respond` delivers the result, `Fail` an error, before or after the query
took effect. A confirmation skips statuses, a return gets whatever value of the enum
is asked for, decisions overwrite each other: each as the code has it. `answered`
and `verified` are history.

`ProcessLists` has the services that keep a list and send inserts nobody waits for.
`BackOffice` puts both into one process: a rejected insert of a notification ends
the process under the requests of the desk (`EndProcess`).

The orders of the seed, which have an authorised payment, are in the initial states
(`DeskInit`); a confirmation takes them back to booked, as it does in the code.

*Properties.* `AnsweredIsStored`: what a client was told without the fallback mark
is on file and stays there. `StatusIsLastDecision`: the status of an approval is its
last decision, with late ones from ended processes. `TwoFactorFanOut`: a challenge
answers at most once per request served at the same time. `NothingTakenBack`: no
query, of whatever process and however late, takes back a row, a booking, a decision
or a verification.

The lists have no property of their own. With the lazy promises of the shipped client
their inserts are never sent, so that nothing relates a list to its table; what they
do to everybody else, the end of the process, is what the other properties face.

*Proof.* `IInv` adds that a query that has executed, or was answered, has its row
(`ExecutedStored`, `AnsweredStored`), and that a challenge that has answered is
verified (`AnsweredForWhenVerified`), so that a request that finds one pending is
among the first.
`Grows` says that tables only grow in the respects that answers depend on; one lemma
for each query shows it, and `NothingIsTakenBack` is the theorem of `NothingTakenBack`.
`WaitsForOneQuery` (`RequestsMoveOn`): a request waits for
the query it sent, for each state of it once, and is never set back.

### Fulfilment

The warehouse and the operations on shipments side by side: no action reads what the
other keeps, and `AssignedWhenReady` fails for it.

*Proof.* A run of both is a run of each (`FulfilmentRuns`), from which what each of them
promises follows with the theorems about it (`FulfilmentKeepsPromises`: both
refinements; `FulfilmentAccounted`: the invariants). `Shelf` is the instance that carries
the theorems about the warehouse over. The one hypothesis, that the bound `MaxUpdates`
is a natural number, is the assumption of `WarehouseFlow` for this instance.

### ShipmentOperations

`row`, `job`, `attempts`, `proof` are tables, `pending` the transactions under way,
`trail` the accepted operations. A handler that sends is one action (its policy is
the guard, `Send` the rest); a transaction that commits is another
(`CommitAssignment`, `CommitPickup`, `CommitDelivery`), or is dropped. `Upsert` is
the statement for `proof_of_delivery`: an update keeps what the submission lacks.
Both delivery endpoints are there with what each does to the tier and to
development ids. Times, coordinates and object keys are abstracted to which
submission they came from (`ref`); a column of the proof has that of the submission it
is from, or none.

*Properties.* `CustodyAccounted`: the holder of a shipment is backed by a row
that stays. `ProofTraceable`: every column of a proof was submitted in an
accepted attempt for that shipment. `ImplementsCustody`. Neither are proofs
immutable nor is delivered final (`proof_overwritten`, `delivered_final`); what the code
keeps of the two is `RecordsKept`, attempts and audit entries are only added and no
column of a proof is emptied, and `ChangesTraced`, a proof changes only with a delivery
that commits, and only an operation that was under way takes a delivered shipment back.

*Proof.* `IInv` adds that operations under way passed their policy and are in the
trail (`PendingAccepted`), that custody of a driver has a named holder, and that a
delivered shipment has its proof (`RowShape`). `RecordsStay` and
`ChangesStayAccounted` show the two action properties, for every step at once
(`NextRecords`).

### EscrowLedger

`entries` and `evidence` are the memory (`Forget` empties them); `audit` has the
records of every run of the process, as the table of audit logs keeps them; `pending`
are the queries under way; `stored`, `dispute` the tables. `book`, `began` and
`submitted` are history: the entries of all runs, for each of them how many there were
when its run began, and the disputes evidence was given for. `AppendEntry` is
`LedgerService.append`, joined with the audit record of the operation that calls
it. Ids are the length of the array, as in the code, so that they start over with the
process and the same id names entries of different runs.
Escrow releases take their inputs from the request, disputes included, as
`assertEscrowRelease` does. A decision is any value of the enum of the column, as in
the code: `under_review` takes a decided dispute back.

*Properties.* `AuditNamesEntry`: a record of any run names the entry it was written
for, if it is read as of that run. `ReversalsMatch`: a reversal, of any run, moves what
an entry of the same run moved. `DecisionBacked`: no dispute is decided without
evidence. `ImplementsBook`.

*Proof.* `IInv` adds that the memory is the last part of the book
(`MemoryIsSuffix`), which makes the ids of a run name entries of the book after those
of the runs before (`began`), and that rows stored or under way name positions of the
book.

### AiWorkflow

A chain `c` is one recommendation: `asked[c]` its workflow and approvals, `next[c]`
the insert it has sent, `rows[c]` the tables it has reached. `Recommend` is the
synchronous part (authorise, record, start). `Commit` and `Reject` settle an
insert; the chain goes on as `Following` says. A rejected insert ends the process
and with it the other chains, but not the inserts they had sent. Workflows are
abstracted to agent, risk level and role.

*Properties.* `RecordedInFull`: while the process runs, a chain that has ended
has all the rows it should have. `RowsReferToRows`: wherever it stopped, its rows
have the rows they refer to. `RequestsApproved`: a request on file had an approval.
`RecordingEnds`: every chain ends.

`README.md:96` of the repository says that high-risk actions require approval
gates. A request and its gate are two inserts, and a restart between them leaves a
request without a gate; what holds, and is checked, is that this happens only when
the process ended (`RecordedInFull`).

*Proof.* `IInv` adds that a chain that waits for an insert has made the ones
before it and no others (`ChainInOrder`), that only what was asked for is
recorded, and that what was asked passed the policy. `RunsDown`
counts the inserts a chain has to go: every answer of the database makes them fewer,
and nothing makes them more.

## Runs and bounds

| Run | Distinct states | Bounds, and why they are enough |
|---|---|---|
| `auth_sessions` | 473k | Two requests at the same time (a race is between two), three sessions (a login and two successors), two users (so that a reset can touch the wrong one), two password changes |
| `warehouse` | 229k | One package (packages share only the restart), with a row of the seed or without, one UPDATE of each status under way, so six at a time in any order; both kinds of id |
| `request_admission` | 190k | Three keys: a limit of two in a window of three ticks, and limits of one; seconds of two ticks, so that windows are no whole number of seconds; two sessions (one and its successor), tokens of two ticks |
| `shipment_operations` | 730k | One shipment, two drivers, two jobs, three accepted operations, two under way: one delivery can overtake an assignment and a pickup. The bodies that are accepted have all columns, a photo alone, or a scan alone, so that a proof can mix three of them |
| `escrow_ledger` | 1.40M | Three entries over any number of runs of the process, two queries under way, one dispute, a decision that is a status (one that sets a dispute back) and one that is not |
| `ai_workflow` | 200k | Three chains, a workflow for every risk level of the code, two that share an agent |
| `back_office` | 1.62M | Two requests at a time, four calls (a challenge is made and asked for three times, once after it was answered), one row of each table (an order of the seed or one that is made), one item of a list beside them, an approver who is a user and one who is not |

Bounds are constants that appear in guards: `MaxResets`, `MaxInFlight`,
`MaxAccepted`, `MaxEntries`, `MaxCalls`, `MaxItems`, `MaxUpdates`. Deadlock is checked in every run. The symmetry sets
permute values that the specification only compares; the runs with liveness
properties use none.

## Where the code and its documents differ

Five runs are expected to find a violation; each checks one statement of a
document of the repository.

| Run | Statement | Behaviour |
|---|---|---|
| `auth_reset` | `docs/AUTH_SECURITY.md:15`, a password reset invalidates active sessions | a login or refresh that passed its check before the reset creates its session after it |
| `unready_assignment` | `docs/STATE_MACHINES.md:49`, no driver assignment before package readiness | the readiness is a field of the request; the warehouse is not asked |
| `proof_overwritten` | `README.md:93`, proof records are immutable | a second delivery overwrites columns of the proof |
| `delivered_final` | `docs/STATE_MACHINES.md:13`, delivered is last | an assignment or pickup that commits later takes the shipment back |
| `refund_lost` | `docs/STATE_MACHINES.md:57`, no refund without ledger entry | the entry is in memory only, or its insert is lost, when the process restarts |

What does hold there is checked or proved: `NoActiveSessionPredatesReset` speaks of
sessions that existed at the reset; `RecordsKept` and `ChangesTraced` say how far
a proof and a delivered shipment can change.

Differences that no run of its own shows, because the models simply do what the
code does:

* `docs/AUTH_SECURITY.md:10` has a refresh replace one session by one. Two refreshes
  of one token that both read it before either revokes it open two; `RotationFanOut`
  bounds this by the number of requests served at the same time.
* `docs/AUTH_SECURITY.md:15` and `test/milestone5-readiness.spec.ts:46` promise one-time
  use of a reset token. The completion looks at `usedAt` before its transaction and the
  transaction marks the token by id (`auth.service.ts:150-159`): two completions that
  both read the token unused both change the password. `UsedTokenRefused` is what holds
  of completions that come later, which is what the test tries one after the other;
  `ResetFanOut` bounds those that overlap.
* `docs/STATE_MACHINES.md:55` forbids the release of an escrow while a dispute is
  active. The release looks at the status of the dispute that the request states
  (`ReleaseEscrow` in `EscrowLedger`).
* An order can be confirmed from any status and a return be given any; the tables of
  `docs/STATE_MACHINES.md` are asked by no handler. So a confirmation
  (`orders.controller.ts:68`) takes an order of the seed, `payment_authorized`
  (`prisma/seed.ts:140`, `prisma/seed.ts:250`), back to `booked`, two steps against the order of
  `docs/STATE_MACHINES.md:7`.
* A decision about a dispute is any value of the enum (`dispute-workflow.service.ts:46`):
  `none`, `opened` or `under_review` take a decided dispute back, against the order of
  `docs/STATE_MACHINES.md:33`. `DecisionBacked` holds all the same.
* One decision settles an approval (`docs/AI_GOVERNANCE.md:46` asks two for critical
  actions), a later one overwrites it
  (`StatusIsLastDecision` is what holds); `docs/DATA_RETENTION_POLICY.md:9` calls
  approval records immutable. The decisions themselves are only added.

## Fairness

Safety is checked without fairness. Two specifications have some:

* `RequestAdmission`: `WF(AdmissionTick)`, time passes. Nothing is assumed of clients.
* `AiWorkflow`: `WF(Settles(c))` for each chain, the database answers a query or
  its connection ends. Which of the two is not assumed, nor that anyone calls.

`BackOffice` has none: that a request of the desk ends would be nothing but the
assumption that its one query is answered or fails.

The other components promise nothing that must eventually happen: a handler may be
cut off and a query may be lost.

## What is proved, and what is only checked

Proved, for any sets of users, sessions, packages, shipments, requests and so on, any
limits, windows and lifetimes, from the named assumptions of the modules (sentinels are
not members, bounds are natural numbers, policies are positive, inputs have their types,
the requests served at one time are finitely many):

* type correctness of seven specifications, and every safety invariant that a run
  checks;
* the action properties `ExchangedTokenRefused`, `UsedTokenRefused`,
  `NothingTakenBack`, `RecordsKept` and `ChangesTraced`;
* the four refinements, and that warehouse and dispatch keep theirs when they are
  composed; that the limiter among the other guards is the limiter;
* of each liveness property what holds of every step: `WindowsEndInTime` for
  `FullWindowEnds`, `RecordingRunsDown` for `RecordingEnds`. They exclude that what is on its way to its end is set back; that it
  goes on is the part of fairness. `RequestsMoveOn` is the same for the requests of the desk;
* of the permissions, `RolesOnlyAdd` and `SuperAdminRoutes`.

Each proof module has the same shape: `IInv`, one lemma per action or kind of action,
`InvariantHolds`, one theorem per property, and for a refinement one step lemma per
action that names the abstract action or the stutter it is.

Only model-checked:

* liveness (`FullWindowEnds`, `RecordingEnds`): it needs ENABLED of the fair actions, which is out of the prover's reach;
* `TablesLeadHome`, `MilestonesCannotBeSkipped` and `PermissionsMatchRoles`: they are about
  constants of the code, and TLC evaluates them in full;
* `FurtherRolesOnlyAdd` is evaluated for sets of up to two roles and one more, and proved
  for all.

## What is not modelled

* Passwords, hashes and tokens as strings; the signature of access tokens; the
  encryption service; the code of a two-factor challenge (`VerifyTwoFactor` is the
  call with the right one) and the constant development challenge.
* Branches that run when no database is configured, which tests use.
* Audit and tracking rows that are never read back; what is handed to the audit
  service is in `trail` or `audit`.
* Tour plans and the packages created with a shipment: rows nothing else reads.
* AI endpoints that answer without keeping state, and provider adapters, which are
  constant answers.
* Generic resources, inventory, users, meta, observability: reads, and single
  inserts that no other handler depends on.
* DTOs, error filter and wiring: what the DTOs let through is the set of inputs
  of the modelled handlers.
* The seed as a program. Its orders with an authorised payment and its packages that are
  ready for dispatch, which no handler makes, are in the initial states of `CaseDesk` and
  `WarehouseFlow`; its shipments, returns and requests for approval are as the handlers
  make them, so that the models reach them from empty tables.
* Prices, quantities and texts, which no property tells apart.

## Plan

Done, in this order: sessions, warehouse, rate limiter, shipments, ledger and
disputes, AI workflows; then the state tables, orders, returns, approvals and
two-factor challenges, the lists in memory, the guards with the permissions and the
access tokens, and the composition of warehouse and dispatch.

Next:

1. Disputes with escrow releases: a dispute that is open in the table beside a release
   that is checked against the request, with `docs/STATE_MACHINES.md:55` as its
   property.
2. An abstract specification of the desk (a case is asked for, stored, answered) that
   `CaseDesk` implements.
3. Tour plans, once something reads them.
