# Verification of inbox-saas

inbox-saas sells mailboxes in a customer's own Microsoft tenant. At this commit its one
long-running command is *tenant validation*: a customer hands in the credentials of a tenant
administrator, a durable job signs in with them, and the connection ends as `active` or
`validation_failed`. This directory models that command from the HTTP request to the PowerShell
session, the accounts, keys and grants that decide who may give it, and the type-resolving lint
rules the repository brings along. TLC checks the models; TLAPS proves nearly all safety
properties of the state machines but the linter.

Paths are relative to the repository root below.

## Inventory

| Component | State | Operations | What is hard |
|---|---|---|---|
| Public API (`packages/api/src/v1.ts`, `apps/server/src/app.ts`) | none of its own | `POST …/tenant-connections`, `GET /jobs/{id}`, `GET /workspaces` | repeated and racing requests, lost replies, restarts |
| Tenant validation (`packages/product/src/tenant-validation.ts`) | rows of `tenant_connection`, `job`, `idempotency_record`, `outbox_event` | start, claim, renew, recover expired, apply result, read | READ COMMITTED races, unique violations as control flow, leases |
| Worker (`apps/worker/src/tenant-validation-worker.ts`) | pg-boss messages, handlers in flight, timers | tick (recover, dispatch outbox), process a delivery, renewal timer | overlapping ticks, duplicates, crashes between two writes, late results |
| Work limiter (`apps/worker/src/microsoft-work-limiter.ts`) | counters, waiters | acquire, release | lost wake-ups, leaked permits, starvation |
| Provisioner client (`apps/worker/src/provisioner-client.ts`) | none | `validateTenant` with a 270 s timeout | the call goes on after the client gave up; lost, repeated and delayed requests |
| Provisioner sessions (`apps/provisioner/…/session_registry.py`, `tenant_validation.py`, `powershell.py`, `device_code.py`) | sessions and locks by connection, browser semaphore, processes | `validate`, `ensure`, authenticate, dispose | overlapping calls, timeouts at every await, processes left behind, lazy expiry |
| Provisioner request authentication (`request_auth.py`, `app.py`) | nonce store | size limit, verify, check and store | two clocks, window boundaries, capacity, restarts |
| Access control (`access.ts`, `api-keys.ts`, `control-plane.ts`) | grants, API keys | authorize, issue, authenticate, revoke, list | authority that changes while it is used, rows deleted between two statements |
| Sign-up (`packages/auth`, migration `0002`) | user, account, organization, workspace, grant | one transaction with a trigger | racing sign-ups with one email, failures half-way |
| Credential cipher (`tenant-credentials.ts`) | key, key version | encrypt, decrypt, fingerprint | key rotation |
| Lint rules (`tools/oxlint/anti-slop`) | bindings and interfaces of a program | resolve aliases, classify dictionaries and broad targets, follow constants, report | circular and generic aliases, shadowing, defaults, constants that are written again |

How they interact: the API inserts connection, job, idempotency record and outbox event in one
transaction. A tick of the worker requeues jobs whose lease expired and turns due outbox events
into pg-boss messages. A delivery claims the job under a lease, waits for a permit, renews the
lease, calls the provisioner over HTTP and applies the result under its lease token; a retryable
failure writes another outbox event with the delay. The provisioner keeps one signed-in
PowerShell process for each connection and runs one browser sign-in at a time.

What makes each part correct: the API creates one job per key and says so; jobs are never
forgotten, run by one owner, settle, and agree with their connection; permits are counted,
bounded and handed on; sessions belong to one connection and one administrator, and no process
is left behind; no loss, repetition, delay or restart on the way becomes a verdict on a customer's
credentials; a sign-up gives a whole account or none, and a request sees and writes what its
authority covers and nothing else; a lint rule reports what a program means. `PROJECT.json` lists the hazards line by line with the properties that cover them.

## Modules

| Module | Models | State |
|---|---|---|
| `TenantValidationContract` | what a customer may read from `GET /v1/jobs/{id}` | outcome and attempts of each job |
| `TenantValidationJobs` | rows and worker; implements the contract | `job`, `conn`, `outbox`, `queue`, `hand` (invocations of `processTenantValidationJob`), `tick` |
| `IdempotentStart` | the promise of `docs/architecture/api.md` on idempotency keys | a store written once, answers |
| `StartTenantValidation` | `startTenantValidation` under concurrency; implements `IdempotentStart` | committed rows, `req` (invocations) |
| `PermitLine` | permits and one line of those who wait for them | holders, line |
| `MicrosoftWorkLimiter` | the limiter; implements `PermitLine` | counters, waiters, permits, index of the wake loop |
| `ConnectionSessions` | what a validation gets: one session per connection, of the administrator who signed in | sessions, calls |
| `SessionRegistry` | `RealTenantValidationService` and `TenantSessionRegistry`; implements `ConnectionSessions` | sessions, locks, browser permit, processes, calls |
| `RemoteValidation` | what the worker takes the provisioner for: bounded attempts, one verdict, no network | phase, attempts, verdict and result of each job |
| `ProvisionerCall` | worker slots, permits, client, network and endpoint composed: the call end to end; implements `RemoteValidation` | jobs with their call, requests with age and copies, nonces, clock difference |
| `AccessBoundary` | what `docs/product/model.md` and `docs/architecture/api.md` promise about access, as decisions of one step | accounts, rows, keys issued and withdrawn, what is asked and answered |
| `ControlPlane` | sign-up, keys, grants, deletions, and the requests of `/api/v1` and `/rpc`; implements `AccessBoundary` | committed rows, sign-ups, keys and requests in flight, clock |
| `TypeAliases`, `DictionaryTypes` | `shared/type-alias-resolution.ts`, `shared/dictionary-types.ts` | the program's tree, its bindings and interfaces |
| `KnownValueWidening` | `rules/no-known-value-widening.ts`, `shared/function-parameters.ts`: broad targets, known values, flows | the same |
| `TypeMeaning` | what types and values mean, with closures and positions instead of names; the reference | – |
| `AntiSlopLint` | the linter with the six rules built on them | nodes to enter, reports |
| `MC*` | instances for TLC | – |
| `*_proofs` | theorems | – |

Correspondence. An action is one database transaction or, in `ControlPlane`, one statement; or the
code between two awaits where the state is in memory; failing statements are actions of their own beside the ones that succeed
(`ClaimFails`, `ClaimReadFails`, `EnqueueFails`, `MarkFails`, `ApplyFails`, ...), crashes and
restarts are `WorkerCrash` and `Restart`. `applyTenantValidationResult` takes three steps: the
read and decision (`ApplySelect`), the fenced write with the unique index (`ApplySuccess`,
`ApplyRetry`, `ApplyFailure`, `ApplyCollides`), and the second transaction after a unique
violation (`ApplyCollision`). A timestamp is the time left until it, so one action `TimePasses`
is the clock of a module. A lease that lapses although its owner is alive counts as a fault.
A name with an underscore, such as `Emit_Now`, is the definition after it with a plausible bug; it
is used by no specification and only shows which property would notice that bug.

`ControlPlane` takes the name of a sign-up for its user, organization and default workspace, as
each makes one of them; deletions, grants and further workspaces are statements of an operator,
as the program has no endpoint for them. `ProvisionerCall` keeps of a request its age and of the
two clocks their difference, as no comparison looks at anything else; the endpoint awaits nothing
between the last byte of a body and the start of the service, so admission is one step.
`AntiSlopLint` enters a node in each step, as oxlint does; a call that comes back to its own
arguments would exhaust the stack of the real program and yields `OVERFLOW`.

Code outside of the repository is modelled from its use: pg-boss as a bag of messages that are
fetched once (`retryLimit: 0`), PostgreSQL as READ COMMITTED with unique indexes that make an
insert wait for an open transaction, PowerShell and Microsoft as free choices of answers. The health
check that `validate` makes outside of the lock (`Verified`, `Unverified`) may find the process stopped
by another call and still read a complete report from its pipe; both outcomes are in the model, for a
running process and for a stopped one.

In the contract `retryable` is a field next to `code`, and the decision to retry looks at the field
alone (`tenant-validation.ts:467`).
`TenantValidationJobs` reads it off the code, as the provisioner and the worker make only the pairs
that `TransientFailures` and `PermanentFailures` name; a provisioner that paired them otherwise would
not be described by it.

## Runs

| Run | Shows | Bounds |
|---|---|---|
| `jobs_rows` | rows of job and connection agree, a tenant is connected once, failures are justified, no queued job is forgotten; refinement of `TenantValidationContract` | 2 jobs, 2 slots, 1 tick, 1 fault |
| `jobs_attempts` | attempts are fenced, outcomes final, attempts beyond three are owed to faults, a validation settles | 1 job, 2 slots, 3 faults |
| `limiter` | work is bounded and counted by its permits, never withheld; whoever waits is served; refinement of `PermitLine` | limits 5 and 3 of the code, 8 callers |
| `start` | one job per key, honest answers, no orphans, every request is answered; refinement of `IdempotentStart` | 3 requests, 1 key, 3 payloads, 2 organizations, 1 fault |
| `sessions` | one process per connection, each owned by a session or a call, one browser, every call ends; refinement of `ConnectionSessions` | 3 calls, 2 connections, 2 administrators, one failure code |
| `provisioner_call` | a request is taken once, a retry is no replay, every job ends; refinement of `RemoteValidation` | 2 jobs, 1 permit, 2 attempts, 1 fault, clocks that differ by 1 and by 3 |
| `control_plane` | sign-ups take an email once, rows belong together, answers are exact, writes justified, dead keys get nothing, everything ends; refinement of `AccessBoundary` | 2 sign-ups, 2 emails, 3 workspaces, 1 key of 3 grants, 2 requests, 1 deletion |
| `lint` | what the rules report is meant, what is meant is reported, no classification goes on for ever | 3670 programs |

Why these bounds are enough. Two jobs are what a collision on a tenant needs, two slots an
attempt and the one that overtakes it; retries take delays 1 and 2, so that
the second is longer than the first and than half a lease of 2, and a job reaches its third and,
with three faults, its sixth attempt. Overlapping ticks, which TLC did check with one job, are
covered by the theorem about `NoStrandedJob`, for any number of ticks. Eight callers of two
organizations fill both limits of the
limiter with waiters left over. Three requests are a winner, a loser and a later repetition.
Three calls of the provisioner are two that overlap on one connection and one that competes for
the browser (one administrator is enough for the second connection), and one failure code
stands for all, as nothing tells them apart. Two jobs and one permit let a
call wait for the permit of another and a late copy meet a later attempt; a window of 2 and a
client timeout of 1 are ordered as 300 and 270 seconds are, and with a clock that is ahead by 3
nothing is ever timely. (Three jobs or a second permit exceed the time of a run; the safety
properties are theorems.) Two sign-ups share an email or make two organizations, the second
workspace separates a workspace grant from an organization-wide one, the key may read an
organization, write to one of its workspaces or not be stored at all as its workspace is another
organization's, and of the two requests one writes while the other one reads. The lint programs combine sixteen unsafe or harmless values, alone and
in pairs by union and intersection, seven dictionary forms (direct, mapped, wrapped, through
generic aliases and defaults) and the places where they are used, with nine programs about
circular, recursive and shadowing declarations; and eleven values (written, named, constant,
variable, circular, returned) that flow into 27 types or take one of ten ways into a type or an argument
of a type predicate. `MaxFaults` bounds failing statements, crashes,
repeated copies, lost replies and lapses of a run, `MaxTime` the clock of `ControlPlane` and
`MaxDeletions` its deletions; nothing else is bounded but by the sets.

Four runs end in a counterexample; each shows where the code departs from its documentation.

* `jobs_lost_delivery` (`EveryRequestSettles`): a delivery that dies before its claim (the claim
  statement throws, or the worker stops after the fetch) is not repeated, as the queue has
  `retryLimit: 0`; the event is marked dispatched and recovery looks at `running` jobs only. The job
  stays `queued`. `docs/architecture/provisioner.md:89` has the worker handle crashes.
* `jobs_one_call` (`OneCallPerConnection`): `leaseLost` is not looked at during a call, so a lapse
  lets a second invocation call the provisioner for the same connection
  (`docs/product/lifecycles.md:27`). `LeaseRespected`, `OneProcessPerConnection` and the
  theorem `ExtraCallsArePaid` show what still holds: only the owner's result counts, the provisioner
  serializes `ensure`, and every further call is owed to a fault.
* `start_key_rotation` (`SamePayloadSameJob`): the fingerprint is keyed by the encryption key, so
  with another key a repetition is told `idempotency_conflict` (`docs/architecture/api.md:55`). The
  theorem `RepetitionsAgree` says that nothing but such a change of the key leads there.
* `session_expiry` (`ExpiryKills`): expiry is noticed by the next `ensure` only
  (`docs/architecture/provisioner.md:60`).

Two more departures have no run of their own. A service goes on after its client gave up at 270 s
and the worker released the permit, so the five and three attempts of
`docs/architecture/provisioner.md:76` bound the calls of the worker, not the work of the
provisioner; `ProvisionerCall` forgets a service whose caller is gone, since nobody can observe its
answer. And at the very second at which a window closes a request is still timely while its nonce
is dropped: `TakenOnce` names that second as the one exception.

## Fairness

* Jobs: weak fairness of the clock, of the steps of a tick (an interval timer), of `Deliver` (pg-boss
  polls), of each statement of a handler, and of the answer of the provisioner (the client's
  timeout). `Start` and every fault are never owed. The renewal timer is fair, so a lease lapses only
  as a counted fault.
* Limiter: weak for the wake loop, strong for `Release`, which is in a `finally` behind a bounded
  call; strong because the loop's steps, one turn of the event loop in the code, disable it.
  Nobody is obliged to acquire.
* Start: weak for each handler: statements and transactions end.
* Sessions: weak for each await that its own timeout bounds (120 s of a command, 90 s of the browser
  flow), strong for `TakeBrowser`, as `asyncio.Semaphore` serves its waiters in order. `CallEnds`
  does not count on the 240 second timeout or on restarts.
* Call: weak for time and for the client's timer, strong for a free slot and a free permit, as
  pg-boss polls and the limiter serves its waiters (`WaitersServed`). The network and the
  provisioner owe nothing.
* Control plane: weak for each sign-up and each request, as statements end. Nobody is obliged to
  sign up or to call, keys need not expire.
* Lint: none. A tree is finite and each step enters a node; that classification returns is the
  safety property `NeverOverflows`.

## Proofs

`TenantValidationJobs_proofs` proves, for any sets and bounds that satisfy the module's
assumptions, `TypeOK`, `JobTenantAgreement`, `UniqueOwner`, `WakeUpKept` and `NoStrandedJob`.
`TypeOK` is inductive together with `HandsKnow` (their conjunction is `Base`): a handler that is
not idle names a job, a running job was claimed at least once, and a result that is being applied
is an answer of the provisioner; without it a retry could look up a delay that is not in the
table. The agreement of the rows is inductive once it is known what a handler that is past its
claim may still write: a write is guarded by `Owns`, that is by a running job, so a final row is
never touched again. `NoStrandedJob` alone is not inductive, since a message may be consumed by a
claim that is refused: `WakeUpKept` says that what wakes a job comes no earlier than its
`availableAt`. Every leaf of it is about one action; `TimePasses` counts job and event down
together, which keeps their order, and the events a tick holds are known to be due
(`TicksKnow`), so that a mark consumes an event only after its message is in the queue and the
job is due too. The theorem about `NoStrandedJob` follows from `WakeUpKept`.

`TenantValidationLease_proofs` proves the fencing of attempts: `DecisionCurrent`, `LeaseRespected`
and `OutcomeFinal`; on top of it `FailureJustified`, `AttemptsPaid` and the refinement of
`TenantValidationContract`. It states once what a step may do to a row (`RowSteps`: nothing, create,
recover, claim, renew, release, age), to a connection (`ConnRowSteps`) and to an invocation
(`HandSteps`), and argues from these instead of from the thirty actions. The inductive
invariant `Fenced` adds two facts to `Base`: only a running job has a lease token, and a job with
an outcome has no time left to count down (else `TimePasses` would touch it). Its core is
`TokenKept`: who owns a job after a step claimed it in that step or owned it before, in the
same attempt, so no other handler can have raised `attemptCount` between the two statements of a
result's transaction. `FailureJustified` needs `CollisionsTrue`: whoever met the unique violation and
still owns its job met another connection, and an active connection stays active. `AttemptsPaid`
needs `Paid`: an attempt no fault has paid for yet is live, with its owner, its lease and a timer
that has not failed, so only a fault or a result ends it, and `FaultsGrow` pays in the first case.
For the refinement every step is sorted by `StepKinds` into a request, a claim, a final result, or a
step that leaves outcome and attempts alone; it assumes that no tenant identifier is the name of
an outcome (`TenantAssumption`), else `outcome` would confuse them.

`ExtraCallsArePaid` is the complement of the run `jobs_one_call`. Of two calls for one job at most one
has the token of its row; the others were taken over, and `LapsesPaid` counts them against the
faults: an invocation joins them only when its lease lapses while it runs, and each lapse is a fault of
its own; it leaves them by ending. So there is at most one call more than there were faults, and one only
where there were none.

`StartTenantValidation_proofs` proves the invariants of the run, that a key has one creator
(`OneCreator`), `RecordIsFinal`, and that
the module implements `IdempotentStart`. The inductive invariant `Recorded` says what a request in
flight may believe: what it is about to answer agrees with the record of its key (`Honest`), who met a
unique violation finds a record (`Violated`), at most one transaction holds an uncommitted record
of a key and none does where a record is committed (`Exclusive`), a request that has not
committed owns no rows (`Fresh`), and records, connections and events come together (`NoOrphan`,
`Complete`). `ConflictJustified` and the refinement also need `OneCipherKey`, the assumption
that every server is started with the same key; `start_key_rotation` shows that they fail
without it, and `SamePayloadSameJob`, which that run refutes, is proved under it: a repetition has the
record of its key in common with the request it repeats, and a conflict is told for another payload only.

Also proved there is `WinnerIsThere`: who meets a unique violation reads the winner's record and job,
so while no organization is deleted the two errors of the fallback of `startTenantValidation` (a
conflict without a record, a record without a job) are dead code.

`MicrosoftWorkLimiter_proofs` proves `TypeOK`, `WorkLimited`, `NobodyWaitsForNothing`,
`ServedInOrder` and the refinement of `PermitLine`. The inductive invariant says that the counters are
the numbers of permits that are out, in all and of each organization, that nobody waits twice or with a
permit, and `PassedWait`: whoever is before the index of the wake loop cannot run, and outside of the
loop nobody who waits can. `ServedInOrder` follows, as of two waiters of one organization the later one
cannot run where the earlier one was passed. So does the refinement: room in the line is capacity in the
counters (`RoomIsCapacity`), and `PassedWait` is what the line asks for before a newcomer enters, before a
permit is given back and before a waiter is served (`PassedIsSettled`).

`SessionRegistry_proofs` proves `TypeOK`, `OneProcessPerConnection`, `ProcessesOwned`, `OneBrowser`,
`AnswerIsOwn` and the refinement of `ConnectionSessions`. A lock is held by exactly the call that is
between `LookUp` and `Unlock`, a registered session has the process of its connection, and the process
a call has in hand belongs to its own connection and was signed in by its own administrator, whether it
still runs or not. The
refinement maps the registered sessions to the abstract ones and what a call has in hand after its
`Unlock` to what it was granted: joining, ending and signing in are one step each there, and the health
check, the browser and the disposal of a process are none.

`ProvisionerCall_proofs` proves `TypeOK`, `VerdictOfService`, `TakenOnce`, `RetryIsNoReplay` and the
refinement of `RemoteValidation`. Replies and services belong to the present call only; an attempt is
sent once (`SentOnce`); and within its window a request has an entry in the nonce store exactly if it was
taken since the last restart (`NoncesOfTaken`), from which both action properties follow, for any
difference of the clocks. In the refinement the service's answer to the present request is the step that
reaches a verdict, what the client makes of a reply, a timeout or a broken connection concludes or
fails the attempt, and everything else, copies and restarts included, is invisible to the worker: that
a result which is not retryable is a verdict of the present attempt is `VerdictOfService` once more,
now for every step.

`ControlPlane_proofs` proves `TypeOK`, `EmailTakenOnce`, `RowsBelong`, `WriteJustified` and
`NoDeadKey`; with `EmailTakenOnce` goes `EmailsWait`, that of the open transactions of sign-ups no two
have one email. That a sign-up leaves all of its rows or none (`SignUpAtomic`) is a conjunct of the
invariant and no result: the model has its commit as one action. One half of the inductive invariant is about rows (keys, grants and
connections name workspaces of their organization, a deletion takes all of them), the other about each
request: its grant is the one its key was issued with, and the workspace it is about to insert into
was reached by it. `ControlPlaneAnswers_proofs` adds `AnswersExact`, with what a
request may know of rows that were there when it arrived and of those that are there now.

It also proves the refinement of `AccessBoundary`, in which a request is asked, admitted and answered and
an account is opened whole. A sign-up is nothing there until its commit; a request is admitted where its
key is accepted, or where the grants of its user are read, and every further statement but the last one
is invisible. `BInv` is what the mapping needs besides the invariants above: emails and inputs that are
known, and no authority before the admission. The hard step is the answer of a listing, which comes from two
selects with deletions between them: what `AnswersExact` says held for each of them at its own time, and
as nothing that was deleted comes back, both still bound the answer when it is given (`ListSeen`). A
workspace that is not there and one that may not be used get the same refusal, as
`tenant-validation.ts:141` has it (`FindBound`). `ControlPlaneAssumption` keeps `NULL` apart from times, else a key that
was revoked at that time would not be withdrawn.

Refinements. Six abstract specifications are implemented, and each is both a property of a run and
a theorem: `TenantValidationContract`, `IdempotentStart`, `PermitLine`, `ConnectionSessions`,
`RemoteValidation` and `AccessBoundary`. They say at once what the single invariants say apart, and what none of them says:
that nothing else happens to a waiter, a session, an attempt or a grant than what a reader of the abstract
specification sees.

What liveness rests on. TLAPS does not prove that something happens, but it proves what the arguments
for it need, for any number of calls, jobs and waiters; only the fairness that drives them is left to TLC.

| Liveness (TLC) | Proved for it |
|---|---|
| `WaitersServed` | `LoopEnds`: each step of the wake loop leaves it fewer waiters to look at or ends it; `NobodyFallsBack`: a waiter keeps its place or a better one; `SomebodyWillWake`: outside of the loop who waits does so for permits that are out, whose release looks at it |
| `CallEnds` | `WaitingEnds`: a call in progress can move itself, or the call it waits for can, or the one which that call waits for can, so locks and the browser make no circle (`LocksOwned` is the invariant it needs: a lock belongs to a call inside of `ensure` for that connection); `CallsGoForward`: a call never returns to an earlier phase |
| `EveryJobEnds` | `AttemptsRunOut`: the work a job has left is a number no step increases, whatever fails; `SomebodyCanGoOn`: while a job has not ended one of them finds a slot, a permit, or its client's timer |
| `RequestSettles` | `NoJobIsStranded`, `AttemptsArePaid`: a queued job has what wakes it, and its attempts are bounded; `JobsGoForward`: every step leaves a job where it is or takes it to a later one of finitely many places |
| `RequestAnswered` | `RequestsGoForward`: a handler takes each of its statements once and never starts again; the only one that waits, the insert of the record, waits for a transaction that waits for nobody (`Locked`) |
| `EverythingEnds` | `StatementsGoForward`: the same for the statements of a sign-up and of a request, rollbacks, refusals and deletions included |

Only model-checked: the three properties of the lint rules (their resolution is recursive over trees,
the modules declare RECURSIVE operators, and what a recursive definition computes is an induction over
data) and the liveness properties above. Proved and in no
run, to save the run for what can only be run: `TypeOK` of five modules, `WakeUpKept`, `EmailsWait`, that a request's
creator is unique and that an idempotency record is final, `WinnerIsThere`, `ServedInOrder`,
`AnswerIsOwn`, `VerdictOfService` and the theorems of the table (TLC found no counterexample to any of them on the
instances of the runs before they were proved).

## The lint rules and their names

The rules keep substitutions, and the aliases they are resolving, by name and across scopes.
`TypeMeaning` binds by position. The two agree on *hygienic* programs, in which no type parameter
shares its name with another binding and no argument leads back to the alias it is given to; this
is the precondition `Hygienic` of the lint properties, and the instance has programs on both sides
of it. Outside of it the model, like the code, may take one parameter for another
(`type P<A, B> = Record<string, B>; type Q<A> = P<string, A>`), give up on a
self-application (`Id<Id<unknown>>`), or not come to an end
(`type Dict<B> = ...; type Wrap<B> = Dict<Readonly<B>>`). No property covers that capture of names: it is a hazard of
`PROJECT.json` with none against it. `NothingEscapes` names what is not reported even
in hygienic programs: what is inside parentheses or behind `readonly`, generic aliases used with
their defaults, and unknown parameters that a generic alias hides.

## Plan

1. Done: the modules above, with the composition of worker, network and provisioner
   (`ProvisionerCall`) and of sign-up, keys, grants and requests (`ControlPlane`).
2. `PowerShellChannel`: the line protocol of a process with its markers. Inside of `ensure` a command
   that times out is followed by a disposal of its process, but the second health check of `validate`
   (`tenant_validation.py:67`) is not: the session survives its timeout, and its late report and marker
   are read by the next command of that session. `_parse_health_check` takes the last JSON line before
   the marker of that command, so an earlier report counts where the command itself prints none.
   `SessionRegistry` leaves this to the choice of answers, as reports of one process differ in health
   only; the module would say which of them a call reads.
3. `no-widen-then-assert`, the other rule on expressions: it follows a value from a broad annotation to
   an assertion and could use what `KnownValueWidening` has.
4. A cipher mismatch as a constant of `TenantValidationJobs`, for the job that is
   recovered and claimed for ever.

## Not modelled

The web application, the documentation site and the UI kit: presentation. Runtime
configuration and entry points: parsing and wiring. Better Auth's sessions and sign-in, the
payment plugin, the bytes of signatures and encryption, the pages of the browser sign-in: libraries
and data. Of the linter `no-widen-then-assert`, which is left for later, and the rules about plain syntax,
which look at single nodes. Billing and inbox generation exist in
`docs/` only. Between the worker and the provisioner the clocks differ; elsewhere a module has one clock.
