------------------------ MODULE TenantValidationJobs ------------------------
(***************************************************************************)
(* The durable tenant validation job: the rows of job, tenant_connection   *)
(* and outbox_event that packages/product/src/tenant-validation.ts writes, *)
(* and the worker of apps/worker/src/tenant-validation-worker.ts that      *)
(* drives them (ticks, pg-boss deliveries, leases, results).               *)
(*                                                                         *)
(* A timestamp column is kept as the time that is left until it, 0 when it *)
(* has passed: "availableAt <= now" is availableIn = 0.  TimePasses counts *)
(* every such column down together, so the model has one clock.            *)
(*                                                                         *)
(* Every request creates a connection and its only job together, so one    *)
(* constant names both.  A lease token is fresh for every claim; the claim *)
(* is identified here by the pg-boss slot whose handler made it, which is  *)
(* as good as fresh because a slot runs one handler at a time and a write  *)
(* names both the job and the token.                                       *)
(***************************************************************************)
EXTENDS Integers, Sequences, FiniteSets

CONSTANTS
  Jobs,            \* tenant connections, each with its one validation job
  Handlers,        \* slots of the pg-boss worker (localConcurrency)
  Ticks,           \* worker ticks that may run at the same time
  Tenants,         \* Microsoft tenant identifiers
  NULL,            \* the SQL null
  LeaseDuration,   \* leaseDurationMs, in units of the model's clock
  RetryDelay,      \* retryDelaysMs by attempt, in the same unit
  Answers,         \* what validateTenant may answer within a run
  MaxFaults        \* bound: crashes, failed statements and lapses of a run

\* Failures that come with retryable = true, and those that come with false.
\* The flag is a field of its own in the contract, which leaves any pair open;
\* these are the only pairs that the provisioner (tenant_validation.py:74-84)
\* and the worker's own failure (tenant-validation-worker.ts:176-181) make.
TransientFailures == {"microsoft_unavailable", "unexpected_failure"}
PermanentFailures == {"invalid_credentials", "authentication_challenge"}
Collision == "tenant_already_connected"
FailureCodes == TransientFailures \cup PermanentFailures \cup {Collision}

\* Events of the outbox, by job and place in the order of creation.
EventIds == Jobs \X (Nat \ {0})

ASSUME NullAssumption ==
  /\ NULL \notin Jobs \cup Handlers \cup Tenants \cup FailureCodes
  /\ NULL \notin EventIds
\* A tenant identifier is a GUID, which no name of an outcome is.
ASSUME TenantAssumption == Tenants \cap (FailureCodes \cup {"absent", "processing"}) = {}
ASSUME DelayAssumption ==
  /\ LeaseDuration \in Nat \ {0}
  /\ RetryDelay \in [1..2 -> Nat \ {0}]
  /\ MaxFaults \in Nat
ASSUME AnswerAssumption ==
  /\ Answers \subseteq Tenants \cup TransientFailures \cup PermanentFailures
  /\ "unexpected_failure" \in Answers
ASSUME FiniteAssumption == IsFiniteSet(Jobs)

VARIABLES
  job,      \* rows of job; "absent" before the request that inserts it
  conn,     \* rows of tenant_connection
  outbox,   \* rows of outbox_event of each job, in order of creation
  queue,    \* pg-boss messages of each job that no handler fetched yet
  hand,     \* the invocation of processTenantValidationJob of each slot
  tick,     \* the invocation of runTenantValidationWorkerTick
  lost,     \* history: jobs one of whose deliveries died before its claim
  faults    \* faults so far

vars == <<job, conn, outbox, queue, hand, tick, lost, faults>>

JobStates == {"absent", "queued", "running", "completed", "failed"}
Phases == {"idle", "delivered", "claimed", "calling", "applying", "committing", "collided"}

JobRows ==
  [state : JobStates, attemptCount : Nat, availableIn : Nat, leaseIn : 0..LeaseDuration,
   leaseToken : Handlers \cup {NULL}, failure : FailureCodes \cup {NULL}]
ConnRows ==
  [state : {"absent", "validating", "active", "validation_failed"}, tenant : Tenants \cup {NULL}]
Events == [availableIn : Nat, dispatched : BOOLEAN]
HandRows ==
  [phase : Phases, job : Jobs \cup {NULL}, attempt : Nat, leaseLost : BOOLEAN,
   result : Tenants \cup FailureCodes \cup {NULL}, retry : BOOLEAN, availableIn : Nat]
TickRows ==
  [phase : {"idle", "recovered", "dispatching"}, batch : SUBSET EventIds,
   sent : EventIds \cup {NULL}]

Free == [phase |-> "idle", job |-> NULL, attempt |-> 0, leaseLost |-> FALSE,
         result |-> NULL, retry |-> FALSE, availableIn |-> 0]
\* The defaults of the columns of job.
NewRow(state) == [state |-> state, attemptCount |-> 0, availableIn |-> 0, leaseIn |-> 0,
                  leaseToken |-> NULL, failure |-> NULL]
NoTick == [phase |-> "idle", batch |-> {}, sent |-> NULL]

Init ==
  /\ job = [j \in Jobs |-> NewRow("absent")]
  /\ conn = [j \in Jobs |-> [state |-> "absent", tenant |-> NULL]]
  /\ outbox = [j \in Jobs |-> << >>]
  /\ queue = [j \in Jobs |-> 0]
  /\ hand = [h \in Handlers |-> Free]
  /\ tick = [t \in Ticks |-> NoTick]
  /\ lost = {}
  /\ faults = 0

-----------------------------------------------------------------------------
(* Conditions and row updates that several statements share.  A name with   *)
(* an underscore is the definition after it as a bug would have it: each is *)
(* there to show that a property below notices.                             *)

Faulty == faults < MaxFaults /\ faults' = faults + 1

Event(delay) == [availableIn |-> delay, dispatched |-> FALSE]
Emit(j, delay) == [outbox EXCEPT ![j] = Append(@, Event(delay))]

Expired(row) == row.state = "running" /\ row.leaseIn = 0
Claimable_Running(row) == (row.state = "queued" /\ row.availableIn = 0) \/ row.state = "running"
Claimable_AnyState(row) == (row.state # "running" /\ row.availableIn = 0) \/ Expired(row)
Claimable(row) == (row.state = "queued" /\ row.availableIn = 0) \/ Expired(row)

Owns_AnyToken(h, row) == row.state = "running"
\* The WHERE clause of a write fenced by the lease token of h, without and
\* with the comparison of the lease with the present time.
Owns(h, row) == row.state = "running" /\ row.leaseToken = h
Holds_EndsEarly(h, row) == Owns(h, row) /\ row.leaseIn > 1
Holds(h, row) == Owns(h, row) /\ row.leaseIn > 0

InFlight(h) == hand[h].phase \notin {"idle", "delivered"}
Row(h) == job[hand[h].job]

ClaimedRow(row, h) ==
  [row EXCEPT !.state = "running", !.attemptCount = @ + 1, !.availableIn = 0,
              !.leaseIn = LeaseDuration, !.leaseToken = h]
RenewedRow_Extended(row) == [row EXCEPT !.leaseIn = @ + LeaseDuration]
RenewedRow(row) == [row EXCEPT !.leaseIn = LeaseDuration]
ReleasedRow(row, state, delay, failure) ==
  [row EXCEPT !.state = state, !.availableIn = delay, !.leaseIn = 0,
              !.leaseToken = NULL, !.failure = failure]
RecoveredRow_Resets(row) == [ReleasedRow(row, "queued", 0, row.failure) EXCEPT !.attemptCount = 0]
RecoveredRow(row) == ReleasedRow(row, "queued", 0, row.failure)

ShouldRetry_Twice(result, row) == result \in TransientFailures /\ row.attemptCount < 2
ShouldRetry(result, row) == result \in TransientFailures /\ row.attemptCount < 3
TenantTaken_Validating(tenant) == \E k \in Jobs : conn[k] = [state |-> "validating", tenant |-> tenant]
\* The partial unique index on active connections.
TenantTaken(tenant) == \E k \in Jobs : conn[k] = [state |-> "active", tenant |-> tenant]

-----------------------------------------------------------------------------
(* The request (startTenantValidation; StartTenantValidation.tla has its    *)
(* idempotency) and the worker tick.                                       *)

Start(j) ==
  /\ job[j].state = "absent"
  /\ job' = [job EXCEPT ![j] = NewRow("queued")]
  /\ conn' = [conn EXCEPT ![j].state = "validating"]
  /\ outbox' = Emit(j, 0)
  /\ UNCHANGED <<queue, hand, tick, lost, faults>>

RecoverExpired_Silent(t) ==
  /\ tick[t].phase = "idle"
  /\ job' = [j \in Jobs |-> IF Expired(job[j]) THEN RecoveredRow(job[j]) ELSE job[j]]
  /\ tick' = [tick EXCEPT ![t].phase = "recovered"]
  /\ UNCHANGED <<conn, outbox, queue, hand, lost, faults>>

RecoverExpired(t) ==
  /\ tick[t].phase = "idle"
  /\ job' = [j \in Jobs |-> IF Expired(job[j]) THEN RecoveredRow(job[j]) ELSE job[j]]
  /\ outbox' = [j \in Jobs |->
       IF Expired(job[j]) THEN Append(outbox[j], Event(0)) ELSE outbox[j]]
  /\ tick' = [tick EXCEPT ![t].phase = "recovered"]
  /\ UNCHANGED <<conn, queue, hand, lost, faults>>

Pending_Early == {e \in UNION {{j} \X DOMAIN outbox[j] : j \in Jobs} :
                    ~ outbox[e[1]][e[2]].dispatched}
Pending == {e \in UNION {{j} \X DOMAIN outbox[j] : j \in Jobs} :
              outbox[e[1]][e[2]] = [availableIn |-> 0, dispatched |-> FALSE]}

Dispatching(batch) ==
  IF batch = {} THEN NoTick ELSE [phase |-> "dispatching", batch |-> batch, sent |-> NULL]

SelectPending(t) ==
  /\ tick[t].phase = "recovered"
  /\ tick' = [tick EXCEPT ![t] = Dispatching(Pending)]
  /\ UNCHANGED <<job, conn, outbox, queue, hand, lost, faults>>

\* The select throws: the tick ends and the next one starts over.
SelectFails(t) ==
  /\ tick[t].phase = "recovered"
  /\ Faulty
  /\ tick' = [tick EXCEPT ![t] = NoTick]
  /\ UNCHANGED <<job, conn, outbox, queue, hand, lost>>

\* Events of a batch go out in order of creation; events with the same
\* createdAt in any order, and no property depends on it.
Enqueue(t, e) ==
  /\ tick[t].phase = "dispatching" /\ tick[t].sent = NULL
  /\ e \in tick[t].batch
  /\ queue' = [queue EXCEPT ![e[1]] = @ + 1]
  /\ tick' = [tick EXCEPT ![t].batch = @ \ {e}, ![t].sent = e]
  /\ UNCHANGED <<job, conn, outbox, hand, lost, faults>>

EnqueueFails(t, e) ==
  /\ tick[t].phase = "dispatching" /\ tick[t].sent = NULL
  /\ e \in tick[t].batch
  /\ Faulty
  /\ tick' = [tick EXCEPT ![t] = Dispatching(@.batch \ {e})]
  /\ UNCHANGED <<job, conn, outbox, queue, hand, lost>>

MarkDispatched(t) ==
  /\ tick[t].sent # NULL
  /\ LET e == tick[t].sent
     IN  outbox' = [outbox EXCEPT ![e[1]][e[2]].dispatched = TRUE]
  /\ tick' = [tick EXCEPT ![t] = Dispatching(@.batch)]
  /\ UNCHANGED <<job, conn, queue, hand, lost, faults>>

MarkFails(t) ==
  /\ tick[t].sent # NULL
  /\ Faulty
  /\ tick' = [tick EXCEPT ![t] = Dispatching(@.batch)]
  /\ UNCHANGED <<job, conn, outbox, queue, hand, lost>>

-----------------------------------------------------------------------------
(* Delivery and claim. *)

SetHand(h, row) == hand' = [hand EXCEPT ![h] = row]
Leave(h) == SetHand(h, Free)
SetRow(h, row) == job' = [job EXCEPT ![hand[h].job] = row]

Deliver(h, j) ==
  /\ hand[h].phase = "idle" /\ queue[j] > 0
  /\ queue' = [queue EXCEPT ![j] = @ - 1]
  /\ SetHand(h, [Free EXCEPT !.phase = "delivered", !.job = j])
  /\ UNCHANGED <<job, conn, outbox, tick, lost, faults>>

Claim(h) ==
  /\ hand[h].phase = "delivered" /\ Claimable(Row(h))
  /\ SetRow(h, ClaimedRow(Row(h), h))
  /\ SetHand(h, [hand[h] EXCEPT !.phase = "claimed", !.attempt = Row(h).attemptCount + 1])
  /\ UNCHANGED <<conn, outbox, queue, tick, lost, faults>>

ClaimNotFound(h) ==
  /\ hand[h].phase = "delivered" /\ ~ Claimable(Row(h))
  /\ Leave(h)
  /\ UNCHANGED <<job, conn, outbox, queue, tick, lost, faults>>

\* The update throws: the delivery ends and pg-boss, with retryLimit 0, does
\* not repeat it.
ClaimFails(h) ==
  /\ hand[h].phase = "delivered"
  /\ Faulty
  /\ Leave(h)
  /\ lost' = lost \cup {hand[h].job}
  /\ UNCHANGED <<job, conn, outbox, queue, tick>>

\* The update commits, and the read of the connection after it throws.
ClaimReadFails(h) ==
  /\ hand[h].phase = "delivered" /\ Claimable(Row(h))
  /\ Faulty
  /\ SetRow(h, ClaimedRow(Row(h), h))
  /\ Leave(h)
  /\ UNCHANGED <<conn, outbox, queue, tick, lost>>

-----------------------------------------------------------------------------
(* The renewal timer, which runs from the claim until the handler returns.  *)
(* leaseLost is read at the admission only, so it is not kept up after it.  *)

Renew(h) ==
  /\ InFlight(h) /\ Holds(h, Row(h)) /\ Row(h).leaseIn < LeaseDuration
  /\ SetRow(h, RenewedRow(Row(h)))
  /\ UNCHANGED <<conn, outbox, queue, hand, tick, lost, faults>>

RenewRefused(h) ==
  /\ hand[h].phase = "claimed" /\ ~ hand[h].leaseLost /\ ~ Holds(h, Row(h))
  /\ SetHand(h, [hand[h] EXCEPT !.leaseLost = TRUE])
  /\ UNCHANGED <<job, conn, outbox, queue, tick, lost, faults>>

RenewFails(h) ==
  /\ hand[h].phase = "claimed" /\ ~ hand[h].leaseLost
  /\ Faulty
  /\ SetHand(h, [hand[h] EXCEPT !.leaseLost = TRUE])
  /\ UNCHANGED <<job, conn, outbox, queue, tick, lost>>

-----------------------------------------------------------------------------
(* Credentials, permit and call.  MicrosoftWorkLimiter.tla has the permit.  *)

\* Reading or decrypting the credentials throws, or the renewal at admission.
PrepareFails(h) ==
  /\ hand[h].phase = "claimed"
  /\ Faulty
  /\ Leave(h)
  /\ UNCHANGED <<job, conn, outbox, queue, tick, lost>>

Admissible(h) == ~ hand[h].leaseLost /\ Holds(h, Row(h))

Admit(h) ==
  /\ hand[h].phase = "claimed" /\ Admissible(h)
  /\ SetRow(h, RenewedRow(Row(h)))
  /\ SetHand(h, [hand[h] EXCEPT !.phase = "calling"])
  /\ UNCHANGED <<conn, outbox, queue, tick, lost, faults>>

AdmitRefused(h) ==
  /\ hand[h].phase = "claimed" /\ ~ Admissible(h)
  /\ Leave(h)
  /\ UNCHANGED <<job, conn, outbox, queue, tick, lost, faults>>

\* A throw of the client (timeout, transport, schema) is the answer
\* "unexpected_failure".
ProvisionerReturns(h, answer) ==
  /\ hand[h].phase = "calling"
  /\ SetHand(h, [hand[h] EXCEPT !.phase = "applying", !.result = answer])
  /\ UNCHANGED <<job, conn, outbox, queue, tick, lost, faults>>

-----------------------------------------------------------------------------
(* applyTenantValidationResult: a transaction that reads, decides and       *)
(* writes, and a second one when the first met a unique violation.  Its     *)
(* "now" is fixed when it is called, so once the lease was found unexpired  *)
(* only the state and the token can still refuse the write.                 *)

ApplySelect(h) ==
  /\ hand[h].phase = "applying" /\ Holds(h, Row(h))
  /\ LET retry == ShouldRetry(hand[h].result, Row(h))
     IN  SetHand(h, [hand[h] EXCEPT
           !.phase = "committing", !.retry = retry,
           !.availableIn = IF retry THEN RetryDelay[Row(h).attemptCount] ELSE 0])
  /\ UNCHANGED <<job, conn, outbox, queue, tick, lost, faults>>

ApplyStale(h) ==
  /\ \/ hand[h].phase = "applying" /\ ~ Holds(h, Row(h))
     \/ hand[h].phase \in {"committing", "collided"} /\ ~ Owns(h, Row(h))
  /\ Leave(h)
  /\ UNCHANGED <<job, conn, outbox, queue, tick, lost, faults>>

Committing(h) == hand[h].phase = "committing" /\ Owns(h, Row(h))

ApplySuccess(h) ==
  /\ Committing(h) /\ hand[h].result \in Tenants /\ ~ TenantTaken(hand[h].result)
  /\ SetRow(h, ReleasedRow(Row(h), "completed", 0, NULL))
  /\ conn' = [conn EXCEPT ![hand[h].job] = [state |-> "active", tenant |-> hand[h].result]]
  /\ Leave(h)
  /\ UNCHANGED <<outbox, queue, tick, lost, faults>>

ApplyCollides(h) ==
  /\ Committing(h) /\ hand[h].result \in Tenants /\ TenantTaken(hand[h].result)
  /\ SetHand(h, [hand[h] EXCEPT !.phase = "collided"])
  /\ UNCHANGED <<job, conn, outbox, queue, tick, lost, faults>>

ApplyRetry(h) ==
  /\ Committing(h) /\ hand[h].retry
  /\ SetRow(h, ReleasedRow(Row(h), "queued", hand[h].availableIn, hand[h].result))
  /\ conn' = [conn EXCEPT ![hand[h].job].state = "validating"]
  /\ outbox' = Emit(hand[h].job, hand[h].availableIn)
  /\ Leave(h)
  /\ UNCHANGED <<queue, tick, lost, faults>>

ApplyFailure(h) ==
  /\ Committing(h) /\ hand[h].result \in FailureCodes /\ ~ hand[h].retry
  /\ SetRow(h, ReleasedRow(Row(h), "failed", 0, hand[h].result))
  /\ conn' = [conn EXCEPT ![hand[h].job].state = "validation_failed"]
  /\ Leave(h)
  /\ UNCHANGED <<outbox, queue, tick, lost, faults>>

ApplyCollision_JobOnly(h) ==
  /\ hand[h].phase = "collided" /\ Owns(h, Row(h))
  /\ SetRow(h, ReleasedRow(Row(h), "failed", 0, Collision))
  /\ Leave(h)
  /\ UNCHANGED <<conn, outbox, queue, tick, lost, faults>>

ApplyCollision(h) ==
  /\ hand[h].phase = "collided" /\ Owns(h, Row(h))
  /\ SetRow(h, ReleasedRow(Row(h), "failed", 0, Collision))
  /\ conn' = [conn EXCEPT ![hand[h].job].state = "validation_failed"]
  /\ Leave(h)
  /\ UNCHANGED <<outbox, queue, tick, lost, faults>>

\* A statement of either transaction throws: it rolls back.
ApplyFails(h) ==
  /\ hand[h].phase \in {"applying", "committing", "collided"}
  /\ Faulty
  /\ Leave(h)
  /\ UNCHANGED <<job, conn, outbox, queue, tick, lost>>

-----------------------------------------------------------------------------
(* The process and the clock. *)

WorkerCrash ==
  /\ Faulty
  /\ lost' = lost \cup {hand[h].job : h \in {g \in Handlers : hand[g].phase = "delivered"}}
  /\ hand' = [h \in Handlers |-> Free]
  /\ tick' = [t \in Ticks |-> NoTick]
  /\ UNCHANGED <<job, conn, outbox, queue>>

Minus(n) == IF n = 0 THEN 0 ELSE n - 1

\* Leases that end with this step although their owner is still running: the
\* renewals of a third of the lease did not get through in time.
Lapsing == {j \in Jobs : /\ job[j].leaseIn = 1
                         /\ \E h \in Handlers : /\ InFlight(h) /\ hand[h].job = j
                                                /\ Owns(h, job[j])}

TimePasses ==
  /\ faults + Cardinality(Lapsing) <= MaxFaults
  /\ faults' = faults + Cardinality(Lapsing)
  /\ job' = [j \in Jobs |-> [job[j] EXCEPT !.availableIn = Minus(@), !.leaseIn = Minus(@)]]
  /\ outbox' = [j \in Jobs |-> [n \in DOMAIN outbox[j] |->
                                  [outbox[j][n] EXCEPT !.availableIn = Minus(@)]]]
  /\ hand' = [h \in Handlers |-> [hand[h] EXCEPT !.availableIn = Minus(@)]]
  /\ UNCHANGED <<conn, queue, tick, lost>>

-----------------------------------------------------------------------------
TickStep(t) ==
  \/ RecoverExpired(t) \/ SelectPending(t) \/ SelectFails(t)
  \/ MarkDispatched(t) \/ MarkFails(t)
  \/ \E e \in tick[t].batch : Enqueue(t, e) \/ EnqueueFails(t, e)

ClaimStep(h) == Claim(h) \/ ClaimNotFound(h) \/ ClaimFails(h) \/ ClaimReadFails(h)
RenewStep(h) == Renew(h) \/ RenewRefused(h) \/ RenewFails(h)
CallStep(h) ==
  \/ PrepareFails(h) \/ Admit(h) \/ AdmitRefused(h)
  \/ \E answer \in Answers : ProvisionerReturns(h, answer)
ApplyStep(h) ==
  \/ ApplySelect(h) \/ ApplyStale(h) \/ ApplySuccess(h) \/ ApplyCollides(h)
  \/ ApplyRetry(h) \/ ApplyFailure(h) \/ ApplyCollision(h) \/ ApplyFails(h)
HandlerStep(h) ==
  (\E j \in Jobs : Deliver(h, j)) \/ ClaimStep(h) \/ RenewStep(h) \/ CallStep(h) \/ ApplyStep(h)

Next ==
  \/ \E j \in Jobs : Start(j)
  \/ \E t \in Ticks : TickStep(t)
  \/ \E h \in Handlers : HandlerStep(h)
  \/ WorkerCrash
  \/ TimePasses

Spec == Init /\ [][Next]_vars

(***************************************************************************)
(* Fairness.  The tick is an interval timer, a dispatched message is       *)
(* fetched when a slot is free, a call ends within the client's timeout,   *)
(* and statements end.  Requests and faults are never owed.                *)
(***************************************************************************)
Fairness ==
  /\ WF_vars(TimePasses)
  /\ \A t \in Ticks :
       /\ WF_vars(RecoverExpired(t)) /\ WF_vars(SelectPending(t)) /\ WF_vars(MarkDispatched(t))
       /\ WF_vars(\E e \in tick[t].batch : Enqueue(t, e))
  /\ \A j \in Jobs : WF_vars(\E h \in Handlers : Deliver(h, j))
  /\ \A h \in Handlers :
       /\ WF_vars(Claim(h) \/ ClaimNotFound(h))
       /\ WF_vars(Renew(h))
       /\ WF_vars(Admit(h) \/ AdmitRefused(h))
       /\ WF_vars(\E answer \in Answers : ProvisionerReturns(h, answer))
       /\ WF_vars(ApplySelect(h) \/ ApplyStale(h) \/ ApplySuccess(h) \/ ApplyCollides(h)
                  \/ ApplyRetry(h) \/ ApplyFailure(h) \/ ApplyCollision(h))

FairSpec == Spec /\ Fairness

-----------------------------------------------------------------------------
(* Safety. *)

\* The type invariant; a lease never runs longer than one renewal grants.
TypeOK ==
  /\ job \in [Jobs -> JobRows]
  /\ conn \in [Jobs -> ConnRows]
  /\ outbox \in [Jobs -> Seq(Events)]
  /\ queue \in [Jobs -> Nat]
  /\ hand \in [Handlers -> HandRows]
  /\ tick \in [Ticks -> TickRows]
  /\ lost \subseteq Jobs
  /\ faults \in 0..MaxFaults

Delivered(j) == \E h \in Handlers : hand[h].phase = "delivered" /\ hand[h].job = j

\* A queued job is never forgotten: something that will start it is still
\* stored or under way, unless a delivery of it died before its claim.  Holds
\* across overlapping ticks, failed marks, duplicates, lapses and crashes of
\* the outbox dispatch (dispatchPendingTenantValidationOutboxEvents).
NoStrandedJob ==
  \A j \in Jobs : job[j].state = "queued" /\ j \notin lost =>
    \/ \E n \in DOMAIN outbox[j] : ~ outbox[j][n].dispatched
    \/ queue[j] > 0
    \/ Delivered(j)

\* Why NoStrandedJob is kept: what starts a queued job does so no earlier than
\* the job may be claimed, so the claim that consumes it cannot be refused.
\* (The outbox event of a retry carries the availableAt of the job.)
WakeUpKept ==
  \A j \in Jobs : job[j].state = "queued" /\ j \notin lost =>
    \/ \E n \in DOMAIN outbox[j] :
         /\ ~ outbox[j][n].dispatched
         /\ outbox[j][n].availableIn >= job[j].availableIn
         /\ \A t \in Ticks : tick[t].sent # <<j, n>>
    \/ job[j].availableIn = 0 /\ (queue[j] > 0 \/ Delivered(j))

\* The two rows of a validation tell the same story after every transaction:
\* a job in progress has a validating connection, a completed one an active
\* connection with its Microsoft tenant, a failed one a failed connection.
JobTenantAgreement ==
  \A j \in Jobs :
    /\ conn[j].state = CASE job[j].state = "absent" -> "absent"
                         [] job[j].state \in {"queued", "running"} -> "validating"
                         [] job[j].state = "completed" -> "active"
                         [] job[j].state = "failed" -> "validation_failed"
    /\ conn[j].tenant # NULL <=> conn[j].state = "active"

\* The decision between retry and failure is taken in one statement of the
\* result's transaction and written in a later one: whoever still owns the
\* job then runs its current attempt, and would decide the same again.
DecisionCurrent ==
  \A h \in Handlers : InFlight(h) /\ Owns(h, Row(h)) =>
    /\ hand[h].attempt = Row(h).attemptCount
    /\ hand[h].phase = "committing" => hand[h].retry = ShouldRetry(hand[h].result, Row(h))

\* No Microsoft tenant is active in two connections, although two results for
\* it may be applied at the same time.
UniqueOwner ==
  \A j, k \in Jobs :
    conn[j].state = "active" /\ conn[k].state = "active" /\ conn[j].tenant = conn[k].tenant => j = k

\* A customer who sees a failed job sees a reason that is true: a retryable
\* code only once three attempts were spent, the collision only when another
\* connection is active; and a completed job shows no code of an earlier try.
FailureJustified ==
  \A j \in Jobs :
    /\ job[j].state = "completed" => job[j].failure = NULL
    /\ job[j].state = "failed" =>
         /\ job[j].failure # NULL
         /\ job[j].failure \in TransientFailures => job[j].attemptCount >= 3
         /\ job[j].failure = Collision => \E k \in Jobs \ {j} : conn[k].state = "active"

\* recoverExpiredTenantValidationJobs does not look at attemptCount, so a job
\* may run more than three times; every attempt beyond the third is owed to a
\* fault of its own, never to the protocol itself.
AttemptsPaid == \A j \in Jobs : job[j].attemptCount <= 3 + faults

\* Two invocations never call the provisioner for one connection at the same
\* time: "One tenant connection permits one active Microsoft job, so its
\* isolated session is never raced" (docs/product/lifecycles.md).
OneCallPerConnection ==
  \A g, h \in Handlers :
    hand[g].phase = "calling" /\ hand[h].phase = "calling" /\ hand[g].job = hand[h].job => g = h

-----------------------------------------------------------------------------
(* What a step may never do. *)

\* Whoever runs a job keeps it until the lease has run out or until that same
\* attempt hands in its result: no recovery, claim or late result of another
\* attempt takes it away (lease_token in every WHERE clause).
LeaseRespected ==
  [][\A j \in Jobs : job[j].leaseToken # NULL /\ job'[j].leaseToken # job[j].leaseToken =>
       \/ Expired(job[j])
       \/ \E h \in Handlers : /\ hand[h].job = j /\ job[j].leaseToken = h
                              /\ hand[h].phase \in {"committing", "collided"}
                              /\ hand[h].attempt = job[j].attemptCount]_vars

\* A final outcome is final: duplicates, late results and recoveries leave the
\* job and its connection as they are.
OutcomeFinal ==
  [][\A j \in Jobs : job[j].state \in {"completed", "failed"} =>
       job'[j] = job[j] /\ conn'[j] = conn[j]]_vars

-----------------------------------------------------------------------------
(* The contract, and what must happen. *)

Outcome(j) ==
  CASE job[j].state \in {"queued", "running"} -> "processing"
    [] job[j].state = "completed" -> conn[j].tenant
    [] job[j].state = "failed" -> job[j].failure
    [] OTHER -> "absent"

Contract == INSTANCE TenantValidationContract WITH
  outcome <- [j \in Jobs |-> Outcome(j)],
  attempts <- [j \in Jobs |-> job[j].attemptCount]

\* The rows and the worker implement the contract of the public API.
ImplementsContract == Contract!Spec

Settled(j) == job[j].state \in {"completed", "failed"}

\* A requested validation ends, through crashes, lapses, lost marks and
\* failed statements, unless one of its deliveries died before its claim.
RequestSettles == \A j \in Jobs : (job[j].state # "absent") ~> (Settled(j) \/ j \in lost)

\* The same without the exception: "The worker handles durable job retries,
\* crashes, infrastructure failures, and lease recovery"
\* (docs/architecture/provisioner.md).
EveryRequestSettles == \A j \in Jobs : (job[j].state # "absent") ~> Settled(j)
=============================================================================
