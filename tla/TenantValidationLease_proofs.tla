--------------------- MODULE TenantValidationLease_proofs ---------------------
(* Theorems of TenantValidationJobs about attempts and their leases.  They   *)
(* rest on what one step may do to the row of a job (RowSteps) and to an      *)
(* invocation of the handler (HandSteps).                                     *)
EXTENDS TenantValidationJobs_proofs

-----------------------------------------------------------------------------
(* What one step does to the row of a job. *)

Released(row, new) ==
  \E state \in {"queued", "completed", "failed"}, delay \in Nat, failure \in FailureCodes \cup {NULL} :
    /\ state # "queued" => delay = 0
    /\ new = ReleasedRow(row, state, delay, failure)
Aged(row, new) == new = [row EXCEPT !.availableIn = Minus(@), !.leaseIn = Minus(@)]

ClaimedBy(h, j) ==
  /\ hand[h].phase = "delivered" /\ hand[h].job = j
  /\ Claimable(job[j]) /\ job'[j] = ClaimedRow(job[j], h)
RenewedBy(h, j) ==
  /\ InFlight(h) /\ hand[h].job = j
  /\ Owns(h, job[j]) /\ job'[j] = RenewedRow(job[j])
ReleasedBy(h, j) ==
  /\ hand[h].phase \in {"committing", "collided"} /\ hand[h].job = j
  /\ Owns(h, job[j]) /\ Released(job[j], job'[j])

RowStep(j) ==
  \/ job'[j] = job[j]
  \/ job[j].state = "absent" /\ job'[j] = NewRow("queued")
  \/ Expired(job[j]) /\ job'[j] = RecoveredRow(job[j])
  \/ \E h \in Handlers : ClaimedBy(h, j) \/ RenewedBy(h, j) \/ ReleasedBy(h, j)
  \/ Aged(job[j], job'[j])

LEMMA SetRowStep ==
  ASSUME Base, NEW h \in Handlers, hand[h].phase # "idle", NEW row, SetRow(h, row)
  PROVE  /\ hand[h].job \in Jobs /\ Row(h) = job[hand[h].job]
         /\ job'[hand[h].job] = row
         /\ \A j \in Jobs \ {hand[h].job} : job'[j] = job[j]
BY RowType DEF SetRow, Row, Base, TypeOK

LEMMA RowSteps ==
  ASSUME Base, Next
  PROVE  \A j \in Jobs : RowStep(j)
<1> USE DEF Base
<1>0. ASSUME UNCHANGED job PROVE \A j \in Jobs : RowStep(j)
  BY <1>0 DEF RowStep
<1>1. ASSUME NEW h \in Handlers, NEW row, hand[h].phase # "idle", SetRow(h, row),
             \/ ClaimedBy(h, hand[h].job) \/ RenewedBy(h, hand[h].job) \/ ReleasedBy(h, hand[h].job)
      PROVE  \A j \in Jobs : RowStep(j)
  BY <1>1, SetRowStep DEF RowStep
<1>2. ASSUME NEW j \in Jobs, Start(j) PROVE \A k \in Jobs : RowStep(k)
  BY <1>2 DEF Start, RowStep, TypeOK
<1>3. ASSUME NEW t \in Ticks, TickStep(t) PROVE \A k \in Jobs : RowStep(k)
  <2>1. CASE RecoverExpired(t)
    BY <2>1 DEF RecoverExpired, RowStep
  <2>2. CASE UNCHANGED job
    BY <1>0, <2>2
  <2> QED BY <1>3, <2>1, <2>2
          DEF TickStep, SelectPending, SelectFails, MarkDispatched, MarkFails, Enqueue, EnqueueFails
<1>4. ASSUME NEW h \in Handlers, ClaimStep(h) PROVE \A k \in Jobs : RowStep(k)
  <2>1. CASE Claim(h) \/ ClaimReadFails(h)
    <3>1. /\ hand[h].phase = "delivered" /\ Claimable(Row(h))
          /\ SetRow(h, ClaimedRow(Row(h), h))
      BY <2>1 DEF Claim, ClaimReadFails
    <3>2. ClaimedBy(h, hand[h].job)
      BY <3>1, SetRowStep DEF ClaimedBy
    <3> QED BY <1>1, <3>1, <3>2
  <2>2. CASE UNCHANGED job
    BY <1>0, <2>2
  <2> QED BY <1>4, <2>1, <2>2 DEF ClaimStep, ClaimNotFound, ClaimFails
<1>5. ASSUME NEW h \in Handlers, RenewStep(h) \/ CallStep(h) PROVE \A k \in Jobs : RowStep(k)
  <2>1. CASE Renew(h) \/ Admit(h)
    <3>1. InFlight(h) /\ Owns(h, Row(h)) /\ SetRow(h, RenewedRow(Row(h)))
      BY <2>1 DEF Renew, Admit, Admissible, Holds, InFlight
    <3>2. hand[h].phase # "idle"
      BY <3>1 DEF InFlight
    <3>3. RenewedBy(h, hand[h].job)
      BY <3>1, <3>2, SetRowStep DEF RenewedBy
    <3> QED BY <1>1, <3>1, <3>2, <3>3
  <2>2. CASE UNCHANGED job
    BY <1>0, <2>2
  <2> QED BY <1>5, <2>1, <2>2
          DEF RenewStep, CallStep, RenewRefused, RenewFails, PrepareFails, AdmitRefused,
              ProvisionerReturns
<1>6. ASSUME NEW h \in Handlers, ApplyStep(h) PROVE \A k \in Jobs : RowStep(k)
  <2>1. ASSUME NEW state \in {"queued", "completed", "failed"}, NEW delay \in Nat,
               NEW failure \in FailureCodes \cup {NULL}, state # "queued" => delay = 0,
               hand[h].phase \in {"committing", "collided"}, Owns(h, Row(h)),
               SetRow(h, ReleasedRow(Row(h), state, delay, failure))
        PROVE  \A k \in Jobs : RowStep(k)
    <3>1. Released(Row(h), ReleasedRow(Row(h), state, delay, failure))
      BY <2>1 DEF Released
    <3>2. ReleasedBy(h, hand[h].job)
      BY <2>1, <3>1, SetRowStep DEF ReleasedBy
    <3> QED BY <1>1, <2>1, <3>2
  <2>2. hand[h].availableIn \in Nat /\ hand[h].result \in Tenants \cup FailureCodes \cup {NULL}
    BY DEF TypeOK, HandRows
  <2>3. CASE ApplySuccess(h)
    BY <2>1, <2>3 DEF ApplySuccess, Committing
  <2>4. CASE ApplyRetry(h)
    <3>1. hand[h].result \in FailureCodes
      BY <2>4 DEF ApplyRetry, HandsKnow, HandKnows, FailureCodes
    <3> QED BY <2>1, <2>2, <2>4, <3>1 DEF ApplyRetry, Committing
  <2>5. CASE ApplyFailure(h)
    BY <2>1, <2>5 DEF ApplyFailure, Committing
  <2>6. CASE ApplyCollision(h)
    BY <2>1, <2>6 DEF ApplyCollision, FailureCodes
  <2>7. CASE UNCHANGED job
    BY <1>0, <2>7
  <2> QED BY <1>6, <2>3, <2>4, <2>5, <2>6, <2>7
          DEF ApplyStep, ApplySelect, ApplyStale, ApplyCollides, ApplyFails
<1>7. CASE WorkerCrash
  BY <1>0, <1>7 DEF WorkerCrash
<1>8. CASE TimePasses
  BY <1>8 DEF TimePasses, RowStep, Aged
<1>9. ASSUME NEW h \in Handlers, NEW j \in Jobs, Deliver(h, j) PROVE \A k \in Jobs : RowStep(k)
  BY <1>0, <1>9 DEF Deliver
<1> QED BY <1>2, <1>3, <1>4, <1>5, <1>6, <1>7, <1>8, <1>9 DEF Next, HandlerStep

-----------------------------------------------------------------------------
(* What one step does to a connection and to an invocation. *)

ConnRowStep(j) ==
  \/ conn'[j] = conn[j]
  \/ job[j].state = "absent"
  \/ \E h \in Handlers : Owns(h, job[j])

LEMMA ConnRowSteps ==
  ASSUME Base, Next
  PROVE  \A j \in Jobs : ConnRowStep(j)
<1> USE DEF Base
<1>0. ASSUME UNCHANGED conn PROVE \A j \in Jobs : ConnRowStep(j)
  BY <1>0 DEF ConnRowStep
<1>1. ASSUME NEW j \in Jobs, Start(j) PROVE \A k \in Jobs : ConnRowStep(k)
  BY <1>1 DEF Start, ConnRowStep, TypeOK
<1>2. ASSUME NEW h \in Handlers, ApplyStep(h) PROVE \A k \in Jobs : ConnRowStep(k)
  <2>1. ASSUME NEW row, hand[h].phase # "idle", Owns(h, Row(h)),
               conn' = [conn EXCEPT ![hand[h].job] = row]
        PROVE  \A k \in Jobs : ConnRowStep(k)
    BY <2>1, RowType DEF Row, ConnRowStep, TypeOK
  <2>2. CASE ApplySuccess(h)
    BY <2>1, <2>2 DEF ApplySuccess, Committing
  <2>3. CASE ApplyRetry(h) \/ ApplyFailure(h) \/ ApplyCollision(h)
    <3>1. Owns(h, Row(h)) /\ hand[h].phase # "idle"
      BY <2>3 DEF ApplyRetry, ApplyFailure, ApplyCollision, Committing
    <3>2. \E row : conn' = [conn EXCEPT ![hand[h].job] = row]
      BY <2>3, Zenon DEF ApplyRetry, ApplyFailure, ApplyCollision
    <3> QED BY <2>1, <3>1, <3>2
  <2>4. CASE UNCHANGED conn
    BY <1>0, <2>4
  <2> QED BY <1>2, <2>2, <2>3, <2>4
          DEF ApplyStep, ApplySelect, ApplyStale, ApplyCollides, ApplyFails
<1>3. ASSUME NEW t \in Ticks, TickStep(t) PROVE UNCHANGED conn
  BY <1>3 DEF TickStep, RecoverExpired, SelectPending, SelectFails, MarkDispatched, MarkFails,
              Enqueue, EnqueueFails
<1>4. ASSUME NEW h \in Handlers, ClaimStep(h) \/ RenewStep(h) PROVE UNCHANGED conn
  BY <1>4 DEF ClaimStep, Claim, ClaimNotFound, ClaimFails, ClaimReadFails,
              RenewStep, Renew, RenewRefused, RenewFails
<1>5. ASSUME NEW h \in Handlers, CallStep(h) PROVE UNCHANGED conn
  BY <1>5 DEF CallStep, PrepareFails, Admit, AdmitRefused, ProvisionerReturns
<1>6. ASSUME NEW h \in Handlers, NEW j \in Jobs, Deliver(h, j) PROVE UNCHANGED conn
  BY <1>6 DEF Deliver
<1>7. CASE WorkerCrash \/ TimePasses
  BY <1>0, <1>7 DEF WorkerCrash, TimePasses
<1> QED BY <1>0, <1>1, <1>2, <1>3, <1>4, <1>5, <1>6, <1>7 DEF Next, HandlerStep

\* The same invocation goes on: what it knows stays, unless it has just
\* claimed its job or just decided about its result.
SameCall(g) ==
  /\ InFlight(g)
  /\ hand'[g].job = hand[g].job /\ hand'[g].attempt = hand[g].attempt
  /\ hand'[g].phase = "committing" =>
       /\ hand[g].phase = "committing"
       /\ hand'[g].retry = hand[g].retry /\ hand'[g].result = hand[g].result

HandStep(g) == InFlight(g)' => SameCall(g) \/ ApplySelect(g) \/ Claim(g)

\* A step of slot h leaves the other slots alone.
LEMMA OtherHands ==
  ASSUME Base, NEW h \in Handlers, NEW row, SetHand(h, row), HandStep(h)
  PROVE  \A g \in Handlers : HandStep(g)
BY DEF SetHand, HandStep, SameCall, InFlight, Base, TypeOK

LEMMA LeftHands ==
  ASSUME Base, NEW h \in Handlers, Leave(h)
  PROVE  \A g \in Handlers : HandStep(g)
<1>1. HandStep(h)
  BY DEF Leave, SetHand, Free, HandStep, InFlight, Base, TypeOK
<1> QED BY <1>1, OtherHands DEF Leave

LEMMA HandSteps ==
  ASSUME Base, Next
  PROVE  \A g \in Handlers : HandStep(g)
<1> USE DEF Base
<1>0. ASSUME UNCHANGED hand PROVE \A g \in Handlers : HandStep(g)
  BY <1>0 DEF HandStep, SameCall, InFlight
<1>1. ASSUME NEW h \in Handlers, NEW row, SetHand(h, row),
             \/ row.phase \in {"idle", "delivered"}
             \/ ApplySelect(h) \/ Claim(h)
             \/ /\ InFlight(h) /\ row.job = hand[h].job /\ row.attempt = hand[h].attempt
                /\ row.phase # "committing"
      PROVE  \A g \in Handlers : HandStep(g)
  <2>1. hand'[h] = row
    BY <1>1 DEF SetHand, TypeOK
  <2>2. HandStep(h)
    BY <1>1, <2>1 DEF HandStep, SameCall, InFlight
  <2> QED BY <1>1, <2>2, OtherHands
<1>2. ASSUME NEW h \in Handlers, NEW j \in Jobs, Deliver(h, j)
      PROVE  \A g \in Handlers : HandStep(g)
  BY <1>1, <1>2 DEF Deliver, Free
<1>3. ASSUME NEW h \in Handlers, ClaimStep(h) PROVE \A g \in Handlers : HandStep(g)
  <2>1. CASE Claim(h)
    BY <1>1, <2>1 DEF Claim
  <2> QED BY <1>3, <2>1, LeftHands DEF ClaimStep, ClaimNotFound, ClaimFails, ClaimReadFails
<1>4. ASSUME NEW h \in Handlers, RenewStep(h) PROVE \A g \in Handlers : HandStep(g)
  <2>1. CASE Renew(h)
    BY <1>0, <2>1 DEF Renew
  <2>2. CASE RenewRefused(h) \/ RenewFails(h)
    <3>1. hand[h] \in HandRows /\ hand[h].phase = "claimed" /\ InFlight(h)
      BY <2>2 DEF RenewRefused, RenewFails, InFlight, TypeOK
    <3> QED BY <1>1, <2>2, <3>1 DEF RenewRefused, RenewFails, HandRows
  <2> QED BY <1>4, <2>1, <2>2 DEF RenewStep
<1>5. ASSUME NEW h \in Handlers, CallStep(h) PROVE \A g \in Handlers : HandStep(g)
  <2>0. hand[h] \in HandRows
    BY DEF TypeOK
  <2>1. CASE Admit(h)
    BY <1>1, <2>0, <2>1 DEF Admit, InFlight, HandRows
  <2>2. ASSUME NEW answer \in Answers, ProvisionerReturns(h, answer)
        PROVE  \A g \in Handlers : HandStep(g)
    BY <1>1, <2>0, <2>2 DEF ProvisionerReturns, InFlight, HandRows
  <2> QED BY <1>5, <2>1, <2>2, LeftHands DEF CallStep, PrepareFails, AdmitRefused
<1>6. ASSUME NEW h \in Handlers, ApplyStep(h) PROVE \A g \in Handlers : HandStep(g)
  <2>0. hand[h] \in HandRows
    BY DEF TypeOK
  <2>1. CASE ApplySelect(h)
    BY <1>1, <2>1 DEF ApplySelect
  <2>2. CASE ApplyCollides(h)
    BY <1>1, <2>0, <2>2 DEF ApplyCollides, Committing, InFlight, HandRows
  <2> QED BY <1>6, <2>1, <2>2, LeftHands
          DEF ApplyStep, ApplyStale, ApplySuccess, ApplyRetry, ApplyFailure, ApplyCollision, ApplyFails
<1>7. CASE WorkerCrash
  BY <1>7 DEF WorkerCrash, Free, HandStep, InFlight
<1>8. CASE TimePasses
  <2>1. \A g \in Handlers : hand'[g] = [hand[g] EXCEPT !.availableIn = Minus(@)]
    BY <1>8 DEF TimePasses
  <2>2. \A g \in Handlers : /\ hand'[g].phase = hand[g].phase /\ hand'[g].job = hand[g].job
                            /\ hand'[g].attempt = hand[g].attempt
                            /\ hand'[g].retry = hand[g].retry /\ hand'[g].result = hand[g].result
    <3> TAKE g \in Handlers
    <3>1. hand[g] \in HandRows
      BY DEF TypeOK
    <3>2. hand'[g] = [hand[g] EXCEPT !.availableIn = Minus(hand[g].availableIn)]
      BY <2>1
    <3> HIDE DEF Base
    <3> QED BY <3>1, <3>2 DEF HandRows
  <2> QED BY <2>2, Zenon DEF HandStep, SameCall, InFlight
<1>9. ASSUME NEW t \in Ticks, TickStep(t) PROVE UNCHANGED hand
  BY <1>9 DEF TickStep, RecoverExpired, SelectPending, SelectFails, MarkDispatched, MarkFails,
              Enqueue, EnqueueFails
<1>10. ASSUME NEW j \in Jobs, Start(j) PROVE UNCHANGED hand
  BY <1>10 DEF Start
<1> QED BY <1>0, <1>2, <1>3, <1>4, <1>5, <1>6, <1>7, <1>8, <1>9, <1>10 DEF Next, HandlerStep

-----------------------------------------------------------------------------
(* The invariant: a token is kept by running jobs only, a job with an outcome *)
(* waits for nothing, and an owner knows its attempt.                         *)

TokensShape ==
  \A j \in Jobs :
    /\ job[j].leaseToken # NULL => job[j].state = "running"
    /\ job[j].state \in {"completed", "failed"} => job[j].availableIn = 0 /\ job[j].leaseIn = 0

Fenced == Base /\ TokensShape /\ DecisionCurrent

LEMMA InitFenced == Init => Fenced
BY InitBase DEF Init, Fenced, TokensShape, DecisionCurrent, NewRow, Free, InFlight

LEMMA TokensShapeStep ==
  ASSUME Base, TokensShape, Next
  PROVE  TokensShape'
<1> SUFFICES ASSUME NEW j \in Jobs
             PROVE  /\ job'[j].leaseToken # NULL => job'[j].state = "running"
                    /\ job'[j].state \in {"completed", "failed"} =>
                         job'[j].availableIn = 0 /\ job'[j].leaseIn = 0
  BY DEF TokensShape
<1>0. job[j] \in JobRows
  BY DEF Base, TypeOK
<1>1. RowStep(j)
  BY RowSteps
<1>2. CASE job'[j] = job[j]
  BY <1>2 DEF TokensShape
<1>3. CASE job'[j] = NewRow("queued")
  BY <1>3 DEF NewRow
<1>4. CASE job'[j] = RecoveredRow(job[j])
  BY <1>0, <1>4 DEF RecoveredRow, ReleasedRow, JobRows
<1>5. ASSUME NEW h \in Handlers, ClaimedBy(h, j) PROVE job'[j].state = "running"
  BY <1>0, <1>5 DEF ClaimedBy, ClaimedRow, JobRows
<1>6. ASSUME NEW h \in Handlers, RenewedBy(h, j) PROVE job'[j].state = "running"
  BY <1>0, <1>6 DEF RenewedBy, RenewedRow, Owns, JobRows
<1>7. ASSUME NEW h \in Handlers, ReleasedBy(h, j)
      PROVE  /\ job'[j].leaseToken = NULL /\ job'[j].leaseIn = 0
             /\ job'[j].state # "queued" => job'[j].availableIn = 0
  BY <1>0, <1>7 DEF ReleasedBy, Released, ReleasedRow, JobRows
<1>8. CASE Aged(job[j], job'[j])
  BY <1>0, <1>8 DEF Aged, Minus, TokensShape, JobRows
<1> QED BY <1>1, <1>2, <1>3, <1>4, <1>5, <1>6, <1>7, <1>8 DEF RowStep

\* A slot that owns a job after a step either claimed it with that step or
\* owned it, in the same attempt, before.
LEMMA TokenKept ==
  ASSUME Base, Next, NEW h \in Handlers, NEW j \in Jobs, Owns(h, job'[j])
  PROVE  \/ Owns(h, job[j]) /\ job'[j].attemptCount = job[j].attemptCount
         \/ ClaimedBy(h, j)
<1>0. job[j] \in JobRows /\ h # NULL
  BY NullAssumption DEF Base, TypeOK
<1>1. RowStep(j)
  BY RowSteps
<1>2. CASE job'[j] = job[j]
  BY <1>2
<1>3. job'[j].leaseToken # NULL
  BY <1>0 DEF Owns
<1>4. NewRow("queued").leaseToken = NULL /\ RecoveredRow(job[j]).leaseToken = NULL
  BY <1>0 DEF NewRow, RecoveredRow, ReleasedRow, JobRows
<1>5. ASSUME NEW g \in Handlers, ClaimedBy(g, j) PROVE ClaimedBy(h, j)
  <2>1. job'[j].leaseToken = g
    BY <1>0, <1>5 DEF ClaimedBy, ClaimedRow, JobRows
  <2> QED BY <1>5, <2>1 DEF Owns
<1>6. ASSUME NEW g \in Handlers, RenewedBy(g, j)
      PROVE  Owns(h, job[j]) /\ job'[j].attemptCount = job[j].attemptCount
  BY <1>0, <1>6 DEF RenewedBy, RenewedRow, Owns, JobRows
<1>7. ASSUME NEW g \in Handlers, ReleasedBy(g, j) PROVE FALSE
  BY <1>0, <1>3, <1>7 DEF ReleasedBy, Released, ReleasedRow, JobRows
<1>8. CASE Aged(job[j], job'[j])
  BY <1>0, <1>8 DEF Aged, Owns, JobRows
<1> QED BY <1>1, <1>2, <1>3, <1>4, <1>5, <1>6, <1>7, <1>8 DEF RowStep

LEMMA DecisionCurrentStep ==
  ASSUME Fenced, Next
  PROVE  DecisionCurrent'
<1> USE DEF Fenced
<1> SUFFICES ASSUME NEW h \in Handlers, InFlight(h)', Owns(h, Row(h)')
             PROVE  /\ hand'[h].attempt = Row(h)'.attemptCount
                    /\ hand'[h].phase = "committing" =>
                         hand'[h].retry = ShouldRetry(hand'[h].result, Row(h)')
  BY DEF DecisionCurrent, Owns, ShouldRetry
<1> DEFINE j == hand[h].job
<1>0. HandStep(h) /\ hand[h].phase # "idle" /\ hand[h] \in HandRows /\ j \in Jobs
  <2>1. HandStep(h)
    BY HandSteps
  <2>2. hand[h].phase # "idle"
    BY <2>1 DEF HandStep, SameCall, InFlight, ApplySelect, Claim
  <2> QED BY <2>1, <2>2, RowType
<1>1. CASE Claim(h)
  <2>1. hand'[h].phase = "claimed" /\ hand'[h].job = j
        /\ hand'[h].attempt = job[j].attemptCount + 1
    BY <1>0, <1>1 DEF Claim, SetHand, Row, TypeOK, Base, HandRows
  <2>2. job'[j] = ClaimedRow(job[j], h) /\ job[j] \in JobRows
    BY <1>0, <1>1, SetRowStep DEF Claim, TypeOK, Base
  <2>3. job'[j].attemptCount = job[j].attemptCount + 1
    BY <2>2 DEF ClaimedRow, JobRows
  <2> QED BY <2>1, <2>3 DEF Row
<1>2. ASSUME InFlight(h), hand'[h].job = j, hand'[h].attempt = hand[h].attempt
      PROVE  /\ Owns(h, Row(h)) /\ Row(h)'.attemptCount = Row(h).attemptCount
             /\ hand'[h].attempt = Row(h)'.attemptCount
  <2>1. ~ ClaimedBy(h, j)
    BY <1>2 DEF ClaimedBy, InFlight
  <2>2. Owns(h, job[j]) /\ job'[j].attemptCount = job[j].attemptCount
    BY <1>0, <1>2, <2>1, TokenKept DEF Row
  <2> QED BY <1>2, <2>2 DEF Row, DecisionCurrent
<1>3. CASE SameCall(h)
  BY <1>2, <1>3 DEF SameCall, DecisionCurrent, ShouldRetry
<1>4. CASE ApplySelect(h)
  <2>1. /\ InFlight(h) /\ hand'[h].job = j /\ hand'[h].attempt = hand[h].attempt
        /\ hand'[h].retry = ShouldRetry(hand[h].result, Row(h))
        /\ hand'[h].result = hand[h].result
    BY <1>0, <1>4 DEF ApplySelect, SetHand, InFlight, TypeOK, Base, HandRows
  <2> QED BY <1>2, <2>1 DEF ShouldRetry
<1> QED BY <1>0, <1>1, <1>3, <1>4 DEF HandStep

LEMMA FencedStep == Fenced /\ [Next]_vars => Fenced'
<1>1. ASSUME Fenced, Next PROVE Fenced'
  BY <1>1, BaseStep, TokensShapeStep, DecisionCurrentStep DEF Fenced
<1>2. ASSUME Fenced, UNCHANGED vars PROVE Fenced'
  <2>1. Base'
    BY <1>2, BaseStep DEF Fenced
  <2>2. UNCHANGED <<job, hand>>
    BY <1>2 DEF vars
  <2>3. TokensShape' /\ DecisionCurrent'
    BY <1>2, <2>2 DEF Fenced, TokensShape, DecisionCurrent, InFlight, Owns, Row, ShouldRetry
  <2> QED BY <2>1, <2>3 DEF Fenced
<1> QED BY <1>1, <1>2

LEMMA FencedHolds == Spec => []Fenced
BY InitFenced, FencedStep, PTL DEF Spec

-----------------------------------------------------------------------------
(* The theorems. *)

\* The choice between retry and failure, made in one statement of a result's
\* transaction, is still right when a later one writes it: whoever owns the
\* job then runs its current attempt (applyTenantValidationResult).
THEOREM DecisionsAreCurrent == Spec => []DecisionCurrent
<1>1. Fenced => DecisionCurrent
  BY DEF Fenced
<1> QED BY <1>1, FencedHolds, PTL

\* The lease of a job is taken from its owner only when it has run out, or by
\* the result of that same attempt (lease_token in every WHERE clause).
THEOREM LeasesAreRespected == Spec => LeaseRespected
<1> DEFINE Excused(j) ==
      \/ Expired(job[j])
      \/ \E h \in Handlers : /\ hand[h].job = j /\ job[j].leaseToken = h
                             /\ hand[h].phase \in {"committing", "collided"}
                             /\ hand[h].attempt = job[j].attemptCount
<1>1. ASSUME Fenced, Next, NEW j \in Jobs,
             job[j].leaseToken # NULL, job'[j].leaseToken # job[j].leaseToken
      PROVE  Excused(j)
  <2>0. job[j] \in JobRows /\ job[j].state = "running"
    BY <1>1 DEF Fenced, Base, TypeOK, TokensShape
  <2>1. RowStep(j)
    BY <1>1, RowSteps DEF Fenced
  <2>2. ASSUME NEW h \in Handlers, ClaimedBy(h, j) PROVE Expired(job[j])
    BY <2>0, <2>2 DEF ClaimedBy, Claimable
  <2>3. ASSUME NEW h \in Handlers, RenewedBy(h, j) PROVE FALSE
    BY <1>1, <2>0, <2>3 DEF RenewedBy, RenewedRow, JobRows
  <2>4. ASSUME NEW h \in Handlers, ReleasedBy(h, j) PROVE Excused(j)
    <3>1. hand[h].phase \in {"committing", "collided"} /\ hand[h].job = j /\ Owns(h, job[j])
      BY <2>4 DEF ReleasedBy
    <3>2. hand[h].attempt = job[j].attemptCount
      BY <1>1, <3>1 DEF Fenced, DecisionCurrent, InFlight, Row
    <3> QED BY <3>1, <3>2 DEF Owns
  <2>5. ~ Aged(job[j], job'[j])
    BY <1>1, <2>0 DEF Aged, JobRows
  <2> QED BY <1>1, <2>0, <2>1, <2>2, <2>3, <2>4, <2>5 DEF RowStep
<1>2. ASSUME Fenced, [Next]_vars, NEW j \in Jobs,
             job[j].leaseToken # NULL, job'[j].leaseToken # job[j].leaseToken
      PROVE  Excused(j)
  BY <1>1, <1>2 DEF vars
<1>3. Fenced /\ [Next]_vars =>
        \A j \in Jobs : job[j].leaseToken # NULL /\ job'[j].leaseToken # job[j].leaseToken => Excused(j)
  BY <1>2
<1> QED BY <1>3, FencedHolds, PTL DEF Spec, LeaseRespected

-----------------------------------------------------------------------------
(* What is final, and why it is true. *)

LEMMA FinalRows ==
  ASSUME Fenced, Next, NEW j \in Jobs, job[j].state \in {"completed", "failed"}
  PROVE  job'[j] = job[j] /\ conn'[j] = conn[j]
<1>0. job[j] \in JobRows /\ job[j].availableIn = 0 /\ job[j].leaseIn = 0
  BY DEF Fenced, Base, TypeOK, TokensShape
<1>1. RowStep(j) /\ ConnRowStep(j)
  BY RowSteps, ConnRowSteps DEF Fenced
<1>2. \A h \in Handlers : ~ Owns(h, job[j])
  BY DEF Owns
<1>3. ~ Claimable(job[j]) /\ ~ Expired(job[j]) /\ job[j].state # "absent"
  BY DEF Claimable, Expired
<1>4. CASE Aged(job[j], job'[j])
  <2>1. [job[j] EXCEPT !.availableIn = 0, !.leaseIn = 0] = job[j]
    BY <1>0 DEF JobRows
  <2> QED BY <1>0, <1>1, <1>2, <1>3, <1>4, <2>1 DEF Aged, Minus, ConnRowStep
<1>5. job'[j] = job[j] \/ Aged(job[j], job'[j])
  BY <1>1, <1>2, <1>3 DEF RowStep, ClaimedBy, RenewedBy, ReleasedBy
<1> QED BY <1>1, <1>2, <1>3, <1>4, <1>5 DEF ConnRowStep

\* A job that was completed or failed stays as it is, and so does its
\* connection, whatever duplicate, late result or recovery follows.
THEOREM OutcomesAreFinal == Spec => OutcomeFinal
<1>1. Fenced /\ [Next]_vars =>
        \A j \in Jobs : job[j].state \in {"completed", "failed"} =>
          job'[j] = job[j] /\ conn'[j] = conn[j]
  BY FinalRows DEF vars
<1> QED BY <1>1, FencedHolds, PTL DEF Spec, OutcomeFinal

-----------------------------------------------------------------------------
(* Steps by what they do to the outcome of a job and to its attempts. *)

Finishes(h) == ApplySuccess(h) \/ ApplyFailure(h) \/ ApplyCollision(h)

\* No job is created, claimed or settled.
QuietRow(j) ==
  /\ job'[j].attemptCount = job[j].attemptCount
  /\ \/ job'[j].state = job[j].state /\ job'[j].failure = job[j].failure
     \/ {job[j].state, job'[j].state} \subseteq {"queued", "running"}
Quiet == (\A j \in Jobs : QuietRow(j)) /\ UNCHANGED conn

LEMMA StepKinds ==
  ASSUME Fenced, JobTenantAgreement, Next
  PROVE  \/ \E j \in Jobs : Start(j)
         \/ \E h \in Handlers : Claim(h) \/ ClaimReadFails(h) \/ Finishes(h)
         \/ Quiet
<1> USE DEF Fenced, Base
<1>0. \A j \in Jobs : job[j] \in JobRows /\ conn[j] \in ConnRows
  BY DEF TypeOK
<1>1. ASSUME UNCHANGED <<job, conn>> PROVE Quiet
  BY <1>1 DEF Quiet, QuietRow
<1>2. ASSUME NEW h \in Handlers, NEW row, hand[h].phase # "idle", SetRow(h, row), UNCHANGED conn,
             row.attemptCount = Row(h).attemptCount,
             {Row(h).state, row.state} \subseteq {"queued", "running"}
      PROVE  Quiet
  <2>1. \A j \in Jobs : QuietRow(j)
    BY <1>2, SetRowStep DEF QuietRow
  <2> QED BY <1>2, <2>1 DEF Quiet
<1>3. ASSUME NEW t \in Ticks, TickStep(t) PROVE Quiet
  <2>1. CASE RecoverExpired(t)
    <3>1. ASSUME NEW j \in Jobs PROVE QuietRow(j)
      BY <1>0, <2>1 DEF RecoverExpired, Expired, RecoveredRow, ReleasedRow, JobRows, QuietRow
    <3> QED BY <2>1, <3>1 DEF RecoverExpired, Quiet
  <2>2. CASE UNCHANGED <<job, conn>>
    BY <1>1, <2>2
  <2> QED BY <1>3, <2>1, <2>2
          DEF TickStep, SelectPending, SelectFails, MarkDispatched, MarkFails, Enqueue, EnqueueFails
<1>4. ASSUME NEW h \in Handlers, ClaimStep(h), ~ Claim(h), ~ ClaimReadFails(h) PROVE Quiet
  BY <1>1, <1>4 DEF ClaimStep, ClaimNotFound, ClaimFails
<1>5. ASSUME NEW h \in Handlers, RenewStep(h) \/ CallStep(h) PROVE Quiet
  <2>1. CASE Renew(h) \/ Admit(h)
    <3>1. hand[h].phase # "idle" /\ Row(h).state = "running" /\ UNCHANGED conn
      BY <2>1 DEF Renew, InFlight, Admit, Admissible, Holds, Owns
    <3>2. RenewedRow(Row(h)).state = "running" /\ RenewedRow(Row(h)).attemptCount = Row(h).attemptCount
      BY <3>1, RowType DEF RenewedRow, JobRows
    <3> QED BY <1>2, <2>1, <3>1, <3>2 DEF Renew, Admit
  <2>2. CASE UNCHANGED <<job, conn>>
    BY <1>1, <2>2
  <2> QED BY <1>5, <2>1, <2>2
          DEF RenewStep, CallStep, RenewRefused, RenewFails, PrepareFails, AdmitRefused,
              ProvisionerReturns
<1>6. ASSUME NEW h \in Handlers, ApplyStep(h), ~ Finishes(h) PROVE Quiet
  <2>1. CASE ApplyRetry(h)
    <3> DEFINE row == ReleasedRow(Row(h), "queued", hand[h].availableIn, hand[h].result)
    <3>1. hand[h].phase # "idle" /\ Row(h).state = "running" /\ hand[h].job \in Jobs
          /\ Row(h) \in JobRows /\ Row(h) = job[hand[h].job]
      BY <2>1, RowType DEF ApplyRetry, Committing, Owns, Row
    <3>2. row.state = "queued" /\ row.attemptCount = Row(h).attemptCount
      BY <3>1 DEF ReleasedRow, JobRows
    <3>3. conn[hand[h].job].state = "validating"
      BY <3>1 DEF JobTenantAgreement
    <3>4. UNCHANGED conn
      <4>1. conn' = [conn EXCEPT ![hand[h].job].state = "validating"]
        BY <2>1 DEF ApplyRetry
      <4>2. [conn[hand[h].job] EXCEPT !.state = "validating"] = conn[hand[h].job]
        BY <1>0, <3>1, <3>3 DEF ConnRows
      <4> QED BY <3>1, <4>1, <4>2 DEF TypeOK
    <3>5. SetRow(h, row)
      BY <2>1 DEF ApplyRetry
    <3> HIDE DEF row
    <3> QED BY <1>2, <3>1, <3>2, <3>4, <3>5
  <2>2. CASE UNCHANGED <<job, conn>>
    BY <1>1, <2>2
  <2> QED BY <1>6, <2>1, <2>2 DEF ApplyStep, Finishes, ApplySelect, ApplyStale, ApplyCollides, ApplyFails
<1>7. CASE WorkerCrash
  BY <1>1, <1>7 DEF WorkerCrash
<1>8. CASE TimePasses
  <2>1. ASSUME NEW j \in Jobs PROVE QuietRow(j)
    BY <1>0, <1>8 DEF TimePasses, JobRows, QuietRow
  <2> QED BY <1>8, <2>1 DEF TimePasses, Quiet
<1>9. ASSUME NEW h \in Handlers, NEW j \in Jobs, Deliver(h, j) PROVE Quiet
  BY <1>1, <1>9 DEF Deliver
<1> QED BY <1>3, <1>4, <1>5, <1>6, <1>7, <1>8, <1>9 DEF Next, HandlerStep

\* A result is written for the job of its owner, which runs.
LEMMA FinishedRow ==
  ASSUME Fenced, JobTenantAgreement, NEW h \in Handlers, Finishes(h)
  PROVE  LET j == hand[h].job
         IN  /\ j \in Jobs /\ job[j].state = "running" /\ conn[j].state = "validating"
             /\ job[j].attemptCount >= 1 /\ Owns(h, job[j])
             /\ job'[j].attemptCount = job[j].attemptCount
             /\ \A k \in Jobs \ {j} : job'[k] = job[k] /\ conn'[k] = conn[k]
             /\ \/ /\ ApplySuccess(h) /\ hand[h].result \in Tenants
                   /\ job'[j].state = "completed" /\ job'[j].failure = NULL
                   /\ conn'[j] = [state |-> "active", tenant |-> hand[h].result]
                \/ /\ ApplyFailure(h) \/ ApplyCollision(h)
                   /\ job'[j].state = "failed" /\ conn'[j].tenant = conn[j].tenant
                   /\ job'[j].failure = IF ApplyFailure(h) THEN hand[h].result ELSE Collision
<1> USE DEF Fenced, Base
<1> DEFINE j == hand[h].job
<1>1. hand[h].phase # "idle" /\ Owns(h, Row(h))
  BY DEF Finishes, ApplySuccess, ApplyFailure, ApplyCollision, Committing
<1>2. j \in Jobs /\ Row(h) = job[j] /\ job[j] \in JobRows /\ conn[j] \in ConnRows
  BY <1>1, RowType DEF Row, TypeOK
<1>3. job[j].state = "running" /\ job[j].attemptCount >= 1
  BY <1>1, <1>2 DEF Owns, HandsKnow
<1>4. conn[j].state = "validating"
  BY <1>2, <1>3 DEF JobTenantAgreement
<1>5. ASSUME NEW state, NEW failure, NEW c, SetRow(h, ReleasedRow(Row(h), state, 0, failure)),
             conn' = [conn EXCEPT ![j] = c]
      PROVE  /\ job'[j].attemptCount = job[j].attemptCount /\ job'[j].state = state
             /\ job'[j].failure = failure /\ conn'[j] = c
             /\ \A k \in Jobs \ {j} : job'[k] = job[k] /\ conn'[k] = conn[k]
  BY <1>2, <1>5 DEF SetRow, ReleasedRow, JobRows, TypeOK
<1>6. CASE ApplySuccess(h)
  BY <1>1, <1>2, <1>3, <1>4, <1>5, <1>6 DEF ApplySuccess
<1>7. ASSUME NEW failure, SetRow(h, ReleasedRow(Row(h), "failed", 0, failure)),
             conn' = [conn EXCEPT ![j].state = "validation_failed"]
      PROVE  /\ job'[j].attemptCount = job[j].attemptCount /\ job'[j].state = "failed"
             /\ job'[j].failure = failure /\ conn'[j].tenant = conn[j].tenant
             /\ \A k \in Jobs \ {j} : job'[k] = job[k] /\ conn'[k] = conn[k]
  <2>1. conn' = [conn EXCEPT ![j] = [conn[j] EXCEPT !.state = "validation_failed"]]
    BY <1>7
  <2>2. [conn[j] EXCEPT !.state = "validation_failed"].tenant = conn[j].tenant
    BY <1>2 DEF ConnRows
  <2> QED BY <1>5, <1>7, <2>1, <2>2
<1>8. CASE ApplyFailure(h)
  <2>1. job'[j].failure = hand[h].result
    BY <1>7, <1>8 DEF ApplyFailure
  <2> QED BY <1>1, <1>2, <1>3, <1>4, <1>7, <1>8, <2>1 DEF ApplyFailure
<1>9. CASE ApplyCollision(h) /\ ~ ApplyFailure(h)
  BY <1>1, <1>2, <1>3, <1>4, <1>7, <1>9 DEF ApplyCollision
<1> QED BY <1>6, <1>8, <1>9 DEF Finishes

-----------------------------------------------------------------------------
(* Why a failure is true.  Whoever met the unique violation and still owns   *)
(* its job met a connection that is active, and stays so.                    *)

CollisionsTrue ==
  \A h \in Handlers : hand[h].phase = "collided" /\ Owns(h, Row(h)) =>
    \E k \in Jobs \ {hand[h].job} : conn[k].state = "active"

Justified == Fenced /\ JobTenantAgreement /\ CollisionsTrue /\ FailureJustified

\* Where a handler may be that was just delivered a job, or met a collision.
LEMMA CollidedSteps ==
  ASSUME Base, Next, NEW h \in Handlers, hand'[h].phase \in {"collided", "delivered"}
  PROVE  \/ ApplyCollides(h)
         \/ hand'[h].phase = "delivered" /\ ~ hand'[h].leaseLost
         \/ /\ hand'[h].phase = hand[h].phase /\ hand'[h].job = hand[h].job
            /\ hand'[h].leaseLost = hand[h].leaseLost
<1> USE DEF Base
<1> DEFINE Goal == \/ ApplyCollides(h)
                   \/ hand'[h].phase = "delivered" /\ ~ hand'[h].leaseLost
                   \/ /\ hand'[h].phase = hand[h].phase /\ hand'[h].job = hand[h].job
                      /\ hand'[h].leaseLost = hand[h].leaseLost
<1>0. ASSUME hand'[h] = hand[h] PROVE Goal
  BY <1>0
<1>1. ASSUME NEW g \in Handlers, NEW row, SetHand(g, row), row.phase \notin {"collided", "delivered"} PROVE Goal
  BY <1>1 DEF SetHand, TypeOK
<1>2. ASSUME NEW g \in Handlers, Leave(g) PROVE Goal
  BY <1>1, <1>2 DEF Leave, Free
<1>3. ASSUME NEW g \in Handlers, NEW phase, NEW row \in HandRows, SetHand(g, [row EXCEPT !.phase = phase]),
             phase \notin {"collided", "delivered"}
      PROVE  Goal
  <2>1. [row EXCEPT !.phase = phase].phase = phase
    BY <1>3 DEF HandRows
  <2> QED BY <1>1, <1>3, <2>1
<1>4. ASSUME NEW g \in Handlers, NEW j \in Jobs, Deliver(g, j) PROVE Goal
  <2>1. SetHand(g, [Free EXCEPT !.phase = "delivered", !.job = j])
    BY <1>4 DEF Deliver
  <2>2. CASE g = h
    BY <2>1, <2>2 DEF SetHand, TypeOK, Free
  <2>3. CASE g # h
    BY <1>0, <2>1, <2>3 DEF SetHand, TypeOK
  <2> QED BY <2>2, <2>3
<1>5. ASSUME NEW g \in Handlers, ClaimStep(g) PROVE Goal
  <2>1. CASE Claim(g)
    <3>1. [hand[g] EXCEPT !.phase = "claimed", !.attempt = Row(g).attemptCount + 1].phase = "claimed"
      BY DEF TypeOK, HandRows
    <3> QED BY <1>1, <2>1, <3>1 DEF Claim
  <2> QED BY <1>2, <1>5, <2>1 DEF ClaimStep, ClaimNotFound, ClaimFails, ClaimReadFails
<1>6. ASSUME NEW g \in Handlers, RenewStep(g) PROVE Goal
  <2>1. CASE Renew(g)
    BY <1>0, <2>1 DEF Renew
  <2>2. CASE RenewRefused(g) \/ RenewFails(g)
    <3>1. [hand[g] EXCEPT !.leaseLost = TRUE].phase = "claimed"
      BY <2>2 DEF RenewRefused, RenewFails, TypeOK, HandRows
    <3> QED BY <1>1, <2>2, <3>1 DEF RenewRefused, RenewFails
  <2> QED BY <1>6, <2>1, <2>2 DEF RenewStep
<1>7. ASSUME NEW g \in Handlers, CallStep(g) PROVE Goal
  <2>1. CASE Admit(g)
    <3>1. [hand[g] EXCEPT !.phase = "calling"].phase = "calling"
      BY DEF TypeOK, HandRows
    <3> QED BY <1>1, <2>1, <3>1 DEF Admit
  <2>2. ASSUME NEW answer \in Answers, ProvisionerReturns(g, answer) PROVE Goal
    <3>1. [hand[g] EXCEPT !.phase = "applying", !.result = answer].phase = "applying"
      BY DEF TypeOK, HandRows
    <3> QED BY <1>1, <2>2, <3>1 DEF ProvisionerReturns
  <2> QED BY <1>2, <1>7, <2>1, <2>2 DEF CallStep, PrepareFails, AdmitRefused
<1>8. ASSUME NEW g \in Handlers, ApplyStep(g) PROVE Goal
  <2>1. CASE ApplySelect(g)
    <3>1. \A retry, availableIn : [hand[g] EXCEPT !.phase = "committing", !.retry = retry,
                                       !.availableIn = availableIn].phase = "committing"
      BY DEF TypeOK, HandRows
    <3> QED BY <1>1, <2>1, <3>1 DEF ApplySelect
  <2>2. CASE ApplyCollides(g)
    BY <1>0, <2>2 DEF ApplyCollides, SetHand, TypeOK
  <2> QED BY <1>2, <1>8, <2>1, <2>2 DEF ApplyStep, ApplyStale, ApplySuccess, ApplyRetry, ApplyFailure,
             ApplyCollision, ApplyFails
<1>9. CASE WorkerCrash
  BY <1>9 DEF WorkerCrash, Free
<1>10. CASE TimePasses
  <2>1. hand'[h] = [hand[h] EXCEPT !.availableIn = Minus(@)] /\ hand[h] \in HandRows
    BY <1>10 DEF TimePasses, TypeOK
  <2> QED BY <2>1 DEF HandRows
<1>11. ASSUME NEW t \in Ticks, TickStep(t) PROVE Goal
  BY <1>0, <1>11 DEF TickStep, RecoverExpired, SelectPending, SelectFails, MarkDispatched, MarkFails,
              Enqueue, EnqueueFails
<1>12. ASSUME NEW j \in Jobs, Start(j) PROVE Goal
  BY <1>0, <1>12 DEF Start
<1> QED BY <1>4, <1>5, <1>6, <1>7, <1>8, <1>9, <1>10, <1>11, <1>12 DEF Next, HandlerStep

\* An active connection stays active.
LEMMA ActiveStays ==
  ASSUME Fenced, JobTenantAgreement, Next, NEW k \in Jobs, conn[k].state = "active"
  PROVE  conn'[k] = conn[k]
<1>1. job[k] \in JobRows
  BY DEF Fenced, Base, TypeOK
<1>2. job[k].state = "completed"
  BY <1>1 DEF JobTenantAgreement, JobRows, JobStates
<1> QED BY <1>2, FinalRows

LEMMA CollisionsTrueStep ==
  ASSUME Justified, Next
  PROVE  CollisionsTrue'
<1> USE DEF Justified, Fenced, Base
<1> SUFFICES ASSUME NEW h \in Handlers, hand'[h].phase = "collided", Owns(h, Row(h)')
             PROVE  \E k \in Jobs \ {hand'[h].job} : conn'[k].state = "active"
  BY DEF CollisionsTrue, Owns
<1>1. CASE ApplyCollides(h)
  <2>1. /\ hand'[h].job = hand[h].job /\ hand[h].phase # "idle" /\ Owns(h, Row(h))
        /\ TenantTaken(hand[h].result) /\ UNCHANGED conn
    BY <1>1 DEF ApplyCollides, Committing, SetHand, TypeOK, HandRows
  <2>2. PICK k \in Jobs : conn[k] = [state |-> "active", tenant |-> hand[h].result]
    BY <2>1 DEF TenantTaken
  <2>3. hand[h].job \in Jobs /\ job[hand[h].job].state = "running"
    BY <2>1, RowType DEF Owns, Row
  <2>4. conn[hand[h].job].state = "validating"
    BY <2>3 DEF JobTenantAgreement
  <2> QED BY <2>1, <2>2, <2>4
<1>2. CASE hand[h].phase = "collided" /\ hand'[h].job = hand[h].job
  <2>1. hand[h].job \in Jobs /\ Owns(h, job'[hand[h].job])
    BY <1>2, RowType DEF Row
  <2>2. Owns(h, Row(h))
    BY <1>2, <2>1, TokenKept DEF ClaimedBy, Row
  <2>3. PICK k \in Jobs \ {hand[h].job} : conn[k].state = "active"
    BY <1>2, <2>2 DEF CollisionsTrue
  <2> QED BY <1>2, <2>3, ActiveStays
<1> QED BY <1>1, <1>2, CollidedSteps

LEMMA FailureJustifiedStep ==
  ASSUME Justified, Next
  PROVE  FailureJustified'
<1> USE DEF Justified
<1> DEFINE True(row, j) ==
      /\ row.state = "completed" => row.failure = NULL
      /\ row.state = "failed" =>
           /\ row.failure # NULL
           /\ row.failure \in TransientFailures => row.attemptCount >= 3
           /\ row.failure = Collision => \E k \in Jobs \ {j} : conn'[k].state = "active"
<1> SUFFICES ASSUME NEW j \in Jobs PROVE True(job'[j], j)
  BY DEF FailureJustified
<1>1. CASE job[j].state \in {"completed", "failed"}
  <2>1. job'[j] = job[j]
    BY <1>1, FinalRows
  <2> QED BY <2>1, ActiveStays DEF FailureJustified
<1>2. CASE job[j].state \notin {"completed", "failed"}
  <2>1. ASSUME NEW i \in Jobs, Start(i) PROVE True(job'[j], j)
    BY <1>2, <2>1 DEF Start, NewRow, Fenced, Base, TypeOK
  <2>2. ASSUME NEW h \in Handlers, Claim(h) \/ ClaimReadFails(h) PROVE True(job'[j], j)
    <3>1. hand[h].phase # "idle" /\ SetRow(h, ClaimedRow(Row(h), h))
      BY <2>2 DEF Claim, ClaimReadFails
    <3>2. ClaimedRow(Row(h), h).state = "running"
      BY <3>1, RowType DEF ClaimedRow, JobRows, Fenced
    <3> QED BY <1>2, <3>1, <3>2, SetRowStep DEF Fenced
  <2>3. ASSUME NEW h \in Handlers, Finishes(h) PROVE True(job'[j], j)
    <3> DEFINE i == hand[h].job
    <3>1. CASE j # i
      BY <1>2, <2>3, <3>1, FinishedRow
    <3>2. CASE j = i /\ ApplySuccess(h)
      BY <2>3, <3>2, FinishedRow, TenantAssumption DEF ApplySuccess, ApplyFailure, ApplyCollision, Committing
    <3>3. CASE j = i /\ ApplyFailure(h)
      <4>1. /\ job'[j].state = "failed" /\ job'[j].attemptCount = job[j].attemptCount
            /\ job'[j].failure = hand[h].result
        BY <2>3, <3>3, FinishedRow, TenantAssumption DEF ApplyFailure, ApplySuccess
      <4>2. InFlight(h) /\ Owns(h, Row(h)) /\ hand[h].phase = "committing" /\ ~ hand[h].retry
            /\ hand[h].result \in FailureCodes /\ hand[h].result \in Answers
        BY <3>3 DEF ApplyFailure, Committing, InFlight, Fenced, Base, HandsKnow, HandKnows
      <4>3. ~ ShouldRetry(hand[h].result, job[j]) /\ job[j].attemptCount \in Nat
        BY <3>3, <4>2 DEF Fenced, Base, TypeOK, JobRows, DecisionCurrent, Row
      <4>4. hand[h].result # NULL /\ hand[h].result # Collision
        BY <4>2, NullAssumption, AnswerAssumption, TenantAssumption
           DEF FailureCodes, TransientFailures, PermanentFailures, Collision
      <4> QED BY <4>1, <4>3, <4>4 DEF ShouldRetry
    <3>4. CASE j = i /\ ApplyCollision(h)
      <4>1. job'[j].state = "failed" /\ job'[j].failure = Collision
        BY <2>3, <3>4, FinishedRow DEF ApplyFailure, ApplySuccess, ApplyCollision, Committing
      <4>2. PICK k \in Jobs \ {j} : conn[k].state = "active"
        BY <3>4 DEF ApplyCollision, CollisionsTrue
      <4>3. conn'[k].state = "active"
        BY <4>2, ActiveStays
      <4> QED BY <4>1, <4>2, <4>3, NullAssumption DEF FailureCodes, TransientFailures, Collision
    <3> QED BY <2>3, <3>1, <3>2, <3>3, <3>4 DEF Finishes
  <2>4. CASE Quiet
    BY <1>2, <2>4 DEF Quiet, QuietRow
  <2> QED BY <2>1, <2>2, <2>3, <2>4, StepKinds
<1> QED BY <1>1, <1>2

LEMMA JustifiedHolds == Spec => []Justified
<1>1. Init => CollisionsTrue /\ FailureJustified
  BY DEF Init, CollisionsTrue, FailureJustified, Free, NewRow
<1>2. Justified /\ [Next]_vars => CollisionsTrue' /\ FailureJustified'
  <2>1. ASSUME Justified, UNCHANGED vars PROVE CollisionsTrue' /\ FailureJustified'
    BY <2>1 DEF vars, Justified, CollisionsTrue, FailureJustified, Owns, Row
  <2> QED BY <2>1, CollisionsTrueStep, FailureJustifiedStep
<1>3. Fenced /\ JobTenantAgreement /\ CollisionsTrue /\ FailureJustified => Justified
  BY DEF Justified
<1> QED BY <1>1, <1>2, <1>3, FencedHolds, JobsAgree, PTL DEF Spec

\* A customer who sees a failed job sees a reason that is true: a retryable
\* code only after three attempts, a collision only while another connection
\* is active; and a completed job has no code (applyTenantValidationResult).
THEOREM FailuresAreTrue == Spec => []FailureJustified
<1>1. Justified => FailureJustified
  BY DEF Justified
<1> QED BY <1>1, JustifiedHolds, PTL

-----------------------------------------------------------------------------
(* The contract: what a step does to the outcome that a customer reads.      *)

Unbegun == \A j \in Jobs : job[j].state = "absent" => job[j].attemptCount = 0
Told == Justified /\ Unbegun

LEMMA Outcomes ==
  ASSUME Told, NEW j \in Jobs
  PROVE  /\ job[j].state \in {"queued", "running"} => Outcome(j) = "processing"
         /\ job[j].state = "absent" => Outcome(j) = "absent"
         /\ job[j].state = "completed" =>
              Outcome(j) = conn[j].tenant /\ conn[j].tenant \in Tenants /\ conn[j].state = "active"
         /\ job[j].state = "failed" => Outcome(j) = job[j].failure /\ job[j].failure \in FailureCodes
         /\ conn[j].state = "active" => job[j].state = "completed"
         /\ job[j].state \in JobStates
<1>1. job[j] \in JobRows /\ conn[j] \in ConnRows
  BY DEF Told, Justified, Fenced, Base, TypeOK
<1>2. job[j].state \in JobStates
  BY <1>1 DEF JobRows
<1>3. conn[j].state = "active" <=> job[j].state = "completed"
  BY <1>2 DEF Told, Justified, JobTenantAgreement, JobStates
<1>4. conn[j].state = "active" => conn[j].tenant \in Tenants
  BY <1>1 DEF Told, Justified, JobTenantAgreement, ConnRows
<1>5. job[j].state = "failed" => job[j].failure \in FailureCodes
  BY <1>1 DEF Told, Justified, FailureJustified, JobRows
<1> QED BY <1>2, <1>3, <1>4, <1>5 DEF Outcome

\* A job whose rows keep their state, their code and their tenant keeps its
\* outcome.
LEMMA SameOutcome ==
  ASSUME NEW j \in Jobs, conn'[j] = conn[j],
         \/ job'[j].state = job[j].state /\ job'[j].failure = job[j].failure
         \/ {job[j].state, job'[j].state} \subseteq {"queued", "running"}
  PROVE  Outcome(j)' = Outcome(j)
BY DEF Outcome

LEMMA InitContract == Init => Contract!Init
BY DEF Init, Contract!Init, Outcome, NewRow

LEMMA StartContract ==
  ASSUME Told, NEW j \in Jobs, Start(j)
  PROVE  Contract!Request(j)
<1>1. job \in [Jobs -> JobRows] /\ conn \in [Jobs -> ConnRows]
  BY DEF Told, Justified, Fenced, Base, TypeOK
<1>2. /\ job[j].state = "absent" /\ job'[j] = NewRow("queued") /\ Outcome(j) = "absent"
      /\ \A k \in Jobs \ {j} : job'[k] = job[k] /\ conn'[k] = conn[k]
  BY <1>1, Outcomes DEF Start
<1>3. Outcome(j)' = "processing" /\ \A k \in Jobs \ {j} : Outcome(k)' = Outcome(k)
  BY <1>2, SameOutcome DEF NewRow, Outcome
<1>4. job[j].attemptCount = 0
  BY <1>2 DEF Told, Unbegun
<1>5. \A k \in Jobs : job'[k].attemptCount = job[k].attemptCount
  BY <1>2, <1>4 DEF NewRow
<1> QED BY <1>2, <1>3, <1>5 DEF Contract!Request

LEMMA ClaimContract ==
  ASSUME Told, NEW h \in Handlers, Claim(h) \/ ClaimReadFails(h), NEW j \in Jobs, j = hand[h].job
  PROVE  Contract!Attempt(j)
<1>1. /\ hand[h].phase # "idle" /\ SetRow(h, ClaimedRow(Row(h), h)) /\ UNCHANGED conn
      /\ Row(h).state \in {"queued", "running"}
  BY DEF Claim, ClaimReadFails, Claimable, Expired
<1>2. /\ Row(h) = job[j] /\ job[j] \in JobRows /\ job'[j] = ClaimedRow(job[j], h)
      /\ \A k \in Jobs \ {j} : job'[k] = job[k]
  BY <1>1, SetRowStep, RowType DEF Told, Justified, Fenced
<1>3. job'[j].state = "running" /\ job'[j].attemptCount = job[j].attemptCount + 1
  BY <1>2 DEF ClaimedRow, JobRows
<1>4. Outcome(j) = "processing" /\ \A k \in Jobs : Outcome(k)' = Outcome(k)
  BY <1>1, <1>2, <1>3, Outcomes, SameOutcome
<1> QED BY <1>2, <1>3, <1>4 DEF Contract!Attempt

LEMMA FinishContract ==
  ASSUME Told, NEW h \in Handlers, Finishes(h)
  PROVE  Contract!Next
<1> USE DEF Told, Justified
<1>0. PICK j : j = hand[h].job
  OBVIOUS
<1>1. /\ j \in Jobs /\ job[j].state = "running" /\ job[j].attemptCount >= 1 /\ Owns(h, job[j])
      /\ job'[j].attemptCount = job[j].attemptCount
      /\ \A k \in Jobs \ {j} : job'[k] = job[k] /\ conn'[k] = conn[k]
  BY <1>0, FinishedRow
<1>2. Outcome(j) = "processing" /\ job[j].attemptCount > 0 /\ \A k \in Jobs \ {j} : Outcome(k)' = Outcome(k)
  <2>1. job[j].attemptCount \in Nat
    BY <1>1 DEF Fenced, Base, TypeOK, JobRows
  <2> QED BY <1>1, <2>1, Outcomes, SameOutcome
<1>3. [k \in Jobs |-> job[k].attemptCount]' = [k \in Jobs |-> job[k].attemptCount]
  BY <1>1
<1>4. CASE ApplySuccess(h) /\ hand[h].result \in Tenants
  <2> DEFINE tenant == hand[h].result
  <2>1. job'[j].state = "completed" /\ conn'[j] = [state |-> "active", tenant |-> tenant]
    BY <1>0, <1>4, FinishedRow, TenantAssumption DEF ApplySuccess, ApplyFailure, ApplyCollision, Committing
  <2>2. Outcome(j)' = tenant
    BY <2>1 DEF Outcome
  <2>3. ASSUME NEW k \in Jobs PROVE Outcome(k) # tenant
    <3>1. conn[k] \in ConnRows /\ conn[k] # [state |-> "active", tenant |-> tenant]
      BY <1>4 DEF ApplySuccess, TenantTaken, Fenced, Base, TypeOK
    <3>2. ~ (conn[k].state = "active" /\ conn[k].tenant = tenant)
      BY <3>1 DEF ConnRows
    <3> QED BY <1>4, <3>2, Outcomes, TenantAssumption DEF JobStates
  <2>4. Contract!Connect(j, tenant)
    BY <1>1, <1>2, <1>3, <2>2, <2>3 DEF Contract!Connect
  <2> QED BY <1>1, <1>4, <2>4 DEF Contract!Next
<1>5. CASE ApplyFailure(h)
  <2> DEFINE failure == hand[h].result
  <2>1. /\ job'[j].state = "failed" /\ job'[j].failure = failure /\ failure \in FailureCodes
        /\ failure \in Answers /\ ~ hand[h].retry /\ hand[h].phase = "committing" /\ InFlight(h)
    BY <1>0, <1>5, FinishedRow, TenantAssumption
       DEF ApplyFailure, ApplySuccess, Committing, InFlight, Fenced, Base, HandsKnow, HandKnows
  <2>2. Outcome(j)' = failure
    BY <2>1 DEF Outcome
  <2>3. failure \in TransientFailures => job[j].attemptCount >= 3
    <3>1. ~ ShouldRetry(failure, job[j]) /\ job[j].attemptCount \in Nat
      BY <1>0, <1>1, <2>1 DEF Fenced, Base, TypeOK, JobRows, DecisionCurrent, Row
    <3> QED BY <3>1 DEF ShouldRetry
  <2>4. failure # Collision
    BY <2>1, AnswerAssumption, TenantAssumption DEF FailureCodes, TransientFailures, PermanentFailures, Collision
  <2>5. Contract!Reject(j, failure)
    BY <1>1, <1>2, <1>3, <2>2, <2>3, <2>4 DEF Contract!Reject
  <2> QED BY <1>1, <2>1, <2>5 DEF Contract!Next, FailureCodes
<1>6. CASE ApplyCollision(h) /\ ~ ApplyFailure(h)
  <2>1. job'[j].state = "failed" /\ job'[j].failure = Collision
    BY <1>0, <1>6, FinishedRow DEF ApplySuccess, ApplyCollision, Committing
  <2>2. Outcome(j)' = Collision
    BY <2>1 DEF Outcome
  <2>3. PICK k \in Jobs : conn[k].state = "active"
    BY <1>6 DEF ApplyCollision, CollisionsTrue
  <2>4. Outcome(k) \in Tenants
    BY <2>3, Outcomes
  <2>5. Collision \notin TransientFailures
    BY DEF Collision, TransientFailures
  <2>6. Contract!Reject(j, Collision)
    BY <1>1, <1>2, <1>3, <2>2, <2>4, <2>5 DEF Contract!Reject
  <2> QED BY <1>1, <2>6 DEF Contract!Next
<1> QED BY <1>4, <1>5, <1>6 DEF Finishes, ApplySuccess

LEMMA UnbegunStep ==
  ASSUME Told, Next
  PROVE  Unbegun'
<1> USE DEF Told, Justified
<1>1. ASSUME NEW j \in Jobs, Start(j) PROVE Unbegun'
  BY <1>1 DEF Start, NewRow, Unbegun, Fenced, Base, TypeOK
<1>2. ASSUME NEW h \in Handlers, Claim(h) \/ ClaimReadFails(h) PROVE Unbegun'
  <2>1. hand[h].phase # "idle" /\ SetRow(h, ClaimedRow(Row(h), h))
    BY <1>2 DEF Claim, ClaimReadFails
  <2>2. ClaimedRow(Row(h), h).state = "running"
    BY <2>1, RowType DEF ClaimedRow, JobRows, Fenced
  <2> QED BY <2>1, <2>2, SetRowStep DEF Fenced, Unbegun
<1>3. ASSUME NEW h \in Handlers, Finishes(h) PROVE Unbegun'
  BY <1>3, FinishedRow DEF Unbegun
<1>4. CASE Quiet
  BY <1>4 DEF Quiet, QuietRow, Unbegun
<1> QED BY <1>1, <1>2, <1>3, <1>4, StepKinds

LEMMA QuietContract ==
  ASSUME Quiet
  PROVE  UNCHANGED Contract!vars
<1>1. \A j \in Jobs : Outcome(j)' = Outcome(j)
  BY SameOutcome DEF Quiet, QuietRow
<1>2. \A j \in Jobs : job'[j].attemptCount = job[j].attemptCount
  BY DEF Quiet, QuietRow
<1> QED BY <1>1, <1>2 DEF Contract!vars

LEMMA NextContract == Told /\ [Next]_vars => [Contract!Next]_(Contract!vars)
<1>1. ASSUME Told, Next PROVE [Contract!Next]_(Contract!vars)
  <2>1. ASSUME NEW j \in Jobs, Start(j) PROVE Contract!Next
    BY <1>1, <2>1, StartContract DEF Contract!Next
  <2>2. ASSUME NEW h \in Handlers, Claim(h) \/ ClaimReadFails(h) PROVE Contract!Next
    <3>1. hand[h].job \in Jobs
      BY <1>1, <2>2, RowType DEF Claim, ClaimReadFails, Told, Justified, Fenced
    <3>2. PICK j \in Jobs : j = hand[h].job
      BY <3>1
    <3> QED BY <1>1, <2>2, <3>2, ClaimContract DEF Contract!Next
  <2>3. ASSUME NEW h \in Handlers, Finishes(h) PROVE Contract!Next
    BY <1>1, <2>3, FinishContract
  <2> QED BY <1>1, <2>1, <2>2, <2>3, QuietContract, StepKinds DEF Told, Justified
<1>2. UNCHANGED vars => UNCHANGED Contract!vars
  BY DEF vars, Contract!vars, Outcome
<1> QED BY <1>1, <1>2

LEMMA ToldHolds == Spec => []Told
<1>1. Init => Unbegun
  BY DEF Init, Unbegun, NewRow
<1>2. Told /\ [Next]_vars => Unbegun'
  <2>1. ASSUME Told, UNCHANGED vars PROVE Unbegun'
    BY <2>1 DEF vars, Told, Unbegun
  <2> QED BY <2>1, UnbegunStep
<1>3. Justified /\ Unbegun <=> Told
  BY DEF Told
<1> QED BY <1>1, <1>2, <1>3, JustifiedHolds, PTL DEF Spec

\* The rows and the worker implement the contract of GET /v1/jobs/{id}: one
\* final outcome, three attempts before a retryable failure, a tenant once.
THEOREM RowsKeepContract == Spec => ImplementsContract
  BY ToldHolds, InitContract, NextContract, PTL DEF Spec, ImplementsContract, Contract!Spec

-----------------------------------------------------------------------------
(* Attempts beyond the third are paid for.  An attempt that is running, with *)
(* its lease and its owner, is not paid yet; it is when it is given up: by a *)
(* fault.                                                                    *)

Live(j) ==
  \E h \in Handlers :
    /\ InFlight(h) /\ hand[h].job = j /\ ~ hand[h].leaseLost
    /\ Owns(h, job[j]) /\ job[j].leaseIn > 0
Paid(j) ==
  /\ job[j].attemptCount <= 3 + faults
  /\ job[j].attemptCount <= 2 + faults \/ Live(j) \/ Settled(j)
DeliveredFresh == \A h \in Handlers : hand[h].phase = "delivered" => ~ hand[h].leaseLost

Payable == Justified /\ DeliveredFresh /\ \A j \in Jobs : Paid(j)

LEMMA DeliveredFreshStep ==
  ASSUME Base, DeliveredFresh, Next
  PROVE  DeliveredFresh'
<1> SUFFICES ASSUME NEW h \in Handlers, hand'[h].phase = "delivered"
             PROVE  ~ hand'[h].leaseLost
  BY DEF DeliveredFresh
<1>1. CASE ApplyCollides(h)
  BY <1>1 DEF ApplyCollides, SetHand, Base, TypeOK, HandRows
<1> QED BY <1>1, CollidedSteps DEF DeliveredFresh

\* Faults are only ever added.
LEMMA FaultsGrow ==
  ASSUME Base, Next
  PROVE  faults \in Nat /\ faults' \in Nat /\ faults' >= faults
<1>1. faults \in Nat /\ faults' \in Nat
  BY BaseStep, DelayAssumption DEF Base, TypeOK
<1>2. faults' = faults \/ Faulty \/ TimePasses
  BY DEF Next, HandlerStep, Start, TickStep, RecoverExpired, SelectPending, SelectFails, MarkDispatched,
         MarkFails, Enqueue, EnqueueFails, Deliver, ClaimStep, Claim, ClaimNotFound, ClaimFails,
         ClaimReadFails, RenewStep, Renew, RenewRefused, RenewFails, CallStep, PrepareFails, Admit,
         AdmitRefused, ProvisionerReturns, ApplyStep, ApplySelect, ApplyStale, ApplySuccess, ApplyCollides,
         ApplyRetry, ApplyFailure, ApplyCollision, ApplyFails, WorkerCrash
<1>3. IsFiniteSet(Lapsing)
  BY FiniteAssumption, FS_Subset DEF Lapsing
<1>4. Cardinality(Lapsing) \in Nat
  BY <1>3, FS_CardinalityType
<1>5. CASE TimePasses
  <2>1. faults' = faults + Cardinality(Lapsing)
    BY <1>5 DEF TimePasses
  <2> HIDE DEF Lapsing
  <2> QED BY <1>1, <1>4, <2>1
<1>6. CASE Faulty
  BY <1>1, <1>6 DEF Faulty
<1> QED BY <1>1, <1>2, <1>5, <1>6

LEMMA LapseIsFault ==
  ASSUME Base, TimePasses, NEW j \in Lapsing
  PROVE  faults' >= faults + 1
<1>1. IsFiniteSet(Lapsing)
  BY FiniteAssumption, FS_Subset DEF Lapsing
<1>2. Cardinality(Lapsing) \in Nat /\ Cardinality(Lapsing) # 0
  BY <1>1, FS_CardinalityType, FS_EmptySet
<1>3. faults \in Nat
  BY DelayAssumption DEF Base, TypeOK
<1>4. faults' = faults + Cardinality(Lapsing)
  BY DEF TimePasses
<1> HIDE DEF Lapsing
<1> QED BY <1>2, <1>3, <1>4

\* Without a fault, an attempt beyond what is paid goes on or ends the job.
LEMMA LiveGoesOn ==
  ASSUME Fenced, Next, NEW j \in Jobs, Live(j), faults' = faults, job[j].attemptCount > 2 + faults
  PROVE  Live(j)' \/ Settled(j)'
<1> USE DEF Fenced, Base
<1>1. PICK h \in Handlers : /\ InFlight(h) /\ hand[h].job = j /\ ~ hand[h].leaseLost
                            /\ Owns(h, job[j]) /\ job[j].leaseIn > 0
  BY DEF Live
<1>2. /\ job[j] \in JobRows /\ hand[h] \in HandRows /\ Row(h) = job[j] /\ job[j].state = "running"
      /\ Holds(h, Row(h)) /\ ~ Claimable(job[j]) /\ ~ Expired(job[j]) /\ hand[h].phase # "idle"
      /\ faults \in Nat
  BY <1>1, DelayAssumption DEF TypeOK, Row, Owns, Holds, Claimable, Expired, InFlight
<1>3. ~ Faulty
  BY <1>2 DEF Faulty
<1>4. ASSUME hand'[h].job = j, InFlight(h)', hand'[h].leaseLost = hand[h].leaseLost, job'[j] = job[j]
      PROVE  Live(j)'
  BY <1>1, <1>4 DEF Live, Owns
<1>5. ASSUME hand'[h] = hand[h], job'[j] = job[j] PROVE Live(j)'
  BY <1>1, <1>4, <1>5 DEF InFlight
<1>6. ASSUME NEW g \in Handlers, g # h, NEW row, SetHand(g, row) PROVE hand'[h] = hand[h]
  BY <1>6 DEF SetHand, TypeOK
<1>7. ASSUME NEW g \in Handlers, Owns(g, Row(g)), hand[g].job = j PROVE g = h
  BY <1>1, <1>7 DEF Owns, Row
<1>8. ASSUME NEW g \in Handlers, NEW row, SetRow(g, row), hand[g].phase # "idle", hand[g].job # j
      PROVE  job'[j] = job[j]
  BY <1>8, SetRowStep
<1>9. ASSUME NEW g \in Handlers, SetRow(g, RenewedRow(Row(g))), Owns(g, Row(g)), InFlight(g),
             hand'[h].job = j, InFlight(h)', hand'[h].leaseLost = hand[h].leaseLost
      PROVE  Live(j)'
  <2>1. CASE hand[g].job = j
    <3>1. job'[j] = RenewedRow(job[j])
      BY <1>7, <1>9, <2>1, SetRowStep DEF InFlight, Row
    <3>2. Owns(h, job'[j]) /\ job'[j].leaseIn > 0
      BY <1>1, <1>2, <3>1, DelayAssumption DEF RenewedRow, JobRows, Owns
    <3> QED BY <1>1, <1>9, <3>2 DEF Live
  <2>2. CASE hand[g].job # j
    BY <1>4, <1>8, <1>9, <2>2 DEF InFlight
  <2> QED BY <2>1, <2>2
<1>10. ASSUME NEW i \in Jobs, Start(i) PROVE Live(j)'
  BY <1>2, <1>5, <1>10 DEF Start, TypeOK
<1>11. ASSUME NEW t \in Ticks, TickStep(t) PROVE Live(j)'
  BY <1>2, <1>5, <1>11 DEF TickStep, RecoverExpired, SelectPending, SelectFails, MarkDispatched, MarkFails,
                           Enqueue, EnqueueFails
<1>12. ASSUME NEW g \in Handlers, NEW i \in Jobs, Deliver(g, i) PROVE Live(j)'
  BY <1>2, <1>5, <1>6, <1>12 DEF Deliver
<1>13. ASSUME NEW g \in Handlers, ClaimStep(g) PROVE Live(j)'
  <2>1. CASE Claim(g)
    <3>1. g # h /\ hand[g].phase # "idle"
      BY <1>1, <2>1 DEF Claim, InFlight
    <3>2. hand[g].job # j
      BY <1>2, <2>1 DEF Claim, Row
    <3> QED BY <1>5, <1>6, <1>8, <2>1, <3>1, <3>2 DEF Claim
  <2>2. CASE ClaimNotFound(g)
    <3>1. g # h
      BY <1>1, <2>2 DEF ClaimNotFound, InFlight
    <3> QED BY <1>5, <1>6, <2>2, <3>1 DEF ClaimNotFound, Leave
  <2> QED BY <1>3, <1>13, <2>1, <2>2 DEF ClaimStep, ClaimFails, ClaimReadFails
<1>14. ASSUME NEW g \in Handlers, RenewStep(g) PROVE Live(j)'
  <2>1. CASE Renew(g)
    BY <1>1, <1>9, <2>1 DEF Renew, Holds, InFlight
  <2>2. CASE RenewRefused(g)
    <3>1. g # h
      BY <1>2, <2>2 DEF RenewRefused
    <3> QED BY <1>5, <1>6, <2>2, <3>1 DEF RenewRefused
  <2> QED BY <1>3, <1>14, <2>1, <2>2 DEF RenewStep, RenewFails
<1>15. ASSUME NEW g \in Handlers, NEW phase \in {"calling", "applying", "committing", "collided"}, NEW row,
              SetHand(g, row), row.phase = phase, row.job = hand[g].job, row.leaseLost = hand[g].leaseLost
       PROVE  hand'[h].job = j /\ InFlight(h)' /\ hand'[h].leaseLost = hand[h].leaseLost
  <2>1. CASE g = h
    BY <1>1, <1>15, <2>1 DEF SetHand, TypeOK, InFlight
  <2>2. CASE g # h
    BY <1>1, <1>6, <1>15, <2>2 DEF InFlight
  <2> QED BY <2>1, <2>2
<1>16. ASSUME NEW g \in Handlers, CallStep(g) PROVE Live(j)'
  <2>0. hand[g] \in HandRows
    BY DEF TypeOK
  <2>1. CASE Admit(g)
    <3> DEFINE row == [hand[g] EXCEPT !.phase = "calling"]
    <3>1. row.phase = "calling" /\ row.job = hand[g].job /\ row.leaseLost = hand[g].leaseLost
      BY <2>0 DEF HandRows
    <3>2. SetHand(g, row) /\ SetRow(g, RenewedRow(Row(g))) /\ Owns(g, Row(g)) /\ InFlight(g)
      BY <2>1 DEF Admit, Admissible, Holds, InFlight
    <3> HIDE DEF row
    <3> QED BY <1>9, <1>15, <3>1, <3>2
  <2>2. CASE AdmitRefused(g)
    <3>1. g # h
      BY <1>1, <1>2, <2>2 DEF AdmitRefused, Admissible
    <3> QED BY <1>5, <1>6, <2>2, <3>1 DEF AdmitRefused, Leave
  <2>3. ASSUME NEW answer \in Answers, ProvisionerReturns(g, answer) PROVE Live(j)'
    <3> DEFINE row == [hand[g] EXCEPT !.phase = "applying", !.result = answer]
    <3>1. row.phase = "applying" /\ row.job = hand[g].job /\ row.leaseLost = hand[g].leaseLost
      BY <2>0 DEF HandRows
    <3>2. SetHand(g, row) /\ UNCHANGED job
      BY <2>3 DEF ProvisionerReturns
    <3> HIDE DEF row
    <3> QED BY <1>4, <1>15, <3>1, <3>2
  <2> QED BY <1>3, <1>16, <2>1, <2>2, <2>3 DEF CallStep, PrepareFails
<1>17. ASSUME NEW g \in Handlers, ApplyStep(g) PROVE Live(j)' \/ Settled(j)'
  <2>0. hand[g] \in HandRows
    BY DEF TypeOK
  <2>1. CASE ApplySelect(g)
    <3>1. PICK retry, availableIn :
            SetHand(g, [hand[g] EXCEPT !.phase = "committing", !.retry = retry, !.availableIn = availableIn])
      BY <2>1 DEF ApplySelect
    <3> DEFINE row == [hand[g] EXCEPT !.phase = "committing", !.retry = retry, !.availableIn = availableIn]
    <3>2. row.phase = "committing" /\ row.job = hand[g].job /\ row.leaseLost = hand[g].leaseLost
      BY <2>0 DEF HandRows
    <3>3. SetHand(g, row) /\ UNCHANGED job
      BY <2>1, <3>1 DEF ApplySelect
    <3> HIDE DEF row
    <3> QED BY <1>4, <1>15, <3>2, <3>3
  <2>2. CASE ApplyCollides(g)
    <3> DEFINE row == [hand[g] EXCEPT !.phase = "collided"]
    <3>1. row.phase = "collided" /\ row.job = hand[g].job /\ row.leaseLost = hand[g].leaseLost
      BY <2>0 DEF HandRows
    <3>2. SetHand(g, row) /\ UNCHANGED job
      BY <2>2 DEF ApplyCollides
    <3> HIDE DEF row
    <3> QED BY <1>4, <1>15, <3>1, <3>2
  <2>3. CASE ApplyStale(g)
    <3>1. g # h
      BY <1>1, <1>2, <2>3 DEF ApplyStale
    <3> QED BY <1>5, <1>6, <2>3, <3>1 DEF ApplyStale, Leave
  <2>4. ASSUME NEW row, SetRow(g, row), Leave(g), Owns(g, Row(g)), hand[g].phase # "idle", hand[g].job # j
        PROVE  Live(j)'
    <3>1. g # h
      BY <1>1, <2>4
    <3> QED BY <1>5, <1>6, <1>8, <2>4, <3>1 DEF Leave
  <2>5. CASE Finishes(g)
    <3>0. \E failure : \/ SetRow(g, ReleasedRow(Row(g), "completed", 0, failure))
                       \/ SetRow(g, ReleasedRow(Row(g), "failed", 0, failure))
      BY <2>5 DEF Finishes, ApplySuccess, ApplyFailure, ApplyCollision
    <3>1. PICK state, failure : /\ state \in {"completed", "failed"}
                                /\ SetRow(g, ReleasedRow(Row(g), state, 0, failure))
      BY <3>0
    <3>2. Leave(g) /\ Owns(g, Row(g)) /\ hand[g].phase # "idle"
      BY <2>5 DEF Finishes, ApplySuccess, ApplyFailure, ApplyCollision, Committing
    <3>3. CASE hand[g].job = j
      <4>1. job'[j] = ReleasedRow(job[j], state, 0, failure)
        BY <3>1, <3>2, <3>3, SetRowStep
      <4>2. ReleasedRow(job[j], state, 0, failure).state = state
        BY <1>2 DEF ReleasedRow, JobRows
      <4>3. state \in {"completed", "failed"}
        BY <3>1
      <4> QED BY <4>1, <4>2, <4>3 DEF Settled
    <3> QED BY <2>4, <3>1, <3>2, <3>3
  <2>6. CASE ApplyRetry(g)
    <3>1. hand[g].job # j
      <4> SUFFICES ASSUME hand[g].job = j PROVE FALSE
        OBVIOUS
      <4>1. InFlight(g) /\ hand[g].phase = "committing" /\ hand[g].retry /\ Owns(g, Row(g)) /\ Row(g) = job[j]
        BY <2>6 DEF ApplyRetry, Committing, InFlight, Row
      <4>2. ShouldRetry(hand[g].result, job[j])
        BY <4>1 DEF DecisionCurrent
      <4> QED BY <1>2, <4>2 DEF ShouldRetry, JobRows
    <3> QED BY <2>4, <2>6, <3>1 DEF ApplyRetry, Committing
  <2> QED BY <1>3, <1>17, <2>1, <2>2, <2>3, <2>5, <2>6 DEF ApplyStep, Finishes, ApplyFails
<1>18. CASE WorkerCrash
  BY <1>3, <1>18 DEF WorkerCrash
<1>19. CASE TimePasses
  <2>1. job[j].leaseIn # 1
    BY <1>1, <1>2, <1>19, LapseIsFault DEF Lapsing
  <2>0. job[j].leaseIn \in Nat /\ job[j].leaseIn > 1
    BY <1>1, <1>2, <2>1, DelayAssumption DEF JobRows
  <2>4. job'[j] = [job[j] EXCEPT !.availableIn = Minus(@), !.leaseIn = Minus(@)]
    BY <1>19 DEF TimePasses
  <2>5. /\ job'[j].leaseIn = Minus(job[j].leaseIn) /\ job'[j].state = job[j].state
        /\ job'[j].leaseToken = job[j].leaseToken
    BY <1>2, <2>4 DEF JobRows
  <2>6. Minus(job[j].leaseIn) > 0
    BY <2>0 DEF Minus
  <2>2. Owns(h, job'[j]) /\ job'[j].leaseIn > 0
    BY <1>1, <2>5, <2>6 DEF Owns
  <2>3. hand'[h].job = j /\ InFlight(h)' /\ ~ hand'[h].leaseLost
    BY <1>1, <1>2, <1>19 DEF TimePasses, InFlight, HandRows
  <2> QED BY <2>2, <2>3 DEF Live
<1> QED BY <1>10, <1>11, <1>12, <1>13, <1>14, <1>16, <1>17, <1>18, <1>19 DEF Next, HandlerStep

\* A claim is for an attempt that is paid, as the one before was given up.
LEMMA ClaimPaid ==
  ASSUME Payable, Next, NEW h \in Handlers, Claim(h) \/ ClaimReadFails(h), NEW j \in Jobs, hand[h].job = j
  PROVE  Paid(j)'
<1> USE DEF Payable, Justified, Fenced, Base
<1>0. faults \in Nat /\ faults' \in Nat /\ faults' >= faults
  BY FaultsGrow
<1>1. /\ job[j] \in JobRows /\ hand[h] \in HandRows /\ Claimable(job[j]) /\ hand[h].phase = "delivered"
      /\ ~ hand[h].leaseLost
  BY DEF Claim, ClaimReadFails, Row, TypeOK, DeliveredFresh
<1>2. job'[j] = ClaimedRow(job[j], h)
  <2>1. SetRow(h, ClaimedRow(job[j], h))
    BY DEF Claim, ClaimReadFails, Row
  <2> QED BY <1>1, <2>1, SetRowStep
<1>3. /\ job'[j].attemptCount = job[j].attemptCount + 1 /\ Owns(h, job'[j]) /\ job'[j].leaseIn > 0
  BY <1>1, <1>2, DelayAssumption DEF ClaimedRow, JobRows, Owns
<1>4. job[j].attemptCount <= 2 + faults
  BY <1>1 DEF Paid, Live, Settled, Claimable, Expired, Owns
<1>5. job[j].attemptCount \in Nat
  BY <1>1 DEF JobRows
<1>6. job'[j].attemptCount <= 3 + faults'
  BY <1>0, <1>3, <1>4, <1>5
<1>7. CASE Claim(h)
  <2> DEFINE row == [hand[h] EXCEPT !.phase = "claimed", !.attempt = Row(h).attemptCount + 1]
  <2>1. hand'[h] = row
    BY <1>7 DEF Claim, SetHand, TypeOK
  <2>2. row.phase = "claimed" /\ row.job = j /\ ~ row.leaseLost
    BY <1>1 DEF HandRows
  <2> HIDE DEF row
  <2>3. Live(j)'
    BY <1>3, <2>1, <2>2 DEF Live, InFlight, Owns
  <2> QED BY <1>6, <2>3 DEF Paid
<1>8. CASE ClaimReadFails(h)
  <2>1. faults' = faults + 1
    BY <1>8 DEF ClaimReadFails, Faulty
  <2>2. job'[j].attemptCount <= 2 + faults'
    BY <1>0, <1>3, <1>4, <1>5, <2>1
  <2> QED BY <1>6, <2>2 DEF Paid
<1> QED BY <1>7, <1>8

\* What is paid stays paid, and a fault pays for what was not.
LEMMA KeptPaid ==
  ASSUME Payable, Next, NEW j \in Jobs, job'[j].attemptCount = job[j].attemptCount
  PROVE  Paid(j)'
<1> USE DEF Payable, Justified
<1>0. faults \in Nat /\ faults' \in Nat /\ faults' >= faults
  BY FaultsGrow DEF Fenced
<1>1. job[j].attemptCount \in Nat
  BY DEF Fenced, Base, TypeOK, JobRows
<1>2. job[j].attemptCount <= 3 + faults
  BY DEF Paid
<1>3. job'[j].attemptCount <= 3 + faults'
  BY <1>0, <1>1, <1>2
<1>4. job[j].attemptCount <= 2 + faults' \/ Live(j)' \/ Settled(j)'
  <2>1. CASE job[j].attemptCount <= 2 + faults
    BY <1>0, <1>1, <2>1
  <2>2. CASE faults' # faults
    BY <1>0, <1>1, <1>2, <2>2
  <2>3. CASE Settled(j)
    BY <2>3, FinalRows DEF Settled
  <2>4. CASE job[j].attemptCount > 2 + faults /\ faults' = faults /\ Live(j)
    BY <2>4, LiveGoesOn
  <2> QED BY <1>0, <1>1, <2>1, <2>2, <2>3, <2>4 DEF Paid
<1> QED BY <1>3, <1>4 DEF Paid

LEMMA PaidStep ==
  ASSUME Payable, Next
  PROVE  \A j \in Jobs : Paid(j)'
<1> SUFFICES ASSUME NEW j \in Jobs PROVE Paid(j)'
  OBVIOUS
<1> USE DEF Payable, Justified
<1>1. ASSUME NEW i \in Jobs, Start(i) PROVE Paid(j)'
  <2>1. CASE i = j
    <3>1. job'[j].attemptCount = 0
      BY <1>1, <2>1 DEF Start, NewRow, Fenced, Base, TypeOK
    <3> QED BY <3>1, FaultsGrow DEF Paid, Fenced
  <2>2. CASE i # j
    <3>1. job'[j] = job[j]
      BY <1>1, <2>2 DEF Start, Fenced, Base, TypeOK
    <3> QED BY <3>1, KeptPaid
  <2> QED BY <2>1, <2>2
<1>2. ASSUME NEW h \in Handlers, Claim(h) \/ ClaimReadFails(h) PROVE Paid(j)'
  <2>1. CASE hand[h].job = j
    BY <1>2, <2>1, ClaimPaid
  <2>2. CASE hand[h].job # j
    <3>1. hand[h].phase # "idle" /\ SetRow(h, ClaimedRow(Row(h), h))
      BY <1>2 DEF Claim, ClaimReadFails
    <3>2. job'[j] = job[j]
      BY <2>2, <3>1, SetRowStep DEF Fenced
    <3> QED BY <3>2, KeptPaid
  <2> QED BY <2>1, <2>2
<1>3. ASSUME NEW h \in Handlers, Finishes(h) PROVE Paid(j)'
  BY <1>3, FinishedRow, KeptPaid
<1>4. CASE Quiet
  BY <1>4, KeptPaid DEF Quiet, QuietRow
<1> QED BY <1>1, <1>2, <1>3, <1>4, StepKinds

LEMMA PayableStep == Payable /\ [Next]_vars => DeliveredFresh' /\ \A j \in Jobs : Paid(j)'
<1>1. ASSUME Payable, Next PROVE DeliveredFresh' /\ \A j \in Jobs : Paid(j)'
  BY <1>1, DeliveredFreshStep, PaidStep DEF Payable, Justified, Fenced
<1>2. ASSUME Payable, UNCHANGED vars PROVE DeliveredFresh' /\ \A j \in Jobs : Paid(j)'
  BY <1>2 DEF vars, Payable, DeliveredFresh, Paid, Live, Settled, InFlight, Owns
<1> QED BY <1>1, <1>2

\* No job runs more often than three times and once more for every fault, so
\* recovery without a look at attemptCount is bounded by what went wrong.
THEOREM AttemptsArePaid == Spec => []AttemptsPaid
<1> DEFINE Extra == DeliveredFresh /\ \A j \in Jobs : Paid(j)
<1>1. Init => Extra
  BY DelayAssumption DEF Init, DeliveredFresh, Paid, NewRow, Free
<1>2. Justified /\ Extra /\ [Next]_vars => Extra'
  BY PayableStep DEF Payable
<1>3. Extra => AttemptsPaid
  BY DEF Paid, AttemptsPaid
<1> HIDE DEF Extra
<1> QED BY <1>1, <1>2, <1>3, JustifiedHolds, PTL DEF Spec
-----------------------------------------------------------------------------
(* Calls for one connection.  The owner of a job makes one; every other call  *)
(* is of an invocation whose lease has run out, which cost a fault.           *)

\* The invocations in flight that no longer hold the lease of their job.
Lapsed(j) == {h \in Handlers : InFlight(h) /\ hand[h].job = j /\ ~ Holds(h, job[j])}
LapsesPaid == \A j \in Jobs : IsFiniteSet(Lapsed(j)) /\ Cardinality(Lapsed(j)) <= faults

CallsOn(j) == {h \in Handlers : hand[h].phase = "calling" /\ hand[h].job = j}
CallsPaid ==
  /\ \A j \in Jobs : IsFiniteSet(CallsOn(j)) /\ Cardinality(CallsOn(j)) <= 1 + faults
  /\ faults = 0 => OneCallPerConnection

\* Who holds a lease ends its invocation, holds it still, or loses it to time.
LEMMA HolderSteps ==
  ASSUME Base, Next, NEW h \in Handlers, NEW j \in Jobs,
         InFlight(h), hand[h].job = j, Holds(h, job[j])
  PROVE  ~ InFlight(h)' \/ Holds(h, job'[j]) \/ TimePasses
<1> USE DEF Base
<1>0. /\ job[j] \in JobRows /\ job[j].state = "running" /\ ~ Claimable(job[j]) /\ ~ Expired(job[j])
      /\ Row(h) = job[j] /\ hand[h].phase # "idle"
  BY DEF TypeOK, Holds, Owns, Claimable, Expired, Row, InFlight
<1>1. ASSUME job'[j] = job[j] PROVE Holds(h, job'[j])
  BY <1>1
<1>2. ASSUME NEW g \in Handlers, NEW row, SetRow(g, row), hand[g].phase # "idle", hand[g].job # j
      PROVE  job'[j] = job[j]
  BY <1>2, SetRowStep
<1>3. ASSUME NEW g \in Handlers, Owns(g, Row(g)), hand[g].job = j PROVE g = h
  BY <1>3 DEF Owns, Holds, Row
<1>4. ASSUME NEW i \in Jobs, Start(i) PROVE Holds(h, job'[j])
  BY <1>0, <1>1, <1>4 DEF Start, TypeOK
<1>5. ASSUME NEW t \in Ticks, TickStep(t) PROVE Holds(h, job'[j])
  BY <1>0, <1>1, <1>5 DEF TickStep, RecoverExpired, SelectPending, SelectFails, MarkDispatched, MarkFails,
                          Enqueue, EnqueueFails
<1>6. ASSUME NEW g \in Handlers, ClaimStep(g) PROVE Holds(h, job'[j])
  <2>1. CASE Claim(g) \/ ClaimReadFails(g)
    <3>1. hand[g].phase # "idle" /\ Claimable(Row(g)) /\ SetRow(g, ClaimedRow(Row(g), g))
      BY <2>1 DEF Claim, ClaimReadFails
    <3>2. hand[g].job # j
      BY <1>0, <3>1 DEF Row
    <3> QED BY <1>1, <1>2, <3>1, <3>2
  <2>2. CASE ClaimNotFound(g) \/ ClaimFails(g)
    BY <1>1, <2>2 DEF ClaimNotFound, ClaimFails
  <2> QED BY <1>6, <2>1, <2>2 DEF ClaimStep
<1>7. ASSUME NEW g \in Handlers, Renew(g) \/ Admit(g) PROVE Holds(h, job'[j])
  <2>1. SetRow(g, RenewedRow(Row(g))) /\ Owns(g, Row(g)) /\ hand[g].phase # "idle"
    BY <1>7 DEF Renew, Admit, Admissible, Holds, InFlight
  <2>2. CASE hand[g].job = j
    <3>1. g = h /\ job'[j] = RenewedRow(job[j])
      BY <1>0, <1>3, <2>1, <2>2, SetRowStep
    <3> QED BY <1>0, <3>1, DelayAssumption DEF RenewedRow, JobRows, Holds, Owns
  <2>3. CASE hand[g].job # j
    BY <1>1, <1>2, <2>1, <2>3
  <2> QED BY <2>2, <2>3
<1>8. ASSUME NEW g \in Handlers, ApplySuccess(g) \/ ApplyRetry(g) \/ ApplyFailure(g) \/ ApplyCollision(g)
      PROVE  ~ InFlight(h)' \/ Holds(h, job'[j])
  <2>1. Leave(g) /\ Owns(g, Row(g)) /\ hand[g].phase # "idle" /\ \E row : SetRow(g, row)
    BY <1>8 DEF ApplySuccess, ApplyRetry, ApplyFailure, ApplyCollision, Committing
  <2>2. CASE hand[g].job = j
    <3>1. g = h
      BY <1>3, <2>1, <2>2
    <3> QED BY <2>1, <3>1 DEF Leave, SetHand, Free, InFlight, TypeOK
  <2>3. CASE hand[g].job # j
    BY <1>1, <1>2, <2>1, <2>3
  <2> QED BY <2>2, <2>3
<1>9. ASSUME NEW g \in Handlers,
             \/ \E i \in Jobs : Deliver(g, i)
             \/ RenewRefused(g) \/ RenewFails(g) \/ PrepareFails(g) \/ AdmitRefused(g)
             \/ \E answer \in Answers : ProvisionerReturns(g, answer)
             \/ ApplySelect(g) \/ ApplyStale(g) \/ ApplyCollides(g) \/ ApplyFails(g)
      PROVE  Holds(h, job'[j])
  BY <1>1, <1>9 DEF Deliver, RenewRefused, RenewFails, PrepareFails, AdmitRefused, ProvisionerReturns,
                    ApplySelect, ApplyStale, ApplyCollides, ApplyFails
<1>10. CASE WorkerCrash
  BY <1>1, <1>10 DEF WorkerCrash
<1> QED BY <1>4, <1>5, <1>6, <1>7, <1>8, <1>9, <1>10
        DEF Next, HandlerStep, RenewStep, CallStep, ApplyStep

\* A step adds nobody to those whose lease has run out, or one for a fault.
LEMMA LapsedGrows ==
  ASSUME Base, Next, NEW j \in Jobs
  PROVE  \/ Lapsed(j)' \subseteq Lapsed(j)
         \/ faults' >= faults + 1 /\ \E h \in Handlers : Lapsed(j)' \subseteq Lapsed(j) \cup {h}
<1> USE DEF Base
<1>0. job[j] \in JobRows
  BY DEF TypeOK
<1>1. ASSUME NEW h \in Handlers, h \in Lapsed(j)', h \notin Lapsed(j)
      PROVE  /\ InFlight(h) /\ hand[h].job = j /\ Holds(h, job[j])
             /\ TimePasses
  <2>1. InFlight(h)' /\ hand'[h].job = j /\ ~ Holds(h, job'[j])
    BY <1>1 DEF Lapsed, Holds, Owns
  <2>2. HandStep(h)
    BY HandSteps
  <2>3. ~ Claim(h)
    <3> SUFFICES ASSUME Claim(h) PROVE FALSE
      OBVIOUS
    <3>1. hand'[h].job = hand[h].job /\ hand[h].phase = "delivered"
      BY DEF Claim, SetHand, TypeOK, HandRows
    <3>2. job'[j] = ClaimedRow(job[j], h)
      BY <2>1, <3>1, SetRowStep DEF Claim
    <3> QED BY <1>0, <2>1, <3>2, DelayAssumption DEF ClaimedRow, JobRows, Holds, Owns
  <2>4. ApplySelect(h) => InFlight(h) /\ hand'[h].job = hand[h].job
    BY DEF ApplySelect, SetHand, InFlight, TypeOK, HandRows
  <2>5. InFlight(h) /\ hand[h].job = j
    BY <2>1, <2>2, <2>3, <2>4 DEF HandStep, SameCall
  <2>6. Holds(h, job[j])
    BY <1>1, <2>5 DEF Lapsed
  <2> QED BY <2>1, <2>5, <2>6, HolderSteps
<1>2. CASE \E h \in Handlers : h \in Lapsed(j)' /\ h \notin Lapsed(j)
  <2>1. PICK h \in Handlers : h \in Lapsed(j)' /\ h \notin Lapsed(j)
    BY <1>2
  <2>2. InFlight(h) /\ hand[h].job = j /\ Holds(h, job[j]) /\ TimePasses
    BY <1>1, <2>1
  <2>3. job[j].leaseIn = 1
    <3>1. ~ Holds(h, job'[j])
      BY <2>1 DEF Lapsed, Holds, Owns
    <3>2. /\ job'[j].leaseIn = Minus(job[j].leaseIn) /\ job'[j].state = job[j].state
          /\ job'[j].leaseToken = job[j].leaseToken
      BY <1>0, <2>2 DEF TimePasses, JobRows
    <3>3. job[j].leaseIn \in Nat /\ job[j].leaseIn > 0 /\ Owns(h, job'[j])
      BY <1>0, <2>2, <3>2, DelayAssumption DEF Holds, Owns, JobRows
    <3>4. ~ (Minus(job[j].leaseIn) > 0)
      BY <3>1, <3>2, <3>3 DEF Holds
    <3> QED BY <3>3, <3>4 DEF Minus
  <2>4. j \in Lapsing
    BY <2>2, <2>3 DEF Lapsing, Holds
  <2>5. faults' >= faults + 1
    BY <2>2, <2>4, LapseIsFault
  <2>6. ASSUME NEW g \in Lapsed(j)' PROVE g \in Lapsed(j) \cup {h}
    <3>1. g \in Handlers
      BY DEF Lapsed
    <3> SUFFICES ASSUME g \notin Lapsed(j) PROVE g = h
      OBVIOUS
    <3>2. Holds(g, job[j])
      BY <1>1, <2>6, <3>1
    <3> QED BY <2>2, <3>2 DEF Holds, Owns
  <2> QED BY <2>5, <2>6
<1>3. CASE ~ \E h \in Handlers : h \in Lapsed(j)' /\ h \notin Lapsed(j)
  BY <1>3 DEF Lapsed
<1> QED BY <1>2, <1>3

LEMMA LapsesPaidStep ==
  ASSUME Base, LapsesPaid, Next
  PROVE  LapsesPaid'
<1> SUFFICES ASSUME NEW j \in Jobs
             PROVE  IsFiniteSet(Lapsed(j)') /\ Cardinality(Lapsed(j)') <= faults'
  BY DEF LapsesPaid
<1>0. faults \in Nat /\ faults' \in Nat /\ faults' >= faults
  BY FaultsGrow
<1> DEFINE before == Lapsed(j)
           after == Lapsed(j)'
<1>1. IsFiniteSet(before) /\ Cardinality(before) <= faults /\ Cardinality(before) \in Nat
  BY FS_CardinalityType DEF LapsesPaid
<1>2. \/ after \subseteq before
      \/ faults' >= faults + 1 /\ \E h \in Handlers : after \subseteq before \cup {h}
  BY LapsedGrows
<1> HIDE DEF before, after
<1>3. CASE after \subseteq before
  <2>1. IsFiniteSet(after) /\ Cardinality(after) <= Cardinality(before) /\ Cardinality(after) \in Nat
    BY <1>1, <1>3, FS_Subset, FS_CardinalityType
  <2> QED BY <1>0, <1>1, <2>1 DEF after
<1>4. ASSUME NEW h \in Handlers, after \subseteq before \cup {h}, faults' >= faults + 1
      PROVE  IsFiniteSet(after) /\ Cardinality(after) <= faults'
  <2>0. IsFiniteSet(before \cup {h})
        /\ Cardinality(before \cup {h}) = IF h \in before THEN Cardinality(before) ELSE Cardinality(before) + 1
    BY <1>1, FS_AddElement, Zenon
  <2>1. IsFiniteSet(before \cup {h}) /\ Cardinality(before \cup {h}) \in Nat
        /\ Cardinality(before \cup {h}) <= Cardinality(before) + 1
    BY <1>1, <2>0
  <2>2. IsFiniteSet(after) /\ Cardinality(after) <= Cardinality(before \cup {h}) /\ Cardinality(after) \in Nat
    BY <1>4, <2>1, FS_Subset, FS_CardinalityType
  <2> QED BY <1>0, <1>1, <1>4, <2>1, <2>2
<1> QED BY <1>2, <1>3, <1>4 DEF after

\* A second call for a connection is owed to a fault, each to one of its own;
\* "permits one active Microsoft job" (docs/product/lifecycles.md) holds as
\* long as nothing fails and no lease lapses.
THEOREM ExtraCallsArePaid == Spec => []CallsPaid
<1>1. Init => LapsesPaid
  <2> SUFFICES ASSUME Init, NEW j \in Jobs PROVE IsFiniteSet(Lapsed(j)) /\ Cardinality(Lapsed(j)) <= faults
    BY DEF LapsesPaid
  <2>1. Lapsed(j) = {}
    BY DEF Init, Free, InFlight, Lapsed
  <2> QED BY <2>1, FS_EmptySet DEF Init
<1>2. Fenced /\ LapsesPaid /\ [Next]_vars => LapsesPaid'
  <2>1. ASSUME LapsesPaid, UNCHANGED vars PROVE LapsesPaid'
    BY <2>1 DEF vars, LapsesPaid, Lapsed, InFlight, Holds, Owns
  <2> QED BY <2>1, LapsesPaidStep DEF Fenced
<1>3. Fenced /\ LapsesPaid => CallsPaid
  <2> SUFFICES ASSUME Fenced, LapsesPaid PROVE CallsPaid
    OBVIOUS
  <2>0. faults \in Nat
    BY DelayAssumption DEF Fenced, Base, TypeOK
  <2>1. ASSUME NEW g \in Handlers, NEW h \in Handlers, NEW j \in Jobs,
               g \in CallsOn(j), h \in CallsOn(j), g \notin Lapsed(j), h \notin Lapsed(j)
        PROVE  g = h
    BY <2>1 DEF CallsOn, Lapsed, InFlight, Holds, Owns
  <2>2. ASSUME NEW j \in Jobs PROVE IsFiniteSet(CallsOn(j)) /\ Cardinality(CallsOn(j)) <= 1 + faults
    <3>1. IsFiniteSet(Lapsed(j)) /\ Cardinality(Lapsed(j)) <= faults /\ Cardinality(Lapsed(j)) \in Nat
      BY FS_CardinalityType DEF LapsesPaid
    <3>2. \E h : CallsOn(j) \subseteq Lapsed(j) \cup {h}
      <4>1. CASE CallsOn(j) \subseteq Lapsed(j)
        BY <4>1
      <4>2. CASE ~ (CallsOn(j) \subseteq Lapsed(j))
        <5>1. PICK h \in CallsOn(j) : h \notin Lapsed(j)
          BY <4>2
        <5>2. CallsOn(j) \subseteq Handlers
          BY DEF CallsOn
        <5> QED BY <2>1, <5>1, <5>2
      <4> QED BY <4>1, <4>2
    <3>3. PICK h : CallsOn(j) \subseteq Lapsed(j) \cup {h}
      BY <3>2
    <3>4. IsFiniteSet(Lapsed(j) \cup {h}) /\ Cardinality(Lapsed(j) \cup {h}) \in Nat
          /\ Cardinality(Lapsed(j) \cup {h}) <= Cardinality(Lapsed(j)) + 1
      BY <3>1, FS_AddElement, FS_CardinalityType
    <3>5. IsFiniteSet(CallsOn(j)) /\ Cardinality(CallsOn(j)) <= Cardinality(Lapsed(j) \cup {h})
          /\ Cardinality(CallsOn(j)) \in Nat
      BY <3>3, <3>4, FS_Subset, FS_CardinalityType
    <3> QED BY <2>0, <3>1, <3>4, <3>5
  <2>3. ASSUME faults = 0, NEW g \in Handlers, NEW h \in Handlers,
               hand[g].phase = "calling", hand[h].phase = "calling", hand[g].job = hand[h].job
        PROVE  g = h
    <3>1. PICK j \in Jobs : j = hand[g].job
      BY <2>3, RowType DEF Fenced
    <3>2. Cardinality(Lapsed(j)) = 0 /\ IsFiniteSet(Lapsed(j))
      BY <2>3, FS_CardinalityType DEF LapsesPaid
    <3>3. Lapsed(j) = {}
      BY <3>2, FS_EmptySet
    <3>4. g \in CallsOn(j) /\ h \in CallsOn(j)
      BY <2>3, <3>1 DEF CallsOn
    <3> QED BY <2>1, <3>3, <3>4
  <2> QED BY <2>2, <2>3 DEF CallsPaid, OneCallPerConnection
<1> QED BY <1>1, <1>2, <1>3, FencedHolds, PTL DEF Spec

-----------------------------------------------------------------------------
(* What the settling of a validation rests on: its row only goes forward.    *)

\* Where a row stands: its attempts, and in each of them running, queued, ended.
Place(row) ==
  3 * row.attemptCount + (CASE row.state \in {"absent", "running"} -> 0
                            [] row.state = "queued" -> 1
                            [] row.state \in {"completed", "failed"} -> 2)
PlacesEnd == \A j \in Jobs : Place(job[j]) \in 0..(3 * (3 + MaxFaults) + 2)
RowsAdvance ==
  \A j \in Jobs :
    \/ job'[j].state = job[j].state /\ job'[j].attemptCount = job[j].attemptCount
    \/ Place(job'[j]) > Place(job[j])

\* Retries, recoveries and claims of expired leases take a job forward, and at
\* most to the end of the attempts that three and its faults allow: no
\* interleaving of ticks, deliveries and lapses makes one go round for ever.
THEOREM JobsGoForward == Spec => []PlacesEnd /\ [][RowsAdvance]_vars
<1>1. TypeOK /\ AttemptsPaid => PlacesEnd
  <2> SUFFICES ASSUME TypeOK, AttemptsPaid, NEW j \in Jobs
               PROVE  Place(job[j]) \in 0..(3 * (3 + MaxFaults) + 2)
    BY DEF PlacesEnd
  <2>1. job[j].attemptCount \in Nat /\ job[j].state \in JobStates /\ job[j].attemptCount <= 3 + faults
        /\ faults \in Nat /\ faults <= MaxFaults /\ MaxFaults \in Nat
    BY DelayAssumption DEF TypeOK, JobRows, AttemptsPaid
  <2> QED BY <2>1 DEF Place, JobStates
<1>2. Told /\ [Next]_vars => [RowsAdvance]_vars
  <2> SUFFICES ASSUME Told, Next, NEW j \in Jobs
               PROVE  \/ job'[j].state = job[j].state /\ job'[j].attemptCount = job[j].attemptCount
                      \/ Place(job'[j]) > Place(job[j])
    BY DEF RowsAdvance
  <2>0. Fenced /\ (job[j].state = "absent" => job[j].attemptCount = 0)
    BY DEF Told, Unbegun, Justified
  <2>1. job[j] \in JobRows /\ job'[j] \in JobRows /\ RowStep(j)
    <3>1. TypeOK'
      BY <2>0, BaseStep DEF Fenced, Base
    <3> QED BY <2>0, <3>1, RowSteps DEF Fenced, Base, TypeOK
  <2>2. /\ job[j].attemptCount \in Nat /\ job'[j].attemptCount \in Nat
        /\ job[j].state \in JobStates /\ job'[j].state \in JobStates
    BY <2>1 DEF JobRows
  <2>3. CASE job[j].state = "absent" /\ job'[j] = NewRow("queued")
    BY <2>0, <2>1, <2>2, <2>3 DEF NewRow, Place
  <2>4. CASE Expired(job[j]) /\ job'[j] = RecoveredRow(job[j])
    BY <2>1, <2>2, <2>4 DEF RecoveredRow, ReleasedRow, Expired, JobRows, Place
  <2>5. ASSUME NEW h \in Handlers, ClaimedBy(h, j) PROVE Place(job'[j]) > Place(job[j])
    <3>1. job[j].state \in {"queued", "running"} /\ job'[j] = ClaimedRow(job[j], h)
      BY <2>5 DEF ClaimedBy, Claimable, Expired
    <3>2. job'[j].state = "running" /\ job'[j].attemptCount = job[j].attemptCount + 1
      BY <2>1, <3>1 DEF ClaimedRow, JobRows
    <3> QED BY <2>2, <3>1, <3>2 DEF Place
  <2>6. ASSUME NEW h \in Handlers, RenewedBy(h, j)
        PROVE  job'[j].state = job[j].state /\ job'[j].attemptCount = job[j].attemptCount
    BY <2>1, <2>6 DEF RenewedBy, RenewedRow, JobRows
  <2>7. ASSUME NEW h \in Handlers, ReleasedBy(h, j) PROVE Place(job'[j]) > Place(job[j])
    <3>1. job[j].state = "running" /\ job'[j].attemptCount = job[j].attemptCount
          /\ job'[j].state \in {"queued", "completed", "failed"}
      BY <2>1, <2>7 DEF ReleasedBy, Released, ReleasedRow, Owns, JobRows
    <3> QED BY <2>2, <3>1 DEF Place
  <2>8. CASE Aged(job[j], job'[j])
    BY <2>1, <2>8 DEF Aged, JobRows
  <2> QED BY <2>1, <2>3, <2>4, <2>5, <2>6, <2>7, <2>8 DEF RowStep
<1>3. Told => TypeOK
  BY DEF Told, Justified, Fenced, Base
<1> QED BY <1>1, <1>2, <1>3, ToldHolds, AttemptsArePaid, PTL DEF Spec
=============================================================================
