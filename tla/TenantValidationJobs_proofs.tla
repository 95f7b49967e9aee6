--------------------- MODULE TenantValidationJobs_proofs ---------------------
(* Theorems of TenantValidationJobs, for every value of its constants. *)
EXTENDS TenantValidationJobs, FiniteSetTheorems, SequenceTheorems, TLAPS

-----------------------------------------------------------------------------
(* Rows stay rows. *)

LEMMA ClaimedRowType ==
  ASSUME NEW row \in JobRows, NEW h \in Handlers
  PROVE  ClaimedRow(row, h) \in JobRows
<1>1. LeaseDuration \in 0..LeaseDuration
  BY DelayAssumption
<1>2. row.attemptCount + 1 \in Nat /\ h \in Handlers \cup {NULL} /\ "running" \in JobStates
  BY DEF JobRows, JobStates
<1> QED BY <1>1, <1>2, Zenon DEF ClaimedRow, JobRows

LEMMA RenewedRowType ==
  ASSUME NEW row \in JobRows
  PROVE  RenewedRow(row) \in JobRows
BY DelayAssumption DEF RenewedRow, JobRows

LEMMA ReleasedRowType ==
  ASSUME NEW row \in JobRows, NEW state \in JobStates, NEW delay \in Nat,
         NEW failure \in FailureCodes \cup {NULL}
  PROVE  ReleasedRow(row, state, delay, failure) \in JobRows
<1>1. 0 \in 0..LeaseDuration
  BY DelayAssumption
<1> QED BY <1>1, Zenon DEF ReleasedRow, JobRows

LEMMA EmitType ==
  ASSUME outbox \in [Jobs -> Seq(Events)], NEW j \in Jobs, NEW delay \in Nat
  PROVE  Emit(j, delay) \in [Jobs -> Seq(Events)]
<1>1. Event(delay) \in Events
  BY DEF Event, Events
<1>2. Append(outbox[j], Event(delay)) \in Seq(Events)
  BY <1>1
<1> QED BY <1>2 DEF Emit

\* Marking an event changes that event and leaves the others.
LEMMA MarkedType ==
  ASSUME NEW s \in Seq(Events), NEW n
  PROVE  [s EXCEPT ![n].dispatched = TRUE] \in Seq(Events)
<1> DEFINE marked == [s EXCEPT ![n].dispatched = TRUE]
<1>1. \A m \in 1..Len(s) : s[m] \in Events
  BY ElementOfSeq
<1>2. \A event \in Events : [event EXCEPT !.dispatched = TRUE] \in Events
  BY Zenon DEF Events
<1>3. s = [m \in 1..Len(s) |-> s[m]] /\ Len(s) \in Nat
  OBVIOUS
<1>4. \A m \in 1..Len(s) : marked[m] \in Events
  <2> TAKE m \in 1..Len(s)
  <2>1. CASE m = n
    <3>1. marked[m] = [s[m] EXCEPT !.dispatched = TRUE]
      BY <1>3, <2>1
    <3> QED BY <1>1, <1>2, <3>1
  <2>2. CASE m # n
    BY <1>1, <1>3, <2>2
  <2> QED BY <2>1, <2>2
<1>5. marked \in [1..Len(s) -> Events]
  BY <1>3, <1>4
<1> QED BY <1>3, <1>5

-----------------------------------------------------------------------------
(* What every invocation of the handler knows of its job, on which the      *)
(* types already depend: it names a job, a job that runs was claimed, and a *)
(* result that is being applied is an answer of the provisioner.            *)

HandKnows(row) ==
  /\ row.phase # "idle" => row.job \in Jobs
  /\ row.phase \in {"applying", "committing", "collided"} => row.result \in Answers
  /\ row.phase = "collided" => row.result \in Tenants
  /\ row.retry => row.phase = "committing" /\ row.result \in TransientFailures

HandsKnow ==
  /\ \A h \in Handlers : HandKnows(hand[h])
  /\ \A j \in Jobs : job[j].state = "running" => job[j].attemptCount >= 1

Base == TypeOK /\ HandsKnow

LEMMA InitBase == Init => Base
<1> SUFFICES ASSUME Init PROVE Base
  OBVIOUS
<1> USE DelayAssumption DEF Init
<1>1. job \in [Jobs -> JobRows]
  BY DEF JobRows, JobStates, NewRow
<1>2. conn \in [Jobs -> ConnRows]
  BY DEF ConnRows
<1>3. outbox \in [Jobs -> Seq(Events)] /\ queue \in [Jobs -> Nat]
  OBVIOUS
<1>4. hand \in [Handlers -> HandRows]
  BY DEF HandRows, Free, Phases
<1>5. tick \in [Ticks -> TickRows]
  BY DEF TickRows, NoTick
<1>6. lost \subseteq Jobs /\ faults \in 0..MaxFaults
  OBVIOUS
<1>7. HandsKnow
  BY DEF HandsKnow, HandKnows, Free, NewRow
<1> QED BY <1>1, <1>2, <1>3, <1>4, <1>5, <1>6, <1>7 DEF Base, TypeOK

LEMMA SetRowType ==
  ASSUME Base, NEW h \in Handlers, hand[h].phase # "idle", NEW row \in JobRows, SetRow(h, row)
  PROVE  job' \in [Jobs -> JobRows]
BY DEF SetRow, Base, TypeOK

LEMMA SetHandType ==
  ASSUME Base, NEW h \in Handlers, NEW row \in HandRows, SetHand(h, row)
  PROVE  hand' \in [Handlers -> HandRows]
BY DEF SetHand, Base, TypeOK

LEMMA LeaveType ==
  ASSUME Base, NEW h \in Handlers, Leave(h)
  PROVE  hand' \in [Handlers -> HandRows]
<1>1. Free \in HandRows
  BY DEF Free, HandRows, Phases
<1> QED BY <1>1, SetHandType DEF Leave

LEMMA FaultyType ==
  ASSUME Base, Faulty
  PROVE  faults' \in 0..MaxFaults
BY DelayAssumption DEF Faulty, Base, TypeOK

LEMMA DispatchingType ==
  ASSUME NEW batch \in SUBSET EventIds
  PROVE  Dispatching(batch) \in TickRows
BY DEF Dispatching, NoTick, TickRows

-----------------------------------------------------------------------------
(* Types of the tick's steps. *)

LEMMA TickStepType ==
  ASSUME Base, NEW t \in Ticks, TickStep(t)
  PROVE  TypeOK'
<1> USE DEF Base
<1>1. CASE RecoverExpired(t)
  <2>1. \A j \in Jobs : RecoveredRow(job[j]) \in JobRows
    BY ReleasedRowType DEF RecoveredRow, TypeOK, JobRows, JobStates
  <2>2. job' \in [Jobs -> JobRows]
    BY <1>1, <2>1 DEF RecoverExpired, TypeOK
  <2>3. \A j \in Jobs : Append(outbox[j], Event(0)) \in Seq(Events)
    BY DEF TypeOK, Event, Events
  <2>4. outbox' \in [Jobs -> Seq(Events)]
    BY <1>1, <2>3 DEF RecoverExpired, TypeOK
  <2>5. tick' \in [Ticks -> TickRows]
    BY <1>1 DEF RecoverExpired, TypeOK, TickRows
  <2> QED BY <1>1, <2>2, <2>4, <2>5 DEF RecoverExpired, TypeOK
<1>2. CASE SelectPending(t)
  <2>1. Pending \in SUBSET EventIds
    BY DEF Pending, EventIds, TypeOK
  <2> QED BY <1>2, <2>1, DispatchingType DEF SelectPending, TypeOK
<1>3. CASE MarkDispatched(t)
  <2> DEFINE e == tick[t].sent
  <2>1. e \in EventIds
    BY <1>3 DEF MarkDispatched, TypeOK, TickRows
  <2>2. outbox' \in [Jobs -> Seq(Events)]
    <3> DEFINE s == outbox[e[1]]
               marked == [s EXCEPT ![e[2]].dispatched = TRUE]
    <3>1. e[1] \in Jobs /\ s \in Seq(Events)
      BY <2>1 DEF EventIds, TypeOK
    <3>2. marked \in Seq(Events)
      BY <3>1, MarkedType
    <3>3. outbox' = [outbox EXCEPT ![e[1]] = marked]
      BY <1>3 DEF MarkDispatched
    <3> QED BY <3>1, <3>2, <3>3 DEF TypeOK
  <2>3. tick[t].batch \in SUBSET EventIds
    BY DEF TypeOK, TickRows
  <2> QED BY <1>3, <2>2, <2>3, DispatchingType DEF MarkDispatched, TypeOK
<1>4. CASE MarkFails(t)
  <2>1. tick[t].batch \in SUBSET EventIds
    BY DEF TypeOK, TickRows
  <2> QED BY <1>4, <2>1, DispatchingType, FaultyType DEF MarkFails, TypeOK
<1>5. ASSUME NEW e \in tick[t].batch, Enqueue(t, e) PROVE TypeOK'
  <2>1. e \in EventIds
    BY DEF TypeOK, TickRows
  <2>2. tick' \in [Ticks -> TickRows]
    BY <1>5, <2>1 DEF Enqueue, TypeOK, TickRows
  <2>3. queue' \in [Jobs -> Nat]
    BY <1>5, <2>1 DEF Enqueue, TypeOK, EventIds
  <2> QED BY <1>5, <2>2, <2>3 DEF Enqueue, TypeOK
<1>6. ASSUME NEW e \in tick[t].batch, EnqueueFails(t, e) PROVE TypeOK'
  <2>1. tick[t].batch \ {e} \in SUBSET EventIds
    BY DEF TypeOK, TickRows
  <2> QED BY <1>6, <2>1, DispatchingType, FaultyType DEF EnqueueFails, TypeOK
<1>7. CASE SelectFails(t)
  <2>1. NoTick \in TickRows
    BY DEF NoTick, TickRows
  <2> QED BY <1>7, <2>1, FaultyType DEF SelectFails, TypeOK
<1> QED BY <1>1, <1>2, <1>3, <1>4, <1>5, <1>6, <1>7 DEF TickStep

-----------------------------------------------------------------------------
(* Types of the handler's steps. *)

LEMMA ClaimStepType ==
  ASSUME Base, NEW h \in Handlers, ClaimStep(h)
  PROVE  TypeOK'
<1> USE DEF Base
<1>0. hand[h].phase = "delivered" /\ hand[h].job \in Jobs /\ Row(h) \in JobRows
  BY DEF ClaimStep, Claim, ClaimNotFound, ClaimFails, ClaimReadFails, HandsKnow, HandKnows, TypeOK, Row
<1>1. CASE Claim(h)
  <2>1. job' \in [Jobs -> JobRows]
    BY <1>0, <1>1, ClaimedRowType, SetRowType DEF Claim
  <2>2. Row(h).attemptCount + 1 \in Nat
    BY <1>0 DEF JobRows
  <2>3. hand[h] \in HandRows /\ "claimed" \in Phases
    BY DEF TypeOK, Phases
  <2>4. [hand[h] EXCEPT !.phase = "claimed", !.attempt = Row(h).attemptCount + 1] \in HandRows
    BY <2>2, <2>3, Zenon DEF HandRows
  <2>5. hand' \in [Handlers -> HandRows]
    BY <1>1, <2>4, SetHandType DEF Claim
  <2> QED BY <1>1, <2>1, <2>5 DEF Claim, TypeOK
<1>2. CASE ClaimNotFound(h)
  BY <1>2, LeaveType DEF ClaimNotFound, TypeOK
<1>3. CASE ClaimFails(h)
  BY <1>0, <1>3, LeaveType, FaultyType DEF ClaimFails, TypeOK
<1>4. CASE ClaimReadFails(h)
  <2>1. job' \in [Jobs -> JobRows]
    BY <1>0, <1>4, ClaimedRowType, SetRowType DEF ClaimReadFails
  <2> QED BY <1>4, <2>1, LeaveType, FaultyType DEF ClaimReadFails, TypeOK
<1> QED BY <1>1, <1>2, <1>3, <1>4 DEF ClaimStep

\* A handler past its claim has a job whose row is there to be written.
LEMMA RowType ==
  ASSUME Base, NEW h \in Handlers, hand[h].phase # "idle"
  PROVE  hand[h] \in HandRows /\ hand[h].job \in Jobs /\ Row(h) \in JobRows
BY DEF Base, TypeOK, HandsKnow, HandKnows, Row

LEMMA RenewStepType ==
  ASSUME Base, NEW h \in Handlers, RenewStep(h)
  PROVE  TypeOK'
<1> USE DEF Base
<1>1. CASE Renew(h)
  <2>1. job' \in [Jobs -> JobRows]
    BY <1>1, RowType, RenewedRowType, SetRowType DEF Renew, InFlight
  <2> QED BY <1>1, <2>1 DEF Renew, TypeOK
<1>2. CASE RenewRefused(h) \/ RenewFails(h)
  <2>1. hand[h] \in HandRows
    BY <1>2, RowType DEF RenewRefused, RenewFails
  <2>2. [hand[h] EXCEPT !.leaseLost = TRUE] \in HandRows
    BY <2>1, Zenon DEF HandRows
  <2>3. hand' \in [Handlers -> HandRows]
    BY <1>2, <2>2, SetHandType DEF RenewRefused, RenewFails
  <2> QED BY <1>2, <2>3, FaultyType DEF RenewRefused, RenewFails, TypeOK
<1> QED BY <1>1, <1>2 DEF RenewStep

LEMMA CallStepType ==
  ASSUME Base, NEW h \in Handlers, CallStep(h)
  PROVE  TypeOK'
<1> USE DEF Base
<1>1. CASE PrepareFails(h) \/ AdmitRefused(h)
  BY <1>1, LeaveType, FaultyType DEF PrepareFails, AdmitRefused, TypeOK
<1>2. CASE Admit(h)
  <2>1. hand[h] \in HandRows /\ Row(h) \in JobRows /\ "calling" \in Phases
    BY <1>2, RowType DEF Admit, Phases
  <2>2. job' \in [Jobs -> JobRows]
    BY <1>2, <2>1, RenewedRowType, SetRowType DEF Admit
  <2>3. [hand[h] EXCEPT !.phase = "calling"] \in HandRows
    BY <2>1, Zenon DEF HandRows
  <2>4. hand' \in [Handlers -> HandRows]
    BY <1>2, <2>3, SetHandType DEF Admit
  <2> QED BY <1>2, <2>2, <2>4 DEF Admit, TypeOK
<1>3. ASSUME NEW answer \in Answers, ProvisionerReturns(h, answer) PROVE TypeOK'
  <2>1. hand[h] \in HandRows /\ "applying" \in Phases
    BY <1>3, RowType DEF ProvisionerReturns, Phases
  <2>2. answer \in Tenants \cup FailureCodes \cup {NULL}
    BY AnswerAssumption DEF FailureCodes
  <2>3. [hand[h] EXCEPT !.phase = "applying", !.result = answer] \in HandRows
    BY <2>1, <2>2, Zenon DEF HandRows
  <2>4. hand' \in [Handlers -> HandRows]
    BY <1>3, <2>3, SetHandType DEF ProvisionerReturns
  <2> QED BY <1>3, <2>4 DEF ProvisionerReturns, TypeOK
<1> QED BY <1>1, <1>2, <1>3 DEF CallStep

\* An attempt that is tried again has a delay: the third attempt is never
\* tried again, so retryAvailableAt is not called past its table.
LEMMA RetryDelayDefined ==
  ASSUME Base, NEW h \in Handlers, hand[h].phase = "applying", Holds(h, Row(h)),
         ShouldRetry(hand[h].result, Row(h))
  PROVE  RetryDelay[Row(h).attemptCount] \in Nat
<1>1. Row(h) \in JobRows /\ Row(h).attemptCount >= 1
  BY RowType DEF Base, HandsKnow, Row, Holds, Owns
<1>2. Row(h).attemptCount \in 1..2
  BY <1>1 DEF ShouldRetry, JobRows
<1> QED BY <1>2, DelayAssumption

LEMMA ApplyStepType ==
  ASSUME Base, NEW h \in Handlers, ApplyStep(h)
  PROVE  TypeOK'
<1> USE DEF Base
<1>0. hand[h].phase # "idle" /\ hand[h] \in HandRows /\ hand[h].job \in Jobs /\ Row(h) \in JobRows
  BY RowType DEF ApplyStep, ApplySelect, ApplyStale, ApplySuccess, ApplyCollides, ApplyRetry,
                 ApplyFailure, ApplyCollision, ApplyFails, Committing
<1>1. CASE ApplySelect(h)
  <2> DEFINE retry == ShouldRetry(hand[h].result, Row(h))
             delay == IF retry THEN RetryDelay[Row(h).attemptCount] ELSE 0
  <2>1. delay \in Nat
    BY <1>1, RetryDelayDefined DEF ApplySelect
  <2>2. retry \in BOOLEAN /\ "committing" \in Phases
    BY DEF ShouldRetry, Phases
  <2>3. [hand[h] EXCEPT !.phase = "committing", !.retry = retry, !.availableIn = delay] \in HandRows
    <3> HIDE DEF retry, delay
    <3> QED BY <1>0, <2>1, <2>2, Zenon DEF HandRows
  <2>4. hand' \in [Handlers -> HandRows]
    BY <1>1, <2>3, SetHandType DEF ApplySelect
  <2> QED BY <1>1, <2>4 DEF ApplySelect, TypeOK
<1>2. CASE ApplyStale(h) \/ ApplyFails(h)
  BY <1>2, LeaveType, FaultyType DEF ApplyStale, ApplyFails, TypeOK
<1>3. CASE ApplySuccess(h)
  <2>1. job' \in [Jobs -> JobRows]
    BY <1>0, <1>3, ReleasedRowType, SetRowType DEF ApplySuccess, JobStates
  <2>2. conn' \in [Jobs -> ConnRows]
    BY <1>0, <1>3 DEF ApplySuccess, TypeOK, ConnRows
  <2> QED BY <1>3, <2>1, <2>2, LeaveType DEF ApplySuccess, TypeOK
<1>4. CASE ApplyCollides(h)
  <2>1. [hand[h] EXCEPT !.phase = "collided"] \in HandRows
    <3>1. "collided" \in Phases
      BY DEF Phases
    <3> QED BY <1>0, <3>1, Zenon DEF HandRows
  <2>2. hand' \in [Handlers -> HandRows]
    BY <1>4, <2>1, SetHandType DEF ApplyCollides
  <2> QED BY <1>4, <2>2 DEF ApplyCollides, TypeOK
<1>5. CASE ApplyRetry(h)
  <2>1. hand[h].availableIn \in Nat /\ hand[h].result \in FailureCodes \cup {NULL}
    BY <1>0, <1>5 DEF ApplyRetry, HandsKnow, HandKnows, HandRows, FailureCodes
  <2>2. job' \in [Jobs -> JobRows]
    BY <1>0, <1>5, <2>1, ReleasedRowType, SetRowType DEF ApplyRetry, JobStates
  <2>3. conn' \in [Jobs -> ConnRows]
    BY <1>0, <1>5 DEF ApplyRetry, TypeOK, ConnRows
  <2>4. outbox' \in [Jobs -> Seq(Events)]
    BY <1>0, <1>5, <2>1, EmitType DEF ApplyRetry, TypeOK
  <2> QED BY <1>5, <2>2, <2>3, <2>4, LeaveType DEF ApplyRetry, TypeOK
<1>6. CASE ApplyFailure(h)
  <2>1. job' \in [Jobs -> JobRows]
    BY <1>0, <1>6, ReleasedRowType, SetRowType DEF ApplyFailure, JobStates
  <2>2. conn' \in [Jobs -> ConnRows]
    BY <1>0, <1>6 DEF ApplyFailure, TypeOK, ConnRows
  <2> QED BY <1>6, <2>1, <2>2, LeaveType DEF ApplyFailure, TypeOK
<1>7. CASE ApplyCollision(h)
  <2>1. Collision \in FailureCodes
    BY DEF FailureCodes
  <2>2. job' \in [Jobs -> JobRows]
    BY <1>0, <1>7, <2>1, ReleasedRowType, SetRowType DEF ApplyCollision, JobStates
  <2>3. conn' \in [Jobs -> ConnRows]
    BY <1>0, <1>7 DEF ApplyCollision, TypeOK, ConnRows
  <2> QED BY <1>7, <2>2, <2>3, LeaveType DEF ApplyCollision, TypeOK
<1> QED BY <1>1, <1>2, <1>3, <1>4, <1>5, <1>6, <1>7 DEF ApplyStep

-----------------------------------------------------------------------------
(* Types of the remaining steps. *)

LEMMA StartType ==
  ASSUME Base, NEW j \in Jobs, Start(j)
  PROVE  TypeOK'
<1> USE DEF Base
<1>1. job' \in [Jobs -> JobRows]
  BY DelayAssumption DEF Start, TypeOK, JobRows, JobStates, NewRow
<1>2. conn' \in [Jobs -> ConnRows]
  BY DEF Start, TypeOK, ConnRows
<1>3. outbox' \in [Jobs -> Seq(Events)]
  BY EmitType DEF Start, TypeOK
<1> QED BY <1>1, <1>2, <1>3 DEF Start, TypeOK

LEMMA DeliverType ==
  ASSUME Base, NEW h \in Handlers, NEW j \in Jobs, Deliver(h, j)
  PROVE  TypeOK'
<1> USE DEF Base
<1>1. [Free EXCEPT !.phase = "delivered", !.job = j] \in HandRows
  BY DEF Free, HandRows, Phases
<1>2. hand' \in [Handlers -> HandRows]
  BY <1>1, SetHandType DEF Deliver
<1>3. queue' \in [Jobs -> Nat]
  BY DEF Deliver, TypeOK
<1> QED BY <1>2, <1>3 DEF Deliver, TypeOK

LEMMA CrashType ==
  ASSUME Base, WorkerCrash
  PROVE  TypeOK'
<1> USE DEF Base
<1>1. hand' \in [Handlers -> HandRows]
  BY DEF WorkerCrash, Free, HandRows, Phases
<1>2. tick' \in [Ticks -> TickRows]
  BY DEF WorkerCrash, NoTick, TickRows
<1>3. lost' \subseteq Jobs
  BY DEF WorkerCrash, TypeOK, HandsKnow, HandKnows
<1> QED BY <1>1, <1>2, <1>3, FaultyType DEF WorkerCrash, TypeOK

LEMMA TimeType ==
  ASSUME Base, TimePasses
  PROVE  TypeOK'
<1> USE DEF Base
<1>1. job' \in [Jobs -> JobRows]
  <2>1. \A j \in Jobs :
          [job[j] EXCEPT !.availableIn = Minus(@), !.leaseIn = Minus(@)] \in JobRows
    <3> TAKE j \in Jobs
    <3>1. job[j] \in JobRows
      BY DEF TypeOK
    <3>2. Minus(job[j].availableIn) \in Nat /\ Minus(job[j].leaseIn) \in 0..LeaseDuration
      BY <3>1, DelayAssumption DEF JobRows, Minus
    <3> QED BY <3>1, <3>2, Zenon DEF JobRows
  <2> QED BY <2>1 DEF TimePasses, TypeOK
<1>2. outbox' \in [Jobs -> Seq(Events)]
  <2>1. \A j \in Jobs : [n \in DOMAIN outbox[j] |->
                           [outbox[j][n] EXCEPT !.availableIn = Minus(@)]] \in Seq(Events)
    <3> TAKE j \in Jobs
    <3> DEFINE s == outbox[j]
    <3>1. s \in Seq(Events)
      BY DEF TypeOK
    <3>2. \A n \in 1..Len(s) : s[n] \in Events
      BY <3>1, ElementOfSeq
    <3>3. \A event \in Events : [event EXCEPT !.availableIn = Minus(@)] \in Events
      <4> TAKE event \in Events
      <4>1. Minus(event.availableIn) \in Nat
        BY DEF Events, Minus
      <4> QED BY <4>1, Zenon DEF Events
    <3>4. DOMAIN s = 1..Len(s) /\ Len(s) \in Nat
      BY <3>1
    <3>5. [n \in DOMAIN s |-> [s[n] EXCEPT !.availableIn = Minus(@)]] \in [1..Len(s) -> Events]
      BY <3>2, <3>3, <3>4
    <3> QED BY <3>4, <3>5
  <2> QED BY <2>1 DEF TimePasses, TypeOK
<1>3. hand' \in [Handlers -> HandRows]
  <2>1. \A h \in Handlers : [hand[h] EXCEPT !.availableIn = Minus(@)] \in HandRows
    <3> TAKE h \in Handlers
    <3>1. hand[h] \in HandRows
      BY DEF TypeOK
    <3>2. Minus(hand[h].availableIn) \in Nat
      BY <3>1 DEF HandRows, Minus
    <3> QED BY <3>1, <3>2, Zenon DEF HandRows
  <2> QED BY <2>1 DEF TimePasses, TypeOK
<1>4. faults' \in 0..MaxFaults
  <2>1. Lapsing \subseteq Jobs
    BY DEF Lapsing
  <2>2. Cardinality(Lapsing) \in Nat
    <3>1. IsFiniteSet(Lapsing)
      BY <2>1, FiniteAssumption, FS_Subset, Zenon
    <3> QED BY <3>1, FS_CardinalityType
  <2> DEFINE lapsed == Cardinality(Lapsing)
  <2>3. faults + lapsed <= MaxFaults /\ faults' = faults + lapsed
    BY DEF TimePasses
  <2>4. faults \in Nat
    BY DEF TypeOK
  <2> HIDE DEF lapsed
  <2>5. lapsed \in Nat
    BY <2>2 DEF lapsed
  <2> QED BY <2>3, <2>4, <2>5, DelayAssumption
<1> QED BY <1>1, <1>2, <1>3, <1>4 DEF TimePasses, TypeOK

-----------------------------------------------------------------------------
(* What handlers know is kept. *)

LEMMA SetHandKnows ==
  ASSUME Base, NEW h \in Handlers, NEW row, SetHand(h, row), HandKnows(row)
  PROVE  \A g \in Handlers : HandKnows(hand'[g])
BY DEF SetHand, Base, TypeOK, HandsKnow

LEMMA LeaveKnows ==
  ASSUME Base, NEW h \in Handlers, Leave(h)
  PROVE  \A g \in Handlers : HandKnows(hand'[g])
<1>1. HandKnows(Free)
  BY DEF HandKnows, Free
<1> QED BY <1>1, SetHandKnows DEF Leave

LEMMA SetRowKnows ==
  ASSUME Base, NEW h \in Handlers, NEW row, SetRow(h, row),
         row.state = "running" => row.attemptCount >= 1
  PROVE  \A j \in Jobs : job'[j].state = "running" => job'[j].attemptCount >= 1
BY DEF SetRow, Base, TypeOK, HandsKnow

LEMMA HandsKnowStep ==
  ASSUME Base, Next
  PROVE  HandsKnow'
<1> USE DEF Base
<1> DEFINE Hands == \A h \in Handlers : HandKnows(hand'[h])
           Rows == \A j \in Jobs : job'[j].state = "running" => job'[j].attemptCount >= 1
<1>0. UNCHANGED hand => Hands
  BY DEF HandsKnow
<1>00. UNCHANGED job => Rows
  BY DEF HandsKnow
<1>1. ASSUME NEW j \in Jobs, Start(j) PROVE HandsKnow'
  BY <1>1 DEF Start, NewRow, HandsKnow, TypeOK, JobRows
<1>2. ASSUME NEW t \in Ticks, TickStep(t) PROVE HandsKnow'
  <2>1. CASE RecoverExpired(t)
    <3>1. \A j \in Jobs : job'[j].state = "running" => job'[j] = job[j]
      BY <2>1 DEF RecoverExpired, RecoveredRow, ReleasedRow, TypeOK, JobRows
    <3>2. hand' = hand
      BY <2>1 DEF RecoverExpired
    <3> QED BY <3>1, <3>2 DEF HandsKnow
  <2>2. CASE UNCHANGED <<job, hand>>
    BY <2>2 DEF HandsKnow
  <2> QED BY <1>2, <2>1, <2>2
          DEF TickStep, SelectPending, SelectFails, MarkDispatched, MarkFails, Enqueue, EnqueueFails
<1>3. ASSUME NEW h \in Handlers, NEW j \in Jobs, Deliver(h, j) PROVE HandsKnow'
  <2>1. HandKnows([Free EXCEPT !.phase = "delivered", !.job = j])
    BY DEF HandKnows, Free
  <2> QED BY <1>3, <1>00, <2>1, SetHandKnows DEF Deliver, HandsKnow
<1>4. ASSUME NEW h \in Handlers, ClaimStep(h) PROVE HandsKnow'
  <2>0. /\ hand[h].phase = "delivered" /\ hand[h].job \in Jobs
        /\ Row(h) \in JobRows /\ hand[h] \in HandRows /\ HandKnows(hand[h])
    BY <1>4, RowType DEF ClaimStep, Claim, ClaimNotFound, ClaimFails, ClaimReadFails, HandsKnow
  <2>1. ClaimedRow(Row(h), h).attemptCount >= 1
    BY <2>0 DEF ClaimedRow, JobRows
  <2>2. CASE Claim(h)
    <3>1. HandKnows([hand[h] EXCEPT !.phase = "claimed", !.attempt = Row(h).attemptCount + 1])
      BY <2>0 DEF HandKnows, HandRows
    <3>2. Hands
      BY <2>2, <3>1, SetHandKnows DEF Claim
    <3>3. Rows
      BY <2>1, <2>2, SetRowKnows DEF Claim
    <3> QED BY <3>2, <3>3 DEF HandsKnow
  <2>3. CASE ClaimReadFails(h)
    BY <2>1, <2>3, LeaveKnows, SetRowKnows DEF ClaimReadFails, HandsKnow
  <2>4. CASE ClaimNotFound(h) \/ ClaimFails(h)
    BY <1>00, <2>4, LeaveKnows DEF ClaimNotFound, ClaimFails, HandsKnow
  <2> QED BY <1>4, <2>2, <2>3, <2>4 DEF ClaimStep
<1>5. ASSUME NEW h \in Handlers, RenewStep(h) PROVE HandsKnow'
  <2>0. hand[h].job \in Jobs /\ Row(h) \in JobRows /\ hand[h] \in HandRows /\ HandKnows(hand[h])
    BY <1>5, RowType DEF RenewStep, Renew, RenewRefused, RenewFails, InFlight, HandsKnow
  <2>1. CASE Renew(h)
    <3>1. RenewedRow(Row(h)).state = "running" => RenewedRow(Row(h)).attemptCount >= 1
      BY <2>0 DEF RenewedRow, Row, HandsKnow, JobRows
    <3> QED BY <1>0, <2>1, <3>1, SetRowKnows DEF Renew, HandsKnow
  <2>2. CASE RenewRefused(h) \/ RenewFails(h)
    <3>1. HandKnows([hand[h] EXCEPT !.leaseLost = TRUE])
      BY <2>0 DEF HandKnows, HandRows
    <3> QED BY <1>00, <2>2, <3>1, SetHandKnows DEF RenewRefused, RenewFails, HandsKnow
  <2> QED BY <1>5, <2>1, <2>2 DEF RenewStep
<1>6. ASSUME NEW h \in Handlers, CallStep(h) PROVE HandsKnow'
  <2>0. hand[h].job \in Jobs /\ Row(h) \in JobRows /\ hand[h] \in HandRows /\ HandKnows(hand[h])
    BY <1>6, RowType DEF CallStep, PrepareFails, Admit, AdmitRefused, ProvisionerReturns, HandsKnow
  <2>1. CASE PrepareFails(h) \/ AdmitRefused(h)
    BY <1>00, <2>1, LeaveKnows DEF PrepareFails, AdmitRefused, HandsKnow
  <2>2. CASE Admit(h)
    <3>1. RenewedRow(Row(h)).state = "running" => RenewedRow(Row(h)).attemptCount >= 1
      BY <2>0 DEF RenewedRow, Row, HandsKnow, JobRows
    <3>2. HandKnows([hand[h] EXCEPT !.phase = "calling"])
      BY <2>0, <2>2 DEF Admit, HandKnows, HandRows
    <3>3. Rows
      BY <2>2, <3>1, SetRowKnows DEF Admit
    <3>4. Hands
      BY <2>2, <3>2, SetHandKnows DEF Admit
    <3> QED BY <3>3, <3>4 DEF HandsKnow
  <2>3. ASSUME NEW answer \in Answers, ProvisionerReturns(h, answer) PROVE HandsKnow'
    <3>1. HandKnows([hand[h] EXCEPT !.phase = "applying", !.result = answer])
      BY <2>0, <2>3 DEF ProvisionerReturns, HandKnows, HandRows
    <3> QED BY <1>00, <2>3, <3>1, SetHandKnows DEF ProvisionerReturns, HandsKnow
  <2> QED BY <1>6, <2>1, <2>2, <2>3 DEF CallStep
<1>7. ASSUME NEW h \in Handlers, ApplyStep(h) PROVE HandsKnow'
  <2>0. hand[h] \in HandRows /\ HandKnows(hand[h])
    BY DEF TypeOK, HandsKnow
  <2>1. CASE ApplySelect(h)
    <3> DEFINE retry == ShouldRetry(hand[h].result, Row(h))
               delay == IF retry THEN RetryDelay[Row(h).attemptCount] ELSE 0
    <3>1. hand[h].phase = "applying" /\ (retry => hand[h].result \in TransientFailures)
      BY <2>1 DEF ApplySelect, ShouldRetry
    <3>2. HandKnows([hand[h] EXCEPT !.phase = "committing", !.retry = retry,
                                    !.availableIn = delay])
      <4> HIDE DEF retry, delay
      <4> QED BY <2>0, <3>1 DEF HandKnows, HandRows
    <3> QED BY <1>00, <2>1, <3>2, SetHandKnows DEF ApplySelect, HandsKnow
  <2>2. CASE ApplyStale(h) \/ ApplyFails(h)
    BY <1>00, <2>2, LeaveKnows DEF ApplyStale, ApplyFails, HandsKnow
  <2>3. CASE ApplyCollides(h)
    <3>1. HandKnows([hand[h] EXCEPT !.phase = "collided"])
      BY <2>0, <2>3, TenantAssumption
      DEF ApplyCollides, Committing, HandKnows, HandRows, FailureCodes
    <3> QED BY <1>00, <2>3, <3>1, SetHandKnows DEF ApplyCollides, HandsKnow
  <2>4. ASSUME NEW state \in {"completed", "queued", "failed"}, NEW delay, NEW failure,
               SetRow(h, ReleasedRow(Row(h), state, delay, failure)), Leave(h),
               hand[h].phase # "idle"
        PROVE  HandsKnow'
    <3>1. ReleasedRow(Row(h), state, delay, failure).state # "running"
      BY <2>4, RowType DEF ReleasedRow, JobRows
    <3> QED BY <2>4, <3>1, LeaveKnows, SetRowKnows DEF HandsKnow
  <2>5. CASE ApplySuccess(h) \/ ApplyRetry(h) \/ ApplyFailure(h) \/ ApplyCollision(h)
    BY <2>4, <2>5 DEF ApplySuccess, ApplyRetry, ApplyFailure, ApplyCollision, Committing
  <2> QED BY <1>7, <2>1, <2>2, <2>3, <2>5 DEF ApplyStep
<1>8. CASE WorkerCrash
  BY <1>00, <1>8 DEF WorkerCrash, Free, HandsKnow, HandKnows
<1>9. CASE TimePasses
  <2>1. \A h \in Handlers : /\ hand'[h].phase = hand[h].phase /\ hand'[h].job = hand[h].job
                            /\ hand'[h].result = hand[h].result /\ hand'[h].retry = hand[h].retry
    BY <1>9 DEF TimePasses, TypeOK, HandRows
  <2>2. \A j \in Jobs : job'[j].state = job[j].state /\ job'[j].attemptCount = job[j].attemptCount
    BY <1>9 DEF TimePasses, TypeOK, JobRows
  <2> QED BY <2>1, <2>2 DEF HandsKnow, HandKnows
<1> QED BY <1>1, <1>2, <1>3, <1>4, <1>5, <1>6, <1>7, <1>8, <1>9 DEF Next, HandlerStep

LEMMA BaseStep == Base /\ [Next]_vars => Base'
<1> SUFFICES ASSUME Base, [Next]_vars PROVE Base'
  OBVIOUS
<1>1. CASE Next
  <2>1. TypeOK'
    BY <1>1, TickStepType, ClaimStepType, RenewStepType, CallStepType, ApplyStepType, StartType,
       DeliverType, CrashType, TimeType DEF Next, HandlerStep
  <2> QED BY <1>1, <2>1, HandsKnowStep DEF Base
<1>2. CASE UNCHANGED vars
  BY <1>2 DEF vars, Base, TypeOK, HandsKnow
<1> QED BY <1>1, <1>2

LEMMA BaseHolds == Spec => []Base
<1> QED BY InitBase, BaseStep, PTL DEF Spec

\* Every column and every local variable keeps its type, for any number of
\* jobs, slots and overlapping ticks; no lease outlasts one renewal.
THEOREM TypeCorrect == Spec => []TypeOK
<1>1. Base => TypeOK
  BY DEF Base
<1> QED BY <1>1, BaseHolds, PTL

-----------------------------------------------------------------------------
(* The job and its connection. *)

LEMMA AgreementStep ==
  ASSUME Base, JobTenantAgreement, Next
  PROVE  JobTenantAgreement'
<1> USE DEF Base
<1> DEFINE Agrees(row, c) ==
      /\ c.state = CASE row.state = "absent" -> "absent"
                     [] row.state \in {"queued", "running"} -> "validating"
                     [] row.state = "completed" -> "active"
                     [] row.state = "failed" -> "validation_failed"
      /\ c.tenant # NULL <=> c.state = "active"
<1>a. \A j \in Jobs : Agrees(job[j], conn[j])
  BY DEF JobTenantAgreement
<1>b. ASSUME \A j \in Jobs : Agrees(job'[j], conn'[j]) PROVE JobTenantAgreement'
  BY <1>b DEF JobTenantAgreement
<1>c. \A j \in Jobs : job[j] \in JobRows /\ conn[j] \in ConnRows
  BY DEF TypeOK
<1>d. ASSUME UNCHANGED conn, \A j \in Jobs : \/ job'[j].state = job[j].state
                                            \/ {job[j].state, job'[j].state} \subseteq {"queued", "running"}
      PROVE  JobTenantAgreement'
  BY <1>a, <1>b, <1>d
<1>1. ASSUME NEW j \in Jobs, Start(j) PROVE JobTenantAgreement'
  <2>1. Agrees(job'[j], conn'[j])
    BY <1>1, <1>a, <1>c DEF Start, NewRow, TypeOK, ConnRows
  <2>2. \A k \in Jobs \ {j} : job'[k] = job[k] /\ conn'[k] = conn[k]
    BY <1>1 DEF Start, TypeOK
  <2> QED BY <1>a, <1>b, <2>1, <2>2
<1>2. ASSUME NEW t \in Ticks, TickStep(t) PROVE JobTenantAgreement'
  <2>1. CASE RecoverExpired(t)
    <3>1. \A j \in Jobs : \/ job'[j] = job[j]
                          \/ job[j].state = "running" /\ job'[j].state = "queued"
      BY <2>1, <1>c DEF RecoverExpired, Expired, RecoveredRow, ReleasedRow, TypeOK, JobRows
    <3>2. UNCHANGED conn
      BY <2>1 DEF RecoverExpired
    <3> QED BY <1>d, <3>1, <3>2
  <2>2. CASE UNCHANGED <<job, conn>>
    BY <1>d, <2>2
  <2> QED BY <1>2, <2>1, <2>2
          DEF TickStep, SelectPending, SelectFails, MarkDispatched, MarkFails, Enqueue, EnqueueFails
<1>3. ASSUME NEW h \in Handlers, NEW row, SetRow(h, row), UNCHANGED conn,
             hand[h].phase # "idle",
             {Row(h).state, row.state} \subseteq {"queued", "running"}
      PROVE  JobTenantAgreement'
  <2>1. \A j \in Jobs : job'[j] = IF j = hand[h].job THEN row ELSE job[j]
    BY <1>3, RowType DEF SetRow, TypeOK
  <2> QED BY <1>3, <1>d, <2>1 DEF Row
<1>4. ASSUME NEW h \in Handlers, HandlerStep(h), UNCHANGED <<job, conn>> PROVE JobTenantAgreement'
  BY <1>4, <1>d
<1>5. ASSUME NEW h \in Handlers, ClaimStep(h) PROVE JobTenantAgreement'
  <2>1. CASE Claim(h) \/ ClaimReadFails(h)
    <3>1. hand[h].phase # "idle" /\ Row(h).state \in {"queued", "running"} /\ UNCHANGED conn
      BY <2>1 DEF Claim, ClaimReadFails, Claimable, Expired
    <3>2. ClaimedRow(Row(h), h).state = "running"
      BY <3>1, RowType DEF ClaimedRow, JobRows
    <3> QED BY <1>3, <2>1, <3>1, <3>2 DEF Claim, ClaimReadFails
  <2>2. CASE UNCHANGED <<job, conn>>
    BY <1>d, <2>2
  <2> QED BY <1>5, <2>1, <2>2 DEF ClaimStep, ClaimNotFound, ClaimFails
<1>6. ASSUME NEW h \in Handlers, RenewStep(h) \/ CallStep(h) PROVE JobTenantAgreement'
  <2>1. CASE Renew(h) \/ Admit(h)
    <3>1. hand[h].phase # "idle" /\ Row(h).state = "running" /\ UNCHANGED conn
      BY <2>1 DEF Renew, InFlight, Admit, Admissible, Holds, Owns
    <3>2. RenewedRow(Row(h)).state = "running"
      BY <3>1, RowType DEF RenewedRow, JobRows
    <3> QED BY <1>3, <2>1, <3>1, <3>2 DEF Renew, Admit
  <2>2. CASE UNCHANGED <<job, conn>>
    BY <1>d, <2>2
  <2> QED BY <1>6, <2>1, <2>2
          DEF RenewStep, CallStep, RenewRefused, RenewFails, PrepareFails, AdmitRefused,
              ProvisionerReturns
<1>7. ASSUME NEW h \in Handlers, ApplyStep(h) PROVE JobTenantAgreement'
  <2>1. ASSUME NEW row, NEW c, hand[h].phase # "idle", SetRow(h, row),
               conn' = [conn EXCEPT ![hand[h].job] = c], Agrees(row, c)
        PROVE  JobTenantAgreement'
    <3>1. \A j \in Jobs : /\ job'[j] = IF j = hand[h].job THEN row ELSE job[j]
                          /\ conn'[j] = IF j = hand[h].job THEN c ELSE conn[j]
      BY <2>1, RowType DEF SetRow, TypeOK
    <3>2. \A j \in Jobs : Agrees(job'[j], conn'[j])
      <4> TAKE j \in Jobs
      <4>1. CASE j = hand[h].job
        <5>1. job'[j] = row /\ conn'[j] = c
          BY <3>1, <4>1
        <5> QED BY <2>1, <5>1
      <4>2. CASE j # hand[h].job
        <5>1. job'[j] = job[j] /\ conn'[j] = conn[j]
          BY <3>1, <4>2
        <5> QED BY <1>a, <5>1
      <4> QED BY <4>1, <4>2
    <3> QED BY <1>b, <3>2
  <2> DEFINE c0 == conn[hand[h].job]
  <2>2. ASSUME hand[h].phase # "idle", Owns(h, Row(h))
        PROVE  /\ c0 \in ConnRows /\ c0.state = "validating" /\ c0.tenant = NULL
               /\ Row(h) \in JobRows
    BY <2>2, <1>a, <1>c, RowType DEF Owns, Row
  <2>3. CASE ApplySuccess(h)
    <3> DEFINE c == [state |-> "active", tenant |-> hand[h].result]
               row == ReleasedRow(Row(h), "completed", 0, NULL)
    <3>1. Agrees(row, c)
      BY <2>2, <2>3, NullAssumption
      DEF ApplySuccess, Committing, ReleasedRow, JobRows
    <3> QED BY <2>1, <2>3, <3>1 DEF ApplySuccess, Committing
  <2>4. CASE ApplyRetry(h)
    <3> DEFINE c == [c0 EXCEPT !.state = "validating"]
               row == ReleasedRow(Row(h), "queued", hand[h].availableIn, hand[h].result)
    <3>1. Agrees(row, c)
      BY <2>2, <2>4 DEF ApplyRetry, Committing, ReleasedRow, JobRows, ConnRows
    <3> QED BY <2>1, <2>4, <3>1 DEF ApplyRetry, Committing
  <2>5. CASE ApplyFailure(h)
    <3> DEFINE c == [c0 EXCEPT !.state = "validation_failed"]
               row == ReleasedRow(Row(h), "failed", 0, hand[h].result)
    <3>1. Agrees(row, c)
      BY <2>2, <2>5 DEF ApplyFailure, Committing, ReleasedRow, JobRows, ConnRows
    <3> QED BY <2>1, <2>5, <3>1 DEF ApplyFailure, Committing
  <2>6. CASE ApplyCollision(h)
    <3> DEFINE c == [c0 EXCEPT !.state = "validation_failed"]
               row == ReleasedRow(Row(h), "failed", 0, Collision)
    <3>1. Agrees(row, c)
      BY <2>2, <2>6 DEF ApplyCollision, ReleasedRow, JobRows, ConnRows
    <3> QED BY <2>1, <2>6, <3>1 DEF ApplyCollision
  <2>7. CASE UNCHANGED <<job, conn>>
    BY <1>d, <2>7
  <2> QED BY <1>7, <2>3, <2>4, <2>5, <2>6, <2>7
          DEF ApplyStep, ApplySelect, ApplyStale, ApplyCollides, ApplyFails
<1>8. CASE WorkerCrash
  BY <1>8, <1>d DEF WorkerCrash
<1>9. CASE TimePasses
  <2>1. \A j \in Jobs : job'[j].state = job[j].state
    BY <1>9, <1>c DEF TimePasses, TypeOK, JobRows
  <2> QED BY <1>9, <1>d, <2>1 DEF TimePasses
<1>10. ASSUME NEW h \in Handlers, NEW j \in Jobs, Deliver(h, j) PROVE JobTenantAgreement'
  BY <1>10, <1>d DEF Deliver
<1> QED BY <1>1, <1>2, <1>5, <1>6, <1>7, <1>8, <1>9, <1>10 DEF Next, HandlerStep

\* After every step, crash or lapse, the state of a job and the state of its
\* tenant connection agree.
THEOREM JobsAgree == Spec => []JobTenantAgreement
<1>1. Init => JobTenantAgreement
  BY DEF Init, JobTenantAgreement, NewRow
<1>2. Base /\ JobTenantAgreement /\ [Next]_vars => JobTenantAgreement'
  <2>1. UNCHANGED vars /\ JobTenantAgreement => JobTenantAgreement'
    BY DEF vars, JobTenantAgreement
  <2> QED BY <2>1, AgreementStep
<1> QED BY <1>1, <1>2, BaseHolds, PTL DEF Spec

-----------------------------------------------------------------------------
(* The Microsoft tenant and its connection. *)

\* The connections a step may touch, and what it makes of them.
LEMMA ConnStep ==
  ASSUME Base, Next
  PROVE  \/ \A j \in Jobs : conn'[j] = conn[j] \/ conn'[j].state # "active"
         \/ \E h \in Handlers : ApplySuccess(h)
<1> USE DEF Base
<1>1. ASSUME NEW j \in Jobs, NEW state, state # "active",
             conn' = [conn EXCEPT ![j].state = state]
      PROVE  \A k \in Jobs : conn'[k] = conn[k] \/ conn'[k].state # "active"
  BY <1>1 DEF TypeOK, ConnRows
<1>2. CASE \E j \in Jobs : Start(j)
  BY <1>1, <1>2 DEF Start
<1>3. CASE \E h \in Handlers : ApplyRetry(h) \/ ApplyFailure(h) \/ ApplyCollision(h)
  <2>1. PICK h \in Handlers : ApplyRetry(h) \/ ApplyFailure(h) \/ ApplyCollision(h)
    BY <1>3
  <2>2. hand[h].job \in Jobs
    BY <2>1, RowType DEF ApplyRetry, ApplyFailure, ApplyCollision, Committing
  <2> QED BY <1>1, <2>1, <2>2 DEF ApplyRetry, ApplyFailure, ApplyCollision
<1>4. CASE UNCHANGED conn
  BY <1>4
<1>5. CASE \E t \in Ticks : TickStep(t)
  BY <1>4, <1>5
  DEF TickStep, RecoverExpired, SelectPending, SelectFails, MarkDispatched, MarkFails, Enqueue, EnqueueFails
<1>6. CASE \E h \in Handlers : ClaimStep(h) \/ RenewStep(h) \/ CallStep(h)
                               \/ \E j \in Jobs : Deliver(h, j)
  BY <1>4, <1>6
  DEF ClaimStep, Claim, ClaimNotFound, ClaimFails, ClaimReadFails, RenewStep, Renew,
      RenewRefused, RenewFails, CallStep, PrepareFails, Admit, AdmitRefused, ProvisionerReturns,
      Deliver
<1>7. CASE \E h \in Handlers : ApplyStep(h)
  BY <1>3, <1>4, <1>7 DEF ApplyStep, ApplySelect, ApplyStale, ApplyCollides, ApplyFails
<1>8. CASE WorkerCrash \/ TimePasses
  BY <1>4, <1>8 DEF WorkerCrash, TimePasses
<1> QED BY <1>2, <1>5, <1>6, <1>7, <1>8 DEF Next, HandlerStep

LEMMA UniqueOwnerStep ==
  ASSUME Base, UniqueOwner, Next
  PROVE  UniqueOwner'
<1> USE DEF Base
<1>1. CASE \A j \in Jobs : conn'[j] = conn[j] \/ conn'[j].state # "active"
  BY <1>1 DEF UniqueOwner
<1>2. ASSUME NEW h \in Handlers, ApplySuccess(h) PROVE UniqueOwner'
  <2> DEFINE c == [state |-> "active", tenant |-> hand[h].result]
  <2>1. hand[h].job \in Jobs
    BY <1>2, RowType DEF ApplySuccess, Committing
  <2>2. \A j \in Jobs : conn'[j] = IF j = hand[h].job THEN c ELSE conn[j]
    BY <1>2, <2>1 DEF ApplySuccess, TypeOK
  <2>3. \A j \in Jobs : ~ (conn[j].state = "active" /\ conn[j].tenant = hand[h].result)
    BY <1>2 DEF ApplySuccess, TenantTaken, TypeOK, ConnRows
  <2> QED BY <2>2, <2>3 DEF UniqueOwner
<1> QED BY <1>1, <1>2, ConnStep

\* Two connections are never active for one Microsoft tenant, whatever number
\* of results for it are applied concurrently.
THEOREM TenantConnectedOnce == Spec => []UniqueOwner
<1>1. Init => UniqueOwner
  BY DEF Init, UniqueOwner
<1>2. Base /\ UniqueOwner /\ [Next]_vars => UniqueOwner'
  <2>1. UNCHANGED vars /\ UniqueOwner => UniqueOwner'
    BY DEF vars, UniqueOwner
  <2> QED BY <2>1, UniqueOwnerStep
<1> QED BY <1>1, <1>2, BaseHolds, PTL DEF Spec

-----------------------------------------------------------------------------
(* No queued job is forgotten.                                              *)
(*                                                                          *)
(* WakeUpKept is inductive with TicksKnow: the events that a tick holds in  *)
(* its hands are rows whose time has come.                                  *)

Due(e) == e[2] \in DOMAIN outbox[e[1]] /\ outbox[e[1]][e[2]].availableIn = 0

TicksKnow ==
  \A t \in Ticks :
    /\ \A e \in tick[t].batch : Due(e)
    /\ tick[t].sent # NULL => Due(tick[t].sent)

OpenEvent(j, n) ==
  /\ n \in DOMAIN outbox[j] /\ ~ outbox[j][n].dispatched
  /\ outbox[j][n].availableIn >= job[j].availableIn
  /\ \A t \in Ticks : tick[t].sent # <<j, n>>
Startable(j) == job[j].availableIn = 0 /\ (queue[j] > 0 \/ Delivered(j))
Kept(j) == job[j].state = "queued" /\ j \notin lost =>
             (\E n \in DOMAIN outbox[j] : OpenEvent(j, n)) \/ Startable(j)

Wakes == Base /\ TicksKnow /\ \A j \in Jobs : Kept(j)

LEMMA KeptIsWakeUp == WakeUpKept <=> \A j \in Jobs : Kept(j)
BY DEF WakeUpKept, Kept, OpenEvent, Startable

\* Events of the outbox are rows; appending one leaves the others in place.
LEMMA OutboxRows ==
  ASSUME Base, NEW j \in Jobs
  PROVE  /\ outbox[j] \in Seq(Events) /\ Len(outbox[j]) \in Nat
         /\ DOMAIN outbox[j] = 1..Len(outbox[j])
         /\ \A n \in DOMAIN outbox[j] : outbox[j][n] \in Events
BY ElementOfSeq DEF Base, TypeOK

LEMMA AppendedEvent ==
  ASSUME NEW s \in Seq(Events), NEW delay \in Nat
  PROVE  /\ DOMAIN Append(s, Event(delay)) = 1..(Len(s) + 1)
         /\ \A n \in 1..Len(s) : Append(s, Event(delay))[n] = s[n]
         /\ Append(s, Event(delay))[Len(s) + 1] = Event(delay)
         /\ Len(s) + 1 \notin DOMAIN s
<1>1. Event(delay) \in Events
  BY DEF Event, Events
<1> QED BY <1>1, AppendProperties

\* A step that moves neither the events nor the ticks keeps a wake-up unless
\* it touches the job itself.
LEMMA KeptFrame ==
  ASSUME Wakes, NEW j \in Jobs, job'[j].state = "queued" => job'[j] = job[j],
         outbox'[j] = outbox[j], lost \subseteq lost', queue'[j] = queue[j],
         \A t \in Ticks : tick'[t].sent = tick[t].sent \/ tick'[t].sent = NULL,
         Delivered(j) => Delivered(j)' \/ j \in lost'
  PROVE  Kept(j)'
<1> SUFFICES ASSUME job'[j].state = "queued", j \notin lost' PROVE (\E n \in DOMAIN outbox[j] : OpenEvent(j, n)') \/ Startable(j)'
  BY DEF Kept
<1>1. job'[j] = job[j] /\ ((\E n \in DOMAIN outbox[j] : OpenEvent(j, n)) \/ Startable(j))
  BY DEF Wakes, Kept
<1>2. ASSUME NEW n \in DOMAIN outbox[j], OpenEvent(j, n) PROVE OpenEvent(j, n)'
  <2>1. <<j, n>> \in EventIds
    BY OutboxRows DEF Wakes, EventIds
  <2> QED BY <1>1, <1>2, <2>1, NullAssumption DEF OpenEvent
<1>3. Startable(j) => Startable(j)'
  BY <1>1 DEF Startable
<1> QED BY <1>1, <1>2, <1>3

\* A step that touches neither the outbox nor the ticks keeps what they know.
LEMMA TicksFrame ==
  ASSUME Wakes, UNCHANGED <<outbox, tick>>
  PROVE  TicksKnow'
BY DEF Wakes, TicksKnow, Due

LEMMA WakesStart ==
  ASSUME Wakes, NEW j \in Jobs, Start(j)
  PROVE  TicksKnow' /\ \A k \in Jobs : Kept(k)'
<1> USE DEF Wakes
<1>1. outbox'[j] = Append(outbox[j], Event(0)) /\ \A k \in Jobs \ {j} : outbox'[k] = outbox[k]
  BY DEF Start, Emit, Base, TypeOK
<1>2. UNCHANGED <<queue, hand, tick, lost>> /\ \A k \in Jobs \ {j} : job'[k] = job[k]
  BY DEF Start, Base, TypeOK
<1>3. job'[j].availableIn = 0
  BY DEF Start, NewRow, Base, TypeOK
<1>4. TicksKnow'
  <2>1. \A t \in Ticks, e \in EventIds : Due(e) => Due(e)'
    BY <1>1, OutboxRows, AppendedEvent DEF Due, EventIds
  <2>2. \A t \in Ticks : tick[t].batch \subseteq EventIds /\ tick[t].sent \in EventIds \cup {NULL}
    BY DEF Base, TypeOK, TickRows
  <2> QED BY <1>2, <2>1, <2>2 DEF TicksKnow
<1>5. Kept(j)'
  <2>0. PICK n \in Nat : n = Len(outbox[j]) + 1
    BY OutboxRows
  <2>1. n \in DOMAIN outbox'[j] /\ outbox'[j][n] = Event(0) /\ n \notin DOMAIN outbox[j]
    BY <1>1, <2>0, OutboxRows, AppendedEvent
  <2>2. <<j, n>> \in EventIds
    BY <2>0, OutboxRows DEF EventIds
  <2>3. \A t \in Ticks : tick[t].sent # <<j, n>>
    BY <2>1, <2>2, NullAssumption DEF TicksKnow, Due
  <2>4. OpenEvent(j, n)'
    BY <1>2, <1>3, <2>1, <2>3 DEF OpenEvent, Event
  <2> QED BY <2>1, <2>4 DEF Kept
<1>6. \A k \in Jobs \ {j} : Kept(k)'
  BY <1>1, <1>2, KeptFrame DEF Delivered
<1> QED BY <1>4, <1>5, <1>6

LEMMA WakesRecover ==
  ASSUME Wakes, NEW t \in Ticks, RecoverExpired(t)
  PROVE  TicksKnow' /\ \A j \in Jobs : Kept(j)'
<1> USE DEF Wakes
<1>1. UNCHANGED <<conn, queue, hand, lost>>
  BY DEF RecoverExpired
<1>2. \A u \in Ticks : tick'[u].sent = tick[u].sent /\ tick'[u].batch = tick[u].batch
  BY DEF RecoverExpired, Base, TypeOK, TickRows
<1>3. ASSUME NEW j \in Jobs, ~ Expired(job[j])
      PROVE  job'[j] = job[j] /\ outbox'[j] = outbox[j]
  BY <1>3 DEF RecoverExpired
<1>4. ASSUME NEW j \in Jobs, Expired(job[j])
      PROVE  job'[j].availableIn = 0 /\ outbox'[j] = Append(outbox[j], Event(0))
  BY <1>4 DEF RecoverExpired, RecoveredRow, ReleasedRow, Base, TypeOK, JobRows
<1>5. ASSUME NEW j \in Jobs, NEW n \in DOMAIN outbox[j]
      PROVE  n \in DOMAIN outbox'[j] /\ outbox'[j][n] = outbox[j][n]
  BY <1>3, <1>4, <1>5, OutboxRows, AppendedEvent
<1>6. TicksKnow'
  <2>1. \A e \in EventIds : Due(e) => Due(e)'
    BY <1>5 DEF Due, EventIds
  <2>2. \A u \in Ticks : tick[u].batch \subseteq EventIds /\ tick[u].sent \in EventIds \cup {NULL}
    BY DEF Base, TypeOK, TickRows
  <2> QED BY <1>2, <2>1, <2>2 DEF TicksKnow
<1>7. ASSUME NEW j \in Jobs, Expired(job[j]) PROVE Kept(j)'
  <2>0. PICK n \in Nat : n = Len(outbox[j]) + 1
    BY OutboxRows
  <2>1. n \in DOMAIN outbox'[j] /\ outbox'[j][n] = Event(0) /\ n \notin DOMAIN outbox[j]
    BY <1>4, <1>7, <2>0, OutboxRows, AppendedEvent
  <2>2. <<j, n>> \in EventIds
    BY <2>0, OutboxRows DEF EventIds
  <2>3. \A u \in Ticks : tick'[u].sent # <<j, n>>
    BY <1>2, <2>1, <2>2, NullAssumption DEF TicksKnow, Due
  <2>4. OpenEvent(j, n)'
    BY <1>4, <1>7, <2>1, <2>3 DEF OpenEvent, Event
  <2> QED BY <2>1, <2>4 DEF Kept
<1>8. ASSUME NEW j \in Jobs, ~ Expired(job[j]) PROVE Kept(j)'
  BY <1>1, <1>2, <1>3, <1>8, KeptFrame DEF Delivered
<1> QED BY <1>6, <1>7, <1>8

LEMMA WakesSelect ==
  ASSUME Wakes, NEW t \in Ticks, SelectPending(t)
  PROVE  TicksKnow' /\ \A j \in Jobs : Kept(j)'
<1> USE DEF Wakes
<1>1. UNCHANGED <<job, outbox, queue, hand, lost>>
  BY DEF SelectPending
<1>2. \A e \in Pending : Due(e)
  BY DEF Pending, Due
<1>3. tick'[t].sent = NULL /\ tick'[t].batch \subseteq Pending
  BY DEF SelectPending, Dispatching, NoTick, Base, TypeOK
<1>4. \A u \in Ticks \ {t} : tick'[u] = tick[u]
  BY DEF SelectPending, Base, TypeOK
<1>5. TicksKnow'
  BY <1>1, <1>2, <1>3, <1>4 DEF TicksKnow, Due
<1>6. \A j \in Jobs : Kept(j)'
  BY <1>1, <1>3, <1>4, KeptFrame DEF Delivered
<1> QED BY <1>5, <1>6

\* The event goes to the queue; from here to the mark the message, or what
\* came of it, stands for the job.
LEMMA WakesEnqueue ==
  ASSUME Wakes, NEW t \in Ticks, NEW e \in tick[t].batch, Enqueue(t, e)
  PROVE  TicksKnow' /\ \A j \in Jobs : Kept(j)'
<1> USE DEF Wakes
<1>1. UNCHANGED <<job, outbox, hand, lost>>
  BY DEF Enqueue
<1>2. e \in EventIds /\ Due(e)
  BY DEF Base, TypeOK, TickRows, TicksKnow
<1>3. tick'[t].sent = e /\ tick'[t].batch \subseteq tick[t].batch
  BY DEF Enqueue, Base, TypeOK, TickRows
<1>4. \A u \in Ticks \ {t} : tick'[u] = tick[u]
  BY DEF Enqueue, Base, TypeOK
<1>5. TicksKnow'
  BY <1>1, <1>2, <1>3, <1>4 DEF TicksKnow, Due
<1>6. ASSUME NEW j \in Jobs PROVE Kept(j)'
  <2>0. queue[j] \in Nat /\ queue'[j] = IF j = e[1] THEN queue[j] + 1 ELSE queue[j]
    BY DEF Enqueue, Base, TypeOK
  <2>1. Startable(j) => Startable(j)'
    BY <1>1, <2>0 DEF Startable, Delivered
  <2>2. ASSUME NEW n \in DOMAIN outbox[j], OpenEvent(j, n), <<j, n>> # e PROVE OpenEvent(j, n)'
    BY <1>1, <1>3, <1>4, <2>2 DEF OpenEvent
  <2>3. ASSUME NEW n \in DOMAIN outbox[j], OpenEvent(j, n), <<j, n>> = e PROVE Startable(j)'
    <3>1. job[j].availableIn \in Nat /\ outbox[j][n].availableIn = 0 /\ e[1] = j
      BY <1>2, <2>3 DEF Due, Base, TypeOK, JobRows
    <3> QED BY <1>1, <2>0, <2>3, <3>1 DEF OpenEvent, Startable
  <2> QED BY <1>1, <2>1, <2>2, <2>3 DEF Kept
<1> QED BY <1>5, <1>6

LEMMA WakesForget ==
  ASSUME Wakes, NEW t \in Ticks,
         \/ SelectFails(t)
         \/ MarkFails(t)
         \/ \E e \in tick[t].batch : EnqueueFails(t, e)
  PROVE  TicksKnow' /\ \A j \in Jobs : Kept(j)'
<1> USE DEF Wakes
<1>1. UNCHANGED <<job, outbox, queue, hand, lost>>
  BY DEF SelectFails, MarkFails, EnqueueFails
<1>2. tick'[t].sent = NULL /\ tick'[t].batch \subseteq tick[t].batch
  <2>1. CASE SelectFails(t)
    BY <2>1 DEF SelectFails, NoTick, Base, TypeOK
  <2>2. CASE MarkFails(t)
    BY <2>2 DEF MarkFails, Dispatching, NoTick, Base, TypeOK
  <2>3. CASE \E e \in tick[t].batch : EnqueueFails(t, e)
    BY <2>3 DEF EnqueueFails, Dispatching, NoTick, Base, TypeOK
  <2> QED BY <2>1, <2>2, <2>3
<1>3. \A u \in Ticks \ {t} : tick'[u] = tick[u]
  <2>1. CASE SelectFails(t)
    BY <2>1 DEF SelectFails, Base, TypeOK
  <2>2. CASE MarkFails(t)
    BY <2>2 DEF MarkFails, Base, TypeOK
  <2>3. CASE \E e \in tick[t].batch : EnqueueFails(t, e)
    BY <2>3 DEF EnqueueFails, Base, TypeOK
  <2> QED BY <2>1, <2>2, <2>3
<1>4. TicksKnow'
  BY <1>1, <1>2, <1>3 DEF TicksKnow, Due
<1>5. \A j \in Jobs : Kept(j)'
  BY <1>1, <1>2, <1>3, KeptFrame DEF Delivered
<1> QED BY <1>4, <1>5

LEMMA WakesMark ==
  ASSUME Wakes, NEW t \in Ticks, MarkDispatched(t)
  PROVE  TicksKnow' /\ \A j \in Jobs : Kept(j)'
<1> USE DEF Wakes
<1>1. UNCHANGED <<job, queue, hand, lost>>
  BY DEF MarkDispatched
<1>2. PICK e \in EventIds : e = tick[t].sent /\ Due(e)
  BY DEF MarkDispatched, Base, TypeOK, TickRows, TicksKnow
<1>3. tick'[t].sent = NULL /\ tick'[t].batch \subseteq tick[t].batch
  BY DEF MarkDispatched, Dispatching, NoTick, Base, TypeOK
<1>4. \A u \in Ticks \ {t} : tick'[u] = tick[u]
  BY DEF MarkDispatched, Base, TypeOK
<1>5. outbox' = [outbox EXCEPT ![e[1]] = [outbox[e[1]] EXCEPT ![e[2]].dispatched = TRUE]]
  BY <1>2 DEF MarkDispatched
<1>6. ASSUME NEW j \in Jobs, NEW n \in DOMAIN outbox[j]
      PROVE  /\ n \in DOMAIN outbox'[j]
             /\ outbox'[j][n].availableIn = outbox[j][n].availableIn
             /\ <<j, n>> # e => outbox'[j][n] = outbox[j][n]
  <2>1. CASE j # e[1]
    BY <1>5, <2>1 DEF Base, TypeOK
  <2>2. CASE j = e[1]
    <3>1. outbox'[j] = [outbox[j] EXCEPT ![e[2]].dispatched = TRUE]
      BY <1>5, <2>2 DEF Base, TypeOK
    <3>2. e = <<j, e[2]>> /\ outbox[j][n] \in Events
      BY <1>2, <1>6, <2>2, OutboxRows DEF EventIds
    <3>3. CASE n # e[2]
      BY <1>6, <3>1, <3>3, OutboxRows
    <3>4. CASE n = e[2]
      <4>1. n \in DOMAIN outbox'[j] /\ outbox'[j][n] = [outbox[j][n] EXCEPT !.dispatched = TRUE]
        BY <1>6, <3>1, <3>4, OutboxRows
      <4> QED BY <3>2, <3>4, <4>1 DEF Events
    <3> QED BY <3>3, <3>4
  <2> QED BY <2>1, <2>2
<1>7. TicksKnow'
  <2>1. \A d \in EventIds : Due(d) => Due(d)'
    BY <1>6 DEF Due, EventIds
  <2>2. \A u \in Ticks : tick[u].batch \subseteq EventIds /\ tick[u].sent \in EventIds \cup {NULL}
    BY DEF Base, TypeOK, TickRows
  <2> QED BY <1>3, <1>4, <2>1, <2>2 DEF TicksKnow
<1>8. ASSUME NEW j \in Jobs PROVE Kept(j)'
  <2>1. Startable(j) => Startable(j)'
    BY <1>1 DEF Startable, Delivered
  <2>2. ASSUME NEW n \in DOMAIN outbox[j], OpenEvent(j, n) PROVE n \in DOMAIN outbox'[j] /\ OpenEvent(j, n)'
    <3>1. <<j, n>> # e /\ <<j, n>> \in EventIds
      BY <1>2, <2>2, OutboxRows DEF OpenEvent, EventIds
    <3>2. n \in DOMAIN outbox'[j] /\ outbox'[j][n] = outbox[j][n]
      BY <1>6, <2>2, <3>1
    <3>3. \A u \in Ticks : tick'[u].sent # <<j, n>>
      BY <1>3, <1>4, <2>2, <3>1, NullAssumption DEF OpenEvent
    <3> QED BY <1>1, <2>2, <3>2, <3>3 DEF OpenEvent
  <2> QED BY <1>1, <2>1, <2>2 DEF Kept
<1> QED BY <1>7, <1>8

LEMMA WakesDeliver ==
  ASSUME Wakes, NEW h \in Handlers, NEW j \in Jobs, Deliver(h, j)
  PROVE  TicksKnow' /\ \A k \in Jobs : Kept(k)'
<1> USE DEF Wakes
<1>1. UNCHANGED <<job, outbox, tick, lost>>
  BY DEF Deliver
<1>2. hand'[h].phase = "delivered" /\ hand'[h].job = j
  BY DEF Deliver, SetHand, Free, Base, TypeOK
<1>3. \A g \in Handlers : hand[g].phase = "delivered" => hand'[g] = hand[g]
  BY DEF Deliver, SetHand, Base, TypeOK
<1>4. \A k \in Jobs \ {j} : queue'[k] = queue[k]
  BY DEF Deliver, Base, TypeOK
<1>5. \A k \in Jobs \ {j} : Kept(k)'
  BY <1>1, <1>3, <1>4, KeptFrame DEF Delivered
<1>6. Kept(j)'
  <2>1. Startable(j) => Startable(j)'
    BY <1>1, <1>2 DEF Startable, Delivered
  <2>2. \A n \in DOMAIN outbox[j] : OpenEvent(j, n) => OpenEvent(j, n)'
    BY <1>1 DEF OpenEvent
  <2> QED BY <1>1, <2>1, <2>2 DEF Kept
<1> QED BY <1>1, <1>5, <1>6, TicksFrame

\* The claim that consumes a delivery: it starts the job, or the delivery was
\* not what the job was waiting for, or the job is counted as lost.
LEMMA WakesClaim ==
  ASSUME Wakes, NEW h \in Handlers, ClaimStep(h)
  PROVE  TicksKnow' /\ \A j \in Jobs : Kept(j)'
<1> USE DEF Wakes
<1>0. PICK j \in Jobs : j = hand[h].job
  BY RowType DEF ClaimStep, Claim, ClaimNotFound, ClaimFails, ClaimReadFails
<1>1. UNCHANGED <<outbox, tick, queue>> /\ lost \subseteq lost'
  BY DEF ClaimStep, Claim, ClaimNotFound, ClaimFails, ClaimReadFails
<1>2. /\ hand[h].phase = "delivered" /\ Row(h) \in JobRows
      /\ \A g \in Handlers \ {h} : hand'[g] = hand[g]
  BY RowType DEF ClaimStep, Claim, ClaimNotFound, ClaimFails, ClaimReadFails, Leave, SetHand,
                 Base, TypeOK
<1>3. \A k \in Jobs \ {j} : job'[k] = job[k]
  BY <1>0 DEF ClaimStep, Claim, ClaimNotFound, ClaimFails, ClaimReadFails, SetRow, Base, TypeOK
<1>4. ASSUME NEW k \in Jobs, k # j PROVE Kept(k)'
  BY <1>0, <1>1, <1>2, <1>3, <1>4, KeptFrame DEF Delivered
<1>5. Kept(j)'
  <2>1. CASE Claim(h) \/ ClaimReadFails(h)
    <3>1. job'[j].state = "running"
      BY <1>0, <1>2, <2>1 DEF Claim, ClaimReadFails, SetRow, ClaimedRow, JobRows, Base, TypeOK
    <3> QED BY <3>1 DEF Kept
  <2>2. CASE ClaimFails(h)
    BY <1>0, <2>2 DEF ClaimFails, Kept
  <2>3. CASE ClaimNotFound(h)
    <3>1. UNCHANGED <<job, lost>> /\ (job[j].state = "queued" => ~ Startable(j))
      BY <1>0, <2>3 DEF ClaimNotFound, Claimable, Row, Startable
    <3>2. \A n \in DOMAIN outbox[j] : OpenEvent(j, n) => OpenEvent(j, n)'
      BY <1>1, <3>1 DEF OpenEvent
    <3> QED BY <1>1, <1>2, <3>1, <3>2 DEF Kept
  <2> QED BY <2>1, <2>2, <2>3 DEF ClaimStep
<1> QED BY <1>1, <1>4, <1>5, TicksFrame

\* Renewals, calls and results: the handler is past its claim, so the
\* deliveries under way and the queue stay as they are.
LEMMA WakesHandler ==
  ASSUME Wakes, NEW h \in Handlers, RenewStep(h) \/ CallStep(h) \/ ApplyStep(h)
  PROVE  TicksKnow' /\ \A j \in Jobs : Kept(j)'
<1> USE DEF Wakes
<1>0. PICK j \in Jobs : j = hand[h].job
  BY RowType DEF RenewStep, Renew, RenewRefused, RenewFails, InFlight, CallStep, PrepareFails,
     Admit, AdmitRefused, ProvisionerReturns, ApplyStep, ApplySelect, ApplyStale, ApplySuccess,
     ApplyCollides, ApplyRetry, ApplyFailure, ApplyCollision, ApplyFails, Committing
<1>1. UNCHANGED <<queue, tick, lost>>
  BY DEF RenewStep, Renew, RenewRefused, RenewFails, CallStep, PrepareFails, Admit, AdmitRefused,
         ProvisionerReturns, ApplyStep, ApplySelect, ApplyStale, ApplySuccess, ApplyCollides,
         ApplyRetry, ApplyFailure, ApplyCollision, ApplyFails
<1>2. hand[h].phase # "delivered" /\ \A g \in Handlers \ {h} : hand'[g] = hand[g]
  BY DEF RenewStep, Renew, RenewRefused, RenewFails, InFlight, CallStep, PrepareFails, Admit,
         AdmitRefused, ProvisionerReturns, ApplyStep, ApplySelect, ApplyStale, ApplySuccess,
         ApplyCollides, ApplyRetry, ApplyFailure, ApplyCollision, ApplyFails, Committing,
         Leave, SetHand, Base, TypeOK
<1>3. \A k \in Jobs : Delivered(k) => Delivered(k)'
  BY <1>2 DEF Delivered
<1>4. ASSUME UNCHANGED outbox, \A k \in Jobs : job'[k].state = "queued" => job'[k] = job[k]
      PROVE  TicksKnow' /\ \A k \in Jobs : Kept(k)'
  BY <1>1, <1>3, <1>4, KeptFrame, TicksFrame
<1>5. ASSUME NEW row, SetRow(h, row), row.state # "queued", UNCHANGED outbox
      PROVE  TicksKnow' /\ \A k \in Jobs : Kept(k)'
  <2>1. \A k \in Jobs : job'[k] = IF k = j THEN row ELSE job[k]
    BY <1>0, <1>5 DEF SetRow, Base, TypeOK
  <2> QED BY <1>4, <1>5, <2>1
<1>6. CASE Renew(h) \/ Admit(h)
  <2>1. Row(h) \in JobRows /\ Row(h).state = "running" /\ UNCHANGED outbox
    BY <1>0, <1>6 DEF Renew, Admit, Admissible, Holds, Owns, Row, Base, TypeOK
  <2>2. RenewedRow(Row(h)).state = "running"
    BY <2>1 DEF RenewedRow, JobRows
  <2> QED BY <1>5, <1>6, <2>1, <2>2 DEF Renew, Admit
<1>7. CASE ApplySuccess(h) \/ ApplyFailure(h) \/ ApplyCollision(h)
  <2>1. \A delay, failure :
          /\ ReleasedRow(Row(h), "completed", delay, failure).state = "completed"
          /\ ReleasedRow(Row(h), "failed", delay, failure).state = "failed"
    BY <1>0 DEF ReleasedRow, Row, Base, TypeOK, JobRows
  <2> QED BY <1>5, <1>7, <2>1 DEF ApplySuccess, ApplyFailure, ApplyCollision
<1>8. CASE UNCHANGED <<job, outbox>>
  BY <1>4, <1>8
<1>9. CASE ApplyRetry(h)
  <2>0. PICK delay \in Nat : delay = hand[h].availableIn
    BY DEF Base, TypeOK, HandRows
  <2>1. outbox'[j] = Append(outbox[j], Event(delay)) /\ \A k \in Jobs \ {j} : outbox'[k] = outbox[k]
    BY <1>0, <1>9, <2>0 DEF ApplyRetry, Emit, Base, TypeOK
  <2>2. job'[j].availableIn = delay /\ \A k \in Jobs \ {j} : job'[k] = job[k]
    BY <1>0, <1>9, <2>0 DEF ApplyRetry, SetRow, ReleasedRow, Row, Base, TypeOK, JobRows
  <2>3. TicksKnow'
    <3>1. \A e \in EventIds : Due(e) => Due(e)'
      BY <2>1, OutboxRows, AppendedEvent DEF Due, EventIds
    <3>2. \A t \in Ticks : tick[t].batch \subseteq EventIds /\ tick[t].sent \in EventIds \cup {NULL}
      BY DEF Base, TypeOK, TickRows
    <3> QED BY <1>1, <3>1, <3>2 DEF TicksKnow
  <2>4. Kept(j)'
    <3>0. PICK n \in Nat : n = Len(outbox[j]) + 1
      BY OutboxRows
    <3>1. n \in DOMAIN outbox'[j] /\ outbox'[j][n] = Event(delay) /\ n \notin DOMAIN outbox[j]
      BY <2>1, <3>0, OutboxRows, AppendedEvent
    <3>2. <<j, n>> \in EventIds
      BY <3>0, OutboxRows DEF EventIds
    <3>3. \A t \in Ticks : tick'[t].sent # <<j, n>>
      BY <1>1, <3>1, <3>2, NullAssumption DEF TicksKnow, Due
    <3>4. OpenEvent(j, n)'
      BY <2>2, <3>1, <3>3 DEF OpenEvent, Event
    <3> QED BY <3>1, <3>4 DEF Kept
  <2>5. \A k \in Jobs \ {j} : Kept(k)'
    BY <1>1, <1>3, <2>1, <2>2, KeptFrame
  <2> QED BY <2>3, <2>4, <2>5
<1> QED BY <1>6, <1>7, <1>8, <1>9
        DEF RenewStep, RenewRefused, RenewFails, CallStep, PrepareFails, AdmitRefused,
            ProvisionerReturns, ApplyStep, ApplySelect, ApplyStale, ApplyCollides, ApplyFails

LEMMA WakesCrash ==
  ASSUME Wakes, WorkerCrash
  PROVE  TicksKnow' /\ \A j \in Jobs : Kept(j)'
<1> USE DEF Wakes
<1>1. UNCHANGED <<job, outbox, queue>> /\ lost \subseteq lost'
  BY DEF WorkerCrash
<1>2. \A t \in Ticks : tick'[t].sent = NULL /\ tick'[t].batch = {}
  BY DEF WorkerCrash, NoTick
<1>3. \A j \in Jobs : Delivered(j) => j \in lost'
  BY DEF WorkerCrash, Delivered
<1> QED BY <1>1, <1>2, <1>3, KeptFrame DEF TicksKnow

LEMMA WakesTime ==
  ASSUME Wakes, TimePasses
  PROVE  TicksKnow' /\ \A j \in Jobs : Kept(j)'
<1> USE DEF Wakes
<1>1. UNCHANGED <<queue, tick, lost>>
  BY DEF TimePasses
<1>2. \A j \in Jobs : /\ job'[j].state = job[j].state
                      /\ job'[j].availableIn = Minus(job[j].availableIn)
                      /\ job[j].availableIn \in Nat
  BY DEF TimePasses, Base, TypeOK, JobRows
<1>3. ASSUME NEW j \in Jobs, NEW n \in DOMAIN outbox[j]
      PROVE  /\ n \in DOMAIN outbox'[j]
             /\ outbox'[j][n].dispatched = outbox[j][n].dispatched
             /\ outbox'[j][n].availableIn = Minus(outbox[j][n].availableIn)
             /\ outbox[j][n].availableIn \in Nat
  <2>1. outbox[j][n] \in Events
    BY <1>3, OutboxRows
  <2>2. n \in DOMAIN outbox'[j] /\ outbox'[j][n] = [outbox[j][n] EXCEPT !.availableIn = Minus(@)]
    BY <1>3 DEF TimePasses
  <2> QED BY <2>1, <2>2, Zenon DEF Events
<1>4. \A j \in Jobs : Delivered(j) => Delivered(j)'
  <2>1. \A h \in Handlers : hand'[h].phase = hand[h].phase /\ hand'[h].job = hand[h].job
    BY DEF TimePasses, Base, TypeOK, HandRows
  <2> QED BY <2>1 DEF Delivered
<1>5. TicksKnow'
  <2>1. \A e \in EventIds : Due(e) => Due(e)'
    BY <1>3 DEF Due, EventIds, Minus
  <2>2. \A t \in Ticks : tick[t].batch \subseteq EventIds /\ tick[t].sent \in EventIds \cup {NULL}
    BY DEF Base, TypeOK, TickRows
  <2> QED BY <1>1, <2>1, <2>2 DEF TicksKnow
<1>6. ASSUME NEW j \in Jobs PROVE Kept(j)'
  <2>1. Startable(j) => Startable(j)'
    BY <1>1, <1>2, <1>4 DEF Startable, Minus
  <2>2. ASSUME NEW n \in DOMAIN outbox[j], OpenEvent(j, n)
        PROVE  n \in DOMAIN outbox'[j] /\ OpenEvent(j, n)'
    <3>1. Minus(outbox[j][n].availableIn) >= Minus(job[j].availableIn)
      BY <1>2, <1>3, <2>2 DEF OpenEvent, Minus
    <3>2. n \in DOMAIN outbox'[j] /\ ~ outbox'[j][n].dispatched
      BY <1>3, <2>2 DEF OpenEvent
    <3>3. outbox'[j][n].availableIn >= job'[j].availableIn
      BY <1>2, <1>3, <3>1
    <3> QED BY <1>1, <2>2, <3>2, <3>3 DEF OpenEvent
  <2> QED BY <1>1, <1>2, <2>1, <2>2 DEF Kept
<1> QED BY <1>5, <1>6

LEMMA WakesStep == Wakes /\ [Next]_vars => Wakes'
<1> SUFFICES ASSUME Wakes, [Next]_vars PROVE TicksKnow' /\ \A j \in Jobs : Kept(j)'
  BY BaseStep DEF Wakes
<1>1. CASE Next
  BY <1>1, WakesStart, WakesRecover, WakesSelect, WakesEnqueue, WakesForget, WakesMark,
     WakesDeliver, WakesClaim, WakesHandler, WakesCrash, WakesTime
  DEF Next, TickStep, HandlerStep
<1>2. CASE UNCHANGED vars
  <2>1. \A j \in Jobs : Delivered(j) <=> Delivered(j)'
    BY <1>2 DEF vars, Delivered
  <2> QED BY <1>2, <2>1, KeptFrame, TicksFrame DEF vars
<1> QED BY <1>1, <1>2

LEMMA WakesHolds == Spec => []Wakes
<1>1. Init => Wakes
  <2> SUFFICES ASSUME Init PROVE Wakes
    OBVIOUS
  <2>1. TicksKnow
    BY DEF Init, NoTick, TicksKnow
  <2>2. \A j \in Jobs : job[j].state # "queued"
    BY DEF Init, NewRow
  <2> QED BY <2>1, <2>2, InitBase DEF Wakes, Kept
<1> QED BY <1>1, WakesStep, PTL DEF Spec

\* A queued job always has something that starts it no earlier than it may be
\* claimed, whatever ticks overlap, marks fail, leases lapse or workers crash
\* after the claim.
THEOREM WakeUpIsKept == Spec => []WakeUpKept
<1>1. Wakes => WakeUpKept
  BY KeptIsWakeUp DEF Wakes
<1> QED BY <1>1, WakesHolds, PTL

\* Hence no queued job is forgotten.
THEOREM NoJobIsStranded == Spec => []NoStrandedJob
<1>1. Wakes => NoStrandedJob
  BY DEF Wakes, Kept, OpenEvent, Startable, NoStrandedJob
<1> QED BY <1>1, WakesHolds, PTL

=============================================================================
