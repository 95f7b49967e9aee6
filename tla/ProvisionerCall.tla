--------------------------- MODULE ProvisionerCall ---------------------------
(***************************************************************************)
(* The call of the worker to the provisioner, end to end: slots and        *)
(* permits of the worker (tenant-validation-worker.ts), the client with    *)
(* its timeout (provisioner-client.ts), a network that loses, repeats and  *)
(* delays, and the endpoint with its limits, signature window, nonce store *)
(* and service (app.py, request_auth.py).                                  *)
(*                                                                         *)
(* A request is named by its job and attempt.  Both ends compare its       *)
(* timestamp with their own clocks only, so the model keeps its age, up to *)
(* MaxAge, from where on no comparison changes, and the lead of the        *)
(* provisioner's clock.  A copy that is lost is one that never arrives.    *)
(* Signatures and keys match: both processes refuse to start without keys, *)
(* and the deployment gives them the same ones.                            *)
(* Leases are those of TenantValidationJobs, the order of waiters that of  *)
(* MicrosoftWorkLimiter, the inside of the service that of SessionRegistry.*)
(***************************************************************************)
EXTENDS Integers, FiniteSets

CONSTANTS
  Jobs,
  OrgOf,          \* the organization of a job
  SizesOf,        \* what the credentials of a job may be, see Sizes
  Tenants,        \* Microsoft tenants a service may find
  NULL,
  Slots,          \* localConcurrency, 5
  GlobalLimit,    \* permits of the limiter, 5
  OrgLimit,       \* and of each organization, 3
  MaxAttempts,    \* 3
  ClientTimeout,  \* provisionerTimeoutMs, 270 seconds
  RequestAge,     \* MAX_REQUEST_AGE_SECONDS, 300
  Leads,          \* how far the provisioner's clock may be ahead
  MaxEntries,     \* max_entries of the nonce store
  Permanent,      \* failure codes that are not retryable
  MaxFaults       \* bound of the model: restarts and repeated deliveries

\* "long" credentials satisfy the worker's contract but not the field limits of
\* the provisioner's, "huge" ones make a body of more than 4 KiB.
Sizes == {"short", "long", "huge"}
Verdicts == Tenants \cup Permanent

\* A retryable code and every status but 200 mean the same to the worker;
\* "401" is kept apart for the properties.
Replies == Verdicts \cup {"401", "retryable"}

RequestRows == [age : Nat, copies : Nat, taken : Nat]

ASSUME CallAssumption ==
  /\ IsFiniteSet(Jobs)
  /\ SizesOf \in [Jobs -> SUBSET Sizes]
  /\ Verdicts \cap {"401", "retryable"} = {} /\ NULL \notin Replies \cup RequestRows
  /\ {Slots, GlobalLimit, OrgLimit, MaxAttempts, MaxEntries, ClientTimeout, RequestAge}
       \subseteq Nat \ {0}
  /\ Leads \subseteq Int /\ MaxFaults \in Nat

Requests == Jobs \X (1..MaxAttempts)

VARIABLES
  job,       \* the job as its slot sees it, with the services at work for its
             \* present call, the reply on its way and the last verdict of one
  request,   \* a request once it was sent: its age, its copies on the wire and
             \* how often the present provisioner took it
  nonces,    \* _nonces, each entry by the request that stored it
  lead,      \* the provisioner's clock minus the worker's
  faults

vars == <<job, request, nonces, lead, faults>>

JobRows == [phase : {"queued", "slot", "calling", "ended"}, attempt : 0..MaxAttempts,
            size : Sizes, result : Verdicts \cup {NULL, "retryable"}, services : Nat,
            reply : Replies \cup {NULL}, said : Verdicts \cup {NULL}]

NewJob(size) == [phase |-> "queued", attempt |-> 0, size |-> size, result |-> NULL,
                 services |-> 0, reply |-> NULL, said |-> NULL]

Init ==
  /\ job \in [Jobs -> {NewJob(size) : size \in Sizes}]
  /\ \A j \in Jobs : job[j].size \in SizesOf[j]
  /\ request = [r \in Requests |-> NULL]
  /\ nonces = {}
  /\ lead \in Leads
  /\ faults = 0

-----------------------------------------------------------------------------
(* The worker.  A name with an underscore is the definition after it as a   *)
(* bug would have it.                                                       *)

Phase(j) == job[j].phase
Current(j) == <<j, job[j].attempt>>
Sent(r) == request[r] # NULL
Calling(r) == Phase(r[1]) = "calling" /\ Current(r[1]) = r

FreeSlot == Cardinality({j \in Jobs : Phase(j) \in {"slot", "calling"}}) < Slots

HasPermit(j) ==
  LET Active == {i \in Jobs : Phase(i) = "calling"}
  IN  /\ Cardinality(Active) < GlobalLimit
      /\ Cardinality({i \in Active : OrgOf[i] = OrgOf[j]}) < OrgLimit

\* pg-boss hands a job to a slot, which claims it.
Fetch(j) ==
  /\ Phase(j) = "queued" /\ FreeSlot
  /\ job' = [job EXCEPT ![j].phase = "slot", ![j].attempt = @ + 1]
  /\ UNCHANGED <<request, nonces, lead, faults>>

\* The permit, then encryption, timestamp, nonce, signature and fetch.
Call(j) ==
  /\ Phase(j) = "slot" /\ HasPermit(j)
  /\ job' = [job EXCEPT ![j].phase = "calling", ![j].said = NULL]
  /\ request' = [request EXCEPT ![Current(j)] = [age |-> 0, copies |-> 1, taken |-> 0]]
  /\ UNCHANGED <<nonces, lead, faults>>

\* validateTenant has returned or thrown: the result is applied, the permit is
\* released in the finally and the connection closed, so that what services
\* still do for this call reaches nobody.
Settle_KeepsPermit(j, result) ==
  /\ job' = [job EXCEPT ![j].phase = IF result \in Verdicts THEN "ended" ELSE @,
                        ![j].result = result, ![j].services = 0, ![j].reply = NULL]
  /\ UNCHANGED <<request, nonces, lead, faults>>
Settle(j, result) ==
  /\ job' = [job EXCEPT
       ![j].phase = IF result \in Verdicts \/ job[j].attempt = MaxAttempts THEN "ended"
                    ELSE "queued",
       ![j].result = result, ![j].services = 0, ![j].reply = NULL]
  /\ UNCHANGED <<request, nonces, lead, faults>>

\* The timeout aborts fetch, or the connection breaks; validateTenant throws.
GiveUp(j) ==
  Phase(j) = "calling" /\ request[Current(j)].age >= ClientTimeout /\ Settle(j, "retryable")
Breaks(j) == Phase(j) = "calling" /\ Settle(j, "retryable")

\* validateTenant throws for every status but 200.
Meaning_Unauthorized(reply) ==
  IF reply = "401" THEN CHOOSE code \in Permanent : TRUE ELSE reply
Meaning(reply) == IF reply \in Verdicts THEN reply ELSE "retryable"

Receive(j) == Phase(j) = "calling" /\ job[j].reply # NULL /\ Settle(j, Meaning(job[j].reply))

-----------------------------------------------------------------------------
(* The network and the time. *)

Repeat(r) ==
  /\ Sent(r) /\ request[r].copies > 0 /\ faults < MaxFaults
  /\ request' = [request EXCEPT ![r].copies = @ + 1]
  /\ faults' = faults + 1
  /\ UNCHANGED <<job, nonces, lead>>

\* From this age on a client gives up and a window is closed: a copy that is
\* still on its way would be refused, and nobody waits for that.
MaxAge == IF ClientTimeout > RequestAge + 1 - lead THEN ClientTimeout ELSE RequestAge + 1 - lead

Older(r) ==
  CASE ~ Sent(r) -> NULL
    [] Sent(r) /\ request[r].age + 1 < MaxAge -> [request[r] EXCEPT !.age = @ + 1]
    [] OTHER -> [age |-> MaxAge, copies |-> 0, taken |-> 0]

TimePasses ==
  /\ \E r \in Requests : Sent(r) /\ request[r].age < MaxAge
  /\ request' = [r \in Requests |-> Older(r)]
  /\ UNCHANGED <<job, nonces, lead, faults>>

-----------------------------------------------------------------------------
(* The provisioner.  Nothing is awaited between the last byte of the body   *)
(* and the start of the service, so a request is admitted in one step.      *)

\* The seconds since the timestamp, on the provisioner's clock.
Seen(r) == request[r].age + lead

\* A copy comes off the wire; the client, if it still waits, gets a reply.
Consumed(r) == [request EXCEPT ![r].copies = @ - 1]
Reply(r, status) == job' = IF Calling(r) THEN [job EXCEPT ![r[1]].reply = status] ELSE job

TooLarge(r) ==
  /\ Sent(r) /\ request[r].copies > 0 /\ job[r[1]].size = "huge"
  /\ request' = Consumed(r)
  /\ Reply(r, "retryable")
  /\ UNCHANGED <<nonces, lead, faults>>

Arrives(r) == Sent(r) /\ request[r].copies > 0 /\ job[r[1]].size # "huge"
Timely(r) == Seen(r) \in -RequestAge..RequestAge

Unverified(r) ==
  /\ Arrives(r) /\ ~ Timely(r)
  /\ request' = Consumed(r)
  /\ Reply(r, "401")
  /\ UNCHANGED <<nonces, lead, faults>>

Nonce_OfJob(r) == r[1]
Nonce(r) == r

\* The entries that check_and_store leaves, and whether it then has the nonce
\* or no room for it.
Kept_Early == {s \in nonces : Seen(s) < ClientTimeout}
Kept == {s \in nonces : Seen(s) < RequestAge}
Refused(r) == (\E s \in Kept : Nonce(s) = Nonce(r)) \/ Cardinality(Kept) >= MaxEntries

Refuse(r) ==
  /\ Arrives(r) /\ Timely(r) /\ Refused(r)
  /\ request' = Consumed(r)
  /\ Reply(r, "401")
  /\ nonces' = Kept
  /\ UNCHANGED <<lead, faults>>

Take(r) ==
  /\ request' = [Consumed(r) EXCEPT ![r].taken = @ + 1]
  /\ nonces' = Kept \cup {r}

\* The nonce is stored before the body is decrypted and parsed.
Malformed(r) ==
  /\ Arrives(r) /\ Timely(r) /\ ~ Refused(r) /\ job[r[1]].size = "long"
  /\ Take(r)
  /\ Reply(r, "retryable")
  /\ UNCHANGED <<lead, faults>>

Admit(r) ==
  /\ Arrives(r) /\ Timely(r) /\ ~ Refused(r) /\ job[r[1]].size = "short"
  /\ Take(r)
  /\ job' = IF Calling(r) THEN [job EXCEPT ![r[1]].services = @ + 1] ELSE job
  /\ UNCHANGED <<lead, faults>>

\* A service ends when it does: it knows nothing of the client's timeout.
Answer(j, verdict) ==
  /\ job[j].services > 0
  /\ job' = [job EXCEPT ![j].services = @ - 1, ![j].said = verdict, ![j].reply = verdict]
  /\ UNCHANGED <<request, nonces, lead, faults>>

\* It answers with a retryable code, raises or returns what is no result.
Falters(j) ==
  /\ job[j].services > 0
  /\ job' = [job EXCEPT ![j].services = @ - 1, ![j].reply = "retryable"]
  /\ UNCHANGED <<request, nonces, lead, faults>>

\* The container restarts: nonces and services are in memory only.  A caller
\* finds its connection broken, or waits for its timeout.
Forgotten(r) == IF Sent(r) THEN [request[r] EXCEPT !.taken = 0] ELSE NULL

Restart ==
  /\ faults < MaxFaults
  /\ faults' = faults + 1
  /\ nonces' = {}
  /\ request' = [r \in Requests |-> Forgotten(r)]
  /\ job' = [j \in Jobs |-> [job[j] EXCEPT !.services = 0]]
  /\ UNCHANGED lead

-----------------------------------------------------------------------------
Worker(j) == Fetch(j) \/ Call(j) \/ GiveUp(j) \/ Breaks(j) \/ Receive(j)
Endpoint(r) == TooLarge(r) \/ Unverified(r) \/ Refuse(r) \/ Malformed(r) \/ Admit(r)
Service(j) == Falters(j) \/ \E verdict \in Verdicts : Answer(j, verdict)

Next ==
  \/ \E j \in Jobs : Worker(j) \/ Service(j)
  \/ \E r \in Requests : Repeat(r) \/ Endpoint(r)
  \/ TimePasses
  \/ Restart

Spec == Init /\ [][Next]_vars

\* Slots and permits that are free are taken (MicrosoftWorkLimiter's
\* WaitersServed for the permits), time passes and the timer of the client
\* fires.  The network and the provisioner owe nothing.
FairSpec ==
  /\ Spec
  /\ WF_vars(TimePasses)
  /\ \A j \in Jobs : SF_vars(Fetch(j)) /\ SF_vars(Call(j)) /\ WF_vars(GiveUp(j))

-----------------------------------------------------------------------------
\* The type invariant; no counter falls below zero.
TypeOK ==
  /\ job \in [Jobs -> JobRows]
  /\ request \in [Requests -> RequestRows \cup {NULL}]
  /\ nonces \subseteq Requests
  /\ lead \in Leads
  /\ faults \in 0..MaxFaults

\* To the worker the provisioner is a validation that is tried again until it
\* ends, once, with the verdict of the attempt that runs or after the last one:
\* no loss, repetition, refusal, restart or late answer to an earlier attempt
\* becomes a verdict on the customer's credentials, or an attempt of its own.
\* An attempt counts from its call on.
PhaseSeen(j) ==
  CASE Phase(j) \in {"queued", "slot"} -> "open"
    [] Phase(j) = "calling" -> "running"
    [] Phase(j) = "ended" -> "ended"
AttemptsSeen(j) == IF Phase(j) = "slot" THEN job[j].attempt - 1 ELSE job[j].attempt
ValidationSeen ==
  [j \in Jobs |-> [phase |-> PhaseSeen(j), attempts |-> AttemptsSeen(j),
                   verdict |-> job[j].said, result |-> job[j].result]]

Remote == INSTANCE RemoteValidation WITH validation <- ValidationSeen
ImplementsValidation == Remote!Spec

\* A provisioner that was not restarted takes a request twice at the very
\* second only at which its window closes: there the timestamp still counts
\* (> MAX_REQUEST_AGE_SECONDS refuses) and its nonce is gone (<= now drops).
TakenOnce ==
  [][\A r \in Requests : Sent(r) /\ request[r].taken > 0
       /\ request'[r].taken > request[r].taken => Seen(r) = RequestAge]_vars

\* A request is refused because of its age, because it was taken before, or
\* because the store is full of requests taken within their windows: never
\* because an earlier attempt of its job is remembered or an old entry was
\* kept.
Taken == {r \in Requests : Sent(r) /\ request[r].taken > 0 /\ Seen(r) < RequestAge}
RetryIsNoReplay ==
  [][\A j \in Jobs : job[j].reply # "401" /\ job'[j].reply = "401" =>
       ~ Timely(Current(j)) \/ Current(j) \in Taken \/ Cardinality(Taken) >= MaxEntries]_vars

\* Every job ends, whatever the provisioner and the network do, though more
\* jobs than slots and permits compete for them.
EveryJobEnds == \A j \in Jobs : <>(Phase(j) = "ended")
=============================================================================
