---------------------- MODULE TenantValidationContract ----------------------
(***************************************************************************)
(* What the product promises about tenant validation jobs, seen through    *)
(* GET /v1/jobs/{id} (toPublicTenantValidationJob in packages/api/src/     *)
(* v1.ts) and through the connections a customer owns: a job is processing *)
(* until its one final outcome, a failure that could have been retried is  *)
(* final only after three attempts, and a Microsoft tenant is connected    *)
(* once.                                                                   *)
(***************************************************************************)
EXTENDS Integers

CONSTANTS Jobs, Tenants, TransientFailures, PermanentFailures, Collision

VARIABLES
  outcome,    \* "absent", "processing", a tenant or a failure code
  attempts    \* how often the validation of a connection was begun

vars == <<outcome, attempts>>

Init ==
  /\ outcome = [j \in Jobs |-> "absent"]
  /\ attempts = [j \in Jobs |-> 0]

Request(j) ==
  /\ outcome[j] = "absent"
  /\ outcome' = [outcome EXCEPT ![j] = "processing"]
  /\ UNCHANGED attempts

Attempt(j) ==
  /\ outcome[j] = "processing"
  /\ attempts' = [attempts EXCEPT ![j] = @ + 1]
  /\ UNCHANGED outcome

Connect(j, tenant) ==
  /\ outcome[j] = "processing" /\ attempts[j] > 0
  /\ \A k \in Jobs : outcome[k] # tenant
  /\ outcome' = [outcome EXCEPT ![j] = tenant]
  /\ UNCHANGED attempts

Reject(j, failure) ==
  /\ outcome[j] = "processing" /\ attempts[j] > 0
  /\ failure \in TransientFailures => attempts[j] >= 3
  /\ failure = Collision => \E k \in Jobs : outcome[k] \in Tenants
  /\ outcome' = [outcome EXCEPT ![j] = failure]
  /\ UNCHANGED attempts

Next == \E j \in Jobs :
  \/ Request(j) \/ Attempt(j)
  \/ \E tenant \in Tenants : Connect(j, tenant)
  \/ \E failure \in TransientFailures \cup PermanentFailures \cup {Collision} : Reject(j, failure)

Spec == Init /\ [][Next]_vars
=============================================================================
