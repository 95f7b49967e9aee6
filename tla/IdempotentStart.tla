-------------------------- MODULE IdempotentStart --------------------------
(***************************************************************************)
(* What docs/architecture/api.md promises of a command with an             *)
(* Idempotency-Key, as a store that is written once: the first request of  *)
(* a key stores its payload and its job, and every answer to the key is    *)
(* read from there.  A request may also end without an answer.             *)
(***************************************************************************)
CONSTANTS Requests, Slots, Payloads, NULL

VARIABLES
  store,    \* payload and job of each key of an organization
  answer    \* what the sender of each request was told

vars == <<store, answer>>

Init ==
  /\ store = [s \in Slots |-> NULL]
  /\ answer = [r \in Requests |-> NULL]

Store(r, s, payload) ==
  /\ answer[r] = NULL /\ store[s] = NULL
  /\ \A t \in Slots : store[t] # NULL => store[t].job # r
  /\ store' = [store EXCEPT ![s] = [payload |-> payload, job |-> r]]
  /\ UNCHANGED answer

Accepted(r, s) == [status |-> "accepted", job |-> store[s].job, reused |-> store[s].job # r]
Refused(status) == [status |-> status, job |-> NULL, reused |-> FALSE]

Answer(r, s, payload) ==
  /\ answer[r] = NULL /\ store[s] # NULL
  /\ answer' = [answer EXCEPT ![r] =
       IF store[s].payload = payload THEN Accepted(r, s) ELSE Refused("idempotency_conflict")]
  /\ UNCHANGED store

Refuse(r) ==
  /\ answer[r] = NULL
  /\ \E status \in {"not_found", "error"} : answer' = [answer EXCEPT ![r] = Refused(status)]
  /\ UNCHANGED store

\* A restart of the server leaves several requests without an answer at once.
Interrupt ==
  /\ \E R \in SUBSET {r \in Requests : answer[r] = NULL} :
       answer' = [r \in Requests |-> IF r \in R THEN Refused("error") ELSE answer[r]]
  /\ UNCHANGED store

Next ==
  \/ \E r \in Requests :
       \/ Refuse(r)
       \/ \E s \in Slots, payload \in Payloads : Store(r, s, payload) \/ Answer(r, s, payload)
  \/ Interrupt

Spec == Init /\ [][Next]_vars
=============================================================================
