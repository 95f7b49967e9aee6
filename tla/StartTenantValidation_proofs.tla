-------------------- MODULE StartTenantValidation_proofs --------------------
(***************************************************************************)
(* Proofs about StartTenantValidation, for any number of requests, keys,   *)
(* payloads and restarts.  "Recorded" is the inductive invariant: what     *)
(* every request knows of its key, and what the committed rows know of one *)
(* another.                                                                *)
(***************************************************************************)
EXTENDS StartTenantValidation, TLAPS

Answering(r) == req[r].phase \in {"replying", "done"}

\* A request that is answered was answered from the record of its key.
Honest(r) ==
  Answering(r) /\ req[r].response.status = "accepted" =>
    /\ record[Slot(r)] # NULL
    /\ record[Slot(r)].job = req[r].response.job
    /\ record[Slot(r)].fingerprint[1] = req[r].payload
    /\ req[r].response.reused <=> req[r].response.job # r

\* The rows that were committed with a record.
Complete(s) ==
  record[s] # NULL =>
    /\ record[s].job \in outbox
    /\ connection[record[s].job] = record[s].fingerprint[1]
    /\ s = Slot(record[s].job)
    /\ req[record[s].job].payload = record[s].fingerprint[1]
    /\ Answering(record[s].job)

\* A request that met a record met one that is there.
Violated(r) == req[r].phase = "violated" => record[Slot(r)] # NULL

\* A request whose insert went through has its key for itself, and one that
\* has not committed has no rows.
Exclusive(r) ==
  req[r].phase = "inserted" =>
    /\ record[Slot(r)] = NULL
    /\ \A s \in Requests \ {r} : req[s].phase = "inserted" => Slot(s) # Slot(r)

Fresh(r) == ~ Answering(r) => connection[r] = NULL

Recorded ==
  /\ TypeOK
  /\ \A r \in Requests : Honest(r) /\ Violated(r) /\ Exclusive(r) /\ Fresh(r)
  /\ NoOrphan
  /\ \A s \in Slots : Complete(s)

-----------------------------------------------------------------------------
(* Types. *)

LEMMA SlotType ==
  ASSUME TypeOK, NEW r \in Requests, req[r].phase # "idle"
  PROVE  Slot(r) \in Slots /\ Fingerprint(r) \in Fingerprints
BY OrgAssumption DEF TypeOK, Slot, Slots, Fingerprint, Fingerprints

LEMMA RefusedType ==
  \A status \in {"idempotency_conflict", "not_found", "error"} : Refused(status) \in Responses
BY DEF Refused, Responses

LEMMA AcceptedType ==
  \A job \in Requests, reused \in BOOLEAN : Accepted(job, reused) \in Responses
BY DEF Accepted, Responses

LEMMA ExistingType ==
  ASSUME NEW r \in Requests, NEW row \in RecordRows
  PROVE  Existing(r, row) \in Responses
BY RefusedType, AcceptedType DEF Existing, RecordRows

LEMMA RecordType ==
  ASSUME TypeOK, NEW r \in Requests, req[r].phase # "idle", record[Slot(r)] # NULL
  PROVE  record[Slot(r)] \in RecordRows
BY SlotType DEF TypeOK

\* The part of the type invariant that concerns req.
ReqOK ==
  /\ req \in [Requests -> ReqRows]
  /\ \A r \in Requests :
       /\ req[r].phase # "idle" => req[r].key \in Keys /\ req[r].payload \in Payloads
       /\ Answering(r) => req[r].response \in Responses

LEMMA MoveType ==
  ASSUME ReqOK, NEW r \in Requests, NEW phase \in Phases \ {"idle"},
         req[r].phase # "idle", Move(r, phase),
         phase \in {"replying", "done"} => Answering(r)
  PROVE  ReqOK'
<1>1. [req[r] EXCEPT !.phase = phase] \in ReqRows
  BY DEF ReqOK, ReqRows
<1>2. req' = [req EXCEPT ![r] = [req[r] EXCEPT !.phase = phase]]
  BY DEF Move
<1>3. \A s \in Requests \ {r} : req'[s] = req[s]
  BY <1>2 DEF ReqOK
<1>4. /\ req'[r].phase = phase /\ req'[r].key = req[r].key
      /\ req'[r].payload = req[r].payload /\ req'[r].response = req[r].response
  BY <1>2 DEF ReqOK, ReqRows
<1>5. req' \in [Requests -> ReqRows]
  BY <1>1, <1>2 DEF ReqOK
<1> QED BY <1>3, <1>4, <1>5 DEF ReqOK, Answering

LEMMA RespondType ==
  ASSUME ReqOK, NEW r \in Requests, NEW response \in Responses,
         req[r].phase # "idle", Respond(r, response)
  PROVE  ReqOK'
<1>1. [req[r] EXCEPT !.phase = "replying", !.response = response] \in ReqRows
  BY DEF ReqOK, ReqRows, Phases
<1>2. req' = [req EXCEPT ![r] = [req[r] EXCEPT !.phase = "replying", !.response = response]]
  BY DEF Respond
<1>3. \A s \in Requests \ {r} : req'[s] = req[s]
  BY <1>2 DEF ReqOK
<1>4. /\ req'[r].key = req[r].key /\ req'[r].payload = req[r].payload
      /\ req'[r].response = response
  BY <1>2 DEF ReqOK, ReqRows
<1>5. req' \in [Requests -> ReqRows]
  BY <1>1, <1>2 DEF ReqOK
<1> QED BY <1>3, <1>4, <1>5 DEF ReqOK, Answering

LEMMA FailedType ==
  ASSUME ReqOK, NEW r \in Requests
  PROVE  /\ Failed(r) \in ReqRows
         /\ Failed(r).phase = "done" /\ Failed(r).key = req[r].key
         /\ Failed(r).payload = req[r].payload /\ Failed(r).response = Refused("error")
BY RefusedType DEF Failed, ReqOK, ReqRows, Phases

LEMMA FaultyType == ASSUME TypeOK, Faulty PROVE faults' \in 0..MaxFaults
BY FaultAssumption DEF Faulty, TypeOK

LEMMA TypeStep == TypeOK /\ [Next]_vars => TypeOK'
<1> SUFFICES ASSUME TypeOK, [Next]_vars PROVE TypeOK'
  OBVIOUS
<1>0. ReqOK
  BY DEF TypeOK, ReqOK, Answering
<1>q. ASSUME ReqOK', UNCHANGED <<record, connection, outbox, cipherKey, faults>> PROVE TypeOK'
  BY <1>q DEF TypeOK, ReqOK, Answering
<1>1. ASSUME NEW r \in Requests, NEW key \in Keys, NEW payload \in Payloads,
             Receive(r, key, payload)
      PROVE  TypeOK'
  <2>1. ReqOK'
    BY <1>0, <1>1 DEF Receive, ReqOK, ReqRows, Phases, Answering
  <2> QED BY <1>1, <1>q, <2>1 DEF Receive
<1>2. ASSUME NEW r \in Requests,
             \/ Authorize(r) \/ SelectNothing(r) \/ InsertRecord(r)
             \/ UniqueViolation(r) \/ Reply(r)
      PROVE  TypeOK'
  <2>1. PICK phase \in Phases \ {"idle"} :
          /\ Move(r, phase) /\ req[r].phase # "idle"
          /\ phase \in {"replying", "done"} => Answering(r)
    BY <1>2 DEF Authorize, SelectNothing, InsertRecord, UniqueViolation, Reply, Phases, Answering
  <2>2. ReqOK'
    BY <1>0, <2>1, MoveType
  <2> QED BY <1>2, <1>q, <2>2
          DEF Authorize, SelectNothing, InsertRecord, UniqueViolation, Reply
<1>3. ASSUME NEW r \in Requests, NotFound(r) \/ SelectExisting(r) \/ Fallback(r)
      PROVE  TypeOK'
  <2>1. req[r].phase # "idle"
    BY <1>3 DEF NotFound, SelectExisting, Fallback
  <2>2. record[Slot(r)] # NULL => Existing(r, record[Slot(r)]) \in Responses
    BY <2>1, RecordType, ExistingType
  <2>3. PICK response \in Responses : Respond(r, response)
    BY <1>3, <2>2, RefusedType DEF NotFound, SelectExisting, Fallback
  <2>4. ReqOK'
    BY <1>0, <2>1, <2>3, RespondType
  <2> QED BY <1>3, <1>q, <2>4 DEF NotFound, SelectExisting, Fallback
<1>4. ASSUME NEW r \in Requests, Commit(r) PROVE TypeOK'
  <2>1. req[r].phase # "idle" /\ Respond(r, Accepted(r, FALSE))
    BY <1>4 DEF Commit
  <2>2. ReqOK'
    BY <1>0, <2>1, AcceptedType, RespondType
  <2>3. [fingerprint |-> Fingerprint(r), job |-> r] \in RecordRows
    BY <2>1, SlotType DEF RecordRows
  <2>4. record' \in [Slots -> RecordRows \cup {NULL}]
    BY <1>4, <2>1, <2>3, SlotType DEF Commit, TypeOK
  <2>5. connection' \in [Requests -> Payloads \cup {NULL}] /\ outbox' \subseteq Requests
    BY <1>4, <2>1 DEF Commit, TypeOK
  <2> QED BY <1>4, <2>2, <2>4, <2>5 DEF Commit, TypeOK, ReqOK, Answering
<1>5. ASSUME NEW r \in Requests, Fail(r) PROVE TypeOK'
  <2>1. ReqOK'
    BY <1>0, <1>5, FailedType, RefusedType DEF Fail, InProgress, ReqOK, Answering
  <2> QED BY <1>5, <2>1, FaultyType DEF Fail, TypeOK, ReqOK, Answering
<1>6. ASSUME NEW key \in CipherKeys, Restart(key) PROVE TypeOK'
  <2>1. ReqOK'
    BY <1>0, <1>6, FailedType, RefusedType DEF Restart, InProgress, ReqOK, Answering
  <2> QED BY <1>6, <2>1, FaultyType DEF Restart, TypeOK, ReqOK, Answering
<1>7. CASE UNCHANGED vars
  BY <1>7 DEF vars, TypeOK
<1> QED BY <1>1, <1>2, <1>3, <1>4, <1>5, <1>6, <1>7 DEF Next, Handle, Quiet

-----------------------------------------------------------------------------
(* What a step leaves alone. *)

LEMMA MoveAside ==
  ASSUME TypeOK, NEW r \in Requests, NEW phase \in Phases, Move(r, phase)
  PROVE  /\ req'[r].phase = phase /\ req'[r].key = req[r].key
         /\ req'[r].payload = req[r].payload /\ req'[r].response = req[r].response
         /\ \A s \in Requests \ {r} : req'[s] = req[s]
BY DEF Move, TypeOK, ReqRows

LEMMA RespondAside ==
  ASSUME TypeOK, NEW r \in Requests, NEW response \in Responses, Respond(r, response)
  PROVE  /\ req'[r].phase = "replying" /\ req'[r].key = req[r].key
         /\ req'[r].payload = req[r].payload /\ req'[r].response = response
         /\ \A s \in Requests \ {r} : req'[s] = req[s]
BY DEF Respond, TypeOK, ReqRows

\* The rest of the invariant after a step of r that writes no row: only what
\* r itself knows is left to show.
LEMMA AsideStep ==
  ASSUME Recorded, TypeOK', NEW r \in Requests, UNCHANGED <<record, connection, outbox>>,
         req'[r].key = req[r].key, req'[r].payload = req[r].payload,
         \A s \in Requests \ {r} : req'[s] = req[s],
         Answering(r) => Answering(r)',
         Honest(r)', Violated(r)', Exclusive(r)',
         req'[r].phase = "inserted" => ~ Locked(r)
  PROVE  Recorded'
<1> USE DEF Recorded
<1>1. \A s \in Requests : Slot(s)' = Slot(s)
  BY DEF Slot
<1>2. \A s \in Requests \ {r} : Honest(s)' /\ Violated(s)'
  BY <1>1 DEF Honest, Violated, Answering
<1>3. \A s \in Requests \ {r} : Exclusive(s)'
  BY <1>1 DEF Exclusive, Locked
<1>4. \A s \in Requests : Fresh(s)'
  BY DEF Fresh, Answering
<1>5. ASSUME NEW s \in Slots PROVE Complete(s)'
  <2>1. record[s] # NULL => record[s].job \in Requests
    BY DEF TypeOK, RecordRows
  <2> QED BY <1>1, <2>1 DEF Complete, Answering
<1>6. NoOrphan'
  BY DEF NoOrphan
<1> QED BY <1>2, <1>3, <1>4, <1>5, <1>6

LEMMA ExistingHonest ==
  ASSUME Recorded, NEW r \in Requests, req[r].phase # "idle", ~ Answering(r),
         record[Slot(r)] # NULL, Respond(r, Existing(r, record[Slot(r)])),
         UNCHANGED <<record, connection, outbox>>
  PROVE  Honest(r)' /\ req'[r].phase = "replying" /\ req'[r].key = req[r].key
         /\ req'[r].payload = req[r].payload /\ \A s \in Requests \ {r} : req'[s] = req[s]
<1> USE DEF Recorded
<1> DEFINE row == record[Slot(r)]
<1>1. Slot(r) \in Slots /\ row \in RecordRows
  BY SlotType, RecordType
<1>2. Existing(r, row) \in Responses
  BY <1>1, ExistingType
<1>3. /\ req'[r].phase = "replying" /\ req'[r].key = req[r].key
      /\ req'[r].payload = req[r].payload /\ req'[r].response = Existing(r, row)
      /\ \A s \in Requests \ {r} : req'[s] = req[s]
  BY <1>2, RespondAside
<1>4. Slot(r)' = Slot(r) /\ record'[Slot(r)] = row
  BY <1>3 DEF Slot
<1>5. row.job # r
  BY <1>1 DEF Complete
<1>6. CASE row.fingerprint = Fingerprint(r)
  <2>1. Existing(r, row) = [status |-> "accepted", job |-> row.job, reused |-> TRUE]
    BY <1>6 DEF Existing, Accepted
  <2>2. row.fingerprint[1] = req[r].payload
    BY <1>6 DEF Fingerprint
  <2> QED BY <1>3, <1>4, <1>5, <2>1, <2>2 DEF Honest
<1>7. CASE row.fingerprint # Fingerprint(r)
  <2>1. Existing(r, row).status = "idempotency_conflict"
    BY <1>7 DEF Existing, Refused
  <2> QED BY <1>3, <2>1 DEF Honest
<1> QED BY <1>6, <1>7

LEMMA ResponseStep ==
  ASSUME Recorded, TypeOK', NEW r \in Requests, NEW response \in Responses,
         UNCHANGED <<record, connection, outbox>>, Respond(r, response),
         response.status # "accepted"
  PROVE  Recorded'
<1>1. /\ req'[r].phase = "replying" /\ req'[r].key = req[r].key
      /\ req'[r].payload = req[r].payload /\ req'[r].response = response
      /\ \A s \in Requests \ {r} : req'[s] = req[s]
  BY RespondAside DEF Recorded
<1>2. Honest(r)' /\ Violated(r)' /\ Exclusive(r)' /\ Answering(r)'
  BY <1>1 DEF Honest, Violated, Exclusive, Answering
<1> QED BY <1>1, <1>2, AsideStep

LEMMA ExistingStep ==
  ASSUME Recorded, TypeOK', NEW r \in Requests, req[r].phase # "idle", ~ Answering(r),
         record[Slot(r)] # NULL, Respond(r, Existing(r, record[Slot(r)])),
         UNCHANGED <<record, connection, outbox>>
  PROVE  Recorded'
<1>1. /\ Honest(r)' /\ req'[r].phase = "replying" /\ req'[r].key = req[r].key
      /\ req'[r].payload = req[r].payload /\ \A s \in Requests \ {r} : req'[s] = req[s]
  BY ExistingHonest
<1>2. Violated(r)' /\ Exclusive(r)' /\ Answering(r)'
  BY <1>1 DEF Violated, Exclusive, Answering
<1> QED BY <1>1, <1>2, AsideStep

LEMMA CommitStep ==
  ASSUME Recorded, TypeOK', NEW r \in Requests, Commit(r)
  PROVE  Recorded'
<1> USE DEF Recorded
<1> DEFINE row == [fingerprint |-> Fingerprint(r), job |-> r]
           slot == Slot(r)
<1>1. req[r].phase = "inserted" /\ ~ Answering(r)
  BY DEF Commit, Answering
<1>2. slot \in Slots /\ record[slot] = NULL
  BY <1>1, SlotType DEF Exclusive
<1>3. /\ req'[r].phase = "replying" /\ req'[r].key = req[r].key
      /\ req'[r].payload = req[r].payload /\ req'[r].response = Accepted(r, FALSE)
      /\ \A s \in Requests \ {r} : req'[s] = req[s]
  BY AcceptedType, RespondAside DEF Commit
<1>4. record' = [record EXCEPT ![slot] = row]
  BY DEF Commit
<1>5. record'[slot] = row /\ \A s \in Slots \ {slot} : record'[s] = record[s]
  BY <1>2, <1>4 DEF TypeOK
<1>6. /\ connection'[r] = req[r].payload
      /\ \A s \in Requests \ {r} : connection'[s] = connection[s]
      /\ outbox' = outbox \cup {r}
  BY DEF Commit, TypeOK
<1>7. row # NULL /\ row.job = r /\ row.fingerprint[1] = req[r].payload
  BY <1>1, SlotType, NullAssumption DEF RecordRows, Fingerprint
<1>8. \A s \in Requests : Slot(s)' = Slot(s)
  BY <1>3 DEF Slot
<1>9. Answering(r)' /\ \A s \in Requests \ {r} : Answering(s)' <=> Answering(s)
  BY <1>3 DEF Answering
<1>10. ASSUME NEW s \in Requests PROVE Honest(s)'
  <2>1. CASE s = r
    BY <1>3, <1>5, <1>7, <1>8, <2>1 DEF Honest, Accepted
  <2>2. CASE s # r
    <3>1. CASE Slot(s) = slot
      \* A request that was accepted for this key would have found its record.
      BY <1>2, <1>3, <1>9, <2>2, <3>1 DEF Honest
    <3>2. CASE Slot(s) # slot /\ Answering(s)
      <4>1. Slot(s) \in Slots
        BY <3>2, SlotType DEF Answering
      <4> QED BY <1>3, <1>5, <1>8, <1>9, <2>2, <3>2, <4>1 DEF Honest
    <3> QED BY <1>9, <2>2, <3>1, <3>2 DEF Honest
  <2> QED BY <2>1, <2>2
<1>11. ASSUME NEW s \in Requests PROVE Violated(s)' /\ Exclusive(s)'
  <2>1. CASE s = r
    BY <1>3, <2>1 DEF Violated, Exclusive
  <2>2. CASE s # r
    <3>1. req'[s] = req[s]
      BY <1>3, <2>2
    <3>2. req[s].phase = "violated" => Slot(s) \in Slots /\ Slot(s) # slot
      BY <1>2, SlotType DEF Violated
    <3>3. req[s].phase = "inserted" => Slot(s) \in Slots /\ Slot(s) # slot
      BY <1>1, <2>2, SlotType DEF Exclusive
    <3>4. Violated(s)'
      BY <1>5, <1>8, <3>1, <3>2 DEF Violated
    <3>5. Exclusive(s)'
      BY <1>3, <1>5, <1>8, <3>1, <3>3 DEF Exclusive
    <3> QED BY <3>4, <3>5
  <2> QED BY <2>1, <2>2
<1>12. \A s \in Requests : Fresh(s)'
  BY <1>6, <1>9 DEF Fresh
<1>13. NoOrphan'
  BY <1>2, <1>5, <1>6, <1>7 DEF NoOrphan
<1>14. ASSUME NEW s \in Slots PROVE Complete(s)'
  <2>1. CASE s = slot
    BY <1>3, <1>5, <1>6, <1>7, <1>8, <1>9, <2>1 DEF Complete
  <2>2. CASE s # slot
    <3>1. record'[s] = record[s]
      BY <1>5, <2>2
    <3>2. record[s] # NULL => record[s].job \in Requests \ {r}
      BY <1>1 DEF Complete, TypeOK, RecordRows
    <3> QED BY <1>3, <1>6, <1>8, <1>9, <3>1, <3>2 DEF Complete
  <2> QED BY <2>1, <2>2
<1> QED BY <1>10, <1>11, <1>12, <1>13, <1>14

\* A request that ends without an answer, alone or with others.
LEMMA InterruptStep ==
  ASSUME Recorded, TypeOK', UNCHANGED <<record, connection, outbox>>,
         NEW Ended \in SUBSET Requests,
         \A r \in Ended : InProgress(r) /\ req'[r] = Failed(r),
         \A r \in Requests \ Ended : req'[r] = req[r]
  PROVE  Recorded'
<1> USE DEF Recorded
<1>1. ReqOK
  BY DEF TypeOK, ReqOK, Answering
<1>2. \A r \in Ended : /\ req'[r].phase = "done" /\ req'[r].key = req[r].key
                       /\ req'[r].payload = req[r].payload
                       /\ req'[r].response.status = "error"
  BY <1>1, FailedType DEF Refused
<1>3. \A r \in Requests : Slot(r)' = Slot(r)
  BY <1>2 DEF Slot
<1>4. \A r \in Requests : Answering(r) => Answering(r)'
  BY <1>2 DEF Answering
<1>5. \A r \in Requests : Honest(r)' /\ Violated(r)'
  BY <1>2, <1>3 DEF Honest, Violated, Answering
<1>6. \A r \in Requests : Exclusive(r)'
  BY <1>2, <1>3 DEF Exclusive
<1>7. \A r \in Requests : Fresh(r)'
  BY <1>4 DEF Fresh
<1>8. ASSUME NEW s \in Slots PROVE Complete(s)'
  <2>1. record[s] # NULL => record[s].job \in Requests
    BY DEF TypeOK, RecordRows
  <2>2. \A r \in Requests : req'[r].payload = req[r].payload
    BY <1>2
  <2> QED BY <1>3, <1>4, <2>1, <2>2 DEF Complete
<1>9. NoOrphan'
  BY DEF NoOrphan
<1> QED BY <1>5, <1>6, <1>7, <1>8, <1>9

LEMMA RecordedStep == Recorded /\ [Next]_vars => Recorded'
<1> SUFFICES ASSUME Recorded, [Next]_vars PROVE Recorded'
  OBVIOUS
<1> USE DEF Recorded
<1>0. TypeOK'
  BY TypeStep
<1>1. ASSUME NEW r \in Requests, NEW key \in Keys, NEW payload \in Payloads,
             Receive(r, key, payload)
      PROVE  Recorded'
  <2>1. /\ req[r].phase = "idle" /\ req'[r].phase = "received"
        /\ \A s \in Requests \ {r} : req'[s] = req[s]
    BY <1>1 DEF Receive, TypeOK
  <2>2. UNCHANGED <<record, connection, outbox>>
    BY <1>1 DEF Receive
  <2>3. \A s \in Requests \ {r} : Slot(s)' = Slot(s)
    BY <2>1 DEF Slot
  <2>4. \A s \in Requests : Answering(s)' <=> Answering(s)
    BY <2>1 DEF Answering
  <2>5. ~ Answering(r)
    BY <2>1 DEF Answering
  <2>6. \A s \in Requests : Honest(s)'
    BY <2>1, <2>2, <2>3, <2>4, <2>5 DEF Honest
  <2>7. \A s \in Requests : Violated(s)' /\ Exclusive(s)' /\ Fresh(s)'
    BY <2>1, <2>2, <2>3, <2>4 DEF Violated, Exclusive, Fresh
  <2>8. ASSUME NEW s \in Slots PROVE Complete(s)'
    <3>1. record[s] # NULL => record[s].job \in Requests \ {r}
      BY <2>5 DEF Complete, TypeOK, RecordRows
    <3> QED BY <2>1, <2>2, <2>3, <2>4, <3>1 DEF Complete
  <2>9. NoOrphan'
    BY <2>2 DEF NoOrphan
  <2> QED BY <1>0, <2>6, <2>7, <2>8, <2>9
<1>2. ASSUME NEW r \in Requests,
             \/ Authorize(r) \/ SelectNothing(r) \/ InsertRecord(r)
             \/ UniqueViolation(r) \/ Reply(r)
      PROVE  Recorded'
  <2>1. UNCHANGED <<record, connection, outbox>>
    BY <1>2 DEF Authorize, SelectNothing, InsertRecord, UniqueViolation, Reply
  <2>2. PICK phase \in Phases :
          /\ Move(r, phase)
          /\ phase \in {"replying", "done"} <=> Answering(r)
          /\ phase = "inserted" => ~ Locked(r) /\ record[Slot(r)] = NULL
          /\ phase = "violated" => record[Slot(r)] # NULL
    BY <1>2 DEF Authorize, SelectNothing, InsertRecord, UniqueViolation, Reply, Phases, Answering
  <2>3. /\ req'[r].phase = phase /\ req'[r].key = req[r].key
        /\ req'[r].payload = req[r].payload /\ req'[r].response = req[r].response
        /\ \A s \in Requests \ {r} : req'[s] = req[s]
    BY <2>2, MoveAside
  <2>4. \A s \in Requests : Slot(s)' = Slot(s)
    BY <2>3 DEF Slot
  <2>5. Answering(r)' <=> Answering(r)
    BY <2>2, <2>3 DEF Answering
  <2>6. Honest(r)' /\ Violated(r)'
    BY <2>1, <2>2, <2>3, <2>4, <2>5 DEF Honest, Violated
  <2>7. Exclusive(r)'
    BY <2>1, <2>2, <2>3, <2>4 DEF Exclusive, Locked
  <2> QED BY <1>0, <2>1, <2>2, <2>3, <2>5, <2>6, <2>7, AsideStep
<1>3. ASSUME NEW r \in Requests, NotFound(r) PROVE Recorded'
  <2>1. Refused("not_found") \in Responses /\ Refused("not_found").status # "accepted"
    BY RefusedType DEF Refused
  <2> QED BY <1>0, <1>3, <2>1, ResponseStep DEF NotFound
<1>4. ASSUME NEW r \in Requests, SelectExisting(r) PROVE Recorded'
  BY <1>0, <1>4, ExistingStep DEF SelectExisting, Answering
<1>5. ASSUME NEW r \in Requests, Fallback(r) PROVE Recorded'
  BY <1>0, <1>5, ExistingStep DEF Fallback, Violated, Answering
<1>6. ASSUME NEW r \in Requests, Commit(r) PROVE Recorded'
  BY <1>0, <1>6, CommitStep
<1>7. ASSUME NEW r \in Requests, Fail(r) PROVE Recorded'
  <2>1. InProgress(r) /\ req' = [req EXCEPT ![r] = Failed(r)]
        /\ UNCHANGED <<record, connection, outbox>>
    BY <1>7 DEF Fail
  <2> DEFINE Ended == {r}
  <2>2. /\ \A s \in Ended : InProgress(s) /\ req'[s] = Failed(s)
        /\ \A s \in Requests \ Ended : req'[s] = req[s]
    BY <2>1 DEF TypeOK
  <2>3. Ended \in SUBSET Requests
    OBVIOUS
  <2> HIDE DEF Ended
  <2> QED BY <1>0, <2>1, <2>2, <2>3, InterruptStep
<1>8. ASSUME NEW key \in CipherKeys, Restart(key) PROVE Recorded'
  <2> DEFINE Ended == {r \in Requests : InProgress(r)}
  <2>1. UNCHANGED <<record, connection, outbox>>
    BY <1>8 DEF Restart
  <2>2. /\ \A r \in Ended : InProgress(r) /\ req'[r] = Failed(r)
        /\ \A r \in Requests \ Ended : req'[r] = req[r]
    BY <1>8 DEF Restart
  <2> HIDE DEF Ended
  <2>3. Ended \in SUBSET Requests
    BY DEF Ended
  <2> QED BY <1>0, <2>1, <2>2, <2>3, InterruptStep
<1>9. CASE UNCHANGED vars
  BY <1>9 DEF vars, TypeOK, Honest, Violated, Exclusive, Fresh, Complete, NoOrphan,
              Answering, Slot
<1> QED BY <1>1, <1>2, <1>3, <1>4, <1>5, <1>6, <1>7, <1>8, <1>9 DEF Next, Handle, Quiet

LEMMA InitRecorded == Init => Recorded
<1> SUFFICES ASSUME Init PROVE Recorded
  OBVIOUS
<1>1. TypeOK
  BY FaultAssumption DEF Init, Idle, TypeOK, ReqRows, Phases
<1>2. \A r \in Requests : Honest(r) /\ Violated(r) /\ Exclusive(r) /\ Fresh(r)
  BY DEF Init, Idle, Honest, Violated, Exclusive, Fresh, Answering
<1>3. NoOrphan /\ \A s \in Slots : Complete(s)
  BY DEF Init, NoOrphan, Complete
<1> QED BY <1>1, <1>2, <1>3 DEF Recorded

LEMMA RecordedHolds == Spec => []Recorded
BY InitRecorded, RecordedStep, PTL DEF Spec

-----------------------------------------------------------------------------
(* The results. *)

\* Every variable keeps its type, and a reply is always a response.
THEOREM TypeCorrect == Spec => []TypeOK
<1>1. Recorded => TypeOK
  BY DEF Recorded
<1> QED BY <1>1, RecordedHolds, PTL

\* Accepted requests that share a key were told one job and sent one payload,
\* however many of them raced and however often the server restarted.
THEOREM RequestsAgree == Spec => []AnswersAgree
<1>1. Recorded => AnswersAgree
  BY DEF Recorded, Honest, Answering, AnswersAgree, Told
<1> QED BY <1>1, RecordedHolds, PTL

\* At most one of them was told that it is the first.
THEOREM CreatorIsUnique == Spec => []OneCreator
<1>1. Recorded => OneCreator
  BY DEF Recorded, Honest, Answering, OneCreator, Told
<1> QED BY <1>1, RecordedHolds, PTL

\* What was accepted is in the database: the connection with the payload that
\* was sent, and the event that starts its job.
THEOREM AcceptedIsKept == Spec => []AcceptedIsStored
<1>1. Recorded => AcceptedIsStored
  BY SlotType DEF Recorded, Honest, Complete, Answering, AcceptedIsStored, Told
<1> QED BY <1>1, RecordedHolds, PTL

\* No connection exists beside the one its organization's key leads to.
THEOREM NoConnectionIsOrphan == Spec => []NoOrphan
<1>1. Recorded => NoOrphan
  BY DEF Recorded
<1> QED BY <1>1, RecordedHolds, PTL

\* The select after a unique violation finds the winner's record, and its job:
\* while no organization is deleted, the conflict of a missing record and the
\* error of a record without a job (tenant-validation.ts) are never taken.
WinnerIsThere ==
  \A r \in Requests : req[r].phase = "violated" =>
    /\ record[Slot(r)] # NULL
    /\ connection[record[Slot(r)].job] # NULL /\ record[Slot(r)].job \in outbox

THEOREM ViolationsFindWinners == Spec => []WinnerIsThere
<1>1. ASSUME Recorded, NEW r \in Requests, req[r].phase = "violated"
      PROVE  /\ record[Slot(r)] # NULL
             /\ connection[record[Slot(r)].job] # NULL /\ record[Slot(r)].job \in outbox
  <2>1. record[Slot(r)] # NULL /\ Slot(r) \in Slots
    BY <1>1, SlotType DEF Recorded, Violated
  <2>2. Complete(Slot(r)) /\ record[Slot(r)] \in RecordRows
    BY <1>1, <2>1 DEF Recorded, TypeOK
  <2>3. record[Slot(r)].fingerprint[1] \in Payloads /\ NULL \notin Payloads
    BY <2>2, NullAssumption DEF RecordRows, Fingerprints
  <2> QED BY <2>1, <2>2, <2>3 DEF Complete
<1>2. Recorded => WinnerIsThere
  BY <1>1 DEF WinnerIsThere
<1> QED BY <1>2, RecordedHolds, PTL

\* A committed record is never replaced.
THEOREM RecordsAreFinal == Spec => RecordIsFinal
<1>1. Recorded /\ [Next]_vars =>
        [\A s \in Slots : record[s] # NULL => record'[s] = record[s]]_vars
  <2> SUFFICES ASSUME Recorded, Next, NEW s \in Slots, record[s] # NULL
               PROVE  record'[s] = record[s]
    OBVIOUS
  <2>1. ASSUME NEW r \in Requests, Commit(r) PROVE record'[s] = record[s]
    <3>1. record[Slot(r)] = NULL
      BY <2>1 DEF Recorded, Exclusive, Commit
    <3> QED BY <2>1, <3>1 DEF Commit, Recorded, TypeOK
  <2> QED BY <2>1 DEF Next, Handle, Quiet, vars, Receive, Authorize, NotFound, SelectExisting,
                      SelectNothing, InsertRecord, UniqueViolation, Fallback, Reply, Fail, Restart
<1> QED BY <1>1, RecordedHolds, PTL DEF Spec, RecordIsFinal

-----------------------------------------------------------------------------
(* What the answering of a request rests on: it only goes forward.           *)

Places == [idle |-> 0, received |-> 1, authorized |-> 2, inserting |-> 3,
           inserted |-> 4, violated |-> 4, replying |-> 5, done |-> 6]
RequestsAdvance ==
  \A r \in Requests :
    \/ req'[r] = req[r]
    \/ /\ Places[req'[r].phase] > Places[req[r].phase]
       /\ req[r].phase # "idle" => req'[r].key = req[r].key /\ req'[r].payload = req[r].payload
       /\ Answering(r) => req'[r].response \in {req[r].response, Refused("error")}

\* A handler keeps its key and its payload and takes each of its at most six
\* statements once: a request that lost on the unique constraint does not try
\* again, and a fault or a restart only ends it.  A response that was chosen is
\* sent or lost, and one that was told is not taken back.
THEOREM RequestsGoForward == Spec => [][RequestsAdvance]_vars
<1>1. TypeOK /\ [Next]_vars => [RequestsAdvance]_vars
  <2> SUFFICES ASSUME TypeOK, Next, NEW r \in Requests
               PROVE  \/ req'[r] = req[r]
                      \/ /\ Places[req'[r].phase] > Places[req[r].phase]
                         /\ req[r].phase # "idle" =>
                              req'[r].key = req[r].key /\ req'[r].payload = req[r].payload
                         /\ Answering(r) => req'[r].response \in {req[r].response, Refused("error")}
    BY DEF RequestsAdvance
  <2>1. ASSUME NEW q \in Requests, NEW key \in Keys, NEW payload \in Payloads, Receive(q, key, payload)
        PROVE  req'[r] = req[r] \/ (req[r].phase = "idle" /\ req'[r].phase = "received")
    BY <2>1 DEF Receive, TypeOK
  <2>2. ASSUME NEW q \in Requests, Authorize(q) \/ SelectNothing(q) \/ InsertRecord(q) \/ UniqueViolation(q) \/ Reply(q)
        PROVE  \/ req'[r] = req[r]
               \/ /\ req'[r].key = req[r].key /\ req'[r].payload = req[r].payload
                  /\ req'[r].response = req[r].response
                  /\ <<req[r].phase, req'[r].phase>> \in
                       {<<"received", "authorized">>, <<"authorized", "inserting">>, <<"inserting", "inserted">>,
                        <<"inserting", "violated">>, <<"replying", "done">>}
    BY <2>2, MoveAside DEF Authorize, SelectNothing, InsertRecord, UniqueViolation, Reply, Phases
  <2>3. ASSUME NEW q \in Requests, NotFound(q) \/ SelectExisting(q) \/ Commit(q) \/ Fallback(q)
        PROVE  \/ req'[r] = req[r]
               \/ /\ req'[r].key = req[r].key /\ req'[r].payload = req[r].payload
                  /\ req[r].phase \in {"received", "authorized", "inserted", "violated"}
                  /\ req'[r].phase = "replying"
    <3>1. req[q].phase \in {"received", "authorized", "inserted", "violated"}
      BY <2>3 DEF NotFound, SelectExisting, Commit, Fallback
    <3>2. record[Slot(q)] # NULL => Existing(q, record[Slot(q)]) \in Responses
      BY <3>1, RecordType, ExistingType
    <3>3. PICK response \in Responses : Respond(q, response)
      BY <2>3, <3>2, RefusedType, AcceptedType DEF NotFound, SelectExisting, Commit, Fallback
    <3> QED BY <3>1, <3>3, RespondAside
  <2>4. ASSUME InProgress(r), req'[r] = Failed(r)
        PROVE  /\ req'[r].key = req[r].key /\ req'[r].payload = req[r].payload
               /\ req[r].phase \in Phases \ {"idle", "done"} /\ req'[r].phase = "done"
               /\ req'[r].response = Refused("error")
    <3>1. ReqOK
      BY DEF TypeOK, ReqOK, Answering
    <3> QED BY <2>4, <3>1, FailedType DEF InProgress, ReqOK, ReqRows
  <2>5. ASSUME NEW q \in Requests, Fail(q) PROVE req'[r] = req[r] \/ (InProgress(r) /\ req'[r] = Failed(r))
    BY <2>5 DEF Fail, TypeOK
  <2>6. ASSUME NEW key \in CipherKeys, Restart(key)
        PROVE  req'[r] = req[r] \/ (InProgress(r) /\ req'[r] = Failed(r))
    BY <2>6 DEF Restart
  <2>7. CASE Quiet
    BY <2>7 DEF Quiet, vars
  <2>8. CASE InProgress(r) /\ req'[r] = Failed(r)
    BY <2>4, <2>8 DEF Places, Phases
  <2>9. CASE \E q \in Requests, key \in Keys, payload \in Payloads : Receive(q, key, payload)
    BY <2>1, <2>9 DEF Places, Answering
  <2>10. CASE \E q \in Requests : Authorize(q) \/ SelectNothing(q) \/ InsertRecord(q) \/ UniqueViolation(q) \/ Reply(q)
    BY <2>2, <2>10 DEF Places, Answering
  <2>11. CASE \E q \in Requests : NotFound(q) \/ SelectExisting(q) \/ Commit(q) \/ Fallback(q)
    BY <2>3, <2>11 DEF Places, Answering
  <2> QED BY <2>5, <2>6, <2>7, <2>8, <2>9, <2>10, <2>11 DEF Next, Handle
<1> QED BY <1>1, TypeCorrect, PTL DEF Spec

-----------------------------------------------------------------------------
(* The refinement of IdempotentStart, for a server that keeps its           *)
(* encryption key.                                                          *)

\* What a request that was not accepted was told, and why.
Disputed(r) ==
  Answering(r) /\ req[r].response.status # "accepted" =>
    /\ req[r].response = Refused(req[r].response.status)
    /\ req[r].response.status = "idempotency_conflict" =>
         /\ record[Slot(r)] # NULL
         /\ record[Slot(r)].fingerprint[1] # req[r].payload

Justified == Recorded /\ \A r \in Requests : Disputed(r)

OneCipherKey == \A c, d \in CipherKeys : c = d

LEMMA ExistingDisputed ==
  ASSUME Justified, OneCipherKey, NEW r \in Requests, req[r].phase # "idle",
         record[Slot(r)] # NULL, UNCHANGED record,
         Respond(r, Existing(r, record[Slot(r)]))
  PROVE  Disputed(r)'
<1> DEFINE row == record[Slot(r)]
<1>1. Slot(r) \in Slots /\ row \in RecordRows
  BY SlotType, RecordType DEF Justified, Recorded
<1>2. Existing(r, row) \in Responses
  BY <1>1, ExistingType
<1>3. /\ req'[r].key = req[r].key /\ req'[r].payload = req[r].payload
      /\ req'[r].response = Existing(r, row)
  BY <1>2, RespondAside DEF Justified, Recorded
<1>4. Slot(r)' = Slot(r) /\ record'[Slot(r)] = row
  BY <1>3 DEF Slot
<1>5. CASE row.fingerprint = Fingerprint(r)
  BY <1>3, <1>5 DEF Existing, Accepted, Disputed
<1>6. CASE row.fingerprint # Fingerprint(r)
  <2>1. row.fingerprint[1] # req[r].payload
    <3>1. row.fingerprint = <<row.fingerprint[1], row.fingerprint[2]>>
          /\ row.fingerprint[2] \in CipherKeys
      BY <1>1 DEF RecordRows, Fingerprints
    <3>2. row.fingerprint[2] = cipherKey
      BY <3>1 DEF OneCipherKey, Justified, Recorded, TypeOK
    <3> QED BY <1>6, <3>1, <3>2 DEF Fingerprint
  <2>2. Existing(r, row) = Refused("idempotency_conflict")
    BY <1>6 DEF Existing
  <2> QED BY <1>1, <1>3, <1>4, <2>1, <2>2 DEF Refused, Disputed
<1> QED BY <1>5, <1>6

\* A record, once there, stays; so does what follows from it for a request
\* that the step leaves alone.
LEMMA DisputedKept ==
  ASSUME Justified, [Next]_vars, NEW r \in Requests,
         req'[r].key = req[r].key, req'[r].payload = req[r].payload,
         req'[r].response = req[r].response, Answering(r)' => Answering(r)
  PROVE  Disputed(r)'
<1>1. Slot(r)' = Slot(r)
  BY DEF Slot
<1>2. Answering(r) => Slot(r) \in Slots
  BY SlotType DEF Justified, Recorded, Answering
<1>3. \A s \in Slots : record[s] # NULL => record'[s] = record[s]
  <2>1. ASSUME NEW s \in Slots, record[s] # NULL, NEW q \in Requests, Commit(q)
        PROVE  record'[s] = record[s]
    <3>1. record[Slot(q)] = NULL
      BY <2>1 DEF Justified, Recorded, Exclusive, Commit
    <3> QED BY <2>1, <3>1 DEF Commit, Justified, Recorded, TypeOK
  <2> QED BY <2>1 DEF Next, Handle, Quiet, vars, Receive, Authorize, NotFound, SelectExisting,
                      SelectNothing, InsertRecord, UniqueViolation, Fallback, Reply, Fail, Restart
<1> QED BY <1>1, <1>2, <1>3 DEF Justified, Disputed

LEMMA JustifiedStep ==
  ASSUME OneCipherKey, Justified, [Next]_vars
  PROVE  Justified'
<1> SUFFICES ASSUME NEW r \in Requests PROVE Disputed(r)'
  BY RecordedStep DEF Justified
<1>0. TypeOK
  BY DEF Justified, Recorded
<1>1. ASSUME NEW q \in Requests, q # r, req' = [req EXCEPT ![q] = req'[q]]
      PROVE  Disputed(r)'
  <2>1. req'[r] = req[r]
    BY <1>0, <1>1 DEF TypeOK
  <2> QED BY <2>1, DisputedKept DEF Answering
<1>2. ASSUME NEW q \in Requests, NEW key \in Keys, NEW payload \in Payloads,
             Receive(q, key, payload)
      PROVE  Disputed(r)'
  <2>1. req'[q].phase = "received" /\ req' = [req EXCEPT ![q] = req'[q]]
    BY <1>0, <1>2 DEF Receive, TypeOK
  <2> QED BY <1>1, <2>1 DEF Disputed, Answering
<1>3. ASSUME NEW q \in Requests, NEW phase \in Phases, Move(q, phase),
             phase \in {"replying", "done"} => Answering(q)
      PROVE  Disputed(r)'
  <2>1. /\ req'[q].phase = phase /\ req'[q].key = req[q].key
        /\ req'[q].payload = req[q].payload /\ req'[q].response = req[q].response
        /\ \A s \in Requests \ {q} : req'[s] = req[s]
    BY <1>0, <1>3, MoveAside
  <2> QED BY <1>3, <2>1, DisputedKept DEF Answering
<1>4. ASSUME NEW q \in Requests, NEW response \in Responses, Respond(q, response),
             q = r => Disputed(r)'
      PROVE  Disputed(r)'
  <2>1. \A s \in Requests \ {q} : req'[s] = req[s]
    BY <1>0, <1>4, RespondAside
  <2> QED BY <1>4, <2>1, DisputedKept DEF Answering
<1>5. ASSUME NEW q \in Requests, Authorize(q) \/ SelectNothing(q) \/ InsertRecord(q)
                                 \/ UniqueViolation(q) \/ Reply(q)
      PROVE  Disputed(r)'
  BY <1>3, <1>5 DEF Authorize, SelectNothing, InsertRecord, UniqueViolation, Reply, Phases,
                    Answering
<1>6. ASSUME NEW q \in Requests, NotFound(q) PROVE Disputed(r)'
  <2>1. Refused("not_found") \in Responses
    BY RefusedType
  <2>2. req'[q].response = Refused("not_found")
    BY <1>0, <1>6, <2>1, RespondAside DEF NotFound
  <2>3. Refused("not_found").status = "not_found"
    BY DEF Refused
  <2>4. q = r => Disputed(r)'
    BY <2>2, <2>3 DEF Disputed
  <2> QED BY <1>4, <1>6, <2>1, <2>4 DEF NotFound
<1>7. ASSUME NEW q \in Requests, SelectExisting(q) \/ Fallback(q) PROVE Disputed(r)'
  <2>1. /\ req[q].phase # "idle" /\ record[Slot(q)] # NULL /\ UNCHANGED record
        /\ Respond(q, Existing(q, record[Slot(q)]))
    BY <1>7 DEF SelectExisting, Fallback, Justified, Recorded, Violated
  <2>2. Existing(q, record[Slot(q)]) \in Responses
    BY <1>0, <2>1, RecordType, ExistingType
  <2> QED BY <1>4, <2>1, <2>2, ExistingDisputed
<1>8. ASSUME NEW q \in Requests, Commit(q) PROVE Disputed(r)'
  <2>1. Accepted(q, FALSE) \in Responses
    BY AcceptedType
  <2>2. q = r => Disputed(r)'
    BY <1>0, <1>8, <2>1, RespondAside DEF Commit, Accepted, Disputed
  <2> QED BY <1>4, <1>8, <2>1, <2>2 DEF Commit
<1>9. ASSUME InProgress(r), req'[r] = Failed(r) PROVE Disputed(r)'
  <2>1. req'[r].response = Refused("error")
    BY <1>0, <1>9, FailedType DEF TypeOK, ReqOK, Answering
  <2> QED BY <2>1 DEF Refused, Disputed
<1>10. ASSUME req'[r] = req[r] PROVE Disputed(r)'
  BY <1>10, DisputedKept DEF Answering
<1>11. ASSUME NEW q \in Requests, Fail(q) PROVE Disputed(r)'
  BY <1>0, <1>9, <1>10, <1>11 DEF Fail, TypeOK
<1>12. ASSUME NEW key \in CipherKeys, Restart(key) PROVE Disputed(r)'
  BY <1>9, <1>10, <1>12 DEF Restart
<1>13. CASE UNCHANGED vars
  BY <1>10, <1>13 DEF vars
<1> QED BY <1>2, <1>5, <1>6, <1>7, <1>8, <1>11, <1>12, <1>13 DEF Next, Handle, Quiet

LEMMA JustifiedHolds == ASSUME OneCipherKey PROVE Spec => []Justified
<1>1. Init => Justified
  BY InitRecorded DEF Init, Idle, Justified, Disputed, Answering
<1> QED BY <1>1, JustifiedStep, PTL DEF Spec

\* A conflict is told only for a payload that differs, within an organization,
\* as long as the server keeps its encryption key.
THEOREM ConflictsAreJustified == ASSUME OneCipherKey PROVE Spec => []ConflictJustified
<1>1. Justified => ConflictJustified
  <2> SUFFICES ASSUME Justified, NEW r \in Requests, Told(r, "idempotency_conflict")
               PROVE  \E s \in Requests :
                        /\ connection[s] # NULL /\ req[s].key = req[r].key
                        /\ connection[s] # req[r].payload
                        /\ OrgOf[connection[s]] = OrgOf[req[r].payload]
    BY DEF ConflictJustified
  <2> USE DEF Justified, Recorded
  <2> DEFINE row == record[Slot(r)]
  <2>1. Answering(r) /\ Slot(r) \in Slots
    BY SlotType DEF Told, Answering
  <2>2. row # NULL /\ row.fingerprint[1] # req[r].payload
    BY <2>1 DEF Disputed, Told
  <2>3. row.job \in Requests /\ row.fingerprint[1] \in Payloads
    BY <2>1, <2>2 DEF TypeOK, RecordRows, Fingerprints
  <2>4. /\ connection[row.job] = row.fingerprint[1] /\ Slot(r) = Slot(row.job)
        /\ req[row.job].payload = row.fingerprint[1]
    BY <2>1, <2>2 DEF Complete
  <2>5. req[row.job].key = req[r].key /\ OrgOf[req[row.job].payload] = OrgOf[req[r].payload]
    BY <2>4 DEF Slot
  <2> QED BY <2>2, <2>3, <2>4, <2>5, NullAssumption
<1> QED BY <1>1, JustifiedHolds, PTL

\* A repetition of an accepted request is never told a conflict while the
\* server keeps its encryption key: that key is all that the counterexample of
\* the run start_key_rotation needs.
THEOREM RepetitionsAgree == ASSUME OneCipherKey PROVE Spec => []SamePayloadSameJob
<1>1. Justified => SamePayloadSameJob
  <2> SUFFICES ASSUME Justified, NEW r \in Requests, NEW s \in Requests,
                      Told(r, "accepted"), Told(s, "idempotency_conflict"),
                      req[r].key = req[s].key, req[r].payload = req[s].payload
               PROVE  FALSE
    BY DEF SamePayloadSameJob
  <2>1. record[Slot(r)].fingerprint[1] = req[r].payload
    BY DEF Justified, Recorded, Honest, Answering, Told
  <2>2. record[Slot(s)].fingerprint[1] # req[s].payload
    BY DEF Justified, Disputed, Answering, Told
  <2>3. Slot(r) = Slot(s)
    BY DEF Slot
  <2> QED BY <2>1, <2>2, <2>3
<1> QED BY <1>1, JustifiedHolds, PTL

-----------------------------------------------------------------------------
\* A stored value is a record and NULL is not: the mapping loses nothing.
LEMMA StoredNotNull ==
  ASSUME Recorded, NEW s \in Slots, record[s] # NULL
  PROVE  /\ Stored[s] # NULL
         /\ Stored[s].payload = record[s].fingerprint[1] /\ Stored[s].job = record[s].job
<1>1. record[s] \in RecordRows
  BY DEF Recorded, TypeOK
<1>2. Stored[s] = [payload |-> record[s].fingerprint[1], job |-> record[s].job]
  BY DEF Stored
<1>3. Stored[s] \in [payload : Payloads, job : Requests]
  BY <1>1, <1>2 DEF RecordRows, Fingerprints
<1> QED BY <1>2, <1>3, NullAssumption

AnswerOf(r) == IF req[r].phase = "done" THEN req[r].response ELSE NULL

LEMMA StoreKept == UNCHANGED record => UNCHANGED Stored
BY DEF Stored

\* Ending the requests in Ended with an error is a step of the contract.
LEMMA InterruptSimulates ==
  ASSUME TypeOK, NEW Ended \in SUBSET Requests, UNCHANGED record,
         \A r \in Ended : InProgress(r) /\ req'[r] = Failed(r),
         \A r \in Requests \ Ended : req'[r] = req[r]
  PROVE  Contract!Interrupt
<1>1. \A r \in Ended : AnswerOf(r) = NULL /\ AnswerOf(r)' = Refused("error")
  <2>1. ReqOK
    BY DEF TypeOK, ReqOK, Answering
  <2> QED BY <2>1, FailedType DEF InProgress, AnswerOf
<1>2. \A r \in Requests \ Ended : AnswerOf(r)' = AnswerOf(r)
  BY DEF AnswerOf
<1>3. Answers' = [r \in Requests |-> IF r \in Ended THEN Refused("error") ELSE Answers[r]]
  BY <1>1, <1>2 DEF Answers, AnswerOf
<1>4. Ended \in SUBSET {r \in Requests : Answers[r] = NULL}
  BY <1>1 DEF Answers, AnswerOf
<1>5. UNCHANGED Stored
  BY StoreKept
<1> QED BY <1>3, <1>4, <1>5
        DEF Contract!Interrupt, Contract!Refused, Refused

LEMMA CommitSimulates ==
  ASSUME Justified, NEW r \in Requests, Commit(r)
  PROVE  Contract!Store(r, Slot(r), req[r].payload)
<1> USE DEF Justified, Recorded
<1>1. req[r].phase = "inserted" /\ Slot(r) \in Slots /\ record[Slot(r)] = NULL
  BY SlotType DEF Commit, Exclusive
<1>2. \A s \in Requests : AnswerOf(s)' = AnswerOf(s)
  BY AcceptedType, RespondAside DEF Commit, AnswerOf
<1>3. Answers[r] = NULL /\ UNCHANGED Answers
  BY <1>1, <1>2 DEF Answers, AnswerOf
<1>4. record' = [record EXCEPT ![Slot(r)] = [fingerprint |-> Fingerprint(r), job |-> r]]
  BY DEF Commit
<1>5. [fingerprint |-> Fingerprint(r), job |-> r] # NULL
  BY <1>1, SlotType, NullAssumption DEF RecordRows
<1>6. PICK slot \in Slots : slot = Slot(r)
  BY <1>1
<1>7. Stored'[slot] = [payload |-> req[r].payload, job |-> r]
  BY <1>4, <1>5, <1>6 DEF Stored, Fingerprint, TypeOK
<1>71. \A s \in Slots \ {slot} : Stored'[s] = Stored[s]
  BY <1>4, <1>6 DEF Stored, TypeOK
<1>8. Stored' = [Stored EXCEPT ![Slot(r)] = [payload |-> req[r].payload, job |-> r]]
  BY <1>6, <1>7, <1>71 DEF Stored
<1>9. Stored[Slot(r)] = NULL
  BY <1>1 DEF Stored
<1>10. \A t \in Slots : Stored[t] # NULL => Stored[t].job # r
  BY <1>1 DEF Stored, Complete, Answering
<1> QED BY <1>3, <1>8, <1>9, <1>10 DEF Contract!Store

LEMMA ReplySimulates ==
  ASSUME Justified, NEW r \in Requests, Reply(r)
  PROVE  Contract!Answer(r, Slot(r), req[r].payload) \/ Contract!Refuse(r)
<1> USE DEF Justified, Recorded
<1> DEFINE response == req[r].response
<1>1. /\ Answering(r) /\ response \in Responses /\ Slot(r) \in Slots
      /\ req[r].phase = "replying"
  BY SlotType DEF Reply, Answering, TypeOK
<1>2. /\ req'[r].phase = "done" /\ req'[r].response = response
      /\ \A s \in Requests \ {r} : req'[s] = req[s]
  BY MoveAside DEF Reply, Phases
<1>3. Answers[r] = NULL /\ UNCHANGED Stored
  BY <1>1, StoreKept DEF Reply, Answers, AnswerOf
<1>4. Answers' = [Answers EXCEPT ![r] = response]
  <2>1. AnswerOf(r)' = response /\ \A s \in Requests \ {r} : AnswerOf(s)' = AnswerOf(s)
    BY <1>2 DEF AnswerOf
  <2> QED BY <2>1 DEF Answers, AnswerOf
<1>5. CASE response.status = "accepted"
  <2> DEFINE row == record[Slot(r)]
  <2>1. /\ row # NULL /\ row.job = response.job /\ row.fingerprint[1] = req[r].payload
        /\ response.reused <=> response.job # r
    BY <1>1, <1>5 DEF Honest
  <2>2. response = [status |-> "accepted", job |-> row.job, reused |-> row.job # r]
    BY <1>1, <1>5, <2>1 DEF Responses
  <2>3. /\ Stored[Slot(r)] # NULL
        /\ Stored[Slot(r)].payload = req[r].payload /\ Stored[Slot(r)].job = row.job
    BY <1>1, <2>1, StoredNotNull
  <2>4. response = Contract!Accepted(r, Slot(r))
    BY <2>2, <2>3 DEF Contract!Accepted
  <2> QED BY <1>3, <1>4, <2>3, <2>4 DEF Contract!Answer
<1>6. CASE response.status # "accepted"
  <2>1. response = Refused(response.status)
    BY <1>1, <1>6 DEF Disputed
  <2>2. CASE response.status = "idempotency_conflict"
    <3>1. record[Slot(r)] # NULL /\ record[Slot(r)].fingerprint[1] # req[r].payload
      BY <1>1, <2>2 DEF Disputed
    <3>2. Stored[Slot(r)] # NULL
      BY <1>1, <3>1, StoredNotNull
    <3>3. Stored[Slot(r)].payload # req[r].payload
      BY <1>1, <3>1, StoredNotNull
    <3>4. Answers' = [Answers EXCEPT ![r] = Refused("idempotency_conflict")]
      BY <1>4, <2>1, <2>2
    <3> QED BY <1>3, <3>2, <3>3, <3>4
            DEF Contract!Answer, Contract!Refused, Refused
  <2>3. CASE response.status \in {"not_found", "error"}
    <3>1. Answers' = [Answers EXCEPT ![r] = Refused(response.status)]
      BY <1>4, <2>1
    <3> QED BY <1>3, <2>3, <3>1
            DEF Contract!Refuse, Contract!Refused, Refused
  <2> QED BY <1>1, <1>6, <2>2, <2>3 DEF Responses
<1> QED BY <1>5, <1>6

LEMMA StepSimulates ==
  ASSUME Justified, [Next]_vars
  PROVE  [Contract!Next]_(Contract!vars)
<1> USE DEF Justified, Recorded
<1>q. ASSUME UNCHANGED record, \A r \in Requests : AnswerOf(r)' = AnswerOf(r)
      PROVE  UNCHANGED Contract!vars
  BY <1>q, StoreKept DEF Contract!vars, Answers, AnswerOf
<1>1. ASSUME NEW r \in Requests, NEW key \in Keys, NEW payload \in Payloads,
             Receive(r, key, payload)
      PROVE  UNCHANGED Contract!vars
  BY <1>1, <1>q DEF Receive, AnswerOf, TypeOK
<1>2. ASSUME NEW r \in Requests, Authorize(r) \/ SelectNothing(r) \/ InsertRecord(r)
                                 \/ UniqueViolation(r)
      PROVE  UNCHANGED Contract!vars
  <2>1. PICK phase \in Phases \ {"done"} : Move(r, phase) /\ req[r].phase # "done"
    BY <1>2 DEF Authorize, SelectNothing, InsertRecord, UniqueViolation, Phases
  <2>2. \A s \in Requests : AnswerOf(s)' = AnswerOf(s)
    BY <2>1, MoveAside DEF AnswerOf
  <2> QED BY <1>2, <1>q, <2>2
          DEF Authorize, SelectNothing, InsertRecord, UniqueViolation
<1>3. ASSUME NEW r \in Requests, NotFound(r) \/ SelectExisting(r) \/ Fallback(r)
      PROVE  UNCHANGED Contract!vars
  <2>1. PICK response \in Responses : Respond(r, response) /\ req[r].phase # "done"
    <3>1. req[r].phase # "idle" /\ req[r].phase # "done"
      BY <1>3 DEF NotFound, SelectExisting, Fallback
    <3>2. record[Slot(r)] # NULL => Existing(r, record[Slot(r)]) \in Responses
      BY <3>1, RecordType, ExistingType
    <3> QED BY <1>3, <3>1, <3>2, RefusedType DEF NotFound, SelectExisting, Fallback
  <2>2. \A s \in Requests : AnswerOf(s)' = AnswerOf(s)
    BY <2>1, RespondAside DEF AnswerOf
  <2> QED BY <1>3, <1>q, <2>2 DEF NotFound, SelectExisting, Fallback
<1>4. ASSUME NEW r \in Requests, Commit(r) \/ Reply(r) PROVE Contract!Next
  <2>1. Slot(r) \in Slots /\ req[r].payload \in Payloads
    BY <1>4, SlotType DEF Commit, Reply, TypeOK
  <2>2. CASE Commit(r)
    BY <2>1, <2>2, CommitSimulates DEF Contract!Next
  <2>3. CASE Reply(r)
    BY <2>1, <2>3, ReplySimulates DEF Contract!Next
  <2> QED BY <1>4, <2>2, <2>3
<1>5. ASSUME NEW r \in Requests, Fail(r) PROVE Contract!Next
  <2> DEFINE Ended == {r}
  <2>1. /\ UNCHANGED record
        /\ \A s \in Ended : InProgress(s) /\ req'[s] = Failed(s)
        /\ \A s \in Requests \ Ended : req'[s] = req[s]
    BY <1>5 DEF Fail, TypeOK
  <2>2. Ended \in SUBSET Requests
    OBVIOUS
  <2> HIDE DEF Ended
  <2> QED BY <2>1, <2>2, InterruptSimulates DEF Contract!Next
<1>6. ASSUME NEW key \in CipherKeys, Restart(key) PROVE Contract!Next
  <2> DEFINE Ended == {r \in Requests : InProgress(r)}
  <2>1. /\ UNCHANGED record
        /\ \A s \in Ended : InProgress(s) /\ req'[s] = Failed(s)
        /\ \A s \in Requests \ Ended : req'[s] = req[s]
    BY <1>6 DEF Restart
  <2>2. Ended \in SUBSET Requests
    OBVIOUS
  <2> HIDE DEF Ended
  <2> QED BY <2>1, <2>2, InterruptSimulates DEF Contract!Next
<1>7. CASE UNCHANGED vars
  <2>1. UNCHANGED record /\ \A r \in Requests : AnswerOf(r)' = AnswerOf(r)
    BY <1>7 DEF vars, AnswerOf
  <2> QED BY <1>q, <2>1
<1> QED BY <1>1, <1>2, <1>3, <1>4, <1>5, <1>6, <1>7 DEF Next, Handle, Quiet

\* The handler implements the promise of docs/architecture/api.md for any
\* number of requests, as long as the server keeps its encryption key: with
\* two keys the run start_key_rotation refutes it.
THEOREM StartKeepsPromise == ASSUME OneCipherKey PROVE Spec => ImplementsContract
<1>1. Init => Contract!Init
  BY DEF Init, Idle, Contract!Init, Stored, Answers
<1>2. Justified /\ [Next]_vars => [Contract!Next]_(Contract!vars)
  BY StepSimulates
<1> QED BY <1>1, <1>2, JustifiedHolds, PTL DEF Spec, ImplementsContract, Contract!Spec
=============================================================================
