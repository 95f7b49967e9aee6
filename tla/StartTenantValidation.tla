----------------------- MODULE StartTenantValidation -----------------------
(***************************************************************************)
(* POST /v1/workspaces/{id}/tenant-connections: startTenantValidation of   *)
(* packages/product/src/tenant-validation.ts under concurrent requests     *)
(* that share an Idempotency-Key, statements that fail, replies that get   *)
(* lost and restarts of the API server.                                    *)
(*                                                                         *)
(* A request is one HTTP request, a retry of a client is another one with  *)
(* the same key and payload.  A request inserts at most one connection and *)
(* one job, so its name serves as the identifier of both.  The database is *)
(* PostgreSQL at READ COMMITTED: a select sees committed rows, an insert   *)
(* of a key that another open transaction inserted waits for its end.      *)
(***************************************************************************)
EXTENDS Integers, FiniteSets

CONSTANTS
  Requests,        \* HTTP requests
  Keys,            \* values of Idempotency-Key
  Organizations,
  Payloads,        \* workspace and credentials
  OrgOf,           \* the organization of the workspace of a payload
  CipherKeys,      \* values of TENANT_CREDENTIAL_ENCRYPTION_KEY
  NULL,
  MaxFaults        \* bound: failed statements, lost replies, restarts

\* The columns of the unique constraint of idempotency_record.
Slots == Organizations \X Keys

ASSUME OrgAssumption == OrgOf \in [Payloads -> Organizations]
ASSUME FaultAssumption == MaxFaults \in Nat

VARIABLES
  record,      \* committed idempotency_record of each organization and key
  connection,  \* committed tenant_connection and job, by request
  outbox,      \* jobs with a committed outbox_event
  cipherKey,   \* the key the running server was started with
  req,         \* the invocation of startTenantValidation for each request
  faults

vars == <<record, connection, outbox, cipherKey, req, faults>>

Phases == {"idle", "received", "authorized", "inserting", "inserted", "violated", "replying", "done"}
Fingerprints == Payloads \X CipherKeys
RecordRows == [fingerprint : Fingerprints, job : Requests]
Responses ==
  [status : {"accepted", "idempotency_conflict", "not_found", "error"},
   job : Requests \cup {NULL}, reused : BOOLEAN]
ReqRows ==
  [phase : Phases, key : Keys \cup {NULL}, payload : Payloads \cup {NULL},
   response : Responses \cup {NULL}]

ASSUME NullAssumption ==
  NULL \notin Requests \cup Keys \cup Payloads \cup RecordRows \cup [payload : Payloads, job : Requests]

Idle == [phase |-> "idle", key |-> NULL, payload |-> NULL, response |-> NULL]

Init ==
  /\ record = [s \in Slots |-> NULL]
  /\ connection = [r \in Requests |-> NULL]
  /\ outbox = {}
  /\ cipherKey \in CipherKeys
  /\ req = [r \in Requests |-> Idle]
  /\ faults = 0

-----------------------------------------------------------------------------
(* A name with an underscore is the definition after it as a bug would have *)
(* it.                                                                      *)

Faulty == faults < MaxFaults /\ faults' = faults + 1

Slot_KeyOnly(r) == <<CHOOSE o \in Organizations : TRUE, req[r].key>>
Slot(r) == <<OrgOf[req[r].payload], req[r].key>>
Fingerprint(r) == <<req[r].payload, cipherKey>>

Accepted(job, reused) == [status |-> "accepted", job |-> job, reused |-> reused]
Refused(status) == [status |-> status, job |-> NULL, reused |-> FALSE]

\* The answer of a request that finds the record of its key.
Existing_AnyPayload(r, row) == Accepted(row.job, TRUE)
Existing(r, row) ==
  IF row.fingerprint = Fingerprint(r) THEN Accepted(row.job, TRUE)
                                      ELSE Refused("idempotency_conflict")

Move(r, phase) == req' = [req EXCEPT ![r].phase = phase]
Respond(r, response) == req' = [req EXCEPT ![r].phase = "replying", ![r].response = response]

-----------------------------------------------------------------------------
Receive(r, key, payload) ==
  /\ req[r].phase = "idle"
  /\ req' = [req EXCEPT ![r] = [phase |-> "received", key |-> key, payload |-> payload,
                                response |-> NULL]]
  /\ UNCHANGED <<record, connection, outbox, cipherKey, faults>>

Authorize(r) ==
  /\ req[r].phase = "received"
  /\ Move(r, "authorized")
  /\ UNCHANGED <<record, connection, outbox, cipherKey, faults>>

\* No such workspace, or no write grant for it.
NotFound(r) ==
  /\ req[r].phase = "received"
  /\ Respond(r, Refused("not_found"))
  /\ UNCHANGED <<record, connection, outbox, cipherKey, faults>>

SelectExisting(r) ==
  /\ req[r].phase = "authorized" /\ record[Slot(r)] # NULL
  /\ Respond(r, Existing(r, record[Slot(r)]))
  /\ UNCHANGED <<record, connection, outbox, cipherKey, faults>>

\* The connection and the job are inserted as well; nobody sees them before
\* the commit.
SelectNothing(r) ==
  /\ req[r].phase = "authorized" /\ record[Slot(r)] = NULL
  /\ Move(r, "inserting")
  /\ UNCHANGED <<record, connection, outbox, cipherKey, faults>>

\* The insert of the idempotency record: with the event in the outbox, waits
\* for, or fails on, a row of another transaction for the same key.
Locked(r) == \E s \in Requests \ {r} : req[s].phase = "inserted" /\ Slot(s) = Slot(r)

InsertRecord_NoIndex(r) ==
  /\ req[r].phase = "inserting"
  /\ Move(r, "inserted")
  /\ UNCHANGED <<record, connection, outbox, cipherKey, faults>>
InsertRecord(r) ==
  /\ req[r].phase = "inserting" /\ ~ Locked(r) /\ record[Slot(r)] = NULL
  /\ Move(r, "inserted")
  /\ UNCHANGED <<record, connection, outbox, cipherKey, faults>>

\* The transaction rolls back.
UniqueViolation_Retries(r) ==
  /\ req[r].phase = "inserting" /\ ~ Locked(r) /\ record[Slot(r)] # NULL
  /\ UNCHANGED vars
UniqueViolation(r) ==
  /\ req[r].phase = "inserting" /\ ~ Locked(r) /\ record[Slot(r)] # NULL
  /\ Move(r, "violated")
  /\ UNCHANGED <<record, connection, outbox, cipherKey, faults>>

Commit_NoEvent(r) ==
  /\ req[r].phase = "inserted"
  /\ record' = [record EXCEPT ![Slot(r)] = [fingerprint |-> Fingerprint(r), job |-> r]]
  /\ connection' = [connection EXCEPT ![r] = req[r].payload]
  /\ Respond(r, Accepted(r, FALSE))
  /\ UNCHANGED <<outbox, cipherKey, faults>>
Commit(r) ==
  /\ req[r].phase = "inserted"
  /\ record' = [record EXCEPT ![Slot(r)] = [fingerprint |-> Fingerprint(r), job |-> r]]
  /\ connection' = [connection EXCEPT ![r] = req[r].payload]
  /\ outbox' = outbox \cup {r}
  /\ Respond(r, Accepted(r, FALSE))
  /\ UNCHANGED <<cipherKey, faults>>

\* The select after a unique violation, outside of the transaction.
Fallback_New(r) ==
  /\ req[r].phase = "violated"
  /\ Respond(r, Accepted(r, FALSE))
  /\ UNCHANGED <<record, connection, outbox, cipherKey, faults>>
Fallback(r) ==
  /\ req[r].phase = "violated"
  /\ Respond(r, IF record[Slot(r)] = NULL THEN Refused("idempotency_conflict")
                                          ELSE Existing(r, record[Slot(r)]))
  /\ UNCHANGED <<record, connection, outbox, cipherKey, faults>>

Reply(r) ==
  /\ req[r].phase = "replying"
  /\ Move(r, "done")
  /\ UNCHANGED <<record, connection, outbox, cipherKey, faults>>

InProgress(r) == req[r].phase \notin {"idle", "done"}
Failed(r) == [req[r] EXCEPT !.phase = "done", !.response = Refused("error")]

\* A statement throws, or the reply does not reach the client.
Fail(r) ==
  /\ InProgress(r) /\ Faulty
  /\ req' = [req EXCEPT ![r] = Failed(r)]
  /\ UNCHANGED <<record, connection, outbox, cipherKey>>

\* The server stops and starts again, perhaps with another encryption key.
Restart(key) ==
  /\ Faulty
  /\ cipherKey' = key
  /\ req' = [r \in Requests |-> IF InProgress(r) THEN Failed(r) ELSE req[r]]
  /\ UNCHANGED <<record, connection, outbox>>

\* What the handler of a request does of its own accord.
Handle(r) ==
  \/ Authorize(r) \/ NotFound(r) \/ SelectExisting(r) \/ SelectNothing(r)
  \/ InsertRecord(r) \/ UniqueViolation(r) \/ Commit(r) \/ Fallback(r) \/ Reply(r)

\* Every request was answered and no more come.  Any other state without a
\* step is requests that wait for one another.
Quiet == (\A r \in Requests : req[r].phase = "done") /\ UNCHANGED vars

Next ==
  \/ \E r \in Requests :
       \/ \E key \in Keys, payload \in Payloads : Receive(r, key, payload)
       \/ Handle(r) \/ Fail(r)
  \/ \E key \in CipherKeys : Restart(key)
  \/ Quiet

Spec == Init /\ [][Next]_vars

\* A statement ends and a transaction ends; an insert that waits for another
\* transaction goes on when that one has ended.
FairSpec == Spec /\ \A r \in Requests : WF_vars(Handle(r))

-----------------------------------------------------------------------------
Told(r, status) == req[r].phase = "done" /\ req[r].response.status = status

\* The type invariant; a reply that is ready or sent is a response.
TypeOK ==
  /\ record \in [Slots -> RecordRows \cup {NULL}]
  /\ connection \in [Requests -> Payloads \cup {NULL}]
  /\ outbox \subseteq Requests
  /\ cipherKey \in CipherKeys
  /\ req \in [Requests -> ReqRows]
  /\ faults \in 0..MaxFaults
  /\ \A r \in Requests :
       /\ req[r].phase # "idle" => req[r].key \in Keys /\ req[r].payload \in Payloads
       /\ req[r].phase \in {"replying", "done"} => req[r].response \in Responses

\* Requests of an organization that share a key and were accepted were told
\* the same job, and sent the same payload: whichever of them raced, failed
\* on the unique constraint or came after a restart.
AnswersAgree ==
  \A r, s \in Requests :
    Told(r, "accepted") /\ Told(s, "accepted") /\ Slot(r) = Slot(s) =>
      /\ req[r].response.job = req[s].response.job
      /\ req[r].payload = req[s].payload

\* Only one of them may think that it was the first.
OneCreator ==
  \A r, s \in Requests :
    /\ Told(r, "accepted") /\ Told(s, "accepted") /\ Slot(r) = Slot(s)
    /\ ~ req[r].response.reused /\ ~ req[s].response.reused
    => r = s

\* An accepted command is not forgotten: its connection holds the credentials
\* the client sent, and the event that starts its job is in the outbox.
AcceptedIsStored ==
  \A r \in Requests : Told(r, "accepted") =>
    /\ req[r].response.job \in outbox
    /\ connection[req[r].response.job] = req[r].payload

\* No attempt leaves a job that its organization's key does not lead to: a
\* customer cannot own a second connection by racing or repeating a request.
NoOrphan ==
  \A r \in Requests : connection[r] # NULL =>
    r \in outbox /\ \E s \in Slots : record[s] # NULL /\ record[s].job = r

\* A conflict is told only to a request whose key was used for another
\* payload in its own organization: two organizations never meet in a key.
\* Needs a server that keeps its encryption key.
ConflictJustified ==
  \A r \in Requests : Told(r, "idempotency_conflict") =>
    \E s \in Requests :
      /\ connection[s] # NULL /\ req[s].key = req[r].key
      /\ connection[s] # req[r].payload
      /\ OrgOf[connection[s]] = OrgOf[req[r].payload]

\* "The same key with the same operation and payload returns the original
\* result or job" (docs/architecture/api.md): a repetition of an accepted
\* request is never told a conflict.
SamePayloadSameJob ==
  \A r, s \in Requests :
    /\ Told(r, "accepted") /\ Told(s, "idempotency_conflict")
    => req[r].key # req[s].key \/ req[r].payload # req[s].payload

\* A committed record is never replaced, by whichever path a later request of
\* its key takes.
RecordIsFinal == [][\A s \in Slots : record[s] # NULL => record'[s] = record[s]]_vars

\* Whoever waits for another request's transaction, or lost against it, is
\* answered.
RequestAnswered == \A r \in Requests : (req[r].phase # "idle") ~> (req[r].phase = "done")

\* The record of a key and the answer to a request as the contract sees them.
Stored == [s \in Slots |->
  IF record[s] = NULL THEN NULL
  ELSE [payload |-> record[s].fingerprint[1], job |-> record[s].job]]
Answers == [r \in Requests |-> IF req[r].phase = "done" THEN req[r].response ELSE NULL]

Contract == INSTANCE IdempotentStart WITH store <- Stored, answer <- Answers

\* A server that keeps its key implements the promise of api.md.
ImplementsContract == Contract!Spec
=============================================================================
