------------------------- MODULE ControlPlane_proofs -------------------------
(* Theorems of ControlPlane, for any sign-ups, operators, keys, requests and *)
(* deletions: what a sign-up writes, what the rows refer to, who may write   *)
(* and what a dead key still gets.  The invariant has a part about the rows, *)
(* which only their own statements touch, and one for each request, which    *)
(* the steps of others keep because a key never becomes another one.         *)
EXTENDS ControlPlane, TLAPS

-----------------------------------------------------------------------------
(* The invariant of the rows. *)

RowsTyped ==
  /\ clock \in 0..MaxTime
  /\ signup \in [SignUps -> SignUpStates]
  /\ email \in [SignUps -> Emails \cup {NULL}]
  /\ user \subseteq SignUps /\ account \subseteq SignUps
  /\ organization \subseteq Organizations /\ deletions \subseteq Organizations
  /\ workspace \subseteq Workspaces /\ accessGrant \subseteq GrantRows
  /\ connection \in [Requests -> ConnectionRows \cup {NULL}]

KeysTyped ==
  /\ apiKey \in [ApiKeys -> KeyRows]
  /\ \A k \in ApiKeys : (apiKey[k].state = "none") <=> (apiKey[k].input = NULL)
  /\ \A k \in ApiKeys : apiKey[k].state \in {"none", "issuing"} => apiKey[k].revokedAt = NULL

\* An open transaction keeps others with its email away from the table.
EmailsWait ==
  \A s, t \in SignUps :
    /\ signup[s] \in {"inserted", "created"} /\ signup[t] \in {"inserted", "created"}
    /\ email[s] = email[t]
    => s = t

\* What a committed sign-up has written, all of it in the one transaction that
\* CommitSignUp is, and what stays of it when its organization is deleted.
SignUpAtomic ==
  \A s \in SignUps :
    /\ (signup[s] = "created") <=> (s \in user)
    /\ s \in user <=> s \in account
    /\ s \in user <=> s \in organization \cup deletions
    /\ s \in organization => s \in workspace /\ Personal(s) \in accessGrant

WorkspacesOwned == \A w \in workspace : Owner(w) \in organization

RowsInv ==
  /\ RowsTyped /\ KeysTyped /\ SignUpAtomic /\ EmailsWait /\ EmailTakenOnce
  /\ organization \cap deletions = {} /\ WorkspacesOwned /\ RowsBelong

-----------------------------------------------------------------------------
(* The invariant of a request. *)

KeyUsed(k) == apiKey[k].state \in {"issued", "deleted"}

\* A dead key, seen with the time at which its request arrived.
DeadAt(token, now) ==
  \/ ~ token.genuine
  \/ apiKey[token.key].state = "deleted"
  \/ KeyUsed(token.key) /\ (apiKey[token.key].revokedAt # NULL \/ apiKey[token.key].input.expiresAt <= now)

Serving == {"workspaces", "connect", "inserting", "job", "job_found"}

RequestOk(r, q) ==
  /\ q \in ReqRows
  /\ q.phase = "idle" <=> q.call = NULL
  /\ q.phase # "idle" => q.call \in CallsOf[r]
  /\ q.phase \in {"workspaces", "connect", "job"} => q.call.kind = q.phase
  /\ q.phase = "inserting" => q.call.kind = "connect"
  /\ q.phase = "job_found" => q.call.kind = "job" /\ q.call.job # NULL
  /\ q.phase \in {"grants", "controlPlane"} => q.call.kind = "controlPlane"
  /\ q.phase \in Serving => KeyUsed(q.call.token.key) /\ q.grants = {apiKey[q.call.token.key].input.grant}
  /\ q.phase = "inserting" =>
       /\ q.call.workspace \in Workspaces /\ q.found = Owner(q.call.workspace)
       /\ IsAuthorized(q.grants, "write", q.found, q.call.workspace)
  /\ q.dead =>
       /\ q.call.kind # "controlPlane" /\ q.phase \in {"authenticating", "done"}
       /\ q.phase = "authenticating" => DeadAt(q.call.token, q.arrived)
       /\ q.phase = "done" => q.answer.status = "unauthorized"

ConnectionOk(r) ==
  connection[r] # NULL =>
    /\ req[r].phase = "done" /\ req[r].call \in CallsOf[r] /\ req[r].call.kind = "connect"
    /\ KeyUsed(req[r].call.token.key)
    /\ connection[r].workspace = req[r].call.workspace /\ connection[r].workspace \in Workspaces
    /\ connection[r].organization = Owner(connection[r].workspace)
    /\ IsAuthorized({apiKey[req[r].call.token.key].input.grant}, "write",
                    connection[r].organization, connection[r].workspace)

RequestsInv ==
  /\ req \in [Requests -> ReqRows]
  /\ \A r \in Requests : RequestOk(r, req[r]) /\ ConnectionOk(r)

IInv == RowsInv /\ RequestsInv

-----------------------------------------------------------------------------
(* The rows, statement by statement. *)

LEMMA OwnersOrganizations ==
  /\ \A s \in SignUps : Owner(s) = s
  /\ \A w \in Workspaces : Owner(w) \in Organizations
BY ControlPlaneAssumption DEF Owner, Workspaces, Organizations

LEMMA SignUpKeepsRows ==
  ASSUME RowsInv, NEW s \in SignUps, NEW mail \in Emails, NEW valid \in BOOLEAN, SignUp(s, mail, valid)
  PROVE  RowsInv'
<1> USE DEF RowsInv, SignUp, SetSignUp, rows
<1>1. RowsTyped' /\ KeysTyped'
  BY DEF RowsTyped, KeysTyped, SignUpStates
<1>2. SignUpAtomic'
  BY DEF SignUpAtomic, RowsTyped, SignUpStates
<1>3. EmailsWait' /\ EmailTakenOnce'
  BY DEF EmailsWait, EmailTakenOnce, SameEmail, SignUpAtomic, RowsTyped
<1>4. WorkspacesOwned' /\ RowsBelong'
  BY DEF WorkspacesOwned, RowsBelong, BelongsTo
<1> QED BY <1>1, <1>2, <1>3, <1>4

LEMMA InsertUserKeepsRows ==
  ASSUME RowsInv, NEW s \in SignUps, InsertUser(s)
  PROVE  RowsInv'
<1> USE DEF RowsInv, InsertUser, SetSignUp, rows
<1>1. RowsTyped' /\ KeysTyped'
  BY DEF RowsTyped, KeysTyped, SignUpStates
<1>2. SignUpAtomic'
  BY DEF SignUpAtomic, RowsTyped
<1>3. EmailsWait' /\ EmailTakenOnce'
  BY DEF EmailsWait, EmailTakenOnce, SameEmail, SignUpAtomic, RowsTyped
<1>4. WorkspacesOwned' /\ RowsBelong'
  BY DEF WorkspacesOwned, RowsBelong, BelongsTo
<1> QED BY <1>1, <1>2, <1>3, <1>4

LEMMA CommitSignUpKeepsRows ==
  ASSUME RowsInv, NEW s \in SignUps, CommitSignUp(s)
  PROVE  RowsInv'
<1> USE DEF RowsInv, CommitSignUp, SetSignUp
<1>0. s \notin user /\ s \notin organization /\ s \notin deletions
  BY DEF SignUpAtomic
<1>1. RowsTyped' /\ KeysTyped'
  <2>1. Personal(s) \in GrantRows
    BY DEF Personal, GrantRows, AccessGrants, Permissions, Organizations
  <2> QED BY <2>1 DEF RowsTyped, KeysTyped, SignUpStates, Organizations, Workspaces
<1>2. SignUpAtomic'
  BY <1>0 DEF SignUpAtomic, RowsTyped
<1>3. EmailsWait'
  BY DEF EmailsWait, RowsTyped
<1>4. EmailTakenOnce'
  BY DEF EmailsWait, EmailTakenOnce, SameEmail, SignUpAtomic, RowsTyped
<1>5. WorkspacesOwned'
  BY OwnersOrganizations DEF WorkspacesOwned
<1>6. RowsBelong'
  BY DEF RowsBelong, BelongsTo, Personal
<1> QED BY <1>0, <1>1, <1>2, <1>3, <1>4, <1>5, <1>6

LEMMA FailSignUpKeepsRows ==
  ASSUME RowsInv, NEW s \in SignUps, FailSignUp(s)
  PROVE  RowsInv'
<1> USE DEF RowsInv, FailSignUp, SetSignUp, rows
<1>1. RowsTyped' /\ KeysTyped'
  BY DEF RowsTyped, KeysTyped, SignUpStates
<1>2. SignUpAtomic'
  BY DEF SignUpAtomic, RowsTyped
<1>3. EmailsWait' /\ EmailTakenOnce'
  BY DEF EmailsWait, EmailTakenOnce, SameEmail, SignUpAtomic, RowsTyped
<1>4. WorkspacesOwned' /\ RowsBelong'
  BY DEF WorkspacesOwned, RowsBelong, BelongsTo
<1> QED BY <1>1, <1>2, <1>3, <1>4

LEMMA InsertWorkspaceKeepsRows ==
  ASSUME RowsInv, NEW w \in MoreWorkspaces, InsertWorkspace(w)
  PROVE  RowsInv'
<1> USE DEF RowsInv, InsertWorkspace
<1>1. RowsTyped' /\ KeysTyped'
  BY DEF RowsTyped, KeysTyped, Workspaces
<1>2. SignUpAtomic' /\ EmailsWait' /\ EmailTakenOnce'
  BY DEF SignUpAtomic, EmailsWait, EmailTakenOnce, SameEmail
<1>3. WorkspacesOwned' /\ RowsBelong'
  BY DEF WorkspacesOwned, RowsBelong, BelongsTo
<1> QED BY <1>1, <1>2, <1>3

LEMMA InsertGrantKeepsRows ==
  ASSUME RowsInv, NEW row \in Grants, InsertGrant(row)
  PROVE  RowsInv'
<1> USE DEF RowsInv, InsertGrant
<1>1. RowsTyped' /\ KeysTyped'
  BY ControlPlaneAssumption DEF RowsTyped, KeysTyped
<1>2. SignUpAtomic' /\ EmailsWait' /\ EmailTakenOnce'
  BY DEF SignUpAtomic, EmailsWait, EmailTakenOnce, SameEmail
<1>3. WorkspacesOwned' /\ RowsBelong'
  BY DEF WorkspacesOwned, RowsBelong, BelongsTo
<1> QED BY <1>1, <1>2, <1>3

LEMMA DeleteOrganizationKeepsRows ==
  ASSUME RowsInv, NEW o \in Organizations, DeleteOrganization(o)
  PROVE  RowsInv'
<1> USE DEF RowsInv, DeleteOrganization
<1>1. RowsTyped'
  BY DEF RowsTyped
<1>2. ASSUME NEW k \in ApiKeys
      PROVE  /\ apiKey'[k] \in KeyRows /\ apiKey'[k].input = apiKey[k].input
             /\ apiKey'[k].revokedAt = apiKey[k].revokedAt
             /\ \/ apiKey'[k].state = apiKey[k].state
                \/ apiKey[k].state = "issued" /\ apiKey'[k].state = "deleted"
             /\ apiKey'[k].state = "issued" => apiKey[k].input.grant.organization # o
  BY DEF KeysAfter, KeysTyped, KeyRows
<1>3. KeysTyped'
  <2>1. apiKey' = [k \in ApiKeys |-> apiKey'[k]]
    BY DEF KeysAfter
  <2>2. apiKey' \in [ApiKeys -> KeyRows]
    BY <1>2, <2>1
  <2> QED BY <1>2, <2>2 DEF KeysTyped
<1>4. SignUpAtomic'
  BY OwnersOrganizations DEF SignUpAtomic, Personal, Organizations
<1>5. EmailsWait' /\ EmailTakenOnce' /\ WorkspacesOwned' /\ organization' \cap deletions' = {}
  BY DEF EmailsWait, EmailTakenOnce, SameEmail, WorkspacesOwned
<1>6. RowsBelong'
  BY <1>2 DEF RowsBelong, BelongsTo, RowsTyped
<1> QED BY <1>1, <1>3, <1>4, <1>5, <1>6

\* What a statement on one key leaves of the rows.
LEMMA SetKeyKeepsRows ==
  ASSUME RowsInv, NEW k \in ApiKeys, NEW key \in KeyRows, SetKey(k, key),
         key.state = "none" <=> key.input = NULL,
         key.state \in {"none", "issuing"} => key.revokedAt = NULL,
         key.state = "issued" => /\ key.input.grant.organization \in organization
                                 /\ BelongsTo(key.input.grant.workspace, key.input.grant.organization)
  PROVE  RowsInv'
<1> USE DEF RowsInv, SetKey, rows
<1>1. RowsTyped' /\ KeysTyped'
  BY DEF RowsTyped, KeysTyped
<1>2. SignUpAtomic' /\ EmailsWait' /\ EmailTakenOnce' /\ WorkspacesOwned'
  BY DEF SignUpAtomic, EmailsWait, EmailTakenOnce, SameEmail, WorkspacesOwned
<1>3. RowsBelong'
  BY DEF RowsBelong, BelongsTo, KeysTyped
<1> QED BY <1>1, <1>2, <1>3

LEMMA IssueKeepsRows ==
  ASSUME RowsInv, NEW k \in ApiKeys, NEW input \in Issues, IssueApiKey(k, input)
  PROVE  RowsInv'
<1> DEFINE key == [NoKey EXCEPT !.state = "issuing", !.input = input]
<1>1. /\ key \in KeyRows /\ SetKey(k, key) /\ key.state = "issuing" /\ key.input # NULL
      /\ key.revokedAt = NULL
  BY ControlPlaneAssumption DEF IssueApiKey, KeyRows, NoKey
<1> HIDE DEF key
<1> QED BY <1>1, SetKeyKeepsRows

LEMMA InsertKeyKeepsRows ==
  ASSUME RowsInv, NEW k \in ApiKeys, InsertApiKey(k)
  PROVE  RowsInv'
<1>1. apiKey[k] \in KeyRows /\ apiKey[k].state = "issuing" /\ apiKey[k].input # NULL
  BY DEF RowsInv, KeysTyped, InsertApiKey
<1>2. PICK key : key = IF Storable(apiKey[k].input) THEN [apiKey[k] EXCEPT !.state = "issued"] ELSE NoKey
  OBVIOUS
<1>3. CASE Storable(apiKey[k].input)
  <2>1. key \in KeyRows /\ key.state = "issued" /\ key.input = apiKey[k].input
    BY <1>1, <1>2, <1>3 DEF KeyRows
  <2> QED BY <1>1, <1>2, <1>3, <2>1, SetKeyKeepsRows DEF InsertApiKey, Storable
<1>4. CASE ~ Storable(apiKey[k].input)
  <2>1. key = NoKey /\ key \in KeyRows /\ key.state = "none" /\ key.input = NULL /\ key.revokedAt = NULL
    BY <1>2, <1>4 DEF KeyRows, NoKey
  <2> QED BY <1>2, <2>1, SetKeyKeepsRows DEF InsertApiKey
<1> QED BY <1>3, <1>4

LEMMA RevokeKeepsRows ==
  ASSUME RowsInv, NEW k \in ApiKeys, RevokeApiKey(k)
  PROVE  RowsInv'
<1>1. apiKey[k] \in KeyRows /\ apiKey[k].state = "issued" /\ apiKey[k].input # NULL /\ clock \in 0..MaxTime
  BY DEF RowsInv, RowsTyped, KeysTyped, RevokeApiKey
<1>2. PICK key : key = [apiKey[k] EXCEPT !.revokedAt = clock]
  OBVIOUS
<1>3. key \in KeyRows /\ key.state = "issued" /\ key.input = apiKey[k].input
  BY <1>1, <1>2 DEF KeyRows
<1>4. /\ key.input.grant.organization \in organization
      /\ BelongsTo(key.input.grant.workspace, key.input.grant.organization)
  BY <1>1, <1>3 DEF RowsInv, RowsBelong
<1> QED BY <1>1, <1>2, <1>3, <1>4, SetKeyKeepsRows DEF RevokeApiKey

LEMMA InsertConnectionKeepsRows ==
  ASSUME RowsInv, NEW r \in Requests, RequestOk(r, req[r]), InsertConnection(r)
  PROVE  RowsInv'
<1> DEFINE row == [organization |-> req[r].found, workspace |-> req[r].call.workspace]
<1> USE DEF RowsInv
<1>1. req[r].call.workspace \in Workspaces /\ req[r].found = Owner(req[r].call.workspace)
  BY DEF InsertConnection, RequestOk
<1>2. row \in ConnectionRows /\ row.workspace # NULL
  BY <1>1, OwnersOrganizations, ControlPlaneAssumption DEF ConnectionRows, Workspaces
<1>3. /\ UNCHANGED <<clock, signup, email, user, account, organization, workspace, accessGrant, deletions, apiKey>>
      /\ connection' = connection \/ (connection' = [connection EXCEPT ![r] = row]
                                       /\ row.workspace \in workspace /\ row.organization \in organization)
  BY <1>2 DEF InsertConnection, BelongsTo, WorkspacesOwned
<1>4. RowsTyped' /\ KeysTyped'
  BY <1>2, <1>3 DEF RowsTyped, KeysTyped
<1>5. SignUpAtomic' /\ EmailsWait' /\ EmailTakenOnce' /\ WorkspacesOwned'
  BY <1>3 DEF SignUpAtomic, EmailsWait, EmailTakenOnce, SameEmail, WorkspacesOwned
<1>6. RowsBelong'
  BY <1>1, <1>3 DEF RowsBelong, BelongsTo, RowsTyped
<1> QED BY <1>3, <1>4, <1>5, <1>6

LEMMA OthersKeepRows ==
  ASSUME RowsInv, UNCHANGED <<signup, email, rows, apiKey>>, clock' \in 0..MaxTime
  PROVE  RowsInv'
BY DEF RowsInv, rows, RowsTyped, KeysTyped, SignUpAtomic, EmailsWait, EmailTakenOnce, SameEmail,
       WorkspacesOwned, RowsBelong, BelongsTo

-----------------------------------------------------------------------------
(* The requests. *)

\* A key that was used stays the same key, dead if it was.
KeysAge ==
  \A k \in ApiKeys :
    /\ KeyUsed(k) =>
         /\ KeyUsed(k)' /\ apiKey'[k].input = apiKey[k].input
         /\ apiKey[k].revokedAt # NULL => apiKey'[k].revokedAt # NULL
         /\ apiKey[k].state = "deleted" => apiKey'[k].state = "deleted"
    /\ apiKey'[k].state = "deleted" => KeyUsed(k)

LEMMA KeysOnlyAge == RowsInv /\ Next => KeysAge
<1> SUFFICES ASSUME RowsInv, Next PROVE KeysAge
  OBVIOUS
<1> USE DEF RowsInv, KeysTyped, KeysAge, KeyUsed, KeyRows
<1>1. ASSUME UNCHANGED apiKey PROVE KeysAge
  BY <1>1
<1>2. ASSUME NEW o \in Organizations, DeleteOrganization(o) PROVE KeysAge
  BY <1>2 DEF DeleteOrganization, KeysAfter
<1>3. ASSUME NEW k \in ApiKeys, NEW input \in Issues, IssueApiKey(k, input) PROVE KeysAge
  BY <1>3 DEF IssueApiKey, SetKey
<1>4. ASSUME NEW k \in ApiKeys, InsertApiKey(k) PROVE KeysAge
  BY <1>4 DEF InsertApiKey, SetKey, NoKey
<1>5. ASSUME NEW k \in ApiKeys, RevokeApiKey(k) PROVE KeysAge
  BY <1>5, ControlPlaneAssumption DEF RevokeApiKey, SetKey
<1> QED BY <1>1, <1>2, <1>3, <1>4, <1>5
        DEF Next, SignUp, SignUpStep, InsertUser, CommitSignUp, FailSignUp, InsertWorkspace, InsertGrant,
            Arrive, Handle, Authenticate, ResolveSession, GetUserAccessGrants, SelectOrganizations,
            SelectWorkspaces, FindWorkspace, InsertConnection, SelectJob, SelectConnection, TimePasses,
            KeepRows, rows

\* The keys that requests use.
LEMMA KeysOfCalls ==
  ASSUME NEW r \in Requests, NEW call \in CallsOf[r]
  PROVE  /\ call \in CallInputs
         /\ call.kind # "controlPlane" => call.token.key \in ApiKeys
         /\ call.kind = "connect" => call.workspace \in Workspaces \cup {NULL}
         /\ call.kind = "job" => call.job \in Requests \cup {NULL}
BY ControlPlaneAssumption DEF CallInputs, Bearer

LEMMA RequestsStand ==
  ASSUME KeysAge, NEW r \in Requests, NEW q, RequestOk(r, q)
  PROVE  RequestOk(r, q)'
<1>1. q.phase # "idle" => q.call \in CallsOf[r] /\ (q.call.kind # "controlPlane" => q.call.token.key \in ApiKeys)
  BY KeysOfCalls DEF RequestOk
<1> QED BY <1>1 DEF RequestOk, KeysAge, KeyUsed, DeadAt, Serving, IsAuthorized

LEMMA ConnectionsStand ==
  ASSUME RequestsInv, KeysAge, NEW r \in Requests, req'[r] = req[r], connection'[r] \in {connection[r], NULL}
  PROVE  ConnectionOk(r)'
<1> SUFFICES ASSUME connection'[r] # NULL PROVE ConnectionOk(r)'
  BY DEF ConnectionOk
<1>1. ConnectionOk(r) /\ connection'[r] = connection[r] /\ req[r].call.token.key \in ApiKeys
  BY KeysOfCalls DEF RequestsInv, ConnectionOk
<1> QED BY <1>1 DEF ConnectionOk, KeysAge, KeyUsed, IsAuthorized

LEMMA OthersKeepRequests ==
  ASSUME RequestsInv, KeysAge, UNCHANGED req, \A r \in Requests : connection'[r] \in {connection[r], NULL}
  PROVE  RequestsInv'
<1>1. ASSUME NEW r \in Requests PROVE RequestOk(r, req[r])'
  <2>1. PICK q : q = req[r] /\ RequestOk(r, q)
    BY DEF RequestsInv
  <2>2. RequestOk(r, q)'
    BY <2>1, RequestsStand
  <2> QED BY <2>1, <2>2 DEF RequestOk, DeadAt, KeyUsed, IsAuthorized
<1> QED BY <1>1, ConnectionsStand DEF RequestsInv

\* A step of one request.
LEMMA SetReqKeepsRequests ==
  ASSUME RequestsInv, KeysAge, NEW r \in Requests, NEW to, RequestOk(r, to), SetReq(r, to),
         req[r].phase # "done", connection' = connection
  PROVE  RequestsInv'
<1>1. req' \in [Requests -> ReqRows] /\ req'[r] = to /\ \A p \in Requests \ {r} : req'[p] = req[p]
  BY DEF RequestsInv, RequestOk, SetReq
<1>2. ASSUME NEW p \in Requests PROVE RequestOk(p, req[p])'
  <2>1. PICK q : q = req'[p] /\ RequestOk(p, q)
    BY <1>1 DEF RequestsInv
  <2>2. RequestOk(p, q)'
    BY <2>1, RequestsStand
  <2> QED BY <2>1, <2>2 DEF RequestOk, DeadAt, KeyUsed, IsAuthorized
<1>3. ASSUME NEW p \in Requests PROVE ConnectionOk(p)'
  <2>1. CASE p = r
    BY <2>1 DEF RequestsInv, ConnectionOk
  <2>2. CASE p # r
    BY <1>1, <2>2, ConnectionsStand
  <2> QED BY <2>1, <2>2
<1> QED BY <1>1, <1>2, <1>3 DEF RequestsInv

-----------------------------------------------------------------------------
(* The steps of a request, one by one. *)

Steps(r) ==
  \E to : RequestOk(r, to) /\ SetReq(r, to) /\ req[r].phase # "done"

LEMMA AnsweredOk ==
  ASSUME NEW r \in Requests, RequestOk(r, req[r]), NEW status \in {"ok", "accepted", "not_found", "invalid_request", "error"},
         req[r].phase \notin {"idle", "authenticating", "done"}
  PROVE  RequestOk(r, Answered(r, status)) /\ Answered(r, status) \in ReqRows
BY DEF Answered, RequestOk, ReqRows, Answers, Serving

LEMMA ArriveSteps ==
  ASSUME RowsInv, NEW r \in Requests, NEW call \in CallsOf[r], RequestOk(r, req[r]), Arrive(r, call)
  PROVE  Steps(r)
<1> DEFINE to == [Idle EXCEPT !.phase = "authenticating", !.call = call, !.arrived = clock,
                              !.dead = call.kind # "controlPlane" /\ Dead(call.token)]
<1>1. call \in CallInputs /\ call # NULL /\ clock \in 0..MaxTime
  BY KeysOfCalls, ControlPlaneAssumption DEF RowsInv, RowsTyped
<1>2. to \in ReqRows
  BY <1>1 DEF ReqRows, Idle, NoAnswer, Answers
<1>3. ASSUME call.kind # "controlPlane", Dead(call.token) PROVE DeadAt(call.token, clock)
  <2>1. call.token.key \in ApiKeys
    BY <1>3, KeysOfCalls
  <2> QED BY <1>3, <2>1 DEF Dead, DeadAt, KeyUsed, RowsInv, KeysTyped, KeyRows
<1>4. RequestOk(r, to)
  BY <1>1, <1>2, <1>3 DEF RequestOk, Idle, Serving
<1> QED BY <1>4 DEF Steps, Arrive

LEMMA AuthenticateSteps ==
  ASSUME RowsInv, NEW r \in Requests, RequestOk(r, req[r]), Authenticate(r)
  PROVE  Steps(r)
<1> DEFINE token == req[r].call.token
           key == apiKey[token.key]
<1>1. req[r] \in ReqRows /\ token.key \in ApiKeys /\ key \in KeyRows /\ req[r].phase = "authenticating"
  BY KeysOfCalls DEF Authenticate, RequestOk, RowsInv, KeysTyped
<1>2. CASE Accepts(key, token, req[r].arrived)
  <2> DEFINE to == [req[r] EXCEPT !.phase = req[r].call.kind, !.grants = {ToAccessGrant(key)}]
  <2>1. ~ req[r].dead
    BY <1>1, <1>2, ControlPlaneAssumption DEF Accepts, DeadAt, RequestOk, KeyRows, KeyInputs, RowsInv, KeysTyped, ReqRows
  <2>2. key.state = "issued" /\ key.input.grant \in AccessGrants
    BY <1>1, <1>2 DEF Accepts, RowsInv, KeysTyped, KeyRows, KeyInputs
  <2>3. req[r].call.kind \in {"workspaces", "connect", "job"}
    BY <1>1, KeysOfCalls DEF Authenticate, CallInputs, RequestOk
  <2>4. to \in ReqRows
    BY <1>1, <2>2, <2>3 DEF ReqRows, ToAccessGrant
  <2>5. RequestOk(r, to)
    BY <1>1, <2>1, <2>2, <2>3, <2>4 DEF RequestOk, KeyUsed, Serving, ToAccessGrant, ReqRows
  <2> QED BY <1>1, <1>2, <2>5 DEF Steps, Authenticate
<1>3. CASE ~ Accepts(key, token, req[r].arrived)
  <2>1. Answered(r, "unauthorized") \in ReqRows
    BY <1>1 DEF Answered, ReqRows, Answers
  <2>2. RequestOk(r, Answered(r, "unauthorized"))
    BY <1>1, <2>1 DEF RequestOk, Answered, Serving, ReqRows, Answers
  <2> QED BY <1>1, <1>3, <2>2 DEF Steps, Authenticate
<1> QED BY <1>2, <1>3

LEMMA ResolveSessionSteps ==
  ASSUME NEW r \in Requests, NEW valid \in BOOLEAN, RequestOk(r, req[r]), ResolveSession(r, valid)
  PROVE  Steps(r)
<1>1. req[r] \in ReqRows /\ req[r].phase = "authenticating" /\ req[r].call.kind = "controlPlane"
  BY DEF RequestOk, ResolveSession
<1>2. RequestOk(r, Answered(r, "unauthorized")) /\ RequestOk(r, [req[r] EXCEPT !.phase = "grants"])
  BY <1>1 DEF RequestOk, Answered, Serving, ReqRows, Answers
<1> QED BY <1>1, <1>2 DEF Steps, ResolveSession

LEMMA GrantsSteps ==
  ASSUME RowsInv, NEW r \in Requests, RequestOk(r, req[r]), GetUserAccessGrants(r)
  PROVE  Steps(r)
<1> DEFINE found == {row.grant : row \in {g \in accessGrant : g.user = req[r].call.user}}
<1>1. req[r] \in ReqRows /\ req[r].phase = "grants" /\ found \in SUBSET AccessGrants
  BY DEF RequestOk, GetUserAccessGrants, RowsInv, RowsTyped, GrantRows
<1>2. RequestOk(r, [req[r] EXCEPT !.phase = "controlPlane", !.grants = found])
  <2> HIDE DEF found
  <2> QED BY <1>1 DEF RequestOk, Serving, ReqRows
<1> QED BY <1>1, <1>2 DEF Steps, GetUserAccessGrants

LEMMA SelectOrganizationsSteps ==
  ASSUME RowsInv, NEW r \in Requests, RequestOk(r, req[r]), SelectOrganizations(r)
  PROVE  Steps(r)
<1> DEFINE shown == {o \in organization : Readable(r, o, NULL)}
           to == [Listed(r, "organizations") EXCEPT !.answer.organizations = shown]
<1>1. req[r] \in ReqRows /\ req[r].phase \in {"workspaces", "controlPlane"} /\ ~ req[r].dead
  BY DEF RequestOk, SelectOrganizations, Listing
<1>2. shown \in SUBSET Organizations
  BY DEF RowsInv, RowsTyped
<1> HIDE DEF shown
<1>3. RequestOk(r, to)
  BY <1>1, <1>2 DEF RequestOk, Listed, Serving, ReqRows, Answers
<1> QED BY <1>1, <1>3 DEF Steps, SelectOrganizations, shown

LEMMA SelectWorkspacesSteps ==
  ASSUME RowsInv, NEW r \in Requests, RequestOk(r, req[r]), SelectWorkspaces(r)
  PROVE  Steps(r)
<1> DEFINE shown == {w \in workspace : Readable(r, Owner(w), w)}
           to == [Listed(r, "workspaces") EXCEPT !.answer.workspaces = shown]
<1>1. req[r] \in ReqRows /\ req[r].phase \in {"workspaces", "controlPlane"} /\ ~ req[r].dead
  BY DEF RequestOk, SelectWorkspaces, Listing
<1>2. shown \in SUBSET Workspaces
  BY DEF RowsInv, RowsTyped
<1> HIDE DEF shown
<1>3. RequestOk(r, to)
  BY <1>1, <1>2 DEF RequestOk, Listed, Serving, ReqRows, Answers
<1> QED BY <1>1, <1>3 DEF Steps, SelectWorkspaces, shown

LEMMA FindWorkspaceSteps ==
  ASSUME RowsInv, NEW r \in Requests, RequestOk(r, req[r]), FindWorkspace(r)
  PROVE  Steps(r)
<1> DEFINE w == req[r].call.workspace
           to == [req[r] EXCEPT !.phase = "inserting", !.found = Owner(w)]
<1>1. req[r] \in ReqRows /\ req[r].phase = "connect" /\ ~ req[r].dead
  BY DEF RequestOk, FindWorkspace
<1>2. ASSUME w \in workspace, IsAuthorized(req[r].grants, "write", Owner(w), w)
      PROVE  RequestOk(r, to)
  <2>1. w \in Workspaces /\ Owner(w) \in Organizations
    BY <1>2, OwnersOrganizations DEF RowsInv, RowsTyped
  <2>2. to \in ReqRows
    BY <1>1, <2>1 DEF ReqRows
  <2> QED BY <1>1, <1>2, <2>1, <2>2 DEF RequestOk, Serving, ReqRows
<1>3. RequestOk(r, Answered(r, "invalid_request")) /\ RequestOk(r, Answered(r, "not_found"))
  BY <1>1, AnsweredOk
<1> QED BY <1>1, <1>2, <1>3 DEF Steps, FindWorkspace

LEMMA SelectJobSteps ==
  ASSUME NEW r \in Requests, RequestOk(r, req[r]), SelectJob(r)
  PROVE  Steps(r)
<1>1. req[r] \in ReqRows /\ req[r].phase = "job" /\ ~ req[r].dead
  BY DEF RequestOk, SelectJob
<1>2. ASSUME req[r].call.job # NULL PROVE RequestOk(r, [req[r] EXCEPT !.phase = "job_found"])
  BY <1>1, <1>2 DEF RequestOk, Serving, ReqRows
<1>3. RequestOk(r, Answered(r, "not_found"))
  BY <1>1, AnsweredOk
<1> QED BY <1>1, <1>2, <1>3 DEF Steps, SelectJob

LEMMA SelectConnectionSteps ==
  ASSUME RowsInv, NEW r \in Requests, RequestOk(r, req[r]), SelectConnection(r)
  PROVE  Steps(r)
<1> DEFINE row == connection[req[r].call.job]
           to == [Answered(r, "ok") EXCEPT !.answer.workspaces = {row.workspace}]
<1>1. req[r] \in ReqRows /\ req[r].phase = "job_found" /\ ~ req[r].dead /\ row \in ConnectionRows \cup {NULL}
  BY KeysOfCalls DEF RequestOk, SelectConnection, RowsInv, RowsTyped
<1>2. RequestOk(r, Answered(r, "error")) /\ RequestOk(r, Answered(r, "not_found"))
  BY <1>1, AnsweredOk
<1>3. ASSUME row # NULL PROVE RequestOk(r, to)
  <2>1. {row.workspace} \in SUBSET Workspaces
    BY <1>1, <1>3 DEF ConnectionRows
  <2>2. to \in ReqRows
    BY <1>1, <2>1 DEF Answered, ReqRows, Answers
  <2> QED BY <1>1, <2>2 DEF RequestOk, Answered, Serving, ReqRows, Answers
<1> QED BY <1>1, <1>2, <1>3 DEF Steps, SelectConnection

\* The insert of a connection answers its request in the same statement.
LEMMA InsertConnectionKeepsRequests ==
  ASSUME IInv, KeysAge, NEW r \in Requests, InsertConnection(r)
  PROVE  RequestsInv'
<1> DEFINE w == req[r].call.workspace
           row == [organization |-> req[r].found, workspace |-> w]
<1>1. /\ RequestOk(r, req[r]) /\ req[r].phase = "inserting" /\ req[r].call \in CallsOf[r]
      /\ KeyUsed(req[r].call.token.key) /\ req[r].call.kind = "connect"
      /\ w \in Workspaces /\ req[r].found = Owner(w)
      /\ IsAuthorized({apiKey[req[r].call.token.key].input.grant}, "write", Owner(w), w)
  BY DEF IInv, RequestsInv, InsertConnection, RequestOk, Serving
<1>2. PICK status \in {"accepted", "error"} :
        /\ SetReq(r, Answered(r, status))
        /\ status = "error" => connection' = connection
        /\ status = "accepted" => connection' = [connection EXCEPT ![r] = row]
  BY DEF InsertConnection
<1>3. RequestOk(r, Answered(r, status)) /\ apiKey' = apiKey
  BY <1>1, AnsweredOk DEF InsertConnection
<1>4. CASE status = "error"
  BY <1>1, <1>2, <1>3, <1>4, SetReqKeepsRequests DEF IInv
<1>5. CASE status = "accepted"
  <2>1. req' \in [Requests -> ReqRows] /\ req'[r] = Answered(r, status) /\ \A p \in Requests \ {r} : req'[p] = req[p]
    BY <1>2, <1>3 DEF IInv, RequestsInv, RequestOk, SetReq
  <2>2. ASSUME NEW p \in Requests PROVE RequestOk(p, req[p])'
    <3>1. PICK q : q = req'[p] /\ RequestOk(p, q)
      BY <1>3, <2>1 DEF IInv, RequestsInv
    <3>2. RequestOk(p, q)'
      BY <3>1, RequestsStand
    <3> QED BY <3>1, <3>2 DEF RequestOk, DeadAt, KeyUsed, IsAuthorized
  <2>3. ASSUME NEW p \in Requests PROVE ConnectionOk(p)'
    <3>1. connection \in [Requests -> ConnectionRows \cup {NULL}]
      BY DEF IInv, RowsInv, RowsTyped
    <3>2. CASE p # r
      BY <1>2, <1>5, <2>1, <3>1, <3>2, ConnectionsStand DEF IInv
    <3>3. CASE p = r
      <4>1. connection'[r] = row /\ req'[r].phase = "done" /\ req'[r].call = req[r].call
        BY <1>1, <1>2, <1>5, <2>1, <3>1 DEF Answered, RequestOk, ReqRows
      <4> QED BY <1>1, <1>3, <3>3, <4>1 DEF ConnectionOk, KeyUsed, IsAuthorized
    <3> QED BY <3>2, <3>3
  <2> QED BY <2>1, <2>2, <2>3 DEF RequestsInv
<1> QED BY <1>4, <1>5

-----------------------------------------------------------------------------
(* The whole invariant. *)

LEMMA InitHolds == Init => IInv
<1> SUFFICES ASSUME Init PROVE IInv
  OBVIOUS
<1> USE ControlPlaneAssumption DEF Init
<1>1. RowsTyped /\ KeysTyped
  BY DEF RowsTyped, KeysTyped, SignUpStates, NoKey, KeyRows
<1>2. SignUpAtomic /\ EmailsWait /\ EmailTakenOnce /\ WorkspacesOwned /\ RowsBelong
  BY DEF SignUpAtomic, EmailsWait, EmailTakenOnce, WorkspacesOwned, RowsBelong, NoKey
<1>3. Idle \in ReqRows
  BY DEF Idle, NoAnswer, ReqRows, Answers
<1>4. \A r \in Requests : RequestOk(r, Idle)
  BY <1>3 DEF RequestOk, Idle, Serving
<1>5. \A r \in Requests : req[r] = Idle /\ RequestOk(r, req[r]) /\ ConnectionOk(r)
  BY <1>4 DEF ConnectionOk
<1> QED BY <1>1, <1>2, <1>3, <1>5 DEF IInv, RowsInv, RequestsInv

LEMMA RequestStepsHold ==
  ASSUME IInv, KeysAge, NEW r \in Requests, Steps(r), KeepRows
  PROVE  IInv'
<1>1. RowsInv'
  BY OthersKeepRows DEF IInv, KeepRows, RowsInv, RowsTyped
<1>2. connection' = connection
  BY DEF KeepRows, rows
<1> QED BY <1>1, <1>2, SetReqKeepsRequests DEF IInv, Steps

LEMMA NextHolds == IInv /\ [Next]_vars => IInv'
<1> SUFFICES ASSUME IInv, [Next]_vars PROVE IInv'
  OBVIOUS
<1>1. CASE UNCHANGED vars
  <2>1. KeysAge /\ RowsInv' /\ UNCHANGED <<req, connection>>
    BY <1>1, OthersKeepRows DEF vars, rows, KeysAge, KeyUsed, IInv, RowsInv, RowsTyped
  <2> QED BY <2>1, OthersKeepRequests DEF IInv
<1>2. CASE Next
  <2>1. KeysAge
    BY <1>2, KeysOnlyAge DEF IInv
  <2>2. ASSUME RowsInv', UNCHANGED req, \A r \in Requests : connection'[r] \in {connection[r], NULL}
        PROVE  IInv'
    BY <2>1, <2>2, OthersKeepRequests DEF IInv
  <2>3. ASSUME NEW input \in SignUpInputs, NEW valid \in BOOLEAN, SignUp(input[1], input[2], valid) PROVE IInv'
    <3>1. input[1] \in SignUps /\ input[2] \in Emails
      BY ControlPlaneAssumption
    <3> QED BY <2>2, <2>3, <3>1, SignUpKeepsRows DEF IInv, SignUp, rows
  <2>4. ASSUME NEW s \in SignUps, SignUpStep(s) \/ FailSignUp(s) PROVE IInv'
    BY <2>2, <2>4, InsertUserKeepsRows, CommitSignUpKeepsRows, FailSignUpKeepsRows
       DEF IInv, SignUpStep, InsertUser, CommitSignUp, FailSignUp, rows
  <2>5. ASSUME NEW o \in Organizations, DeleteOrganization(o) PROVE IInv'
    BY <2>2, <2>5, DeleteOrganizationKeepsRows DEF IInv, DeleteOrganization
  <2>6. ASSUME NEW w \in MoreWorkspaces, InsertWorkspace(w) PROVE IInv'
    BY <2>2, <2>6, InsertWorkspaceKeepsRows DEF IInv, InsertWorkspace
  <2>7. ASSUME NEW row \in Grants, InsertGrant(row) PROVE IInv'
    BY <2>2, <2>7, InsertGrantKeepsRows DEF IInv, InsertGrant
  <2>8. ASSUME NEW k \in ApiKeys, NEW input \in Issues, IssueApiKey(k, input) PROVE IInv'
    BY <2>2, <2>8, IssueKeepsRows DEF IInv, IssueApiKey, SetKey, rows
  <2>9. ASSUME NEW k \in ApiKeys, InsertApiKey(k) \/ RevokeApiKey(k) PROVE IInv'
    BY <2>2, <2>9, InsertKeyKeepsRows, RevokeKeepsRows DEF IInv, InsertApiKey, RevokeApiKey, SetKey, rows
  <2>10. ASSUME NEW r \in Requests, NEW call \in CallsOf[r], Arrive(r, call) PROVE IInv'
    BY <2>1, <2>10, ArriveSteps, RequestStepsHold DEF IInv, RequestsInv, Arrive
  <2>11. ASSUME NEW r \in Requests, Handle(r) PROVE IInv'
    <3>1. CASE InsertConnection(r)
      BY <2>1, <3>1, InsertConnectionKeepsRows, InsertConnectionKeepsRequests DEF IInv, RequestsInv
    <3>2. CASE Authenticate(r) \/ GetUserAccessGrants(r) \/ \E valid \in BOOLEAN : ResolveSession(r, valid)
      <4>1. Steps(r)
        BY <3>2, AuthenticateSteps, GrantsSteps, ResolveSessionSteps DEF IInv, RequestsInv
      <4> QED BY <2>1, <3>2, <4>1, RequestStepsHold DEF Authenticate, GetUserAccessGrants, ResolveSession
    <3>3. CASE SelectOrganizations(r) \/ SelectWorkspaces(r) \/ FindWorkspace(r)
      <4>1. Steps(r)
        BY <3>3, SelectOrganizationsSteps, SelectWorkspacesSteps, FindWorkspaceSteps DEF IInv, RequestsInv
      <4> QED BY <2>1, <3>3, <4>1, RequestStepsHold DEF SelectOrganizations, SelectWorkspaces, FindWorkspace
    <3>4. CASE SelectJob(r) \/ SelectConnection(r)
      <4>1. Steps(r)
        BY <3>4, SelectJobSteps, SelectConnectionSteps DEF IInv, RequestsInv
      <4> QED BY <2>1, <3>4, <4>1, RequestStepsHold DEF SelectJob, SelectConnection
    <3> QED BY <2>11, <3>1, <3>2, <3>3, <3>4 DEF Handle
  <2>12. CASE TimePasses
    <3>1. clock' \in 0..MaxTime
      BY <2>12, ControlPlaneAssumption DEF TimePasses, IInv, RowsInv, RowsTyped
    <3> QED BY <2>2, <2>12, <3>1, OthersKeepRows DEF TimePasses, IInv, rows
  <2> QED BY <1>2, <2>3, <2>4, <2>5, <2>6, <2>7, <2>8, <2>9, <2>10, <2>11, <2>12 DEF Next
<1> QED BY <1>1, <1>2

\* The invariant holds in every state.
THEOREM Invariant == Spec => []IInv
BY InitHolds, NextHolds, PTL DEF Spec

-----------------------------------------------------------------------------
\* The variables have their types.
THEOREM TypeCorrect == Spec => []TypeOK
<1>1. IInv => TypeOK
  BY DEF IInv, RowsInv, RowsTyped, KeysTyped, RequestsInv, TypeOK
<1> QED BY <1>1, Invariant, PTL

\* One user has an email, nobody is refused because of one without a user, and
\* while the transaction of a sign-up is open no other one with its email is.
THEOREM EmailsAreTakenOnce == Spec => [](EmailTakenOnce /\ EmailsWait)
<1>1. IInv => EmailTakenOnce /\ EmailsWait
  BY DEF IInv, RowsInv
<1> QED BY <1>1, Invariant, PTL

\* No grant, key or connection refers to what is gone or to another tenant's.
THEOREM RowsDoBelong == Spec => []RowsBelong
<1>1. IInv => RowsBelong
  BY DEF IInv, RowsInv
<1> QED BY <1>1, Invariant, PTL

\* Nothing is connected without the authority to write.
THEOREM WritesAreJustified == Spec => []WriteJustified
<1>1. IInv => WriteJustified
  <2> SUFFICES ASSUME IInv, NEW r \in Requests, connection[r] # NULL
               PROVE  \E g \in Authority(r) :
                        /\ g.permission = "write" /\ connection[r].organization = g.organization
                        /\ connection[r].workspace \in Covered(g) \cap {req[r].call.workspace}
    BY DEF WriteJustified
  <2>1. ConnectionOk(r)
    BY DEF IInv, RequestsInv
  <2>2. apiKey[req[r].call.token.key].input.grant \in AccessGrants
    <3>1. req[r].call.token.key \in ApiKeys /\ KeyUsed(req[r].call.token.key)
      BY <2>1, KeysOfCalls DEF ConnectionOk
    <3> QED BY <3>1 DEF KeyUsed, IInv, RowsInv, KeysTyped, KeyRows, KeyInputs
  <2> QED BY <2>1, <2>2 DEF ConnectionOk, IsAuthorized, Authority, Covered, AccessGrants, Permissions
<1> QED BY <1>1, Invariant, PTL

\* A dead key gets nothing.
THEOREM DeadKeysGetNothing == Spec => []NoDeadKey
<1>1. IInv => NoDeadKey
  BY DEF IInv, RequestsInv, RequestOk, NoDeadKey
<1> QED BY <1>1, Invariant, PTL
=============================================================================
