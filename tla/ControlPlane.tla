---------------------------- MODULE ControlPlane ----------------------------
(***************************************************************************)
(* Who may do what: sign-up (packages/auth and the trigger of migration    *)
(* 0002), API keys (api-keys.ts), grants (access.ts, control-plane.ts) and *)
(* the requests that use them, through /api/v1 (v1.ts) and /rpc.           *)
(*                                                                         *)
(* A sign-up creates at most one user, organization and workspace, so its  *)
(* name serves as the identifier of the three, and the name of a POST as   *)
(* that of its connection and job.  PostgreSQL is READ COMMITTED: rows are *)
(* seen once their transaction commits, and an insert of an email that an  *)
(* open transaction inserted waits for its end.  Each statement is a step. *)
(* DeleteOrganization and Insert* are statements of an operator, under the *)
(* constraints of schema/product.ts; the program has no endpoint for them. *)
(***************************************************************************)
EXTENDS Integers, FiniteSets

CONSTANTS
  SignUps,          \* POST /api/auth/sign-up/email
  Emails,
  SignUpInputs,     \* which sign-up may be sent with which email
  MoreWorkspaces,   \* workspaces beside the default ones
  OwnerOf,          \* the organization that each of these is for
  ApiKeys, Requests,
  Issues,           \* what issueApiKey may be asked for
  Grants,           \* what an operator may grant
  CallsOf,          \* what a request may ask for, with which credentials
  NULL,
  MaxTime,          \* bound of the clock
  MaxDeletions      \* bound: organizations that are deleted

Organizations == SignUps
Workspaces == SignUps \cup MoreWorkspaces

\* The column organization_id of a workspace, which nothing updates.
Owner(w) == IF w \in SignUps THEN w ELSE OwnerOf[w]

Permissions == {"read", "write"}

\* AccessGrant: the workspace of an organization-wide grant is NULL.
AccessGrants == [organization : Organizations, workspace : Workspaces \cup {NULL}, permission : Permissions]
GrantRows == [user : SignUps, grant : AccessGrants]
KeyInputs == [grant : AccessGrants, creator : SignUps, expiresAt : 1..MaxTime]

\* A bearer token names the key of its prefix; it is not genuine when its
\* secret is another one or its form is not that of a token.  A request whose
\* path, headers or body are not valid names no workspace, or no job.
Bearer == [key : ApiKeys, genuine : BOOLEAN]
CallInputs ==
  [kind : {"workspaces"}, token : Bearer]
    \cup [kind : {"connect"}, token : Bearer, workspace : Workspaces \cup {NULL}]
    \cup [kind : {"job"}, token : Bearer, job : Requests \cup {NULL}]
    \cup [kind : {"controlPlane"}, user : SignUps]

ASSUME ControlPlaneAssumption ==
  /\ NULL \notin SignUps \cup Emails \cup MoreWorkspaces \cup ApiKeys \cup Requests \cup CallInputs
                  \cup KeyInputs \cup {"organizations", "workspaces"}
  /\ NULL \notin 0..MaxTime
  /\ SignUps \cap MoreWorkspaces = {}
  /\ SignUpInputs \subseteq SignUps \X Emails /\ OwnerOf \in [MoreWorkspaces -> Organizations]
  /\ Issues \subseteq KeyInputs /\ Grants \subseteq GrantRows /\ CallsOf \in [Requests -> SUBSET CallInputs]
  /\ MaxTime \in Nat /\ MaxDeletions \in Nat

VARIABLES
  clock,
  signup,        \* the sign-ups under way and their outcomes
  email,         \* the email of each sign-up
  user, account, organization,   \* committed rows, by sign-up
  workspace,     \* committed workspaces
  accessGrant,   \* committed rows of access_grant
  apiKey,        \* rows of api_key and the calls of issueApiKey
  connection,    \* committed tenant_connection and job of a POST
  req,           \* the requests
  deletions      \* organizations that an operator deleted

rows == <<user, account, organization, workspace, accessGrant, connection, deletions>>
vars == <<clock, signup, email, rows, apiKey, req>>

NoKey == [state |-> "none", input |-> NULL, revokedAt |-> NULL]
NoAnswer == [status |-> NULL, organizations |-> {}, workspaces |-> {}]
Idle == [phase |-> "idle", call |-> NULL, arrived |-> 0, dead |-> FALSE, grants |-> {},
         found |-> NULL, answer |-> NoAnswer]

Init ==
  /\ clock = 0
  /\ signup = [s \in SignUps |-> "idle"]
  /\ email = [s \in SignUps |-> NULL]
  /\ user = {} /\ account = {} /\ organization = {} /\ workspace = {} /\ accessGrant = {}
  /\ apiKey = [k \in ApiKeys |-> NoKey]
  /\ connection = [r \in Requests |-> NULL]
  /\ req = [r \in Requests |-> Idle]
  /\ deletions = {}

-----------------------------------------------------------------------------
(* A name with an underscore is the definition after it as a bug would have *)
(* it.                                                                      *)
(* Sign-up                                                                  *)

SetSignUp(s, to) == signup' = [signup EXCEPT ![s] = to]

\* The name of the organization is checked before anything is written.
SignUp(s, mail, validName) ==
  /\ signup[s] = "idle"
  /\ SetSignUp(s, IF validName THEN "creating" ELSE "refused")
  /\ email' = [email EXCEPT ![s] = mail]
  /\ UNCHANGED <<clock, rows, apiKey, req>>

SameEmail(s) == {t \in SignUps : email[t] = email[s]}

\* The insert of the user, with its trigger, in a transaction still open.
InsertUser_Retries(s) ==
  /\ signup[s] = "creating"
  /\ \A t \in SameEmail(s) : signup[t] # "inserted"
  /\ SetSignUp(s, IF SameEmail(s) \cap user = {} THEN "inserted" ELSE "creating")
  /\ UNCHANGED <<clock, email, rows, apiKey, req>>
InsertUser_DirtyRead(s) ==
  /\ signup[s] = "creating"
  /\ SetSignUp(s, IF \A t \in SameEmail(s) : t \notin user /\ signup[t] # "inserted" THEN "inserted" ELSE "exists")
  /\ UNCHANGED <<clock, email, rows, apiKey, req>>
InsertUser(s) ==
  /\ signup[s] = "creating"
  /\ \A t \in SameEmail(s) : signup[t] # "inserted"
  /\ SetSignUp(s, IF SameEmail(s) \cap user = {} THEN "inserted" ELSE "exists")
  /\ UNCHANGED <<clock, email, rows, apiKey, req>>

\* create_initial_control_plane
Personal(s) == [user |-> s, grant |-> [organization |-> s, workspace |-> NULL, permission |-> "write"]]

\* The insert of the account, and the commit of all five rows.
CommitSignUp_NoTransaction(s) ==
  /\ signup[s] = "inserted"
  /\ user' = user \cup {s}
  /\ SetSignUp(s, "failed")
  /\ UNCHANGED <<clock, email, account, organization, workspace, accessGrant, connection, deletions, apiKey, req>>
CommitSignUp(s) ==
  /\ signup[s] = "inserted"
  /\ user' = user \cup {s} /\ account' = account \cup {s}
  /\ organization' = organization \cup {s}
  /\ workspace' = workspace \cup {s}
  /\ accessGrant' = accessGrant \cup {Personal(s)}
  /\ SetSignUp(s, "created")
  /\ UNCHANGED <<clock, email, connection, deletions, apiKey, req>>

\* A statement fails and the transaction rolls back.
FailSignUp(s) ==
  /\ signup[s] \in {"creating", "inserted"}
  /\ SetSignUp(s, "failed")
  /\ UNCHANGED <<clock, email, rows, apiKey, req>>

-----------------------------------------------------------------------------
(* Rows of an operator, under the constraints of the tables                 *)

BelongsTo(w, o) == w = NULL \/ (w \in workspace /\ Owner(w) = o)

InsertWorkspace(w) ==
  /\ w \notin workspace /\ Owner(w) \in organization
  /\ workspace' = workspace \cup {w}
  /\ UNCHANGED <<clock, signup, email, user, account, organization, accessGrant, connection, deletions, apiKey, req>>

InsertGrant(row) ==
  /\ row.user \in user /\ row.grant.organization \in organization
  /\ BelongsTo(row.grant.workspace, row.grant.organization)
  /\ accessGrant' = accessGrant \cup {row}
  /\ UNCHANGED <<clock, signup, email, user, account, organization, workspace, connection, deletions, apiKey, req>>

\* ON DELETE CASCADE
KeysAfter(o) ==
  [k \in ApiKeys |-> IF apiKey[k].state = "issued" /\ apiKey[k].input.grant.organization = o
                     THEN [apiKey[k] EXCEPT !.state = "deleted"] ELSE apiKey[k]]

DeleteOrganization(o) ==
  /\ o \in organization /\ Cardinality(deletions) < MaxDeletions
  /\ organization' = organization \ {o}
  /\ deletions' = deletions \cup {o}
  /\ workspace' = {w \in workspace : Owner(w) # o}
  /\ accessGrant' = {row \in accessGrant : row.grant.organization # o}
  /\ apiKey' = KeysAfter(o)
  /\ connection' = [r \in Requests |-> IF connection[r] # NULL /\ connection[r].organization = o
                                       THEN NULL ELSE connection[r]]
  /\ UNCHANGED <<clock, signup, email, user, account, req>>

-----------------------------------------------------------------------------
(* API keys                                                                 *)

SetKey(k, key) == apiKey' = [apiKey EXCEPT ![k] = key] /\ UNCHANGED <<clock, signup, email, rows, req>>

\* issueApiKey: the clock of the server, then the constraints of the table,
\* whose createdAt is the clock at the insert.
IssueApiKey(k, input) ==
  /\ apiKey[k].state = "none" /\ input.expiresAt > clock
  /\ SetKey(k, [NoKey EXCEPT !.state = "issuing", !.input = input])

Storable(input) ==
  /\ input.grant.organization \in organization /\ input.creator \in user
  /\ BelongsTo(input.grant.workspace, input.grant.organization)
  /\ input.expiresAt > clock
InsertApiKey(k) ==
  /\ apiKey[k].state = "issuing"
  /\ SetKey(k, IF Storable(apiKey[k].input) THEN [apiKey[k] EXCEPT !.state = "issued"] ELSE NoKey)

\* The first revocation counts.
RevokeApiKey(k) ==
  /\ apiKey[k].state = "issued" /\ apiKey[k].revokedAt = NULL
  /\ SetKey(k, [apiKey[k] EXCEPT !.revokedAt = clock])

\* What authenticateApiKey makes of a row, at the time it was called.
Accepts_Revoked(row, token, now) == token.genuine /\ row.state = "issued" /\ row.input.expiresAt > now
Accepts(row, token, now) ==
  token.genuine /\ row.state = "issued" /\ row.revokedAt = NULL /\ row.input.expiresAt > now

ToAccessGrant(row) == row.input.grant

-----------------------------------------------------------------------------
(* Requests                                                                 *)

\* isAuthorized; a request for an organization has no workspace.
IsAuthorized_AnyScope(grants, permission, o, w) ==
  \E g \in grants : g.organization = o /\ (g.permission = "read" => permission = "read")
IsAuthorized_ReadWrites(grants, permission, o, w) ==
  \E g \in grants : g.organization = o /\ (g.workspace # NULL => w # NULL /\ g.workspace = w)
IsAuthorized(grants, permission, o, w) ==
  \E g \in grants :
    /\ g.organization = o
    /\ g.permission = "read" => permission = "read"
    /\ g.workspace # NULL => w # NULL /\ g.workspace = w

SetReq(r, to) == req' = [req EXCEPT ![r] = to]
KeepRows == UNCHANGED <<clock, signup, email, rows, apiKey>>
Answered(r, status) == [req[r] EXCEPT !.phase = "done", !.answer.status = status]

\* A key that no request may use any more.
Dead(token) ==
  \/ ~token.genuine
  \/ apiKey[token.key].state = "deleted" \/ apiKey[token.key].revokedAt # NULL
  \/ apiKey[token.key].state = "issued" /\ apiKey[token.key].input.expiresAt <= clock

Arrive(r, call) ==
  /\ req[r].phase = "idle"
  /\ SetReq(r, [Idle EXCEPT !.phase = "authenticating", !.call = call, !.arrived = clock,
                            !.dead = call.kind # "controlPlane" /\ Dead(call.token)])
  /\ KeepRows

\* The middleware of /api/v1: now is taken before the select of the key.
Authenticate(r) ==
  /\ req[r].phase = "authenticating" /\ req[r].call.kind # "controlPlane"
  /\ LET token == req[r].call.token IN
       SetReq(r, IF Accepts(apiKey[token.key], token, req[r].arrived)
                 THEN [req[r] EXCEPT !.phase = req[r].call.kind, !.grants = {ToAccessGrant(apiKey[token.key])}]
                 ELSE Answered(r, "unauthorized"))
  /\ KeepRows

\* requireAuth: Better Auth knows of a session, or does not.
ResolveSession(r, valid) ==
  /\ req[r].phase = "authenticating" /\ req[r].call.kind = "controlPlane"
  /\ valid => req[r].call.user \in user
  /\ SetReq(r, IF valid THEN [req[r] EXCEPT !.phase = "grants"] ELSE Answered(r, "unauthorized"))
  /\ KeepRows

GetUserAccessGrants(r) ==
  /\ req[r].phase = "grants"
  /\ SetReq(r, [req[r] EXCEPT !.phase = "controlPlane",
                  !.grants = {row.grant : row \in {g \in accessGrant : g.user = req[r].call.user}}])
  /\ KeepRows

\* getAccessibleControlPlane: two selects at the same time, in either order;
\* found says which of them has been answered.
Readable(r, o, w) == IsAuthorized(req[r].grants, "read", o, w)
Listing(r) == req[r].phase \in {"workspaces", "controlPlane"}
Listed(r, part) ==
  IF req[r].found = NULL THEN [req[r] EXCEPT !.found = part]
  ELSE [req[r] EXCEPT !.phase = "done", !.found = NULL, !.answer.status = "ok"]

SelectOrganizations(r) ==
  /\ Listing(r) /\ req[r].found # "organizations"
  /\ SetReq(r, [Listed(r, "organizations") EXCEPT
       !.answer.organizations = {o \in organization : Readable(r, o, NULL)}])
  /\ KeepRows

SelectWorkspaces(r) ==
  /\ Listing(r) /\ req[r].found # "workspaces"
  /\ SetReq(r, [Listed(r, "workspaces") EXCEPT
       !.answer.workspaces = {w \in workspace : Readable(r, Owner(w), w)}])
  /\ KeepRows

\* startTenantValidation: the workspace, its organization and the authority,
\* then the insert, which the foreign keys may refuse.
FindWorkspace(r) ==
  /\ req[r].phase = "connect"
  /\ LET w == req[r].call.workspace IN
       SetReq(r, CASE w = NULL -> Answered(r, "invalid_request")
                   [] w \in workspace /\ IsAuthorized(req[r].grants, "write", Owner(w), w) ->
                        [req[r] EXCEPT !.phase = "inserting", !.found = Owner(w)]
                   [] OTHER -> Answered(r, "not_found"))
  /\ KeepRows

InsertConnection_NoForeignKey(r) ==
  /\ req[r].phase = "inserting"
  /\ connection' = [connection EXCEPT ![r] = [organization |-> req[r].found, workspace |-> req[r].call.workspace]]
  /\ SetReq(r, Answered(r, "accepted"))
  /\ UNCHANGED <<clock, signup, email, user, account, organization, workspace, accessGrant, deletions, apiKey>>
InsertConnection(r) ==
  /\ req[r].phase = "inserting"
  /\ LET row == [organization |-> req[r].found, workspace |-> req[r].call.workspace] IN
       IF BelongsTo(row.workspace, row.organization)
       THEN /\ connection' = [connection EXCEPT ![r] = row]
            /\ SetReq(r, Answered(r, "accepted"))
       ELSE SetReq(r, Answered(r, "error")) /\ UNCHANGED connection
  /\ UNCHANGED <<clock, signup, email, user, account, organization, workspace, accessGrant, deletions, apiKey>>

\* getTenantValidationJob: the job, then its connection, then the authority.
SelectJob(r) ==
  /\ req[r].phase = "job"
  /\ SetReq(r, IF req[r].call.job = NULL \/ connection[req[r].call.job] = NULL THEN Answered(r, "not_found")
               ELSE [req[r] EXCEPT !.phase = "job_found"])
  /\ KeepRows

SelectConnection(r) ==
  /\ req[r].phase = "job_found"
  /\ LET row == connection[req[r].call.job] IN
       SetReq(r, IF row = NULL THEN Answered(r, "error")
                 ELSE IF Readable(r, row.organization, row.workspace)
                 THEN [Answered(r, "ok") EXCEPT !.answer.workspaces = {row.workspace}]
                 ELSE Answered(r, "not_found"))
  /\ KeepRows

-----------------------------------------------------------------------------
TimePasses ==
  /\ clock < MaxTime
  /\ clock' = clock + 1
  /\ UNCHANGED <<signup, email, rows, apiKey, req>>

SignUpStep(s) == InsertUser(s) \/ CommitSignUp(s)
Handle(r) ==
  \/ Authenticate(r) \/ \E valid \in BOOLEAN : ResolveSession(r, valid)
  \/ GetUserAccessGrants(r) \/ SelectOrganizations(r) \/ SelectWorkspaces(r)
  \/ FindWorkspace(r) \/ InsertConnection(r) \/ SelectJob(r) \/ SelectConnection(r)

Next ==
  \/ \E input \in SignUpInputs, valid \in BOOLEAN : SignUp(input[1], input[2], valid)
  \/ \E s \in SignUps : SignUpStep(s) \/ FailSignUp(s)
  \/ \E o \in Organizations : DeleteOrganization(o)
  \/ \E w \in MoreWorkspaces : InsertWorkspace(w)
  \/ \E row \in Grants : InsertGrant(row)
  \/ \E k \in ApiKeys : (\E input \in Issues : IssueApiKey(k, input)) \/ InsertApiKey(k) \/ RevokeApiKey(k)
  \/ \E r \in Requests : (\E call \in CallsOf[r] : Arrive(r, call)) \/ Handle(r)
  \/ TimePasses

Spec == Init /\ [][Next]_vars

\* Statements end.  Nobody is obliged to sign up or to call.
FairSpec == Spec /\ \A s \in SignUps : WF_vars(SignUpStep(s)) /\ \A r \in Requests : WF_vars(Handle(r))

-----------------------------------------------------------------------------
SignUpStates == {"idle", "refused", "creating", "inserted", "exists", "failed", "created"}
KeyRows == [state : {"none", "issuing", "issued", "deleted"}, input : KeyInputs \cup {NULL},
            revokedAt : 0..MaxTime \cup {NULL}]
Answers ==
  [status : {NULL, "ok", "accepted", "unauthorized", "not_found", "invalid_request", "error"},
   organizations : SUBSET Organizations, workspaces : SUBSET Workspaces]
ReqRows ==
  [phase : {"idle", "authenticating", "grants", "workspaces", "controlPlane", "connect", "inserting",
            "job", "job_found", "done"},
   call : CallInputs \cup {NULL}, arrived : 0..MaxTime, dead : BOOLEAN, grants : SUBSET AccessGrants,
   found : Organizations \cup {NULL, "organizations", "workspaces"}, answer : Answers]
ConnectionRows == [organization : Organizations, workspace : Workspaces]

\* The values of the variables; among them, that a stored key has its input
\* and that no row of an organization that is gone is left.
TypeOK ==
  /\ clock \in 0..MaxTime
  /\ signup \in [SignUps -> SignUpStates]
  /\ email \in [SignUps -> Emails \cup {NULL}]
  /\ user \subseteq SignUps /\ account \subseteq SignUps
  /\ organization \subseteq Organizations /\ deletions \subseteq Organizations
  /\ workspace \subseteq Workspaces /\ accessGrant \subseteq GrantRows
  /\ apiKey \in [ApiKeys -> KeyRows]
  /\ \A k \in ApiKeys : (apiKey[k].state = "none") <=> (apiKey[k].input = NULL)
  /\ connection \in [Requests -> ConnectionRows \cup {NULL}]
  /\ req \in [Requests -> ReqRows]

\* Racing sign-ups with one email make one user at most, and an email is
\* refused as taken only when a user has it: a sign-up that failed leaves its
\* email free.
EmailTakenOnce ==
  /\ \A s, t \in user : email[s] = email[t] => s = t
  /\ \A s \in SignUps : signup[s] = "exists" => SameEmail(s) \cap user # {}

\* Grants, keys and connections refer to an organization that exists and to a
\* workspace of that organization, though it may be deleted while a request
\* is between its select and its insert.
RowsBelong ==
  LET Fits(o, w) == o \in organization /\ BelongsTo(w, o) IN
  /\ \A row \in accessGrant : row.user \in user /\ Fits(row.grant.organization, row.grant.workspace)
  /\ \A k \in ApiKeys :
       apiKey[k].state = "issued" => Fits(apiKey[k].input.grant.organization, apiKey[k].input.grant.workspace)
  /\ \A r \in Requests : connection[r] # NULL => Fits(connection[r].organization, connection[r].workspace)

\* What a grant covers: docs/product/model.md.
Covered(g) == IF g.workspace = NULL THEN {w \in Workspaces : Owner(w) = g.organization} ELSE {g.workspace}
Managed(g) == IF g.workspace = NULL THEN {g.organization} ELSE {}

\* The authority of a request: what its key was issued for, or the grants of
\* its user.
Authority(r) ==
  IF req[r].call.kind = "controlPlane" THEN req[r].grants ELSE {apiKey[req[r].call.token.key].input.grant}
Served(r) == req[r].phase = "done" /\ req[r].answer.status \in {"ok", "accepted"}

\* No answer shows anything outside of the boundary of its key or user.
Bounded ==
  \A r \in Requests : Served(r) =>
    /\ req[r].answer.workspaces \subseteq UNION {Covered(g) : g \in Authority(r)}
    /\ req[r].answer.organizations \subseteq UNION {Managed(g) : g \in Authority(r)}

\* A listing leaves out nothing its authority names: the organization, its
\* default workspace and the workspace of a grant are older than the grant,
\* and the selects come after it.
Complete ==
  \A r \in Requests : Served(r) /\ req[r].call.kind \in {"workspaces", "controlPlane"} =>
    \A g \in Authority(r) :
      /\ Covered(g) \cap (SignUps \cup {g.workspace}) \cap workspace \subseteq req[r].answer.workspaces
      /\ Managed(g) \cap organization \subseteq req[r].answer.organizations

\* An answer shows what its authority covers, no more and no less, although
\* it is put together from statements at different times.
AnswersExact == Bounded /\ Complete

\* A connection was asked for with a key whose write authority covers the
\* workspace the connection is in.
WriteJustified ==
  \A r \in Requests : connection[r] # NULL =>
    \E g \in Authority(r) :
      /\ g.permission = "write" /\ connection[r].organization = g.organization
      /\ connection[r].workspace \in Covered(g) \cap {req[r].call.workspace}

\* A key that was revoked, expired or deleted when a request arrived serves it
\* nothing.  The authority of a request is read once: a key revoked later
\* still serves the requests that were authenticated.
NoDeadKey == \A r \in Requests : req[r].dead /\ req[r].phase = "done" => req[r].answer.status = "unauthorized"

\* Every sign-up and every request comes to its end, whatever is deleted
\* meanwhile and however many wait for one email.
EverythingEnds ==
  /\ \A s \in SignUps : signup[s] = "creating" ~> signup[s] \in {"created", "exists", "failed"}
  /\ \A r \in Requests : req[r].phase = "authenticating" ~> req[r].phase = "done"

\* The control plane as its customers see it: an account once it is committed,
\* a key while it may be used, a request without its statements.
Member == [s \in SignUps |-> IF s \in user THEN email[s] ELSE NULL]
Issued == [k \in ApiKeys |-> IF apiKey[k].state \in {"issued", "deleted"} THEN apiKey[k].input ELSE NULL]
Withdrawn == {k \in ApiKeys : apiKey[k].state = "deleted" \/ apiKey[k].revokedAt # NULL}
Stage(phase) ==
  CASE phase = "idle" -> "none"
    [] phase \in {"authenticating", "grants"} -> "asked"
    [] phase = "done" -> "answered"
    [] OTHER -> "admitted"
AskOf(q) ==
  [stage |-> Stage(q.phase), call |-> q.call, at |-> q.arrived, authority |-> q.grants,
   answer |-> IF q.phase = "done" THEN q.answer ELSE NoAnswer]
Asked == [r \in Requests |-> AskOf(req[r])]

Boundary == INSTANCE AccessBoundary WITH
  member <- Member, grants <- accessGrant, issued <- Issued, withdrawn <- Withdrawn,
  stored <- connection, ask <- Asked

\* The statements of sign-ups, keys and requests, interleaved with the deletion
\* of organizations, keep the promises of model.md and api.md.
ImplementsBoundary == Boundary!Spec
=============================================================================
