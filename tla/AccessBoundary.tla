---------------------------- MODULE AccessBoundary ----------------------------
(***************************************************************************)
(* What docs/product/model.md ("Onboarding And Access", "API Keys") and    *)
(* docs/architecture/api.md ("Authentication And Authority") promise, as   *)
(* decisions of one step each: an account comes with all that belongs to   *)
(* it; a request is given its authority once, by a live key or by the      *)
(* grants of its user, and it is answered within that authority, or        *)
(* refused for a reason that holds when the answer is made.                *)
(***************************************************************************)
EXTENDS Naturals

CONSTANTS SignUps, Emails, MoreWorkspaces, OwnerOf, ApiKeys, Requests, Issues, Grants, CallsOf, NULL

VARIABLES
  clock,
  member,        \* the email of each account
  organization, workspace,
  grants,        \* who was granted what
  issued,        \* what each key was issued for
  withdrawn,     \* keys that were revoked or went with their organization
  stored,        \* the connection that a request stored
  ask            \* what is asked, with which authority, and the answer

vars == <<clock, member, organization, workspace, grants, issued, withdrawn, stored, ask>>
tenancy == <<member, organization, workspace, grants, stored>>

Owner(w) == IF w \in SignUps THEN w ELSE OwnerOf[w]
Nothing == [status |-> NULL, organizations |-> {}, workspaces |-> {}]
Unasked == [stage |-> "none", call |-> NULL, at |-> 0, authority |-> {}, answer |-> Nothing]

Init ==
  /\ clock = 0
  /\ member = [s \in SignUps |-> NULL]
  /\ organization = {} /\ workspace = {} /\ grants = {}
  /\ issued = [k \in ApiKeys |-> NULL] /\ withdrawn = {}
  /\ stored = [r \in Requests |-> NULL]
  /\ ask = [r \in Requests |-> Unasked]

-----------------------------------------------------------------------------
OpenAccount(s, mail) ==
  /\ member[s] = NULL /\ \A t \in SignUps : member[t] # mail
  /\ member' = [member EXCEPT ![s] = mail]
  /\ organization' = organization \cup {s} /\ workspace' = workspace \cup {s}
  /\ grants' = grants \cup
       {[user |-> s, grant |-> [organization |-> s, workspace |-> NULL, permission |-> "write"]]}
  /\ UNCHANGED <<clock, issued, withdrawn, stored, ask>>

\* What is granted lies within one organization.
Within(grant) ==
  /\ grant.organization \in organization
  /\ grant.workspace = NULL \/ (grant.workspace \in workspace /\ Owner(grant.workspace) = grant.organization)

AddWorkspace(w) ==
  /\ w \notin workspace /\ Owner(w) \in organization
  /\ workspace' = workspace \cup {w}
  /\ UNCHANGED <<clock, member, organization, grants, issued, withdrawn, stored, ask>>

AddGrant(row) ==
  /\ member[row.user] # NULL /\ Within(row.grant)
  /\ grants' = grants \cup {row}
  /\ UNCHANGED <<clock, member, organization, workspace, issued, withdrawn, stored, ask>>

IssueKey(k, input) ==
  /\ issued[k] = NULL
  /\ member[input.creator] # NULL /\ Within(input.grant) /\ input.expiresAt > clock
  /\ issued' = [issued EXCEPT ![k] = input]
  /\ UNCHANGED <<clock, tenancy, withdrawn, ask>>

RevokeKey(k) ==
  /\ issued[k] # NULL /\ k \notin withdrawn
  /\ withdrawn' = withdrawn \cup {k}
  /\ UNCHANGED <<clock, tenancy, issued, ask>>

CloseOrganization(o) ==
  /\ o \in organization
  /\ organization' = organization \ {o}
  /\ workspace' = {w \in workspace : Owner(w) # o}
  /\ grants' = {row \in grants : row.grant.organization # o}
  /\ withdrawn' = withdrawn \cup {k \in ApiKeys : issued[k] # NULL /\ issued[k].grant.organization = o}
  /\ stored' = [r \in Requests |-> IF stored[r] # NULL /\ stored[r].organization = o THEN NULL ELSE stored[r]]
  /\ UNCHANGED <<clock, member, issued, ask>>

TimePasses == clock' = clock + 1 /\ UNCHANGED <<tenancy, issued, withdrawn, ask>>

-----------------------------------------------------------------------------
Ask(r, call) ==
  /\ ask[r].stage = "none"
  /\ ask' = [ask EXCEPT ![r].stage = "asked", ![r].call = call, ![r].at = clock]
  /\ UNCHANGED <<clock, tenancy, issued, withdrawn>>

ByKey(r) == ask[r].call.kind # "controlPlane"

\* A request with a key is judged at the time at which it came.
Live(token, at) ==
  token.genuine /\ issued[token.key] # NULL /\ token.key \notin withdrawn /\ issued[token.key].expiresAt > at

Admit(r) ==
  /\ ask[r].stage = "asked"
  /\ ByKey(r) => Live(ask[r].call.token, ask[r].at)
  /\ ask' = [ask EXCEPT ![r].stage = "admitted",
       ![r].authority = IF ByKey(r) THEN {issued[ask[r].call.token.key].grant}
                        ELSE {row.grant : row \in {g \in grants : g.user = ask[r].call.user}}]
  /\ UNCHANGED <<clock, tenancy, issued, withdrawn>>

Covers(grant, w) == Owner(w) = grant.organization /\ (grant.workspace = NULL \/ grant.workspace = w)
MayRead(r, w) == \E g \in ask[r].authority : Covers(g, w)
MayWrite(r, w) == \E g \in ask[r].authority : Covers(g, w) /\ g.permission = "write"

Answer(r, status, organizations, workspaces) ==
  ask' = [ask EXCEPT ![r].stage = "answered",
            ![r].answer = [status |-> status, organizations |-> organizations, workspaces |-> workspaces]]

\* Missing, malformed, unknown, expired and revoked keys are told one thing.
Deny(r) ==
  /\ ask[r].stage = "asked"
  /\ ByKey(r) => ~ Live(ask[r].call.token, ask[r].at)
  /\ Answer(r, "unauthorized", {}, {})
  /\ UNCHANGED <<clock, tenancy, issued, withdrawn>>

\* What the authority names and is there is shown, and nothing it does not
\* cover; between the two is what comes or goes while the list is made.
List(r) ==
  LET named(g) == IF g.workspace = NULL THEN {w \in workspace \cap SignUps : Covers(g, w)}
                                        ELSE workspace \cap {g.workspace}
      wide == {g \in ask[r].authority : g.workspace = NULL}
  IN
  /\ ask[r].stage = "admitted" /\ ask[r].call.kind \in {"workspaces", "controlPlane"}
  /\ \E organizations \in SUBSET {g.organization : g \in wide},
        workspaces \in SUBSET {w \in SignUps \cup MoreWorkspaces : MayRead(r, w)} :
       /\ \A g \in wide : g.organization \in organization => g.organization \in organizations
       /\ \A g \in ask[r].authority : named(g) \subseteq workspaces
       /\ Answer(r, "ok", organizations, workspaces)
  /\ UNCHANGED <<clock, tenancy, issued, withdrawn>>

Connect(r) ==
  LET w == ask[r].call.workspace IN
  /\ ask[r].stage = "admitted" /\ ask[r].call.kind = "connect"
  /\ w \in workspace /\ MayWrite(r, w)
  /\ stored' = [stored EXCEPT ![r] = [organization |-> Owner(w), workspace |-> w]]
  /\ Answer(r, "accepted", {}, {})
  /\ UNCHANGED <<clock, member, organization, workspace, grants, issued, withdrawn>>

\* Whether a workspace exists is not told to those who may not use it.
RefuseConnect(r) ==
  LET w == ask[r].call.workspace IN
  /\ ask[r].stage = "admitted" /\ ask[r].call.kind = "connect"
  /\ \/ w = NULL /\ Answer(r, "invalid_request", {}, {})
     \/ w \notin workspace /\ Answer(r, "error", {}, {})
     \/ (w \in workspace => ~ MayWrite(r, w)) /\ Answer(r, "not_found", {}, {})
  /\ UNCHANGED <<clock, tenancy, issued, withdrawn>>

Poll(r) ==
  LET job == ask[r].call.job IN
  /\ ask[r].stage = "admitted" /\ ask[r].call.kind = "job"
  /\ \/ /\ job # NULL /\ stored[job] # NULL /\ MayRead(r, stored[job].workspace)
        /\ Answer(r, "ok", {}, {stored[job].workspace})
     \/ /\ (job = NULL \/ stored[job] = NULL) \/ ~ MayRead(r, stored[job].workspace)
        /\ Answer(r, "not_found", {}, {})
     \/ job # NULL /\ stored[job] = NULL /\ Answer(r, "error", {}, {})
  /\ UNCHANGED <<clock, tenancy, issued, withdrawn>>

Next ==
  \/ \E s \in SignUps, mail \in Emails : OpenAccount(s, mail)
  \/ \E o \in SignUps : CloseOrganization(o)
  \/ \E w \in MoreWorkspaces : AddWorkspace(w)
  \/ \E row \in Grants : AddGrant(row)
  \/ \E k \in ApiKeys : (\E input \in Issues : IssueKey(k, input)) \/ RevokeKey(k)
  \/ \E r \in Requests :
       \/ \E call \in CallsOf[r] : Ask(r, call)
       \/ Admit(r) \/ Deny(r) \/ List(r) \/ Connect(r) \/ RefuseConnect(r) \/ Poll(r)
  \/ TimePasses

Spec == Init /\ [][Next]_vars
=============================================================================
