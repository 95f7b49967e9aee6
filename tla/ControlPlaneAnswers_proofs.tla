---------------------- MODULE ControlPlaneAnswers_proofs ----------------------
(* Every answer shows exactly what its authority covers, for any instance of *)
(* ControlPlane: grants refer to what was there before them, and what is     *)
(* gone does not come back, so that statements at different times agree.     *)
(* From that, ControlPlane implements AccessBoundary; and its sign-ups and   *)
(* requests only go forward.                                                 *)
EXTENDS ControlPlane_proofs

AuthorityOf(q) ==
  IF q.call.kind = "controlPlane" THEN q.grants ELSE {apiKey[q.call.token.key].input.grant}

\* The organization and the workspace of a grant are there or were deleted.
GrantKnown(g) ==
  /\ g.organization \in organization \cup deletions
  /\ g.workspace # NULL =>
       /\ g.workspace \in Workspaces /\ Owner(g.workspace) = g.organization
       /\ g.workspace \in workspace \/ g.organization \in deletions

ListingPhases == {"workspaces", "controlPlane"}
Shown(q, part) == q.phase = "done" \/ q.found = part

AnswerOk(q) ==
  /\ q.phase \notin ListingPhases \cup {"inserting", "done"} => q.found = NULL
  /\ q.phase \in ListingPhases => q.found \in {NULL, "organizations", "workspaces"}
  /\ q.phase \notin ListingPhases \cup {"done"} => q.answer = NoAnswer
  /\ q.phase \in ListingPhases \/ (q.phase = "done" /\ q.answer.status \in {"ok", "accepted"}) =>
       /\ q.call.kind # "controlPlane" => KeyUsed(q.call.token.key)
       /\ q.answer.workspaces \subseteq UNION {Covered(g) : g \in AuthorityOf(q)}
       /\ q.answer.organizations \subseteq UNION {Managed(g) : g \in AuthorityOf(q)}
       /\ q.call.kind \in ListingPhases => \A g \in AuthorityOf(q) :
            /\ GrantKnown(g)
            /\ Shown(q, "workspaces") =>
                 Covered(g) \cap (SignUps \cup {g.workspace}) \cap workspace \subseteq q.answer.workspaces
            /\ Shown(q, "organizations") => Managed(g) \cap organization \subseteq q.answer.organizations

KeysKnown == \A k \in ApiKeys : KeyUsed(k) => GrantKnown(apiKey[k].input.grant)
AInv == KeysKnown /\ (\A r \in Requests : AnswerOk(req[r]))

-----------------------------------------------------------------------------
(* How the rows change. *)

RowsAge ==
  /\ deletions \subseteq deletions' /\ organization \cup deletions \subseteq organization' \cup deletions'
  /\ (organization \cup deletions) \cap organization' \subseteq organization
  /\ \A w \in workspace \ workspace' : Owner(w) \in deletions'
  /\ \A w \in workspace' \ workspace :
       Owner(w) \in organization' /\ (w \in SignUps => w \notin organization \cup deletions)

LEMMA RowsOnlyAge == IInv /\ Next => RowsAge
<1> SUFFICES ASSUME IInv, Next PROVE RowsAge
  OBVIOUS
<1>1. ASSUME UNCHANGED <<organization, workspace, deletions>> PROVE RowsAge
  BY <1>1 DEF RowsAge
<1>2. ASSUME NEW s \in SignUps, CommitSignUp(s) PROVE RowsAge
  BY <1>2, OwnersOrganizations DEF RowsAge, CommitSignUp, IInv, RowsInv, SignUpAtomic
<1>3. ASSUME NEW o \in Organizations, DeleteOrganization(o) PROVE RowsAge
  BY <1>3 DEF RowsAge, DeleteOrganization
<1>4. ASSUME NEW w \in MoreWorkspaces, InsertWorkspace(w) PROVE RowsAge
  BY <1>4, ControlPlaneAssumption DEF RowsAge, InsertWorkspace
<1> QED BY <1>1, <1>2, <1>3, <1>4
        DEF Next, SignUp, SignUpStep, InsertUser, FailSignUp, InsertGrant, IssueApiKey, InsertApiKey,
            RevokeApiKey, SetKey, Arrive, Handle, Authenticate, ResolveSession, GetUserAccessGrants,
            SelectOrganizations, SelectWorkspaces, FindWorkspace, InsertConnection, SelectJob,
            SelectConnection, TimePasses, KeepRows, rows

LEMMA GrantsStayKnown ==
  ASSUME RowsInv, RowsAge, NEW g, GrantKnown(g)
  PROVE  GrantKnown(g)'
BY DEF RowsInv, RowsAge, GrantKnown

LEMMA StoredGrantKnown ==
  ASSUME NEW g, g.organization \in organization, BelongsTo(g.workspace, g.organization), RowsInv
  PROVE  GrantKnown(g)
BY DEF GrantKnown, BelongsTo, RowsInv, RowsTyped

LEMMA KeysStayKnown ==
  ASSUME IInv, RowsInv', KeysAge, RowsAge, KeysKnown
  PROVE  KeysKnown'
<1> SUFFICES ASSUME NEW k \in ApiKeys, KeyUsed(k)' PROVE GrantKnown(apiKey[k].input.grant)'
  BY DEF KeysKnown
<1>1. CASE KeyUsed(k)
  <2>1. PICK g : g = apiKey[k].input.grant /\ GrantKnown(g) /\ apiKey'[k].input.grant = g
    BY <1>1 DEF KeysKnown, KeysAge
  <2>2. GrantKnown(g)'
    BY <2>1, GrantsStayKnown DEF IInv
  <2> QED BY <2>1, <2>2 DEF GrantKnown
<1>2. CASE ~ KeyUsed(k)
  <2>1. apiKey'[k].state = "issued"
    BY <1>2 DEF KeyUsed, KeysAge
  <2> QED BY <2>1 DEF RowsInv, RowsTyped, RowsBelong, BelongsTo, GrantKnown
<1> QED BY <1>1, <1>2

\* The answer and the partial answer of a request stay exact while others go on.
LEMMA AnswersStand ==
  ASSUME IInv, RowsInv', KeysAge, RowsAge, NEW r \in Requests, NEW q, AnswerOk(q),
         q.phase # "idle" => q.call \in CallsOf[r]
  PROVE  AnswerOk(q)'
<1> DEFINE listed == q.phase \in ListingPhases \/ (q.phase = "done" /\ q.answer.status \in {"ok", "accepted"})
<1>1. ASSUME listed PROVE /\ q.call.kind # "controlPlane" => KeyUsed(q.call.token.key) /\ KeyUsed(q.call.token.key)'
                          /\ AuthorityOf(q)' = AuthorityOf(q)
  <2>1. q.call.kind # "controlPlane" => KeyUsed(q.call.token.key) /\ q.call.token.key \in ApiKeys
    BY <1>1, KeysOfCalls DEF AnswerOk, ListingPhases
  <2> QED BY <2>1 DEF KeysAge, AuthorityOf
<1>2. ASSUME listed, q.call.kind \in ListingPhases, NEW g \in AuthorityOf(q)
      PROVE  /\ GrantKnown(g)'
             /\ Shown(q, "workspaces") =>
                  Covered(g) \cap (SignUps \cup {g.workspace}) \cap workspace' \subseteq q.answer.workspaces
             /\ Shown(q, "organizations") => Managed(g) \cap organization' \subseteq q.answer.organizations
  <2>1. GrantKnown(g)
    BY <1>2 DEF AnswerOk
  <2>2. GrantKnown(g)'
    BY <2>1, GrantsStayKnown DEF IInv
  <2>3. Covered(g) \cap (SignUps \cup {g.workspace}) \cap workspace' \subseteq workspace
    <3> SUFFICES ASSUME NEW w \in Covered(g) \cap (SignUps \cup {g.workspace}), w \in workspace', w \notin workspace
                 PROVE  FALSE
      OBVIOUS
    <3>1. Owner(w) \in organization' /\ (w \in SignUps => w \notin organization \cup deletions)
      BY DEF RowsAge
    <3>2. Owner(w) = g.organization
      BY <2>1 DEF Covered, GrantKnown
    <3>3. CASE g.workspace = NULL
      <4>1. w \in SignUps /\ Owner(w) = w
        BY <3>3, OwnersOrganizations, ControlPlaneAssumption DEF Covered, Workspaces
      <4> QED BY <2>1, <3>1, <3>2, <4>1 DEF GrantKnown
    <3>4. CASE g.workspace # NULL
      <4>1. g.organization \in deletions'
        BY <2>1, <3>4 DEF Covered, GrantKnown, RowsAge
      <4> QED BY <3>1, <3>2, <4>1 DEF RowsInv
    <3> QED BY <3>3, <3>4
  <2>4. Managed(g) \cap organization' \subseteq organization
    BY <2>1 DEF Managed, GrantKnown, RowsAge
  <2> QED BY <1>2, <2>2, <2>3, <2>4 DEF AnswerOk
<1> HIDE DEF listed
<1>3. ASSUME listed PROVE AnswerOk(q)'
  <2>1. \A g \in AuthorityOf(q) : q.call.kind \in ListingPhases =>
             /\ GrantKnown(g)'
             /\ Shown(q, "workspaces") =>
                  Covered(g) \cap (SignUps \cup {g.workspace}) \cap workspace' \subseteq q.answer.workspaces
             /\ Shown(q, "organizations") => Managed(g) \cap organization' \subseteq q.answer.organizations
    BY <1>2, <1>3
  <2> QED BY <1>1, <1>3, <2>1 DEF AnswerOk, listed, Shown
<1>4. ASSUME ~ listed PROVE AnswerOk(q)'
  BY <1>4 DEF AnswerOk, listed
<1> QED BY <1>3, <1>4

-----------------------------------------------------------------------------
(* The steps of a request. *)

AnswerSteps(r) == \E to : AnswerOk(to) /\ SetReq(r, to)

LEMMA Quiet ==
  ASSUME NEW q, q.phase \notin ListingPhases \cup {"done"}, q.answer = NoAnswer,
         q.phase # "inserting" => q.found = NULL
  PROVE  AnswerOk(q)
BY DEF AnswerOk, ListingPhases

LEMMA FirstStepsAnswer ==
  ASSUME IInv, NEW r \in Requests, AnswerOk(req[r]), NEW call, Arrive(r, call)
  PROVE  AnswerSteps(r)
<1> DEFINE to == [Idle EXCEPT !.phase = "authenticating", !.call = call, !.arrived = clock,
                              !.dead = call.kind # "controlPlane" /\ Dead(call.token)]
<1>1. to.phase = "authenticating" /\ to.answer = NoAnswer /\ to.found = NULL
  BY DEF Idle
<1>2. AnswerOk(to)
  <2> HIDE DEF to
  <2> QED BY <1>1, Quiet DEF ListingPhases
<1> QED BY <1>2 DEF AnswerSteps, Arrive

LEMMA RefusalsAnswer ==
  ASSUME IInv, NEW r \in Requests, NEW status \in {"unauthorized", "not_found", "invalid_request", "error"}
  PROVE  AnswerOk(Answered(r, status))
<1>1. Answered(r, status).phase = "done" /\ Answered(r, status).answer.status = status
  BY DEF Answered, IInv, RequestsInv, ReqRows, Answers
<1> HIDE DEF Answered
<1> QED BY <1>1 DEF AnswerOk, ListingPhases

LEMMA AuthenticateAnswers ==
  ASSUME IInv, KeysKnown, NEW r \in Requests, AnswerOk(req[r]), Authenticate(r)
  PROVE  AnswerSteps(r)
<1> DEFINE token == req[r].call.token
           to == [req[r] EXCEPT !.phase = req[r].call.kind, !.grants = {ToAccessGrant(apiKey[token.key])}]
<1>1. /\ req[r] \in ReqRows /\ req[r].phase = "authenticating" /\ req[r].answer = NoAnswer
      /\ req[r].found = NULL /\ req[r].call.kind \in {"workspaces", "connect", "job"} /\ token.key \in ApiKeys
  BY KeysOfCalls DEF IInv, RequestsInv, RequestOk, AnswerOk, Authenticate, ListingPhases, CallInputs
<1>2. ASSUME Accepts(apiKey[token.key], token, req[r].arrived) PROVE AnswerOk(to)
  <2>1. to.phase = req[r].call.kind /\ to.call = req[r].call /\ to.answer = NoAnswer /\ to.found = NULL
    BY <1>1 DEF ReqRows
  <2>2. KeyUsed(token.key) /\ GrantKnown(apiKey[token.key].input.grant)
    BY <1>1, <1>2 DEF Accepts, KeyUsed, KeysKnown
  <2> HIDE DEF to
  <2>3. AuthorityOf(to) = {apiKey[token.key].input.grant}
    BY <1>1, <2>1 DEF AuthorityOf
  <2>4. /\ to.answer.workspaces = {} /\ to.answer.organizations = {}
        /\ to.phase # "done" => ~ Shown(to, "workspaces") /\ ~ Shown(to, "organizations")
    BY <2>1, ControlPlaneAssumption DEF NoAnswer, Shown
  <2>5. CASE to.phase = "workspaces"
    BY <1>1, <2>1, <2>2, <2>3, <2>4, <2>5 DEF AnswerOk, ListingPhases
  <2>6. CASE to.phase \in {"connect", "job"}
    BY <2>1, <2>6, Quiet DEF ListingPhases
  <2> QED BY <1>1, <2>1, <2>5, <2>6
<1> QED BY <1>2, RefusalsAnswer DEF AnswerSteps, Authenticate

LEMMA SessionAnswers ==
  ASSUME IInv, NEW r \in Requests, AnswerOk(req[r]), NEW valid \in BOOLEAN, ResolveSession(r, valid)
  PROVE  AnswerSteps(r)
<1> DEFINE to == [req[r] EXCEPT !.phase = "grants"]
<1>1. to.phase = "grants" /\ to.answer = NoAnswer /\ to.found = NULL
  BY DEF IInv, RequestsInv, ReqRows, AnswerOk, ResolveSession, ListingPhases
<1>2. AnswerOk(to)
  <2> HIDE DEF to
  <2> QED BY <1>1, Quiet DEF ListingPhases
<1> QED BY <1>2, RefusalsAnswer DEF AnswerSteps, ResolveSession

LEMMA GrantsAnswer ==
  ASSUME IInv, NEW r \in Requests, AnswerOk(req[r]), GetUserAccessGrants(r)
  PROVE  AnswerSteps(r)
<1> DEFINE found == {row.grant : row \in {g \in accessGrant : g.user = req[r].call.user}}
           to == [req[r] EXCEPT !.phase = "controlPlane", !.grants = found]
<1>1. /\ to.phase = "controlPlane" /\ to.answer = NoAnswer /\ to.found = NULL /\ to.grants = found
      /\ to.call.kind = "controlPlane"
  BY DEF IInv, RequestsInv, ReqRows, RequestOk, AnswerOk, GetUserAccessGrants, ListingPhases
<1>2. \A g \in found : GrantKnown(g)
  BY StoredGrantKnown DEF IInv, RowsInv, RowsBelong
<1>3. AnswerOk(to)
  <2> HIDE DEF to, found
  <2> QED BY <1>1, <1>2, ControlPlaneAssumption DEF AnswerOk, AuthorityOf, ListingPhases, NoAnswer, Shown
<1> QED BY <1>3 DEF AnswerSteps, GetUserAccessGrants

\* The two selects: what the authority covers of the rows.
LEMMA SelectedWorkspaces ==
  ASSUME RowsInv, NEW r \in Requests
  PROVE  LET shown == {w \in workspace : Readable(r, Owner(w), w)} IN
           /\ shown \subseteq UNION {Covered(g) : g \in req[r].grants}
           /\ \A g \in req[r].grants : GrantKnown(g) => Covered(g) \cap workspace \subseteq shown
BY ControlPlaneAssumption DEF RowsInv, RowsTyped, Readable, IsAuthorized, Covered, GrantKnown, Workspaces

LEMMA SelectedOrganizations ==
  ASSUME NEW r \in Requests
  PROVE  LET shown == {o \in organization : Readable(r, o, NULL)} IN
           /\ shown \subseteq UNION {Managed(g) : g \in req[r].grants}
           /\ \A g \in req[r].grants : Managed(g) \cap organization \subseteq shown
BY DEF Readable, IsAuthorized, Managed

LEMMA ListingAuthority ==
  ASSUME IInv, NEW r \in Requests, AnswerOk(req[r]), Listing(r)
  PROVE  /\ req[r] \in ReqRows /\ req[r].phase \in ListingPhases /\ req[r].call.kind = req[r].phase
         /\ AuthorityOf(req[r]) = req[r].grants
         /\ req[r].call.kind # "controlPlane" => KeyUsed(req[r].call.token.key)
         /\ \A g \in req[r].grants : GrantKnown(g)
BY DEF IInv, RequestsInv, RequestOk, AnswerOk, Listing, ListingPhases, Serving, AuthorityOf

LEMMA SelectWorkspacesAnswers ==
  ASSUME IInv, NEW r \in Requests, AnswerOk(req[r]), SelectWorkspaces(r)
  PROVE  AnswerSteps(r)
<1> DEFINE shown == {w \in workspace : Readable(r, Owner(w), w)}
           to == [Listed(r, "workspaces") EXCEPT !.answer.workspaces = shown]
<1>0. Listing(r) /\ req[r].found # "workspaces"
  BY DEF SelectWorkspaces
<1>1. /\ to.call = req[r].call /\ to.grants = req[r].grants /\ to.answer.workspaces = shown
      /\ to.answer.organizations = req[r].answer.organizations
      /\ \/ req[r].found = NULL /\ to.phase = req[r].phase /\ to.found = "workspaces"
         \/ req[r].found = "organizations" /\ to.phase = "done"
  BY <1>0, ListingAuthority DEF Listed, ReqRows, Answers, AnswerOk
<1>2. /\ shown \subseteq UNION {Covered(g) : g \in req[r].grants}
      /\ \A g \in req[r].grants : Covered(g) \cap workspace \subseteq shown
  BY <1>0, ListingAuthority, SelectedWorkspaces DEF IInv
<1>3. AnswerOk(to)
  <2> HIDE DEF to, shown
  <2>1. AuthorityOf(to) = req[r].grants
    BY <1>0, <1>1, ListingAuthority DEF AuthorityOf
  <2> QED BY <1>0, <1>1, <1>2, <2>1, ListingAuthority DEF AnswerOk, ListingPhases, Shown
<1> QED BY <1>3 DEF AnswerSteps, SelectWorkspaces

LEMMA SelectOrganizationsAnswers ==
  ASSUME IInv, NEW r \in Requests, AnswerOk(req[r]), SelectOrganizations(r)
  PROVE  AnswerSteps(r)
<1> DEFINE shown == {o \in organization : Readable(r, o, NULL)}
           to == [Listed(r, "organizations") EXCEPT !.answer.organizations = shown]
<1>0. Listing(r) /\ req[r].found # "organizations"
  BY DEF SelectOrganizations
<1>1. /\ to.call = req[r].call /\ to.grants = req[r].grants /\ to.answer.organizations = shown
      /\ to.answer.workspaces = req[r].answer.workspaces
      /\ \/ req[r].found = NULL /\ to.phase = req[r].phase /\ to.found = "organizations"
         \/ req[r].found = "workspaces" /\ to.phase = "done"
  BY <1>0, ListingAuthority DEF Listed, ReqRows, Answers, AnswerOk
<1>2. /\ shown \subseteq UNION {Managed(g) : g \in req[r].grants}
      /\ \A g \in req[r].grants : Managed(g) \cap organization \subseteq shown
  BY SelectedOrganizations
<1>3. AnswerOk(to)
  <2> HIDE DEF to, shown
  <2>1. AuthorityOf(to) = req[r].grants
    BY <1>0, <1>1, ListingAuthority DEF AuthorityOf
  <2> QED BY <1>0, <1>1, <1>2, <2>1, ListingAuthority DEF AnswerOk, ListingPhases, Shown
<1> QED BY <1>3 DEF AnswerSteps, SelectOrganizations

LEMMA FindAnswers ==
  ASSUME IInv, NEW r \in Requests, AnswerOk(req[r]), FindWorkspace(r) \/ SelectJob(r)
  PROVE  AnswerSteps(r)
<1> DEFINE to == [req[r] EXCEPT !.phase = "inserting", !.found = Owner(req[r].call.workspace)]
           too == [req[r] EXCEPT !.phase = "job_found"]
<1>1. /\ to.phase = "inserting" /\ to.answer = NoAnswer
      /\ too.phase = "job_found" /\ too.answer = NoAnswer /\ too.found = NULL
  BY DEF IInv, RequestsInv, ReqRows, AnswerOk, FindWorkspace, SelectJob, ListingPhases
<1>2. AnswerOk(to) /\ AnswerOk(too)
  <2> HIDE DEF to, too
  <2> QED BY <1>1, Quiet DEF ListingPhases
<1> QED BY <1>2, RefusalsAnswer DEF AnswerSteps, FindWorkspace, SelectJob

LEMMA InsertConnectionAnswers ==
  ASSUME IInv, NEW r \in Requests, AnswerOk(req[r]), InsertConnection(r)
  PROVE  AnswerSteps(r)
<1> DEFINE to == Answered(r, "accepted")
<1>1. /\ to.phase = "done" /\ to.call.kind = "connect" /\ KeyUsed(to.call.token.key)
      /\ to.answer.workspaces = {} /\ to.answer.organizations = {}
  BY DEF Answered, IInv, RequestsInv, RequestOk, ReqRows, Answers, Serving, AnswerOk, NoAnswer,
         InsertConnection, ListingPhases
<1>2. AnswerOk(to)
  <2> HIDE DEF to
  <2> QED BY <1>1 DEF AnswerOk, ListingPhases
<1> QED BY <1>2, RefusalsAnswer DEF AnswerSteps, InsertConnection

LEMMA SelectConnectionAnswers ==
  ASSUME IInv, NEW r \in Requests, AnswerOk(req[r]), SelectConnection(r)
  PROVE  AnswerSteps(r)
<1> DEFINE row == connection[req[r].call.job]
           to == [Answered(r, "ok") EXCEPT !.answer.workspaces = {row.workspace}]
           grant == apiKey[req[r].call.token.key].input.grant
<1>1. /\ req[r] \in ReqRows /\ req[r].call.kind = "job" /\ KeyUsed(req[r].call.token.key)
      /\ req[r].grants = {grant} /\ req[r].answer = NoAnswer
      /\ req[r].call.job \in Requests
  BY KeysOfCalls DEF IInv, RequestsInv, RequestOk, SelectConnection, AnswerOk, Serving, ListingPhases
<1>2. ASSUME row # NULL, Readable(r, row.organization, row.workspace) PROVE AnswerOk(to)
  <2>1. /\ to.phase = "done" /\ to.call = req[r].call
        /\ to.answer.workspaces = {row.workspace} /\ to.answer.organizations = {}
    <3>1. /\ Answered(r, "ok").phase = "done" /\ Answered(r, "ok").call = req[r].call
          /\ Answered(r, "ok").answer.organizations = {}
      BY <1>1 DEF Answered, ReqRows, Answers, NoAnswer
    <3>2. Answered(r, "ok") \in ReqRows
      BY AnsweredOk DEF SelectConnection, IInv, RequestsInv
    <3> HIDE DEF Answered, row
    <3> QED BY <3>1, <3>2 DEF ReqRows, Answers
  <2>2. row.workspace \in Workspaces /\ row.organization = Owner(row.workspace)
    BY <1>1, <1>2 DEF IInv, RequestsInv, ConnectionOk
  <2>3. row.workspace \in Covered(grant)
    BY <1>1, <1>2, <2>2 DEF Readable, IsAuthorized, Covered
  <2> HIDE DEF to, row, grant
  <2>4. AuthorityOf(to) = {grant}
    BY <1>1, <2>1 DEF AuthorityOf, grant
  <2> QED BY <1>1, <2>1, <2>3, <2>4 DEF AnswerOk, ListingPhases
<1> QED BY <1>2, RefusalsAnswer DEF AnswerSteps, SelectConnection

-----------------------------------------------------------------------------
LEMMA AnswersInitially == Init => AInv
<1> SUFFICES ASSUME Init PROVE AInv
  OBVIOUS
<1>1. KeysKnown
  BY DEF Init, KeysKnown, KeyUsed, NoKey
<1>2. \A r \in Requests : req[r].phase = "idle" /\ req[r].answer = NoAnswer /\ req[r].found = NULL
  BY DEF Init, Idle
<1>3. \A r \in Requests : AnswerOk(req[r])
  BY <1>2, Quiet DEF ListingPhases
<1> QED BY <1>1, <1>3 DEF AInv

LEMMA OneRequestSteps ==
  ASSUME IInv, AInv, Next, NEW r \in Requests, req'[r] # req[r]
  PROVE  AnswerSteps(r)
<1> USE DEF AInv
<1>1. ASSUME NEW p \in Requests, NEW to, SetReq(p, to) PROVE p = r
  BY <1>1 DEF SetReq, IInv, RequestsInv
<1>2. ASSUME NEW p \in Requests, NEW call \in CallsOf[p], Arrive(p, call) PROVE AnswerSteps(r)
  BY <1>1, <1>2, FirstStepsAnswer DEF Arrive
<1>3. ASSUME NEW p \in Requests, Authenticate(p) \/ \E valid \in BOOLEAN : ResolveSession(p, valid)
      PROVE  AnswerSteps(r)
  BY <1>1, <1>3, AuthenticateAnswers, SessionAnswers DEF AnswerSteps
<1>4. ASSUME NEW p \in Requests, GetUserAccessGrants(p) \/ SelectOrganizations(p) \/ SelectWorkspaces(p)
      PROVE  AnswerSteps(r)
  BY <1>1, <1>4, GrantsAnswer, SelectOrganizationsAnswers, SelectWorkspacesAnswers DEF AnswerSteps
<1>5. ASSUME NEW p \in Requests, FindWorkspace(p) \/ InsertConnection(p) \/ SelectJob(p) \/ SelectConnection(p)
      PROVE  AnswerSteps(r)
  BY <1>1, <1>5, FindAnswers, InsertConnectionAnswers, SelectConnectionAnswers DEF AnswerSteps
<1> QED BY <1>2, <1>3, <1>4, <1>5
        DEF Next, SignUp, SignUpStep, InsertUser, CommitSignUp, FailSignUp, DeleteOrganization,
            InsertWorkspace, InsertGrant, IssueApiKey, InsertApiKey, RevokeApiKey, SetKey, Handle, TimePasses

LEMMA AnswersStayExact == IInv /\ AInv /\ [Next]_vars /\ IInv' => AInv'
<1> SUFFICES ASSUME IInv, AInv, [Next]_vars, IInv' PROVE AInv'
  OBVIOUS
<1>1. CASE UNCHANGED vars
  BY <1>1 DEF vars, rows, AInv, KeysKnown, AnswerOk, AuthorityOf, Shown, GrantKnown, KeyUsed
<1>2. CASE Next
  <2>1. KeysAge /\ RowsAge /\ RowsInv'
    BY <1>2, KeysOnlyAge, RowsOnlyAge DEF IInv
  <2>2. KeysKnown'
    BY <2>1, KeysStayKnown DEF AInv
  <2>3. ASSUME NEW r \in Requests PROVE AnswerOk(req[r])'
    <3>1. PICK q : q = req'[r]
      OBVIOUS
    <3>2. AnswerOk(q)
      <4>1. CASE q = req[r]
        BY <4>1 DEF AInv
      <4>2. CASE q # req[r]
        BY <1>2, <3>1, <4>2, OneRequestSteps DEF AnswerSteps, SetReq, IInv, RequestsInv
      <4> QED BY <4>1, <4>2
    <3>3. q.phase # "idle" => q.call \in CallsOf[r]
      BY <3>1 DEF IInv, RequestsInv, RequestOk
    <3>4. AnswerOk(q)'
      BY <2>1, <3>2, <3>3, AnswersStand
    <3> QED BY <3>1, <3>4 DEF AnswerOk, AuthorityOf, Shown, GrantKnown, KeyUsed
  <2> QED BY <2>2, <2>3 DEF AInv
<1> QED BY <1>1, <1>2

\* An answer shows all that its authority covers and nothing else.
THEOREM AnswersAreExact == Spec => []AnswersExact
<1>1. Spec => [](IInv /\ AInv)
  BY InitHolds, NextHolds, AnswersInitially, AnswersStayExact, PTL DEF Spec
<1>2. IInv /\ AInv => AnswersExact
  <2> SUFFICES ASSUME IInv, AInv, NEW r \in Requests, Served(r)
               PROVE  /\ req[r].answer.workspaces \subseteq UNION {Covered(g) : g \in Authority(r)}
                      /\ req[r].answer.organizations \subseteq UNION {Managed(g) : g \in Authority(r)}
                      /\ req[r].call.kind \in {"workspaces", "controlPlane"} => \A g \in Authority(r) :
                           /\ Covered(g) \cap (SignUps \cup {g.workspace}) \cap workspace
                                \subseteq req[r].answer.workspaces
                           /\ Managed(g) \cap organization \subseteq req[r].answer.organizations
    BY DEF AnswersExact, Bounded, Complete
  <2>1. Authority(r) = AuthorityOf(req[r]) /\ AnswerOk(req[r])
    BY DEF Authority, AuthorityOf, AInv
  <2> QED BY <2>1 DEF AnswerOk, Served, Shown, ListingPhases
<1> QED BY <1>1, <1>2, PTL

-----------------------------------------------------------------------------
(* AccessBoundary, step by step: the statements of a request are nothing to   *)
(* those outside but for the one that admits it and the one that answers it.  *)

\* What sign-ups and keys were asked with, kept beside the rows.
EmailsKnown == \A s \in SignUps : signup[s] # "idle" => email[s] \in Emails
InputsKnown == \A k \in ApiKeys : apiKey[k].state # "none" => apiKey[k].input \in Issues
\* Nobody has any authority before it is admitted.
IdleAsks == \A r \in Requests : req[r].phase \in {"idle", "authenticating", "grants"} => req[r].grants = {}
BInv == IInv /\ AInv /\ EmailsKnown /\ InputsKnown /\ IdleAsks

LEMMA EmailsStayKnown == IInv /\ EmailsKnown /\ [Next]_vars => EmailsKnown'
<1> SUFFICES ASSUME IInv, EmailsKnown, [Next]_vars PROVE EmailsKnown'
  OBVIOUS
<1> USE DEF EmailsKnown, IInv, RowsInv, RowsTyped
<1>1. ASSUME UNCHANGED <<signup, email>> PROVE EmailsKnown'
  BY <1>1
<1>2. ASSUME NEW input \in SignUpInputs, NEW valid \in BOOLEAN, SignUp(input[1], input[2], valid) PROVE EmailsKnown'
  <2>1. input[1] \in SignUps /\ input[2] \in Emails
    BY ControlPlaneAssumption
  <2> QED BY <1>2, <2>1 DEF SignUp, SetSignUp
<1>3. ASSUME NEW s \in SignUps, SignUpStep(s) \/ FailSignUp(s) PROVE EmailsKnown'
  <2>1. signup[s] # "idle" /\ (\E to : SetSignUp(s, to)) /\ email' = email
    BY <1>3 DEF SignUpStep, InsertUser, CommitSignUp, FailSignUp
  <2> QED BY <2>1 DEF SetSignUp
<1> QED BY <1>1, <1>2, <1>3
        DEF Next, vars, DeleteOrganization, InsertWorkspace, InsertGrant, IssueApiKey, InsertApiKey, RevokeApiKey,
            SetKey, Arrive, Handle, Authenticate, ResolveSession, GetUserAccessGrants, SelectOrganizations,
            SelectWorkspaces, FindWorkspace, InsertConnection, SelectJob, SelectConnection, TimePasses, KeepRows

LEMMA InputsStayKnown == IInv /\ InputsKnown /\ [Next]_vars => InputsKnown'
<1> SUFFICES ASSUME IInv, InputsKnown, [Next]_vars PROVE InputsKnown'
  OBVIOUS
<1> USE DEF InputsKnown, IInv, RowsInv, KeysTyped, KeyRows
<1>1. ASSUME UNCHANGED apiKey PROVE InputsKnown'
  BY <1>1
<1>2. ASSUME NEW o \in Organizations, DeleteOrganization(o) PROVE InputsKnown'
  BY <1>2 DEF DeleteOrganization, KeysAfter
<1>3. ASSUME NEW k \in ApiKeys, NEW input \in Issues, IssueApiKey(k, input) PROVE InputsKnown'
  BY <1>3 DEF IssueApiKey, SetKey, NoKey
<1>4. ASSUME NEW k \in ApiKeys, InsertApiKey(k) PROVE InputsKnown'
  BY <1>4 DEF InsertApiKey, SetKey, NoKey
<1>5. ASSUME NEW k \in ApiKeys, RevokeApiKey(k) PROVE InputsKnown'
  BY <1>5 DEF RevokeApiKey, SetKey
<1> QED BY <1>1, <1>2, <1>3, <1>4, <1>5
        DEF Next, vars, SignUp, SignUpStep, InsertUser, CommitSignUp, FailSignUp, InsertWorkspace, InsertGrant,
            Arrive, Handle, Authenticate, ResolveSession, GetUserAccessGrants, SelectOrganizations,
            SelectWorkspaces, FindWorkspace, InsertConnection, SelectJob, SelectConnection, TimePasses, KeepRows, rows

LEMMA IdleStayIdle == IInv /\ IdleAsks /\ [Next]_vars => IdleAsks'
<1> SUFFICES ASSUME IInv, IdleAsks, [Next]_vars PROVE IdleAsks'
  OBVIOUS
<1> USE DEF IdleAsks
<1>1. ASSUME UNCHANGED req PROVE IdleAsks'
  BY <1>1
<1>2. ASSUME NEW r \in Requests, NEW to, SetReq(r, to),
             to.phase \in {"idle", "authenticating", "grants"} => to.grants = {}
      PROVE  IdleAsks'
  BY <1>2 DEF SetReq, IInv, RequestsInv
<1>3. \A r \in Requests : \A status : Answered(r, status).phase = "done"
  BY DEF Answered, IInv, RequestsInv, ReqRows
<1>4. ASSUME NEW r \in Requests, NEW call \in CallsOf[r], Arrive(r, call) PROVE IdleAsks'
  BY <1>2, <1>4 DEF Arrive, Idle
<1>5. ASSUME NEW r \in Requests, Authenticate(r) PROVE IdleAsks'
  <2> DEFINE to == [req[r] EXCEPT !.phase = req[r].call.kind, !.grants = {ToAccessGrant(apiKey[req[r].call.token.key])}]
  <2>1. req[r].call.kind \in {"workspaces", "connect", "job"}
    BY <1>5, KeysOfCalls DEF Authenticate, CallInputs, IInv, RequestsInv, RequestOk
  <2>2. to.phase = req[r].call.kind
    BY DEF IInv, RequestsInv, ReqRows
  <2>3. SetReq(r, to) \/ SetReq(r, Answered(r, "unauthorized"))
    BY <1>5 DEF Authenticate
  <2> HIDE DEF to
  <2> QED BY <1>2, <1>3, <2>1, <2>2, <2>3
<1>6. ASSUME NEW r \in Requests, NEW valid \in BOOLEAN, ResolveSession(r, valid) PROVE IdleAsks'
  <2> DEFINE to == [req[r] EXCEPT !.phase = "grants"]
  <2>1. to.grants = {}
    BY <1>6 DEF ResolveSession, IInv, RequestsInv, ReqRows
  <2>2. SetReq(r, to) \/ SetReq(r, Answered(r, "unauthorized"))
    BY <1>6 DEF ResolveSession
  <2> HIDE DEF to
  <2> QED BY <1>2, <1>3, <2>1, <2>2
<1>7. ASSUME NEW r \in Requests, NEW to, SetReq(r, to), to.phase \notin {"idle", "authenticating", "grants"} PROVE IdleAsks'
  BY <1>2, <1>7
<1>8. ASSUME NEW r \in Requests, GetUserAccessGrants(r) \/ FindWorkspace(r) \/ SelectJob(r)
      PROVE  IdleAsks'
  <2> DEFINE found == {row.grant : row \in {g \in accessGrant : g.user = req[r].call.user}}
  <2>1. req[r] \in ReqRows
    BY DEF IInv, RequestsInv
  <2>2. CASE GetUserAccessGrants(r)
    <3> DEFINE to == [req[r] EXCEPT !.phase = "controlPlane", !.grants = found]
    <3>1. to.phase = "controlPlane" /\ SetReq(r, to)
      BY <2>1, <2>2 DEF GetUserAccessGrants, ReqRows
    <3> HIDE DEF to
    <3> QED BY <1>7, <3>1
  <2>3. CASE FindWorkspace(r)
    <3> DEFINE to == [req[r] EXCEPT !.phase = "inserting", !.found = Owner(req[r].call.workspace)]
    <3>1. to.phase = "inserting"
      BY <2>1 DEF ReqRows
    <3>2. SetReq(r, to) \/ \E status : SetReq(r, Answered(r, status))
      BY <2>3 DEF FindWorkspace
    <3> HIDE DEF to
    <3> QED BY <1>3, <1>7, <3>1, <3>2
  <2>4. CASE SelectJob(r)
    <3> DEFINE to == [req[r] EXCEPT !.phase = "job_found"]
    <3>1. to.phase = "job_found"
      BY <2>1 DEF ReqRows
    <3>2. SetReq(r, to) \/ \E status : SetReq(r, Answered(r, status))
      BY <2>4 DEF SelectJob
    <3> HIDE DEF to
    <3> QED BY <1>3, <1>7, <3>1, <3>2
  <2> QED BY <1>8, <2>2, <2>3, <2>4
<1>9. ASSUME NEW r \in Requests, InsertConnection(r) PROVE IdleAsks'
  BY <1>3, <1>7, <1>9 DEF InsertConnection
<1>10. ASSUME NEW r \in Requests, SelectConnection(r) PROVE IdleAsks'
  <2> DEFINE to == [Answered(r, "ok") EXCEPT !.answer.workspaces = {connection[req[r].call.job].workspace}]
  <2>1. to.phase = "done"
    BY DEF Answered, IInv, RequestsInv, ReqRows
  <2>2. SetReq(r, to) \/ \E status : SetReq(r, Answered(r, status))
    BY <1>10 DEF SelectConnection
  <2> HIDE DEF to
  <2> QED BY <1>3, <1>7, <2>1, <2>2
<1>11. ASSUME NEW r \in Requests, SelectOrganizations(r) \/ SelectWorkspaces(r) PROVE IdleAsks'
  <2>1. req[r] \in ReqRows /\ Listing(r)
    BY <1>11 DEF SelectOrganizations, SelectWorkspaces, IInv, RequestsInv
  <2>2. PICK part, shown :
          \/ SetReq(r, [Listed(r, part) EXCEPT !.answer.organizations = shown])
          \/ SetReq(r, [Listed(r, part) EXCEPT !.answer.workspaces = shown])
    BY <1>11 DEF SelectOrganizations, SelectWorkspaces
  <2>3. /\ [Listed(r, part) EXCEPT !.answer.organizations = shown].phase \in ListingPhases \cup {"done"}
        /\ [Listed(r, part) EXCEPT !.answer.workspaces = shown].phase \in ListingPhases \cup {"done"}
    BY <2>1 DEF Listed, Listing, ListingPhases, ReqRows
  <2> QED BY <1>7, <2>2, <2>3 DEF ListingPhases
<1> QED BY <1>1, <1>4, <1>5, <1>6, <1>8, <1>9, <1>10, <1>11
        DEF Next, vars, SignUp, SignUpStep, InsertUser, CommitSignUp, FailSignUp, DeleteOrganization,
            InsertWorkspace, InsertGrant, IssueApiKey, InsertApiKey, RevokeApiKey, SetKey, Handle, TimePasses

LEMMA InvariantOfBoundary == Spec => []BInv
<1>1. Init => EmailsKnown /\ InputsKnown /\ IdleAsks
  BY DEF Init, EmailsKnown, InputsKnown, NoKey, IdleAsks, Idle
<1>2. IInv /\ AInv /\ EmailsKnown /\ InputsKnown /\ IdleAsks <=> BInv
  BY DEF BInv
<1> QED BY <1>1, <1>2, InitHolds, NextHolds, AnswersInitially, AnswersStayExact, EmailsStayKnown,
           InputsStayKnown, IdleStayIdle, PTL DEF Spec

LEMMA InitBoundary == Init => Boundary!Init
BY DEF Init, Boundary!Init, Boundary!Unasked, Boundary!Nothing, Member, Issued, Withdrawn, Asked, AskOf, Stage,
       NoKey, Idle, NoAnswer

\* What a step of one table leaves alone.
LEMMA SeenAlike ==
  /\ (\A s \in user \cup user' : s \in user /\ s \in user' /\ email'[s] = email[s]) => Member' = Member
  /\ UNCHANGED apiKey => Issued' = Issued /\ Withdrawn' = Withdrawn
  /\ UNCHANGED req => Asked' = Asked
<1>1. ASSUME \A s \in user \cup user' : s \in user /\ s \in user' /\ email'[s] = email[s] PROVE Member' = Member
  BY <1>1 DEF Member
<1> QED BY <1>1 DEF Issued, Withdrawn, Asked, AskOf

\* A sign-up is nothing to anybody until it is committed.
LEMMA SignUpUnseen ==
  ASSUME BInv, NEW s \in SignUps, (\E mail, valid : SignUp(s, mail, valid)) \/ InsertUser(s) \/ FailSignUp(s)
  PROVE  UNCHANGED Boundary!vars
<1>1. UNCHANGED <<clock, rows, apiKey, req>> /\ \A t \in user : email'[t] = email[t]
  BY DEF SignUp, InsertUser, FailSignUp, BInv, IInv, RowsInv, RowsTyped, SignUpAtomic
<1> QED BY <1>1, SeenAlike DEF Boundary!vars, rows

LEMMA CommitOpens ==
  ASSUME BInv, NEW s \in SignUps, CommitSignUp(s)
  PROVE  email[s] \in Emails /\ Boundary!OpenAccount(s, email[s])
<1> USE DEF BInv, IInv, RowsInv, RowsTyped
<1>1. signup[s] = "inserted" /\ s \notin user /\ email[s] \in Emails
  BY DEF CommitSignUp, SignUpAtomic, EmailsKnown
<1>2. Member[s] = NULL /\ \A t \in SignUps : Member[t] # email[s]
  BY <1>1, ControlPlaneAssumption DEF Member, EmailsWait, SignUpAtomic
<1>3. Member' = [Member EXCEPT ![s] = email[s]]
  BY DEF Member, CommitSignUp
<1>4. UNCHANGED <<clock, Issued, Withdrawn, connection, Asked>>
  BY SeenAlike DEF CommitSignUp
<1> QED BY <1>1, <1>2, <1>3, <1>4 DEF Boundary!OpenAccount, CommitSignUp, Personal

LEMMA BelongsWithin ==
  ASSUME NEW g
  PROVE  Boundary!Within(g) <=> g.organization \in organization /\ BelongsTo(g.workspace, g.organization)
BY DEF Boundary!Within, Boundary!Owner, BelongsTo, Owner

LEMMA OperatorsBound ==
  ASSUME BInv
  PROVE  /\ \A w \in MoreWorkspaces : InsertWorkspace(w) => Boundary!AddWorkspace(w)
         /\ \A row \in Grants : InsertGrant(row) => Boundary!AddGrant(row)
<1> USE DEF BInv, IInv, RowsInv, RowsTyped
<1>1. ASSUME NEW w \in MoreWorkspaces, InsertWorkspace(w) PROVE Boundary!AddWorkspace(w)
  BY <1>1, SeenAlike DEF InsertWorkspace, Boundary!AddWorkspace, Boundary!Owner, Owner
<1>2. ASSUME NEW row \in Grants, InsertGrant(row) PROVE Boundary!AddGrant(row)
  <2>1. row.user \in user /\ row.user \in SignUps /\ Member[row.user] # NULL
    BY <1>2, ControlPlaneAssumption DEF InsertGrant, Member, EmailsKnown, SignUpAtomic
  <2>2. Boundary!Within(row.grant)
    BY <1>2, BelongsWithin DEF InsertGrant
  <2> QED BY <1>2, <2>1, <2>2, SeenAlike DEF InsertGrant, Boundary!AddGrant
<1> QED BY <1>1, <1>2

LEMMA DeletionCloses ==
  ASSUME BInv, NEW o \in Organizations, DeleteOrganization(o)
  PROVE  Boundary!CloseOrganization(o)
<1> USE DEF BInv, IInv, RowsInv, RowsTyped, KeysTyped
<1>1. apiKey' = KeysAfter(o)
  BY DEF DeleteOrganization
<1>2. Issued' = Issued
  BY <1>1 DEF Issued, KeysAfter, KeyRows
<1>3. Withdrawn' = Withdrawn \cup {k \in ApiKeys : Issued[k] # NULL /\ Issued[k].grant.organization = o}
  <2>1. ASSUME NEW k \in ApiKeys
        PROVE  k \in Withdrawn' <=> k \in Withdrawn \/ (Issued[k] # NULL /\ Issued[k].grant.organization = o)
    <3>1. apiKey[k] \in KeyRows /\ apiKey'[k] = KeysAfter(o)[k]
          /\ (apiKey[k].state = "none" <=> apiKey[k].input = NULL)
      BY <1>1
    <3>2. CASE apiKey[k].state = "issued" /\ apiKey[k].input.grant.organization = o
      BY <3>1, <3>2 DEF Withdrawn, Issued, KeysAfter, KeyRows
    <3>3. CASE ~ (apiKey[k].state = "issued" /\ apiKey[k].input.grant.organization = o)
      <4>1. apiKey'[k] = apiKey[k]
        BY <3>1, <3>3 DEF KeysAfter
      <4> QED BY <3>1, <3>3, <4>1, ControlPlaneAssumption DEF Withdrawn, Issued
    <3> QED BY <3>2, <3>3
  <2>2. Withdrawn \subseteq ApiKeys /\ Withdrawn' \subseteq ApiKeys
    BY DEF Withdrawn
  <2> QED BY <2>1, <2>2
<1>4. Member' = Member /\ Asked' = Asked
  BY SeenAlike DEF DeleteOrganization
<1> QED BY <1>2, <1>3, <1>4 DEF Boundary!CloseOrganization, Boundary!Owner, Owner, DeleteOrganization

LEMMA KeysBound ==
  ASSUME BInv, NEW k \in ApiKeys
  PROVE  /\ \A input \in Issues : IssueApiKey(k, input) => UNCHANGED Boundary!vars
         /\ InsertApiKey(k) => UNCHANGED Boundary!vars \/ \E input \in Issues : Boundary!IssueKey(k, input)
         /\ RevokeApiKey(k) => Boundary!RevokeKey(k)
<1> USE DEF BInv, IInv, RowsInv, RowsTyped, KeysTyped
<1>0. apiKey[k] \in KeyRows
  OBVIOUS
<1>1. ASSUME NEW key, SetKey(k, key)
      PROVE  /\ UNCHANGED <<clock, Member, organization, workspace, accessGrant, connection, Asked>>
             /\ Issued' = [Issued EXCEPT ![k] = IF key.state \in {"issued", "deleted"} THEN key.input ELSE NULL]
             /\ Withdrawn' = (Withdrawn \ {k}) \cup
                               (IF key.state = "deleted" \/ key.revokedAt # NULL THEN {k} ELSE {})
  <2>1. apiKey'[k] = key /\ \A l \in ApiKeys \ {k} : apiKey'[l] = apiKey[l]
    BY <1>1 DEF SetKey
  <2>2. UNCHANGED <<Member, Asked>>
    BY <1>1, SeenAlike DEF SetKey, rows
  <2> QED BY <1>1, <2>1, <2>2 DEF SetKey, rows, Issued, Withdrawn
<1>2. ASSUME NEW key, SetKey(k, key), apiKey[k].state \in {"none", "issuing"},
             key.state \in {"none", "issuing"}, key.revokedAt = NULL
      PROVE  UNCHANGED Boundary!vars
  <2>1. Issued[k] = NULL /\ k \notin Withdrawn
    BY <1>2 DEF Issued, Withdrawn
  <2>2. Issued' = [Issued EXCEPT ![k] = Issued[k]] /\ Withdrawn' = Withdrawn
    BY <1>1, <1>2, <2>1
  <2>3. Issued' = Issued
    BY <2>2 DEF Issued
  <2> QED BY <1>1, <1>2, <2>2, <2>3 DEF Boundary!vars
<1>3. ASSUME NEW input \in Issues, IssueApiKey(k, input) PROVE UNCHANGED Boundary!vars
  BY <1>2, <1>3 DEF IssueApiKey, NoKey
<1>4. ASSUME InsertApiKey(k) PROVE UNCHANGED Boundary!vars \/ \E input \in Issues : Boundary!IssueKey(k, input)
  <2> DEFINE input == apiKey[k].input
  <2>1. apiKey[k].state = "issuing" /\ input \in Issues /\ apiKey[k].revokedAt = NULL
    BY <1>4 DEF InsertApiKey, InputsKnown
  <2>2. CASE ~ Storable(input)
    BY <1>2, <1>4, <2>1, <2>2 DEF InsertApiKey, NoKey
  <2>3. CASE Storable(input)
    <3> DEFINE key == [apiKey[k] EXCEPT !.state = "issued"]
    <3>1. SetKey(k, key)
      BY <1>4, <2>3 DEF InsertApiKey
    <3>2. key.state = "issued" /\ key.input = input /\ key.revokedAt = NULL
      BY <1>0, <2>1 DEF KeyRows
    <3> HIDE DEF key
    <3>3. Issued' = [Issued EXCEPT ![k] = input] /\ Withdrawn' = Withdrawn /\ Issued[k] = NULL
      BY <1>1, <2>1, <3>1, <3>2 DEF Issued, Withdrawn
    <3>4. Member[input.creator] # NULL
      <4>1. input.creator \in user /\ input.creator \in SignUps
        BY <2>3 DEF Storable
      <4> QED BY <4>1, ControlPlaneAssumption DEF Member, EmailsKnown, SignUpAtomic
    <3>5. Boundary!Within(input.grant) /\ input.expiresAt > clock
      BY <2>3, BelongsWithin DEF Storable
    <3>6. UNCHANGED <<clock, Member, organization, workspace, accessGrant, connection, Asked>>
      BY <1>1, <3>1
    <3> QED BY <2>1, <3>3, <3>4, <3>5, <3>6 DEF Boundary!IssueKey, Boundary!tenancy
  <2> QED BY <2>2, <2>3
<1>5. ASSUME RevokeApiKey(k) PROVE Boundary!RevokeKey(k)
  <2> DEFINE key == [apiKey[k] EXCEPT !.revokedAt = clock]
  <2>1. SetKey(k, key) /\ apiKey[k].state = "issued" /\ apiKey[k].revokedAt = NULL
    BY <1>5 DEF RevokeApiKey
  <2>2. key.state = "issued" /\ key.input = apiKey[k].input /\ key.revokedAt = clock
    BY <1>0, <2>1 DEF KeyRows
  <2> HIDE DEF key
  <2>3. clock # NULL
    BY ControlPlaneAssumption
  <2>4. Issued[k] = apiKey[k].input /\ Issued[k] # NULL /\ k \notin Withdrawn
    BY <1>0, <2>1 DEF Issued, Withdrawn
  <2>5. Issued' = [Issued EXCEPT ![k] = Issued[k]] /\ Withdrawn' = Withdrawn \cup {k}
    BY <1>1, <2>1, <2>2, <2>3, <2>4
  <2>7. Issued' = Issued
    BY <2>5 DEF Issued
  <2>6. UNCHANGED <<clock, Member, organization, workspace, accessGrant, connection, Asked>>
    BY <1>1, <2>1
  <2> QED BY <2>4, <2>5, <2>6, <2>7 DEF Boundary!RevokeKey, Boundary!tenancy
<1> QED BY <1>3, <1>4, <1>5

\* A step of a request, as it is seen.
LEMMA RequestSeen ==
  ASSUME BInv, NEW r \in Requests, NEW to, SetReq(r, to)
  PROVE  /\ Asked' = [Asked EXCEPT ![r] = AskOf(to)] /\ Asked[r] = AskOf(req[r])
         /\ KeepRows => UNCHANGED <<clock, Boundary!tenancy, Issued, Withdrawn>>
<1>1. req' = [req EXCEPT ![r] = to] /\ req \in [Requests -> ReqRows]
  BY DEF SetReq, BInv, IInv, RequestsInv
<1>2. \A p \in Requests \ {r} : req'[p] = req[p]
  BY <1>1
<1>3. Asked' = [p \in Requests |-> AskOf(req'[p])]
  BY DEF Asked, AskOf
<1>4. Asked' = [Asked EXCEPT ![r] = AskOf(to)]
  BY <1>1, <1>2, <1>3 DEF Asked
<1>5. ASSUME KeepRows PROVE UNCHANGED <<clock, Boundary!tenancy, Issued, Withdrawn>>
  BY <1>5, SeenAlike DEF KeepRows, rows, Boundary!tenancy
<1> QED BY <1>4, <1>5 DEF Asked

LEMMA AnswerSeen ==
  ASSUME BInv, NEW r \in Requests, NEW to, SetReq(r, to), to.phase = "done",
         to.call = req[r].call, to.arrived = req[r].arrived, to.grants = req[r].grants,
         NEW status, NEW organizations, NEW workspaces,
         to.answer = [status |-> status, organizations |-> organizations, workspaces |-> workspaces]
  PROVE  Boundary!Answer(r, status, organizations, workspaces)
<1>1. Asked' = [Asked EXCEPT ![r] = AskOf(to)] /\ Asked[r] = AskOf(req[r])
  BY RequestSeen
<1>2. AskOf(to) = [stage |-> "answered", call |-> req[r].call, at |-> req[r].arrived, authority |-> req[r].grants,
                   answer |-> to.answer]
  BY DEF AskOf, Stage
<1>3. AskOf(to) = [AskOf(req[r]) EXCEPT !.stage = "answered", !.answer = to.answer]
  <2>1. PICK stage, answer :
          AskOf(req[r]) = [stage |-> stage, call |-> req[r].call, at |-> req[r].arrived, authority |-> req[r].grants,
                           answer |-> answer]
    BY DEF AskOf
  <2> DEFINE half == [AskOf(req[r]) EXCEPT !.stage = "answered"]
  <2>2. half = [stage |-> "answered", call |-> req[r].call, at |-> req[r].arrived, authority |-> req[r].grants,
                answer |-> answer]
    BY <2>1
  <2> HIDE DEF half
  <2>3. AskOf(to) = [half EXCEPT !.answer = to.answer]
    BY <1>2, <2>2
  <2> QED BY <2>3 DEF half
<1> HIDE DEF AskOf
<1>4. [Asked EXCEPT ![r] = AskOf(to)] = [Asked EXCEPT ![r].stage = "answered", ![r].answer = to.answer]
  BY <1>1, <1>3 DEF Asked
<1> QED BY <1>1, <1>4 DEF Boundary!Answer

\* A refusal, or the answer of a request with nothing to show.
LEMMA RefusalSeen ==
  ASSUME BInv, NEW r \in Requests, req[r].phase # "done", req[r].phase \notin ListingPhases,
         NEW status \in {"accepted", "unauthorized", "not_found", "invalid_request", "error"},
         SetReq(r, Answered(r, status))
  PROVE  Boundary!Answer(r, status, {}, {})
<1> DEFINE to == Answered(r, status)
<1>1. req[r] \in ReqRows /\ req[r].answer = NoAnswer
  BY DEF BInv, IInv, RequestsInv, AInv, AnswerOk
<1>2. /\ to.phase = "done" /\ to.call = req[r].call /\ to.arrived = req[r].arrived /\ to.grants = req[r].grants
      /\ to.answer = [status |-> status, organizations |-> {}, workspaces |-> {}]
  BY <1>1 DEF Answered, ReqRows, NoAnswer
<1> HIDE DEF to
<1> QED BY <1>2, AnswerSeen DEF to

LEMMA ArrivalAsks ==
  ASSUME BInv, NEW r \in Requests, NEW call \in CallsOf[r], Arrive(r, call)
  PROVE  Boundary!Ask(r, call)
<1> DEFINE to == [Idle EXCEPT !.phase = "authenticating", !.call = call, !.arrived = clock,
                            !.dead = call.kind # "controlPlane" /\ Dead(call.token)]
<1>1. SetReq(r, to) /\ KeepRows /\ req[r].phase = "idle"
  BY DEF Arrive
<1>2. AskOf(to) = [stage |-> "asked", call |-> call, at |-> clock, authority |-> {}, answer |-> NoAnswer]
  BY DEF AskOf, Stage, Idle
<1>3. req[r].grants = {} /\ req[r].answer = NoAnswer
  BY <1>1 DEF BInv, IdleAsks, AInv, AnswerOk, ListingPhases
<1>4. Asked[r] = [stage |-> "none", call |-> req[r].call, at |-> req[r].arrived, authority |-> {}, answer |-> NoAnswer]
  BY <1>1, <1>3 DEF Asked, AskOf, Stage
<1>5. Asked' = [Asked EXCEPT ![r] = AskOf(to)] /\ UNCHANGED <<clock, Boundary!tenancy, Issued, Withdrawn>>
  BY <1>1, RequestSeen
<1> HIDE DEF to, AskOf
<1>6. AskOf(to) = [[[Asked[r] EXCEPT !.stage = "asked"] EXCEPT !.call = call] EXCEPT !.at = clock]
  <2> DEFINE asked == [Asked[r] EXCEPT !.stage = "asked"]
             called == [asked EXCEPT !.call = call]
  <2>1. asked = [stage |-> "asked", call |-> req[r].call, at |-> req[r].arrived, authority |-> {}, answer |-> NoAnswer]
    BY <1>4
  <2> HIDE DEF asked
  <2>2. called = [stage |-> "asked", call |-> call, at |-> req[r].arrived, authority |-> {}, answer |-> NoAnswer]
    BY <2>1
  <2> HIDE DEF called
  <2>3. AskOf(to) = [called EXCEPT !.at = clock]
    BY <1>2, <2>2
  <2> QED BY <2>3 DEF asked, called
<1>7. [Asked EXCEPT ![r] = AskOf(to)]
        = [Asked EXCEPT ![r].stage = "asked", ![r].call = call, ![r].at = clock]
  BY <1>6 DEF Asked
<1> QED BY <1>4, <1>5, <1>7 DEF Boundary!Ask

\* Why a token is accepted, or not, is the same for both.
LEMMA TokensAgree ==
  ASSUME BInv, NEW token, token.key \in ApiKeys, NEW now
  PROVE  /\ Boundary!Live(token, now) <=> Accepts(apiKey[token.key], token, now)
         /\ Accepts(apiKey[token.key], token, now) => Issued[token.key] = apiKey[token.key].input
<1> USE DEF BInv, IInv, RowsInv, KeysTyped
<1> DEFINE row == apiKey[token.key]
<1>1. row \in KeyRows /\ (row.state = "none" <=> row.input = NULL)
  OBVIOUS
<1>2. Issued[token.key] = IF row.state \in {"issued", "deleted"} THEN row.input ELSE NULL
  BY DEF Issued
<1>3. token.key \notin Withdrawn <=> row.state # "deleted" /\ row.revokedAt = NULL
  BY DEF Withdrawn
<1> HIDE DEF row
<1> QED BY <1>1, <1>2, <1>3 DEF Boundary!Live, Accepts, KeyRows, row

LEMMA AdmissionSeen ==
  ASSUME BInv, NEW r \in Requests, NEW to, SetReq(r, to), req[r].phase \in {"authenticating", "grants"},
         Stage(to.phase) = "admitted", to.phase # "done", to.call = req[r].call, to.arrived = req[r].arrived
  PROVE  Asked' = [Asked EXCEPT ![r].stage = "admitted", ![r].authority = to.grants]
<1>1. Asked' = [Asked EXCEPT ![r] = AskOf(to)] /\ Asked[r] = AskOf(req[r])
  BY RequestSeen
<1>2. AskOf(to) = [stage |-> "admitted", call |-> req[r].call, at |-> req[r].arrived, authority |-> to.grants,
                   answer |-> NoAnswer]
  BY DEF AskOf
<1>3. Asked[r] = [stage |-> "asked", call |-> req[r].call, at |-> req[r].arrived, authority |-> req[r].grants,
                  answer |-> NoAnswer]
  BY <1>1 DEF AskOf, Stage
<1>4. AskOf(to) = [Asked[r] EXCEPT !.stage = "admitted", !.authority = to.grants]
  <2> DEFINE half == [Asked[r] EXCEPT !.stage = "admitted"]
  <2>1. half = [stage |-> "admitted", call |-> req[r].call, at |-> req[r].arrived, authority |-> req[r].grants,
                answer |-> NoAnswer]
    BY <1>3
  <2> HIDE DEF half
  <2>2. AskOf(to) = [half EXCEPT !.authority = to.grants]
    BY <1>2, <2>1
  <2> QED BY <2>2 DEF half
<1>5. [Asked EXCEPT ![r] = AskOf(to)] = [Asked EXCEPT ![r].stage = "admitted", ![r].authority = to.grants]
  BY <1>4 DEF Asked
<1> QED BY <1>1, <1>5

\* How a request stands before its step, as both see it.
LEMMA AskedStands ==
  ASSUME BInv, NEW r \in Requests
  PROVE  /\ Asked[r].stage = Stage(req[r].phase) /\ Asked[r].call = req[r].call /\ Asked[r].at = req[r].arrived
         /\ Asked[r].authority = req[r].grants
         /\ Boundary!ByKey(r) <=> req[r].call.kind # "controlPlane"
         /\ req[r] \in ReqRows
         /\ req[r].phase # "idle" => req[r].call \in CallInputs
         /\ req[r].phase # "idle" /\ req[r].call.kind # "controlPlane" => req[r].call.token.key \in ApiKeys
<1>1. /\ Asked[r].stage = Stage(req[r].phase) /\ Asked[r].call = req[r].call /\ Asked[r].at = req[r].arrived
      /\ Asked[r].authority = req[r].grants
  BY DEF Asked, AskOf
<1>2. req[r] \in ReqRows /\ RequestOk(r, req[r])
  BY DEF BInv, IInv, RequestsInv
<1> QED BY <1>1, <1>2, KeysOfCalls DEF Boundary!ByKey, RequestOk

LEMMA AuthenticateBound ==
  ASSUME BInv, NEW r \in Requests, Authenticate(r)
  PROVE  Boundary!Admit(r) \/ Boundary!Deny(r)
<1> DEFINE token == req[r].call.token
           row == apiKey[token.key]
<1>1. /\ req[r].phase = "authenticating" /\ Asked[r].stage = "asked" /\ Boundary!ByKey(r)
      /\ Asked[r].call = req[r].call /\ Asked[r].at = req[r].arrived /\ token.key \in ApiKeys
      /\ req[r] \in ReqRows /\ req[r].call.kind \in {"workspaces", "connect", "job"}
  BY AskedStands DEF Authenticate, Stage, CallInputs
<1>2. UNCHANGED <<clock, Boundary!tenancy, Issued, Withdrawn>>
  BY RequestSeen DEF Authenticate
<1>3. CASE Accepts(row, token, req[r].arrived)
  <2> DEFINE to == [req[r] EXCEPT !.phase = req[r].call.kind, !.grants = {ToAccessGrant(row)}]
  <2>1. /\ to.phase = req[r].call.kind /\ to.call = req[r].call /\ to.arrived = req[r].arrived
        /\ to.grants = {row.input.grant}
    BY <1>1 DEF ReqRows, ToAccessGrant
  <2>2. SetReq(r, to)
    BY <1>3 DEF Authenticate
  <2> HIDE DEF to
  <2>3. Stage(to.phase) = "admitted" /\ to.phase # "done"
    BY <1>1, <2>1 DEF Stage
  <2>4. Asked' = [Asked EXCEPT ![r].stage = "admitted", ![r].authority = to.grants]
    BY <1>1, <2>1, <2>2, <2>3, AdmissionSeen
  <2>5. Boundary!Live(token, req[r].arrived) /\ Issued[token.key] = row.input
    BY <1>1, <1>3, TokensAgree
  <2> QED BY <1>1, <1>2, <2>1, <2>4, <2>5 DEF Boundary!Admit
<1>4. CASE ~ Accepts(row, token, req[r].arrived)
  <2>1. SetReq(r, Answered(r, "unauthorized"))
    BY <1>4 DEF Authenticate
  <2>2. Boundary!Answer(r, "unauthorized", {}, {})
    BY <1>1, <2>1, RefusalSeen DEF ListingPhases
  <2>3. ~ Boundary!Live(token, req[r].arrived)
    BY <1>1, <1>4, TokensAgree
  <2> QED BY <1>1, <1>2, <2>2, <2>3 DEF Boundary!Deny
<1> QED BY <1>3, <1>4

LEMMA SessionBound ==
  ASSUME BInv, NEW r \in Requests, NEW valid \in BOOLEAN, ResolveSession(r, valid)
  PROVE  Boundary!Deny(r) \/ UNCHANGED Boundary!vars
<1>1. req[r].phase = "authenticating" /\ req[r].call.kind = "controlPlane" /\ req[r] \in ReqRows
      /\ UNCHANGED <<clock, Boundary!tenancy, Issued, Withdrawn>>
  BY RequestSeen, AskedStands DEF ResolveSession
<1>2. CASE valid
  <2> DEFINE to == [req[r] EXCEPT !.phase = "grants"]
  <2>1. /\ to.phase = "grants" /\ to.call = req[r].call /\ to.arrived = req[r].arrived /\ to.grants = req[r].grants
        /\ SetReq(r, to)
    BY <1>1, <1>2 DEF ResolveSession, ReqRows
  <2> HIDE DEF to
  <2>2. AskOf(to) = AskOf(req[r])
    BY <1>1, <2>1 DEF AskOf, Stage
  <2>3. Asked' = Asked
    BY <2>1, <2>2, RequestSeen DEF Asked
  <2> QED BY <1>1, <2>3 DEF Boundary!vars, Boundary!tenancy
<1>3. CASE ~ valid
  <2>1. Boundary!Answer(r, "unauthorized", {}, {})
    BY <1>1, <1>3, RefusalSeen DEF ListingPhases, ResolveSession
  <2> QED BY <1>1, <2>1, AskedStands DEF Boundary!Deny, Stage
<1> QED BY <1>2, <1>3

LEMMA GrantsBound ==
  ASSUME BInv, NEW r \in Requests, GetUserAccessGrants(r)
  PROVE  Boundary!Admit(r)
<1> DEFINE found == {row.grant : row \in {g \in accessGrant : g.user = req[r].call.user}}
           to == [req[r] EXCEPT !.phase = "controlPlane", !.grants = found]
<1>1. /\ req[r].phase = "grants" /\ req[r] \in ReqRows /\ SetReq(r, to)
      /\ UNCHANGED <<clock, Boundary!tenancy, Issued, Withdrawn>>
  BY RequestSeen, AskedStands DEF GetUserAccessGrants
<1>2. req[r].call.kind = "controlPlane"
  BY <1>1 DEF BInv, IInv, RequestsInv, RequestOk
<1> HIDE DEF found
<1>3. to.phase = "controlPlane" /\ to.call = req[r].call /\ to.arrived = req[r].arrived /\ to.grants = found
  BY <1>1 DEF ReqRows
<1> HIDE DEF to
<1>4. Asked' = [Asked EXCEPT ![r].stage = "admitted", ![r].authority = found]
  BY <1>1, <1>3, AdmissionSeen DEF Stage
<1>5. Asked[r].stage = "asked" /\ ~ Boundary!ByKey(r) /\ Asked[r].call = req[r].call
  BY <1>1, <1>2, AskedStands DEF Stage
<1> QED BY <1>1, <1>4, <1>5 DEF Boundary!Admit, found

LEMMA CoversAlike ==
  ASSUME NEW g, NEW w
  PROVE  Boundary!Covers(g, w) <=> Owner(w) = g.organization /\ (g.workspace = NULL \/ g.workspace = w)
BY DEF Boundary!Covers, Boundary!Owner, Owner

\* The answer that completes a listing.
LEMMA ListSeen ==
  ASSUME BInv, NEW r \in Requests, NEW to, AnswerOk(to), SetReq(r, to), KeepRows, Listing(r),
         NEW O, NEW W, to.answer = [status |-> "ok", organizations |-> O, workspaces |-> W],
         to.phase = "done", to.call = req[r].call, to.arrived = req[r].arrived, to.grants = req[r].grants
  PROVE  Boundary!List(r)
<1> DEFINE authority == req[r].grants
           wide == {g \in authority : g.workspace = NULL}
           named(g) == IF g.workspace = NULL THEN {w \in workspace \cap SignUps : Boundary!Covers(g, w)}
                                             ELSE workspace \cap {g.workspace}
<1>1. /\ req[r] \in ReqRows /\ req[r].phase \in ListingPhases /\ req[r].call.kind = req[r].phase
      /\ AuthorityOf(to) = authority /\ authority \subseteq AccessGrants
  BY ListingAuthority DEF BInv, AInv, AuthorityOf, ReqRows
<1>2. /\ W \subseteq UNION {Covered(g) : g \in authority}
      /\ O \subseteq UNION {Managed(g) : g \in authority}
      /\ \A g \in authority :
           /\ GrantKnown(g)
           /\ Covered(g) \cap (SignUps \cup {g.workspace}) \cap workspace \subseteq W
           /\ Managed(g) \cap organization \subseteq O
  BY <1>1 DEF AnswerOk, Shown, ListingPhases
<1>3. Asked[r].authority = authority /\ Asked[r].stage = "admitted" /\ Asked[r].call.kind \in {"workspaces", "controlPlane"}
  BY <1>1, AskedStands DEF Stage, ListingPhases
<1>4. O \subseteq {g.organization : g \in wide}
  BY <1>2 DEF Managed
<1>5. ASSUME NEW w \in W PROVE w \in SignUps \cup MoreWorkspaces /\ \E g \in authority : Boundary!Covers(g, w)
  <2>1. PICK g \in authority : w \in Covered(g) /\ GrantKnown(g)
    BY <1>2
  <2>2. w \in Workspaces /\ Owner(w) = g.organization /\ (g.workspace = NULL \/ g.workspace = w)
    BY <2>1 DEF Covered, GrantKnown
  <2> QED BY <2>1, <2>2, CoversAlike DEF Workspaces
<1>6. W \subseteq {w \in SignUps \cup MoreWorkspaces : Boundary!MayRead(r, w)}
  BY <1>3, <1>5 DEF Boundary!MayRead
<1>7. \A g \in wide : g.organization \in organization => g.organization \in O
  BY <1>2 DEF Managed
<1>8. ASSUME NEW g \in authority PROVE named(g) \subseteq W
  <2>1. named(g) \subseteq Covered(g) \cap (SignUps \cup {g.workspace}) \cap workspace
    BY CoversAlike DEF Covered, Workspaces
  <2> QED BY <1>2, <2>1
<1>9. Boundary!Answer(r, "ok", O, W)
  BY AnswerSeen
<1>10. UNCHANGED <<clock, Boundary!tenancy, Issued, Withdrawn>>
  BY RequestSeen
<1> HIDE DEF authority
<1> QED BY <1>3, <1>4, <1>6, <1>7, <1>8, <1>9, <1>10 DEF Boundary!List

LEMMA PartUnseen ==
  ASSUME BInv, NEW r \in Requests, NEW to, SetReq(r, to), KeepRows, Listing(r),
         to.phase = req[r].phase, to.call = req[r].call, to.arrived = req[r].arrived, to.grants = req[r].grants
  PROVE  UNCHANGED Boundary!vars
<1>1. AskOf(to) = AskOf(req[r])
  BY DEF AskOf, Listing
<1>2. Asked' = Asked /\ UNCHANGED <<clock, Boundary!tenancy, Issued, Withdrawn>>
  BY <1>1, RequestSeen DEF Asked
<1> QED BY <1>2 DEF Boundary!vars, Boundary!tenancy

LEMMA SelectWorkspacesBound ==
  ASSUME BInv, NEW r \in Requests, SelectWorkspaces(r)
  PROVE  Boundary!List(r) \/ UNCHANGED Boundary!vars
<1> DEFINE shown == {w \in workspace : Readable(r, Owner(w), w)}
           to == [Listed(r, "workspaces") EXCEPT !.answer.workspaces = shown]
<1>0. Listing(r) /\ req[r].found # "workspaces" /\ SetReq(r, to) /\ KeepRows
  BY DEF SelectWorkspaces
<1>1. req[r] \in ReqRows /\ req[r].found \in {NULL, "organizations"}
  BY <1>0, ListingAuthority DEF BInv, AInv, AnswerOk
<1>2. /\ to.call = req[r].call /\ to.arrived = req[r].arrived /\ to.grants = req[r].grants
      /\ \/ to.phase = req[r].phase
         \/ to.phase = "done"
            /\ to.answer = [status |-> "ok", organizations |-> req[r].answer.organizations, workspaces |-> shown]
  BY <1>1 DEF Listed, ReqRows, Answers
<1>3. AnswerOk(to)
  <2>1. PICK t : AnswerOk(t) /\ SetReq(r, t)
    BY SelectWorkspacesAnswers DEF BInv, AInv, AnswerSteps
  <2> HIDE DEF to
  <2>2. t = to
    BY <1>0, <2>1 DEF SetReq, BInv, IInv, RequestsInv
  <2> QED BY <2>1, <2>2
<1> HIDE DEF to, shown
<1> QED BY <1>0, <1>2, <1>3, ListSeen, PartUnseen

LEMMA SelectOrganizationsBound ==
  ASSUME BInv, NEW r \in Requests, SelectOrganizations(r)
  PROVE  Boundary!List(r) \/ UNCHANGED Boundary!vars
<1> DEFINE shown == {o \in organization : Readable(r, o, NULL)}
           to == [Listed(r, "organizations") EXCEPT !.answer.organizations = shown]
<1>0. Listing(r) /\ req[r].found # "organizations" /\ SetReq(r, to) /\ KeepRows
  BY DEF SelectOrganizations
<1>1. req[r] \in ReqRows /\ req[r].found \in {NULL, "workspaces"}
  BY <1>0, ListingAuthority DEF BInv, AInv, AnswerOk
<1>2. /\ to.call = req[r].call /\ to.arrived = req[r].arrived /\ to.grants = req[r].grants
      /\ \/ to.phase = req[r].phase
         \/ to.phase = "done"
            /\ to.answer = [status |-> "ok", organizations |-> shown, workspaces |-> req[r].answer.workspaces]
  BY <1>1 DEF Listed, ReqRows, Answers
<1>3. AnswerOk(to)
  <2>1. PICK t : AnswerOk(t) /\ SetReq(r, t)
    BY SelectOrganizationsAnswers DEF BInv, AInv, AnswerSteps
  <2> HIDE DEF to
  <2>2. t = to
    BY <1>0, <2>1 DEF SetReq, BInv, IInv, RequestsInv
  <2> QED BY <2>1, <2>2
<1> HIDE DEF to, shown
<1> QED BY <1>0, <1>2, <1>3, ListSeen, PartUnseen

\* Both judge a workspace alike.
LEMMA AuthorityAlike ==
  ASSUME BInv, NEW r \in Requests, NEW w \in Workspaces
  PROVE  /\ Boundary!MayRead(r, w) <=> Readable(r, Owner(w), w)
         /\ Boundary!MayWrite(r, w) <=> IsAuthorized(req[r].grants, "write", Owner(w), w)
<1>1. Asked[r].authority = req[r].grants /\ req[r].grants \subseteq AccessGrants /\ w # NULL
  BY AskedStands, ControlPlaneAssumption DEF ReqRows, Workspaces
<1> QED BY <1>1, CoversAlike
        DEF Boundary!MayRead, Boundary!MayWrite, Readable, IsAuthorized, AccessGrants, Permissions

LEMMA FindBound ==
  ASSUME BInv, NEW r \in Requests, FindWorkspace(r)
  PROVE  Boundary!RefuseConnect(r) \/ UNCHANGED Boundary!vars
<1> DEFINE w == req[r].call.workspace
           to == [req[r] EXCEPT !.phase = "inserting", !.found = Owner(w)]
<1>1. /\ req[r].phase = "connect" /\ req[r].call.kind = "connect" /\ req[r] \in ReqRows
      /\ Asked[r].stage = "admitted" /\ Asked[r].call = req[r].call
      /\ UNCHANGED <<clock, Boundary!tenancy, Issued, Withdrawn>>
  BY RequestSeen, AskedStands DEF FindWorkspace, Stage, BInv, IInv, RequestsInv, RequestOk
<1>2. CASE w = NULL
  <2>0. w \notin workspace
    BY <1>2, ControlPlaneAssumption DEF BInv, IInv, RowsInv, RowsTyped, Workspaces
  <2>1. SetReq(r, Answered(r, "invalid_request"))
    BY <1>2, <2>0, Zenon DEF FindWorkspace
  <2>2. Boundary!Answer(r, "invalid_request", {}, {})
    BY <1>1, <2>1, RefusalSeen DEF ListingPhases
  <2> QED BY <1>1, <1>2, <2>2 DEF Boundary!RefuseConnect
<1>3. CASE w # NULL /\ w \in workspace /\ IsAuthorized(req[r].grants, "write", Owner(w), w)
  <2>1. SetReq(r, to)
    BY <1>3 DEF FindWorkspace
  <2>2. to.phase = "inserting" /\ to.call = req[r].call /\ to.arrived = req[r].arrived /\ to.grants = req[r].grants
    BY <1>1 DEF ReqRows
  <2> HIDE DEF to
  <2>3. AskOf(to) = AskOf(req[r])
    BY <1>1, <2>2 DEF AskOf, Stage
  <2>4. Asked' = Asked
    BY <2>1, <2>3, RequestSeen DEF Asked
  <2> QED BY <1>1, <2>4 DEF Boundary!vars, Boundary!tenancy
<1>4. CASE w # NULL /\ ~ (w \in workspace /\ IsAuthorized(req[r].grants, "write", Owner(w), w))
  <2>1. Boundary!Answer(r, "not_found", {}, {})
    BY <1>1, <1>4, RefusalSeen DEF FindWorkspace, ListingPhases
  <2>2. w \in workspace => ~ Boundary!MayWrite(r, w)
    BY <1>4, AuthorityAlike DEF BInv, IInv, RowsInv, RowsTyped
  <2> QED BY <1>1, <2>1, <2>2 DEF Boundary!RefuseConnect
<1> QED BY <1>2, <1>3, <1>4

LEMMA InsertBound ==
  ASSUME BInv, NEW r \in Requests, InsertConnection(r)
  PROVE  Boundary!Connect(r) \/ Boundary!RefuseConnect(r)
<1> DEFINE w == req[r].call.workspace
           row == [organization |-> req[r].found, workspace |-> w]
<1>1. /\ req[r].phase = "inserting" /\ req[r].call.kind = "connect"
      /\ w \in Workspaces /\ req[r].found = Owner(w) /\ IsAuthorized(req[r].grants, "write", Owner(w), w)
      /\ Asked[r].stage = "admitted" /\ Asked[r].call = req[r].call
  BY AskedStands DEF InsertConnection, Stage, BInv, IInv, RequestsInv, RequestOk
<1>2. /\ UNCHANGED <<clock, user, organization, workspace, accessGrant, apiKey>>
      /\ UNCHANGED <<Member, Issued, Withdrawn>>
  BY SeenAlike DEF InsertConnection
<1>3. CASE BelongsTo(w, Owner(w))
  <2>1. SetReq(r, Answered(r, "accepted")) /\ connection' = [connection EXCEPT ![r] = row]
    BY <1>1, <1>3 DEF InsertConnection
  <2>2. Boundary!Answer(r, "accepted", {}, {})
    BY <1>1, <2>1, RefusalSeen DEF ListingPhases
  <2>3. w \in workspace /\ Boundary!MayWrite(r, w) /\ Boundary!Owner(w) = Owner(w)
    BY <1>1, <1>3, AuthorityAlike, ControlPlaneAssumption DEF BelongsTo, Boundary!Owner, Owner, Workspaces
  <2> QED BY <1>1, <1>2, <2>1, <2>2, <2>3 DEF Boundary!Connect
<1>4. CASE ~ BelongsTo(w, Owner(w))
  <2>1. SetReq(r, Answered(r, "error")) /\ UNCHANGED connection
    BY <1>1, <1>4 DEF InsertConnection
  <2>2. Boundary!Answer(r, "error", {}, {})
    BY <1>1, <2>1, RefusalSeen DEF ListingPhases
  <2> QED BY <1>1, <1>2, <1>4, <2>1, <2>2 DEF Boundary!RefuseConnect, Boundary!tenancy, BelongsTo
<1> QED BY <1>3, <1>4

LEMMA JobBound ==
  ASSUME BInv, NEW r \in Requests, SelectJob(r) \/ SelectConnection(r)
  PROVE  Boundary!Poll(r) \/ UNCHANGED Boundary!vars
<1> DEFINE job == req[r].call.job
           row == connection[job]
<1>1. /\ req[r].phase \in {"job", "job_found"} /\ req[r].call.kind = "job" /\ req[r] \in ReqRows
      /\ (req[r].phase = "job_found" => job # NULL) /\ job \in Requests \cup {NULL}
      /\ Asked[r].stage = "admitted" /\ Asked[r].call = req[r].call
      /\ UNCHANGED <<clock, Boundary!tenancy, Issued, Withdrawn>>
  BY RequestSeen, AskedStands, KeysOfCalls
     DEF SelectJob, SelectConnection, Stage, BInv, IInv, RequestsInv, RequestOk
<1>2. ASSUME NEW status \in {"not_found", "error"}, SetReq(r, Answered(r, status))
      PROVE  Boundary!Answer(r, status, {}, {})
  BY <1>1, <1>2, RefusalSeen DEF ListingPhases
<1>3. ASSUME job # NULL, row # NULL
      PROVE  Boundary!MayRead(r, row.workspace) <=> Readable(r, row.organization, row.workspace)
  <2>1. row.workspace \in Workspaces /\ row.organization = Owner(row.workspace)
    BY <1>1, <1>3 DEF BInv, IInv, RequestsInv, ConnectionOk
  <2> QED BY <2>1, AuthorityAlike
<1>4. CASE SelectJob(r)
  <2>1. CASE job = NULL \/ row = NULL
    <3>1. Boundary!Answer(r, "not_found", {}, {})
      BY <1>2, <1>4, <2>1 DEF SelectJob
    <3> QED BY <1>1, <2>1, <3>1 DEF Boundary!Poll
  <2>2. CASE ~ (job = NULL \/ row = NULL)
    <3> DEFINE to == [req[r] EXCEPT !.phase = "job_found"]
    <3>1. /\ SetReq(r, to) /\ to.phase = "job_found" /\ to.call = req[r].call /\ to.arrived = req[r].arrived
          /\ to.grants = req[r].grants
      BY <1>1, <1>4, <2>2 DEF SelectJob, ReqRows
    <3> HIDE DEF to
    <3>2. AskOf(to) = AskOf(req[r])
      BY <1>1, <3>1 DEF AskOf, Stage
    <3>3. Asked' = Asked
      BY <3>1, <3>2, RequestSeen DEF Asked
    <3> QED BY <1>1, <3>3 DEF Boundary!vars, Boundary!tenancy
  <2> QED BY <2>1, <2>2
<1>5. CASE SelectConnection(r)
  <2>0. req[r].phase = "job_found" /\ job # NULL
    BY <1>1, <1>5 DEF SelectConnection
  <2>1. CASE row = NULL
    <3>1. Boundary!Answer(r, "error", {}, {})
      BY <1>2, <1>5, <2>1 DEF SelectConnection
    <3> QED BY <1>1, <2>0, <2>1, <3>1 DEF Boundary!Poll
  <2>2. CASE row # NULL /\ ~ Readable(r, row.organization, row.workspace)
    <3>1. Boundary!Answer(r, "not_found", {}, {})
      BY <1>2, <1>5, <2>2 DEF SelectConnection
    <3> QED BY <1>1, <1>3, <2>0, <2>2, <3>1 DEF Boundary!Poll
  <2>3. CASE row # NULL /\ Readable(r, row.organization, row.workspace)
    <3> DEFINE done == Answered(r, "ok")
               to == [done EXCEPT !.answer.workspaces = {row.workspace}]
    <3>1. SetReq(r, to)
      BY <1>5, <2>3 DEF SelectConnection
    <3>2. req[r].answer = NoAnswer
      BY <2>0 DEF BInv, AInv, AnswerOk, ListingPhases
    <3>3. /\ done.phase = "done" /\ done.call = req[r].call /\ done.arrived = req[r].arrived
          /\ done.grants = req[r].grants
          /\ done.answer = [status |-> "ok", organizations |-> {}, workspaces |-> {}]
      BY <1>1, <3>2 DEF Answered, ReqRows, NoAnswer
    <3>4. done \in [phase : {"done"}, call : {done.call}, arrived : {done.arrived}, grants : {done.grants},
                     dead : {done.dead}, answer : {done.answer}, found : {done.found}]
      BY <1>1 DEF Answered, ReqRows
    <3> HIDE DEF done
    <3>5. /\ to.phase = "done" /\ to.call = req[r].call /\ to.arrived = req[r].arrived /\ to.grants = req[r].grants
           /\ to.answer = [status |-> "ok", organizations |-> {}, workspaces |-> {row.workspace}]
      BY <3>3, <3>4
    <3> HIDE DEF to
    <3>6. Boundary!Answer(r, "ok", {}, {row.workspace})
      BY <3>1, <3>5, AnswerSeen
    <3> QED BY <1>1, <1>3, <2>0, <2>3, <3>6 DEF Boundary!Poll
  <2> QED BY <2>1, <2>2, <2>3
<1> QED BY <1>4, <1>5

LEMMA StepBound == BInv /\ [Next]_vars => [Boundary!Next]_(Boundary!vars)
<1> SUFFICES ASSUME BInv, [Next]_vars PROVE Boundary!Next \/ UNCHANGED Boundary!vars
  OBVIOUS
<1>1. CASE UNCHANGED vars
  BY <1>1, SeenAlike DEF vars, rows, Boundary!vars, BInv, IInv, RowsInv, RowsTyped
<1>2. ASSUME NEW input \in SignUpInputs, NEW valid \in BOOLEAN, SignUp(input[1], input[2], valid)
      PROVE  UNCHANGED Boundary!vars
  <2>1. input[1] \in SignUps
    BY ControlPlaneAssumption
  <2> QED BY <1>2, <2>1, SignUpUnseen
<1>3. ASSUME NEW s \in SignUps, SignUpStep(s) \/ FailSignUp(s) PROVE Boundary!Next \/ UNCHANGED Boundary!vars
  BY <1>3, SignUpUnseen, CommitOpens DEF SignUpStep, Boundary!Next
<1>4. ASSUME NEW o \in Organizations, DeleteOrganization(o) PROVE Boundary!Next
  BY <1>4, DeletionCloses DEF Boundary!Next, Organizations
<1>5. ASSUME NEW w \in MoreWorkspaces, InsertWorkspace(w) PROVE Boundary!Next
  BY <1>5, OperatorsBound DEF Boundary!Next
<1>6. ASSUME NEW row \in Grants, InsertGrant(row) PROVE Boundary!Next
  BY <1>6, OperatorsBound DEF Boundary!Next
<1>7. ASSUME NEW k \in ApiKeys, (\E input \in Issues : IssueApiKey(k, input)) \/ InsertApiKey(k) \/ RevokeApiKey(k)
      PROVE  Boundary!Next \/ UNCHANGED Boundary!vars
  BY <1>7, KeysBound DEF Boundary!Next
<1>8. ASSUME NEW r \in Requests, NEW call \in CallsOf[r], Arrive(r, call) PROVE Boundary!Next
  BY <1>8, ArrivalAsks DEF Boundary!Next
<1>9. ASSUME NEW r \in Requests, Handle(r) PROVE Boundary!Next \/ UNCHANGED Boundary!vars
  <2>1. \/ Boundary!Admit(r) \/ Boundary!Deny(r) \/ Boundary!List(r) \/ Boundary!Connect(r)
        \/ Boundary!RefuseConnect(r) \/ Boundary!Poll(r) \/ UNCHANGED Boundary!vars
    BY <1>9, AuthenticateBound, SessionBound, GrantsBound, SelectOrganizationsBound, SelectWorkspacesBound,
       FindBound, InsertBound, JobBound DEF Handle
  <2> QED BY <2>1 DEF Boundary!Next
<1>10. CASE TimePasses
  <2>1. clock' = clock + 1 /\ UNCHANGED <<Boundary!tenancy, Issued, Withdrawn, Asked>>
    BY <1>10, SeenAlike DEF TimePasses, rows, Boundary!tenancy
  <2> QED BY <2>1 DEF Boundary!Next, Boundary!TimePasses
<1> QED BY <1>1, <1>2, <1>3, <1>4, <1>5, <1>6, <1>7, <1>8, <1>9, <1>10 DEF Next

\* Accounts that are opened by the statements of a sign-up, and requests that
\* are authenticated and answered by several statements while keys are revoked
\* and organizations deleted, are decisions that could each have been taken in
\* one step: who is admitted, and with which authority, is settled once, a
\* connection is stored only where that authority may write, and an answer
\* shows what it covers, or refuses for a reason that holds when it is made.
THEOREM AccessKeepsBoundary == Spec => ImplementsBoundary
BY InvariantOfBoundary, InitBoundary, StepBound, PTL DEF Spec, ImplementsBoundary, Boundary!Spec

-----------------------------------------------------------------------------
(* What the end of sign-ups and requests rests on: both only go forward.     *)

SignUpPlaces == [idle |-> 0, creating |-> 1, inserted |-> 2, created |-> 3, exists |-> 3, failed |-> 3, refused |-> 3]
\* A listing has made none or one of its two selects.
RequestPlace(q) ==
  [idle |-> 0, authenticating |-> 1, grants |-> 2, workspaces |-> 3, controlPlane |-> 3, connect |-> 3, job |-> 3,
   inserting |-> 4, job_found |-> 4, done |-> 5][q.phase]
  + (IF q.phase \in ListingPhases /\ q.found # NULL THEN 1 ELSE 0)
StatementsAdvance ==
  /\ \A s \in SignUps :
       \/ signup'[s] = signup[s] /\ email'[s] = email[s]
       \/ /\ SignUpPlaces[signup'[s]] > SignUpPlaces[signup[s]]
          /\ signup[s] # "idle" => email'[s] = email[s]
  /\ \A r \in Requests :
       \/ req'[r] = req[r]
       \/ /\ RequestPlace(req'[r]) > RequestPlace(req[r])
          /\ req[r].phase # "idle" => req'[r].call = req[r].call /\ req'[r].arrived = req[r].arrived

LEMMA SignUpsAdvance ==
  ASSUME IInv, Next, NEW s \in SignUps
  PROVE  \/ signup'[s] = signup[s] /\ email'[s] = email[s]
         \/ /\ SignUpPlaces[signup'[s]] > SignUpPlaces[signup[s]]
            /\ signup[s] # "idle" => email'[s] = email[s]
<1>0. signup \in [SignUps -> SignUpStates] /\ DOMAIN email = SignUps
  BY DEF IInv, RowsInv, RowsTyped
<1>1. ASSUME NEW input \in SignUpInputs, NEW valid \in BOOLEAN, SignUp(input[1], input[2], valid)
      PROVE  \/ signup'[s] = signup[s] /\ email'[s] = email[s]
             \/ signup[s] = "idle" /\ signup'[s] \in {"creating", "refused"}
  BY <1>0, <1>1 DEF SignUp, SetSignUp
<1>2. ASSUME NEW t \in SignUps, SignUpStep(t) \/ FailSignUp(t)
      PROVE  /\ email' = email
             /\ \/ signup'[s] = signup[s]
                \/ signup[s] = "creating" /\ signup'[s] \in {"inserted", "exists", "failed"}
                \/ signup[s] = "inserted" /\ signup'[s] \in {"created", "failed"}
  BY <1>0, <1>2 DEF SignUpStep, InsertUser, CommitSignUp, FailSignUp, SetSignUp
<1>3. \/ signup' = signup /\ email' = email
      \/ \E input \in SignUpInputs, valid \in BOOLEAN : SignUp(input[1], input[2], valid)
      \/ \E t \in SignUps : SignUpStep(t) \/ FailSignUp(t)
  <2>1. ASSUME NEW r \in Requests, (\E call \in CallsOf[r] : Arrive(r, call)) \/ Handle(r)
        PROVE  signup' = signup /\ email' = email
    BY <2>1 DEF Arrive, Handle, Authenticate, ResolveSession, GetUserAccessGrants, SelectOrganizations,
                SelectWorkspaces, FindWorkspace, InsertConnection, SelectJob, SelectConnection, KeepRows
  <2>2. ASSUME NEW k \in ApiKeys, (\E input \in Issues : IssueApiKey(k, input)) \/ InsertApiKey(k) \/ RevokeApiKey(k)
        PROVE  signup' = signup /\ email' = email
    BY <2>2 DEF IssueApiKey, InsertApiKey, RevokeApiKey, SetKey
  <2> QED BY <2>1, <2>2 DEF Next, DeleteOrganization, InsertWorkspace, InsertGrant, TimePasses
<1> QED BY <1>1, <1>2, <1>3 DEF SignUpPlaces

LEMMA AnsweredLast ==
  ASSUME IInv, NEW r \in Requests, NEW status, req[r].phase \notin {"idle", "done"}
  PROVE  /\ RequestPlace(Answered(r, status)) > RequestPlace(req[r])
         /\ Answered(r, status).call = req[r].call /\ Answered(r, status).arrived = req[r].arrived
<1>1. /\ Answered(r, status).phase = "done"
      /\ Answered(r, status).call = req[r].call /\ Answered(r, status).arrived = req[r].arrived
  BY DEF Answered, IInv, RequestsInv, ReqRows
<1>2. req[r].phase \in {"authenticating", "grants", "workspaces", "controlPlane", "connect", "inserting", "job", "job_found"}
  BY DEF IInv, RequestsInv, ReqRows
<1> HIDE DEF Answered
<1> QED BY <1>1, <1>2 DEF RequestPlace, ListingPhases

\* What a step may do with a request.
Ahead(r, to) ==
  /\ RequestPlace(to) > RequestPlace(req[r])
  /\ req[r].phase # "idle" => to.call = req[r].call /\ to.arrived = req[r].arrived

LEMMA ListingsAdvance ==
  ASSUME IInv, NEW r \in Requests, SelectOrganizations(r) \/ SelectWorkspaces(r)
  PROVE  \E to : SetReq(r, to) /\ Ahead(r, to)
<1>1. Listing(r) /\ req[r] \in ReqRows
  BY DEF IInv, RequestsInv, SelectOrganizations, SelectWorkspaces
<1>2. ASSUME NEW part \in {"organizations", "workspaces"}
      PROVE  /\ Listed(r, part).call = req[r].call /\ Listed(r, part).arrived = req[r].arrived
             /\ RequestPlace(Listed(r, part)) > RequestPlace(req[r])
             /\ DOMAIN Listed(r, part) = DOMAIN req[r]
  <2>1. part # NULL
    BY ControlPlaneAssumption
  <2>2. CASE req[r].found = NULL
    <3>1. /\ Listed(r, part).call = req[r].call /\ Listed(r, part).arrived = req[r].arrived
          /\ Listed(r, part).phase = req[r].phase /\ Listed(r, part).found = part
          /\ DOMAIN Listed(r, part) = DOMAIN req[r]
      BY <1>1, <2>2 DEF Listed, ReqRows
    <3> HIDE DEF Listed
    <3> QED BY <1>1, <2>1, <2>2, <3>1 DEF RequestPlace, Listing, ListingPhases
  <2>3. CASE req[r].found # NULL
    <3>1. /\ Listed(r, part).call = req[r].call /\ Listed(r, part).arrived = req[r].arrived
          /\ Listed(r, part).phase = "done" /\ DOMAIN Listed(r, part) = DOMAIN req[r]
      BY <1>1, <2>3 DEF Listed, ReqRows
    <3> HIDE DEF Listed
    <3> QED BY <1>1, <2>3, <3>1 DEF RequestPlace, Listing, ListingPhases
  <2> QED BY <2>2, <2>3
<1>3. ASSUME NEW part \in {"organizations", "workspaces"}, NEW to, to.call = Listed(r, part).call,
             to.arrived = Listed(r, part).arrived, to.phase = Listed(r, part).phase, to.found = Listed(r, part).found
      PROVE  Ahead(r, to)
  <2>1. RequestPlace(to) = RequestPlace(Listed(r, part))
    BY <1>3 DEF RequestPlace
  <2> QED BY <1>2, <1>3, <2>1 DEF Ahead
<1>4. CASE SelectOrganizations(r)
  <2> DEFINE to == [Listed(r, "organizations") EXCEPT
                      !.answer.organizations = {o \in organization : Readable(r, o, NULL)}]
  <2>1. SetReq(r, to)
    BY <1>4 DEF SelectOrganizations
  <2>2. /\ to.call = Listed(r, "organizations").call /\ to.arrived = Listed(r, "organizations").arrived
        /\ to.phase = Listed(r, "organizations").phase /\ to.found = Listed(r, "organizations").found
    BY <1>1, <1>2 DEF ReqRows
  <2> HIDE DEF to
  <2> QED BY <1>3, <2>1, <2>2
<1>5. CASE SelectWorkspaces(r)
  <2> DEFINE to == [Listed(r, "workspaces") EXCEPT
                      !.answer.workspaces = {w \in workspace : Readable(r, Owner(w), w)}]
  <2>1. SetReq(r, to)
    BY <1>5 DEF SelectWorkspaces
  <2>2. /\ to.call = Listed(r, "workspaces").call /\ to.arrived = Listed(r, "workspaces").arrived
        /\ to.phase = Listed(r, "workspaces").phase /\ to.found = Listed(r, "workspaces").found
    BY <1>1, <1>2 DEF ReqRows
  <2> HIDE DEF to
  <2> QED BY <1>3, <2>1, <2>2
<1> QED BY <1>4, <1>5

LEMMA HandlersAdvance ==
  ASSUME IInv, NEW r \in Requests, Handle(r)
  PROVE  \E to : SetReq(r, to) /\ Ahead(r, to)
<1>0. /\ req[r] \in ReqRows /\ DOMAIN req[r] = {"phase", "call", "arrived", "dead", "grants", "found", "answer"}
      /\ req[r].phase # "idle" => req[r].call \in CallInputs
  BY KeysOfCalls DEF IInv, RequestsInv, RequestOk, ReqRows
<1>1. ASSUME NEW status, SetReq(r, Answered(r, status)), req[r].phase \notin {"idle", "done"}
      PROVE  \E to : SetReq(r, to) /\ Ahead(r, to)
  BY <1>1, AnsweredLast DEF Ahead
<1>2. ASSUME NEW to, SetReq(r, to), to.call = req[r].call, to.arrived = req[r].arrived, to.phase # "done",
             <<req[r].phase, to.phase>> \in {<<"authenticating", "workspaces">>, <<"authenticating", "connect">>,
               <<"authenticating", "job">>, <<"authenticating", "grants">>, <<"grants", "controlPlane">>,
               <<"connect", "inserting">>, <<"job", "job_found">>}
      PROVE  \E q : SetReq(r, q) /\ Ahead(r, q)
  <2>1. RequestPlace(to) > RequestPlace(req[r])
    BY <1>2 DEF RequestPlace, ListingPhases
  <2> QED BY <1>2, <2>1 DEF Ahead
<1>3. CASE Authenticate(r)
  <2> DEFINE to == [req[r] EXCEPT !.phase = req[r].call.kind, !.grants = {ToAccessGrant(apiKey[req[r].call.token.key])}]
  <2>1. req[r].phase = "authenticating" /\ req[r].call.kind \in {"workspaces", "connect", "job"}
    BY <1>0, <1>3 DEF Authenticate, CallInputs
  <2>2. SetReq(r, to) \/ SetReq(r, Answered(r, "unauthorized"))
    BY <1>3 DEF Authenticate
  <2>3. to.phase = req[r].call.kind /\ to.call = req[r].call /\ to.arrived = req[r].arrived
    BY <1>0
  <2> HIDE DEF to
  <2> QED BY <1>1, <1>2, <2>1, <2>2, <2>3
<1>4. CASE \E valid \in BOOLEAN : ResolveSession(r, valid)
  <2> DEFINE to == [req[r] EXCEPT !.phase = "grants"]
  <2>1. req[r].phase = "authenticating" /\ (SetReq(r, to) \/ SetReq(r, Answered(r, "unauthorized")))
    BY <1>4 DEF ResolveSession
  <2>2. to.phase = "grants" /\ to.call = req[r].call /\ to.arrived = req[r].arrived
    BY <1>0
  <2> HIDE DEF to
  <2> QED BY <1>1, <1>2, <2>1, <2>2
<1>5. CASE GetUserAccessGrants(r)
  <2> DEFINE to == [req[r] EXCEPT !.phase = "controlPlane",
                      !.grants = {row.grant : row \in {g \in accessGrant : g.user = req[r].call.user}}]
  <2>1. req[r].phase = "grants" /\ SetReq(r, to)
    BY <1>5 DEF GetUserAccessGrants
  <2>2. to.phase = "controlPlane" /\ to.call = req[r].call /\ to.arrived = req[r].arrived
    BY <1>0
  <2> HIDE DEF to
  <2> QED BY <1>2, <2>1, <2>2
<1>6. CASE FindWorkspace(r)
  <2> DEFINE w == req[r].call.workspace
             to == [req[r] EXCEPT !.phase = "inserting", !.found = Owner(w)]
  <2>1. /\ req[r].phase = "connect"
        /\ \/ SetReq(r, to)
           \/ SetReq(r, Answered(r, "invalid_request"))
           \/ SetReq(r, Answered(r, "not_found"))
    <3>1. CASE w = NULL
      <4>1. w \notin workspace
        BY <3>1, ControlPlaneAssumption DEF IInv, RowsInv, RowsTyped, Workspaces
      <4> QED BY <1>6, <3>1, <4>1, Zenon DEF FindWorkspace
    <3>2. CASE w # NULL /\ w \in workspace /\ IsAuthorized(req[r].grants, "write", Owner(w), w)
      BY <1>6, <3>2 DEF FindWorkspace
    <3>3. CASE w # NULL /\ ~ (w \in workspace /\ IsAuthorized(req[r].grants, "write", Owner(w), w))
      BY <1>6, <3>3 DEF FindWorkspace
    <3> QED BY <3>1, <3>2, <3>3
  <2>2. to.phase = "inserting" /\ to.call = req[r].call /\ to.arrived = req[r].arrived
    BY <1>0
  <2> HIDE DEF to
  <2> QED BY <1>1, <1>2, <2>1, <2>2
<1>7. CASE InsertConnection(r)
  BY <1>1, <1>7 DEF InsertConnection
<1>8. CASE SelectJob(r)
  <2> DEFINE to == [req[r] EXCEPT !.phase = "job_found"]
  <2>1. req[r].phase = "job" /\ (SetReq(r, to) \/ SetReq(r, Answered(r, "not_found")))
    BY <1>8 DEF SelectJob
  <2>2. to.phase = "job_found" /\ to.call = req[r].call /\ to.arrived = req[r].arrived
    BY <1>0
  <2> HIDE DEF to
  <2> QED BY <1>1, <1>2, <2>1, <2>2
<1>9. CASE SelectConnection(r)
  <2> DEFINE row == connection[req[r].call.job]
             done == Answered(r, "ok")
             to == [done EXCEPT !.answer.workspaces = {row.workspace}]
  <2>1. /\ req[r].phase = "job_found"
        /\ SetReq(r, to) \/ SetReq(r, Answered(r, "error")) \/ SetReq(r, Answered(r, "not_found"))
    BY <1>9 DEF SelectConnection
  <2>2. RequestPlace(done) > RequestPlace(req[r]) /\ done.call = req[r].call /\ done.arrived = req[r].arrived
    BY <2>1, AnsweredLast
  <2>3. to.phase = done.phase /\ to.call = done.call /\ to.arrived = done.arrived /\ to.found = done.found
    BY <1>0 DEF Answered, ReqRows
  <2>4. RequestPlace(to) = RequestPlace(done)
    BY <2>3 DEF RequestPlace
  <2>5. Ahead(r, to)
    BY <2>2, <2>3, <2>4 DEF Ahead
  <2> HIDE DEF to, done
  <2> QED BY <1>1, <2>1, <2>5
<1> QED BY <1>3, <1>4, <1>5, <1>6, <1>7, <1>8, <1>9, ListingsAdvance DEF Handle

\* A sign-up goes from statement to statement and to one end, and a request
\* through its at most five steps to one answer: no rollback, refusal, deletion
\* or second select starts either of them again, and the email, the call and
\* the time by which a key is judged stay what they were.
THEOREM StatementsGoForward == Spec => [][StatementsAdvance]_vars
<1>1. IInv /\ [Next]_vars => [StatementsAdvance]_vars
  <2> SUFFICES ASSUME IInv, Next PROVE StatementsAdvance
    OBVIOUS
  <2>1. ASSUME NEW r \in Requests PROVE req'[r] = req[r] \/ Ahead(r, req'[r])
    <3>1. ASSUME NEW p \in Requests, NEW to, SetReq(p, to), Ahead(p, to) PROVE req'[r] = req[r] \/ Ahead(r, req'[r])
      BY <3>1 DEF SetReq, IInv, RequestsInv
    <3>2. ASSUME NEW p \in Requests, NEW call \in CallsOf[p], Arrive(p, call) PROVE \E to : SetReq(p, to) /\ Ahead(p, to)
      <4> DEFINE to == [Idle EXCEPT !.phase = "authenticating", !.call = call, !.arrived = clock,
                                    !.dead = call.kind # "controlPlane" /\ Dead(call.token)]
      <4>1. req[p].phase = "idle" /\ SetReq(p, to)
        BY <3>2 DEF Arrive
      <4>2. to.phase = "authenticating"
        BY DEF Idle
      <4> HIDE DEF to
      <4>3. RequestPlace(to) > RequestPlace(req[p])
        BY <4>1, <4>2 DEF RequestPlace, ListingPhases
      <4> QED BY <4>1, <4>3 DEF Ahead
    <3>3. \/ req' = req
          \/ \E p \in Requests : (\E call \in CallsOf[p] : Arrive(p, call)) \/ Handle(p)
      <4>1. ASSUME NEW k \in ApiKeys, (\E input \in Issues : IssueApiKey(k, input)) \/ InsertApiKey(k) \/ RevokeApiKey(k)
            PROVE  req' = req
        BY <4>1 DEF IssueApiKey, InsertApiKey, RevokeApiKey, SetKey
      <4>2. ASSUME NEW s \in SignUps, SignUpStep(s) \/ FailSignUp(s) PROVE req' = req
        BY <4>2 DEF SignUpStep, InsertUser, CommitSignUp, FailSignUp
      <4> QED BY <4>1, <4>2 DEF Next, SignUp, DeleteOrganization, InsertWorkspace, InsertGrant, TimePasses
    <3> QED BY <3>1, <3>2, <3>3, HandlersAdvance
  <2> QED BY <2>1, SignUpsAdvance DEF StatementsAdvance, Ahead
<1>2. Spec => []IInv
  BY InitHolds, NextHolds, PTL DEF Spec
<1> QED BY <1>1, <1>2, PTL DEF Spec
=============================================================================
