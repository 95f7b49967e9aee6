--------------------------- MODULE SessionRegistry ---------------------------
(***************************************************************************)
(* The Microsoft sessions of the provisioner: RealTenantValidationService  *)
(* (tenant_validation.py) and TenantSessionRegistry (session_registry.py)  *)
(* under concurrent calls of validate.  The service runs on one event      *)
(* loop, so the code between two awaits is atomic; each await that waits   *)
(* for a process, the browser, a lock or the time is a step of its own.    *)
(*                                                                         *)
(* A call starts at most one PowerShell process, so its name serves as the *)
(* name of the process.  What PowerShell reports of a process is a choice  *)
(* of the environment: a health check succeeds with the identity the       *)
(* process signed in with, or it fails (disconnected, timed out, ended).   *)
(* "stopped" is a process whose group got SIGTERM: stop waits for its end, *)
(* with SIGKILL after 5 seconds, before anything else of its call happens. *)
(* What such a process has written before stays in its pipe.               *)
(* The registry's dispose has no caller and is left out.                   *)
(***************************************************************************)
EXTENDS Integers, FiniteSets

CONSTANTS
  Calls,          \* calls of validate
  Connections,    \* tenant connection identifiers
  Emails,         \* administrators, up to the case of their letters
  Tenants,        \* Microsoft tenant identifiers
  Requests,       \* the connection and the administrator that a call may name
  Failures,       \* the codes of AuthenticationFailure
  NULL,
  IdleTTL         \* SESSION_IDLE_TTL, in units of the model's clock

SessionRows == [process : Calls, idle : 0..IdleTTL]
SignIns == [email : Emails \cup {NULL}, tenant : Tenants \cup {NULL}]

ASSUME SessionAssumption ==
  /\ NULL \notin Calls \cup Connections \cup Emails \cup Tenants \cup Failures
  /\ NULL \notin SessionRows \cup SignIns
  /\ Tenants \cap Failures = {} /\ "lost" \notin Tenants \cup Failures
  /\ "microsoft_unavailable" \in Failures
  /\ Requests \subseteq Connections \X Emails
  /\ IsFiniteSet(Calls)
  /\ IdleTTL \in Nat \ {0}

VARIABLES
  sessions,    \* _sessions: the process of a connection and its idle time left
  lock,        \* _locks: who is inside ensure for a connection
  browser,     \* permits left of _browser_authentication
  proc,        \* the PowerShell process that a call started
  call         \* the invocations of validate

vars == <<sessions, lock, browser, proc, call>>

Phases == {"idle", "waiting", "checking", "disposing", "starting", "queued", "browsing",
           "inspecting", "verifying", "done"}

ProcRows == [state : {"none", "running", "stopped"}, tenant : Tenants \cup {NULL},
             upn : Emails \cup {NULL}]
CallRows == [phase : Phases, conn : Connections \cup {NULL}, email : Emails \cup {NULL},
             process : Calls \cup {NULL}, result : Tenants \cup Failures \cup {NULL, "lost"}]

NoProcess == [state |-> "none", tenant |-> NULL, upn |-> NULL]
Idle == [phase |-> "idle", conn |-> NULL, email |-> NULL, process |-> NULL, result |-> NULL]

Init ==
  /\ sessions = [k \in Connections |-> NULL]
  /\ lock = [k \in Connections |-> NULL]
  /\ browser = 1
  /\ proc = [c \in Calls |-> NoProcess]
  /\ call = [c \in Calls |-> Idle]

-----------------------------------------------------------------------------
(* A name with an underscore is the definition after it as a bug would have *)
(* it.                                                                      *)

Conn(c) == call[c].conn
Session(c) == sessions[Conn(c)]
Move(c, phase) == call' = [call EXCEPT ![c].phase = phase]
Unlock(c) == lock' = [lock EXCEPT ![Conn(c)] = NULL]

\* ensure raises: the lock is left, and validate turns it into a failure.
Failure(c, code) ==
  /\ call' = [call EXCEPT ![c].phase = "done", ![c].result = code]
  /\ Unlock(c)

\* ensure returns the process, which validate then asks for its tenant.
Ensured(c, process) ==
  /\ call' = [call EXCEPT ![c].phase = "verifying", ![c].process = process]
  /\ Unlock(c)

Matches_AnyUser(c, process) == proc[process].state = "running"
\* A session serves the administrator who signed it in, and no other.
Matches(c, process) == proc[process].state = "running" /\ proc[process].upn = call[c].email

-----------------------------------------------------------------------------
(* ensure *)

Validate(c, conn, email) ==
  /\ call[c].phase = "idle"
  /\ call' = [call EXCEPT ![c].phase = "waiting", ![c].conn = conn, ![c].email = email]
  /\ UNCHANGED <<sessions, lock, browser, proc>>

LookUp_NoLock(c) ==
  /\ call[c].phase = "waiting"
  /\ lock' = [lock EXCEPT ![Conn(c)] = c]
  /\ Move(c, CASE Session(c) = NULL -> "starting"
               [] Session(c) # NULL -> IF Session(c).idle = 0 THEN "disposing" ELSE "checking")
  /\ UNCHANGED <<sessions, browser, proc>>
LookUp(c) ==
  /\ call[c].phase = "waiting" /\ lock[Conn(c)] = NULL
  /\ lock' = [lock EXCEPT ![Conn(c)] = c]
  /\ Move(c, CASE Session(c) = NULL -> "starting"
               [] Session(c) # NULL -> IF Session(c).idle = 0 THEN "disposing" ELSE "checking")
  /\ UNCHANGED <<sessions, browser, proc>>

Reuse(c) ==
  /\ call[c].phase = "checking" /\ Matches(c, Session(c).process)
  /\ sessions' = [sessions EXCEPT ![Conn(c)].idle = IdleTTL]
  /\ Ensured(c, Session(c).process)
  /\ UNCHANGED <<browser, proc>>

\* The health check fails, or reports someone else.
Unhealthy(c) ==
  /\ call[c].phase = "checking"
  /\ Move(c, "disposing")
  /\ UNCHANGED <<sessions, lock, browser, proc>>

\* The entry goes and its process group is told to end without an await in
\* between.
Dispose(c) ==
  /\ call[c].phase = "disposing"
  /\ sessions' = [sessions EXCEPT ![Conn(c)] = NULL]
  /\ proc' = [proc EXCEPT ![Session(c).process].state = "stopped"]
  /\ Move(c, "starting")
  /\ UNCHANGED <<lock, browser>>

-----------------------------------------------------------------------------
(* _authenticate *)

StartProcess(c) ==
  /\ call[c].phase = "starting"
  /\ proc' = [proc EXCEPT ![c].state = "running"]
  /\ Move(c, "queued")
  /\ UNCHANGED <<sessions, lock, browser>>

StartFails(c) ==
  /\ call[c].phase = "starting"
  /\ Failure(c, "microsoft_unavailable")
  /\ UNCHANGED <<sessions, browser, proc>>

TakeBrowser(c) ==
  /\ call[c].phase = "queued" /\ browser > 0
  /\ browser' = browser - 1
  /\ Move(c, "browsing")
  /\ UNCHANGED <<sessions, lock, proc>>

\* The permit that a call gives back when it stops, if it has one.
BrowserAfter_Leaks(c) == browser
BrowserAfter(c) == IF call[c].phase = "browsing" THEN browser + 1 ELSE browser

SignedIn(c, tenant, upn) ==
  /\ call[c].phase = "browsing"
  /\ proc' = [proc EXCEPT ![c].tenant = tenant, ![c].upn = upn]
  /\ browser' = browser + 1
  /\ Move(c, "inspecting")
  /\ UNCHANGED <<sessions, lock>>

Stopped(c) == [proc EXCEPT ![c].state = "stopped"]

\* A sign-in is refused or breaks; the finally stops the process.
SignInFails(c, code) ==
  /\ call[c].phase = "browsing"
  /\ proc' = Stopped(c)
  /\ browser' = BrowserAfter(c)
  /\ Failure(c, code)
  /\ UNCHANGED sessions

\* The 240 seconds, which include the wait for the browser.
TimesOut_KeepsProcess(c) ==
  /\ call[c].phase \in {"queued", "browsing", "inspecting"}
  /\ browser' = BrowserAfter(c)
  /\ Failure(c, "microsoft_unavailable")
  /\ UNCHANGED <<sessions, proc>>
TimesOut(c) ==
  /\ call[c].phase \in {"queued", "browsing", "inspecting"}
  /\ proc' = Stopped(c)
  /\ browser' = BrowserAfter(c)
  /\ Failure(c, "microsoft_unavailable")
  /\ UNCHANGED sessions

\* The health checks of _authenticate and _is_candidate_healthy.
Adopt(c) ==
  /\ call[c].phase = "inspecting" /\ Matches(c, c)
  /\ sessions' = [sessions EXCEPT ![Conn(c)] = [process |-> c, idle |-> IdleTTL]]
  /\ Ensured(c, c)
  /\ UNCHANGED <<browser, proc>>

Reject(c) ==
  /\ call[c].phase = "inspecting"
  /\ proc' = Stopped(c)
  /\ Failure(c, "microsoft_unavailable")
  /\ UNCHANGED <<sessions, browser>>

-----------------------------------------------------------------------------
(* The rest of validate, outside of the lock. *)

\* Another call may have stopped the process meanwhile: what it has put into
\* the pipe by then is still read to the marker and answered.
Verified(c) ==
  /\ call[c].phase = "verifying"
  /\ call' = [call EXCEPT ![c].phase = "done", ![c].result = proc[call[c].process].tenant]
  /\ UNCHANGED <<sessions, lock, browser, proc>>

Unverified(c) ==
  /\ call[c].phase = "verifying"
  /\ call' = [call EXCEPT ![c].phase = "done", ![c].result = "microsoft_unavailable"]
  /\ UNCHANGED <<sessions, lock, browser, proc>>

\* The container restarts: sessions are kept in memory only.
Restart ==
  /\ sessions' = [k \in Connections |-> NULL]
  /\ lock' = [k \in Connections |-> NULL]
  /\ browser' = 1
  /\ proc' = [c \in Calls |->
       IF proc[c].state = "running" THEN [proc[c] EXCEPT !.state = "stopped"] ELSE proc[c]]
  /\ call' = [c \in Calls |->
       IF call[c].phase \in {"idle", "done"} THEN call[c]
       ELSE [call[c] EXCEPT !.phase = "done", !.result = "lost"]]

TimePasses ==
  /\ \E k \in Connections : sessions[k] # NULL /\ sessions[k].idle > 0
  /\ sessions' = [k \in Connections |->
       IF sessions[k] # NULL /\ sessions[k].idle > 0
       THEN [sessions[k] EXCEPT !.idle = @ - 1] ELSE sessions[k]]
  /\ UNCHANGED <<lock, browser, proc, call>>

-----------------------------------------------------------------------------
Check(c) == Reuse(c) \/ Unhealthy(c)
Begin(c) == StartProcess(c) \/ StartFails(c)
SignIn(c) ==
  \/ \E tenant \in Tenants, upn \in Emails : SignedIn(c, tenant, upn)
  \/ \E code \in Failures : SignInFails(c, code)
Inspect(c) == Adopt(c) \/ Reject(c)
Answer(c) == Verified(c) \/ Unverified(c)

Next ==
  \/ \E c \in Calls :
       \/ \E request \in Requests : Validate(c, request[1], request[2])
       \/ LookUp(c) \/ Check(c) \/ Dispose(c) \/ Begin(c) \/ TakeBrowser(c) \/ SignIn(c)
       \/ TimesOut(c) \/ Inspect(c) \/ Answer(c)
  \/ Restart
  \/ TimePasses

Spec == Init /\ [][Next]_vars

\* Commands and browser flows end within their own timeouts, a free lock or
\* permit is taken by a call that waits for it, and time passes.  No timeout
\* and no restart is owed.
FairSpec ==
  /\ Spec
  /\ WF_vars(TimePasses)
  /\ \A c \in Calls :
       /\ WF_vars(LookUp(c)) /\ WF_vars(Check(c)) /\ WF_vars(Dispose(c)) /\ WF_vars(Begin(c))
       /\ SF_vars(TakeBrowser(c)) /\ WF_vars(SignIn(c)) /\ WF_vars(Inspect(c))
       /\ WF_vars(Answer(c))

-----------------------------------------------------------------------------
Running(c) == proc[c].state = "running"
Within(c) == call[c].phase \notin {"idle", "waiting", "verifying", "done"}

\* The type invariant.
TypeOK ==
  /\ sessions \in [Connections -> SessionRows \cup {NULL}]
  /\ lock \in [Connections -> Calls \cup {NULL}]
  /\ browser \in {0, 1}
  /\ proc \in [Calls -> ProcRows]
  /\ call \in [Calls -> CallRows]

\* "One PowerShell process group and session key per tenant connection"
\* (docs/architecture/provisioner.md), at any time, also while one process
\* replaces another and while calls overlap.
OneProcessPerConnection ==
  \A c, d \in Calls : Running(c) /\ Running(d) /\ Conn(c) = Conn(d) => c = d

\* No process is left behind: each is the session of the connection it was
\* started for, or its call is still about to authenticate it.
NoProcessLeft ==
  \A c \in Calls : Running(c) =>
    \/ Session(c) # NULL /\ Session(c).process = c
    \/ call[c].phase \in {"queued", "browsing", "inspecting"}

\* The session that is registered for a connection was signed in for that
\* connection, and its process was not stopped behind the registry's back.
SessionsLive ==
  \A k \in Connections : sessions[k] # NULL =>
    Running(sessions[k].process) /\ Conn(sessions[k].process) = k

\* A process runs exactly as long as a session or a call in progress owns it.
ProcessesOwned == NoProcessLeft /\ SessionsLive

\* "Exactly one Zendriver authentication flow may run globally": the permit is
\* neither used twice nor lost, through failures, timeouts and restarts.
OneBrowser ==
  Cardinality({c \in Calls : call[c].phase = "browsing"}) + browser = 1

\* Behind its processes, locks, health checks and timeouts the service is a
\* session per connection: a call joins its administrator's session, ends one
\* that it cannot use or signs in when there is none, and a tenant is reported
\* only of a session that the call was granted, for this very connection and
\* this very administrator.
SignedInAs(p) == [email |-> proc[p].upn, tenant |-> proc[p].tenant]
SessionSeen == [k \in Connections |-> IF sessions[k] = NULL THEN NULL ELSE SignedInAs(sessions[k].process)]
PhaseSeen(c) ==
  CASE call[c].phase \in {"idle", "done"} -> call[c].phase
    [] call[c].phase = "verifying" -> "granted"
    [] OTHER -> "asking"
CallSeen(c) ==
  [phase |-> PhaseSeen(c), conn |-> call[c].conn, email |-> call[c].email,
   granted |-> IF call[c].process = NULL THEN NULL ELSE SignedInAs(call[c].process),
   result |-> call[c].result]
CallsSeen == [c \in Calls |-> CallSeen(c)]

Service == INSTANCE ConnectionSessions WITH session <- SessionSeen, call <- CallsSeen
ImplementsSessions == Service!Spec

\* Every call is answered: the lock of a connection and the browser permit,
\* which is waited for inside of the lock, never block for good.
CallEnds == \A c \in Calls : call[c].phase = "waiting" ~> call[c].phase = "done"

\* "has a 60-minute idle TTL ...; expiry kills its PowerShell process and
\* associated browser work" (docs/architecture/provisioner.md).
ExpiryKills ==
  \A k \in Connections :
    (sessions[k] # NULL /\ sessions[k].idle = 0) ~> (sessions[k] = NULL \/ sessions[k].idle > 0)
=============================================================================
