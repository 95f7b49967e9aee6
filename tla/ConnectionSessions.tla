-------------------------- MODULE ConnectionSessions --------------------------
(***************************************************************************)
(* What a validation gets from the Microsoft sessions, without processes,  *)
(* locks, health checks and timeouts: a connection has a session at most,  *)
(* of the administrator who signed in.  A call that asks joins the session *)
(* that is there if it is its own, or ends it, or signs in when there is   *)
(* none; it reports the tenant of the session it was granted, whatever     *)
(* became of that session, or it fails.                                    *)
(***************************************************************************)
CONSTANTS Calls, Connections, Tenants, Failures, Requests, NULL

VARIABLES
  session,    \* administrator and tenant of the session of a connection
  call        \* the calls, with the session each was granted

vars == <<session, call>>

Idle == [phase |-> "idle", conn |-> NULL, email |-> NULL, granted |-> NULL, result |-> NULL]

Init ==
  /\ session = [k \in Connections |-> NULL]
  /\ call = [c \in Calls |-> Idle]

Phase(c) == call[c].phase
Session(c) == session[call[c].conn]

\* The call goes on to a phase, with what it was granted and its result.
Become(c, phase, granted, result) ==
  call' = [call EXCEPT ![c] =
    [phase |-> phase, conn |-> @.conn, email |-> @.email, granted |-> granted, result |-> result]]

Ask(c, conn, email) ==
  /\ Phase(c) = "idle"
  /\ call' = [call EXCEPT ![c] =
       [phase |-> "asking", conn |-> conn, email |-> email, granted |-> @.granted, result |-> @.result]]
  /\ UNCHANGED session

Join(c) ==
  /\ Phase(c) = "asking" /\ Session(c) # NULL /\ Session(c).email = call[c].email
  /\ Become(c, "granted", Session(c), call[c].result)
  /\ UNCHANGED session

EndSession(c) ==
  /\ Phase(c) = "asking" /\ Session(c) # NULL
  /\ session' = [session EXCEPT ![call[c].conn] = NULL]
  /\ UNCHANGED call

SignIn(c, tenant) ==
  /\ Phase(c) = "asking" /\ Session(c) = NULL
  /\ session' = [session EXCEPT ![call[c].conn] = [email |-> call[c].email, tenant |-> tenant]]
  /\ Become(c, "granted", [email |-> call[c].email, tenant |-> tenant], call[c].result)

Report(c) ==
  /\ Phase(c) = "granted"
  /\ Become(c, "done", call[c].granted, call[c].granted.tenant)
  /\ UNCHANGED session

Fail(c, code) ==
  /\ Phase(c) \in {"asking", "granted"}
  /\ Become(c, "done", call[c].granted, code)
  /\ UNCHANGED session

Lost(c) == [call[c] EXCEPT !.phase = "done", !.result = "lost"]

Restart ==
  /\ session' = [k \in Connections |-> NULL]
  /\ call' = [c \in Calls |-> IF Phase(c) \in {"idle", "done"} THEN call[c] ELSE Lost(c)]

Next ==
  \/ \E c \in Calls :
       \/ \E request \in Requests : Ask(c, request[1], request[2])
       \/ Join(c) \/ EndSession(c) \/ Report(c)
       \/ \E tenant \in Tenants : SignIn(c, tenant)
       \/ \E code \in Failures : Fail(c, code)
  \/ Restart

Spec == Init /\ [][Next]_vars
=============================================================================
