------------------------ MODULE SessionRegistry_proofs ------------------------
(* Theorems of SessionRegistry, for any calls, connections, administrators   *)
(* and tenants, with restarts.  One inductive invariant carries them: a call *)
(* inside ensure has the lock of its connection, and with it alone decides   *)
(* what is registered and what runs for that connection.                     *)
EXTENDS SessionRegistry, FiniteSetTheorems, TLAPS

Unsettled == {"idle", "waiting", "checking", "disposing", "starting"}
SigningIn == {"queued", "browsing", "inspecting"}
Past == {"verifying", "done"}

CallsNamed ==
  \A c \in Calls : call[c].phase # "idle" => call[c].conn \in Connections /\ call[c].email \in Emails

LocksHeld == \A c \in Calls : Within(c) => lock[Conn(c)] = c

ProcessesOfPhases ==
  \A c \in Calls :
    /\ call[c].phase \in Unsettled => proc[c].state = "none"
    /\ call[c].phase \in SigningIn => proc[c].state = "running"
    /\ call[c].phase \notin Past => call[c].process = NULL
    /\ call[c].phase = "verifying" => call[c].process # NULL

SessionsOfPhases ==
  \A c \in Calls :
    /\ call[c].phase \in {"checking", "disposing"} => Session(c) # NULL
    /\ call[c].phase \in SigningIn \cup {"starting"} => Session(c) = NULL

\* A process is registered once the call that started it has ended ensure.
SessionsSettled ==
  \A k \in Connections : sessions[k] # NULL =>
    LET p == sessions[k].process
    IN  proc[p].state = "running" /\ call[p].conn = k /\ call[p].phase \in Past

\* The process of a call was signed in as the call asks.
ProcessesOfCalls ==
  \A c \in Calls : call[c].process # NULL =>
    LET p == call[c].process
    IN  call[p].phase \in Past /\ call[p].conn = call[c].conn /\ proc[p].upn = call[c].email

ResultsOfProcesses ==
  \A c \in Calls : call[c].result \in Tenants =>
    call[c].process # NULL /\ proc[call[c].process].tenant = call[c].result

IInv ==
  /\ TypeOK /\ CallsNamed /\ LocksHeld /\ ProcessesOfPhases /\ SessionsOfPhases /\ SessionsSettled
  /\ NoProcessLeft /\ ProcessesOfCalls /\ ResultsOfProcesses /\ OneBrowser

-----------------------------------------------------------------------------
(* What the helpers leave has the type of the variable. *)

LEMMA CallTyped ==
  ASSUME TypeOK, NEW c \in Calls, NEW row \in CallRows, call' = [call EXCEPT ![c] = row]
  PROVE  call' \in [Calls -> CallRows]
BY DEF TypeOK

LEMMA MoveTyped ==
  ASSUME TypeOK, NEW c \in Calls, NEW phase \in Phases, Move(c, phase)
  PROVE  call' \in [Calls -> CallRows]
<1>1. [call[c] EXCEPT !.phase = phase] \in CallRows
  BY DEF TypeOK, CallRows
<1> QED BY <1>1, CallTyped DEF Move

LEMMA FailureTyped ==
  ASSUME TypeOK, NEW c \in Calls, NEW code \in Failures, Failure(c, code)
  PROVE  call' \in [Calls -> CallRows] /\ lock' \in [Connections -> Calls \cup {NULL}]
<1>1. [call[c] EXCEPT !.phase = "done", !.result = code] \in CallRows
  BY DEF TypeOK, CallRows, Phases
<1>2. call' \in [Calls -> CallRows]
  BY <1>1, CallTyped DEF Failure
<1> QED BY <1>2 DEF Failure, Unlock, TypeOK

LEMMA EnsuredTyped ==
  ASSUME TypeOK, NEW c \in Calls, NEW p \in Calls, Ensured(c, p)
  PROVE  call' \in [Calls -> CallRows] /\ lock' \in [Connections -> Calls \cup {NULL}]
<1>1. [call[c] EXCEPT !.phase = "verifying", !.process = p] \in CallRows
  BY DEF TypeOK, CallRows, Phases
<1>2. call' \in [Calls -> CallRows]
  BY <1>1, CallTyped DEF Ensured
<1> QED BY <1>2 DEF Ensured, Unlock, TypeOK

LEMMA StateTyped ==
  ASSUME TypeOK, NEW c \in Calls, NEW state \in {"none", "running", "stopped"}
  PROVE  [proc EXCEPT ![c].state = state] \in [Calls -> ProcRows]
BY DEF TypeOK, ProcRows

LEMMA SessionTyped ==
  ASSUME TypeOK, NEW p \in Calls, NEW idle \in 0..IdleTTL
  PROVE  [process |-> p, idle |-> idle] \in SessionRows
BY DEF SessionRows

LEMMA SessionReset ==
  ASSUME TypeOK, NEW k \in Connections, sessions[k] # NULL
  PROVE  /\ [sessions[k] EXCEPT !.idle = IdleTTL] \in SessionRows
         /\ sessions[k].process \in Calls
BY SessionAssumption DEF TypeOK, SessionRows

Browsing == {c \in Calls : call[c].phase = "browsing"}

LEMMA BrowsersCounted ==
  ASSUME NEW S \in SUBSET Calls
  PROVE  /\ IsFiniteSet(S) /\ Cardinality(S) \in Nat
         /\ \A c \in Calls \ S : Cardinality(S \cup {c}) = Cardinality(S) + 1
         /\ \A c \in S : Cardinality(S \ {c}) = Cardinality(S) - 1
BY SessionAssumption, FS_Subset, FS_CardinalityType, FS_AddElement, FS_RemoveElement

LEMMA BrowserInUse ==
  ASSUME IInv, NEW c \in Calls, call[c].phase = "browsing"
  PROVE  browser = 0
<1>1. c \in Browsing /\ Browsing \in SUBSET Calls
  BY DEF Browsing
<1>2. Cardinality(Browsing \ {c}) = Cardinality(Browsing) - 1 /\ Cardinality(Browsing \ {c}) \in Nat
      /\ Cardinality(Browsing) \in Nat
  BY <1>1, BrowsersCounted
<1> QED BY <1>2 DEF IInv, OneBrowser, Browsing, TypeOK

-----------------------------------------------------------------------------
(* Every action keeps the invariant. *)

LEMMA ValidateHolds ==
  ASSUME IInv, NEW c \in Calls, NEW conn \in Connections, NEW email \in Emails, Validate(c, conn, email)
  PROVE  TypeOK' /\ CallsNamed' /\ LocksHeld' /\ ProcessesOfPhases' /\ SessionsOfPhases'
         /\ SessionsSettled' /\ NoProcessLeft' /\ ProcessesOfCalls' /\ ResultsOfProcesses'
<1> USE DEF IInv, TypeOK, Validate, Conn, Session, Unsettled, SigningIn, Past
<1>1. TypeOK'
  <2>1. [call[c] EXCEPT !.phase = "waiting", !.conn = conn, !.email = email] \in CallRows
    BY SessionAssumption DEF CallRows, Phases
  <2> QED BY <2>1, CallTyped
<1>2. CallsNamed'
  BY SessionAssumption DEF CallsNamed
<1>3. LocksHeld'
  BY SessionAssumption DEF CallsNamed, LocksHeld, Within
<1>4. ProcessesOfPhases'
  BY SessionAssumption DEF ProcessesOfPhases
<1>5. SessionsOfPhases'
  BY SessionAssumption DEF CallsNamed, LocksHeld, Within, SessionsOfPhases, SessionRows
<1>6. SessionsSettled'
  BY SessionAssumption DEF CallsNamed, LocksHeld, Within, ProcessesOfPhases, SessionsOfPhases,
         SessionsSettled, SessionRows
<1>7. NoProcessLeft'
  BY SessionAssumption DEF CallsNamed, LocksHeld, Within, ProcessesOfPhases, SessionsOfPhases,
         SessionsSettled, NoProcessLeft, Running, SessionRows
<1>8. ProcessesOfCalls'
  BY SessionAssumption DEF CallsNamed, ProcessesOfPhases, SessionsOfPhases, SessionsSettled,
         ProcessesOfCalls, CallRows
<1>9. ResultsOfProcesses'
  BY SessionAssumption DEF ProcessesOfPhases, ProcessesOfCalls, ResultsOfProcesses, CallRows
<1> QED BY <1>1, <1>2, <1>3, <1>4, <1>5, <1>6, <1>7, <1>8, <1>9

LEMMA LookUpHolds ==
  ASSUME IInv, NEW c \in Calls, LookUp(c)
  PROVE  TypeOK' /\ CallsNamed' /\ LocksHeld' /\ ProcessesOfPhases' /\ SessionsOfPhases'
         /\ SessionsSettled' /\ NoProcessLeft' /\ ProcessesOfCalls' /\ ResultsOfProcesses'
<1> USE DEF IInv, TypeOK, LookUp, Conn, Session, Unsettled, SigningIn, Past
<1>1. TypeOK'
  <2>1. PICK phase \in Phases : Move(c, phase)
    BY DEF Phases
  <2> QED BY <2>1, MoveTyped, SessionAssumption DEF CallsNamed
<1>2. CallsNamed'
  BY SessionAssumption DEF CallsNamed, Move
<1>3. LocksHeld'
  BY SessionAssumption DEF CallsNamed, LocksHeld, Within, Move
<1>4. ProcessesOfPhases'
  BY SessionAssumption DEF ProcessesOfPhases, Move
<1>5. SessionsOfPhases'
  BY SessionAssumption DEF CallsNamed, LocksHeld, Within, SessionsOfPhases, SessionRows, Move
<1>6. SessionsSettled'
  BY SessionAssumption DEF CallsNamed, LocksHeld, Within, ProcessesOfPhases, SessionsOfPhases,
         SessionsSettled, SessionRows, Move
<1>7. NoProcessLeft'
  BY SessionAssumption DEF CallsNamed, LocksHeld, Within, ProcessesOfPhases, SessionsOfPhases,
         SessionsSettled, NoProcessLeft, Running, SessionRows, Move
<1>8. ProcessesOfCalls'
  BY SessionAssumption DEF CallsNamed, ProcessesOfPhases, SessionsOfPhases, SessionsSettled,
         ProcessesOfCalls, CallRows, Move
<1>9. ResultsOfProcesses'
  BY SessionAssumption DEF ProcessesOfPhases, ProcessesOfCalls, ResultsOfProcesses, CallRows, Move
<1> QED BY <1>1, <1>2, <1>3, <1>4, <1>5, <1>6, <1>7, <1>8, <1>9

LEMMA ReuseHolds ==
  ASSUME IInv, NEW c \in Calls, Reuse(c)
  PROVE  TypeOK' /\ CallsNamed' /\ LocksHeld' /\ ProcessesOfPhases' /\ SessionsOfPhases'
         /\ SessionsSettled' /\ NoProcessLeft' /\ ProcessesOfCalls' /\ ResultsOfProcesses'
<1> USE DEF IInv, TypeOK, Reuse, Conn, Session, Unsettled, SigningIn, Past
<1>1. TypeOK'
  <2>1. Session(c) # NULL /\ Conn(c) \in Connections
    BY DEF SessionsOfPhases, CallsNamed
  <2>2. [Session(c) EXCEPT !.idle = IdleTTL] \in SessionRows /\ Session(c).process \in Calls
    BY <2>1, SessionReset
  <2>3. sessions' \in [Connections -> SessionRows \cup {NULL}]
    BY <2>2
  <2> QED BY <2>2, <2>3, EnsuredTyped
<1>2. CallsNamed'
  BY SessionAssumption DEF CallsNamed, Matches, Ensured, Unlock
<1>3. LocksHeld'
  BY SessionAssumption DEF CallsNamed, LocksHeld, Within, Matches, Ensured, Unlock
<1>4. ProcessesOfPhases'
  BY SessionAssumption DEF CallsNamed, ProcessesOfPhases, SessionsOfPhases, SessionRows, Matches, Ensured,
         Unlock
<1>5. SessionsOfPhases'
  BY SessionAssumption DEF CallsNamed, LocksHeld, Within, SessionsOfPhases, SessionRows, Matches,
         Ensured, Unlock
<1>6. SessionsSettled'
  BY SessionAssumption DEF CallsNamed, LocksHeld, Within, ProcessesOfPhases, SessionsOfPhases,
         SessionsSettled, SessionRows, Matches, Ensured, Unlock
<1>7. NoProcessLeft'
  <2>1. ASSUME NEW d \in Calls, Running(d)'
        PROVE  (Session(d) # NULL /\ Session(d).process = d) \/ call[d].phase \in SigningIn
    BY <2>1 DEF NoProcessLeft, Running
  <2>2. ASSUME NEW d \in Calls, Running(d)'
        PROVE  (Session(d)' # NULL /\ Session(d)'.process = d) \/ call'[d].phase \in SigningIn
    BY <2>1, <2>2, SessionAssumption
       DEF CallsNamed, LocksHeld, Within, SessionsOfPhases, SessionRows, Ensured
  <2> QED BY <2>2 DEF NoProcessLeft
<1>8. ProcessesOfCalls'
  BY SessionAssumption DEF CallsNamed, ProcessesOfPhases, SessionsOfPhases, SessionsSettled,
         ProcessesOfCalls, CallRows, Matches, Ensured, Unlock
<1>9. ResultsOfProcesses'
  BY SessionAssumption DEF ProcessesOfPhases, ProcessesOfCalls, ResultsOfProcesses, CallRows,
         Matches, Ensured, Unlock
<1> QED BY <1>1, <1>2, <1>3, <1>4, <1>5, <1>6, <1>7, <1>8, <1>9

LEMMA UnhealthyHolds ==
  ASSUME IInv, NEW c \in Calls, Unhealthy(c)
  PROVE  TypeOK' /\ CallsNamed' /\ LocksHeld' /\ ProcessesOfPhases' /\ SessionsOfPhases'
         /\ SessionsSettled' /\ NoProcessLeft' /\ ProcessesOfCalls' /\ ResultsOfProcesses'
<1> USE DEF IInv, TypeOK, Unhealthy, Conn, Session, Unsettled, SigningIn, Past
<1>1. TypeOK'
  BY MoveTyped DEF Phases
<1>2. CallsNamed'
  BY SessionAssumption DEF CallsNamed, Move
<1>3. LocksHeld'
  BY SessionAssumption DEF CallsNamed, LocksHeld, Within, Move
<1>4. ProcessesOfPhases'
  BY SessionAssumption DEF ProcessesOfPhases, Move
<1>5. SessionsOfPhases'
  BY SessionAssumption DEF CallsNamed, LocksHeld, Within, SessionsOfPhases, SessionRows, Move
<1>6. SessionsSettled'
  BY SessionAssumption DEF CallsNamed, LocksHeld, Within, ProcessesOfPhases, SessionsOfPhases,
         SessionsSettled, SessionRows, Move
<1>7. NoProcessLeft'
  BY SessionAssumption DEF CallsNamed, LocksHeld, Within, ProcessesOfPhases, SessionsOfPhases,
         SessionsSettled, NoProcessLeft, Running, SessionRows, Move
<1>8. ProcessesOfCalls'
  BY SessionAssumption DEF CallsNamed, ProcessesOfPhases, SessionsOfPhases, SessionsSettled,
         ProcessesOfCalls, CallRows, Move
<1>9. ResultsOfProcesses'
  BY SessionAssumption DEF ProcessesOfPhases, ProcessesOfCalls, ResultsOfProcesses, CallRows, Move
<1> QED BY <1>1, <1>2, <1>3, <1>4, <1>5, <1>6, <1>7, <1>8, <1>9

LEMMA DisposeHolds ==
  ASSUME IInv, NEW c \in Calls, Dispose(c)
  PROVE  TypeOK' /\ CallsNamed' /\ LocksHeld' /\ ProcessesOfPhases' /\ SessionsOfPhases'
         /\ SessionsSettled' /\ NoProcessLeft' /\ ProcessesOfCalls' /\ ResultsOfProcesses'
<1> USE DEF IInv, TypeOK, Dispose, Conn, Session, Unsettled, SigningIn, Past
<1>1. TypeOK'
  <2>1. Session(c) # NULL /\ Conn(c) \in Connections
    BY DEF SessionsOfPhases, CallsNamed
  <2>2. proc' \in [Calls -> ProcRows]
    BY <2>1, SessionReset, StateTyped
  <2>3. call' \in [Calls -> CallRows]
    BY MoveTyped DEF Phases
  <2> QED BY <2>2, <2>3
<1>2. CallsNamed'
  BY SessionAssumption DEF CallsNamed, Move
<1>3. LocksHeld'
  BY SessionAssumption DEF CallsNamed, LocksHeld, Within, Move
<1>4. ProcessesOfPhases'
  BY SessionAssumption DEF CallsNamed, ProcessesOfPhases, SessionsOfPhases, SessionsSettled, Move
<1>5. SessionsOfPhases'
  BY SessionAssumption DEF CallsNamed, LocksHeld, Within, SessionsOfPhases, SessionRows, Move
<1>6. SessionsSettled'
  BY SessionAssumption DEF CallsNamed, LocksHeld, Within, ProcessesOfPhases, SessionsOfPhases,
         SessionsSettled, SessionRows, Move
<1>7. NoProcessLeft'
  BY SessionAssumption DEF CallsNamed, LocksHeld, Within, ProcessesOfPhases, SessionsOfPhases,
         SessionsSettled, NoProcessLeft, Running, SessionRows, Move
<1>8. ProcessesOfCalls'
  BY SessionAssumption DEF CallsNamed, ProcessesOfPhases, SessionsOfPhases, SessionsSettled,
         ProcessesOfCalls, CallRows, Move
<1>9. ResultsOfProcesses'
  BY SessionAssumption DEF ProcessesOfPhases, ProcessesOfCalls, ResultsOfProcesses, CallRows, Move
<1> QED BY <1>1, <1>2, <1>3, <1>4, <1>5, <1>6, <1>7, <1>8, <1>9

LEMMA StartProcessHolds ==
  ASSUME IInv, NEW c \in Calls, StartProcess(c)
  PROVE  TypeOK' /\ CallsNamed' /\ LocksHeld' /\ ProcessesOfPhases' /\ SessionsOfPhases'
         /\ SessionsSettled' /\ NoProcessLeft' /\ ProcessesOfCalls' /\ ResultsOfProcesses'
<1> USE DEF IInv, TypeOK, StartProcess, Conn, Session, Unsettled, SigningIn, Past
<1>1. TypeOK'
  <2>1. proc' \in [Calls -> ProcRows]
    BY StateTyped
  <2>2. call' \in [Calls -> CallRows]
    BY MoveTyped DEF Phases
  <2> QED BY <2>1, <2>2
<1>2. CallsNamed'
  BY SessionAssumption DEF CallsNamed, Move
<1>3. LocksHeld'
  BY SessionAssumption DEF CallsNamed, LocksHeld, Within, Move
<1>4. ProcessesOfPhases'
  BY SessionAssumption DEF ProcessesOfPhases, Move
<1>5. SessionsOfPhases'
  BY SessionAssumption DEF CallsNamed, LocksHeld, Within, SessionsOfPhases, SessionRows, Move
<1>6. SessionsSettled'
  BY SessionAssumption DEF CallsNamed, LocksHeld, Within, ProcessesOfPhases, SessionsOfPhases,
         SessionsSettled, SessionRows, Move
<1>7. NoProcessLeft'
  BY SessionAssumption DEF CallsNamed, LocksHeld, Within, ProcessesOfPhases, SessionsOfPhases,
         SessionsSettled, NoProcessLeft, Running, SessionRows, Move
<1>8. ProcessesOfCalls'
  BY SessionAssumption DEF CallsNamed, ProcessesOfPhases, SessionsOfPhases, SessionsSettled,
         ProcessesOfCalls, CallRows, Move
<1>9. ResultsOfProcesses'
  BY SessionAssumption DEF ProcessesOfPhases, ProcessesOfCalls, ResultsOfProcesses, CallRows, Move
<1> QED BY <1>1, <1>2, <1>3, <1>4, <1>5, <1>6, <1>7, <1>8, <1>9

LEMMA StartFailsHolds ==
  ASSUME IInv, NEW c \in Calls, StartFails(c)
  PROVE  TypeOK' /\ CallsNamed' /\ LocksHeld' /\ ProcessesOfPhases' /\ SessionsOfPhases'
         /\ SessionsSettled' /\ NoProcessLeft' /\ ProcessesOfCalls' /\ ResultsOfProcesses'
<1> USE DEF IInv, TypeOK, StartFails, Conn, Session, Unsettled, SigningIn, Past
<1>1. TypeOK'
  <2>1. call' \in [Calls -> CallRows] /\ lock' \in [Connections -> Calls \cup {NULL}]
    BY FailureTyped, SessionAssumption
  <2> QED BY <2>1
<1>2. CallsNamed'
  BY SessionAssumption DEF CallsNamed, Failure, Unlock
<1>3. LocksHeld'
  BY SessionAssumption DEF CallsNamed, LocksHeld, Within, Failure, Unlock
<1>4. ProcessesOfPhases'
  BY SessionAssumption DEF ProcessesOfPhases, Failure, Unlock
<1>5. SessionsOfPhases'
  BY SessionAssumption DEF CallsNamed, LocksHeld, Within, SessionsOfPhases, SessionRows, Failure,
         Unlock
<1>6. SessionsSettled'
  BY SessionAssumption DEF CallsNamed, LocksHeld, Within, ProcessesOfPhases, SessionsOfPhases,
         SessionsSettled, SessionRows, Failure, Unlock
<1>7. NoProcessLeft'
  BY SessionAssumption DEF CallsNamed, LocksHeld, Within, ProcessesOfPhases, SessionsOfPhases,
         SessionsSettled, NoProcessLeft, Running, SessionRows, Failure, Unlock
<1>8. ProcessesOfCalls'
  BY SessionAssumption DEF CallsNamed, ProcessesOfPhases, SessionsOfPhases, SessionsSettled,
         ProcessesOfCalls, CallRows, Failure, Unlock
<1>9. ResultsOfProcesses'
  BY SessionAssumption DEF ProcessesOfPhases, ProcessesOfCalls, ResultsOfProcesses, CallRows,
         Failure, Unlock
<1> QED BY <1>1, <1>2, <1>3, <1>4, <1>5, <1>6, <1>7, <1>8, <1>9

LEMMA TakeBrowserHolds ==
  ASSUME IInv, NEW c \in Calls, TakeBrowser(c)
  PROVE  TypeOK' /\ CallsNamed' /\ LocksHeld' /\ ProcessesOfPhases' /\ SessionsOfPhases'
         /\ SessionsSettled' /\ NoProcessLeft' /\ ProcessesOfCalls' /\ ResultsOfProcesses'
<1> USE DEF IInv, TypeOK, TakeBrowser, Conn, Session, Unsettled, SigningIn, Past
<1>1. TypeOK'
  <2>1. call' \in [Calls -> CallRows]
    BY MoveTyped DEF Phases
  <2> QED BY <2>1
<1>2. CallsNamed'
  BY SessionAssumption DEF CallsNamed, Move
<1>3. LocksHeld'
  BY SessionAssumption DEF CallsNamed, LocksHeld, Within, Move
<1>4. ProcessesOfPhases'
  BY SessionAssumption DEF ProcessesOfPhases, Move
<1>5. SessionsOfPhases'
  BY SessionAssumption DEF CallsNamed, LocksHeld, Within, SessionsOfPhases, SessionRows, Move
<1>6. SessionsSettled'
  BY SessionAssumption DEF CallsNamed, LocksHeld, Within, ProcessesOfPhases, SessionsOfPhases,
         SessionsSettled, SessionRows, Move
<1>7. NoProcessLeft'
  BY SessionAssumption DEF CallsNamed, LocksHeld, Within, ProcessesOfPhases, SessionsOfPhases,
         SessionsSettled, NoProcessLeft, Running, SessionRows, Move
<1>8. ProcessesOfCalls'
  BY SessionAssumption DEF CallsNamed, ProcessesOfPhases, SessionsOfPhases, SessionsSettled,
         ProcessesOfCalls, CallRows, Move
<1>9. ResultsOfProcesses'
  BY SessionAssumption DEF ProcessesOfPhases, ProcessesOfCalls, ResultsOfProcesses, CallRows, Move
<1> QED BY <1>1, <1>2, <1>3, <1>4, <1>5, <1>6, <1>7, <1>8, <1>9

LEMMA SignedInHolds ==
  ASSUME IInv, NEW c \in Calls, NEW tenant \in Tenants, NEW upn \in Emails, SignedIn(c, tenant, upn)
  PROVE  TypeOK' /\ CallsNamed' /\ LocksHeld' /\ ProcessesOfPhases' /\ SessionsOfPhases'
         /\ SessionsSettled' /\ NoProcessLeft' /\ ProcessesOfCalls' /\ ResultsOfProcesses'
<1> USE DEF IInv, TypeOK, SignedIn, Conn, Session, Unsettled, SigningIn, Past
<1>1. TypeOK'
  <2>1. [proc[c] EXCEPT !.tenant = tenant, !.upn = upn] \in ProcRows
    BY DEF ProcRows
  <2>2. proc' \in [Calls -> ProcRows]
    BY <2>1
  <2>3. call' \in [Calls -> CallRows]
    BY MoveTyped DEF Phases
  <2>4. browser = 0
    BY BrowserInUse
  <2> QED BY <2>2, <2>3, <2>4
<1>2. CallsNamed'
  BY SessionAssumption DEF CallsNamed, Move
<1>3. LocksHeld'
  BY SessionAssumption DEF CallsNamed, LocksHeld, Within, Move
<1>4. ProcessesOfPhases'
  BY SessionAssumption DEF ProcessesOfPhases, Move
<1>5. SessionsOfPhases'
  BY SessionAssumption DEF CallsNamed, LocksHeld, Within, SessionsOfPhases, SessionRows, Move
<1>6. SessionsSettled'
  BY SessionAssumption DEF CallsNamed, LocksHeld, Within, ProcessesOfPhases, SessionsOfPhases,
         SessionsSettled, SessionRows, Move
<1>7. NoProcessLeft'
  BY SessionAssumption DEF CallsNamed, LocksHeld, Within, ProcessesOfPhases, SessionsOfPhases,
         SessionsSettled, NoProcessLeft, Running, SessionRows, Move
<1>8. ProcessesOfCalls'
  BY SessionAssumption DEF CallsNamed, ProcessesOfPhases, SessionsOfPhases, SessionsSettled,
         ProcessesOfCalls, CallRows, Move
<1>9. ResultsOfProcesses'
  BY SessionAssumption DEF ProcessesOfPhases, ProcessesOfCalls, ResultsOfProcesses, CallRows, Move
<1> QED BY <1>1, <1>2, <1>3, <1>4, <1>5, <1>6, <1>7, <1>8, <1>9

LEMMA SignInFailsHolds ==
  ASSUME IInv, NEW c \in Calls, NEW code \in Failures, SignInFails(c, code)
  PROVE  TypeOK' /\ CallsNamed' /\ LocksHeld' /\ ProcessesOfPhases' /\ SessionsOfPhases'
         /\ SessionsSettled' /\ NoProcessLeft' /\ ProcessesOfCalls' /\ ResultsOfProcesses'
<1> USE DEF IInv, TypeOK, SignInFails, Conn, Session, Unsettled, SigningIn, Past
<1>1. TypeOK'
  <2>1. call' \in [Calls -> CallRows] /\ lock' \in [Connections -> Calls \cup {NULL}]
    BY FailureTyped
  <2>2. proc' \in [Calls -> ProcRows]
    BY StateTyped DEF Stopped
  <2>3. browser' \in {0, 1}
    BY BrowserInUse DEF BrowserAfter
  <2> QED BY <2>1, <2>2, <2>3
<1>2. CallsNamed'
  BY SessionAssumption DEF CallsNamed, Stopped, Failure, Unlock
<1>3. LocksHeld'
  BY SessionAssumption DEF CallsNamed, LocksHeld, Within, Stopped, Failure, Unlock
<1>4. ProcessesOfPhases'
  BY SessionAssumption DEF ProcessesOfPhases, Stopped, Failure, Unlock
<1>5. SessionsOfPhases'
  BY SessionAssumption DEF CallsNamed, LocksHeld, Within, SessionsOfPhases, SessionRows, Stopped,
         Failure, Unlock
<1>6. SessionsSettled'
  BY SessionAssumption DEF CallsNamed, LocksHeld, Within, ProcessesOfPhases, SessionsOfPhases,
         SessionsSettled, SessionRows, Stopped, Failure, Unlock
<1>7. NoProcessLeft'
  BY SessionAssumption DEF CallsNamed, LocksHeld, Within, ProcessesOfPhases, SessionsOfPhases,
         SessionsSettled, NoProcessLeft, Running, SessionRows, Stopped, Failure, Unlock
<1>8. ProcessesOfCalls'
  BY SessionAssumption DEF CallsNamed, ProcessesOfPhases, SessionsOfPhases, SessionsSettled,
         ProcessesOfCalls, CallRows, Stopped, Failure, Unlock
<1>9. ResultsOfProcesses'
  BY SessionAssumption DEF ProcessesOfPhases, ProcessesOfCalls, ResultsOfProcesses, CallRows,
         Stopped, Failure, Unlock
<1> QED BY <1>1, <1>2, <1>3, <1>4, <1>5, <1>6, <1>7, <1>8, <1>9

LEMMA TimesOutHolds ==
  ASSUME IInv, NEW c \in Calls, TimesOut(c)
  PROVE  TypeOK' /\ CallsNamed' /\ LocksHeld' /\ ProcessesOfPhases' /\ SessionsOfPhases'
         /\ SessionsSettled' /\ NoProcessLeft' /\ ProcessesOfCalls' /\ ResultsOfProcesses'
<1> USE DEF IInv, TypeOK, TimesOut, Conn, Session, Unsettled, SigningIn, Past
<1>1. TypeOK'
  <2>1. call' \in [Calls -> CallRows] /\ lock' \in [Connections -> Calls \cup {NULL}]
    BY FailureTyped, SessionAssumption
  <2>2. proc' \in [Calls -> ProcRows]
    BY StateTyped DEF Stopped
  <2>3. browser' \in {0, 1}
    BY BrowserInUse DEF BrowserAfter
  <2> QED BY <2>1, <2>2, <2>3
<1>2. CallsNamed'
  BY SessionAssumption DEF CallsNamed, Stopped, Failure, Unlock
<1>3. LocksHeld'
  BY SessionAssumption DEF CallsNamed, LocksHeld, Within, Stopped, Failure, Unlock
<1>4. ProcessesOfPhases'
  BY SessionAssumption DEF ProcessesOfPhases, Stopped, Failure, Unlock
<1>5. SessionsOfPhases'
  BY SessionAssumption DEF CallsNamed, LocksHeld, Within, SessionsOfPhases, SessionRows, Stopped,
         Failure, Unlock
<1>6. SessionsSettled'
  BY SessionAssumption DEF CallsNamed, LocksHeld, Within, ProcessesOfPhases, SessionsOfPhases,
         SessionsSettled, SessionRows, Stopped, Failure, Unlock
<1>7. NoProcessLeft'
  BY SessionAssumption DEF CallsNamed, LocksHeld, Within, ProcessesOfPhases, SessionsOfPhases,
         SessionsSettled, NoProcessLeft, Running, SessionRows, Stopped, Failure, Unlock
<1>8. ProcessesOfCalls'
  BY SessionAssumption DEF CallsNamed, ProcessesOfPhases, SessionsOfPhases, SessionsSettled,
         ProcessesOfCalls, CallRows, Stopped, Failure, Unlock
<1>9. ResultsOfProcesses'
  BY SessionAssumption DEF ProcessesOfPhases, ProcessesOfCalls, ResultsOfProcesses, CallRows,
         Stopped, Failure, Unlock
<1> QED BY <1>1, <1>2, <1>3, <1>4, <1>5, <1>6, <1>7, <1>8, <1>9

LEMMA AdoptHolds ==
  ASSUME IInv, NEW c \in Calls, Adopt(c)
  PROVE  TypeOK' /\ CallsNamed' /\ LocksHeld' /\ ProcessesOfPhases' /\ SessionsOfPhases'
         /\ SessionsSettled' /\ NoProcessLeft' /\ ProcessesOfCalls' /\ ResultsOfProcesses'
<1> USE DEF IInv, TypeOK, Adopt, Conn, Session, Unsettled, SigningIn, Past
<1>1. TypeOK'
  <2>1. sessions' \in [Connections -> SessionRows \cup {NULL}]
    BY SessionTyped, SessionAssumption DEF CallsNamed
  <2> QED BY <2>1, EnsuredTyped
<1>2. CallsNamed'
  BY SessionAssumption DEF CallsNamed, Matches, Ensured, Unlock
<1>3. LocksHeld'
  BY SessionAssumption DEF CallsNamed, LocksHeld, Within, Matches, Ensured, Unlock
<1>4. ProcessesOfPhases'
  BY SessionAssumption DEF ProcessesOfPhases, Matches, Ensured, Unlock
<1>5. SessionsOfPhases'
  BY SessionAssumption DEF CallsNamed, LocksHeld, Within, SessionsOfPhases, SessionRows, Matches,
         Ensured, Unlock
<1>6. SessionsSettled'
  BY SessionAssumption DEF CallsNamed, LocksHeld, Within, ProcessesOfPhases, SessionsOfPhases,
         SessionsSettled, SessionRows, Matches, Ensured, Unlock
<1>7. NoProcessLeft'
  <2>1. ASSUME NEW d \in Calls, Running(d)'
        PROVE  (Session(d) # NULL /\ Session(d).process = d) \/ call[d].phase \in SigningIn
    BY <2>1 DEF NoProcessLeft, Running
  <2>2. ASSUME NEW d \in Calls, Running(d)'
        PROVE  (Session(d)' # NULL /\ Session(d)'.process = d) \/ call'[d].phase \in SigningIn
    BY <2>1, <2>2, SessionAssumption
       DEF CallsNamed, LocksHeld, Within, SessionsOfPhases, SessionRows, Ensured, Matches
  <2> QED BY <2>2 DEF NoProcessLeft
<1>8. ProcessesOfCalls'
  BY SessionAssumption DEF CallsNamed, ProcessesOfPhases, SessionsOfPhases, SessionsSettled,
         ProcessesOfCalls, CallRows, Matches, Ensured, Unlock
<1>9. ResultsOfProcesses'
  BY SessionAssumption DEF ProcessesOfPhases, ProcessesOfCalls, ResultsOfProcesses, CallRows,
         Matches, Ensured, Unlock
<1> QED BY <1>1, <1>2, <1>3, <1>4, <1>5, <1>6, <1>7, <1>8, <1>9

LEMMA RejectHolds ==
  ASSUME IInv, NEW c \in Calls, Reject(c)
  PROVE  TypeOK' /\ CallsNamed' /\ LocksHeld' /\ ProcessesOfPhases' /\ SessionsOfPhases'
         /\ SessionsSettled' /\ NoProcessLeft' /\ ProcessesOfCalls' /\ ResultsOfProcesses'
<1> USE DEF IInv, TypeOK, Reject, Conn, Session, Unsettled, SigningIn, Past
<1>1. TypeOK'
  <2>1. call' \in [Calls -> CallRows] /\ lock' \in [Connections -> Calls \cup {NULL}]
    BY FailureTyped, SessionAssumption
  <2>2. proc' \in [Calls -> ProcRows]
    BY StateTyped DEF Stopped
  <2> QED BY <2>1, <2>2
<1>2. CallsNamed'
  BY SessionAssumption DEF CallsNamed, Stopped, Failure, Unlock
<1>3. LocksHeld'
  BY SessionAssumption DEF CallsNamed, LocksHeld, Within, Stopped, Failure, Unlock
<1>4. ProcessesOfPhases'
  BY SessionAssumption DEF ProcessesOfPhases, Stopped, Failure, Unlock
<1>5. SessionsOfPhases'
  BY SessionAssumption DEF CallsNamed, LocksHeld, Within, SessionsOfPhases, SessionRows, Stopped,
         Failure, Unlock
<1>6. SessionsSettled'
  BY SessionAssumption DEF CallsNamed, LocksHeld, Within, ProcessesOfPhases, SessionsOfPhases,
         SessionsSettled, SessionRows, Stopped, Failure, Unlock
<1>7. NoProcessLeft'
  BY SessionAssumption DEF CallsNamed, LocksHeld, Within, ProcessesOfPhases, SessionsOfPhases,
         SessionsSettled, NoProcessLeft, Running, SessionRows, Stopped, Failure, Unlock
<1>8. ProcessesOfCalls'
  BY SessionAssumption DEF CallsNamed, ProcessesOfPhases, SessionsOfPhases, SessionsSettled,
         ProcessesOfCalls, CallRows, Stopped, Failure, Unlock
<1>9. ResultsOfProcesses'
  BY SessionAssumption DEF ProcessesOfPhases, ProcessesOfCalls, ResultsOfProcesses, CallRows,
         Stopped, Failure, Unlock
<1> QED BY <1>1, <1>2, <1>3, <1>4, <1>5, <1>6, <1>7, <1>8, <1>9

LEMMA VerifiedHolds ==
  ASSUME IInv, NEW c \in Calls, Verified(c)
  PROVE  TypeOK' /\ CallsNamed' /\ LocksHeld' /\ ProcessesOfPhases' /\ SessionsOfPhases'
         /\ SessionsSettled' /\ NoProcessLeft' /\ ProcessesOfCalls' /\ ResultsOfProcesses'
<1> USE DEF IInv, TypeOK, Verified, Conn, Session, Unsettled, SigningIn, Past
<1>1. TypeOK'
  <2>1. [call[c] EXCEPT !.phase = "done", !.result = proc[call[c].process].tenant] \in CallRows
    BY DEF CallRows, ProcRows, Phases, ProcessesOfPhases
  <2> QED BY <2>1, CallTyped
<1>2. CallsNamed'
  BY SessionAssumption DEF CallsNamed
<1>3. LocksHeld'
  BY SessionAssumption DEF CallsNamed, LocksHeld, Within
<1>4. ProcessesOfPhases'
  BY SessionAssumption DEF ProcessesOfPhases
<1>5. SessionsOfPhases'
  BY SessionAssumption DEF CallsNamed, LocksHeld, Within, SessionsOfPhases, SessionRows
<1>6. SessionsSettled'
  BY SessionAssumption DEF CallsNamed, LocksHeld, Within, ProcessesOfPhases, SessionsOfPhases,
         SessionsSettled, SessionRows
<1>7. NoProcessLeft'
  BY SessionAssumption DEF CallsNamed, LocksHeld, Within, ProcessesOfPhases, SessionsOfPhases,
         SessionsSettled, NoProcessLeft, Running, SessionRows
<1>8. ProcessesOfCalls'
  BY SessionAssumption DEF CallsNamed, ProcessesOfPhases, SessionsOfPhases, SessionsSettled,
         ProcessesOfCalls, CallRows
<1>9. ResultsOfProcesses'
  BY SessionAssumption DEF ProcessesOfPhases, ProcessesOfCalls, ResultsOfProcesses, CallRows
<1> QED BY <1>1, <1>2, <1>3, <1>4, <1>5, <1>6, <1>7, <1>8, <1>9

LEMMA UnverifiedHolds ==
  ASSUME IInv, NEW c \in Calls, Unverified(c)
  PROVE  TypeOK' /\ CallsNamed' /\ LocksHeld' /\ ProcessesOfPhases' /\ SessionsOfPhases'
         /\ SessionsSettled' /\ NoProcessLeft' /\ ProcessesOfCalls' /\ ResultsOfProcesses'
<1> USE DEF IInv, TypeOK, Unverified, Conn, Session, Unsettled, SigningIn, Past
<1>1. TypeOK'
  <2>1. [call[c] EXCEPT !.phase = "done", !.result = "microsoft_unavailable"] \in CallRows
    BY SessionAssumption DEF CallRows, Phases
  <2> QED BY <2>1, CallTyped
<1>2. CallsNamed'
  BY SessionAssumption DEF CallsNamed
<1>3. LocksHeld'
  BY SessionAssumption DEF CallsNamed, LocksHeld, Within
<1>4. ProcessesOfPhases'
  BY SessionAssumption DEF ProcessesOfPhases
<1>5. SessionsOfPhases'
  BY SessionAssumption DEF CallsNamed, LocksHeld, Within, SessionsOfPhases, SessionRows
<1>6. SessionsSettled'
  BY SessionAssumption DEF CallsNamed, LocksHeld, Within, ProcessesOfPhases, SessionsOfPhases,
         SessionsSettled, SessionRows
<1>7. NoProcessLeft'
  BY SessionAssumption DEF CallsNamed, LocksHeld, Within, ProcessesOfPhases, SessionsOfPhases,
         SessionsSettled, NoProcessLeft, Running, SessionRows
<1>8. ProcessesOfCalls'
  BY SessionAssumption DEF CallsNamed, ProcessesOfPhases, SessionsOfPhases, SessionsSettled,
         ProcessesOfCalls, CallRows
<1>9. ResultsOfProcesses'
  BY SessionAssumption DEF ProcessesOfPhases, ProcessesOfCalls, ResultsOfProcesses, CallRows
<1> QED BY <1>1, <1>2, <1>3, <1>4, <1>5, <1>6, <1>7, <1>8, <1>9

LEMMA RestartHolds ==
  ASSUME IInv, Restart
  PROVE  TypeOK' /\ CallsNamed' /\ LocksHeld' /\ ProcessesOfPhases' /\ SessionsOfPhases'
         /\ SessionsSettled' /\ NoProcessLeft' /\ ProcessesOfCalls' /\ ResultsOfProcesses'
<1> USE SessionAssumption DEF IInv
<1>1. sessions' = [k \in Connections |-> NULL] /\ lock' = [k \in Connections |-> NULL] /\ browser' = 1
  BY DEF Restart
<1>2. ASSUME NEW c \in Calls
      PROVE  /\ call'[c] \in CallRows /\ call'[c].phase \in {"idle", "done"}
             /\ call'[c].phase = "idle" <=> call[c].phase = "idle"
             /\ call'[c].conn = call[c].conn /\ call'[c].email = call[c].email
             /\ call'[c].process = call[c].process /\ call'[c].result \in {call[c].result, "lost"}
             /\ call[c].phase = "done" => call'[c].phase = "done"
             /\ call[c].phase = "verifying" => call'[c].phase = "done"
  <2>1. call[c] \in CallRows
    BY DEF TypeOK
  <2>2. call'[c] = IF call[c].phase \in {"idle", "done"} THEN call[c]
                   ELSE [call[c] EXCEPT !.phase = "done", !.result = "lost"]
    BY DEF Restart
  <2> QED BY <2>1, <2>2 DEF CallRows, Phases
<1>3. ASSUME NEW c \in Calls
      PROVE  /\ proc'[c] \in ProcRows /\ proc'[c].state # "running"
             /\ proc[c].state = "none" => proc'[c].state = "none"
             /\ proc'[c].upn = proc[c].upn /\ proc'[c].tenant = proc[c].tenant
  <2>1. proc[c] \in ProcRows
    BY DEF TypeOK
  <2>2. proc'[c] = IF proc[c].state = "running" THEN [proc[c] EXCEPT !.state = "stopped"] ELSE proc[c]
    BY DEF Restart
  <2> QED BY <2>1, <2>2 DEF ProcRows
<1>4. TypeOK'
  <2>1. proc' = [c \in Calls |-> proc'[c]] /\ call' = [c \in Calls |-> call'[c]]
    BY DEF Restart
  <2>2. proc' \in [Calls -> ProcRows] /\ call' \in [Calls -> CallRows]
    BY <1>2, <1>3, <2>1
  <2> QED BY <1>1, <2>2 DEF TypeOK
<1>5. CallsNamed' /\ LocksHeld' /\ ProcessesOfPhases' /\ SessionsOfPhases'
  BY <1>2, <1>3 DEF CallsNamed, LocksHeld, Within, ProcessesOfPhases, SessionsOfPhases, Unsettled, SigningIn, Past
<1>6. SessionsSettled' /\ NoProcessLeft'
  BY <1>1, <1>3 DEF SessionsSettled, NoProcessLeft, Running
<1>7. ProcessesOfCalls' /\ ResultsOfProcesses'
  <2> SUFFICES ASSUME NEW c \in Calls
               PROVE  /\ call'[c].process # NULL =>
                           LET p == call'[c].process
                           IN  /\ call'[p].phase \in Past /\ call'[p].conn = call'[c].conn
                               /\ proc'[p].upn = call'[c].email
                      /\ call'[c].result \in Tenants =>
                           call'[c].process # NULL /\ proc'[call'[c].process].tenant = call'[c].result
    BY DEF ProcessesOfCalls, ResultsOfProcesses
  <2>1. call[c].process \in Calls \cup {NULL}
    BY DEF TypeOK, CallRows
  <2> QED BY <1>2, <1>3, <2>1 DEF ProcessesOfCalls, ResultsOfProcesses, Past
<1> QED BY <1>4, <1>5, <1>6, <1>7

LEMMA TimePassesHolds ==
  ASSUME IInv, TimePasses
  PROVE  TypeOK' /\ CallsNamed' /\ LocksHeld' /\ ProcessesOfPhases' /\ SessionsOfPhases'
         /\ SessionsSettled' /\ NoProcessLeft' /\ ProcessesOfCalls' /\ ResultsOfProcesses'
<1> USE SessionAssumption DEF IInv
<1>1. UNCHANGED <<lock, browser, proc, call>>
  BY DEF TimePasses
<1>2. ASSUME NEW k \in Connections
      PROVE  /\ sessions'[k] \in SessionRows \cup {NULL}
             /\ sessions'[k] = NULL <=> sessions[k] = NULL
             /\ sessions[k] # NULL => sessions'[k].process = sessions[k].process
  BY DEF TimePasses, TypeOK, SessionRows
<1>3. TypeOK'
  <2>1. DOMAIN sessions' = Connections /\ sessions' = [k \in Connections |-> sessions'[k]]
    BY DEF TimePasses
  <2>2. sessions' \in [Connections -> SessionRows \cup {NULL}]
    BY <1>2, <2>1
  <2> QED BY <1>1, <2>2 DEF TypeOK
<1>4. CallsNamed' /\ LocksHeld' /\ ProcessesOfPhases' /\ ProcessesOfCalls' /\ ResultsOfProcesses'
  BY <1>1 DEF CallsNamed, LocksHeld, Within, Conn, ProcessesOfPhases, ProcessesOfCalls, ResultsOfProcesses
<1>5. SessionsOfPhases'
  BY <1>1, <1>2 DEF CallsNamed, SessionsOfPhases, Session, Conn, SigningIn
<1>6. SessionsSettled'
  BY <1>1, <1>2 DEF SessionsSettled
<1>7. NoProcessLeft'
  <2> SUFFICES ASSUME NEW c \in Calls, proc[c].state = "running", call[c].phase \notin SigningIn
               PROVE  sessions'[call[c].conn] # NULL /\ sessions'[call[c].conn].process = c
    BY <1>1 DEF NoProcessLeft, Running, Session, Conn, SigningIn
  <2>1. call[c].conn \in Connections
    BY DEF CallsNamed, ProcessesOfPhases, Unsettled
  <2> QED BY <1>2, <2>1 DEF NoProcessLeft, Running, Session, Conn, SigningIn
<1> QED BY <1>3, <1>4, <1>5, <1>6, <1>7

\* One call more, one less, or none: the permit goes with it.
LEMMA BrowserHolds ==
  ASSUME IInv, Next
  PROVE  OneBrowser'
<1> USE DEF IInv, TypeOK, Browsing
<1>0. Browsing \in SUBSET Calls /\ Cardinality(Browsing) + browser = 1
  BY DEF OneBrowser
<1>1. ASSUME Browsing' = Browsing, browser' = browser PROVE OneBrowser'
  BY <1>0, <1>1 DEF OneBrowser
<1>2. ASSUME NEW c \in Calls, c \in Browsing, Browsing' = Browsing \ {c}, browser' = browser + 1
      PROVE  OneBrowser'
  <2>1. Cardinality(Browsing') = Cardinality(Browsing) - 1 /\ Cardinality(Browsing) \in Nat
    BY <1>0, <1>2, BrowsersCounted
  <2> QED BY <1>0, <1>2, <2>1 DEF OneBrowser
<1>3. ASSUME NEW c \in Calls, NEW phase \in Phases \ {"browsing"}, c \notin Browsing, Move(c, phase)
      PROVE  Browsing' = Browsing
  BY <1>3 DEF Move
<1>4. ASSUME NEW c \in Calls, NEW code \in Failures, Failure(c, code)
      PROVE  Browsing' = Browsing \ {c}
  BY <1>4 DEF Failure
<1>5. ASSUME NEW c \in Calls, NEW p \in Calls, c \notin Browsing, Ensured(c, p)
      PROVE  Browsing' = Browsing
  BY <1>5 DEF Ensured
<1>6. ASSUME NEW c \in Calls, NEW request \in Requests, Validate(c, request[1], request[2]) PROVE OneBrowser'
  <2>1. Browsing' = Browsing
    BY <1>6 DEF Validate
  <2> QED BY <1>1, <1>6, <2>1 DEF Validate
<1>7. ASSUME NEW c \in Calls, LookUp(c) PROVE OneBrowser'
  <2>1. PICK phase \in Phases \ {"browsing"} : Move(c, phase) /\ c \notin Browsing
    BY <1>7 DEF LookUp, Phases
  <2> QED BY <1>1, <1>3, <1>7, <2>1 DEF LookUp
<1>8. ASSUME NEW c \in Calls, Unhealthy(c) \/ Dispose(c) \/ StartProcess(c) PROVE OneBrowser'
  <2>1. Browsing' = Browsing
    BY <1>3, <1>8 DEF Unhealthy, Dispose, StartProcess, Phases
  <2> QED BY <1>1, <1>8, <2>1 DEF Unhealthy, Dispose, StartProcess
<1>9. ASSUME NEW c \in Calls, StartFails(c) \/ Reject(c) PROVE OneBrowser'
  <2>1. Browsing' = Browsing \ {c} /\ c \notin Browsing
    BY <1>4, <1>9, SessionAssumption DEF StartFails, Reject
  <2> QED BY <1>1, <1>9, <2>1 DEF StartFails, Reject
<1>10. ASSUME NEW c \in Calls, Reuse(c) PROVE OneBrowser'
  <2>1. Session(c).process \in Calls /\ c \notin Browsing
    BY <1>10, SessionReset DEF Reuse, SessionsOfPhases, CallsNamed, Session, Conn
  <2> QED BY <1>1, <1>5, <1>10, <2>1 DEF Reuse
<1>11. ASSUME NEW c \in Calls, Adopt(c) PROVE OneBrowser'
  BY <1>1, <1>5, <1>11 DEF Adopt
<1>12. ASSUME NEW c \in Calls, TakeBrowser(c) PROVE OneBrowser'
  <2>1. Browsing' = Browsing \cup {c} /\ c \notin Browsing
    BY <1>12 DEF TakeBrowser, Move
  <2>2. Cardinality(Browsing') = Cardinality(Browsing) + 1 /\ Cardinality(Browsing) \in Nat
    BY <1>0, <2>1, BrowsersCounted
  <2> QED BY <1>0, <1>12, <2>2 DEF OneBrowser, TakeBrowser
<1>13. ASSUME NEW c \in Calls, NEW tenant \in Tenants, NEW upn \in Emails, SignedIn(c, tenant, upn)
       PROVE  OneBrowser'
  <2>1. Browsing' = Browsing \ {c} /\ c \in Browsing /\ browser' = browser + 1
    BY <1>13 DEF SignedIn, Move
  <2> QED BY <1>2, <2>1
<1>14. ASSUME NEW c \in Calls, NEW code \in Failures, SignInFails(c, code) PROVE OneBrowser'
  <2>1. Browsing' = Browsing \ {c} /\ c \in Browsing /\ browser' = browser + 1
    BY <1>4, <1>14 DEF SignInFails, BrowserAfter
  <2> QED BY <1>2, <2>1
<1>15. ASSUME NEW c \in Calls, TimesOut(c) PROVE OneBrowser'
  <2>1. Browsing' = Browsing \ {c}
    BY <1>4, <1>15, SessionAssumption DEF TimesOut
  <2>2. CASE c \in Browsing
    BY <1>2, <1>15, <2>1, <2>2 DEF TimesOut, BrowserAfter
  <2>3. CASE c \notin Browsing
    BY <1>1, <1>15, <2>1, <2>3 DEF TimesOut, BrowserAfter
  <2> QED BY <2>2, <2>3
<1>16. ASSUME NEW c \in Calls, Verified(c) \/ Unverified(c) PROVE OneBrowser'
  <2>1. Browsing' = Browsing
    <3>1. CASE Verified(c)
      BY <3>1 DEF Verified
    <3>2. CASE Unverified(c)
      BY <3>2 DEF Unverified
    <3> QED BY <1>16, <3>1, <3>2
  <2> QED BY <1>1, <1>16, <2>1 DEF Verified, Unverified
<1>17. CASE Restart
  <2>1. \A c \in Calls : call'[c].phase # "browsing"
    BY <1>17 DEF Restart, CallRows
  <2>2. Browsing' = {} /\ browser' = 1
    BY <1>17, <2>1 DEF Restart
  <2>3. Cardinality({}) = 0
    BY FS_EmptySet
  <2>4. Cardinality(Browsing') = 0
    <3> HIDE DEF Browsing
    <3> QED BY <2>2, <2>3
  <2> QED BY <2>2, <2>4 DEF OneBrowser
<1>18. CASE TimePasses
  BY <1>1, <1>18 DEF TimePasses
<1> QED BY <1>6, <1>7, <1>8, <1>9, <1>10, <1>11, <1>12, <1>13, <1>14, <1>15, <1>16, <1>17, <1>18
        DEF Next, Check, Begin, SignIn, Inspect, Answer

LEMMA InitHolds == Init => IInv
<1> SUFFICES ASSUME Init PROVE IInv
  OBVIOUS
<1> USE SessionAssumption DEF Init, Idle, NoProcess
<1>1. TypeOK
  BY DEF TypeOK, SessionRows, ProcRows, CallRows, Phases
<1>2. CallsNamed /\ LocksHeld /\ ProcessesOfPhases /\ SessionsOfPhases /\ SessionsSettled /\ NoProcessLeft
  BY DEF CallsNamed, LocksHeld, Within, ProcessesOfPhases, SessionsOfPhases, SessionsSettled, NoProcessLeft,
         Running, Unsettled, SigningIn, Past
<1>3. ProcessesOfCalls /\ ResultsOfProcesses
  BY DEF ProcessesOfCalls, ResultsOfProcesses
<1>4. Browsing = {} /\ browser = 1
  BY DEF Browsing
<1>5. OneBrowser
  <2>1. Cardinality({}) = 0
    BY FS_EmptySet
  <2>2. Cardinality(Browsing) = 0
    BY <1>4, <2>1
  <2> QED BY <1>4, <2>2 DEF OneBrowser, Browsing
<1> QED BY <1>1, <1>2, <1>3, <1>5 DEF IInv

LEMMA NextHolds == IInv /\ [Next]_vars => IInv'
<1> SUFFICES ASSUME IInv, [Next]_vars PROVE IInv'
  OBVIOUS
<1>1. ASSUME NEW c \in Calls, NEW request \in Requests, Validate(c, request[1], request[2])
      PROVE  IInv'
  <2>1. request[1] \in Connections /\ request[2] \in Emails
    BY SessionAssumption
  <2> QED BY <1>1, <2>1, ValidateHolds, BrowserHolds DEF Next, IInv
<1>2. ASSUME NEW c \in Calls, LookUp(c) \/ Check(c) \/ Dispose(c) \/ Begin(c) PROVE IInv'
  BY <1>2, LookUpHolds, ReuseHolds, UnhealthyHolds, DisposeHolds, StartProcessHolds, StartFailsHolds,
     BrowserHolds DEF Next, Check, Begin, IInv
<1>3. ASSUME NEW c \in Calls, TakeBrowser(c) \/ SignIn(c) \/ TimesOut(c) PROVE IInv'
  BY <1>3, TakeBrowserHolds, SignedInHolds, SignInFailsHolds, TimesOutHolds, BrowserHolds
     DEF Next, SignIn, IInv
<1>4. ASSUME NEW c \in Calls, Inspect(c) \/ Answer(c) PROVE IInv'
  BY <1>4, AdoptHolds, RejectHolds, VerifiedHolds, UnverifiedHolds, BrowserHolds
     DEF Next, Inspect, Answer, IInv
<1>5. CASE Restart
  BY <1>5, RestartHolds, BrowserHolds DEF Next, IInv
<1>6. CASE TimePasses
  BY <1>6, TimePassesHolds, BrowserHolds DEF Next, IInv
<1>7. CASE UNCHANGED vars
  BY <1>7 DEF vars, IInv, TypeOK, CallsNamed, LocksHeld, Within, ProcessesOfPhases, SessionsOfPhases,
              SessionsSettled, NoProcessLeft, Running, ProcessesOfCalls, ResultsOfProcesses, OneBrowser,
              Conn, Session
<1> QED BY <1>1, <1>2, <1>3, <1>4, <1>5, <1>6, <1>7 DEF Next

\* The invariant holds in every state.
THEOREM Invariant == Spec => []IInv
BY InitHolds, NextHolds, PTL DEF Spec

-----------------------------------------------------------------------------
\* The variables have their types; the permit of the browser is there or not.
THEOREM TypeCorrect == Spec => []TypeOK
BY Invariant, PTL DEF IInv

\* One process at most runs for a connection.
THEOREM OneProcess == Spec => []OneProcessPerConnection
<1>1. IInv => OneProcessPerConnection
  <2> SUFFICES ASSUME IInv, NEW c \in Calls, NEW d \in Calls, Running(c), Running(d), Conn(c) = Conn(d)
               PROVE  c = d
    BY DEF OneProcessPerConnection
  <2> USE DEF IInv, SigningIn
  <2>1. CASE call[c].phase \in SigningIn
    <3>1. call[d].phase \in SigningIn
      BY <2>1 DEF SessionsOfPhases, NoProcessLeft, Session, Conn
    <3> QED BY <2>1, <3>1 DEF LocksHeld, Within
  <2>2. CASE call[c].phase \notin SigningIn
    <3>1. call[d].phase \notin SigningIn
      BY <2>2 DEF SessionsOfPhases, NoProcessLeft, Session, Conn
    <3> QED BY <2>2, <3>1 DEF NoProcessLeft, Session, Conn
  <2> QED BY <2>1, <2>2
<1> QED BY <1>1, Invariant, PTL

\* Exactly the processes that are owned run.
THEOREM ProcessesAreOwned == Spec => []ProcessesOwned
<1>1. IInv => ProcessesOwned
  BY DEF IInv, ProcessesOwned, SessionsLive, SessionsSettled, Running, Conn
<1> QED BY <1>1, Invariant, PTL

\* The permit of the browser is used once or it is there.
THEOREM OneBrowserFlow == Spec => []OneBrowser
BY Invariant, PTL DEF IInv

\* A successful validation reports the tenant of a process that was signed in
\* for this very connection by this very administrator.
AnswerIsOwn ==
  \A c \in Calls : call[c].phase = "done" /\ call[c].result \in Tenants =>
    LET p == call[c].process
    IN  Conn(p) = Conn(c) /\ proc[p].upn = call[c].email /\ proc[p].tenant = call[c].result

\* A tenant is reported to the connection and administrator that signed in.
THEOREM AnswersAreOwn == Spec => []AnswerIsOwn
<1>1. IInv => AnswerIsOwn
  BY DEF IInv, AnswerIsOwn, ProcessesOfCalls, ResultsOfProcesses, Conn
<1> QED BY <1>1, Invariant, PTL

-----------------------------------------------------------------------------
(* The refinement of ConnectionSessions. *)

\* The step leaves what the processes of settled calls were signed in as.
SignInsKept ==
  \A p \in Calls : call[p].phase \in Past => proc'[p].upn = proc[p].upn /\ proc'[p].tenant = proc[p].tenant

\* The connection has the session it had.
SessionKept(k) ==
  /\ sessions'[k] = NULL <=> sessions[k] = NULL
  /\ sessions[k] # NULL => sessions'[k].process = sessions[k].process

LEMMA SessionLooksSame ==
  ASSUME IInv, SignInsKept, NEW k \in Connections, SessionKept(k)
  PROVE  SessionSeen'[k] = SessionSeen[k]
<1>1. CASE sessions[k] = NULL
  BY <1>1 DEF SessionKept, SessionSeen
<1>2. CASE sessions[k] # NULL
  <2>1. sessions[k].process \in Calls /\ call[sessions[k].process].phase \in Past
    BY <1>2, SessionReset DEF IInv, SessionsSettled
  <2> QED BY <1>2, <2>1 DEF SessionKept, SignInsKept, SessionSeen, SignedInAs
<1> QED BY <1>1, <1>2

LEMMA SessionsLookSame ==
  ASSUME IInv, SignInsKept, \A k \in Connections : SessionKept(k)
  PROVE  UNCHANGED SessionSeen
BY SessionLooksSame DEF SessionSeen

\* The process of a call was signed in before.
LEMMA GrantedLooksSame ==
  ASSUME IInv, SignInsKept, NEW c \in Calls, call[c].process # NULL
  PROVE  /\ call[c].process \in Calls /\ call[call[c].process].phase \in Past
         /\ proc'[call[c].process].upn = proc[call[c].process].upn
         /\ proc'[call[c].process].tenant = proc[call[c].process].tenant
<1>1. call[c].process \in Calls /\ call[call[c].process].phase \in Past
  BY DEF IInv, TypeOK, CallRows, ProcessesOfCalls
<1> QED BY <1>1 DEF SignInsKept, SignedInAs

LEMMA CallLooksSame ==
  ASSUME IInv, SignInsKept, NEW c \in Calls, PhaseSeen(c)' = PhaseSeen(c),
         call'[c].conn = call[c].conn, call'[c].email = call[c].email,
         call'[c].process = call[c].process, call'[c].result = call[c].result
  PROVE  CallSeen(c)' = CallSeen(c)
BY GrantedLooksSame DEF CallSeen, SignedInAs

\* One call goes on, the others look as before.
LEMMA OneCallSeen ==
  ASSUME IInv, SignInsKept, NEW c \in Calls, NEW row \in CallRows, call' = [call EXCEPT ![c] = row]
  PROVE  CallsSeen' = [CallsSeen EXCEPT ![c] = CallSeen(c)']
<1>1. ASSUME NEW d \in Calls, d # c PROVE CallSeen(d)' = CallSeen(d)
  <2>1. call'[d] = call[d]
    BY <1>1 DEF IInv, TypeOK
  <2> QED BY <2>1, CallLooksSame DEF PhaseSeen
<1> QED BY <1>1 DEF CallsSeen

\* A step inside a call that the outside does not see.
LEMMA UnseenStep ==
  ASSUME IInv, SignInsKept, NEW c \in Calls, NEW row \in CallRows, call' = [call EXCEPT ![c] = row],
         PhaseSeen(c)' = PhaseSeen(c), row.conn = call[c].conn, row.email = call[c].email,
         row.process = call[c].process, row.result = call[c].result
  PROVE  UNCHANGED CallsSeen
<1>1. call'[c] = row
  BY DEF IInv, TypeOK
<1>2. CallSeen(c)' = CallSeen(c)
  BY <1>1, CallLooksSame
<1> QED BY <1>2, OneCallSeen DEF CallsSeen

LEMMA MoveUnseen ==
  ASSUME IInv, SignInsKept, NEW c \in Calls, NEW phase \in Phases, Move(c, phase),
         call[c].phase \notin {"idle", "verifying", "done"}, phase \notin {"idle", "verifying", "done"}
  PROVE  UNCHANGED CallsSeen
<1> DEFINE row == [call[c] EXCEPT !.phase = phase]
<1>1. row \in CallRows /\ row.phase = phase /\ row.conn = call[c].conn /\ row.email = call[c].email
      /\ row.process = call[c].process /\ row.result = call[c].result
  BY DEF IInv, TypeOK, CallRows
<1>2. call' = [call EXCEPT ![c] = row]
  BY DEF Move
<1> HIDE DEF row
<1>3. call'[c] = row
  BY <1>2 DEF IInv, TypeOK
<1>4. PhaseSeen(c)' = PhaseSeen(c)
  BY <1>1, <1>3 DEF PhaseSeen
<1> QED BY <1>1, <1>2, <1>4, UnseenStep

LEMMA NothingSignedIn ==
  ASSUME UNCHANGED proc \/ \E c \in Calls : \E state : proc' = [proc EXCEPT ![c].state = state], IInv
  PROVE  SignInsKept
BY DEF IInv, TypeOK, ProcRows, SignInsKept

\* A call goes on as the service says.
LEMMA BecomesSeen ==
  ASSUME IInv, SignInsKept, NEW c \in Calls, NEW row \in CallRows, call' = [call EXCEPT ![c] = row],
         row.conn = call[c].conn, row.email = call[c].email
  PROVE  Service!Become(c, PhaseSeen(c)', CallSeen(c)'.granted, row.result)
<1>1. CallsSeen' = [CallsSeen EXCEPT ![c] = CallSeen(c)']
  BY OneCallSeen
<1>2. call'[c] = row
  BY DEF IInv, TypeOK
<1>3. CallSeen(c)' = [phase |-> PhaseSeen(c)', conn |-> CallSeen(c).conn, email |-> CallSeen(c).email,
                      granted |-> CallSeen(c)'.granted, result |-> row.result]
  BY <1>2 DEF CallSeen
<1>4. CallsSeen[c] = CallSeen(c)
  BY DEF CallsSeen
<1> QED BY <1>1, <1>3, <1>4 DEF Service!Become

LEMMA FailureSeen ==
  ASSUME IInv, SignInsKept, NEW c \in Calls, NEW code \in Failures, UNCHANGED sessions,
         call[c].phase \notin {"idle", "done"},
         call' = [call EXCEPT ![c].phase = "done", ![c].result = code]
  PROVE  Service!Fail(c, code)
<1> DEFINE row == [call[c] EXCEPT !.phase = "done", !.result = code]
<1>1. row \in CallRows /\ row.phase = "done" /\ row.conn = call[c].conn /\ row.email = call[c].email
      /\ row.process = call[c].process /\ row.result = code
  BY DEF IInv, TypeOK, CallRows, Phases
<1>2. call' = [call EXCEPT ![c] = row]
  OBVIOUS
<1> HIDE DEF row
<1>3. call'[c] = row
  BY <1>2 DEF IInv, TypeOK
<1>4. PhaseSeen(c)' = "done" /\ PhaseSeen(c) \in {"asking", "granted"}
  BY <1>1, <1>3 DEF PhaseSeen
<1>5. CallSeen(c)'.granted = CallSeen(c).granted
  BY <1>1, <1>3, GrantedLooksSame DEF CallSeen, SignedInAs
<1>6. Service!Become(c, "done", CallSeen(c).granted, code)
  BY <1>1, <1>2, <1>4, <1>5, BecomesSeen
<1>7. UNCHANGED SessionSeen
  BY SessionsLookSame DEF SessionKept
<1>8. CallsSeen[c] = CallSeen(c) /\ CallSeen(c).phase = PhaseSeen(c)
  BY DEF CallsSeen, CallSeen
<1> QED BY <1>4, <1>6, <1>7, <1>8 DEF Service!Fail, Service!Phase

\* ensure gives a call a process, which is its session.
LEMMA GrantSeen ==
  ASSUME IInv, NEW c \in Calls, NEW p \in Calls, Ensured(c, p), UNCHANGED proc,
         call[c].phase \in {"checking", "inspecting"}
  PROVE  /\ CallsSeen[c] = CallSeen(c) /\ CallSeen(c).phase = "asking"
         /\ CallSeen(c).conn = Conn(c) /\ CallSeen(c).email = call[c].email
         /\ Service!Become(c, "granted", SignedInAs(p), CallSeen(c).result)
<1> DEFINE row == [call[c] EXCEPT !.phase = "verifying", !.process = p]
<1>1. row \in CallRows /\ row.phase = "verifying" /\ row.conn = call[c].conn /\ row.email = call[c].email
      /\ row.process = p /\ row.result = call[c].result
  BY DEF IInv, TypeOK, CallRows, Phases
<1>2. call' = [call EXCEPT ![c] = row]
  BY DEF Ensured
<1> HIDE DEF row
<1>3. call'[c] = row
  BY <1>2 DEF IInv, TypeOK
<1>4. PhaseSeen(c)' = "granted" /\ CallSeen(c)'.granted = SignedInAs(p)
  BY <1>1, <1>3, SessionAssumption DEF PhaseSeen, CallSeen, SignedInAs
<1>5. Service!Become(c, "granted", SignedInAs(p), call[c].result)
  BY <1>1, <1>2, <1>4, BecomesSeen, NothingSignedIn
<1>6. CallsSeen[c] = CallSeen(c) /\ CallSeen(c).phase = "asking" /\ CallSeen(c).conn = Conn(c)
      /\ CallSeen(c).email = call[c].email /\ CallSeen(c).result = call[c].result
  BY DEF CallsSeen, CallSeen, PhaseSeen, Conn
<1> QED BY <1>5, <1>6

LEMMA SignInIsThere ==
  ASSUME IInv, NEW p \in Calls
  PROVE  SignedInAs(p) # NULL
BY SessionAssumption DEF IInv, TypeOK, ProcRows, SignIns, SignedInAs

LEMMA ReuseJoins ==
  ASSUME IInv, NEW c \in Calls, Reuse(c)
  PROVE  Service!Join(c)
<1>1. Conn(c) \in Connections /\ Session(c) # NULL /\ Session(c).process \in Calls
  BY SessionReset DEF IInv, CallsNamed, SessionsOfPhases, Reuse, Conn, Session
<1>2. proc[Session(c).process].upn = call[c].email
  BY DEF Reuse, Matches
<1>3. UNCHANGED SessionSeen
  <2>1. \A k \in Connections : SessionKept(k)
    <3>1. [Session(c) EXCEPT !.idle = IdleTTL] \in SessionRows
      BY <1>1, SessionReset DEF IInv, Session
    <3> QED BY <1>1, <3>1, SessionAssumption DEF Reuse, SessionKept, Session, Conn, IInv, TypeOK, SessionRows
  <2> QED BY <2>1, NothingSignedIn, SessionsLookSame DEF Reuse
<1>4. SessionSeen[Conn(c)] = SignedInAs(Session(c).process)
      /\ SessionSeen[Conn(c)].email = call[c].email
  BY <1>1, <1>2 DEF SessionSeen, SignedInAs, Session
<1>5. SessionSeen[Conn(c)] # NULL
  BY <1>1, <1>4, SignInIsThere
<1> QED BY <1>1, <1>3, <1>4, <1>5, GrantSeen DEF Reuse, Service!Join, Service!Phase, Service!Session

\* What is inspected was signed in.
SignedInBefore == \A c \in Calls : call[c].phase = "inspecting" => proc[c].tenant \in Tenants

LEMMA SignedInStep ==
  ASSUME IInv, SignedInBefore, [Next]_vars
  PROVE  SignedInBefore'
<1> USE DEF IInv, TypeOK, SignedInBefore
<1>1. ASSUME NEW c \in Calls, NEW tenant \in Tenants, NEW upn \in Emails, SignedIn(c, tenant, upn)
      PROVE  SignedInBefore'
  BY <1>1 DEF SignedIn, Move, ProcRows
<1>2. ASSUME \A d \in Calls : call'[d].phase = "inspecting" =>
                                call[d].phase = "inspecting" /\ proc'[d].tenant = proc[d].tenant
      PROVE  SignedInBefore'
  BY <1>2
<1>3. ASSUME NEW c \in Calls, LookUp(c) \/ Unhealthy(c) \/ StartProcess(c) \/ TakeBrowser(c)
      PROVE  SignedInBefore'
  BY <1>2, <1>3 DEF LookUp, Unhealthy, StartProcess, TakeBrowser, Move, ProcRows, CallRows
<1>4. ASSUME NEW c \in Calls, Dispose(c) PROVE SignedInBefore'
  BY <1>2, <1>4 DEF Dispose, Move, ProcRows, CallRows
<1>5. ASSUME NEW c \in Calls, NEW conn, NEW email, Validate(c, conn, email) PROVE SignedInBefore'
  BY <1>2, <1>5 DEF Validate, CallRows
<1>6. ASSUME NEW c \in Calls, Reuse(c) \/ Adopt(c) PROVE SignedInBefore'
  BY <1>2, <1>6 DEF Reuse, Adopt, Ensured, CallRows
<1>7. ASSUME NEW c \in Calls, StartFails(c) \/ TimesOut(c) \/ Reject(c) PROVE SignedInBefore'
  BY <1>2, <1>7 DEF StartFails, TimesOut, Reject, Failure, Stopped, ProcRows, CallRows
<1>8. ASSUME NEW c \in Calls, Answer(c) PROVE SignedInBefore'
  BY <1>2, <1>8 DEF Answer, Verified, Unverified, CallRows
<1>9. ASSUME NEW c \in Calls, NEW code \in Failures, SignInFails(c, code) PROVE SignedInBefore'
  BY <1>2, <1>9 DEF SignInFails, Failure, Stopped, ProcRows, CallRows
<1>10. CASE Restart
  <2>1. ASSUME NEW d \in Calls PROVE call'[d].phase # "inspecting"
    <3>1. CASE call[d].phase \in {"idle", "done"}
      BY <1>10, <3>1 DEF Restart
    <3>2. CASE call[d].phase \notin {"idle", "done"}
      BY <1>10, <3>2 DEF Restart, CallRows
    <3> QED BY <3>1, <3>2
  <2> QED BY <2>1
<1>11. CASE TimePasses \/ UNCHANGED vars
  BY <1>11 DEF TimePasses, vars
<1> QED BY <1>1, <1>3, <1>4, <1>5, <1>6, <1>7, <1>8, <1>9, <1>10, <1>11
        DEF Next, Check, Begin, SignIn, Inspect

LEMMA AdoptSignsIn ==
  ASSUME IInv, SignedInBefore, NEW c \in Calls, Adopt(c)
  PROVE  Service!SignIn(c, proc[c].tenant) /\ proc[c].tenant \in Tenants
<1>1. /\ Conn(c) \in Connections /\ sessions[Conn(c)] = NULL /\ proc[c].tenant \in Tenants
      /\ SignedInAs(c) = [email |-> call[c].email, tenant |-> proc[c].tenant]
  BY DEF IInv, CallsNamed, SessionsOfPhases, SigningIn, SignedInBefore, Adopt, Matches, Conn, Session, SignedInAs
<1>2. sessions'[Conn(c)] = [process |-> c, idle |-> IdleTTL] /\ sessions'[Conn(c)] # NULL
      /\ \A k \in Connections \ {Conn(c)} : sessions'[k] = sessions[k]
  BY <1>1, SessionTyped, SessionAssumption DEF Adopt, IInv, TypeOK
<1>3. SignInsKept /\ UNCHANGED proc
  BY NothingSignedIn DEF Adopt
<1>4. \A k \in Connections \ {Conn(c)} : SessionSeen'[k] = SessionSeen[k]
  BY <1>2, <1>3, SessionLooksSame DEF SessionKept
<1>5. SessionSeen'[Conn(c)] = SignedInAs(c) /\ SessionSeen[Conn(c)] = NULL
  BY <1>1, <1>2, <1>3 DEF SessionSeen, SignedInAs
<1>6. SessionSeen' = [SessionSeen EXCEPT ![Conn(c)] = SignedInAs(c)]
  BY <1>1, <1>4, <1>5 DEF SessionSeen
<1>7. /\ CallsSeen[c] = CallSeen(c) /\ CallSeen(c).phase = "asking"
      /\ CallSeen(c).conn = Conn(c) /\ CallSeen(c).email = call[c].email
      /\ Service!Become(c, "granted", SignedInAs(c), CallSeen(c).result)
  BY GrantSeen DEF Adopt
<1> QED BY <1>1, <1>5, <1>6, <1>7 DEF Service!SignIn, Service!Phase, Service!Session

LEMMA DisposeEnds ==
  ASSUME IInv, NEW c \in Calls, Dispose(c)
  PROVE  Service!EndSession(c)
<1>1. Conn(c) \in Connections /\ sessions[Conn(c)] # NULL /\ sessions[Conn(c)].process \in Calls
  BY SessionReset DEF IInv, CallsNamed, SessionsOfPhases, Dispose, Conn, Session
<1>2. SignInsKept
  BY <1>1, NothingSignedIn DEF Dispose, Session
<1>3. sessions'[Conn(c)] = NULL /\ \A k \in Connections \ {Conn(c)} : sessions'[k] = sessions[k]
  BY <1>1 DEF Dispose, IInv, TypeOK
<1>4. \A k \in Connections \ {Conn(c)} : SessionSeen'[k] = SessionSeen[k]
  BY <1>2, <1>3, SessionLooksSame DEF SessionKept
<1>5. SessionSeen'[Conn(c)] = NULL /\ SessionSeen[Conn(c)] # NULL
  BY <1>1, <1>3, SignInIsThere DEF SessionSeen
<1>6. SessionSeen' = [SessionSeen EXCEPT ![Conn(c)] = NULL]
  BY <1>1, <1>4, <1>5 DEF SessionSeen
<1>7. UNCHANGED CallsSeen
  BY <1>2, MoveUnseen DEF Dispose, Phases
<1>8. CallsSeen[c].phase = "asking" /\ CallsSeen[c].conn = Conn(c)
  BY DEF CallsSeen, CallSeen, PhaseSeen, Dispose, Conn
<1> QED BY <1>1, <1>5, <1>6, <1>7, <1>8 DEF Service!EndSession, Service!Phase, Service!Session

LEMMA VerifiedReports ==
  ASSUME IInv, NEW c \in Calls, Verified(c)
  PROVE  Service!Report(c)
<1> DEFINE tenant == proc[call[c].process].tenant
           row == [call[c] EXCEPT !.phase = "done", !.result = tenant]
<1>1. call[c].process # NULL /\ call[c].process \in Calls
  BY GrantedLooksSame, NothingSignedIn DEF IInv, TypeOK, CallRows, ProcessesOfPhases, Verified
<1>2. row \in CallRows /\ row.phase = "done" /\ row.conn = call[c].conn /\ row.email = call[c].email
      /\ row.process = call[c].process /\ row.result = tenant
  BY <1>1 DEF IInv, TypeOK, CallRows, ProcRows, Phases
<1>3. call' = [call EXCEPT ![c] = row]
  BY DEF Verified
<1> HIDE DEF row
<1>4. call'[c] = row /\ UNCHANGED <<proc, sessions>>
  BY <1>3 DEF IInv, TypeOK, Verified
<1>5. PhaseSeen(c)' = "done" /\ CallSeen(c)'.granted = CallSeen(c).granted
  BY <1>2, <1>4 DEF PhaseSeen, CallSeen, SignedInAs
<1>6. Service!Become(c, "done", CallSeen(c).granted, tenant)
  BY <1>2, <1>3, <1>4, <1>5, BecomesSeen, NothingSignedIn
<1>7. /\ CallsSeen[c] = CallSeen(c) /\ CallSeen(c).phase = "granted"
      /\ CallSeen(c).granted = SignedInAs(call[c].process) /\ SignedInAs(call[c].process).tenant = tenant
  BY <1>1 DEF CallsSeen, CallSeen, PhaseSeen, SignedInAs, Verified
<1>8. UNCHANGED SessionSeen
  BY <1>4, SessionsLookSame, NothingSignedIn DEF SessionKept
<1> QED BY <1>6, <1>7, <1>8 DEF Service!Report, Service!Phase

LEMMA RestartSeen ==
  ASSUME IInv, Restart
  PROVE  Service!Restart
<1>1. SignInsKept /\ \A k \in Connections : sessions'[k] = NULL
  BY DEF IInv, TypeOK, ProcRows, SignInsKept, Restart
<1>2. SessionSeen' = [k \in Connections |-> NULL]
  BY <1>1 DEF SessionSeen
<1>3. ASSUME NEW c \in Calls
      PROVE  CallSeen(c)' = IF PhaseSeen(c) \in {"idle", "done"} THEN CallSeen(c)
                            ELSE [CallSeen(c) EXCEPT !.phase = "done", !.result = "lost"]
  <2>1. CASE call[c].phase \in {"idle", "done"}
    <3>1. call'[c] = call[c]
      BY <2>1 DEF Restart
    <3> QED BY <1>1, <2>1, <3>1, CallLooksSame DEF PhaseSeen
  <2>2. CASE call[c].phase \notin {"idle", "done"}
    <3>1. /\ call'[c].phase = "done" /\ call'[c].result = "lost" /\ call'[c].conn = call[c].conn
          /\ call'[c].email = call[c].email /\ call'[c].process = call[c].process
      BY <2>2 DEF Restart, IInv, TypeOK, CallRows
    <3>2. CallSeen(c)'.granted = CallSeen(c).granted
      BY <1>1, <3>1, GrantedLooksSame DEF CallSeen, SignedInAs
    <3>3. CallSeen(c)' = [phase |-> "done", conn |-> call[c].conn, email |-> call[c].email,
                          granted |-> CallSeen(c).granted, result |-> "lost"]
      BY <3>1, <3>2 DEF CallSeen, PhaseSeen
    <3>4. PhaseSeen(c) \notin {"idle", "done"}
      BY <2>2 DEF PhaseSeen
    <3> QED BY <3>3, <3>4 DEF CallSeen
  <2> QED BY <2>1, <2>2
<1>4. \A c \in Calls : CallsSeen[c] = CallSeen(c) /\ CallSeen(c).phase = PhaseSeen(c)
  BY DEF CallsSeen, CallSeen
<1>5. CallsSeen' = [c \in Calls |-> CallSeen(c)']
  BY DEF CallsSeen
<1>6. ASSUME NEW c \in Calls
      PROVE  CallSeen(c)' = IF Service!Phase(c) \in {"idle", "done"} THEN CallsSeen[c] ELSE Service!Lost(c)
  <2>1. Service!Phase(c) = PhaseSeen(c)
    BY <1>4 DEF Service!Phase
  <2>2. Service!Lost(c) = [CallSeen(c) EXCEPT !.phase = "done", !.result = "lost"]
    BY <1>4, Zenon DEF Service!Lost
  <2> QED BY <1>3, <1>4, <2>1, <2>2, Zenon
<1> QED BY <1>2, <1>5, <1>6, Zenon DEF Service!Restart

LEMMA ValidateAsks ==
  ASSUME IInv, NEW c \in Calls, NEW conn \in Connections, NEW email \in Emails, Validate(c, conn, email)
  PROVE  Service!Ask(c, conn, email)
<1> DEFINE row == [call[c] EXCEPT !.phase = "waiting", !.conn = conn, !.email = email]
<1>1. row \in CallRows /\ row.phase = "waiting" /\ row.conn = conn /\ row.email = email
      /\ row.process = call[c].process /\ row.result = call[c].result
  BY DEF IInv, TypeOK, CallRows, Phases
<1>2. call' = [call EXCEPT ![c] = row] /\ UNCHANGED <<sessions, proc>> /\ call[c].phase = "idle"
  BY DEF Validate
<1> HIDE DEF row
<1>3. call'[c] = row
  BY <1>2 DEF IInv, TypeOK
<1>4. CallSeen(c)' = [phase |-> "asking", conn |-> conn, email |-> email,
                      granted |-> CallSeen(c).granted, result |-> CallSeen(c).result]
  BY <1>1, <1>2, <1>3 DEF CallSeen, PhaseSeen, SignedInAs
<1>5. CallsSeen' = [CallsSeen EXCEPT ![c] = CallSeen(c)']
  BY <1>1, <1>2, OneCallSeen, NothingSignedIn
<1>6. UNCHANGED SessionSeen
  BY <1>2, SessionsLookSame, NothingSignedIn DEF SessionKept
<1>7. CallsSeen[c] = CallSeen(c) /\ CallSeen(c).phase = "idle"
  BY <1>2 DEF CallsSeen, CallSeen, PhaseSeen
<1> QED BY <1>4, <1>5, <1>6, <1>7 DEF Service!Ask, Service!Phase

LEMMA InsideUnseen ==
  ASSUME IInv, NEW c \in Calls,
         LookUp(c) \/ Unhealthy(c) \/ StartProcess(c) \/ TakeBrowser(c)
           \/ \E tenant \in Tenants, upn \in Emails : SignedIn(c, tenant, upn)
  PROVE  UNCHANGED <<SessionSeen, CallsSeen>>
<1>1. UNCHANGED sessions /\ SignInsKept
  <2>1. CASE \E tenant \in Tenants, upn \in Emails : SignedIn(c, tenant, upn)
    BY <2>1 DEF SignedIn, SignInsKept, Past, IInv, TypeOK
  <2>2. CASE ~ \E tenant \in Tenants, upn \in Emails : SignedIn(c, tenant, upn)
    BY <2>2, NothingSignedIn DEF LookUp, Unhealthy, StartProcess, TakeBrowser
  <2> QED BY <2>1, <2>2
<1>2. \E phase \in Phases \ {"idle", "verifying", "done"} :
        Move(c, phase) /\ call[c].phase \notin {"idle", "verifying", "done"}
  BY DEF LookUp, Unhealthy, StartProcess, TakeBrowser, SignedIn, Phases
<1> QED BY <1>1, <1>2, MoveUnseen, SessionsLookSame DEF SessionKept

LEMMA FailuresSeen ==
  ASSUME IInv, NEW c \in Calls,
         StartFails(c) \/ TimesOut(c) \/ Reject(c) \/ Unverified(c)
           \/ \E code \in Failures : SignInFails(c, code)
  PROVE  \E code \in Failures : Service!Fail(c, code)
<1>1. UNCHANGED sessions /\ SignInsKept
  BY NothingSignedIn DEF StartFails, TimesOut, Reject, Unverified, SignInFails, Stopped
<1>2. PICK code \in Failures : call' = [call EXCEPT ![c].phase = "done", ![c].result = code]
  BY SessionAssumption DEF StartFails, TimesOut, Reject, Unverified, SignInFails, Failure
<1>3. call[c].phase \notin {"idle", "done"}
  BY DEF StartFails, TimesOut, Reject, Unverified, SignInFails
<1> QED BY <1>1, <1>2, <1>3, FailureSeen

LEMMA TimeUnseen ==
  ASSUME IInv, TimePasses
  PROVE  UNCHANGED <<SessionSeen, CallsSeen>>
<1>1. SignInsKept /\ UNCHANGED <<call, proc>>
  BY NothingSignedIn DEF TimePasses
<1>2. \A k \in Connections : SessionKept(k)
  <2> SUFFICES ASSUME NEW k \in Connections PROVE SessionKept(k)
    OBVIOUS
  <2>1. CASE sessions[k] = NULL
    BY <2>1 DEF TimePasses, SessionKept
  <2>2. CASE sessions[k] # NULL
    <3>1. /\ sessions[k].process \in Calls /\ sessions[k] \in SessionRows
          /\ sessions'[k] = sessions[k] \/ (sessions[k].idle > 0 /\ sessions'[k] = [sessions[k] EXCEPT !.idle = @ - 1])
      BY <2>2, SessionReset DEF TimePasses, IInv, TypeOK
    <3>2. CASE sessions[k].idle > 0 /\ sessions'[k] = [sessions[k] EXCEPT !.idle = @ - 1]
      <4>1. sessions'[k] \in SessionRows /\ sessions'[k].process = sessions[k].process
        BY <3>1, <3>2, SessionAssumption DEF SessionRows
      <4> QED BY <2>2, <4>1, SessionAssumption DEF SessionKept
    <3> QED BY <2>2, <3>1, <3>2 DEF SessionKept
  <2> QED BY <2>1, <2>2
<1> QED BY <1>1, <1>2, SessionsLookSame DEF CallsSeen, CallSeen, PhaseSeen, SignedInAs

\* Every step of the service is one of the sessions it stands for, or none.
LEMMA StepOfService ==
  ASSUME IInv, SignedInBefore, Next
  PROVE  [Service!Next]_Service!vars
<1>1. ASSUME NEW c \in Calls, NEW request \in Requests, Validate(c, request[1], request[2])
      PROVE  Service!Next
  <2>1. request[1] \in Connections /\ request[2] \in Emails
    BY SessionAssumption
  <2> QED BY <1>1, <2>1, ValidateAsks DEF Service!Next
<1>2. ASSUME NEW c \in Calls, Reuse(c) \/ Dispose(c) \/ Adopt(c) \/ Verified(c)
      PROVE  Service!Next
  BY <1>2, ReuseJoins, DisposeEnds, AdoptSignsIn, VerifiedReports DEF Service!Next
<1>3. ASSUME NEW c \in Calls,
             StartFails(c) \/ TimesOut(c) \/ Reject(c) \/ Unverified(c)
               \/ \E code \in Failures : SignInFails(c, code)
      PROVE  Service!Next
  BY <1>3, FailuresSeen DEF Service!Next
<1>4. ASSUME NEW c \in Calls,
             LookUp(c) \/ Unhealthy(c) \/ StartProcess(c) \/ TakeBrowser(c)
               \/ \E tenant \in Tenants, upn \in Emails : SignedIn(c, tenant, upn)
      PROVE  UNCHANGED Service!vars
  BY <1>4, InsideUnseen DEF Service!vars
<1>5. CASE Restart
  BY <1>5, RestartSeen DEF Service!Next
<1>6. CASE TimePasses
  BY <1>6, TimeUnseen DEF Service!vars
<1> QED BY <1>1, <1>2, <1>3, <1>4, <1>5, <1>6 DEF Next, Check, Begin, SignIn, Inspect, Answer

\* The service of the provisioner is a session per connection that calls join,
\* end or begin, whatever overlaps, fails, times out or restarts behind it.
THEOREM ServiceIsSessions == Spec => ImplementsSessions
<1>1. Init => Service!Init /\ SignedInBefore
  BY DEF Init, Idle, NoProcess, Service!Init, Service!Idle, SessionSeen, CallsSeen, CallSeen, PhaseSeen,
         SignedInBefore
<1>2. IInv /\ SignedInBefore /\ [Next]_vars => SignedInBefore' /\ [Service!Next]_Service!vars
  <2>1. UNCHANGED vars => UNCHANGED Service!vars
    BY DEF vars, Service!vars, SessionSeen, CallsSeen, CallSeen, PhaseSeen, SignedInAs
  <2> QED BY <2>1, SignedInStep, StepOfService
<1> QED BY <1>1, <1>2, Invariant, PTL DEF Spec, ImplementsSessions, Service!Spec
-----------------------------------------------------------------------------
(* What CallEnds rests on: waiting is never circular, and a call only goes    *)
(* forward.                                                                   *)

\* A lock is held by a call that is inside of ensure for its connection.
LocksOwned ==
  \A k \in Connections : lock[k] # NULL => Within(lock[k]) /\ Conn(lock[k]) = k

\* For the lock of its connection, or for the browser that another one uses.
WaitsFor(c, d) ==
  \/ call[c].phase = "waiting" /\ lock[Conn(c)] = d
  \/ call[c].phase = "queued" /\ browser = 0 /\ call[d].phase = "browsing"

InProgress(c) == call[c].phase \notin {"idle", "done"}
WaitsForNobody(c) ==
  /\ call[c].phase = "waiting" => lock[Conn(c)] = NULL
  /\ call[c].phase = "queued" => browser > 0

\* Behind a call in progress there are at most two others, the last of which
\* waits for nobody.
NoCircularWait ==
  \A c \in Calls : InProgress(c) =>
    \/ WaitsForNobody(c)
    \/ \E d \in Calls : WaitsFor(c, d) /\ InProgress(d) /\ WaitsForNobody(d)
    \/ \E d, e \in Calls :
         WaitsFor(c, d) /\ WaitsFor(d, e) /\ InProgress(e) /\ WaitsForNobody(e)

\* The phases in the order in which a call passes through them.
Place(phase) ==
  CASE phase = "idle" -> 0 [] phase = "waiting" -> 1 [] phase = "checking" -> 2
    [] phase = "disposing" -> 3 [] phase = "starting" -> 4 [] phase = "queued" -> 5
    [] phase = "browsing" -> 6 [] phase = "inspecting" -> 7 [] phase = "verifying" -> 8
    [] phase = "done" -> 9

GoesForward ==
  \A c \in Calls :
    call'[c].phase = call[c].phase \/ Place(call'[c].phase) > Place(call[c].phase)

\* What a step does to the lock, the phase and the connection of a call.
CallStands(d) == call'[d].phase = call[d].phase /\ Conn(d)' = Conn(d)

\* A step of one call leaves the others and their locks alone.
LockStep(c) ==
  /\ \A d \in Calls \ {c} : CallStands(d)
  /\ \/ call[c].phase = "idle" /\ call'[c].phase = "waiting" /\ lock' = lock
     \/ call[c].phase = "waiting" /\ call'[c].phase \in {"starting", "disposing", "checking"}
        /\ Conn(c)' = Conn(c) /\ Conn(c) \in Connections
        /\ lock[Conn(c)] = NULL /\ lock' = [lock EXCEPT ![Conn(c)] = c]
     \/ Within(c) /\ Within(c)' /\ Conn(c)' = Conn(c) /\ lock' = lock
        /\ Place(call'[c].phase) > Place(call[c].phase)
     \/ Within(c) /\ call'[c].phase \in {"verifying", "done"} /\ Conn(c)' = Conn(c)
        /\ lock' = [lock EXCEPT ![Conn(c)] = NULL]
     \/ call[c].phase = "verifying" /\ call'[c].phase = "done" /\ Conn(c)' = Conn(c) /\ lock' = lock

Step(c) ==
  \/ \E request \in Requests : Validate(c, request[1], request[2])
  \/ LookUp(c) \/ Check(c) \/ Dispose(c) \/ Begin(c) \/ TakeBrowser(c) \/ SignIn(c)
  \/ TimesOut(c) \/ Inspect(c) \/ Answer(c)

LEMMA PlacesInOrder ==
  /\ Place("idle") = 0 /\ Place("waiting") = 1 /\ Place("checking") = 2 /\ Place("disposing") = 3
  /\ Place("starting") = 4 /\ Place("queued") = 5 /\ Place("browsing") = 6 /\ Place("inspecting") = 7
  /\ Place("verifying") = 8 /\ Place("done") = 9
BY DEF Place

LEMMA StepLocks ==
  ASSUME IInv, NEW c \in Calls, Step(c)
  PROVE  LockStep(c)
<1>0. call \in [Calls -> CallRows] /\ (call[c].phase # "idle" => Conn(c) \in Connections)
  BY DEF IInv, TypeOK, CallsNamed, Conn
<1>1. ASSUME NEW phase, Move(c, phase)
      PROVE  /\ \A d \in Calls \ {c} : CallStands(d)
             /\ call'[c].phase = phase /\ Conn(c)' = Conn(c)
  BY <1>0, <1>1 DEF Move, CallStands, Conn, CallRows
<1>2. ASSUME NEW code, Failure(c, code)
      PROVE  /\ \A d \in Calls \ {c} : CallStands(d)
             /\ call'[c].phase = "done" /\ Conn(c)' = Conn(c) /\ lock' = [lock EXCEPT ![Conn(c)] = NULL]
  <2> DEFINE row == [call[c] EXCEPT !.phase = "done", !.result = code]
  <2>1. row.phase = "done" /\ row.conn = call[c].conn
    BY <1>0 DEF CallRows
  <2>2. call' = [call EXCEPT ![c] = row]
    BY <1>2 DEF Failure
  <2> HIDE DEF row
  <2> QED BY <1>0, <1>2, <2>1, <2>2 DEF Failure, Unlock, CallStands, Conn
<1>3. ASSUME NEW process, Ensured(c, process)
      PROVE  /\ \A d \in Calls \ {c} : CallStands(d)
             /\ call'[c].phase = "verifying" /\ Conn(c)' = Conn(c) /\ lock' = [lock EXCEPT ![Conn(c)] = NULL]
  <2> DEFINE row == [call[c] EXCEPT !.phase = "verifying", !.process = process]
  <2>1. row.phase = "verifying" /\ row.conn = call[c].conn
    BY <1>0 DEF CallRows
  <2>2. call' = [call EXCEPT ![c] = row]
    BY <1>3 DEF Ensured
  <2> HIDE DEF row
  <2> QED BY <1>0, <1>3, <2>1, <2>2 DEF Ensured, Unlock, CallStands, Conn
<1>4. ASSUME NEW request \in Requests, Validate(c, request[1], request[2]) PROVE LockStep(c)
  <2> DEFINE row == [call[c] EXCEPT !.phase = "waiting", !.conn = request[1], !.email = request[2]]
  <2>1. row.phase = "waiting"
    BY <1>0 DEF CallRows
  <2>2. call' = [call EXCEPT ![c] = row] /\ call[c].phase = "idle" /\ lock' = lock
    BY <1>4 DEF Validate
  <2> HIDE DEF row
  <2> QED BY <1>0, <2>1, <2>2 DEF LockStep, CallStands, Conn
<1>5. CASE LookUp(c)
  <2>1. PICK phase \in {"starting", "disposing", "checking"} : Move(c, phase)
    BY <1>5 DEF LookUp
  <2> QED BY <1>0, <1>1, <1>5, <2>1 DEF LookUp, LockStep
<1>6. CASE Unhealthy(c) \/ Dispose(c) \/ StartProcess(c) \/ TakeBrowser(c)
  <2>1. PICK phase : /\ Move(c, phase) /\ Within(c) /\ lock' = lock
                     /\ phase \in {"disposing", "starting", "queued", "browsing"}
                     /\ Place(phase) > Place(call[c].phase)
    BY <1>6, PlacesInOrder DEF Unhealthy, Dispose, StartProcess, TakeBrowser, Within
  <2> QED BY <1>1, <2>1 DEF LockStep, Within
<1>7. ASSUME NEW tenant, NEW upn, SignedIn(c, tenant, upn) PROVE LockStep(c)
  BY <1>1, <1>7, PlacesInOrder DEF SignedIn, LockStep, Within
<1>8. ASSUME NEW code, Failure(c, code), Within(c) PROVE LockStep(c)
  BY <1>2, <1>8 DEF LockStep
<1>9. CASE StartFails(c) \/ TimesOut(c) \/ Reject(c)
  BY <1>8, <1>9 DEF StartFails, TimesOut, Reject, Within
<1>10. ASSUME NEW code, SignInFails(c, code) PROVE LockStep(c)
  BY <1>8, <1>10 DEF SignInFails, Within
<1>11. CASE Reuse(c) \/ Adopt(c)
  BY <1>3, <1>11 DEF Reuse, Adopt, LockStep, Within
<1>12. CASE Verified(c) \/ Unverified(c)
  <2>1. PICK result : call' = [call EXCEPT ![c].phase = "done", ![c].result = result]
    BY <1>12 DEF Verified, Unverified
  <2> DEFINE row == [call[c] EXCEPT !.phase = "done", !.result = result]
  <2>2. row.phase = "done" /\ row.conn = call[c].conn
    BY <1>0 DEF CallRows
  <2>3. call' = [call EXCEPT ![c] = row] /\ call[c].phase = "verifying" /\ lock' = lock
    BY <1>12, <2>1 DEF Verified, Unverified
  <2> HIDE DEF row
  <2> QED BY <1>0, <2>2, <2>3 DEF LockStep, CallStands, Conn
<1> QED BY <1>4, <1>5, <1>6, <1>7, <1>9, <1>10, <1>11, <1>12 DEF Step, Check, Begin, SignIn, Inspect, Answer

LEMMA LocksStep ==
  ASSUME IInv, LocksOwned, NEW c \in Calls, LockStep(c)
  PROVE  LocksOwned'
<1> SUFFICES ASSUME NEW k \in Connections, NEW d, d = lock'[k], d # NULL
             PROVE  call'[d].phase \notin {"idle", "waiting", "verifying", "done"} /\ call'[d].conn = k
  BY DEF LocksOwned, Within, Conn
<1> USE DEF Within, Conn
<1>0. lock \in [Connections -> Calls \cup {NULL}]
  BY DEF IInv, TypeOK
<1>1. CASE lock[k] = d
  <2>1. d \in Calls /\ Within(d) /\ Conn(d) = k
    BY <1>0, <1>1 DEF LocksOwned
  <2>2. CASE d # c
    BY <2>1, <2>2 DEF LockStep, CallStands
  <2>3. CASE d = c
    BY <1>0, <2>1, <2>3 DEF LockStep
  <2> QED BY <2>2, <2>3
<1>2. CASE lock[k] # d
  <2>1. call[c].phase = "waiting" /\ k = Conn(c) /\ d = c
    BY <1>0, <1>2 DEF LockStep
  <2> QED BY <2>1 DEF LockStep
<1> QED BY <1>1, <1>2

\* Whoever holds the lock of a connection is inside of ensure for it.
LEMMA LocksAreOwned == Spec => []LocksOwned
<1>1. Init => LocksOwned
  BY DEF Init, LocksOwned
<1>2. IInv /\ LocksOwned /\ [Next]_vars => LocksOwned'
  <2> SUFFICES ASSUME IInv, LocksOwned, [Next]_vars PROVE LocksOwned'
    OBVIOUS
  <2>1. CASE \E c \in Calls : Step(c)
    BY <2>1, StepLocks, LocksStep
  <2>2. CASE Restart
    BY <2>2 DEF Restart, LocksOwned
  <2>3. CASE TimePasses \/ UNCHANGED vars
    BY <2>3 DEF TimePasses, vars, LocksOwned, Within, Conn
  <2> QED BY <2>1, <2>2, <2>3 DEF Next, Step
<1> QED BY <1>1, <1>2, Invariant, PTL DEF Spec

\* Calls never wait in a circle: for the lock of a connection one waits for the
\* call inside of ensure, which waits for the call that signs in, if for any,
\* and that one for its own timeout only.
THEOREM WaitingEnds == Spec => []NoCircularWait
<1>1. ASSUME IInv, LocksOwned, NEW c \in Calls, InProgress(c)
      PROVE  \/ WaitsForNobody(c)
             \/ \E d \in Calls : WaitsFor(c, d) /\ InProgress(d) /\ WaitsForNobody(d)
             \/ \E d, e \in Calls : WaitsFor(c, d) /\ WaitsFor(d, e) /\ InProgress(e) /\ WaitsForNobody(e)
  <2>0. lock \in [Connections -> Calls \cup {NULL}] /\ browser \in {0, 1} /\ Conn(c) \in Connections
    BY <1>1 DEF IInv, TypeOK, CallsNamed, InProgress, Conn
  <2>1. ASSUME browser = 0
        PROVE  \E e \in Calls : call[e].phase = "browsing" /\ InProgress(e) /\ WaitsForNobody(e)
    <3>1. Browsing # {}
      <4>1. Cardinality({}) = 0
        BY FS_EmptySet
      <4>2. Cardinality(Browsing) + browser = 1
        BY <1>1 DEF IInv, OneBrowser, Browsing
      <4> QED BY <2>1, <4>1, <4>2
    <3> QED BY <3>1 DEF Browsing, InProgress, WaitsForNobody
  <2>2. CASE call[c].phase = "waiting" /\ lock[Conn(c)] # NULL
    <3> DEFINE d == lock[Conn(c)]
    <3>1. d \in Calls /\ Within(d) /\ WaitsFor(c, d)
      BY <1>1, <2>0, <2>2 DEF LocksOwned, WaitsFor
    <3>2. InProgress(d) /\ call[d].phase # "waiting"
      BY <3>1 DEF Within, InProgress
    <3> HIDE DEF d
    <3>3. CASE call[d].phase = "queued" /\ browser = 0
      BY <2>1, <3>1, <3>3 DEF WaitsFor
    <3>4. CASE ~ (call[d].phase = "queued" /\ browser = 0)
      <4>1. WaitsForNobody(d)
        BY <2>0, <3>2, <3>4 DEF WaitsForNobody
      <4> QED BY <3>1, <3>2, <4>1
    <3> QED BY <3>3, <3>4
  <2>3. CASE call[c].phase = "queued" /\ browser = 0
    BY <2>1, <2>3 DEF WaitsFor
  <2>4. CASE ~ (call[c].phase = "waiting" /\ lock[Conn(c)] # NULL) /\ ~ (call[c].phase = "queued" /\ browser = 0)
    BY <2>0, <2>4 DEF WaitsForNobody
  <2> QED BY <2>2, <2>3, <2>4
<1>2. IInv /\ LocksOwned => NoCircularWait
  BY <1>1 DEF NoCircularWait
<1> QED BY <1>2, Invariant, LocksAreOwned, PTL

\* A call never goes back to a phase it has left: with the theorem before, a
\* bounded number of steps of bounded length ends every call.
THEOREM CallsGoForward == Spec => [][GoesForward]_vars
<1>1. ASSUME IInv, NEW c \in Calls, LockStep(c) PROVE GoesForward
  <2> SUFFICES ASSUME NEW d \in Calls, call'[d].phase # call[d].phase
               PROVE  Place(call'[d].phase) > Place(call[d].phase)
    BY DEF GoesForward
  <2>1. d = c
    BY <1>1 DEF LockStep, CallStands
  <2>2. Within(c) => Place(call[c].phase) \in 2..7
    BY <1>1, PlacesInOrder DEF Within, IInv, TypeOK, CallRows, Phases
  <2> QED BY <1>1, <2>1, <2>2, PlacesInOrder DEF LockStep
<1>2. ASSUME IInv, Next PROVE GoesForward
  <2>1. CASE \E c \in Calls : Step(c)
    BY <1>1, <1>2, <2>1, StepLocks
  <2>2. CASE Restart
    <3> SUFFICES ASSUME NEW c \in Calls, call'[c].phase # call[c].phase
                 PROVE  Place(call'[c].phase) > Place(call[c].phase)
      BY DEF GoesForward
    <3>1. call[c] \in CallRows /\ call[c].phase \notin {"idle", "done"} /\ call'[c].phase = "done"
      BY <1>2, <2>2 DEF Restart, IInv, TypeOK, CallRows
    <3> QED BY <3>1, PlacesInOrder DEF CallRows, Phases
  <2>3. CASE TimePasses
    BY <2>3 DEF TimePasses, GoesForward
  <2> QED BY <1>2, <2>1, <2>2, <2>3 DEF Next, Step
<1>3. IInv /\ [Next]_vars => [GoesForward]_vars
  BY <1>2
<1> QED BY <1>3, Invariant, PTL DEF Spec
=============================================================================
