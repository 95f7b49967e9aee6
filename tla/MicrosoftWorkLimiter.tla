------------------------ MODULE MicrosoftWorkLimiter ------------------------
(***************************************************************************)
(* MicrosoftWorkLimiter of apps/worker/src/microsoft-work-limiter.ts: the  *)
(* permits that bound the Microsoft work of all organizations and of each. *)
(* acquire and release run to their end without an await, so they are      *)
(* atomic; the loop of #wakeWaiters is kept as steps that nothing else     *)
(* interrupts, with "scan" for its index.                                  *)
(***************************************************************************)
EXTENDS Integers, Sequences, FiniteSets

CONSTANTS
  Callers,         \* invocations of processTenantValidationJob
  Organizations,
  OrgOf,           \* the organization of each caller
  GlobalLimit,     \* 5 in the code
  OrgLimit         \* 3 in the code

ASSUME LimiterAssumption ==
  /\ IsFiniteSet(Callers)
  /\ OrgOf \in [Callers -> Organizations]
  /\ GlobalLimit \in Nat \ {0}
  /\ OrgLimit \in Nat \ {0}

VARIABLES
  activeGlobal,
  activeByOrganization,   \* 0 where the map has no entry
  waiters,                \* the callers in #waiters, in order
  permit,                 \* the state of the release function of each caller
  scan                    \* index of the wake loop, 0 outside of it

vars == <<activeGlobal, activeByOrganization, waiters, permit, scan>>

Init ==
  /\ activeGlobal = 0
  /\ activeByOrganization = [o \in Organizations |-> 0]
  /\ waiters = << >>
  /\ permit = [c \in Callers |-> "none"]
  /\ scan = 0

HasCapacity_GlobalOnly(o) == activeGlobal < GlobalLimit
HasCapacity(o) == activeGlobal < GlobalLimit /\ activeByOrganization[o] < OrgLimit

Waiting(c) == \E i \in DOMAIN waiters : waiters[i] = c

\* #grant, the caller's promise resolved with its release function.
Grant(c) ==
  /\ activeGlobal' = activeGlobal + 1
  /\ activeByOrganization' = [activeByOrganization EXCEPT ![OrgOf[c]] = @ + 1]
  /\ permit' = [permit EXCEPT ![c] = "held"]

AcquireNow(c) ==
  /\ scan = 0 /\ permit[c] # "held" /\ ~ Waiting(c)
  /\ HasCapacity(OrgOf[c])
  /\ Grant(c)
  /\ UNCHANGED <<waiters, scan>>

Enqueued_Front(c) == <<c>> \o waiters
Enqueued(c) == Append(waiters, c)

AcquireLater(c) ==
  /\ scan = 0 /\ permit[c] # "held" /\ ~ Waiting(c)
  /\ ~ HasCapacity(OrgOf[c])
  /\ waiters' = Enqueued(c)
  /\ permit' = [permit EXCEPT ![c] = "none"]
  /\ UNCHANGED <<activeGlobal, activeByOrganization, scan>>

Release(c) ==
  /\ scan = 0 /\ permit[c] = "held"
  /\ permit' = [permit EXCEPT ![c] = "released"]
  /\ activeGlobal' = activeGlobal - 1
  /\ activeByOrganization' = [activeByOrganization EXCEPT ![OrgOf[c]] = @ - 1]
  /\ scan' = 1
  /\ UNCHANGED waiters

\* A second call of the same release function returns at once.
ReleaseAgain(c) ==
  /\ scan = 0 /\ permit[c] = "released"
  /\ UNCHANGED vars

\* The loop of #wakeWaiters.
Scanning == scan \in 1..Len(waiters) /\ activeGlobal < GlobalLimit

Without(i) == SubSeq(waiters, 1, i - 1) \o SubSeq(waiters, i + 1, Len(waiters))

WakeGrant ==
  /\ Scanning /\ HasCapacity(OrgOf[waiters[scan]])
  /\ waiters' = Without(scan)
  /\ Grant(waiters[scan])
  /\ UNCHANGED scan

WakeSkip ==
  /\ Scanning /\ ~ HasCapacity(OrgOf[waiters[scan]])
  /\ scan' = scan + 1
  /\ UNCHANGED <<activeGlobal, activeByOrganization, waiters, permit>>

WakeDone_OneLook ==
  /\ scan > 0 /\ (~ Scanning \/ scan > 1)
  /\ scan' = 0
  /\ UNCHANGED <<activeGlobal, activeByOrganization, waiters, permit>>
WakeDone ==
  /\ scan > 0 /\ ~ Scanning
  /\ scan' = 0
  /\ UNCHANGED <<activeGlobal, activeByOrganization, waiters, permit>>

Wake == WakeGrant \/ WakeSkip \/ WakeDone

Next ==
  \/ \E c \in Callers : AcquireNow(c) \/ AcquireLater(c) \/ Release(c) \/ ReleaseAgain(c)
  \/ Wake

Spec == Init /\ [][Next]_vars

\* The loop runs to its end, and a permit is released in the finally of a
\* call that the client's timeout bounds, strongly because the steps of the
\* loop, one turn of the event loop in the code, disable Release in between.
\* Nobody has to acquire.
FairSpec == Spec /\ WF_vars(Wake) /\ \A c \in Callers : SF_vars(Release(c))

-----------------------------------------------------------------------------
Holders == {c \in Callers : permit[c] = "held"}
HoldersOf(o) == {c \in Holders : OrgOf[c] = o}

\* The type invariant; a counter never falls below zero.
TypeOK ==
  /\ activeGlobal \in Nat
  /\ activeByOrganization \in [Organizations -> Nat]
  /\ waiters \in Seq(Callers)
  /\ permit \in [Callers -> {"none", "held", "released"}]
  /\ scan \in Nat

\* The counters are the permits that are out, through every order of grants,
\* releases, repeated releases and wake-ups: so no permit leaks, and the
\* limits on the counters are limits on the work itself ("Microsoft work is
\* limited to three active operations per organization and five globally",
\* docs/architecture/provisioner.md).
PermitsCounted ==
  /\ activeGlobal = Cardinality(Holders)
  /\ \A o \in Organizations : activeByOrganization[o] = Cardinality(HoldersOf(o))

WorkLimited ==
  /\ PermitsCounted
  /\ Cardinality(Holders) <= GlobalLimit
  /\ \A o \in Organizations : Cardinality(HoldersOf(o)) <= OrgLimit

\* No wake-up is lost: once the loop has ended, nobody waits for a permit that
\* is there, although a waiter behind a full organization may be passed over.
NobodyWaitsForNothing ==
  scan = 0 => \A i \in DOMAIN waiters : ~ HasCapacity(OrgOf[waiters[i]])

\* Permits go out as from one line: a new caller does not pass anybody there is
\* room for, a waiter is served before those behind it unless its organization
\* is full, and after a release everybody there is room for is served before
\* anything else happens.
Line == INSTANCE PermitLine WITH held <- Holders, line <- waiters
ImplementsLine == Line!Spec

\* Whoever waits is served at last, whatever organizations come and go in
\* front of it.
WaitersServed == \A c \in Callers : Waiting(c) ~> permit[c] = "held"
=============================================================================
