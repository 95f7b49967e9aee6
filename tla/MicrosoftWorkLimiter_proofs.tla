--------------------- MODULE MicrosoftWorkLimiter_proofs ---------------------
(* Theorems of MicrosoftWorkLimiter, for any callers, organizations and      *)
(* limits.  Every safety property of the module follows from one inductive   *)
(* invariant: the counters are the permits, nobody waits twice or with a     *)
(* permit, and no waiter that the loop has passed could have been served.    *)
EXTENDS MicrosoftWorkLimiter, FiniteSetTheorems, TLAPS

NobodyWaitsTwice ==
  \A i, k \in DOMAIN waiters : waiters[i] = waiters[k] => i = k

WaitersWithoutPermit ==
  \A i \in DOMAIN waiters : permit[waiters[i]] # "held"

WithinLimits ==
  /\ activeGlobal <= GlobalLimit
  /\ \A o \in Organizations : activeByOrganization[o] <= OrgLimit

\* The loop has looked at the waiters before its index, all of them outside it.
PassedWait ==
  \A i \in DOMAIN waiters : scan = 0 \/ i < scan => ~ HasCapacity(OrgOf[waiters[i]])

IInv ==
  TypeOK /\ PermitsCounted /\ NobodyWaitsTwice /\ WaitersWithoutPermit /\ WithinLimits /\ PassedWait

-----------------------------------------------------------------------------
(* Facts about sequences and permits. *)

LEMMA WithoutElement ==
  ASSUME TypeOK, NEW i \in DOMAIN waiters
  PROVE  /\ Without(i) \in Seq(Callers)
         /\ Len(Without(i)) = Len(waiters) - 1
         /\ \A k \in DOMAIN Without(i) :
              \/ k < i /\ k \in DOMAIN waiters /\ Without(i)[k] = waiters[k]
              \/ k >= i /\ k + 1 \in DOMAIN waiters /\ Without(i)[k] = waiters[k + 1]
<1>1. waiters \in Seq(Callers) /\ Len(waiters) \in Nat /\ i \in 1..Len(waiters)
  BY DEF TypeOK
<1> DEFINE front == SubSeq(waiters, 1, i - 1)
           back == SubSeq(waiters, i + 1, Len(waiters))
<1>2. front \in Seq(Callers) /\ Len(front) = i - 1 /\ \A k \in 1..(i - 1) : front[k] = waiters[k]
  BY <1>1
<1>3. /\ back \in Seq(Callers) /\ Len(back) = Len(waiters) - i
      /\ \A k \in 1..(Len(waiters) - i) : back[k] = waiters[k + i]
  BY <1>1
<1> HIDE DEF front, back
<1>4. /\ front \o back \in Seq(Callers) /\ Len(front \o back) = Len(waiters) - 1
      /\ \A k \in 1..(Len(waiters) - 1) :
           (front \o back)[k] = IF k < i THEN front[k] ELSE back[k - (i - 1)]
  BY <1>1, <1>2, <1>3
<1>5. Without(i) = front \o back
  BY DEF Without, front, back
<1>6. ASSUME NEW k \in DOMAIN Without(i)
      PROVE  \/ k < i /\ k \in DOMAIN waiters /\ Without(i)[k] = waiters[k]
             \/ k >= i /\ k + 1 \in DOMAIN waiters /\ Without(i)[k] = waiters[k + 1]
  <2>1. k \in 1..(Len(waiters) - 1) /\ k \in Int
    BY <1>1, <1>4, <1>5
  <2>2. CASE k < i
    BY <1>1, <1>2, <1>4, <1>5, <2>1, <2>2
  <2>3. CASE k >= i
    <3>1. k - (i - 1) \in 1..(Len(waiters) - i) /\ k - (i - 1) + i = k + 1 /\ k + 1 \in 1..Len(waiters)
      BY <1>1, <2>1, <2>3
    <3>2. back[k - (i - 1)] = waiters[k + 1]
      BY <1>3, <3>1
    <3> QED BY <1>1, <1>4, <1>5, <2>1, <2>3, <3>1, <3>2
  <2> QED BY <1>1, <2>1, <2>2, <2>3
<1> QED BY <1>4, <1>5, <1>6

LEMMA FiniteHolders ==
  ASSUME NEW o \in Organizations
  PROVE  IsFiniteSet(Holders) /\ IsFiniteSet(HoldersOf(o))
         /\ Cardinality(Holders) \in Nat /\ Cardinality(HoldersOf(o)) \in Nat
<1>1. IsFiniteSet(Callers)
  BY LimiterAssumption
<1>2. Holders \subseteq Callers /\ HoldersOf(o) \subseteq Callers
  BY DEF Holders, HoldersOf
<1> QED BY <1>1, <1>2, FS_Subset, FS_CardinalityType

LEMMA GrantTypes ==
  ASSUME TypeOK, NEW c \in Callers, Grant(c)
  PROVE  /\ activeGlobal' \in Nat
         /\ activeByOrganization' \in [Organizations -> Nat]
         /\ permit' \in [Callers -> {"none", "held", "released"}]
<1>1. activeByOrganization[OrgOf[c]] + 1 \in Nat
  BY LimiterAssumption DEF TypeOK
<1>2. activeByOrganization' \in [Organizations -> Nat]
  BY <1>1 DEF Grant, TypeOK
<1> QED BY <1>2 DEF Grant, TypeOK

\* A permit given counts once, in its organization.
LEMMA GrantCounts ==
  ASSUME IInv, NEW c \in Callers, permit[c] # "held", HasCapacity(OrgOf[c]), Grant(c)
  PROVE  PermitsCounted' /\ WithinLimits'
<1> DEFINE o == OrgOf[c]
<1>1. o \in Organizations
  BY LimiterAssumption
<1>2. Holders' = Holders \cup {c} /\ c \notin Holders
  BY DEF Holders, Grant, IInv, TypeOK
<1>3. activeGlobal' = Cardinality(Holders') /\ activeGlobal' <= GlobalLimit
  <2>1. Cardinality(Holders') = Cardinality(Holders) + 1
    BY <1>1, <1>2, FiniteHolders, FS_AddElement
  <2> QED BY <2>1, LimiterAssumption DEF Grant, IInv, TypeOK, PermitsCounted, HasCapacity
<1>4. ASSUME NEW p \in Organizations
      PROVE  activeByOrganization'[p] = Cardinality(HoldersOf(p)') /\ activeByOrganization'[p] <= OrgLimit
  <2>1. CASE p = o
    <3>1. HoldersOf(p)' = HoldersOf(p) \cup {c} /\ c \notin HoldersOf(p)
      BY <1>2, <2>1 DEF HoldersOf
    <3>2. Cardinality(HoldersOf(p)') = Cardinality(HoldersOf(p)) + 1
      BY <3>1, FiniteHolders, FS_AddElement
    <3> QED BY <2>1, <3>2, LimiterAssumption DEF Grant, IInv, TypeOK, PermitsCounted, HasCapacity
  <2>2. CASE p # o
    <3>1. HoldersOf(p)' = HoldersOf(p)
      BY <1>2, <2>2 DEF HoldersOf
    <3> QED BY <2>2, <3>1 DEF Grant, IInv, TypeOK, PermitsCounted, WithinLimits
  <2> QED BY <2>1, <2>2
<1> QED BY <1>3, <1>4 DEF PermitsCounted, WithinLimits

\* A permit given back no longer counts.
LEMMA ReleaseCounts ==
  ASSUME IInv, NEW c \in Callers, Release(c)
  PROVE  /\ PermitsCounted' /\ WithinLimits'
         /\ activeGlobal > 0 /\ activeByOrganization[OrgOf[c]] > 0
<1> DEFINE o == OrgOf[c]
<1>1. o \in Organizations
  BY LimiterAssumption
<1>2. Holders' = Holders \ {c} /\ c \in Holders
  BY DEF Holders, Release, IInv, TypeOK
<1>3. activeGlobal' = Cardinality(Holders') /\ activeGlobal' <= GlobalLimit /\ activeGlobal > 0
  <2>1. Cardinality(Holders') = Cardinality(Holders) - 1
    BY <1>1, <1>2, FiniteHolders, FS_RemoveElement
  <2>2. IsFiniteSet(Holders')
    BY <1>1, <1>2, FiniteHolders, FS_RemoveElement
  <2>3. Cardinality(Holders') \in Nat
    BY <2>2, FS_CardinalityType
  <2> QED BY <2>1, <2>3, LimiterAssumption DEF Release, IInv, TypeOK, PermitsCounted, WithinLimits
<1>4. ASSUME NEW p \in Organizations
      PROVE  /\ activeByOrganization'[p] = Cardinality(HoldersOf(p)') /\ activeByOrganization'[p] <= OrgLimit
             /\ p = o => activeByOrganization[p] > 0
  <2>1. CASE p = o
    <3>1. HoldersOf(p)' = HoldersOf(p) \ {c} /\ c \in HoldersOf(p)
      BY <1>2, <2>1 DEF HoldersOf
    <3>2. Cardinality(HoldersOf(p)') = Cardinality(HoldersOf(p)) - 1 /\ IsFiniteSet(HoldersOf(p)')
      BY <3>1, FiniteHolders, FS_RemoveElement
    <3>3. Cardinality(HoldersOf(p)') \in Nat
      BY <3>2, FS_CardinalityType
    <3> QED BY <2>1, <3>2, <3>3, LimiterAssumption DEF Release, IInv, TypeOK, PermitsCounted, WithinLimits
  <2>2. CASE p # o
    <3>1. HoldersOf(p)' = HoldersOf(p)
      BY <1>2, <2>2 DEF HoldersOf
    <3> QED BY <2>2, <3>1 DEF Release, IInv, TypeOK, PermitsCounted, WithinLimits
  <2> QED BY <2>1, <2>2
<1> QED BY <1>1, <1>3, <1>4 DEF PermitsCounted, WithinLimits

\* A grant leaves no more capacity than there was.
LEMMA GrantTakes ==
  ASSUME IInv, NEW c \in Callers, Grant(c), NEW o \in Organizations, ~ HasCapacity(o)
  PROVE  ~ HasCapacity(o)'
BY LimiterAssumption DEF Grant, HasCapacity, IInv, TypeOK

-----------------------------------------------------------------------------
(* The invariant. *)

LEMMA InitHolds == Init => IInv
<1> SUFFICES ASSUME Init PROVE IInv
  OBVIOUS
<1>1. TypeOK /\ NobodyWaitsTwice /\ WaitersWithoutPermit /\ PassedWait
  BY DEF Init, TypeOK, NobodyWaitsTwice, WaitersWithoutPermit, PassedWait
<1>2. WithinLimits
  BY LimiterAssumption DEF Init, WithinLimits
<1>3. Holders = {} /\ \A o \in Organizations : HoldersOf(o) = {}
  BY DEF Init, Holders, HoldersOf
<1>4. PermitsCounted
  BY <1>3, FS_EmptySet DEF Init, PermitsCounted
<1> QED BY <1>1, <1>2, <1>4 DEF IInv

LEMMA NextHolds == IInv /\ [Next]_vars => IInv'
<1> SUFFICES ASSUME IInv, [Next]_vars PROVE IInv'
  OBVIOUS
<1> USE DEF IInv
<1>0. \A i \in DOMAIN waiters : waiters[i] \in Callers /\ OrgOf[waiters[i]] \in Organizations
  BY LimiterAssumption DEF TypeOK
<1>1. ASSUME NEW c \in Callers, AcquireNow(c) PROVE IInv'
  <2>1. permit[c] # "held" /\ HasCapacity(OrgOf[c]) /\ Grant(c) /\ UNCHANGED <<waiters, scan>>
    BY <1>1 DEF AcquireNow
  <2>2. TypeOK'
    BY <2>1, GrantTypes DEF TypeOK
  <2>3. WaitersWithoutPermit'
    BY <1>1, <2>1 DEF AcquireNow, Waiting, Grant, WaitersWithoutPermit, TypeOK
  <2>4. PassedWait'
    BY <1>0, <2>1, GrantTakes DEF PassedWait
  <2> QED BY <2>1, <2>2, <2>3, <2>4, GrantCounts DEF NobodyWaitsTwice
<1>2. ASSUME NEW c \in Callers, AcquireLater(c) PROVE IInv'
  <2>1. waiters' = Append(waiters, c) /\ UNCHANGED <<activeGlobal, activeByOrganization, scan>>
        /\ permit' = [permit EXCEPT ![c] = "none"] /\ permit[c] # "held" /\ scan = 0
    BY <1>2 DEF AcquireLater, Enqueued
  <2>2. TypeOK'
    BY <2>1 DEF TypeOK
  <2>3. Holders' = Holders /\ \A o \in Organizations : HoldersOf(o)' = HoldersOf(o)
    BY <2>1 DEF Holders, HoldersOf, TypeOK
  <2>4. \A i \in DOMAIN waiters' : \/ i \in DOMAIN waiters /\ waiters'[i] = waiters[i]
                                   \/ i = Len(waiters) + 1 /\ waiters'[i] = c
    BY <2>1 DEF TypeOK
  <2>5. NobodyWaitsTwice'
    BY <1>2, <2>4 DEF AcquireLater, Waiting, NobodyWaitsTwice, TypeOK
  <2>6. WaitersWithoutPermit'
    BY <1>0, <2>1, <2>4 DEF WaitersWithoutPermit, TypeOK
  <2>7. PassedWait'
    BY <1>2, <2>1, <2>4 DEF AcquireLater, PassedWait, HasCapacity, TypeOK
  <2> QED BY <2>1, <2>2, <2>3, <2>5, <2>6, <2>7 DEF PermitsCounted, WithinLimits
<1>3. ASSUME NEW c \in Callers, Release(c) PROVE IInv'
  <2>1. TypeOK'
    <3>1. activeGlobal - 1 \in Nat /\ activeByOrganization[OrgOf[c]] - 1 \in Nat
      BY <1>3, ReleaseCounts, LimiterAssumption DEF TypeOK
    <3>2. activeByOrganization' \in [Organizations -> Nat]
      BY <1>3, <3>1 DEF Release, TypeOK
    <3> QED BY <1>3, <3>1, <3>2 DEF Release, TypeOK
  <2>2. WaitersWithoutPermit'
    BY <1>0, <1>3 DEF Release, WaitersWithoutPermit, TypeOK
  <2>3. NobodyWaitsTwice' /\ PassedWait'
    BY <1>3 DEF Release, NobodyWaitsTwice, PassedWait, TypeOK
  <2> QED BY <1>3, <2>1, <2>2, <2>3, ReleaseCounts
<1>4. CASE WakeGrant
  <2>1. PICK c \in Callers :
        scan \in DOMAIN waiters /\ c = waiters[scan] /\ permit[c] # "held" /\ HasCapacity(OrgOf[c])
        /\ Grant(c) /\ waiters' = Without(scan) /\ scan' = scan
    BY <1>0, <1>4 DEF WakeGrant, Scanning, WaitersWithoutPermit, TypeOK
  <2>2. TypeOK'
    BY <2>1, WithoutElement, GrantTypes DEF TypeOK
  <2>3. \A k \in DOMAIN waiters' :
          \/ k < scan /\ k \in DOMAIN waiters /\ waiters'[k] = waiters[k]
          \/ k >= scan /\ k + 1 \in DOMAIN waiters /\ waiters'[k] = waiters[k + 1]
    BY <2>1, WithoutElement
  <2>4. NobodyWaitsTwice'
    <3> SUFFICES ASSUME NEW i \in DOMAIN waiters', NEW k \in DOMAIN waiters', waiters'[i] = waiters'[k]
                 PROVE  i = k
      BY DEF NobodyWaitsTwice
    <3>1. i \in Int /\ k \in Int /\ scan \in Int
      BY <2>2 DEF TypeOK
    <3>2. CASE i < scan /\ k < scan
      BY <2>3, <3>1, <3>2 DEF NobodyWaitsTwice
    <3>3. CASE i >= scan /\ k >= scan
      <4>1. i + 1 = k + 1
        BY <2>3, <3>1, <3>3 DEF NobodyWaitsTwice
      <4> QED BY <3>1, <4>1
    <3>4. CASE i < scan /\ k >= scan
      <4>1. i = k + 1
        BY <2>3, <3>1, <3>4 DEF NobodyWaitsTwice
      <4> QED BY <3>1, <3>4, <4>1
    <3>5. CASE i >= scan /\ k < scan
      <4>1. i + 1 = k
        BY <2>3, <3>1, <3>5 DEF NobodyWaitsTwice
      <4> QED BY <3>1, <3>5, <4>1
    <3> QED BY <3>1, <3>2, <3>3, <3>4, <3>5
  <2>5. ASSUME NEW k \in DOMAIN waiters'
        PROVE  \E m \in DOMAIN waiters : m # scan /\ waiters'[k] = waiters[m] /\ (k < scan => m = k)
    <3>1. k \in Int /\ scan \in Int
      BY <2>2 DEF TypeOK
    <3> QED BY <2>3, <3>1
  <2>6. WaitersWithoutPermit'
    <3> SUFFICES ASSUME NEW k \in DOMAIN waiters' PROVE permit'[waiters'[k]] # "held"
      BY DEF WaitersWithoutPermit
    <3>1. PICK m \in DOMAIN waiters : m # scan /\ waiters'[k] = waiters[m]
      BY <2>5
    <3>2. waiters[m] # c /\ permit[waiters[m]] # "held" /\ waiters[m] \in Callers
      BY <1>0, <2>1, <3>1 DEF NobodyWaitsTwice, WaitersWithoutPermit
    <3>3. permit'[waiters[m]] = permit[waiters[m]]
      BY <2>1, <3>2 DEF Grant, TypeOK
    <3> QED BY <3>1, <3>2, <3>3
  <2>7. PassedWait'
    <3>1. ASSUME NEW k \in DOMAIN waiters', k < scan
          PROVE  ~ HasCapacity(OrgOf[waiters[k]])'
      <4>1. k \in DOMAIN waiters /\ waiters'[k] = waiters[k]
        BY <2>5, <3>1
      <4>2. PICK p \in Organizations : p = OrgOf[waiters[k]] /\ ~ HasCapacity(p)
        BY <1>0, <3>1, <4>1 DEF PassedWait
      <4>3. ~ HasCapacity(p)'
        BY <2>1, <4>2, GrantTakes
      <4> QED BY <4>1, <4>2, <4>3 DEF HasCapacity
    <3>2. scan # 0 /\ scan' = scan
      BY <2>1 DEF TypeOK
    <3> QED BY <3>1, <3>2 DEF PassedWait
  <2> QED BY <2>1, <2>2, <2>4, <2>6, <2>7, GrantCounts
<1>5. CASE WakeSkip
  BY <1>5 DEF WakeSkip, Scanning, TypeOK, PermitsCounted, Holders, HoldersOf, NobodyWaitsTwice,
              WaitersWithoutPermit, WithinLimits, PassedWait, HasCapacity
<1>6. CASE WakeDone
  <2>1. PassedWait'
    BY <1>6 DEF WakeDone, Scanning, TypeOK, PassedWait, HasCapacity
  <2> QED BY <1>6, <2>1 DEF WakeDone, TypeOK, PermitsCounted, Holders, HoldersOf, NobodyWaitsTwice,
                            WaitersWithoutPermit, WithinLimits
<1>7. CASE UNCHANGED vars
  BY <1>7 DEF vars, TypeOK, PermitsCounted, Holders, HoldersOf, NobodyWaitsTwice,
              WaitersWithoutPermit, WithinLimits, PassedWait, HasCapacity
<1> QED BY <1>1, <1>2, <1>3, <1>4, <1>5, <1>6, <1>7 DEF Next, Wake, ReleaseAgain

\* The invariant holds in every state.
THEOREM Invariant == Spec => []IInv
BY InitHolds, NextHolds, PTL DEF Spec

-----------------------------------------------------------------------------
\* The counters are numbers: a release never takes one below zero.
THEOREM TypeCorrect == Spec => []TypeOK
BY Invariant, PTL DEF IInv

\* The counters are the permits that are out, and these are within both limits.
THEOREM LimitsHold == Spec => []WorkLimited
<1>1. IInv => WorkLimited
  BY DEF IInv, WorkLimited, PermitsCounted, WithinLimits
<1> QED BY <1>1, Invariant, PTL

\* Outside the loop no waiter could be served.
THEOREM NoWakeUpIsLost == Spec => []NobodyWaitsForNothing
<1>1. IInv => NobodyWaitsForNothing
  BY DEF IInv, PassedWait, NobodyWaitsForNothing
<1> QED BY <1>1, Invariant, PTL

\* Within an organization permits go out in order of request: neither a new
\* caller nor a waiter further back is served before one that waits.
ServedInOrder ==
  [][\A c \in Callers : permit[c] # "held" /\ permit'[c] = "held" =>
       \A i \in DOMAIN waiters : OrgOf[waiters[i]] = OrgOf[c] =>
         \E k \in 1..i : waiters[k] = c]_vars

\* In an organization the permits go out in the order of the requests.
THEOREM OrderIsKept == Spec => ServedInOrder
<1> DEFINE InOrder == \A c \in Callers : permit[c] # "held" /\ permit'[c] = "held" =>
                        \A i \in DOMAIN waiters : OrgOf[waiters[i]] = OrgOf[c] =>
                          \E k \in 1..i : waiters[k] = c
<1>1. IInv /\ [Next]_vars => [InOrder]_vars
  <2> SUFFICES ASSUME IInv, Next, NEW c \in Callers, permit[c] # "held", permit'[c] = "held",
                      NEW i \in DOMAIN waiters, OrgOf[waiters[i]] = OrgOf[c]
               PROVE  \E k \in 1..i : waiters[k] = c
    OBVIOUS
  <2> USE DEF IInv
  <2>1. ASSUME NEW d \in Callers, AcquireNow(d) PROVE FALSE
    BY <2>1 DEF AcquireNow, Grant, PassedWait, TypeOK
  <2>2. ASSUME NEW d \in Callers, AcquireLater(d) \/ Release(d) \/ ReleaseAgain(d) PROVE FALSE
    BY <2>2 DEF AcquireLater, Release, ReleaseAgain, vars, TypeOK
  <2>3. CASE WakeGrant
    <3>1. c = waiters[scan] /\ scan \in DOMAIN waiters /\ HasCapacity(OrgOf[waiters[scan]])
      BY <2>3 DEF WakeGrant, Scanning, Grant, TypeOK
    <3>2. scan <= i
      BY <3>1 DEF PassedWait, TypeOK
    <3> QED BY <3>1, <3>2 DEF TypeOK
  <2>4. CASE WakeSkip \/ WakeDone
    BY <2>4 DEF WakeSkip, WakeDone
  <2> QED BY <2>1, <2>2, <2>3, <2>4 DEF Next, Wake
<1> QED BY <1>1, Invariant, PTL DEF Spec, ServedInOrder

-----------------------------------------------------------------------------
(* The refinement of PermitLine. *)

\* The instance has its own copy of the standard operator.
LEMMA SameCardinality == ASSUME NEW S PROVE Line!Cardinality(S) = Cardinality(S)
BY DEF Line!Cardinality, Cardinality

\* The counters tell what room there is.
LEMMA RoomIsCapacity ==
  ASSUME IInv, NEW c \in Callers
  PROVE  Line!HasRoom(c) <=> HasCapacity(OrgOf[c])
<1>1. Line!HeldOf(OrgOf[c]) = HoldersOf(OrgOf[c]) /\ OrgOf[c] \in Organizations
  BY LimiterAssumption DEF Line!HeldOf, HoldersOf
<1>2. /\ activeGlobal = Cardinality(Holders)
      /\ activeByOrganization[OrgOf[c]] = Cardinality(HoldersOf(OrgOf[c]))
  BY <1>1 DEF IInv, PermitsCounted
<1>3. Line!HasRoom(c) <=> /\ Cardinality(Holders) < GlobalLimit
                          /\ Cardinality(Line!HeldOf(OrgOf[c])) < OrgLimit
  BY SameCardinality DEF Line!HasRoom
<1> QED BY <1>1, <1>2, <1>3 DEF HasCapacity

\* Outside the loop, and for the waiters it has passed, there is no room.
LEMMA PassedIsSettled ==
  ASSUME IInv, NEW n \in 0..Len(waiters), scan = 0 \/ n < scan
  PROVE  Line!Settled(n)
<1>1. waiters \in Seq(Callers) /\ Len(waiters) \in Nat /\ scan \in Nat /\ n \in Nat
  BY DEF IInv, TypeOK
<1> SUFFICES ASSUME NEW i \in 1..n PROVE ~Line!HasRoom(waiters[i])
  BY DEF Line!Settled
<1>2. i \in DOMAIN waiters /\ waiters[i] \in Callers /\ (scan = 0 \/ i < scan)
  BY <1>1
<1>3. ~HasCapacity(OrgOf[waiters[i]])
  BY <1>2 DEF IInv, PassedWait
<1> QED BY <1>2, <1>3, RoomIsCapacity

\* Every step of the limiter is one of the line, or none.
LEMMA StepOfLine ==
  ASSUME IInv, Next
  PROVE  [Line!Next]_Line!vars
<1>0. /\ waiters \in Seq(Callers) /\ Len(waiters) \in Nat /\ scan \in Nat
      /\ permit \in [Callers -> {"none", "held", "released"}]
  BY DEF IInv, TypeOK
<1>1. ASSUME NEW c \in Callers, AcquireNow(c) PROVE Line!Enter(c)
  <2>1. Line!Outside(c)
    BY <1>1 DEF AcquireNow, Waiting, Holders, Line!Outside
  <2>2. Line!HasRoom(c) /\ Line!Settled(Len(waiters))
    BY <1>0, <1>1, RoomIsCapacity, PassedIsSettled DEF AcquireNow
  <2>3. Holders' = Holders \cup {c} /\ UNCHANGED waiters
    BY <1>0, <1>1 DEF AcquireNow, Grant, Holders
  <2> QED BY <2>1, <2>2, <2>3 DEF Line!Enter
<1>2. ASSUME NEW c \in Callers, AcquireLater(c) PROVE Line!Wait(c)
  <2>1. Line!Outside(c)
    BY <1>2 DEF AcquireLater, Waiting, Holders, Line!Outside
  <2>2. ~Line!HasRoom(c) /\ Line!Settled(Len(waiters))
    BY <1>0, <1>2, RoomIsCapacity, PassedIsSettled DEF AcquireLater
  <2>3. Holders' = Holders /\ waiters' = Append(waiters, c)
    BY <1>0, <1>2 DEF AcquireLater, Enqueued, Holders
  <2> QED BY <2>1, <2>2, <2>3 DEF Line!Wait
<1>3. ASSUME NEW c \in Callers, Release(c) PROVE Line!Leave(c)
  <2>1. Line!Settled(Len(waiters))
    BY <1>0, <1>3, PassedIsSettled DEF Release
  <2>2. c \in Holders /\ Holders' = Holders \ {c} /\ UNCHANGED waiters
    BY <1>0, <1>3 DEF Release, Holders
  <2> QED BY <2>1, <2>2 DEF Line!Leave
<1>4. ASSUME WakeGrant PROVE scan \in DOMAIN waiters /\ Line!Serve(scan)
  <2>1. scan \in DOMAIN waiters /\ waiters[scan] \in Callers
    BY <1>0, <1>4 DEF WakeGrant, Scanning
  <2>2. Line!HasRoom(waiters[scan]) /\ Line!Settled(scan - 1)
    BY <1>0, <1>4, <2>1, RoomIsCapacity, PassedIsSettled DEF WakeGrant
  <2>3. /\ Holders' = Holders \cup {waiters[scan]}
        /\ waiters' = SubSeq(waiters, 1, scan - 1) \o SubSeq(waiters, scan + 1, Len(waiters))
    BY <1>0, <1>4, <2>1 DEF WakeGrant, Grant, Without, Holders
  <2> QED BY <2>1, <2>2, <2>3 DEF Line!Serve
<1>5. ASSUME WakeSkip \/ WakeDone \/ \E c \in Callers : ReleaseAgain(c)
      PROVE  UNCHANGED Line!vars
  BY <1>5 DEF WakeSkip, WakeDone, ReleaseAgain, vars, Holders, Line!vars
<1> QED BY <1>1, <1>2, <1>3, <1>4, <1>5 DEF Next, Wake, Line!Next

\* The limiter is one line of waiters with permits: first come, first served
\* among those there is room for, whatever callers, organizations and limits.
THEOREM LimiterIsLine == Spec => ImplementsLine
<1>1. Init => Line!Init
  BY DEF Init, Line!Init, Holders
<1>2. IInv /\ [Next]_vars => [Line!Next]_Line!vars
  <2>1. UNCHANGED vars => UNCHANGED Line!vars
    BY DEF vars, Line!vars, Holders
  <2> QED BY <2>1, StepOfLine
<1> QED BY <1>1, <1>2, Invariant, PTL DEF Spec, ImplementsLine, Line!Spec
-----------------------------------------------------------------------------
(* What the service of waiters rests on: the loop ends, a place is kept, and *)
(* whoever waits is woken by somebody.                                       *)

\* The waiters the loop has yet to look at, with the end of the loop.
Left == Len(waiters) + 1 - scan

\* The index never leaves the line.
LoopInLine == scan <= Len(waiters) + 1

\* A step within a loop ends it or leaves it fewer waiters.
LoopShortens == scan # 0 => scan' = 0 \/ (scan' # 0 /\ Left' < Left)

\* Who waits gets its permit or keeps its place in line or a better one.
PlaceKept ==
  \A i \in DOMAIN waiters :
    \/ permit'[waiters[i]] = "held"
    \/ \E k \in 1..i : k \in DOMAIN waiters' /\ waiters'[k] = waiters[i]

\* Who waits outside of the loop waits for permits that are out: for all of
\* them or for all of its organization, and so for a release that will look at it.
WaitersHaveHolders ==
  scan = 0 => \A i \in DOMAIN waiters :
    \/ Cardinality(Holders) = GlobalLimit /\ Holders # {}
    \/ Cardinality(HoldersOf(OrgOf[waiters[i]])) = OrgLimit /\ HoldersOf(OrgOf[waiters[i]]) # {}

LEMMA LoopStep ==
  ASSUME IInv, LoopInLine, Next
  PROVE  LoopInLine' /\ LoopShortens
<1>1. /\ waiters \in Seq(Callers) /\ Len(waiters) \in Nat /\ scan \in Nat
      /\ DOMAIN waiters = 1..Len(waiters)
  BY DEF IInv, TypeOK
<1>2. CASE scan = 0
  <2>1. ASSUME NEW c \in Callers, AcquireNow(c) \/ ReleaseAgain(c) PROVE LoopInLine'
    BY <1>1, <2>1 DEF AcquireNow, ReleaseAgain, vars, LoopInLine
  <2>2. ASSUME NEW c \in Callers, AcquireLater(c) PROVE LoopInLine'
    <3>1. Len(waiters') = Len(waiters) + 1 /\ scan' = scan
      BY <1>1, <2>2 DEF AcquireLater, Enqueued
    <3> QED BY <1>1, <1>2, <3>1 DEF LoopInLine
  <2>3. ASSUME NEW c \in Callers, Release(c) PROVE LoopInLine'
    BY <1>1, <2>3 DEF Release, LoopInLine
  <2>4. ~ Wake
    BY <1>1, <1>2 DEF Wake, WakeGrant, WakeSkip, WakeDone, Scanning
  <2> QED BY <1>2, <2>1, <2>2, <2>3, <2>4 DEF Next, LoopShortens
<1>3. CASE scan # 0
  <2>1. Wake
    BY <1>3 DEF Next, AcquireNow, AcquireLater, Release, ReleaseAgain
  <2>2. CASE WakeGrant
    <3>1. scan \in DOMAIN waiters /\ waiters' = Without(scan) /\ scan' = scan
      BY <1>1, <2>2 DEF WakeGrant, Scanning
    <3>2. Len(waiters') = Len(waiters) - 1
      BY <3>1, WithoutElement DEF IInv
    <3> QED BY <1>1, <1>3, <3>1, <3>2 DEF LoopInLine, LoopShortens, Left
  <2>3. CASE WakeSkip
    BY <1>1, <1>3, <2>3 DEF WakeSkip, Scanning, LoopInLine, LoopShortens, Left
  <2>4. CASE WakeDone
    BY <1>1, <1>3, <2>4 DEF WakeDone, LoopInLine, LoopShortens
  <2> QED BY <2>1, <2>2, <2>3, <2>4 DEF Wake
<1> QED BY <1>2, <1>3

LEMMA PlaceStep ==
  ASSUME IInv, Next
  PROVE  PlaceKept
<1>1. /\ waiters \in Seq(Callers) /\ Len(waiters) \in Nat /\ scan \in Nat
      /\ DOMAIN waiters = 1..Len(waiters)
      /\ permit \in [Callers -> {"none", "held", "released"}]
  BY DEF IInv, TypeOK
<1>2. UNCHANGED waiters => PlaceKept
  BY <1>1 DEF PlaceKept
<1>3. ASSUME NEW c \in Callers, AcquireLater(c) PROVE PlaceKept
  <2>1. \A i \in DOMAIN waiters : i \in DOMAIN waiters' /\ waiters'[i] = waiters[i]
    BY <1>1, <1>3 DEF AcquireLater, Enqueued
  <2> QED BY <1>1, <2>1 DEF PlaceKept
<1>4. CASE WakeGrant
  <2> SUFFICES ASSUME NEW i \in DOMAIN waiters, i # scan
               PROVE  \E k \in 1..i : k \in DOMAIN waiters' /\ waiters'[k] = waiters[i]
    <3>1. scan \in DOMAIN waiters => waiters[scan] \in Callers
      BY <1>1
    <3>2. permit'[waiters[scan]] = "held"
      BY <1>1, <1>4, <3>1 DEF WakeGrant, Scanning, Grant
    <3> QED BY <3>2 DEF PlaceKept
  <2>1. scan \in 1..Len(waiters) /\ waiters' = Without(scan)
    BY <1>4 DEF WakeGrant, Scanning
  <2>2. Len(waiters') = Len(waiters) - 1 /\ waiters' \in Seq(Callers)
    BY <1>1, <2>1, WithoutElement DEF IInv
  <2>3. DOMAIN waiters' = 1..(Len(waiters) - 1)
    BY <1>1, <2>2
  <2>6. \A k \in DOMAIN waiters' :
          \/ k < scan /\ k \in DOMAIN waiters /\ waiters'[k] = waiters[k]
          \/ k >= scan /\ k + 1 \in DOMAIN waiters /\ waiters'[k] = waiters[k + 1]
    BY <1>1, <2>1, WithoutElement DEF IInv
  <2>4. CASE i < scan
    <3>1. i \in DOMAIN waiters' /\ waiters'[i] = waiters[i]
      BY <1>1, <2>1, <2>3, <2>4, <2>6
    <3> QED BY <1>1, <3>1
  <2>5. CASE i > scan
    <3> DEFINE k == i - 1
    <3>1. k \in DOMAIN waiters' /\ k >= scan /\ k + 1 = i /\ k \in 1..i
      BY <1>1, <2>1, <2>3, <2>5
    <3>2. waiters'[k] = waiters[i]
      BY <1>1, <2>1, <2>6, <3>1
    <3> QED BY <3>1, <3>2
  <2> QED BY <1>1, <2>4, <2>5
<1>5. ASSUME NEW c \in Callers, AcquireNow(c) \/ Release(c) \/ ReleaseAgain(c)
      PROVE  UNCHANGED waiters
  BY <1>5 DEF AcquireNow, Release, ReleaseAgain, vars
<1>6. WakeSkip \/ WakeDone => UNCHANGED waiters
  BY DEF WakeSkip, WakeDone
<1> QED BY <1>2, <1>3, <1>4, <1>5, <1>6 DEF Next, Wake

\* The wake loop looks at every waiter once and ends: it is not kept alive by
\* the waiters it removes from the list it walks over.
THEOREM LoopEnds == Spec => []LoopInLine /\ [][LoopShortens]_vars
<1>1. Init => LoopInLine
  BY DEF Init, LoopInLine
<1>2. IInv /\ LoopInLine /\ [Next]_vars => LoopInLine' /\ [LoopShortens]_vars
  <2>1. LoopInLine /\ UNCHANGED vars => LoopInLine'
    BY DEF LoopInLine, vars
  <2> QED BY <2>1, LoopStep
<1> QED BY <1>1, <1>2, Invariant, PTL DEF Spec

\* Nobody falls back in line, whatever callers come, go and are served.
THEOREM NobodyFallsBack == Spec => [][PlaceKept]_vars
<1>1. IInv /\ [Next]_vars => [PlaceKept]_vars
  BY PlaceStep
<1> QED BY <1>1, Invariant, PTL DEF Spec

\* Nobody waits while no permit is out whose release will wake it.
THEOREM SomebodyWillWake == Spec => []WaitersHaveHolders
<1>1. IInv => WaitersHaveHolders
  <2> SUFFICES ASSUME IInv, scan = 0, NEW i \in DOMAIN waiters
               PROVE  \/ Cardinality(Holders) = GlobalLimit /\ Holders # {}
                      \/ /\ Cardinality(HoldersOf(OrgOf[waiters[i]])) = OrgLimit
                         /\ HoldersOf(OrgOf[waiters[i]]) # {}
    BY DEF WaitersHaveHolders
  <2> DEFINE o == OrgOf[waiters[i]]
  <2>1. o \in Organizations
    BY LimiterAssumption DEF IInv, TypeOK
  <2>2. ~ HasCapacity(o)
    BY DEF IInv, PassedWait
  <2>3. /\ activeGlobal = Cardinality(Holders) /\ activeGlobal <= GlobalLimit
        /\ activeByOrganization[o] = Cardinality(HoldersOf(o)) /\ activeByOrganization[o] <= OrgLimit
        /\ activeGlobal \in Nat /\ activeByOrganization[o] \in Nat
    BY <2>1 DEF IInv, PermitsCounted, WithinLimits, TypeOK
  <2> HIDE DEF o
  <2>4. Cardinality(Holders) = GlobalLimit \/ Cardinality(HoldersOf(o)) = OrgLimit
    BY <2>2, <2>3, LimiterAssumption DEF HasCapacity
  <2>5. Cardinality({}) = 0
    BY FS_EmptySet
  <2>6. GlobalLimit # 0 /\ OrgLimit # 0
    BY LimiterAssumption
  <2>7. (Cardinality(Holders) = GlobalLimit => Holders # {}) /\ (Cardinality(HoldersOf(o)) = OrgLimit => HoldersOf(o) # {})
    BY <2>5, <2>6
  <2> QED BY <2>4, <2>7 DEF o
<1> QED BY <1>1, Invariant, PTL
=============================================================================
