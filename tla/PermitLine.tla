------------------------------ MODULE PermitLine ------------------------------
(***************************************************************************)
(* What the Microsoft work limiter promises: permits, "three active        *)
(* operations per organization and five globally" of                       *)
(* docs/architecture/provisioner.md, and one line of those who wait for    *)
(* one.  Whoever comes first is served first, among those there is room    *)
(* for; nobody waits for room that is there, and nobody passes the line.   *)
(***************************************************************************)
EXTENDS Integers, Sequences, FiniteSets

CONSTANTS Callers, OrgOf, GlobalLimit, OrgLimit

VARIABLES
  held,    \* the callers with a permit
  line     \* those who wait for one, in the order they came

vars == <<held, line>>

Init == held = {} /\ line = <<>>

HeldOf(o) == {c \in held : OrgOf[c] = o}
HasRoom(c) == Cardinality(held) < GlobalLimit /\ Cardinality(HeldOf(OrgOf[c])) < OrgLimit
Outside(c) == c \notin held /\ \A i \in DOMAIN line : line[i] # c

\* No room for any of the first n of the line.
Settled(n) == \A i \in 1..n : ~HasRoom(line[i])

Enter(c) ==
  /\ Outside(c) /\ HasRoom(c) /\ Settled(Len(line))
  /\ held' = held \cup {c}
  /\ UNCHANGED line

Wait(c) ==
  /\ Outside(c) /\ ~HasRoom(c) /\ Settled(Len(line))
  /\ line' = Append(line, c)
  /\ UNCHANGED held

Leave(c) ==
  /\ c \in held /\ Settled(Len(line))
  /\ held' = held \ {c}
  /\ UNCHANGED line

Serve(i) ==
  /\ HasRoom(line[i]) /\ Settled(i - 1)
  /\ held' = held \cup {line[i]}
  /\ line' = SubSeq(line, 1, i - 1) \o SubSeq(line, i + 1, Len(line))

Next ==
  \/ \E c \in Callers : Enter(c) \/ Wait(c) \/ Leave(c)
  \/ \E i \in DOMAIN line : Serve(i)

Spec == Init /\ [][Next]_vars
=============================================================================
