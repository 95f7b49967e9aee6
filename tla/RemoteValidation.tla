--------------------------- MODULE RemoteValidation ---------------------------
(***************************************************************************)
(* What the worker takes the provisioner for: a validation that is tried   *)
(* up to MaxAttempts times, of which one attempt runs at a time, and that  *)
(* ends once, with the verdict the provisioner reached in the attempt that *)
(* runs, or without one after the last attempt has failed.  There is no    *)
(* network, no clock and no restart here.                                  *)
(***************************************************************************)
EXTENDS Naturals

CONSTANTS Jobs, MaxAttempts, Verdicts, NULL

VARIABLE validation    \* of each job: phase, attempts, verdict reached, result

New == [phase |-> "open", attempts |-> 0, verdict |-> NULL, result |-> NULL]

Init == validation = [j \in Jobs |-> New]

Phase(j) == validation[j].phase

Begin(j) ==
  /\ Phase(j) = "open" /\ validation[j].attempts < MaxAttempts
  /\ validation' = [validation EXCEPT ![j] =
       [phase |-> "running", attempts |-> @.attempts + 1, verdict |-> NULL, result |-> @.result]]

Reach(j, verdict) ==
  /\ Phase(j) = "running"
  /\ validation' = [validation EXCEPT ![j].verdict = verdict]

End(j, phase, result) ==
  validation' = [validation EXCEPT ![j] =
    [phase |-> phase, attempts |-> @.attempts, verdict |-> @.verdict, result |-> result]]

Conclude(j) ==
  /\ Phase(j) = "running" /\ validation[j].verdict # NULL
  /\ End(j, "ended", validation[j].verdict)

\* A verdict that was reached may be lost.
Fail(j) ==
  /\ Phase(j) = "running"
  /\ End(j, IF validation[j].attempts = MaxAttempts THEN "ended" ELSE "open", "retryable")

Next ==
  \E j \in Jobs :
    \/ Begin(j) \/ Conclude(j) \/ Fail(j)
    \/ \E verdict \in Verdicts : Reach(j, verdict)

Spec == Init /\ [][Next]_validation
=============================================================================
