---------------------- MODULE MCMicrosoftWorkLimiter ----------------------
(* MicrosoftWorkLimiter with the limits of the code for TLC: five callers of *)
(* one organization and three of another compete for five permits, three of  *)
(* which an organization may hold.                                           *)
EXTENDS MicrosoftWorkLimiter, TLC

CONSTANTS a1, a2, a3, a4, a5, b1, b2, b3, orgA, orgB

MCOrgOf == [c \in Callers |-> IF c \in {a1, a2, a3, a4, a5} THEN orgA ELSE orgB]
=============================================================================
