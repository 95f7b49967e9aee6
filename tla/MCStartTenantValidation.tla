---------------------- MODULE MCStartTenantValidation ----------------------
(* StartTenantValidation for TLC: two organizations, the first with two     *)
(* payloads.                                                                *)
EXTENDS StartTenantValidation, TLC

CONSTANTS r1, r2, r3, k1, k2, p1, p2, q1, orgA, orgB, c1, c2

MCOrgOf == [p \in Payloads |-> IF p = q1 THEN orgB ELSE orgA]
=============================================================================
