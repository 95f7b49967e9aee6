-------------------------- MODULE MCProvisionerCall --------------------------
(* ProvisionerCall for TLC: two jobs of one organization whose limit is one   *)
(* permit; the second has credentials of every size, and the provisioner's    *)
(* clock is a little ahead, or so far that no timestamp is in its window.     *)
EXTENDS ProvisionerCall, TLC

CONSTANTS j1, j2, orgA, contoso

MCOrgOf == [j \in Jobs |-> orgA]
MCSizesOf == [j \in Jobs |-> IF j = j1 THEN {"short"} ELSE Sizes]
MCLeads == {1, 3}
=============================================================================
