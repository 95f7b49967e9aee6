--------------------------- MODULE MCControlPlane ---------------------------
(* ControlPlane for TLC: two sign-ups, with one email or two, so that they    *)
(* race or make two organizations; the second workspace is for the first of   *)
(* them.  One request asks for a connection, the other one reads.             *)
EXTENDS ControlPlane, TLC

CONSTANTS ann, ben, w2, k1, r1, r2, mail1, mail2

MCSignUpInputs == {<<ann, mail1>>, <<ben, mail1>>, <<ben, mail2>>}
MCOwnerOf == (w2 :> ann)

Grant(o, w, p) == [organization |-> o, workspace |-> w, permission |-> p]
MCIssues ==
  {[grant |-> g, creator |-> ann, expiresAt |-> 1] :
     g \in {Grant(ann, NULL, "read"), Grant(ann, w2, "write"), Grant(ben, w2, "read")}}
MCGrants == {[user |-> ben, grant |-> Grant(ann, w2, "read")]}

Token == [key |-> k1, genuine |-> TRUE]
MCCallsOf ==
  (r1 :> {[kind |-> "connect", token |-> Token, workspace |-> w] : w \in {ann, w2, NULL}}) @@
  (r2 :> {[kind |-> "job", job |-> NULL, token |-> [Token EXCEPT !.genuine = FALSE]],
          [kind |-> "workspaces", token |-> Token], [kind |-> "controlPlane", user |-> ben],
          [kind |-> "job", token |-> Token, job |-> r1]})
=============================================================================
