-------------------------- MODULE MCSessionRegistry --------------------------
(* SessionRegistry for TLC: two administrators take turns on the first        *)
(* connection, and the second one competes with it for the browser.           *)
EXTENDS SessionRegistry, TLC

CONSTANTS c1, c2, c3, k1, k2, alice, bob, contoso

MCRequests == {<<k1, alice>>, <<k1, bob>>, <<k2, alice>>}
MCOneRequest == {<<k1, alice>>}
=============================================================================
