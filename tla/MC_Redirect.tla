----------------------------- MODULE MC_Redirect -----------------------------
(* Redirect on a small instance.                                           *)
EXTENDS Redirect

CONSTANTS c1, c2, p1, p2, r1, r2, relay0, local0

Two == {c1, c2}
TwoPorts == {p1, p2}
TwoRemotes == {r1, r2}
LoopbackSmall == {relay0, local0}
=============================================================================
