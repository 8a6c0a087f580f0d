----------------------------- MODULE MC_Limiter -----------------------------
(* Limiter with three callers and windows of two ticks.                    *)
EXTENDS Limiter, TLC

CONSTANTS g1, g2, g3

Three == {g1, g2, g3}
Symmetric == Permutations(Three)
=============================================================================
