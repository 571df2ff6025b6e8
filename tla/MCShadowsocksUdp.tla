-------------------------- MODULE MCShadowsocksUdp --------------------------
(* Three calls: two wait on a lane while a third replaces its socket, or   *)
(* two queue for the mutex of the lane a third is opening or writing to.   *)
EXTENDS ShadowsocksUdp, TLC

CONSTANTS x1, x2, x3, k1

MCCalls == {x1, x2, x3}
MCKeys == {k1}

Symmetry == Permutations(MCCalls)
=============================================================================
