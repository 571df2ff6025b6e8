------------------------------ MODULE MCAnyTls ------------------------------
(* Four calls, so that one can keep the client alive while two others give *)
(* their sessions back and the fourth takes one of them.  Two streams one  *)
(* after the other on a session, so that the first one's removals can be   *)
(* late; three chunks show the order and what a FIN cuts off.  The pool    *)
(* does not tell calls apart, and no liveness is checked of it.            *)
EXTENDS AnyTls, TLC

CONSTANTS x1, x2, x3, x4

MCCalls == {x1, x2, x3}
MCFour == {x1, x2, x3, x4}
CallSymmetry == Permutations(MCFour)

MCFitting == {"fits"}
MCAnySize == {"fits", "oversize"}

(* For the claims, each of which is about one of the two.                  *)
PoolSpec == AnyTlsSpec /\ level = "pool"
SessionSpec == AnyTlsSpec /\ level = "session"
=============================================================================
