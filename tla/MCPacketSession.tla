-------------------------- MODULE MCPacketSession --------------------------
(* Four callers over two targets: two waiters of one key with a sibling    *)
(* registered between or after them, and one caller to arrive late.        *)
EXTENDS PacketSession, TLC

CONSTANTS r1, r2, r3, r4, k1, k2

MCRequests == {r1, r2, r3, r4}
MCKeys == {k1, k2}

Symmetry == Permutations(MCRequests) \cup Permutations(MCKeys)

(* The retain of packet_session.rs, of which Without is the case of an     *)
(* element that occurs at most once.                                       *)
Retain(s, x) == SelectSeq(s, LAMBDA y : y # x)

ASSUME WithoutIsRetain ==
  \A s \in UNION { [1 .. n -> 1 .. 4] : n \in 0 .. 4 } :
    (\A i, j \in DOMAIN s : s[i] = s[j] => i = j) =>
      \A x \in 1 .. 4 : Without(s, x) = Retain(s, x)
=============================================================================
