---------------------------- MODULE MCPacketUsers ----------------------------
(* Two calls that share connections: both attempts of both may open one;   *)
(* of VLESS, for up to two targets.                                        *)
EXTENDS PacketUsers

CONSTANTS x1, x2, k1, k2

MCCalls == {x1, x2}
MCKeys == {k1, k2}
=============================================================================
