--------------------------- MODULE MCAdapterPools ---------------------------
(* XHTTP: three calls under a limit on connections with two budgets, and   *)
(* under all limits with a deadline.  SIP003: two calls of one key or of   *)
(* two race for a local port that other programs use, too.  Kcptun: two    *)
(* calls that meet on one slot.  Hysteria2: the same two and a UDP call,   *)
(* two clients.                                                            *)
EXTENDS AdapterPools

CONSTANTS x1, x2, x3, k1, k2, p1

MCCalls == {x1, x2, x3}
MCPair == {x1, x2}
MCKeys == {k1, k2}
MCKeyChoices == { [x \in MCPair |-> k1], [x \in MCPair |-> IF x = x1 THEN k1 ELSE k2] }
MCPorts == {p1}
MCIds == 1 .. 4

Config(concurrency, connections, reuse, requests, secs) ==
  [max_concurrency |-> concurrency, max_connections |-> connections,
   c_max_reuse_times |-> reuse, h_max_request_times |-> requests,
   h_max_reusable_secs |-> secs]

MCConfigs == { Config(0, 1, 2, 3, 0), Config(1, 1, 1, 2, 60) }
=============================================================================
