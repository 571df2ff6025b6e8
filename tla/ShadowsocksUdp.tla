--------------------------- MODULE ShadowsocksUdp ---------------------------
(***************************************************************************)
(* ShadowsocksAdapter::send_udp (adapter/shadowsocks.rs): a node's config  *)
(* decides whether its packets go over UDP-over-TCP streams or over plain  *)
(* datagrams; either way they go through the pool of that node and server. *)
(***************************************************************************)
EXTENDS DirectUdpLanes, UotLanes

Step(x) == DirectStep(x) \/ UotStep(x)

Locks(x) == DirectLocks(x) \/ UotLocks(x)

Reader(s) == (kind = "direct" /\ DirectReader(s)) \/ (kind = "uot" /\ UotReader(s))

(* Every call has returned, and nothing more need happen: a state without  *)
(* any other step has a call that waits for ever.                          *)
Settled == (\A x \in Calls : pc[x] \in Returned) /\ UNCHANGED vars

Next ==
  \/ \E x \in Calls : Step(x) \/ Locks(x)
  \/ Sends
  \/ \E s \in Sockets : Reader(s)
  \/ \E l \in Lanes : GrowStale(l)
  \/ Settled

Spec == Init /\ [][Next]_vars

-----------------------------------------------------------------------------
(* A call that waits is in its lane's table under its target, or its       *)
(* answer is on the way: resets by other calls, a failing reader of this   *)
(* or an earlier socket and late packets never lose a waiter.              *)
NoStrandedCall ==
  \A x \in Calls : pc[x] \in {"write", "wait"} =>
    \/ x \in Elements(Queue(demux[lane[x]], key[x]))
    \/ \E result \in {key[x], Failed} : <<lane[x], x, result>> \in sending

(* Nobody waits for an answer on a socket that is gone: whoever replaces   *)
(* or closes a lane's socket has failed all that registered on it.         *)
NoWaitOnClosedSocket ==
  \A l \in Lanes : \A x \in Waiters(demux[l]) :
    pc[x] \in {"write", "wait"} => lane[x] = l /\ sock[x] = socket[l]

(* A lane's table is fed by one reader: every other reader of the lane has *)
(* ended or has been told to stop.                                         *)
OneReaderPerLane ==
  \A s \in Sockets : reader[s] = "reading" => socket[home[s]] = s

(* No waiter outlives its call. *)
NoWaiterLeaks ==
  (\A x \in Calls : pc[x] \in Returned) =>
    \A l \in Lanes : Waiters(demux[l]) = {} /\ demux[l].fifo = <<>>

(* The frames of a UoT stream are written whole: while a call writes, no   *)
(* other call writes to that stream.                                       *)
OneWriterPerStream ==
  kind = "uot" => \A x, y \in Calls :
    pc[x] = "write" /\ pc[y] = "write" /\ sock[x] = sock[y] => x = y
=============================================================================
