--------------------------- MODULE DirectUdpLanes ---------------------------
(***************************************************************************)
(* Shadowsocks UDP over plain datagrams (adapter/shadowsocks/              *)
(* direct_udp.rs).  A call registers under the lane's mutex, writes after  *)
(* it has let go of it, and a failed write closes the lane, by then        *)
(* perhaps with a socket another call has opened.                          *)
(***************************************************************************)
EXTENDS PacketLanes

(* DirectUdpPacketConnPool::send. *)
DirectPick(x, k) == PickLane(x, k)

(* DirectUdpPacketConn::send; a socket unused for 120 s is replaced.       *)
DirectLock(x) == LockLane(x)

(* The new socket, its decoder, its reader; bind, connect or the decoder   *)
(* may fail.                                                               *)
DirectOpen(x) == OpenLane(x) \/ OpenLaneFails(x)

(* encode_packet and register, and the mutex is released. *)
DirectRegister(x) == RegisterInLane(x) /\ Unlock(lane[x])

(* encode_packet fails: the lane counts as used, nothing is registered. *)
EncodeFails(x) ==
  /\ pc[x] = "register"
  /\ stale' = [stale EXCEPT ![lane[x]] = FALSE]
  /\ Unlock(lane[x])
  /\ Return(x, "err")
  /\ UNCHANGED <<kind, next, socket, demux, readerVars, sending>>

(* socket.send(&packet), without the mutex. *)
DirectWrite(x) ==
  /\ pc[x] = "write"
  /\ Goto(x, "wait")
  /\ UNCHANGED <<kind, next, laneVars, readerVars, callVars, sending>>

DirectWriteFails(x) ==
  /\ pc[x] = "write"
  /\ demux' = [demux EXCEPT ![lane[x]] = remove_by_id(@, key[x], x)]
  /\ Goto(x, "close")
  /\ UNCHANGED <<kind, next, lock, socket, stale, readerVars, callVars, sending>>

(* close(): the mutex, then reset_state of whatever socket is there now.   *)
Close(x) ==
  LET l == lane[x] IN
  /\ pc[x] = "close"
  /\ lock[l] = Free
  /\ ResetLane(l, demux[l])
  /\ Return(x, "err")
  /\ UNCHANGED <<kind, next, lock, stale, opened, home>>

(* timeout(10 s, receiver). *)
DirectTimeout(x) == Expires(x) \/ GivesUp(x)

(* spawn_direct_udp_reader. *)
DirectReader(s) == (\E k \in Keys : ReaderDeliversTo(s, k)) \/ ReaderEnds(s) \/ ReaderStops(s)

-----------------------------------------------------------------------------
DirectStep(x) ==
  /\ kind = "direct"
  /\ \/ \E k \in Keys : DirectPick(x, k)
     \/ DirectOpen(x) \/ DirectRegister(x) \/ EncodeFails(x)
     \/ DirectWrite(x) \/ DirectWriteFails(x) \/ DirectTimeout(x)

DirectLocks(x) == kind = "direct" /\ (DirectLock(x) \/ Close(x))
=============================================================================
