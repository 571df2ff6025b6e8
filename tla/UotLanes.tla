------------------------------ MODULE UotLanes ------------------------------
(***************************************************************************)
(* Shadowsocks UDP over TCP (adapter/shadowsocks/uot.rs).  Unlike a direct *)
(* UDP call, a UoT call keeps its lane's mutex while it opens the stream   *)
(* and until its packet is written and flushed (10 s each at most), and a  *)
(* failed write resets the lane before the mutex is released.              *)
(***************************************************************************)
EXTENDS PacketLanes

(* UotPacketConnPool::send. *)
UotPick(x, k) == PickLane(x, k)

(* UotPacketConn::send; a stream unused for 45 s is replaced.              *)
UotLock(x) == LockLane(x)

(* open_uot_stream under the mutex; the stream is split, its reader runs.  *)
UotOpen(x) == OpenLane(x) \/ OpenLaneFails(x)

(* Mutant of UotRegister: the guard is dropped before the write. *)
UotRegisterReleases(x) == RegisterInLane(x) /\ Unlock(lane[x])

(* register; the mutex stays with the call. *)
UotRegister(x) == RegisterInLane(x) /\ UNCHANGED lock

(* write_all and flush succeed; the mutex is released. *)
UotWrite(x) ==
  /\ pc[x] = "write"
  /\ Unlock(lane[x])
  /\ Goto(x, "wait")
  /\ UNCHANGED <<kind, next, socket, stale, demux, readerVars, callVars, sending>>

(* Either fails or takes too long: remove, reset_state, release, return.   *)
(* The other waiters of the stream are failed with it.                     *)
UotWriteFails(x) ==
  LET l == lane[x] IN
  /\ pc[x] = "write"
  /\ ResetLane(l, remove_by_id(demux[l], key[x], x))
  /\ Unlock(l)
  /\ Return(x, "err")
  /\ UNCHANGED <<kind, next, stale, opened, home>>

(* timeout(15 s, receiver). *)
UotTimeout(x) == Expires(x) \/ GivesUp(x)

(* spawn_uot_reader. *)
UotReader(s) == (\E k \in Keys : ReaderDeliversTo(s, k)) \/ ReaderEnds(s) \/ ReaderStops(s)

-----------------------------------------------------------------------------
UotStep(x) ==
  /\ kind = "uot"
  /\ \/ \E k \in Keys : UotPick(x, k)
     \/ UotOpen(x) \/ UotRegister(x) \/ UotWrite(x) \/ UotWriteFails(x) \/ UotTimeout(x)

UotLocks(x) == kind = "uot" /\ UotLock(x)
=============================================================================
