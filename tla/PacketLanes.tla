---------------------------- MODULE PacketLanes ----------------------------
(***************************************************************************)
(* What the two Shadowsocks packet pools, DirectUdpPacketConnPool          *)
(* (direct_udp.rs) and UotPacketConnPool (uot.rs), have in common: a fixed *)
(* vector of lanes, each with a tokio Mutex around its socket, a           *)
(* PacketSessionDemux that outlives the socket, and one reader task per    *)
(* socket that was ever opened.  Every socket gets a number, so that a     *)
(* reader, or a call, of an earlier socket of the lane can be told from    *)
(* those of the present one.                                               *)
(*                                                                         *)
(* The pool of one (node, server) pair is modelled; pools share nothing.   *)
(* Which of the two kinds it is follows from the node's configuration.     *)
(***************************************************************************)
EXTENDS PacketDemux

CONSTANTS Calls,       (* calls of the pool's send                          *)
          Keys,        (* target keys                                       *)
          NLanes,      (* lanes of the pool                                 *)
          MaxSockets   (* bound: sockets the model lets the pool open       *)

ASSUME LanesAssumption ==
  /\ NLanes \in Nat \ {0}
  /\ MaxSockets \in Nat
  /\ {"failed", "none"} \cap Keys = {}
  /\ "none" \notin Calls

Lanes == 0 .. (NLanes - 1)
Sockets == 1 .. MaxSockets
NoSocket == 0
Free == "none"
Failed == "failed"

VARIABLES kind,      (* "direct" or "uot"                                   *)
          next,      (* the round-robin counter, modulo the number of lanes *)
          lock,      (* who holds the lane's state mutex                    *)
          socket,    (* state.socket / state.writer                         *)
          stale,     (* last_used is older than the idle timeout            *)
          demux,     (* the lane's PacketSessionDemux                       *)
          opened,    (* number of sockets opened so far                     *)
          home,      (* the lane of each socket                             *)
          reader,    (* the reader task of each socket                      *)
          pc,        (* where each call is                                  *)
          key,       (* the target of each call                             *)
          lane,      (* the lane each call picked                           *)
          sock,      (* the socket each call registered on                  *)
          sending    (* <<lane, call, result>> between unlock and send      *)

laneVars == <<lock, socket, stale, demux>>
readerVars == <<opened, home, reader>>
callVars == <<key, lane, sock>>
vars == <<kind, next, laneVars, readerVars, pc, callVars, sending>>

Returned == {"ok", "err"}

TypeOK ==
  /\ kind \in {"direct", "uot"}
  /\ next \in Lanes
  /\ lock \in [Lanes -> Calls \cup {Free}]
  /\ socket \in [Lanes -> Sockets \cup {NoSocket}]
  /\ stale \in [Lanes -> BOOLEAN]
  /\ \A l \in Lanes : DemuxType(demux[l], Keys, Calls)
  /\ opened \in 0 .. MaxSockets
  /\ home \in [Sockets -> Lanes]
  /\ reader \in [Sockets -> {"off", "reading", "aborted", "done"}]
  /\ pc \in [Calls -> {"start", "lock", "open", "register", "write",
                       "wait", "expired", "close"} \cup Returned]
  /\ key \in [Calls -> Keys \cup {"none"}]
  /\ lane \in [Calls -> Lanes]
  /\ sock \in [Calls -> Sockets \cup {NoSocket}]
  /\ sending \subseteq Lanes \X Calls \X (Keys \cup {Failed})

Init ==
  /\ kind \in {"direct", "uot"}
  /\ next = 0
  /\ lock = [l \in Lanes |-> Free]
  /\ socket = [l \in Lanes |-> NoSocket]
  /\ stale = [l \in Lanes |-> FALSE]
  /\ demux = [l \in Lanes |-> EmptyDemux]
  /\ opened = 0
  /\ home = [s \in Sockets |-> 0]
  /\ reader = [s \in Sockets |-> "off"]
  /\ pc = [x \in Calls |-> "start"]
  /\ key = [x \in Calls |-> "none"]
  /\ lane = [x \in Calls |-> 0]
  /\ sock = [x \in Calls |-> NoSocket]
  /\ sending = {}

Goto(x, label) == pc' = [pc EXCEPT ![x] = label]

(* The call returns and forgets its lane and socket. *)
Return(x, result) ==
  /\ Goto(x, result)
  /\ lane' = [lane EXCEPT ![x] = 0]
  /\ sock' = [sock EXCEPT ![x] = NoSocket]
  /\ key' = [key EXCEPT ![x] = "none"]

Unlock(l) == lock' = [lock EXCEPT ![l] = Free]

(***************************************************************************)
(* is_live: try_lock succeeds and the lane has a socket in recent use.     *)
(* The loop over the lanes never awaits; it is one step here.              *)
(***************************************************************************)
is_live(l) == lock[l] = Free /\ socket[l] # NoSocket /\ ~stale[l]

(* The pool's send: the first live lane without waiters, else round robin. *)
PickLane(x, k) ==
  LET quiet == { l \in Lanes : is_live(l) /\ pending_count(demux[l]) = 0 } IN
  /\ pc[x] = "start"
  /\ \/ \E l \in quiet :
          /\ \A m \in quiet : l <= m
          /\ lane' = [lane EXCEPT ![x] = l]
          /\ UNCHANGED next
     \/ /\ quiet = {}
        /\ lane' = [lane EXCEPT ![x] = next]
        /\ next' = (next + 1) % NLanes
  /\ key' = [key EXCEPT ![x] = k]
  /\ Goto(x, "lock")
  /\ UNCHANGED <<kind, laneVars, readerVars, sock, sending>>

(* A reader that is being stopped; one that has ended stays ended. *)
Aborted(s) ==
  reader' = [r \in Sockets |-> IF r = s /\ reader[r] = "reading" THEN "aborted"
                               ELSE reader[r]]

(* Mutants of ResetLane: the waiters stay registered; they are dropped     *)
(* without an error; the read task is not aborted.                         *)
ResetKeepsWaiters(l, d) ==
  /\ Aborted(socket[l])
  /\ socket' = [socket EXCEPT ![l] = NoSocket]
  /\ demux' = [demux EXCEPT ![l] = d]
  /\ UNCHANGED sending

ResetForgetsWaiters(l, d) ==
  /\ Aborted(socket[l])
  /\ socket' = [socket EXCEPT ![l] = NoSocket]
  /\ demux' = [demux EXCEPT ![l] = fail_all(d)]
  /\ UNCHANGED sending

ResetKeepsReader(l, d) ==
  /\ UNCHANGED reader
  /\ socket' = [socket EXCEPT ![l] = NoSocket]
  /\ demux' = [demux EXCEPT ![l] = fail_all(d)]
  /\ sending' = sending \cup ({l} \X Waiters(d) \X {Failed})

(***************************************************************************)
(* reset_state of lane l, whose table is d: abort the reader, drop the     *)
(* socket, fail every waiter.  The sends follow the table's unlock.        *)
(***************************************************************************)
ResetLane(l, d) ==
  /\ Aborted(socket[l])
  /\ socket' = [socket EXCEPT ![l] = NoSocket]
  /\ demux' = [demux EXCEPT ![l] = fail_all(d)]
  /\ sending' = sending \cup ({l} \X Waiters(d) \X {Failed})

(* A new socket for lane l, and its reader. *)
NewSocket(l) ==
  /\ opened < MaxSockets
  /\ opened' = opened + 1
  /\ socket' = [socket EXCEPT ![l] = opened']
  /\ home' = [home EXCEPT ![opened'] = l]
  /\ reader' = [reader EXCEPT ![opened'] = "reading"]

(***************************************************************************)
(* The beginning of send: the mutex of the lane; a lane without a socket,  *)
(* or with one unused for too long, is reset and gets a new one.           *)
(***************************************************************************)
LockLane(x) ==
  LET l == lane[x] IN
  /\ pc[x] = "lock"
  /\ lock[l] = Free
  /\ lock' = [lock EXCEPT ![l] = x]
  /\ IF socket[l] = NoSocket \/ stale[l]
     THEN ResetLane(l, demux[l]) /\ Goto(x, "open")
     ELSE Goto(x, "register") /\ UNCHANGED <<socket, demux, reader, sending>>
  /\ UNCHANGED <<kind, next, stale, opened, home, callVars>>

OpenLane(x) ==
  /\ pc[x] = "open"
  /\ NewSocket(lane[x])
  /\ Goto(x, "register")
  /\ UNCHANGED <<kind, next, lock, stale, demux, callVars, sending>>

(* `?': the lane is left without a socket, and unlocked. *)
OpenLaneFails(x) ==
  /\ pc[x] = "open"
  /\ Unlock(lane[x])
  /\ Return(x, "err")
  /\ UNCHANGED <<kind, next, socket, stale, demux, readerVars, sending>>

(* The call registers and the lane counts as used; the mutex is kept. *)
RegisterInLane(x) ==
  LET l == lane[x] IN
  /\ pc[x] = "register"
  /\ stale' = [stale EXCEPT ![l] = FALSE]
  /\ demux' = [demux EXCEPT ![l] = register(@, key[x], x)]
  /\ sock' = [sock EXCEPT ![x] = socket[l]]
  /\ Goto(x, "write")
  /\ UNCHANGED <<kind, next, socket, readerVars, key, lane, sending>>

(* The oneshot send after the unlock: a call that still awaits this lane's *)
(* receiver takes the result, any other has dropped it.                    *)
Send(l, x, result) ==
  /\ <<l, x, result>> \in sending
  /\ IF pc[x] \in {"write", "wait"} /\ lane[x] = l
     THEN pc[x] = "wait" /\ Return(x, IF result = Failed THEN "err" ELSE "ok")
     ELSE UNCHANGED <<pc, callVars>>
  /\ sending' = sending \ {<<l, x, result>>}
  /\ UNCHANGED <<kind, next, laneVars, readerVars>>

(* A reader runs until it has failed, or until abort() meets an await that *)
(* has nothing to deliver: an aborted one may still deliver or fail.       *)
Reads(s) == reader[s] \in {"reading", "aborted"}

(* The response timeout drops the receiver ... *)
Expires(x) ==
  /\ pc[x] = "wait"
  /\ Goto(x, "expired")
  /\ UNCHANGED <<kind, next, laneVars, readerVars, callVars, sending>>

(* Mutant of GivesUp: the waiter is left in the table. *)
GivesUpInPlace(x) ==
  /\ pc[x] = "expired"
  /\ Return(x, "err")
  /\ UNCHANGED <<kind, next, laneVars, readerVars, sending>>

(* ... and then remove_by_id takes the waiter out; the lane stays open. *)
GivesUp(x) ==
  /\ pc[x] = "expired"
  /\ demux' = [demux EXCEPT ![lane[x]] = remove_by_id(@, key[x], x)]
  /\ Return(x, "err")
  /\ UNCHANGED <<kind, next, lock, socket, stale, readerVars, sending>>

(***************************************************************************)
(* A reader hands a packet from k to the oldest waiter of k in the lane's  *)
(* table; a packet without a waiter, or one it cannot decode, is dropped.  *)
(***************************************************************************)
ReaderDeliversTo(s, k) ==
  LET l == home[s] IN
  /\ Reads(s)
  /\ deliverable(demux[l], k)
  /\ demux' = [demux EXCEPT ![l] = deliver(@, k)]
  /\ sending' = sending \cup {<<l, deliver_waiter(demux[l], k), k>>}
  /\ UNCHANGED <<kind, next, lock, socket, stale, readerVars, pc, callVars>>

(* A read error fails every waiter of the lane and ends the reader, and    *)
(* nothing else: the lane keeps the socket.                                *)
ReaderEnds(s) ==
  LET l == home[s] IN
  /\ Reads(s)
  /\ demux' = [demux EXCEPT ![l] = fail_all(@)]
  /\ sending' = sending \cup ({l} \X Waiters(demux[l]) \X {Failed})
  /\ reader' = [reader EXCEPT ![s] = "done"]
  /\ UNCHANGED <<kind, next, lock, socket, stale, opened, home, pc, callVars>>

ReaderStops(s) ==
  /\ reader[s] = "aborted"
  /\ reader' = [reader EXCEPT ![s] = "done"]
  /\ UNCHANGED <<kind, next, laneVars, opened, home, pc, callVars, sending>>

(* The idle timeout passes.  It is several times the response timeout, so  *)
(* nobody who registered on the lane still waits by then.                  *)
GrowStale(l) ==
  /\ socket[l] # NoSocket /\ ~stale[l]
  /\ \A x \in Calls : ~(pc[x] = "wait" /\ lane[x] = l)
  /\ stale' = [stale EXCEPT ![l] = TRUE]
  /\ UNCHANGED <<kind, next, lock, socket, demux, readerVars, pc, callVars, sending>>

Sends == \E s \in sending : Send(s[1], s[2], s[3])
=============================================================================
