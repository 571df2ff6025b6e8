------------------------------ MODULE AnyTlsUdp ------------------------------
(***************************************************************************)
(* AnyTLS UDP-over-TCP (adapter/anytls.rs): concurrent calls of            *)
(* AnyTlsClient::send_uot for one target, the packet connections           *)
(* (AnyTlsUdpConn) they share through the client's `udp' map, and the      *)
(* reader task of every connection.                                        *)
(*                                                                         *)
(* The map has one entry per target and connections of different targets   *)
(* share nothing, so the entry of one target is modelled (slot).  Every    *)
(* step below runs to the next await or to the next operation another task *)
(* can interleave with: is_closed and register are not atomic together,    *)
(* nor are a timeout and remove_by_id, nor the two halves of close().      *)
(*                                                                         *)
(* Only calls and release tasks hold Arcs of the client (AnyTlsPool), so   *)
(* the map may go with the last send_uot in flight, unless a TCP connect   *)
(* or a release still has the client; its connections are then dropped     *)
(* without being closed and their readers go on.                           *)
(*                                                                         *)
(* The stream under a connection is external: a packet or an error may     *)
(* arrive at any time, and a write may fail at any time.                   *)
(***************************************************************************)
EXTENDS PacketDemux

CONSTANTS Calls,     (* calls of send_uot                                   *)
          Target,    (* the key of the calls' target                        *)
          MaxConns   (* connections the server lets the client open         *)

AnyTlsUdpAssumption ==
  /\ Target # "failed"
  /\ MaxConns \in Nat \ {0}

Conns == 1 .. MaxConns
NoConn == 0

VARIABLES slot,      (* the map entry: a connection or NoConn               *)
          opened,    (* number of connections opened so far                 *)
          closed,    (* AnyTlsUdpConn.closed                                *)
          idle,      (* last_used is older than idle_session_timeout        *)
          demux,     (* AnyTlsUdpConn.pending                               *)
          reader,    (* the reader task of each connection                  *)
          pc,        (* where each call is                                  *)
          conn,      (* the connection each call works with                 *)
          first,     (* the connection of a call's failed first attempt     *)
          sending    (* <<conn, call, result>> between unlock and send      *)

connVars == <<slot, opened, closed, idle, demux, reader>>
callVars == <<pc, conn, first>>
vars == <<connVars, callVars, sending>>

(* The result of a reply is the key of its source. *)
Failed == "failed"

InFlight == {"lookup", "open", "install", "check", "register", "write", "unwrite",
             "wait", "expired", "erred", "failall", "detach"}

Init ==
  /\ slot = NoConn
  /\ opened = 0
  /\ closed = [c \in Conns |-> FALSE]
  /\ idle = [c \in Conns |-> FALSE]
  /\ demux = [c \in Conns |-> EmptyDemux]
  /\ reader = [c \in Conns |-> "off"]
  /\ pc = [x \in Calls |-> "start"]
  /\ conn = [x \in Calls |-> NoConn]
  /\ first = [x \in Calls |-> NoConn]
  /\ sending = {}

Goto(x, label) == pc' = [pc EXCEPT ![x] = label]

(* The call returns and lets go of its connections; after the last one the *)
(* client and its map live on only if somebody else holds the client.      *)
Return(x, result) ==
  /\ Goto(x, result)
  /\ \/ UNCHANGED slot
     \/ slot' = NoConn /\ \A y \in Calls \ {x} : pc[y] \notin InFlight
  /\ conn' = [conn EXCEPT ![x] = NoConn]
  /\ first' = [first EXCEPT ![x] = NoConn]

(* Taking the waiters ws of connection c out to be sent result. *)
SendAll(c, ws, result) == sending' = sending \cup ({c} \X ws \X {result})

-----------------------------------------------------------------------------
(* The calls. *)

(* send_uot begins with cleanup_udp, which drops a closed or an idle       *)
(* connection from the map without closing it.                             *)
Start(x) ==
  /\ pc[x] = "start"
  /\ slot' = IF slot # NoConn /\ (closed[slot] \/ idle[slot]) THEN NoConn ELSE slot
  /\ Goto(x, "lookup")
  /\ UNCHANGED <<opened, closed, idle, demux, reader, conn, first, sending>>

Usable(c) == c # NoConn /\ ~closed[c]

(* udp_conn, first look at the map. *)
Lookup(x) ==
  /\ pc[x] = "lookup"
  /\ IF Usable(slot)
     THEN conn' = [conn EXCEPT ![x] = slot] /\ Goto(x, "check")
     ELSE UNCHANGED conn /\ Goto(x, "open")
  /\ UNCHANGED <<connVars, first, sending>>

(* AnyTlsUdpConn::open, which awaits a stream and spawns the reader. *)
Open(x) ==
  /\ pc[x] = "open"
  /\ opened < MaxConns
  /\ opened' = opened + 1
  /\ reader' = [reader EXCEPT ![opened'] = "reading"]
  /\ conn' = [conn EXCEPT ![x] = opened']
  /\ Goto(x, "install")
  /\ UNCHANGED <<slot, closed, idle, demux, first, sending>>

(* No stream to the server: `?' ends the call, on either attempt. *)
OpenFails(x) ==
  /\ pc[x] = "open"
  /\ Return(x, "err")
  /\ UNCHANGED <<opened, closed, idle, demux, reader, sending>>

(* udp_conn, second look: another call may have installed a connection in  *)
(* the meantime, and then the one just opened is dropped.                  *)
Install(x) ==
  /\ pc[x] = "install"
  /\ IF Usable(slot)
     THEN conn' = [conn EXCEPT ![x] = slot] /\ UNCHANGED slot
     ELSE slot' = conn[x] /\ UNCHANGED conn
  /\ Goto(x, "check")
  /\ UNCHANGED <<opened, closed, idle, demux, reader, first, sending>>

(* AnyTlsUdpConn::send: the is_closed check. *)
Check(x) ==
  /\ pc[x] = "check"
  /\ Goto(x, IF closed[conn[x]] THEN "erred" ELSE "register")
  /\ UNCHANGED <<connVars, conn, first, sending>>

Register(x) ==
  /\ pc[x] = "register"
  /\ demux' = [demux EXCEPT ![conn[x]] = register(@, Target, x)]
  /\ Goto(x, "write")
  /\ UNCHANGED <<slot, opened, closed, idle, reader, conn, first, sending>>

(* encode_uot_packet refuses the packet (a payload or a name too long for  *)
(* its framing), before the registration.                                  *)
EncodeFails(x) ==
  /\ pc[x] = "register"
  /\ Goto(x, "erred")
  /\ UNCHANGED <<connVars, conn, first, sending>>

Write(x) ==
  /\ pc[x] = "write"
  /\ Goto(x, "wait")
  /\ UNCHANGED <<connVars, conn, first, sending>>

(* write_all or flush fails: remove, and close(), whose second half        *)
(* (fail_all) is a step of its own.                                        *)
WriteFails(x) ==
  /\ pc[x] = "write"
  /\ demux' = [demux EXCEPT ![conn[x]] = remove_by_id(@, Target, x)]
  /\ closed' = [closed EXCEPT ![conn[x]] = TRUE]
  /\ Goto(x, "unwrite")
  /\ UNCHANGED <<slot, opened, idle, reader, conn, first, sending>>

(* Mutant of Timeout: the receiver is awaited without a timeout. *)
WaitsForever(x) == FALSE

(* The 20 s timeout drops the receiver ... *)
Timeout(x) ==
  /\ pc[x] = "wait"
  /\ Goto(x, "expired")
  /\ UNCHANGED <<connVars, conn, first, sending>>

(* ... and then takes the waiter out of the table. *)
TimedOut(x) ==
  /\ pc[x] = "expired"
  /\ demux' = [demux EXCEPT ![conn[x]] = remove_by_id(@, Target, x)]
  /\ Goto(x, "erred")
  /\ UNCHANGED <<slot, opened, closed, idle, reader, conn, first, sending>>

(* send_uot after an Err of send: the first attempt closes the connection, *)
(* whoever else uses it; the second attempt's error is returned.           *)
Erred(x) ==
  /\ pc[x] = "erred"
  /\ IF first[x] = NoConn
     THEN /\ closed' = [closed EXCEPT ![conn[x]] = TRUE]
          /\ Goto(x, "failall")
          /\ UNCHANGED <<slot, conn, first>>
     ELSE UNCHANGED closed /\ Return(x, "err")
  /\ UNCHANGED <<opened, idle, demux, reader, sending>>

(* The second half of close(): fail_all. *)
CloseFailsAll(x) ==
  /\ pc[x] \in {"unwrite", "failall"}
  /\ demux' = [demux EXCEPT ![conn[x]] = fail_all(@)]
  /\ SendAll(conn[x], Waiters(demux[conn[x]]), Failed)
  /\ Goto(x, IF pc[x] = "unwrite" THEN "erred" ELSE "detach")
  /\ UNCHANGED <<slot, opened, closed, idle, reader, conn, first>>

(* Mutants of Detach: whatever connection is in the map goes; the second    *)
(* attempt stays on the first one's connection.                            *)
DetachesAnyConn(x) ==
  /\ pc[x] = "detach"
  /\ slot' = NoConn
  /\ first' = [first EXCEPT ![x] = conn[x]]
  /\ conn' = [conn EXCEPT ![x] = NoConn]
  /\ Goto(x, "lookup")
  /\ UNCHANGED <<opened, closed, idle, demux, reader, sending>>

RetriesInPlace(x) ==
  /\ pc[x] = "detach"
  /\ slot' = IF slot = conn[x] THEN NoConn ELSE slot
  /\ first' = [first EXCEPT ![x] = conn[x]]
  /\ Goto(x, "check")
  /\ UNCHANGED <<opened, closed, idle, demux, reader, conn, sending>>

(* remove_udp_conn (Arc::ptr_eq), then the second attempt. *)
Detach(x) ==
  /\ pc[x] = "detach"
  /\ slot' = IF slot = conn[x] THEN NoConn ELSE slot
  /\ first' = [first EXCEPT ![x] = conn[x]]
  /\ conn' = [conn EXCEPT ![x] = NoConn]
  /\ Goto(x, "lookup")
  /\ UNCHANGED <<opened, closed, idle, demux, reader, sending>>

(* The oneshot send after the unlock.  A call that still awaits this       *)
(* connection's receiver takes the result (and touches the connection);    *)
(* any other has dropped it.                                               *)
Send(c, x, result) ==
  /\ <<c, x, result>> \in sending
  /\ sending' = sending \ {<<c, x, result>>}
  /\ IF pc[x] \in {"write", "wait"} /\ conn[x] = c
     THEN /\ pc[x] = "wait"
          /\ IF result = Failed
             THEN Goto(x, "erred") /\ UNCHANGED <<slot, idle, conn, first>>
             ELSE Return(x, "ok") /\ idle' = [idle EXCEPT ![c] = FALSE]
     ELSE UNCHANGED <<slot, idle, callVars>>
  /\ UNCHANGED <<opened, closed, demux, reader>>

-----------------------------------------------------------------------------
(* The connections. *)

(* Time passes without a reply and last_used grows old, which only         *)
(* cleanup_udp reads, and only of the connection in the map.               *)
GrowIdle(c) ==
  /\ slot = c /\ ~closed[c] /\ ~idle[c]
  /\ idle' = [idle EXCEPT ![c] = TRUE]
  /\ UNCHANGED <<slot, opened, closed, demux, reader, callVars, sending>>

(* The reader's loop.  close() aborts the task, which only stops it at an  *)
(* await without data: until ReaderAborted it goes on with what it has     *)
(* received.  An error first stores `closed' and then fails everybody.     *)
ReadFails(c) ==
  /\ reader[c] = "reading"
  /\ closed' = [closed EXCEPT ![c] = TRUE]
  /\ reader' = [reader EXCEPT ![c] = "failing"]
  /\ UNCHANGED <<slot, opened, idle, demux, callVars, sending>>

ReaderFailsAll(c) ==
  /\ reader[c] = "failing"
  /\ demux' = [demux EXCEPT ![c] = fail_all(@)]
  /\ SendAll(c, Waiters(demux[c]), Failed)
  /\ reader' = [reader EXCEPT ![c] = "done"]
  /\ UNCHANGED <<slot, opened, closed, idle, callVars>>

(* A packet from the target; one without a waiter is discarded, and so is  *)
(* every packet from elsewhere, as only Target has waiters here.           *)
ReaderDelivers(c) ==
  /\ reader[c] = "reading"
  /\ deliverable(demux[c], Target)
  /\ demux' = [demux EXCEPT ![c] = deliver(@, Target)]
  /\ SendAll(c, {deliver_waiter(demux[c], Target)}, Target)
  /\ UNCHANGED <<slot, opened, closed, idle, reader, callVars>>

ReaderAborted(c) ==
  /\ reader[c] = "reading" /\ closed[c]
  /\ reader' = [reader EXCEPT ![c] = "done"]
  /\ UNCHANGED <<slot, opened, closed, idle, demux, callVars, sending>>

-----------------------------------------------------------------------------
(* The steps that end by themselves: the locks of the map and of the       *)
(* writer are held for a moment, a write of an AnyTlsStream goes into an   *)
(* unbounded channel, and the wait for the answer has its timeout.         *)
Proceeds(x) ==
  \/ Start(x) \/ Lookup(x) \/ Install(x)
  \/ Check(x) \/ Register(x) \/ EncodeFails(x) \/ Write(x) \/ WriteFails(x)
  \/ Timeout(x) \/ TimedOut(x) \/ Erred(x) \/ CloseFailsAll(x) \/ Detach(x)

(* Opening a connection need not: neither TcpStream::connect nor the TLS   *)
(* handshake of create_session has a timeout.                              *)
CallStep(x) == Proceeds(x) \/ Open(x) \/ OpenFails(x)

Sends == \E s \in sending : Send(s[1], s[2], s[3])

ReaderStep(c) ==
  ReadFails(c) \/ ReaderFailsAll(c) \/ ReaderDelivers(c) \/ ReaderAborted(c)

Next ==
  \/ \E x \in Calls : CallStep(x)
  \/ Sends
  \/ \E c \in Conns : ReaderStep(c) \/ GrowIdle(c)

-----------------------------------------------------------------------------
(* What the two attempts of one call and the readers promise together      *)
(* (PacketUsers says what of).                                             *)
NoStrandedCall ==
  \A x \in Calls : pc[x] \in {"write", "wait"} =>
    \/ x \in Waiters(demux[conn[x]])
    \/ \E s \in sending : s[1] = conn[x] /\ s[2] = x

RetryUsesAnotherConn ==
  \A x \in Calls : conn[x] # NoConn /\ first[x] # NoConn => conn[x] # first[x]

EvictsDeadConn ==
  slot # NoConn /\ slot' # slot =>
    closed[slot] \/ idle[slot] \/ \A x \in Calls : pc'[x] \notin InFlight

NoWaiterLeaks ==
  (\A x \in Calls : pc[x] \in {"ok", "err"}) =>
    \A c \in Conns : Waiters(demux[c]) = {} /\ demux[c].fifo = <<>>
=============================================================================
