------------------------------ MODULE VlessMux ------------------------------
(***************************************************************************)
(* UDP over one VLESS mux stream (XUDP, vless.rs): send_udp finds or opens *)
(* a VlessMuxWorker, registers with its demultiplexer, writes one frame    *)
(* under the writer's tokio Mutex and waits 20 s for the answer, which the *)
(* worker's reader task delivers.  VLESS_MUX_WORKERS holds Weak references *)
(* only: a worker lives as long as a call uses it, its reader task as long *)
(* as its stream gives packets.                                            *)
(*                                                                         *)
(* The registry entry of one key (server, security, transport, flow) is    *)
(* modelled; keys share nothing.                                           *)
(***************************************************************************)
EXTENDS PacketDemux

CONSTANTS Calls,       (* calls of send_udp                                 *)
          Keys,        (* targets                                           *)
          MaxWorkers   (* bound: workers the model lets the calls open      *)

MuxAssumption ==
  /\ MaxWorkers \in Nat
  /\ {"none", "failed", "targetless"} \cap Keys = {}
  /\ "none" \notin Calls

Workers == 1 .. MaxWorkers
NoWorker == 0
Free == "none"
Returned == {"ok", "err", "refused"}

VARIABLES registry,  (* the entry of VLESS_MUX_WORKERS, dangling or not     *)
          opened,    (* number of workers opened so far                     *)
          demux,     (* each worker's pending                               *)
          closed,    (* each worker's closed flag                           *)
          lock,      (* who holds each worker's writer mutex                *)
          first,     (* each writer's first_packet                          *)
          wire,      (* the status of each frame written, 1 New or 2 Keep   *)
          reader,    (* each worker's reader task                           *)
          pc, key, worker,  (* the calls: where they are, target, worker    *)
          sending    (* <<worker, call, result>> between unlock and send    *)

tableVars == <<registry, opened>>
writerVars == <<lock, first, wire>>
callVars == <<key, worker>>
vars == <<tableVars, demux, closed, writerVars, reader, pc, callVars, sending>>

Init ==
  /\ registry = NoWorker
  /\ opened = 0
  /\ demux = [w \in Workers |-> EmptyDemux]
  /\ closed = [w \in Workers |-> FALSE]
  /\ lock = [w \in Workers |-> Free]
  /\ first = [w \in Workers |-> TRUE]
  /\ wire = [w \in Workers |-> <<>>]
  /\ reader = [w \in Workers |-> "off"]
  /\ pc = [x \in Calls |-> "start"]
  /\ key = [x \in Calls |-> "none"]
  /\ worker = [x \in Calls |-> NoWorker]
  /\ sending = {}

Goto(x, label) == pc' = [pc EXCEPT ![x] = label]

(* The call returns; its Arc of the worker is dropped. *)
Return(x, result) ==
  /\ Goto(x, result)
  /\ key' = [key EXCEPT ![x] = "none"]
  /\ worker' = [worker EXCEPT ![x] = NoWorker]

-----------------------------------------------------------------------------
(* Weak::upgrade succeeds while a call holds the worker. *)
Upgrades(w) ==
  w # NoWorker /\ \E x \in Calls : worker[x] = w /\ pc[x] # "refused"

(* mux_worker_for, first lock: the registered worker, unless it is dead    *)
(* or closed; then the entry goes and the call opens a stream, unlocked.   *)
Lookup(x, k) ==
  /\ pc[x] = "start"
  /\ key' = [key EXCEPT ![x] = k]
  /\ IF Upgrades(registry) /\ ~closed[registry]
     THEN worker' = [worker EXCEPT ![x] = registry] /\ Goto(x, "check") /\ UNCHANGED registry
     ELSE registry' = NoWorker /\ Goto(x, "open") /\ UNCHANGED worker
  /\ UNCHANGED <<opened, demux, closed, writerVars, reader, sending>>

(* open_vless_mux_stream; VlessMuxWorker::new spawns the reader. *)
Open(x) ==
  /\ pc[x] = "open"
  /\ opened < MaxWorkers
  /\ opened' = opened + 1
  /\ worker' = [worker EXCEPT ![x] = opened + 1]
  /\ reader' = [reader EXCEPT ![opened + 1] = "header"]
  /\ Goto(x, "insert")
  /\ UNCHANGED <<registry, demux, closed, writerVars, key, sending>>

OpenFails(x) ==
  /\ pc[x] = "open"
  /\ Return(x, "err")
  /\ UNCHANGED <<tableVars, demux, closed, writerVars, reader, sending>>

(* Second lock: the new worker is registered, whatever another call        *)
(* registered meanwhile.                                                   *)
Insert(x) ==
  /\ pc[x] = "insert"
  /\ registry' = worker[x]
  /\ Goto(x, "check")
  /\ UNCHANGED <<opened, demux, closed, writerVars, reader, callVars, sending>>

-----------------------------------------------------------------------------
(* send_packet: is_closed, then register, without a lock around the two. *)
Check(x) ==
  /\ pc[x] = "check"
  /\ IF closed[worker[x]] THEN Return(x, "err")
                          ELSE Goto(x, "register") /\ UNCHANGED callVars
  /\ UNCHANGED <<tableVars, demux, closed, writerVars, reader, sending>>

Register(x) ==
  /\ pc[x] = "register"
  /\ demux' = [demux EXCEPT ![worker[x]] = register(@, key[x], x)]
  /\ Goto(x, "lock")
  /\ UNCHANGED <<tableVars, closed, writerVars, reader, callVars, sending>>

(* The status byte of a frame: New for the first one of a worker, Keep for *)
(* the others.                                                             *)
encode_xudp_packet(isFirst) == IF isFirst THEN 1 ELSE 2

(* Mutant of Lock: the flag survives the frame. *)
LockKeepsFirst(x) ==
  LET w == worker[x] IN
  /\ pc[x] = "lock" /\ lock[w] = Free
  /\ lock' = [lock EXCEPT ![w] = x]
  /\ wire' = [wire EXCEPT ![w] = Append(@, encode_xudp_packet(first[w]))]
  /\ Goto(x, "write")
  /\ UNCHANGED <<tableVars, demux, closed, first, reader, callVars, sending>>

(* The writer's mutex.  Neither the wait nor the write is timed.           *)
Lock(x) ==
  LET w == worker[x] IN
  /\ pc[x] = "lock" /\ lock[w] = Free
  /\ lock' = [lock EXCEPT ![w] = x]
  /\ first' = [first EXCEPT ![w] = FALSE]
  /\ wire' = [wire EXCEPT ![w] = Append(@, encode_xudp_packet(first[w]))]
  /\ Goto(x, "write")
  /\ UNCHANGED <<tableVars, demux, closed, reader, callVars, sending>>

(* encode_xudp_packet refuses the packet (a payload or a name too long for *)
(* the frame): `?' returns with the mutex and the Arc released, and with   *)
(* the waiter still in the table, which key and worker keep the place of.  *)
LockFails(x) ==
  /\ pc[x] = "lock" /\ lock[worker[x]] = Free
  /\ Goto(x, "refused")
  /\ UNCHANGED <<tableVars, demux, closed, writerVars, reader, callVars, sending>>

(* write_frame succeeds, the mutex is released. *)
Write(x) ==
  /\ pc[x] = "write"
  /\ lock' = [lock EXCEPT ![worker[x]] = Free]
  /\ Goto(x, "wait")
  /\ UNCHANGED <<tableVars, demux, closed, first, wire, reader, callVars, sending>>

(* write_frame fails: the waiter is removed, and close() stores the flag   *)
(* and aborts the reader.                                                  *)
Stopped(w) == IF reader[w] \in {"header", "reading"} THEN "aborted" ELSE reader[w]

WriteFails(x) ==
  LET w == worker[x] IN
  /\ pc[x] = "write"
  /\ demux' = [demux EXCEPT ![w] = remove_by_id(@, key[x], x)]
  /\ closed' = [closed EXCEPT ![w] = TRUE]
  /\ reader' = [reader EXCEPT ![w] = Stopped(w)]
  /\ Goto(x, "close")
  /\ UNCHANGED <<tableVars, writerVars, callVars, sending>>

(* ... then close() fails everybody; the guard goes with the early return. *)
Close(x) ==
  LET w == worker[x] IN
  /\ pc[x] = "close"
  /\ demux' = [demux EXCEPT ![w] = fail_all(@)]
  /\ sending' = sending \cup ({w} \X Waiters(demux[w]) \X {"failed"})
  /\ lock' = [lock EXCEPT ![w] = Free]
  /\ Return(x, "err")
  /\ UNCHANGED <<tableVars, closed, first, wire, reader>>

(* A result that deliver or fail_all took out reaches its receiver once    *)
(* the call awaits it, or is lost because the receiver is gone.            *)
Send(w, x, result) ==
  /\ <<w, x, result>> \in sending
  /\ sending' = sending \ {<<w, x, result>>}
  /\ IF pc[x] \in {"lock", "write", "wait"} /\ worker[x] = w
     THEN pc[x] = "wait" /\ Return(x, IF result = "failed" THEN "err" ELSE "ok")
     ELSE UNCHANGED <<pc, callVars>>
  /\ UNCHANGED <<tableVars, demux, closed, writerVars, reader>>

(* timeout(20 s, receiver) elapses and drops the receiver ... *)
Timeout(x) ==
  /\ pc[x] = "wait"
  /\ Goto(x, "expired")
  /\ UNCHANGED <<tableVars, demux, closed, writerVars, reader, callVars, sending>>

(* ... then remove_by_id; the worker stays open. *)
TimedOut(x) ==
  /\ pc[x] = "expired"
  /\ demux' = [demux EXCEPT ![worker[x]] = remove_by_id(@, key[x], x)]
  /\ Return(x, "err")
  /\ UNCHANGED <<tableVars, closed, writerVars, reader, sending>>

-----------------------------------------------------------------------------
(* The reader task.  abort() takes effect at its next await: what it       *)
(* already holds in its buffer may still be delivered.                     *)
Reads(w) == reader[w] \in {"reading", "aborted"}

(* read_vless_response_header, without a timeout. *)
ReadHeader(w) ==
  /\ reader[w] = "header"
  /\ reader' = [reader EXCEPT ![w] = "reading"]
  /\ UNCHANGED <<tableVars, demux, closed, writerVars, pc, callVars, sending>>

(* A packet from k with a waiter; one without a waiter is discarded.       *)
ReaderDelivers(w, k) ==
  /\ Reads(w) /\ deliverable(demux[w], k)
  /\ demux' = [demux EXCEPT ![w] = deliver(@, k)]
  /\ sending' = sending \cup {<<w, deliver_waiter(demux[w], k), k>>}
  /\ UNCHANGED <<tableVars, closed, writerVars, reader, pc, callVars>>

(* A packet without a target: the oldest waiter of all. *)
ReaderDeliversNext(w) ==
  /\ Reads(w) /\ LivePositions(demux[w]) # {}
  /\ demux' = [demux EXCEPT ![w] = deliver_next(@)]
  /\ sending' = sending \cup {<<w, deliver_next_waiter(demux[w]), "targetless">>}
  /\ UNCHANGED <<tableVars, closed, writerVars, reader, pc, callVars>>

(* A malformed frame, the end of the stream, or 20 s without a byte, even  *)
(* when a call has only just written: the flag is stored ...               *)
ReaderErrs(w) ==
  /\ reader[w] \in {"header", "reading", "aborted"}
  /\ closed' = [closed EXCEPT ![w] = TRUE]
  /\ reader' = [reader EXCEPT ![w] = "failing"]
  /\ UNCHANGED <<tableVars, demux, writerVars, pc, callVars, sending>>

(* ... then everybody is failed, and the task ends. *)
ReaderFailsAll(w) ==
  /\ reader[w] = "failing"
  /\ demux' = [demux EXCEPT ![w] = fail_all(@)]
  /\ sending' = sending \cup ({w} \X Waiters(demux[w]) \X {"failed"})
  /\ reader' = [reader EXCEPT ![w] = "done"]
  /\ UNCHANGED <<tableVars, closed, writerVars, pc, callVars>>

ReaderStops(w) ==
  /\ reader[w] = "aborted"
  /\ reader' = [reader EXCEPT ![w] = "done"]
  /\ UNCHANGED <<tableVars, demux, closed, writerVars, pc, callVars, sending>>

-----------------------------------------------------------------------------
Waits(x) == Timeout(x) \/ TimedOut(x)

CallStep(x) ==
  \/ \E k \in Keys : Lookup(x, k)
  \/ Open(x) \/ OpenFails(x) \/ Insert(x) \/ Check(x) \/ Register(x) \/ Lock(x)
  \/ LockFails(x) \/ Write(x) \/ WriteFails(x) \/ Close(x) \/ Waits(x)

Sends == \E s \in sending : Send(s[1], s[2], s[3])

ReaderStep(w) ==
  \/ ReadHeader(w) \/ ReaderDeliversNext(w) \/ ReaderErrs(w)
  \/ ReaderFailsAll(w) \/ ReaderStops(w)
  \/ \E k \in Keys : ReaderDelivers(w, k)

Next ==
  \/ \E x \in Calls : CallStep(x)
  \/ Sends
  \/ \E w \in Workers : ReaderStep(w)

-----------------------------------------------------------------------------
(* A call that awaits its receiver is in its worker's table, or its answer *)
(* is on the way: the branch `Ok(Err(_))' of send_packet is never taken.   *)
NoStrandedCall ==
  \A x \in Calls : pc[x] \in {"lock", "write", "wait"} =>
    \/ x \in Elements(Queue(demux[worker[x]], key[x]))
    \/ \E s \in sending : s[1] = worker[x] /\ s[2] = x

(* The stream of a worker carries one New frame, its first, although any   *)
(* of the calls that share the worker may get the writer first.            *)
FirstFrameNew ==
  \A w \in Workers : \A i \in DOMAIN wire[w] : (wire[w][i] = 1) <=> (i = 1)

(* The flag comes before the failures, in the reader and in close(): a     *)
(* caller that was told its worker failed and tries again finds another.   *)
FailedCallsSeeClosed == \A s \in sending : s[3] = "failed" => closed[s[1]]
=============================================================================
