--------------------------- MODULE PacketSession ---------------------------
(***************************************************************************)
(* One PacketSessionDemux shared by concurrent tasks: callers that         *)
(* register a request and await its oneshot receiver, the reader task that *)
(* delivers packets or fails everybody, and the callers' timers.           *)
(*                                                                         *)
(* Two gaps of the code are steps of their own, because other tasks run in *)
(* them: deliver, deliver_next and fail_all take the waiters out of the    *)
(* table under the lock and send to their channels after it is released;   *)
(* and a caller whose timeout fired has already dropped its receiver when  *)
(* it calls remove_by_id.                                                  *)
(***************************************************************************)
EXTENDS PacketDemux

CONSTANTS Requests,   (* request ids, one per PacketSessionWait *)
          Keys        (* target keys, `host:port' in lower case *)

(* What a waiter is sent: the key of the packet's source, or one of these. *)
Targetless == "targetless"
Failed     == "failed"

ASSUME KeysAssumption == Keys \cap {Targetless, Failed, "none"} = {}

VARIABLES demux,     (* PacketSessionState, under its mutex                 *)
          target,    (* the key each request registered under               *)
          rx,        (* where each caller is with its receiver              *)
          answer,    (* what each caller received from its receiver         *)
          sending    (* (id, result) pairs between the unlock and the send  *)

vars == <<demux, target, rx, answer, sending>>

Results == Keys \cup {Targetless, Failed}

TypeOK ==
  /\ DemuxType(demux, Keys, Requests)
  /\ target \in [Requests -> Keys \cup {"none"}]
  /\ rx \in [Requests -> {"new", "waiting", "expired", "done"}]
  /\ answer \in [Requests -> Results \cup {"none"}]
  /\ sending \subseteq Requests \X Results

Init ==
  /\ demux = EmptyDemux
  /\ target = [r \in Requests |-> "none"]
  /\ rx = [r \in Requests |-> "new"]
  /\ answer = [r \in Requests |-> "none"]
  /\ sending = {}

-----------------------------------------------------------------------------
(* PacketSessionDemux::register by a caller that then awaits the receiver. *)
Register(r, k) ==
  /\ rx[r] = "new"
  /\ demux' = register(demux, k, r)
  /\ target' = [target EXCEPT ![r] = k]
  /\ rx' = [rx EXCEPT ![r] = "waiting"]
  /\ UNCHANGED <<answer, sending>>

(* The caller's timeout(.., receiver) elapses and drops the receiver.      *)
Expire(r) ==
  /\ rx[r] = "waiting"
  /\ rx' = [rx EXCEPT ![r] = "expired"]
  /\ UNCHANGED <<demux, target, answer, sending>>

(* PacketSessionDemux::remove_by_id, after a timeout or (with the receiver *)
(* still at hand) after the caller failed to write its request.            *)
Remove(r) ==
  /\ rx[r] \in {"waiting", "expired"}
  /\ demux' = remove_by_id(demux, target[r], r)
  /\ rx' = [rx EXCEPT ![r] = "done"]
  /\ UNCHANGED <<target, answer, sending>>

(* Mutant of Deliver: a packet without a waiter goes to the oldest one.    *)
DeliverToAnyone(k) ==
  /\ LivePositions(demux) # {}
  /\ demux' = IF deliverable(demux, k) THEN deliver(demux, k) ELSE deliver_next(demux)
  /\ sending' = sending \cup
       {<<IF deliverable(demux, k) THEN deliver_waiter(demux, k)
          ELSE deliver_next_waiter(demux), k>>}
  /\ UNCHANGED <<target, rx, answer>>

(* deliver, up to the unlock: a packet from k finds a waiter.  A packet    *)
(* without one changes nothing.                                            *)
Deliver(k) ==
  /\ deliverable(demux, k)
  /\ demux' = deliver(demux, k)
  /\ sending' = sending \cup {<<deliver_waiter(demux, k), k>>}
  /\ UNCHANGED <<target, rx, answer>>

(* deliver_next, up to the unlock.                                         *)
DeliverNext ==
  /\ demux' = deliver_next(demux)
  /\ sending' = IF LivePositions(demux) = {} THEN sending
                ELSE sending \cup {<<deliver_next_waiter(demux), Targetless>>}
  /\ UNCHANGED <<target, rx, answer>>

(* fail_all, up to the unlock.                                             *)
FailAll ==
  /\ demux' = fail_all(demux)
  /\ sending' = sending \cup (Waiters(demux) \X {Failed})
  /\ UNCHANGED <<target, rx, answer>>

(* `let _ = waiter.sender.send(result)': a dropped receiver loses it.      *)
Send(r, result) ==
  /\ <<r, result>> \in sending
  /\ sending' = sending \ {<<r, result>>}
  /\ IF rx[r] = "waiting"
     THEN /\ answer' = [answer EXCEPT ![r] = result]
          /\ rx' = [rx EXCEPT ![r] = "done"]
     ELSE UNCHANGED <<answer, rx>>
  /\ UNCHANGED <<demux, target>>

Next ==
  \/ \E r \in Requests, k \in Keys : Register(r, k)
  \/ \E r \in Requests : Expire(r)
  \/ \E r \in Requests : Remove(r)
  \/ \E k \in Keys : Deliver(k)
  \/ DeliverNext
  \/ FailAll
  \/ \E r \in Requests, result \in Results : Send(r, result)

Spec == Init /\ [][Next]_vars

-----------------------------------------------------------------------------
(* The two indexes of packet_session.rs agree after every method: the fifo *)
(* lists exactly the queued waiters, in the order of each queue, and no    *)
(* emptied queue stays in the map.                                         *)
IndexesAgree == DemuxOK(demux)

(* No lost wakeup: a caller that still awaits its receiver is either in    *)
(* the table under the key it registered, or its answer is on the way.     *)
NoStrandedWaiter ==
  \A r \in Requests : rx[r] = "waiting" =>
    \/ r \in Elements(Queue(demux, target[r]))
    \/ \E result \in Results : <<r, result>> \in sending

(* A sender is used once: no request is in the table and being answered,   *)
(* or being answered twice, or being answered after it got its answer.     *)
AtMostOneAnswer ==
  /\ \A s, t \in sending : s[1] = t[1] => s = t
  /\ \A s \in sending : s[1] \notin Waiters(demux) /\ answer[s[1]] = "none"
  /\ \A r \in Requests : answer[r] # "none" => r \notin Waiters(demux)

(* Target awareness: a packet that names its source is only ever received  *)
(* by a caller that registered that target.                                *)
AnswerFromTarget ==
  \A r \in Requests : answer[r] \in Keys => answer[r] = target[r]

(***************************************************************************)
(* The specification the two indexes implement: one list of waiters.       *)
(***************************************************************************)
List == INSTANCE WaiterList WITH waiters <- demux.fifo

(* Every method acts as if all waiters stood in one list: deliver serves   *)
(* the oldest waiter of the packet's key, deliver_next the oldest of all.  *)
ImplementsWaiterList == List!Spec
=============================================================================
