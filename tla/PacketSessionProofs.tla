------------------------ MODULE PacketSessionProofs ------------------------
(***************************************************************************)
(* The safety of the packet session for any set of callers and of targets. *)
(* The invariants are stated over the set of fifo entries, on which every  *)
(* method of the demultiplexer has a simple effect (PacketDemuxLemmas):    *)
(* register adds one entry, the others remove one or all.                  *)
(***************************************************************************)
EXTENDS PacketSession, PacketDemuxLemmas

Entries == Elements(demux.fifo)

(* A table entry belongs to a caller that registered it and has not left. *)
EntriesOwned ==
  \A e \in Entries : rx[e[2]] \in {"waiting", "expired"} /\ target[e[2]] = e[1]

(* An answer on its way is the only one, and has left the table. *)
SendingOwned ==
  \A s \in sending :
    /\ rx[s[1]] # "new"
    /\ answer[s[1]] = "none"
    /\ s[2] \in Keys => s[2] = target[s[1]]
    /\ \A e \in Entries : e[2] # s[1]
    /\ \A t \in sending : s[1] = t[1] => s = t

AnsweredIsDone == \A r \in Requests : answer[r] # "none" => rx[r] = "done"

TargetKnown == \A r \in Requests : rx[r] # "new" => target[r] \in Keys

WaitingIsHeld ==
  \A r \in Requests : rx[r] = "waiting" =>
    \/ <<target[r], r>> \in Entries
    \/ \E result \in Results : <<r, result>> \in sending

(* The inductive invariant. *)
Inv ==
  /\ TypeOK
  /\ IndexesAgree
  /\ EntriesOwned
  /\ SendingOwned
  /\ AnsweredIsDone
  /\ TargetKnown
  /\ WaitingIsHeld
  /\ AnswerFromTarget

(* The invariant holds of a new demultiplexer and callers that have not    *)
(* registered.                                                             *)
LEMMA InitInv == Init => Inv
<1> SUFFICES ASSUME Init PROVE Inv
  OBVIOUS
<1>1. DemuxType(demux, Keys, Requests) /\ DemuxOK(demux) /\ Entries = {}
  BY EmptyDemuxFacts DEF Init, Entries
<1>2. TypeOK
  BY <1>1 DEF Init, TypeOK
<1> QED
  BY <1>1, <1>2, KeysAssumption
     DEF Init, Inv, IndexesAgree, EntriesOwned, SendingOwned, AnsweredIsDone,
         TargetKnown, WaitingIsHeld, AnswerFromTarget

(* register by a new request keeps the invariant.                          *)
LEMMA RegisterInv ==
  ASSUME Inv, NEW r \in Requests, NEW k \in Keys, Register(r, k)
  PROVE  Inv'
<1>1. \A e \in Entries : e[2] # r
  BY DEF Inv, EntriesOwned, Register
<1>2. /\ DemuxType(demux', Keys, Requests)
      /\ DemuxOK(demux')
      /\ Entries' = Entries \cup {<<k, r>>}
  BY <1>1, RegisterFacts DEF Inv, TypeOK, IndexesAgree, Register, Entries
<1>3. TypeOK'
  BY <1>2 DEF Inv, TypeOK, Register
<1>4. EntriesOwned'
  BY <1>1, <1>2 DEF Inv, TypeOK, EntriesOwned, Register
<1>5. SendingOwned'
  BY <1>2 DEF Inv, TypeOK, SendingOwned, Register, Results
<1>6. AnsweredIsDone' /\ AnswerFromTarget' /\ TargetKnown'
  <2>1. answer[r] = "none" /\ "none" \notin Keys
    BY KeysAssumption DEF Inv, AnsweredIsDone, Register
  <2> QED
    BY <2>1 DEF Inv, TypeOK, AnsweredIsDone, AnswerFromTarget, TargetKnown, Register
<1>7. WaitingIsHeld'
  BY <1>2 DEF Inv, TypeOK, WaitingIsHeld, Register
<1> QED BY <1>2, <1>3, <1>4, <1>5, <1>6, <1>7 DEF Inv, IndexesAgree

(* A timer that drops a receiver keeps the invariant.                      *)
LEMMA ExpireInv ==
  ASSUME Inv, NEW r \in Requests, Expire(r)
  PROVE  Inv'
<1>1. Entries' = Entries
  BY DEF Expire, Entries
<1>2. TypeOK' /\ IndexesAgree'
  BY DEF Inv, TypeOK, IndexesAgree, Expire
<1>3. EntriesOwned' /\ SendingOwned'
  BY <1>1 DEF Inv, TypeOK, EntriesOwned, SendingOwned, Expire
<1>4. AnsweredIsDone' /\ AnswerFromTarget' /\ TargetKnown' /\ WaitingIsHeld'
  BY <1>1 DEF Inv, TypeOK, AnsweredIsDone, AnswerFromTarget, TargetKnown,
              WaitingIsHeld, Expire
<1> QED BY <1>2, <1>3, <1>4 DEF Inv

(* remove_by_id, after a timeout or a failed write, keeps the invariant.   *)
LEMMA RemoveInv ==
  ASSUME Inv, NEW r \in Requests, Remove(r)
  PROVE  /\ Inv'
         /\ demux'.fifo = Without(demux.fifo, <<target[r], r>>)
<1>1. target[r] \in Keys
  BY DEF Inv, TargetKnown, Remove
<1>2. /\ DemuxType(demux', Keys, Requests)
      /\ DemuxOK(demux')
      /\ demux'.fifo = Without(demux.fifo, <<target[r], r>>)
      /\ Entries' = Entries \ {<<target[r], r>>}
  BY <1>1, RemoveFacts DEF Inv, TypeOK, IndexesAgree, Remove, Entries
<1>3. TypeOK'
  BY <1>2 DEF Inv, TypeOK, Remove
<1>4. EntriesOwned'
  <2> SUFFICES ASSUME NEW e \in Entries, e # <<target[r], r>>
               PROVE  rx'[e[2]] \in {"waiting", "expired"} /\ target'[e[2]] = e[1]
    BY <1>2 DEF EntriesOwned
  <2>1. e \in Keys \X Requests
    BY WaitersFacts DEF Inv, TypeOK, IndexesAgree, Entries
  <2>2. e[2] # r
    BY <2>1 DEF Inv, EntriesOwned
  <2> QED BY <2>1, <2>2 DEF Inv, TypeOK, EntriesOwned, Remove
<1>5. SendingOwned'
  BY <1>2 DEF Inv, TypeOK, SendingOwned, Remove
<1>6. AnsweredIsDone' /\ AnswerFromTarget' /\ TargetKnown'
  BY DEF Inv, TypeOK, AnsweredIsDone, AnswerFromTarget, TargetKnown, Remove
<1>7. WaitingIsHeld'
  BY <1>2 DEF Inv, TypeOK, WaitingIsHeld, Remove
<1> QED BY <1>2, <1>3, <1>4, <1>5, <1>6, <1>7 DEF Inv, IndexesAgree

(* One waiter is taken out of the table and its answer is on the way. *)
LEMMA TakeInv ==
  ASSUME Inv, NEW e \in Entries, NEW result \in Results,
         result \in Keys => result = e[1],
         DemuxType(demux', Keys, Requests), DemuxOK(demux'),
         Entries' = Entries \ {e},
         sending' = sending \cup {<<e[2], result>>},
         UNCHANGED <<target, rx, answer>>
  PROVE  Inv'
<1>1. e \in Keys \X Requests /\ e = <<e[1], e[2]>>
  BY WaitersFacts DEF Inv, TypeOK, IndexesAgree, Entries
<1>2. TypeOK' /\ IndexesAgree'
  BY <1>1 DEF Inv, TypeOK, IndexesAgree
<1>3. EntriesOwned'
  BY DEF Inv, EntriesOwned
<1>4. \A f \in Entries : f[2] = e[2] => f = e
  BY DEF Inv, IndexesAgree, DemuxOK, NoDuplicates, Entries
<1>5. SendingOwned'
  <2>1. rx[e[2]] # "new" /\ rx[e[2]] # "done" /\ target[e[2]] = e[1]
    BY DEF Inv, EntriesOwned
  <2>2. answer[e[2]] = "none"
    BY <1>1, <2>1 DEF Inv, AnsweredIsDone
  <2>3. \A t \in sending : t[1] # e[2]
    BY DEF Inv, SendingOwned
  <2>4. ASSUME NEW s \in sending'
        PROVE  /\ rx[s[1]] # "new"
               /\ answer[s[1]] = "none"
               /\ s[2] \in Keys => s[2] = target[s[1]]
               /\ \A f \in Entries' : f[2] # s[1]
               /\ \A t \in sending' : s[1] = t[1] => s = t
    <3>1. CASE s \in sending
      BY <2>3, <3>1 DEF Inv, SendingOwned
    <3>2. CASE s = <<e[2], result>>
      BY <1>4, <2>1, <2>2, <2>3, <3>2
    <3> QED BY <3>1, <3>2
  <2> QED BY <2>4 DEF SendingOwned
<1>6. AnsweredIsDone' /\ AnswerFromTarget' /\ TargetKnown'
  BY DEF Inv, AnsweredIsDone, AnswerFromTarget, TargetKnown
<1>7. WaitingIsHeld'
  <2> SUFFICES ASSUME NEW r \in Requests, rx[r] = "waiting"
               PROVE  \/ <<target[r], r>> \in Entries'
                      \/ \E res \in Results : <<r, res>> \in sending'
    BY DEF WaitingIsHeld
  <2>1. CASE <<target[r], r>> = e
    <3>1. <<r, result>> \in sending'
      BY <2>1
    <3> QED BY <3>1
  <2>2. CASE <<target[r], r>> # e
    BY <2>2 DEF Inv, WaitingIsHeld
  <2> QED BY <2>1, <2>2
<1> QED BY <1>2, <1>3, <1>5, <1>6, <1>7 DEF Inv

(* deliver keeps the invariant: it takes out the oldest waiter of the key. *)
LEMMA DeliverInv ==
  ASSUME Inv, NEW k \in Keys, Deliver(k)
  PROVE  /\ Inv'
         /\ demux'.fifo = Without(demux.fifo, <<k, deliver_waiter(demux, k)>>)
<1> DEFINE w == deliver_waiter(demux, k)
<1>1. DemuxType(demux, Keys, Requests) /\ DemuxOK(demux) /\ deliverable(demux, k)
  BY DEF Inv, TypeOK, IndexesAgree, Deliver
<1>2. demux' = remove_by_id(demux, k, w) /\ <<k, w>> \in Entries
  BY <1>1, DeliverIsRemove DEF Deliver, Entries
<1>3. /\ DemuxType(demux', Keys, Requests)
      /\ DemuxOK(demux')
      /\ demux'.fifo = Without(demux.fifo, <<k, w>>)
      /\ Entries' = Entries \ {<<k, w>>}
  BY <1>1, <1>2, RemoveFacts DEF Entries
<1>4. Inv'
  <2>1. k \in Results /\ sending' = sending \cup {<<w, k>>} /\ UNCHANGED <<target, rx, answer>>
    BY DEF Deliver, Results
  <2> HIDE DEF w
  <2>2. <<k, w>>[1] = k /\ <<k, w>>[2] = w
    OBVIOUS
  <2> QED BY <1>2, <1>3, <2>1, <2>2, TakeInv
<1> QED BY <1>3, <1>4

(* deliver_next keeps the invariant: it takes out the oldest waiter of     *)
(* all, or nothing.                                                        *)
LEMMA DeliverNextInv ==
  ASSUME Inv, DeliverNext
  PROVE  Inv'
<1>1. DemuxType(demux, Keys, Requests) /\ DemuxOK(demux)
  BY DEF Inv, TypeOK, IndexesAgree
<1>2. CASE LivePositions(demux) = {}
  <2>1. DemuxType(demux', Keys, Requests) /\ DemuxOK(demux') /\ demux'.fifo = demux.fifo
    BY <1>1, <1>2, DeliverNextIdle DEF DeliverNext
  <2>2. Entries' = Entries /\ UNCHANGED <<sending, target, rx, answer>>
    BY <1>2, <2>1 DEF Entries, DeliverNext
  <2>3. TypeOK' /\ IndexesAgree'
    BY <2>1, <2>2 DEF Inv, TypeOK, IndexesAgree
  <2> QED
    BY <2>2, <2>3 DEF Inv, EntriesOwned, SendingOwned, AnsweredIsDone, TargetKnown,
                      WaitingIsHeld, AnswerFromTarget
<1>3. CASE LivePositions(demux) # {}
  <2> DEFINE e == demux.fifo[1]
             w == deliver_next_waiter(demux)
  <2>1. /\ e[1] \in Keys /\ e = <<e[1], w>> /\ e[2] = w /\ e \in Entries
        /\ demux' = remove_by_id(demux, e[1], w)
    BY <1>1, <1>3, DeliverNextIsRemove DEF DeliverNext, Entries
  <2>2. /\ DemuxType(demux', Keys, Requests)
        /\ DemuxOK(demux')
        /\ Entries' = Entries \ {e}
    <3>1. PICK k \in Keys : k = e[1]
      BY <2>1
    <3>2. PICK v : v = w
      OBVIOUS
    <3> HIDE DEF e, w
    <3>3. <<k, v>> \in Entries /\ demux' = remove_by_id(demux, k, v) /\ e = <<k, v>>
      BY <2>1, <3>1, <3>2
    <3>4. /\ DemuxType(demux', Keys, Requests)
          /\ DemuxOK(demux')
          /\ demux'.fifo = Without(demux.fifo, <<k, v>>)
          /\ Entries' = Entries \ {<<k, v>>}
      BY <1>1, <3>3, RemoveFacts DEF Entries
    <3> QED BY <3>3, <3>4
  <2>3. Targetless \in Results /\ Targetless \notin Keys
    BY KeysAssumption DEF Results
  <2>4. sending' = sending \cup {<<w, Targetless>>} /\ UNCHANGED <<target, rx, answer>>
    BY <1>3 DEF DeliverNext
  <2> HIDE DEF e, w
  <2> QED BY <2>1, <2>2, <2>3, <2>4, TakeInv
<1> QED BY <1>2, <1>3

(* fail_all keeps the invariant: everybody is taken out and everybody's    *)
(* error is on the way.                                                    *)
LEMMA FailAllInv ==
  ASSUME Inv, FailAll
  PROVE  Inv'
<1>1. /\ DemuxType(demux', Keys, Requests) /\ DemuxOK(demux') /\ Entries' = {}
      /\ DemuxType(demux, Keys, Requests) /\ DemuxOK(demux)
  BY EmptyDemuxFacts DEF FailAll, fail_all, Entries, Inv, TypeOK, IndexesAgree
<1>2. /\ \A r : r \in Waiters(demux) <=> \E e \in Entries : e[2] = r
      /\ \A e \in Entries : e \in Keys \X Requests
  BY <1>1, WaitersFacts DEF Entries
<1>3. Failed \in Results /\ Failed \notin Keys
  BY KeysAssumption DEF Results
<1>4. /\ sending' = sending \cup (Waiters(demux) \X {Failed})
      /\ UNCHANGED <<target, rx, answer>>
  BY DEF FailAll
<1>5. Waiters(demux) \subseteq Requests
  BY <1>2
<1>6. TypeOK' /\ IndexesAgree' /\ EntriesOwned'
  BY <1>1, <1>3, <1>4, <1>5 DEF Inv, TypeOK, IndexesAgree, EntriesOwned
<1>7. SendingOwned'
  <2>1. ASSUME NEW r \in Waiters(demux)
        PROVE  /\ rx[r] # "new" /\ answer[r] = "none"
               /\ \A t \in sending : t[1] # r
    <3>1. PICK e \in Entries : e[2] = r
      BY <1>2
    <3>2. rx[r] # "new" /\ rx[r] # "done"
      BY <3>1 DEF Inv, EntriesOwned
    <3> QED BY <1>5, <3>1, <3>2 DEF Inv, AnsweredIsDone, SendingOwned
  <2>2. ASSUME NEW s \in sending'
        PROVE  /\ rx[s[1]] # "new"
               /\ answer[s[1]] = "none"
               /\ s[2] \in Keys => s[2] = target[s[1]]
               /\ \A t \in sending' : s[1] = t[1] => s = t
    <3>1. CASE s \in sending
      BY <1>4, <2>1, <3>1 DEF Inv, SendingOwned
    <3>2. CASE s \in Waiters(demux) \X {Failed}
      BY <1>3, <1>4, <2>1, <3>2
    <3> QED BY <1>4, <3>1, <3>2
  <2> QED BY <1>1, <1>4, <2>2 DEF SendingOwned
<1>8. AnsweredIsDone' /\ AnswerFromTarget' /\ TargetKnown'
  BY <1>4 DEF Inv, AnsweredIsDone, AnswerFromTarget, TargetKnown
<1>9. WaitingIsHeld'
  <2> SUFFICES ASSUME NEW r \in Requests, rx[r] = "waiting"
               PROVE  \E res \in Results : <<r, res>> \in sending'
    BY <1>4 DEF WaitingIsHeld
  <2>1. CASE <<target[r], r>> \in Entries
    <3>1. r \in Waiters(demux)
      BY <1>2, <2>1
    <3> QED BY <1>3, <1>4, <3>1
  <2>2. CASE \E res \in Results : <<r, res>> \in sending
    BY <1>4, <2>2
  <2> QED BY <2>1, <2>2 DEF Inv, WaitingIsHeld
<1> QED BY <1>6, <1>7, <1>8, <1>9 DEF Inv

(* The oneshot send after the unlock keeps the invariant, whether or not   *)
(* the receiver is still there.                                            *)
LEMMA SendInv ==
  ASSUME Inv, NEW r \in Requests, NEW result \in Results, Send(r, result)
  PROVE  Inv'
<1> DEFINE s == <<r, result>>
<1>1. s \in sending /\ sending' = sending \ {s} /\ UNCHANGED <<demux, target>>
  BY DEF Send
<1>2. Entries' = Entries /\ \A e \in Entries : e[2] # r
  BY <1>1 DEF Entries, Inv, SendingOwned
<1>3. \A t \in sending' : t[1] # r
  BY <1>1 DEF Inv, SendingOwned
<1>4. CASE rx[r] = "waiting"
  <2>1. answer' = [answer EXCEPT ![r] = result] /\ rx' = [rx EXCEPT ![r] = "done"]
    BY <1>4 DEF Send
  <2>2. TypeOK' /\ IndexesAgree'
    BY <1>1, <2>1 DEF Inv, TypeOK, IndexesAgree
  <2>3. EntriesOwned'
    BY <1>1, <1>2, <2>1 DEF Inv, TypeOK, EntriesOwned
  <2>4. SendingOwned'
    BY <1>1, <1>2, <1>3, <2>1 DEF Inv, TypeOK, SendingOwned
  <2>5. AnsweredIsDone' /\ TargetKnown'
    BY <1>1, <1>4, <2>1 DEF Inv, TypeOK, AnsweredIsDone, TargetKnown
  <2>8. WaitingIsHeld'
    <3> SUFFICES ASSUME NEW q \in Requests, rx'[q] = "waiting"
                 PROVE  \/ <<target[q], q>> \in Entries
                        \/ \E res \in Results : <<q, res>> \in sending'
      BY <1>1, <1>2 DEF WaitingIsHeld
    <3>1. q # r /\ rx[q] = "waiting"
      BY <2>1 DEF Inv, TypeOK
    <3> QED BY <1>1, <3>1 DEF Inv, WaitingIsHeld
  <2>6. result \in Keys => result = target[r]
    BY <1>1 DEF Inv, SendingOwned
  <2>7. AnswerFromTarget'
    BY <1>1, <2>1, <2>6 DEF Inv, TypeOK, AnswerFromTarget
  <2> QED BY <2>2, <2>3, <2>4, <2>5, <2>7, <2>8 DEF Inv
<1>5. CASE rx[r] # "waiting"
  <2>1. UNCHANGED <<answer, rx>>
    BY <1>5 DEF Send
  <2>2. TypeOK' /\ IndexesAgree' /\ EntriesOwned'
    BY <1>1, <1>2, <2>1 DEF Inv, TypeOK, IndexesAgree, EntriesOwned
  <2>5. SendingOwned'
    BY <1>1, <1>2, <2>1 DEF Inv, SendingOwned
  <2>3. AnsweredIsDone' /\ TargetKnown' /\ AnswerFromTarget'
    BY <1>1, <2>1 DEF Inv, AnsweredIsDone, TargetKnown, AnswerFromTarget
  <2>4. WaitingIsHeld'
    BY <1>1, <1>2, <1>5, <2>1 DEF Inv, WaitingIsHeld
  <2> QED BY <2>2, <2>3, <2>4, <2>5 DEF Inv
<1> QED BY <1>4, <1>5

(* Every step keeps the invariant.                                         *)
LEMMA NextInv == Inv /\ [Next]_vars => Inv'
<1> SUFFICES ASSUME Inv, [Next]_vars PROVE Inv'
  OBVIOUS
<1>1. CASE Next
  BY <1>1, RegisterInv, ExpireInv, RemoveInv, DeliverInv, DeliverNextInv,
     FailAllInv, SendInv DEF Next
<1>2. CASE UNCHANGED vars
  BY <1>2 DEF vars, Inv, TypeOK, IndexesAgree, EntriesOwned, SendingOwned, AnsweredIsDone,
              TargetKnown, WaitingIsHeld, AnswerFromTarget, Entries
<1> QED BY <1>1, <1>2

(* The inductive invariant of the packet session.                          *)
LEMMA InvHolds == Spec => []Inv
BY InitInv, NextInv, PTL DEF Spec

(* The state keeps its types: no method of packet_session.rs, in any       *)
(* interleaving, puts anything but registered requests into the table.     *)
THEOREM TypeCorrect == Spec => []TypeOK
<1>1. Inv => TypeOK
  BY DEF Inv
<1> QED BY <1>1, InvHolds, PTL

(* The per-target queues and the fifo of packet_session.rs agree in        *)
(* content and in order after any interleaving of its methods.             *)
THEOREM IndexesAlwaysAgree == Spec => []IndexesAgree
<1>1. Inv => IndexesAgree
  BY DEF Inv
<1> QED BY <1>1, InvHolds, PTL

(* No lost wakeup: a caller that awaits its receiver is in the table or    *)
(* its answer is on the way, whatever the other tasks do.                  *)
THEOREM NoWaiterStranded == Spec => []NoStrandedWaiter
<1>1. ASSUME Inv PROVE NoStrandedWaiter
  <2>1. DemuxType(demux, Keys, Requests) /\ DemuxOK(demux)
    BY <1>1 DEF Inv, TypeOK, IndexesAgree
  <2>2. \A k, r : <<k, r>> \in Entries => r \in Elements(Queue(demux, k))
    BY <2>1, LiveIsPending DEF Entries
  <2> QED BY <1>1, <2>2 DEF Inv, WaitingIsHeld, NoStrandedWaiter
<1> QED BY <1>1, InvHolds, PTL

(* A oneshot sender is used once: a request is never answered twice and    *)
(* never answered while it is still listed.                                *)
THEOREM AnsweredAtMostOnce == Spec => []AtMostOneAnswer
<1>1. ASSUME Inv PROVE AtMostOneAnswer
  <2>1. \A r : r \in Waiters(demux) => \E e \in Entries : e[2] = r
    BY <1>1, WaitersFacts DEF Inv, TypeOK, IndexesAgree, Entries
  <2>2. \A r \in Requests : answer[r] # "none" => r \notin Waiters(demux)
    BY <1>1, <2>1 DEF Inv, EntriesOwned, AnsweredIsDone
  <2>3. \A s \in sending : s[1] \notin Waiters(demux)
    BY <1>1, <2>1 DEF Inv, SendingOwned
  <2> QED BY <1>1, <2>2, <2>3 DEF Inv, SendingOwned, AtMostOneAnswer
<1> QED BY <1>1, InvHolds, PTL

(* Target awareness of deliver: a packet that names its source answers     *)
(* only a request that was registered for that source.                     *)
THEOREM TargetAware == Spec => []AnswerFromTarget
<1>1. Inv => AnswerFromTarget
  BY DEF Inv
<1> QED BY <1>1, InvHolds, PTL

-----------------------------------------------------------------------------
(* The two indexes implement one list of waiters. *)

(* One list element leaves: what Without does to the fifo is List!Leaves. *)
LEMMA LeavesStep ==
  ASSUME Inv, NEW e \in Entries, demux'.fifo = Without(demux.fifo, e)
  PROVE  \E i \in DOMAIN demux.fifo : demux.fifo[i] = e /\ List!Leaves(i)
<1> DEFINE p == CHOOSE i \in DOMAIN demux.fifo : demux.fifo[i] = e
<1>1. p \in DOMAIN demux.fifo /\ demux.fifo[p] = e
  BY DEF Entries, Elements
<1>2. demux'.fifo = DropAt(demux.fifo, p)
  BY DEF Without, Entries
<1>3. List!Leaves(p)
  BY <1>2 DEF List!Leaves, DropAt
<1> QED BY <1>1, <1>3

(* A new demultiplexer is an empty list of waiters.                        *)
LEMMA InitList == Init => List!Init
BY DEF Init, List!Init, EmptyDemux

(* register is joining the list at its end.                                *)
LEMMA RegisterList ==
  ASSUME Inv, NEW r \in Requests, NEW k \in Keys, Register(r, k)
  PROVE  List!Join(r, k)
<1>1. \A e \in Entries : e[2] # r
  BY DEF Inv, EntriesOwned, Register
<1>2. demux'.fifo = Append(demux.fifo, <<k, r>>)
  BY <1>1, RegisterFacts DEF Inv, TypeOK, IndexesAgree, Register, Entries
<1> QED BY <1>2 DEF Register, List!Join

(* remove_by_id is giving up one's place, or nothing for a request already *)
(* taken out.                                                              *)
LEMMA RemoveList ==
  ASSUME Inv, NEW r \in Requests, Remove(r)
  PROVE  List!GiveUp(r)
<1>1. demux'.fifo = Without(demux.fifo, <<target[r], r>>)
  BY RemoveInv
<1>2. CASE <<target[r], r>> \in Entries
  BY <1>1, <1>2, LeavesStep DEF Remove, List!GiveUp
<1>3. CASE <<target[r], r>> \notin Entries
  <2>1. demux'.fifo = demux.fifo
    BY <1>1, <1>3 DEF Without, Entries
  <2>2. \A i \in DOMAIN demux.fifo : demux.fifo[i] \in Entries /\ demux.fifo[i] \in Keys \X Requests
    BY WaitersFacts DEF Entries, Elements, Inv, TypeOK, IndexesAgree
  <2>3. \A i \in DOMAIN demux.fifo : demux.fifo[i][2] # r
    BY <1>3, <2>2 DEF Inv, EntriesOwned
  <2> QED BY <2>1, <2>3 DEF Remove, List!GiveUp
<1> QED BY <1>2, <1>3

(* deliver serves the first waiter of the packet's key.                    *)
LEMMA DeliverList ==
  ASSUME Inv, NEW k \in Keys, Deliver(k)
  PROVE  List!Serve({k}, k)
<1> DEFINE w == deliver_waiter(demux, k)
<1>1. DemuxType(demux, Keys, Requests) /\ DemuxOK(demux) /\ deliverable(demux, k)
  BY DEF Inv, TypeOK, IndexesAgree, Deliver
<1>2. demux'.fifo = Without(demux.fifo, <<k, w>>)
  BY DeliverInv
<1>3. /\ <<k, w>> \in Entries
      /\ \A id : <<k, id>> \in Entries /\ id # w => Before(demux.fifo, <<k, w>>, <<k, id>>)
  BY <1>1, DeliverIsRemove DEF Entries
<1>4. PICK i \in DOMAIN demux.fifo : demux.fifo[i] = <<k, w>> /\ List!Leaves(i)
  BY <1>2, <1>3, LeavesStep
<1>5. List!FirstOf({k}, i)
  <2> SUFFICES ASSUME NEW j \in DOMAIN demux.fifo, demux.fifo[j][1] = k
               PROVE  i <= j
    BY <1>4 DEF List!FirstOf
  <2>1. demux.fifo[j] \in Entries /\ demux.fifo[j] \in Keys \X Requests
    BY <1>1, WaitersFacts DEF Entries, Elements
  <2>2. demux.fifo[j] = <<k, demux.fifo[j][2]>>
    BY <2>1
  <2>3. NoRepeat(demux.fifo) /\ demux.fifo \in Seq(Keys \X Requests)
    BY <1>1 DEF DemuxOK, NoDuplicates, DemuxType
  <2>4. CASE demux.fifo[j][2] = w
    <3>1. i = j
      BY <1>4, <2>2, <2>3, <2>4 DEF NoRepeat
    <3> QED BY <2>3, <3>1
  <2>5. CASE demux.fifo[j][2] # w
    <3>1. Before(demux.fifo, <<k, w>>, demux.fifo[j])
      BY <1>3, <2>1, <2>2, <2>5
    <3>2. PICK m, n \in DOMAIN demux.fifo :
            m < n /\ demux.fifo[m] = <<k, w>> /\ demux.fifo[n] = demux.fifo[j]
      BY <3>1 DEF Before
    <3>3. m = i /\ n = j
      BY <1>4, <2>3, <3>2 DEF NoRepeat
    <3> QED BY <2>3, <3>2, <3>3
  <2> QED BY <2>4, <2>5
<1>6. sending' = sending \cup {<<demux.fifo[i][2], k>>} /\ UNCHANGED <<target, rx, answer>>
  BY <1>4 DEF Deliver
<1> QED BY <1>4, <1>5, <1>6 DEF List!Serve

(* deliver_next serves the first waiter of all, or does nothing.           *)
LEMMA DeliverNextList ==
  ASSUME Inv, DeliverNext
  PROVE  List!Serve(Keys, Targetless) \/ UNCHANGED List!vars
<1>1. DemuxType(demux, Keys, Requests) /\ DemuxOK(demux)
  BY DEF Inv, TypeOK, IndexesAgree
<1>2. CASE LivePositions(demux) = {}
  BY <1>1, <1>2, DeliverNextIdle DEF DeliverNext, List!vars
<1>3. CASE LivePositions(demux) # {}
  <2> DEFINE e == demux.fifo[1]
             w == deliver_next_waiter(demux)
  <2>1. 1 \in DOMAIN demux.fifo /\ e[1] \in Keys /\ e = <<e[1], w>> /\ e[2] = w
        /\ e \in Entries /\ demux' = remove_by_id(demux, e[1], w)
    BY <1>1, <1>3, DeliverNextIsRemove DEF DeliverNext, Entries
  <2>2. demux'.fifo = Without(demux.fifo, e)
    BY <1>1, <2>1, RemoveFacts
  <2>3. PICK i \in DOMAIN demux.fifo : demux.fifo[i] = e /\ List!Leaves(i)
    BY <2>1, <2>2, LeavesStep
  <2>4. i = 1
    BY <1>1, <2>1, <2>3 DEF DemuxOK, NoDuplicates, NoRepeat
  <2>5. List!FirstOf(Keys, i)
    <3>1. \A j \in DOMAIN demux.fifo : 1 <= j
      BY <1>1 DEF DemuxType
    <3> QED BY <2>1, <2>3, <2>4, <3>1 DEF List!FirstOf
  <2>6. sending' = sending \cup {<<demux.fifo[i][2], Targetless>>} /\ UNCHANGED <<target, rx, answer>>
    BY <1>3, <2>1, <2>3 DEF DeliverNext
  <2> QED BY <2>3, <2>5, <2>6 DEF List!Serve
<1> QED BY <1>2, <1>3

(* fail_all serves everybody with the error.                               *)
LEMMA FailAllList ==
  ASSUME Inv, FailAll
  PROVE  List!ServeAll
<1>1. demux'.fifo = <<>> /\ UNCHANGED <<target, rx, answer>>
  BY DEF FailAll, fail_all, EmptyDemux
<1>2. \A r : r \in Waiters(demux) <=> \E e \in Entries : e[2] = r
  BY WaitersFacts DEF Inv, TypeOK, IndexesAgree, Entries
<1>3. Waiters(demux) \X {Failed} = { <<demux.fifo[i][2], Failed>> : i \in DOMAIN demux.fifo }
  BY <1>2 DEF Entries, Elements
<1> QED BY <1>1, <1>3 DEF FailAll, List!ServeAll

(* Every method of packet_session.rs acts on the two indexes as the same   *)
(* operation does on a single list of waiters.                             *)
THEOREM ImplementsList == Spec => ImplementsWaiterList
<1>1. Inv /\ [Next]_vars => [List!Next]_(List!vars)
  <2> SUFFICES ASSUME Inv, [Next]_vars PROVE [List!Next]_(List!vars)
    OBVIOUS
  <2>1. ASSUME NEW r \in Requests, NEW k \in Keys, Register(r, k) PROVE List!Next
    BY <2>1, RegisterList DEF List!Next
  <2>2. ASSUME NEW r \in Requests, Expire(r) PROVE List!Next
    <3>1. List!Expire(r)
      BY <2>2 DEF Expire, List!Expire
    <3> QED BY <3>1 DEF List!Next
  <2>3. ASSUME NEW r \in Requests, Remove(r) PROVE List!Next
    BY <2>3, RemoveList DEF List!Next
  <2>4. ASSUME NEW k \in Keys, Deliver(k) PROVE List!Next
    BY <2>4, DeliverList DEF List!Next
  <2>5. CASE DeliverNext
    BY <2>5, DeliverNextList DEF List!Next
  <2>6. CASE FailAll
    BY <2>6, FailAllList DEF List!Next
  <2>7. ASSUME NEW r \in Requests, NEW result \in Results, Send(r, result) PROVE List!Next
    <3>1. List!Send(r, result)
      BY <2>7 DEF Send, List!Send
    <3> QED BY <3>1 DEF List!Next
  <2>8. CASE UNCHANGED vars
    BY <2>8 DEF vars, List!vars
  <2> QED BY <2>1, <2>2, <2>3, <2>4, <2>5, <2>6, <2>7, <2>8 DEF Next
<1> QED BY <1>1, InitList, InvHolds, PTL DEF Spec, ImplementsWaiterList, List!Spec
=============================================================================
