---------------------------- MODULE PacketDemux ----------------------------
(***************************************************************************)
(* The shared UDP response demultiplexer of the kernel, packet_session.rs. *)
(* PacketSessionState is a value with two fields:                          *)
(*                                                                         *)
(*   pending  a function from the target keys that have a waiter to the    *)
(*            queue of request ids waiting for a packet of that target     *)
(*            (HashMap<String, VecDeque<PacketWaiter>>);                   *)
(*   fifo     the (key, id) pairs in the order of registration             *)
(*            (VecDeque<(String, u64)>), used for packets that carry no    *)
(*            source address.                                              *)
(*                                                                         *)
(* Every method runs under one std::sync::Mutex, so each is a pure         *)
(* operator from a state to a state; the packet connections that own a     *)
(* demultiplexer compose these operators with their tasks and timers.      *)
(* Request ids are drawn from an AtomicU64 of the connection and never     *)
(* repeat, so `retain(|w| w.id != id)' removes at most one entry.          *)
(***************************************************************************)
EXTENDS Naturals, Sequences, FiniteSets

(* A HashMap without entries, an empty VecDeque. *)
EmptyDemux == [pending |-> [k \in {} |-> <<>>], fifo |-> <<>>]

Elements(s) == { s[i] : i \in DOMAIN s }

(* s with its i-th element taken out. *)
DropAt(s, i) == [j \in 1 .. (Len(s) - 1) |-> IF j < i THEN s[j] ELSE s[j + 1]]

(* VecDeque::retain(|y| y != x), where x occurs at most once in s. *)
Without(s, x) ==
  IF x \in Elements(s) THEN DropAt(s, CHOOSE i \in DOMAIN s : s[i] = x) ELSE s

(* The queue of a key; a missing map entry is an empty queue. *)
Queue(d, key) == IF key \in DOMAIN d.pending THEN d.pending[key] ELSE <<>>

(***************************************************************************)
(* The state d with the queue of key and the fifo replaced; an emptied     *)
(* queue leaves the map.                                                   *)
(***************************************************************************)
Updated(d, key, queue, fifo) ==
  [pending |-> IF queue = <<>>
               THEN [k \in DOMAIN d.pending \ {key} |-> d.pending[k]]
               ELSE [k \in DOMAIN d.pending \cup {key} |->
                       IF k = key THEN queue ELSE d.pending[k]],
   fifo    |-> fifo]

(* The ids registered and not yet taken out. *)
Waiters(d) == UNION { Elements(d.pending[k]) : k \in DOMAIN d.pending }

pending_count(d) ==
  Cardinality(UNION { {k} \X DOMAIN d.pending[k] : k \in DOMAIN d.pending })

(* Mutant of register: a stack instead of a queue. *)
RegisterInFront(d, key, id) ==
  Updated(d, key, <<id>> \o Queue(d, key), << <<key, id>> >> \o d.fifo)

register(d, key, id) ==
  Updated(d, key, Append(Queue(d, key), id), Append(d.fifo, <<key, id>>))

(* Mutants of remove_by_id: all waiters of the key go; none goes.           *)
RemoveWholeKey(d, key, id) ==
  Updated(d, key, <<>>, SelectSeq(d.fifo, LAMBDA e : e[1] # key))

RemoveNothing(d, key, id) == d

remove_by_id(d, key, id) ==
  Updated(d, key, Without(Queue(d, key), id), Without(d.fifo, <<key, id>>))

(***************************************************************************)
(* deliver(key): the oldest waiter of the key is taken out of the queue    *)
(* and of the fifo; without a queue for the key nothing changes and the    *)
(* packet is discarded by the caller (`return false').                     *)
(***************************************************************************)
deliverable(d, key) == key \in DOMAIN d.pending

deliver_waiter(d, key) == Head(d.pending[key])

(* Mutant of deliver: the fifo entry stays. *)
DeliverKeepsFifo(d, key) == Updated(d, key, Tail(d.pending[key]), d.fifo)

deliver(d, key) ==
  Updated(d, key, Tail(d.pending[key]),
          Without(d.fifo, <<key, deliver_waiter(d, key)>>))

(***************************************************************************)
(* deliver_next(): the loop pops fifo entries until one of them still has  *)
(* a waiter; the entries it skips are gone.                                *)
(***************************************************************************)
Live(d, entry) == entry[2] \in Elements(Queue(d, entry[1]))

LivePositions(d) == { i \in DOMAIN d.fifo : Live(d, d.fifo[i]) }

FirstLive(d) == CHOOSE i \in LivePositions(d) : \A j \in LivePositions(d) : i <= j

deliver_next_waiter(d) == d.fifo[FirstLive(d)][2]

deliver_next(d) ==
  IF LivePositions(d) = {}
  THEN [pending |-> d.pending, fifo |-> <<>>]
  ELSE LET entry == d.fifo[FirstLive(d)]
       IN  Updated(d, entry[1], Without(d.pending[entry[1]], entry[2]),
                   SubSeq(d.fifo, FirstLive(d) + 1, Len(d.fifo)))

(* Mutant of fail_all: the waiters are failed and stay in the table. *)
FailAllKeepsWaiters(d) == d

(* fail_all(): both maps are emptied; every waiter is then sent the error. *)
fail_all(d) == EmptyDemux

-----------------------------------------------------------------------------
(***************************************************************************)
(* What the two indexes owe each other.  Nothing in the code checks it:    *)
(* deliver_next silently skips entries for which it fails, and the lane    *)
(* pools pick a lane by pending_count.                                     *)
(***************************************************************************)

DemuxType(d, K, R) ==
  /\ d.pending \in [DOMAIN d.pending -> Seq(R)]
  /\ DOMAIN d.pending \subseteq K
  /\ d.fifo \in Seq(K \X R)

NoRepeat(s) == \A i, j \in DOMAIN s : s[i] = s[j] => i = j

Before(s, a, b) == \E i, j \in DOMAIN s : i < j /\ s[i] = a /\ s[j] = b

(* No id waits twice, neither in one queue, nor in two, nor in the fifo. *)
NoDuplicates(d) ==
  /\ \A k \in DOMAIN d.pending : NoRepeat(d.pending[k])
  /\ NoRepeat(d.fifo)
  /\ \A e, f \in Elements(d.fifo) : e[2] = f[2] => e = f

(* The fifo names exactly the (key, id) pairs that wait. *)
SameWaiters(d) ==
  /\ \A k \in DOMAIN d.pending : \A id \in Elements(d.pending[k]) :
        <<k, id>> \in Elements(d.fifo)
  /\ \A e \in Elements(d.fifo) : Live(d, e)

(* Each queue lists its ids in the order in which the fifo does. *)
SameOrder(d) ==
  \A k \in DOMAIN d.pending : \A a, b \in Elements(d.pending[k]) :
    Before(d.pending[k], a, b) => Before(d.fifo, <<k, a>>, <<k, b>>)

(* A key without a waiter has no map entry left behind. *)
NoEmptyQueue(d) == \A k \in DOMAIN d.pending : d.pending[k] # <<>>

DemuxOK(d) ==
  /\ NoEmptyQueue(d)
  /\ NoDuplicates(d)
  /\ SameWaiters(d)
  /\ SameOrder(d)
=============================================================================
