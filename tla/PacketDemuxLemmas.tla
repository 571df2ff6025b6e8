------------------------- MODULE PacketDemuxLemmas -------------------------
(***************************************************************************)
(* What the methods of packet_session.rs do to the two indexes, stated     *)
(* once for the proofs about everything that owns a demultiplexer.  K is a *)
(* set of keys, R a set of request ids.                                    *)
(***************************************************************************)
EXTENDS PacketDemux, SequenceTheorems, TLAPS

(* Taking one element out of a sequence (VecDeque::remove by position):    *)
(* its length and its elements.                                            *)
LEMMA DropAtFacts ==
  ASSUME NEW S, NEW s \in Seq(S), NEW p \in DOMAIN s
  PROVE  /\ DropAt(s, p) \in Seq(S)
         /\ Len(DropAt(s, p)) = Len(s) - 1
         /\ DOMAIN DropAt(s, p) = 1 .. (Len(s) - 1)
         /\ \A j \in 1 .. (Len(s) - 1) :
              DropAt(s, p)[j] = IF j < p THEN s[j] ELSE s[j + 1]
<1>1. Len(s) \in Nat /\ DOMAIN s = 1 .. Len(s) /\ p \in 1 .. Len(s)
  OBVIOUS
<1>2. Len(s) - 1 \in Nat
  BY <1>1
<1>3. \A j \in 1 .. (Len(s) - 1) : j \in 1 .. Len(s) /\ j + 1 \in 1 .. Len(s)
  BY <1>1
<1>4. \A j \in 1 .. (Len(s) - 1) : (IF j < p THEN s[j] ELSE s[j + 1]) \in S
  BY <1>1, <1>3
<1>5. DropAt(s, p) \in [1 .. (Len(s) - 1) -> S]
  BY <1>4 DEF DropAt
<1>6. DropAt(s, p) \in Seq(S)
  BY <1>2, <1>5
<1> QED
  BY <1>2, <1>5, <1>6 DEF DropAt

(* retain(|y| y != x) on a VecDeque without repetitions removes x and      *)
(* nothing else, keeps the order of the rest and repeats nothing.          *)
LEMMA WithoutFacts ==
  ASSUME NEW S, NEW s \in Seq(S), NoRepeat(s), NEW x
  PROVE  /\ Without(s, x) \in Seq(S)
         /\ Elements(Without(s, x)) = Elements(s) \ {x}
         /\ NoRepeat(Without(s, x))
         /\ \A a, b : Before(Without(s, x), a, b) <=> Before(s, a, b) /\ a # x /\ b # x
<1>0. Len(s) \in Nat /\ DOMAIN s = 1 .. Len(s)
  OBVIOUS
<1>1. CASE x \notin Elements(s)
  <2>1. Without(s, x) = s
    BY <1>1 DEF Without
  <2>2. \A a, b : Before(s, a, b) => a # x /\ b # x
    BY <1>1 DEF Before, Elements
  <2> QED
    BY <1>1, <2>1, <2>2
<1>2. CASE x \in Elements(s)
  <2> DEFINE p == CHOOSE i \in DOMAIN s : s[i] = x
             w == DropAt(s, p)
             Old(j) == IF j < p THEN j ELSE j + 1
  <2>1. p \in DOMAIN s /\ s[p] = x /\ Without(s, x) = w
    BY <1>2 DEF Elements, Without
  <2>2. /\ w \in Seq(S)
        /\ DOMAIN w = 1 .. (Len(s) - 1)
        /\ \A j \in 1 .. (Len(s) - 1) : w[j] = IF j < p THEN s[j] ELSE s[j + 1]
    BY <2>1, DropAtFacts
  <2> HIDE DEF p, w
  <2>3. \A j \in DOMAIN w : Old(j) \in DOMAIN s /\ Old(j) # p /\ w[j] = s[Old(j)]
    <3> SUFFICES ASSUME NEW j \in DOMAIN w
                 PROVE  Old(j) \in DOMAIN s /\ Old(j) # p /\ w[j] = s[Old(j)]
      OBVIOUS
    <3>1. j \in 1 .. (Len(s) - 1) /\ w[j] = IF j < p THEN s[j] ELSE s[j + 1]
      BY <2>2
    <3>2. CASE j < p
      BY <1>0, <2>1, <3>1, <3>2
    <3>3. CASE ~(j < p)
      BY <1>0, <2>1, <3>1, <3>3
    <3> QED BY <3>2, <3>3
  <2>4. \A i \in DOMAIN s \ {p} : \E j \in DOMAIN w : Old(j) = i
    <3> SUFFICES ASSUME NEW i \in DOMAIN s \ {p}
                 PROVE  \E j \in DOMAIN w : Old(j) = i
      OBVIOUS
    <3>1. CASE i < p
      <4>1. i \in DOMAIN w /\ Old(i) = i
        BY <1>0, <2>1, <2>2, <3>1
      <4> QED BY <4>1
    <3>2. CASE i > p
      <4>1. i - 1 \in DOMAIN w /\ Old(i - 1) = i
        BY <1>0, <2>1, <2>2, <3>2
      <4> QED BY <4>1
    <3> QED BY <1>0, <2>1, <3>1, <3>2
  <2>5. \A i, j \in DOMAIN w : (Old(i) = Old(j) => i = j) /\ (i < j <=> Old(i) < Old(j))
    BY <1>0, <2>1, <2>2
  <2>6. \A i \in DOMAIN s : s[i] = x => i = p
    BY <2>1 DEF NoRepeat
  <2> HIDE DEF Old
  <2>7. Elements(w) = Elements(s) \ {x}
    BY <2>1, <2>3, <2>4, <2>6 DEF Elements
  <2>8. NoRepeat(w)
    BY <2>3, <2>5 DEF NoRepeat
  <2>9. ASSUME NEW a, NEW b
        PROVE  Before(w, a, b) <=> Before(s, a, b) /\ a # x /\ b # x
    <3>1. Before(w, a, b) => Before(s, a, b) /\ a # x /\ b # x
      BY <2>3, <2>5, <2>6 DEF Before
    <3>2. ASSUME Before(s, a, b), a # x, b # x PROVE Before(w, a, b)
      <4>1. PICK i, j \in DOMAIN s : i < j /\ s[i] = a /\ s[j] = b
        BY <3>2 DEF Before
      <4>2. i # p /\ j # p
        BY <3>2, <4>1, <2>1
      <4>3. PICK i2, j2 \in DOMAIN w : Old(i2) = i /\ Old(j2) = j
        BY <2>4, <4>2
      <4> QED
        BY <2>3, <2>5, <4>1, <4>3 DEF Before
    <3> QED BY <3>1, <3>2
  <2> QED
    BY <2>1, <2>2, <2>7, <2>8, <2>9
<1> QED BY <1>1, <1>2

(* push_back of an element that is not in the VecDeque: what it adds, and  *)
(* that it comes after everything else.                                    *)
LEMMA AppendFacts ==
  ASSUME NEW S, NEW s \in Seq(S), NEW x \in S, NoRepeat(s), x \notin Elements(s)
  PROVE  /\ Append(s, x) \in Seq(S)
         /\ Append(s, x) # <<>>
         /\ Elements(Append(s, x)) = Elements(s) \cup {x}
         /\ NoRepeat(Append(s, x))
         /\ \A a, b : Before(Append(s, x), a, b) <=>
                        Before(s, a, b) \/ (a \in Elements(s) /\ b = x)
<1> DEFINE t == Append(s, x)
<1>1. /\ Len(s) \in Nat
      /\ DOMAIN s = 1 .. Len(s)
      /\ t \in Seq(S)
      /\ t # <<>>
      /\ DOMAIN t = 1 .. (Len(s) + 1)
      /\ \A i \in 1 .. Len(s) : t[i] = s[i]
      /\ t[Len(s) + 1] = x
  OBVIOUS
<1> HIDE DEF t
<1>2. DOMAIN t = DOMAIN s \cup {Len(s) + 1} /\ Len(s) + 1 \notin DOMAIN s
  BY <1>1
<1>3. Elements(t) = Elements(s) \cup {x}
  BY <1>1, <1>2 DEF Elements
<1>4. NoRepeat(t)
  BY <1>1, <1>2 DEF NoRepeat, Elements
<1>5. ASSUME NEW a, NEW b
      PROVE  Before(t, a, b) <=> Before(s, a, b) \/ (a \in Elements(s) /\ b = x)
  <2>1. ASSUME Before(t, a, b)
        PROVE  Before(s, a, b) \/ (a \in Elements(s) /\ b = x)
    <3>1. PICK i, j \in DOMAIN t : i < j /\ t[i] = a /\ t[j] = b
      BY <2>1 DEF Before
    <3>2. i \in DOMAIN s /\ s[i] = a
      BY <1>1, <3>1
    <3>3. CASE j \in DOMAIN s
      BY <1>1, <3>1, <3>2, <3>3 DEF Before
    <3>4. CASE j = Len(s) + 1
      BY <1>1, <3>1, <3>2, <3>4 DEF Elements
    <3> QED BY <1>2, <3>1, <3>3, <3>4
  <2>2. Before(s, a, b) => Before(t, a, b)
    BY <1>1, <1>2 DEF Before
  <2>3. ASSUME a \in Elements(s), b = x PROVE Before(t, a, b)
    <3>1. PICK i \in DOMAIN s : s[i] = a
      BY <2>3 DEF Elements
    <3>2. i < Len(s) + 1 /\ i \in DOMAIN t /\ Len(s) + 1 \in DOMAIN t
      BY <1>1, <1>2
    <3> QED BY <1>1, <2>3, <3>1, <3>2 DEF Before
  <2> QED BY <2>1, <2>2, <2>3
<1> QED BY <1>1, <1>3, <1>4, <1>5 DEF t

(* pop_front of a VecDeque without repetitions is the removal of its first *)
(* element.                                                                *)
LEMMA TailFacts ==
  ASSUME NEW S, NEW s \in Seq(S), NoRepeat(s), s # <<>>
  PROVE  Head(s) \in Elements(s) /\ Head(s) = s[1] /\ Tail(s) = Without(s, Head(s))
<1>1. /\ Len(s) \in Nat /\ Len(s) > 0
      /\ DOMAIN s = 1 .. Len(s)
      /\ 1 \in DOMAIN s /\ Head(s) = s[1]
      /\ Tail(s) \in Seq(S)
      /\ Len(Tail(s)) = Len(s) - 1
      /\ \A i \in 1 .. Len(Tail(s)) : Tail(s)[i] = s[i + 1]
  BY HeadTailProperties, EmptySeq
<1>2. Head(s) \in Elements(s)
  BY <1>1 DEF Elements
<1>3. (CHOOSE i \in DOMAIN s : s[i] = Head(s)) = 1
  BY <1>1 DEF NoRepeat
<1>4. Without(s, Head(s)) = DropAt(s, 1)
  BY <1>2, <1>3 DEF Without
<1>5. /\ DropAt(s, 1) \in Seq(S)
      /\ Len(DropAt(s, 1)) = Len(s) - 1
      /\ \A i \in 1 .. (Len(s) - 1) : DropAt(s, 1)[i] = s[i + 1]
  <2>1. \A i \in 1 .. (Len(s) - 1) : ~(i < 1)
    BY <1>1
  <2> QED BY <1>1, <2>1, DropAtFacts
<1>6. DropAt(s, 1) = Tail(s)
  BY <1>1, <1>5, SeqEqual
<1> QED BY <1>1, <1>2, <1>4, <1>6

-----------------------------------------------------------------------------
(* The queue of a key (pending.get(key), or none) is a queue of request    *)
(* ids without repetitions.                                                *)
LEMMA QueueType ==
  ASSUME NEW K, NEW R, NEW d, DemuxType(d, K, R), DemuxOK(d), NEW k
  PROVE  Queue(d, k) \in Seq(R) /\ NoRepeat(Queue(d, k))
<1>1. CASE k \in DOMAIN d.pending
  BY <1>1 DEF Queue, DemuxType, DemuxOK, NoDuplicates
<1>2. CASE k \notin DOMAIN d.pending
  <2>1. Queue(d, k) = <<>> /\ <<>> \in Seq(R) /\ DOMAIN <<>> = {}
    BY <1>2 DEF Queue
  <2> QED BY <2>1 DEF NoRepeat
<1> QED BY <1>1, <1>2

(* The fifo entries deliver_next would not skip are those whose id is      *)
(* queued under their key.                                                 *)
LEMMA LiveIsPending ==
  ASSUME NEW K, NEW R, NEW d, DemuxType(d, K, R), DemuxOK(d), NEW k, NEW id
  PROVE  id \in Elements(Queue(d, k)) <=> <<k, id>> \in Elements(d.fifo)
<1>1. ASSUME id \in Elements(Queue(d, k)) PROVE <<k, id>> \in Elements(d.fifo)
  <2>1. k \in DOMAIN d.pending
    <3>1. Elements(<<>>) = {}
      BY DEF Elements
    <3> QED BY <1>1, <3>1 DEF Queue
  <2> QED BY <1>1, <2>1 DEF Queue, DemuxOK, SameWaiters
<1>2. ASSUME <<k, id>> \in Elements(d.fifo) PROVE id \in Elements(Queue(d, k))
  <2>1. Live(d, <<k, id>>)
    BY <1>2 DEF DemuxOK, SameWaiters
  <2> QED BY <2>1 DEF Live
<1> QED BY <1>1, <1>2

(* SameOrder said of Queue instead of pending: each key's ids are queued   *)
(* in the order in which the fifo lists them.                              *)
LEMMA OrderOfQueue ==
  ASSUME NEW d, DemuxOK(d), NEW k, NEW a, NEW b, Before(Queue(d, k), a, b)
  PROVE  Before(d.fifo, <<k, a>>, <<k, b>>)
<1>1. a \in Elements(Queue(d, k)) /\ b \in Elements(Queue(d, k))
  BY DEF Before, Elements
<1>2. k \in DOMAIN d.pending /\ Queue(d, k) = d.pending[k]
  <2>1. Elements(<<>>) = {}
    BY DEF Elements
  <2> QED BY <1>1, <2>1 DEF Queue
<1> QED BY <1>1, <1>2 DEF DemuxOK, SameOrder

(* What replacing one queue and the fifo leaves of a state. *)
OneQueueChanged(e, d, K, R, k, q, f) ==
  /\ DemuxType(e, K, R)
  /\ NoEmptyQueue(e)
  /\ e.fifo = f
  /\ Queue(e, k) = q
  /\ \A x : x # k => Queue(e, x) = Queue(d, x)
  /\ \A x \in DOMAIN e.pending : e.pending[x] = Queue(e, x)

(* Replacing one queue (and dropping an emptied one from the map,          *)
(* packet_session.rs:71-73) changes no other queue and keeps the types.    *)
LEMMA UpdatedFacts ==
  ASSUME NEW K, NEW R, NEW d, DemuxType(d, K, R), NoEmptyQueue(d),
         NEW k \in K, NEW q \in Seq(R), NEW f \in Seq(K \X R)
  PROVE  OneQueueChanged(Updated(d, k, q, f), d, K, R, k, q, f)
<1> DEFINE e == Updated(d, k, q, f)
<1>1. e.fifo = f
  BY DEF Updated
<1>2. CASE q = <<>>
  <2>1. e.pending = [x \in DOMAIN d.pending \ {k} |-> d.pending[x]]
    BY <1>2 DEF Updated
  <2> HIDE DEF e
  <2> QED BY <1>1, <1>2, <2>1 DEF DemuxType, NoEmptyQueue, Queue, OneQueueChanged, e
<1>3. CASE q # <<>>
  <2>1. e.pending = [x \in DOMAIN d.pending \cup {k} |-> IF x = k THEN q ELSE d.pending[x]]
    BY <1>3 DEF Updated
  <2> HIDE DEF e
  <2> QED BY <1>1, <1>3, <2>1 DEF DemuxType, NoEmptyQueue, Queue, OneQueueChanged, e
<1> QED BY <1>2, <1>3

(* A new PacketSessionDemux has its indexes in agreement.                  *)
LEMMA EmptyDemuxFacts ==
  ASSUME NEW K, NEW R
  PROVE  /\ DemuxType(EmptyDemux, K, R)
         /\ DemuxOK(EmptyDemux)
         /\ Elements(EmptyDemux.fifo) = {}
<1>1. EmptyDemux.fifo = <<>> /\ DOMAIN EmptyDemux.pending = {}
  BY DEF EmptyDemux
<1>2. Elements(EmptyDemux.fifo) = {}
  BY <1>1 DEF Elements
<1>3. DemuxType(EmptyDemux, K, R)
  BY <1>1 DEF DemuxType, EmptyDemux
<1> QED
  BY <1>1, <1>2, <1>3
     DEF DemuxOK, NoEmptyQueue, NoDuplicates, SameWaiters, SameOrder, NoRepeat

(* register keeps the indexes in agreement when the id is new, and puts it *)
(* last in its queue and in the fifo.                                      *)
LEMMA RegisterFacts ==
  ASSUME NEW K, NEW R, NEW d, DemuxType(d, K, R), DemuxOK(d),
         NEW k \in K, NEW id \in R,
         \A x \in Elements(d.fifo) : x[2] # id
  PROVE  /\ DemuxType(register(d, k, id), K, R)
         /\ DemuxOK(register(d, k, id))
         /\ register(d, k, id).fifo = Append(d.fifo, <<k, id>>)
         /\ Elements(register(d, k, id).fifo) = Elements(d.fifo) \cup {<<k, id>>}
<1> DEFINE q == Queue(d, k)
           q2 == Append(q, id)
           f2 == Append(d.fifo, <<k, id>>)
           e == register(d, k, id)
<1>1. q \in Seq(R) /\ NoRepeat(q) /\ d.fifo \in Seq(K \X R) /\ NoRepeat(d.fifo)
  BY QueueType DEF DemuxType, DemuxOK, NoDuplicates
<1>2. <<k, id>> \notin Elements(d.fifo) /\ <<k, id>> \in K \X R
  OBVIOUS
<1>3. id \notin Elements(q)
  BY <1>2, LiveIsPending
<1>4. /\ q2 \in Seq(R)
      /\ Elements(q2) = Elements(q) \cup {id}
      /\ NoRepeat(q2)
      /\ \A a, b : Before(q2, a, b) <=> Before(q, a, b) \/ (a \in Elements(q) /\ b = id)
  BY <1>1, <1>3, AppendFacts
<1>5. /\ f2 \in Seq(K \X R)
      /\ Elements(f2) = Elements(d.fifo) \cup {<<k, id>>}
      /\ NoRepeat(f2)
      /\ \A a, b : Before(f2, a, b) <=>
           Before(d.fifo, a, b) \/ (a \in Elements(d.fifo) /\ b = <<k, id>>)
  BY <1>1, <1>2, AppendFacts
<1>6. e = Updated(d, k, q2, f2) /\ NoEmptyQueue(d)
  BY DEF register, DemuxOK
<1> HIDE DEF q2, f2, e
<1>7. /\ DemuxType(e, K, R)
      /\ NoEmptyQueue(e)
      /\ e.fifo = f2
      /\ Queue(e, k) = q2
      /\ \A x : x # k => Queue(e, x) = Queue(d, x)
      /\ \A x \in DOMAIN e.pending : e.pending[x] = Queue(e, x)
  <2>1. q2 \in Seq(R) /\ f2 \in Seq(K \X R)
    BY <1>4, <1>5
  <2>2. OneQueueChanged(e, d, K, R, k, q2, f2)
    BY <1>6, <2>1, UpdatedFacts
  <2> QED BY <2>2 DEF OneQueueChanged
<1>8. \A x, i : i \in Elements(Queue(d, x)) <=> <<x, i>> \in Elements(d.fifo)
  BY LiveIsPending
<1>9. NoDuplicates(e)
  <2>1. \A x \in DOMAIN e.pending : NoRepeat(e.pending[x])
    BY <1>4, <1>7, QueueType
  <2>2. \A x, y \in Elements(f2) : x[2] = y[2] => x = y
    BY <1>5 DEF DemuxOK, NoDuplicates
  <2> QED BY <1>5, <1>7, <2>1, <2>2 DEF NoDuplicates
<1>10. SameWaiters(e)
  <2>1. ASSUME NEW x, NEW i
        PROVE  i \in Elements(Queue(e, x)) <=> <<x, i>> \in Elements(f2)
    <3>1. CASE x = k
      BY <1>4, <1>5, <1>7, <1>8, <3>1
    <3>2. CASE x # k
      BY <1>5, <1>7, <1>8, <3>2
    <3> QED BY <3>1, <3>2
  <2>2. \A x \in Elements(f2) : x = <<x[1], x[2]>>
    <3>1. \A x \in Elements(f2) : x \in K \X R
      BY <1>5 DEF Elements
    <3> QED BY <3>1
  <2> QED BY <1>7, <2>1, <2>2 DEF SameWaiters, Live
<1>11. SameOrder(e)
  <2> SUFFICES ASSUME NEW x \in DOMAIN e.pending, NEW a, NEW b,
                      Before(Queue(e, x), a, b)
               PROVE  Before(f2, <<x, a>>, <<x, b>>)
    BY <1>7 DEF SameOrder
  <2>1. \A y, u, v : Before(Queue(d, y), u, v) => Before(d.fifo, <<y, u>>, <<y, v>>)
    BY OrderOfQueue
  <2>2. CASE x # k
    BY <1>5, <1>7, <2>1, <2>2
  <2>3. CASE x = k
    <3>1. Before(q, a, b) \/ (a \in Elements(q) /\ b = id)
      BY <1>4, <1>7, <2>3
    <3>2. CASE Before(q, a, b)
      BY <1>5, <2>1, <2>3, <3>2
    <3>3. CASE a \in Elements(q) /\ b = id
      BY <1>5, <1>8, <2>3, <3>3
    <3> QED BY <3>1, <3>2, <3>3
  <2> QED BY <2>2, <2>3
<1> QED BY <1>5, <1>7, <1>9, <1>10, <1>11 DEF DemuxOK, f2, e

(* remove_by_id keeps the indexes in agreement, and takes exactly one      *)
(* (key, id) pair out of both.                                             *)
LEMMA RemoveFacts ==
  ASSUME NEW K, NEW R, NEW d, DemuxType(d, K, R), DemuxOK(d),
         NEW k \in K, NEW id
  PROVE  /\ DemuxType(remove_by_id(d, k, id), K, R)
         /\ DemuxOK(remove_by_id(d, k, id))
         /\ remove_by_id(d, k, id).fifo = Without(d.fifo, <<k, id>>)
         /\ Elements(remove_by_id(d, k, id).fifo) = Elements(d.fifo) \ {<<k, id>>}
<1> DEFINE q == Queue(d, k)
           q2 == Without(q, id)
           f2 == Without(d.fifo, <<k, id>>)
           e == remove_by_id(d, k, id)
<1>1. q \in Seq(R) /\ NoRepeat(q) /\ d.fifo \in Seq(K \X R) /\ NoRepeat(d.fifo)
  BY QueueType DEF DemuxType, DemuxOK, NoDuplicates
<1>4. /\ q2 \in Seq(R)
      /\ Elements(q2) = Elements(q) \ {id}
      /\ NoRepeat(q2)
      /\ \A a, b : Before(q2, a, b) <=> Before(q, a, b) /\ a # id /\ b # id
  BY <1>1, WithoutFacts
<1>5. /\ f2 \in Seq(K \X R)
      /\ Elements(f2) = Elements(d.fifo) \ {<<k, id>>}
      /\ NoRepeat(f2)
      /\ \A a, b : Before(f2, a, b) <=>
           Before(d.fifo, a, b) /\ a # <<k, id>> /\ b # <<k, id>>
  BY <1>1, WithoutFacts
<1>6. e = Updated(d, k, q2, f2) /\ NoEmptyQueue(d)
  BY DEF remove_by_id, DemuxOK
<1> HIDE DEF q2, f2, e
<1>7. /\ DemuxType(e, K, R)
      /\ NoEmptyQueue(e)
      /\ e.fifo = f2
      /\ Queue(e, k) = q2
      /\ \A x : x # k => Queue(e, x) = Queue(d, x)
      /\ \A x \in DOMAIN e.pending : e.pending[x] = Queue(e, x)
  <2>1. q2 \in Seq(R) /\ f2 \in Seq(K \X R)
    BY <1>4, <1>5
  <2>2. OneQueueChanged(e, d, K, R, k, q2, f2)
    BY <1>6, <2>1, UpdatedFacts
  <2> QED BY <2>2 DEF OneQueueChanged
<1>8. \A x, i : i \in Elements(Queue(d, x)) <=> <<x, i>> \in Elements(d.fifo)
  BY LiveIsPending
<1>9. NoDuplicates(e)
  <2>1. \A x \in DOMAIN e.pending : NoRepeat(e.pending[x])
    BY <1>4, <1>7, QueueType
  <2>2. \A x, y \in Elements(f2) : x[2] = y[2] => x = y
    BY <1>5 DEF DemuxOK, NoDuplicates
  <2> QED BY <1>5, <1>7, <2>1, <2>2 DEF NoDuplicates
<1>10. SameWaiters(e)
  <2>1. ASSUME NEW x, NEW i
        PROVE  i \in Elements(Queue(e, x)) <=> <<x, i>> \in Elements(f2)
    <3>1. CASE x = k
      BY <1>4, <1>5, <1>7, <1>8, <3>1
    <3>2. CASE x # k
      BY <1>5, <1>7, <1>8, <3>2
    <3> QED BY <3>1, <3>2
  <2>2. \A x \in Elements(f2) : x = <<x[1], x[2]>>
    <3>1. \A x \in Elements(f2) : x \in K \X R
      BY <1>5 DEF Elements
    <3> QED BY <3>1
  <2> QED BY <1>7, <2>1, <2>2 DEF SameWaiters, Live
<1>11. SameOrder(e)
  <2> SUFFICES ASSUME NEW x \in DOMAIN e.pending, NEW a, NEW b,
                      Before(Queue(e, x), a, b)
               PROVE  Before(f2, <<x, a>>, <<x, b>>)
    BY <1>7 DEF SameOrder
  <2>1. Before(Queue(d, x), a, b) /\ <<x, a>> # <<k, id>> /\ <<x, b>> # <<k, id>>
    <3>1. CASE x = k
      BY <1>4, <1>7, <3>1
    <3>2. CASE x # k
      BY <1>7, <3>2
    <3> QED BY <3>1, <3>2
  <2>2. Before(d.fifo, <<x, a>>, <<x, b>>)
    BY <2>1, OrderOfQueue
  <2> QED BY <1>5, <2>1, <2>2
<1> QED BY <1>5, <1>7, <1>9, <1>10, <1>11 DEF DemuxOK, f2, e

(* deliver is the removal of the oldest waiter of the key. *)
LEMMA DeliverIsRemove ==
  ASSUME NEW K, NEW R, NEW d, DemuxType(d, K, R), DemuxOK(d),
         NEW k, deliverable(d, k)
  PROVE  /\ deliver(d, k) = remove_by_id(d, k, deliver_waiter(d, k))
         /\ <<k, deliver_waiter(d, k)>> \in Elements(d.fifo)
         /\ k \in K
         /\ \A id : /\ <<k, id>> \in Elements(d.fifo)
                    /\ id # deliver_waiter(d, k)
                    => Before(d.fifo, <<k, deliver_waiter(d, k)>>, <<k, id>>)
<1> DEFINE q == d.pending[k]
<1>1. k \in DOMAIN d.pending /\ q \in Seq(R) /\ NoRepeat(q) /\ q # <<>> /\ Queue(d, k) = q
  BY DEF deliverable, DemuxType, DemuxOK, NoDuplicates, NoEmptyQueue, Queue
<1>2. Head(q) \in Elements(q) /\ Head(q) = q[1] /\ Tail(q) = Without(q, Head(q))
  BY <1>1, TailFacts
<1>3. deliver(d, k) = remove_by_id(d, k, deliver_waiter(d, k))
  BY <1>1, <1>2 DEF deliver, remove_by_id, deliver_waiter
<1>4. <<k, deliver_waiter(d, k)>> \in Elements(d.fifo)
  BY <1>1, <1>2, LiveIsPending DEF deliver_waiter
<1>5. ASSUME NEW id, <<k, id>> \in Elements(d.fifo), id # deliver_waiter(d, k)
      PROVE  Before(d.fifo, <<k, deliver_waiter(d, k)>>, <<k, id>>)
  <2>1. id \in Elements(q)
    BY <1>1, <1>5, LiveIsPending
  <2>2. PICK i \in DOMAIN q : q[i] = id
    BY <2>1 DEF Elements
  <2>3. 1 \in DOMAIN q /\ 1 < i
    BY <1>1, <1>2, <1>5, <2>2 DEF deliver_waiter
  <2>4. Before(Queue(d, k), Head(q), id)
    BY <1>1, <1>2, <2>2, <2>3 DEF Before
  <2> QED BY <2>4, OrderOfQueue DEF deliver_waiter
<1> QED BY <1>1, <1>3, <1>4, <1>5 DEF DemuxType

(* No entry of the fifo is stale, so deliver_next skips none. *)
LEMMA DeliverNextIsRemove ==
  ASSUME NEW K, NEW R, NEW d, DemuxType(d, K, R), DemuxOK(d),
         LivePositions(d) # {}
  PROVE  /\ 1 \in DOMAIN d.fifo
         /\ FirstLive(d) = 1
         /\ d.fifo[1][1] \in K
         /\ deliver_next_waiter(d) = d.fifo[1][2]
         /\ d.fifo[1] = <<d.fifo[1][1], deliver_next_waiter(d)>>
         /\ d.fifo[1] \in Elements(d.fifo)
         /\ deliver_next(d) = remove_by_id(d, d.fifo[1][1], deliver_next_waiter(d))
<1>1. /\ d.fifo \in Seq(K \X R)
      /\ NoRepeat(d.fifo)
      /\ Len(d.fifo) \in Nat
      /\ DOMAIN d.fifo = 1 .. Len(d.fifo)
  BY DEF DemuxType, DemuxOK, NoDuplicates
<1>2. d.fifo # <<>> /\ 1 \in DOMAIN d.fifo
  BY <1>1 DEF LivePositions
<1>3. d.fifo[1] \in Elements(d.fifo) /\ d.fifo[1] \in K \X R
  BY <1>1, <1>2 DEF Elements
<1>4. LivePositions(d) = DOMAIN d.fifo
  BY DEF LivePositions, DemuxOK, SameWaiters, Elements
<1>5. FirstLive(d) = 1
  <2>1. \A i \in DOMAIN d.fifo : 1 <= i
    BY <1>1
  <2>2. \A i \in DOMAIN d.fifo : (\A j \in DOMAIN d.fifo : i <= j) => i = 1
    BY <1>1, <1>2
  <2> QED BY <1>2, <1>4, <2>1, <2>2 DEF FirstLive
<1>6. deliver_next_waiter(d) = d.fifo[1][2]
  BY <1>5 DEF deliver_next_waiter
<1>7. Tail(d.fifo) = Without(d.fifo, d.fifo[1])
  BY <1>1, <1>2, TailFacts
<1>8. SubSeq(d.fifo, 2, Len(d.fifo)) = Tail(d.fifo)
  BY <1>1, <1>2, TailIsSubSeq
<1>9. Live(d, d.fifo[1])
  BY <1>3 DEF DemuxOK, SameWaiters
<1>10. Queue(d, d.fifo[1][1]) = d.pending[d.fifo[1][1]]
  <2>1. Elements(<<>>) = {}
    BY DEF Elements
  <2> QED BY <1>9, <2>1 DEF Live, Queue
<1>11. FirstLive(d) + 1 = 2
  BY <1>5
<1>12. deliver_next(d) = remove_by_id(d, d.fifo[1][1], d.fifo[1][2])
  <2>1. d.fifo[1] = <<d.fifo[1][1], d.fifo[1][2]>>
    BY <1>3
  <2>2. deliver_next(d) = Updated(d, d.fifo[1][1],
                                  Without(d.pending[d.fifo[1][1]], d.fifo[1][2]),
                                  SubSeq(d.fifo, 2, Len(d.fifo)))
    BY <1>5, <1>11 DEF deliver_next
  <2>3. remove_by_id(d, d.fifo[1][1], d.fifo[1][2]) =
          Updated(d, d.fifo[1][1], Without(d.pending[d.fifo[1][1]], d.fifo[1][2]),
                  Without(d.fifo, d.fifo[1]))
    BY <1>10, <2>1 DEF remove_by_id
  <2> QED BY <1>7, <1>8, <2>2, <2>3
<1> QED BY <1>2, <1>3, <1>5, <1>6, <1>12

(* With nobody waiting deliver_next changes nothing. *)
LEMMA DeliverNextIdle ==
  ASSUME NEW K, NEW R, NEW d, DemuxType(d, K, R), DemuxOK(d),
         LivePositions(d) = {}
  PROVE  /\ DemuxType(deliver_next(d), K, R)
         /\ DemuxOK(deliver_next(d))
         /\ deliver_next(d).fifo = d.fifo
         /\ d.fifo = <<>>
<1>1. d.fifo \in Seq(K \X R)
  BY DEF DemuxType
<1>2. LivePositions(d) = DOMAIN d.fifo
  BY DEF LivePositions, DemuxOK, SameWaiters, Elements
<1>3. d.fifo = <<>>
  <2>1. SUFFICES ASSUME d.fifo # <<>> PROVE FALSE
    OBVIOUS
  <2>2. Len(d.fifo) \in Nat \ {0} /\ DOMAIN d.fifo = 1 .. Len(d.fifo)
    BY <1>1, <2>1, EmptySeq
  <2>3. 1 \in DOMAIN d.fifo
    BY <2>2
  <2>4. DOMAIN d.fifo = {}
    BY <1>2
  <2> QED BY <2>3, <2>4
<1>4. deliver_next(d) = [pending |-> d.pending, fifo |-> <<>>]
  BY DEF deliver_next
<1>5. deliver_next(d).pending = d.pending /\ deliver_next(d).fifo = d.fifo
  BY <1>3, <1>4
<1> QED
  BY <1>3, <1>5 DEF DemuxType, DemuxOK, NoEmptyQueue, NoDuplicates, SameWaiters,
                    SameOrder, Live, Queue

(* The waiters are the ids the fifo lists.                                 *)
LEMMA WaitersFacts ==
  ASSUME NEW K, NEW R, NEW d, DemuxType(d, K, R), DemuxOK(d)
  PROVE  /\ \A id : id \in Waiters(d) <=> \E e \in Elements(d.fifo) : e[2] = id
         /\ \A e \in Elements(d.fifo) : e \in K \X R
<1>1. \A e \in Elements(d.fifo) : e \in K \X R
  BY DEF DemuxType, Elements
<1>2. ASSUME NEW id \in Waiters(d) PROVE \E e \in Elements(d.fifo) : e[2] = id
  <2>1. PICK k \in DOMAIN d.pending : id \in Elements(d.pending[k])
    BY DEF Waiters
  <2>2. <<k, id>> \in Elements(d.fifo) /\ <<k, id>>[2] = id
    BY <2>1 DEF DemuxOK, SameWaiters
  <2> QED BY <2>2
<1>3. ASSUME NEW e \in Elements(d.fifo) PROVE e[2] \in Waiters(d)
  <2>1. e[2] \in Elements(Queue(d, e[1]))
    BY DEF DemuxOK, SameWaiters, Live
  <2>2. Elements(<<>>) = {}
    BY DEF Elements
  <2> QED BY <2>1, <2>2 DEF Queue, Waiters
<1> QED BY <1>1, <1>2, <1>3
=============================================================================
