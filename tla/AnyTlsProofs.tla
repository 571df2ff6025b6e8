---------------------------- MODULE AnyTlsProofs ----------------------------
(***************************************************************************)
(* AnyTLS, for any number of calls, clients, sessions and streams and any  *)
(* traffic.  A behaviour is of one level, so each has its own inductive    *)
(* invariant: SessionInv says what one session owes its streams, PoolInv   *)
(* whom a session belongs to and in which order a deque has them.          *)
(***************************************************************************)
EXTENDS AnyTls, FiniteSetTheorems, SequenceTheorems, WellFoundedInduction, TLAPS

-----------------------------------------------------------------------------
(* The frames of a session, written or still in the channel. *)
Item == [cmd : {"SYN", "PUSH", "OVERSIZE", "FIN", "HEART", "CLOSE"}, id : Nat]

Sent == wire \o wq

FramesIn(s, i) == { n \in 1 .. Len(s) : s[n].id = i }

WellFormed(s, i) ==
  \A n \in FramesIn(s, i) :
    /\ s[n].cmd = "SYN" <=> \A m \in FramesIn(s, i) : n <= m
    /\ s[n].cmd = "FIN" => \A m \in FramesIn(s, i) : m <= n

(* The next frame of a stream, which has no FIN yet.                       *)
LEMMA AppendWellFormed ==
  ASSUME NEW s \in Seq(Item), NEW f \in Item, NEW i, WellFormed(s, i),
         f.id = i => /\ f.cmd = "SYN" <=> FramesIn(s, i) = {}
                     /\ \A n \in FramesIn(s, i) : s[n].cmd # "FIN"
  PROVE  WellFormed(Append(s, f), i)
<1> DEFINE t == Append(s, f)
<1>1. /\ Len(s) \in Nat /\ Len(t) = Len(s) + 1
      /\ \A n \in 1 .. Len(s) : t[n] = s[n]
      /\ t[Len(t)] = f
  BY AppendProperties, LenProperties
<1> HIDE DEF t
<1>2. CASE f.id = i
  <2>1. FramesIn(t, i) = FramesIn(s, i) \cup {Len(t)}
    BY <1>1, <1>2 DEF FramesIn
  <2>2. \A n \in FramesIn(s, i) : n \in 1 .. Len(s) /\ n < Len(t) /\ t[n] = s[n]
    BY <1>1 DEF FramesIn
  <2>3. ASSUME NEW n \in FramesIn(s, i)
        PROVE  /\ t[n].cmd = "SYN" <=> \A m \in FramesIn(t, i) : n <= m
               /\ t[n].cmd # "FIN"
    <3>1. t[n] = s[n] /\ n <= Len(t)
      BY <1>1, <2>2
    <3> QED BY <1>2, <2>1, <3>1 DEF WellFormed
  <2>4. f.cmd = "SYN" <=> \A m \in FramesIn(t, i) : Len(t) <= m
    <3>1. CASE FramesIn(s, i) = {}
      BY <1>1, <1>2, <2>1, <3>1
    <3>2. CASE FramesIn(s, i) # {}
      <4>1. PICK n \in FramesIn(s, i) : TRUE
        BY <3>2
      <4>2. ~(Len(t) <= n)
        BY <1>1, <2>2
      <4> QED BY <1>2, <2>1, <3>2, <4>2
    <3> QED BY <3>1, <3>2
  <2>5. \A m \in FramesIn(t, i) : m <= Len(t)
    BY <1>1 DEF FramesIn
  <2> QED BY <1>1, <2>1, <2>3, <2>4, <2>5 DEF WellFormed, t
<1>3. CASE f.id # i
  <2>1. FramesIn(t, i) = FramesIn(s, i)
    BY <1>1, <1>3 DEF FramesIn
  <2>2. \A n \in FramesIn(s, i) : t[n] = s[n]
    BY <1>1 DEF FramesIn
  <2> QED BY <2>1, <2>2 DEF WellFormed, t
<1> QED BY <1>2, <1>3

(* What has been written is the beginning of what was sent.                *)
LEMMA PrefixWellFormed ==
  ASSUME NEW s \in Seq(Item), NEW q \in Seq(Item), NEW i, WellFormed(s \o q, i)
  PROVE  /\ WellFormed(s, i)
         /\ FramesIn(s, i) \subseteq FramesIn(s \o q, i)
         /\ \A n \in FramesIn(s, i) : s[n] = (s \o q)[n]
<1> DEFINE t == s \o q
<1>1. /\ Len(s) \in Nat /\ Len(q) \in Nat /\ Len(t) = Len(s) + Len(q)
      /\ \A n \in 1 .. Len(s) : t[n] = s[n]
  BY ConcatProperties, LenProperties
<1> HIDE DEF t
<1>2. /\ FramesIn(s, i) \subseteq FramesIn(t, i)
      /\ \A n \in FramesIn(s, i) : t[n] = s[n] /\ n \in 1 .. Len(s)
  BY <1>1 DEF FramesIn
<1>3. \A m \in FramesIn(t, i) : m \in Nat /\ (m \in FramesIn(s, i) \/ m > Len(s))
  BY <1>1 DEF FramesIn
<1>4. WellFormed(s, i)
  <2> SUFFICES ASSUME NEW n \in FramesIn(s, i)
               PROVE  /\ s[n].cmd = "SYN" <=> \A m \in FramesIn(s, i) : n <= m
                      /\ s[n].cmd = "FIN" => \A m \in FramesIn(s, i) : m <= n
    BY DEF WellFormed
  <2>1. (\A m \in FramesIn(s, i) : n <= m) <=> (\A m \in FramesIn(t, i) : n <= m)
    BY <1>1, <1>2, <1>3
  <2> QED BY <1>2, <2>1 DEF WellFormed, t
<1> QED BY <1>2, <1>4 DEF t

(* A frame goes from the channel to the connection.                        *)
LEMMA WriteKeepsSent ==
  ASSUME NEW s \in Seq(Item), NEW q \in Seq(Item), q # <<>>
  PROVE  /\ Append(s, Head(q)) \in Seq(Item) /\ Tail(q) \in Seq(Item)
         /\ Append(s, Head(q)) \o Tail(q) = s \o q
<1>1. Head(q) \in Item /\ Tail(q) \in Seq(Item) /\ q = <<Head(q)>> \o Tail(q)
  <2>1. Head(q) \in Item /\ Tail(q) \in Seq(Item)
    BY HeadTailProperties
  <2>2. /\ q = SubSeq(q, 1, Len(q))
        /\ SubSeq(q, 1, Len(q)) = <<q[1]>> \o SubSeq(q, 2, Len(q))
        /\ Tail(q) = SubSeq(q, 2, Len(q)) /\ Head(q) = q[1]
    <3>1. Len(q) \in Nat /\ 1 \in 1 .. Len(q) /\ Len(q) \in 1 .. Len(q)
      BY EmptySeq, LenProperties
    <3> QED BY <3>1, SubSeqFull, SubSeqRecursiveFirst, TailIsSubSeq
  <2> QED BY <2>1, <2>2
<1>2. Append(s, Head(q)) = s \o <<Head(q)>> /\ <<Head(q)>> \in Seq(Item)
  BY <1>1, AppendIsConcat
<1> QED BY <1>1, <1>2, ConcatAssociative, AppendProperties

LEMMA QueueAppends ==
  ASSUME NEW s \in Seq(Item), NEW q \in Seq(Item), NEW f \in Item
  PROVE  s \o Append(q, f) = Append(s \o q, f) /\ Append(q, f) \in Seq(Item)
<1>1. /\ Append(q, f) = q \o <<f>> /\ <<f>> \in Seq(Item) /\ s \o q \in Seq(Item)
      /\ Append(s \o q, f) = (s \o q) \o <<f>>
  BY AppendIsConcat, ConcatProperties
<1> QED BY <1>1, ConcatAssociative, AppendProperties

-----------------------------------------------------------------------------
(* One session. *)
Early == {"none", "streams", "synacks"}

SessionType ==
  /\ st \in [Session!Streams -> Early \cup {"open", "failed", "shut", "dropped"}]
  /\ rx \in [Session!Streams -> Seq(Nat)] /\ got \in [Session!Streams -> Seq(Nat)]
  /\ pushed \in [Session!Streams -> Nat]
  /\ wq \in Seq(Item) /\ wire \in Seq(Item)
  /\ writer \in {"running", "stopped"}

(* What was sent for stream i, as far as the write loop was there to take  *)
(* it: nothing before the stream is open, SYN from then on, no FIN as long *)
(* as it is open.                                                          *)
FramesOK(i) ==
  /\ st[i] \in Early \cup {"failed"} => FramesIn(Sent, i) = {}
  /\ st[i] = "open" => \A n \in FramesIn(Sent, i) : Sent[n].cmd # "FIN"
  /\ st[i] = "open" /\ writer = "running" => FramesIn(Sent, i) # {}
  /\ WellFormed(Sent, i)

(* The user has read, and the channel holds, the chunks from the first on. *)
(* While the read loop finds the sender and somebody listens, all of them. *)
ChunksOK(i) ==
  /\ \A n \in 1 .. Len(got[i]) : got[i][n] = n
  /\ \A n \in 1 .. Len(rx[i]) : rx[i][n] = Len(got[i]) + n
  /\ i \in streams /\ Session!Listens(i) => pushed[i] = Len(got[i]) + Len(rx[i])
  /\ st[i] \in Early => pushed[i] = 0 /\ got[i] = <<>> /\ rx[i] = <<>>

(* A stream that has been shut is forgotten, or a task will do it.         *)
EntriesOK(i) ==
  st[i] \in {"shut", "dropped"} =>
    /\ i \in streams => <<i, "streams">> \in cleaning
    /\ i \in synacks => \E m \in {"streams", "synacks"} : <<i, m>> \in cleaning

SessionInv ==
  /\ SessionType
  /\ \A i \in Session!Streams : FramesOK(i) /\ ChunksOK(i) /\ EntriesOK(i)

LEMMA StreamIds == Session!Streams \subseteq Nat \ {0} /\ 0 \notin Session!Streams
BY AnyTlsAssumption DEF Session!SessionAssumption, Session!Streams

(* Nothing is queued, or the channel is dropped.                           *)
LEMMA NothingSent ==
  ASSUME SessionType, NEW i \in Session!Streams, FramesOK(i),
         \/ Sent' = Sent /\ writer' = writer
         \/ Sent' = wire /\ writer' = "stopped",
         \/ st'[i] = st[i]
         \/ st[i] \in Early /\ st'[i] \in Early \cup {"failed"}
         \/ st'[i] \in {"shut", "dropped"}
  PROVE  FramesOK(i)'
<1>1. PICK s \in Seq(Item) : s = wire
  BY DEF SessionType
<1>2. PICK q \in Seq(Item) : q = wq
  BY DEF SessionType
<1>3. PICK t : t = Sent
  OBVIOUS
<1>4. /\ WellFormed(s, i) /\ FramesIn(s, i) \subseteq FramesIn(t, i)
      /\ \A n \in FramesIn(s, i) : s[n] = t[n]
  <2>1. t = s \o q
    BY <1>1, <1>2, <1>3 DEF Sent
  <2>2. WellFormed(t, i)
    BY <1>3 DEF FramesOK
  <2> HIDE DEF Item
  <2> QED BY <2>1, <2>2, PrefixWellFormed
<1>5. CASE Sent' = Sent /\ writer' = writer
  BY <1>5 DEF FramesOK, Early
<1>6. CASE Sent' = s /\ writer' = "stopped"
  BY <1>3, <1>4, <1>6 DEF FramesOK, Early
<1> QED BY <1>1, <1>5, <1>6

(* One frame is queued.                                                    *)
LEMMA FrameSent ==
  ASSUME SessionType, NEW i \in Session!Streams, FramesOK(i), NEW f \in Item,
         Sent' = Append(Sent, f), writer = "running", writer' = "running",
         f.id # i => st'[i] = st[i],
         f.id = i => \/ st[i] = "synacks" /\ f.cmd = "SYN" /\ st'[i] = "open"
                     \/ st[i] = "open" /\ f.cmd \notin {"SYN", "FIN"} /\ st'[i] = "open"
                     \/ st[i] = "open" /\ f.cmd = "FIN" /\ st'[i] \in {"shut", "dropped"}
  PROVE  FramesOK(i)'
<1>1. PICK t \in Seq(Item) : t = Sent
  BY ConcatProperties DEF SessionType, Sent
<1>2. PICK u : u = Append(t, f)
  OBVIOUS
<1>3. /\ Len(t) \in Nat /\ Len(u) = Len(t) + 1 /\ u[Len(u)] = f
      /\ \A n \in 1 .. Len(t) : u[n] = t[n]
  BY <1>2, AppendProperties, LenProperties
<1>4. WellFormed(u, i)
  BY <1>1, <1>2, AppendWellFormed DEF FramesOK, Early
<1>5. /\ f.id = i => FramesIn(u, i) = FramesIn(t, i) \cup {Len(u)}
      /\ f.id # i => FramesIn(u, i) = FramesIn(t, i)
      /\ \A n \in FramesIn(t, i) : u[n] = t[n]
  BY <1>3 DEF FramesIn
<1>6. Sent' = u
  BY <1>1, <1>2
<1> HIDE DEF Item
<1>7. CASE f.id # i
  BY <1>1, <1>4, <1>5, <1>6, <1>7 DEF FramesOK
<1>8. CASE f.id = i
  BY <1>1, <1>3, <1>4, <1>5, <1>6, <1>8 DEF FramesOK, Early
<1> QED BY <1>7, <1>8

(* What queueing a frame or the end does to what was sent.                 *)
LEMMA QueuedFrame ==
  ASSUME SessionType, NEW f \in Item, wq' = Session!Enqueued(wq, f), wire' = wire
  PROVE  /\ wq' \in Seq(Item)
         /\ writer = "running" => Sent' = Append(Sent, f)
         /\ writer # "running" => Sent' = Sent
BY QueueAppends DEF SessionType, Session!Enqueued, Sent

LEMMA Dropped ==
  ASSUME SessionType, wq' = <<>>, wire' = wire
  PROVE  wq' \in Seq(Item) /\ Sent' = wire
BY ConcatEmptySeq, EmptySeq DEF SessionType, Sent

-----------------------------------------------------------------------------
(* The steps of a session. *)
LEMMA NoChunks ==
  ASSUME NEW i \in Session!Streams, rx'[i] = <<>>, got'[i] = <<>>,
         Session!Listens(i)' \/ st'[i] \in Early => pushed'[i] = 0
  PROVE  ChunksOK(i)'
<1>1. Len(rx'[i]) = 0 /\ Len(got'[i]) = 0
  BY EmptySeq
<1>2. 1 .. 0 = {}
  OBVIOUS
<1> QED BY <1>1, <1>2 DEF ChunksOK

LEMMA ChunksKept ==
  ASSUME SessionType, NEW i \in Session!Streams, ChunksOK(i),
         rx'[i] = rx[i], got'[i] = got[i], pushed'[i] = pushed[i],
         st'[i] \in Early => st[i] \in Early,
         i \in streams' /\ Session!Listens(i)' =>
            (i \in streams /\ Session!Listens(i)) \/ st[i] \in Early
  PROVE  ChunksOK(i)'
<1>1. CASE st[i] \in Early
  BY <1>1, NoChunks DEF ChunksOK
<1>2. CASE st[i] \notin Early
  BY <1>2 DEF ChunksOK
<1> QED BY <1>1, <1>2

LEMMA EntriesKept ==
  ASSUME NEW i \in Session!Streams, EntriesOK(i),
         i \in streams' => i \in streams, i \in synacks' => i \in synacks,
         \A m \in {"streams", "synacks"} : <<i, m>> \in cleaning => <<i, m>> \in cleaning',
         st'[i] \in {"shut", "dropped"} => st[i] \in {"shut", "dropped"}
  PROVE  EntriesOK(i)'
BY DEF EntriesOK

(* Steps that move no chunk and queue nothing.                             *)
LEMMA QuietStep ==
  ASSUME SessionInv, UNCHANGED <<st, rx, got, pushed, wq, wire, writer, cleaning>>,
         streams' \subseteq streams, synacks' \subseteq synacks
  PROVE  SessionInv'
<1>1. SessionType' /\ Sent' = Sent
  BY DEF SessionInv, SessionType, Sent
<1>2. ASSUME NEW i \in Session!Streams PROVE FramesOK(i)' /\ ChunksOK(i)' /\ EntriesOK(i)'
  BY <1>1, NothingSent, ChunksKept, EntriesKept DEF SessionInv, Session!Listens
<1> QED BY <1>1, <1>2 DEF SessionInv

LEMMA ReadLoopQuiet ==
  ASSUME SessionInv, NEW i \in Session!Streams,
         \/ Session!ReadSynack(i) \/ Session!HandleFin(i)
         \/ \E result \in {"ok", "err"} : Session!HandleSynack(i, result)
         \/ \E alert \in BOOLEAN : Session!ReadEnds(alert)
         \/ Session!Closing \/ Session!ReaderEnds
  PROVE  SessionInv'
<1>1. /\ UNCHANGED <<st, rx, got, pushed, wq, wire, writer, cleaning>>
      /\ streams' \subseteq streams /\ synacks' \subseteq synacks
  BY DEF Session!ReadSynack, Session!HandleFin, Session!HandleSynack, Session!ReadEnds,
     Session!Closing, Session!DrainSynacks, Session!ClearStreams, Session!ReaderEnds,
     Session!mapVars, Session!userVars, Session!wireVars
<1> QED BY <1>1, QuietStep

(* A stream is opened, up to its SYN. *)
LEMMA OpensStream ==
  ASSUME SessionInv, NEW x \in Session!Streams,
         Session!OpenStream(x) \/ Session!InsertStream(x)
  PROVE  SessionInv'
<1>1. /\ UNCHANGED <<rx, got, pushed, wq, wire, writer, cleaning, synacks>>
      /\ \/ st[x] = "none" /\ st' = [st EXCEPT ![x] = "streams"] /\ streams' = streams
         \/ /\ st[x] = "streams" /\ st' = [st EXCEPT ![x] = "synacks"]
            /\ streams' = streams \cup {x}
  BY DEF Session!OpenStream, Session!InsertStream, Session!Step, Session!mapVars,
     Session!userVars, Session!wireVars
<1>2. SessionType' /\ Sent' = Sent
  BY <1>1 DEF SessionInv, SessionType, Early, Sent
<1>3. /\ st[x] \in Early /\ st'[x] \in Early
      /\ \A i \in Session!Streams \ {x} : st'[i] = st[i] /\ (i \in streams' <=> i \in streams)
  BY <1>1 DEF SessionInv, SessionType, Early
<1>4. ASSUME NEW i \in Session!Streams PROVE FramesOK(i)' /\ ChunksOK(i)' /\ EntriesOK(i)'
  <2>1. FramesOK(i)'
    BY <1>1, <1>2, <1>3, NothingSent DEF SessionInv
  <2>2. ChunksOK(i)'
    BY <1>1, <1>3, ChunksKept DEF SessionInv, Session!Listens
  <2>3. EntriesOK(i)'
    <3>1. CASE i = x
      BY <1>3, <3>1 DEF EntriesOK, Early
    <3>2. CASE i # x
      BY <1>1, <1>3, <3>2, EntriesKept DEF SessionInv
    <3> QED BY <3>1, <3>2
  <2> QED BY <2>1, <2>2, <2>3
<1> QED BY <1>2, <1>4 DEF SessionInv

LEMMA SendsSyn ==
  ASSUME SessionInv, NEW x \in Session!Streams, Session!InsertSynack(x)
  PROVE  SessionInv'
<1>1. PICK f : f = Session!Frame("SYN", x)
  OBVIOUS
<1>2. f \in Item /\ f.id = x /\ f.cmd = "SYN"
  BY <1>1, StreamIds DEF Item, Session!Frame
<1>3. /\ st[x] = "synacks" /\ wq' = Session!Enqueued(wq, f)
      /\ st' = [st EXCEPT ![x] = IF writer = "running" THEN "open" ELSE "failed"]
      /\ synacks' = synacks \cup {x}
      /\ UNCHANGED <<rx, got, pushed, wire, writer, cleaning, streams>>
  BY <1>1 DEF Session!InsertSynack, Session!Step
<1>4. /\ wq' \in Seq(Item)
      /\ writer = "running" => Sent' = Append(Sent, f)
      /\ writer # "running" => Sent' = Sent
  BY <1>2, <1>3, QueuedFrame DEF SessionInv
<1>5. SessionType'
  BY <1>3, <1>4 DEF SessionInv, SessionType, Early
<1>6. /\ st[x] = "synacks" /\ st'[x] = IF writer = "running" THEN "open" ELSE "failed"
      /\ \A i \in Session!Streams \ {x} : st'[i] = st[i] /\ (i \in synacks' <=> i \in synacks)
  BY <1>3 DEF SessionInv, SessionType
<1>7. ASSUME NEW i \in Session!Streams PROVE FramesOK(i)' /\ ChunksOK(i)' /\ EntriesOK(i)'
  <2>1. FramesOK(i)'
    <3>1. CASE writer = "running"
      BY <1>2, <1>3, <1>4, <1>6, <3>1, FrameSent DEF SessionInv
    <3>2. CASE writer # "running"
      BY <1>3, <1>4, <1>6, <3>2, NothingSent DEF SessionInv, Early
    <3> QED BY <3>1, <3>2
  <2>2. ChunksOK(i)'
    BY <1>3, <1>6, ChunksKept DEF SessionInv, Session!Listens, Early
  <2>3. EntriesOK(i)'
    <3>1. CASE i = x
      BY <1>6, <3>1 DEF EntriesOK
    <3>2. CASE i # x
      BY <1>3, <1>6, <3>2, EntriesKept DEF SessionInv
    <3> QED BY <3>1, <3>2
  <2> QED BY <2>1, <2>2, <2>3
<1> QED BY <1>5, <1>7 DEF SessionInv

(* Chunks, heartbeats and the pool's Close go to the channel.              *)
LEMMA Queues ==
  ASSUME SessionInv, NEW f \in Item, f.cmd \notin {"SYN", "FIN"},
         \A i \in Session!Streams : f.id = i => st[i] = "open",
         wq' = Session!Enqueued(wq, f),
         UNCHANGED <<st, rx, got, pushed, wire, writer, cleaning, streams, synacks>>
  PROVE  SessionInv'
<1>1. /\ wq' \in Seq(Item)
      /\ writer = "running" => Sent' = Append(Sent, f)
      /\ writer # "running" => Sent' = Sent
  BY QueuedFrame DEF SessionInv
<1>2. SessionType'
  BY <1>1 DEF SessionInv, SessionType
<1>3. ASSUME NEW i \in Session!Streams PROVE FramesOK(i)' /\ ChunksOK(i)' /\ EntriesOK(i)'
  <2>1. FramesOK(i)'
    BY <1>1, FrameSent, NothingSent DEF SessionInv
  <2>2. ChunksOK(i)' /\ EntriesOK(i)'
    BY ChunksKept, EntriesKept DEF SessionInv, Session!Listens
  <2> QED BY <2>1, <2>2
<1> QED BY <1>2, <1>3 DEF SessionInv

LEMMA WritesData ==
  ASSUME SessionInv, NEW x \in Session!Streams,
         Session!WriteData(x) \/ Session!HandleHeartbeat \/ Session!LeavePool
  PROVE  SessionInv'
<1>1. UNCHANGED <<st, rx, got, pushed, wire, writer, cleaning, streams, synacks>>
  BY DEF Session!WriteData, Session!HandleHeartbeat, Session!LeavePool,
     Session!mapVars, Session!userVars, Session!wireVars
<1>2. \/ wq' = wq
      \/ \E f \in Item : /\ f.cmd \notin {"SYN", "FIN"} /\ wq' = Session!Enqueued(wq, f)
                         /\ f.id = 0 \/ (f.id = x /\ st[x] = "open")
  <2>1. CASE Session!WriteData(x)
    <3>1. /\ st[x] = "open"
          /\ \/ wq' = Session!Enqueued(wq, Session!Frame("PUSH", x))
             \/ wq' = Session!Enqueued(wq, Session!Frame("OVERSIZE", x))
      BY <2>1 DEF Session!WriteData
    <3> QED BY <3>1, StreamIds DEF Session!Frame, Item
  <2>2. CASE Session!HandleHeartbeat
    BY <2>2 DEF Session!HandleHeartbeat, Session!Frame, Item
  <2>3. CASE Session!LeavePool
    BY <2>3 DEF Session!LeavePool, Session!Close, Item
  <2> QED BY <2>1, <2>2, <2>3
<1>3. CASE wq' = wq
  BY <1>1, <1>3, QuietStep
<1>4. CASE wq' # wq
  <2>1. PICK f \in Item : /\ f.cmd \notin {"SYN", "FIN"} /\ wq' = Session!Enqueued(wq, f)
                          /\ f.id = 0 \/ (f.id = x /\ st[x] = "open")
    BY <1>2, <1>4
  <2>2. \A i \in Session!Streams : f.id = i => st[i] = "open"
    BY <2>1, StreamIds
  <2> QED BY <1>1, <2>1, <2>2, Queues
<1> QED BY <1>3, <1>4

(* FIN by the one who finds the stream open; the stream is forgotten.      *)
LEMMA EndsStream ==
  ASSUME SessionInv, NEW x \in Session!Streams, Session!Shutdown(x) \/ Session!DropStream(x)
  PROVE  SessionInv'
<1>1. PICK f : f = Session!Frame("FIN", x)
  OBVIOUS
<1>2. f \in Item /\ f.id = x /\ f.cmd = "FIN"
  BY <1>1, StreamIds DEF Item, Session!Frame
<1>3. PICK label \in {"shut", "dropped"} :
        /\ st[x] \in {"open", "shut"} /\ st' = [st EXCEPT ![x] = label]
        /\ cleaning' = cleaning \cup {<<x, "streams">>}
        /\ wq' = IF st[x] = "open" THEN Session!Enqueued(wq, f) ELSE wq
        /\ label = "shut" => rx' = rx /\ got' = got
        /\ label = "dropped" => /\ rx' = [rx EXCEPT ![x] = <<>>]
                                /\ got' = [got EXCEPT ![x] = <<>>]
        /\ UNCHANGED <<pushed, wire, writer, streams, synacks>>
  BY <1>1 DEF Session!Shutdown, Session!DropStream, Session!Step, Session!Spawned,
     Session!Deafened
<1>4. /\ st'[x] = label /\ <<x, "streams">> \in cleaning'
      /\ \A i \in Session!Streams \ {x} :
           st'[i] = st[i] /\ rx'[i] = rx[i] /\ got'[i] = got[i]
      /\ rx'[x] = IF label = "shut" THEN rx[x] ELSE <<>>
      /\ got'[x] = IF label = "shut" THEN got[x] ELSE <<>>
      /\ \A p \in cleaning : p \in cleaning'
  BY <1>3 DEF SessionInv, SessionType
<1>5. /\ wq' \in Seq(Item)
      /\ writer = "running" /\ st[x] = "open" => Sent' = Append(Sent, f)
      /\ ~(writer = "running" /\ st[x] = "open") => Sent' = Sent
  <2>1. CASE st[x] = "open"
    BY <1>2, <1>3, <2>1, QueuedFrame DEF SessionInv
  <2>2. CASE st[x] # "open"
    BY <1>3, <2>2 DEF SessionInv, SessionType, Sent
  <2> QED BY <2>1, <2>2
<1>6. SessionType'
  <2>1. SessionType /\ << >> \in Seq(Nat)
    BY EmptySeq DEF SessionInv
  <2>2. rx' \in [Session!Streams -> Seq(Nat)] /\ got' \in [Session!Streams -> Seq(Nat)]
    <3>1. CASE label = "shut"
      BY <1>3, <2>1, <3>1 DEF SessionType
    <3>2. CASE label = "dropped"
      <4>1. rx' = [rx EXCEPT ![x] = <<>>] /\ got' = [got EXCEPT ![x] = <<>>]
        BY <1>3, <3>2
      <4> QED BY <2>1, <4>1 DEF SessionType
    <3> QED BY <3>1, <3>2
  <2>3. st' \in [Session!Streams -> Early \cup {"open", "failed", "shut", "dropped"}]
    BY <1>3, <2>1 DEF SessionType
  <2> QED BY <1>3, <1>5, <2>1, <2>2, <2>3 DEF SessionType
<1>7. ASSUME NEW i \in Session!Streams PROVE FramesOK(i)' /\ ChunksOK(i)' /\ EntriesOK(i)'
  <2>1. FramesOK(i)'
    <3>1. CASE writer = "running" /\ st[x] = "open"
      BY <1>2, <1>3, <1>4, <1>5, <3>1, FrameSent DEF SessionInv
    <3>2. CASE ~(writer = "running" /\ st[x] = "open")
      BY <1>3, <1>4, <1>5, <3>2, NothingSent DEF SessionInv
    <3> QED BY <3>1, <3>2
  <2>2. ChunksOK(i)'
    <3>1. CASE i = x /\ label = "dropped"
      BY <1>4, <3>1, NoChunks DEF Session!Listens, Early
    <3>2. CASE ~(i = x /\ label = "dropped")
      BY <1>3, <1>4, <3>2, ChunksKept DEF SessionInv, Session!Listens, Early
    <3> QED BY <3>1, <3>2
  <2>3. EntriesOK(i)'
    <3>1. CASE i = x
      BY <1>4, <3>1 DEF EntriesOK
    <3>2. CASE i # x
      BY <1>3, <1>4, <3>2, EntriesKept DEF SessionInv
    <3> QED BY <3>1, <3>2
  <2> QED BY <2>1, <2>2, <2>3
<1> QED BY <1>6, <1>7 DEF SessionInv

LEMMA Forgets ==
  ASSUME SessionInv, NEW x \in Session!Streams, Session!Forgetting(x)
  PROVE  SessionInv'
<1>1. /\ UNCHANGED <<st, rx, got, pushed, wq, wire, writer>>
      /\ \/ /\ streams' = streams \ {x} /\ synacks' = synacks
            /\ cleaning' = (cleaning \ {<<x, "streams">>}) \cup {<<x, "synacks">>}
         \/ /\ streams' = streams /\ synacks' = synacks \ {x}
            /\ cleaning' = cleaning \ {<<x, "synacks">>}
  BY DEF Session!Forgetting, Session!ForgetStream, Session!ForgetSynack, Session!userVars,
     Session!wireVars
<1>2. SessionType' /\ Sent' = Sent
  BY <1>1 DEF SessionInv, SessionType, Sent
<1>3. ASSUME NEW i \in Session!Streams PROVE FramesOK(i)' /\ ChunksOK(i)' /\ EntriesOK(i)'
  <2>1. FramesOK(i)' /\ ChunksOK(i)'
    BY <1>1, <1>2, NothingSent, ChunksKept DEF SessionInv, Session!Listens
  <2>2. EntriesOK(i)'
    <3>1. CASE i = x
      BY <1>1, <3>1 DEF SessionInv, EntriesOK
    <3>2. CASE i # x
      <4>1. \A m \in {"streams", "synacks"} : <<i, m>> \in cleaning => <<i, m>> \in cleaning'
        BY <1>1, <3>2
      <4> QED BY <1>1, <4>1, EntriesKept DEF SessionInv
    <3> QED BY <3>1, <3>2
  <2> QED BY <2>1, <2>2
<1> QED BY <1>2, <1>3 DEF SessionInv

(* The write loop. *)
LEMMA Writes == ASSUME SessionInv, Session!Writer PROVE SessionInv'
<1>1. /\ UNCHANGED <<st, rx, got, pushed, cleaning, streams, synacks>>
      /\ \/ /\ wq # <<>> /\ wire' = Append(wire, Head(wq)) /\ wq' = Tail(wq)
            /\ writer' = writer
         \/ wire' = wire /\ wq' = <<>> /\ writer' = "stopped"
  BY DEF Session!Writer, Session!WriteItem, Session!WriteItemFails, Session!WriterEnds,
     Session!mapVars, Session!userVars
<1>2. /\ wq' \in Seq(Item) /\ wire' \in Seq(Item)
      /\ \/ Sent' = Sent /\ writer' = writer
         \/ Sent' = wire /\ writer' = "stopped"
  <2>1. CASE wq # <<>> /\ wire' = Append(wire, Head(wq)) /\ wq' = Tail(wq) /\ writer' = writer
    <3>1. wire \in Seq(Item) /\ wq \in Seq(Item)
      BY DEF SessionInv, SessionType
    <3> HIDE DEF Item
    <3>2. /\ Append(wire, Head(wq)) \in Seq(Item) /\ Tail(wq) \in Seq(Item)
          /\ Append(wire, Head(wq)) \o Tail(wq) = wire \o wq
      BY <2>1, <3>1, WriteKeepsSent
    <3>3. wire' \in Seq(Item) /\ wq' \in Seq(Item) /\ wire' \o wq' = wire \o wq
      BY <2>1, <3>2, Zenon
    <3> QED BY <2>1, <3>3 DEF Sent
  <2>2. CASE wire' = wire /\ wq' = <<>> /\ writer' = "stopped"
    BY <2>2, Dropped DEF SessionInv, SessionType
  <2> QED BY <1>1, <2>1, <2>2
<1>3. SessionType'
  BY <1>1, <1>2 DEF SessionInv, SessionType
<1>4. ASSUME NEW i \in Session!Streams PROVE FramesOK(i)' /\ ChunksOK(i)' /\ EntriesOK(i)'
  BY <1>1, <1>2, NothingSent, ChunksKept, EntriesKept DEF SessionInv, Session!Listens
<1> QED BY <1>3, <1>4 DEF SessionInv

(* The user reads a chunk, or the end.                                     *)
LEMMA ReadsData ==
  ASSUME SessionInv, NEW x \in Session!Streams, Session!ReadData(x)
  PROVE  SessionInv'
<1>1. /\ UNCHANGED <<st, pushed, wq, wire, writer, cleaning, streams, synacks>>
      /\ \/ /\ rx[x] # <<>>
            /\ got' = [got EXCEPT ![x] = Append(got[x], Head(rx[x]))]
            /\ rx' = [rx EXCEPT ![x] = Tail(rx[x])]
         \/ rx' = rx /\ got' = got
  BY DEF Session!ReadData, Session!wireVars
<1>2. CASE rx' = rx /\ got' = got
  BY <1>1, <1>2, QuietStep
<1>3. CASE /\ rx[x] # <<>>
           /\ got' = [got EXCEPT ![x] = Append(got[x], Head(rx[x]))]
           /\ rx' = [rx EXCEPT ![x] = Tail(rx[x])]
  <2>1. PICK r \in Seq(Nat) : r = rx[x]
    BY DEF SessionInv, SessionType
  <2>2. PICK g \in Seq(Nat) : g = got[x]
    BY DEF SessionInv, SessionType
  <2>3. /\ r # <<>> /\ Head(r) \in Nat /\ Head(r) = r[1]
        /\ Tail(r) \in Seq(Nat) /\ Append(g, Head(r)) \in Seq(Nat)
        /\ Len(r) \in Nat /\ Len(g) \in Nat
        /\ Len(Tail(r)) = Len(r) - 1 /\ Len(Append(g, Head(r))) = Len(g) + 1
    BY <1>3, <2>1, HeadTailProperties, AppendProperties, LenProperties
  <2>4. /\ \A n \in 1 .. Len(Tail(r)) : Tail(r)[n] = r[n + 1]
        /\ \A n \in 1 .. Len(g) : Append(g, Head(r))[n] = g[n]
        /\ Append(g, Head(r))[Len(g) + 1] = Head(r)
    BY <2>3, HeadTailProperties, AppendProperties
  <2>5. PICK rr : rr = Tail(r)
    OBVIOUS
  <2>6. PICK gg : gg = Append(g, Head(r))
    OBVIOUS
  <2>7. /\ rx'[x] = rr /\ got'[x] = gg
        /\ \A i \in Session!Streams \ {x} : rx'[i] = rx[i] /\ got'[i] = got[i]
    BY <1>3, <2>1, <2>2, <2>5, <2>6 DEF SessionInv, SessionType
  <2>8. SessionType' /\ Sent' = Sent
    <3>1. rx' \in [Session!Streams -> Seq(Nat)]
      BY <1>3, <2>1, <2>3 DEF SessionInv, SessionType
    <3>2. got' \in [Session!Streams -> Seq(Nat)]
      BY <1>3, <2>1, <2>2, <2>3 DEF SessionInv, SessionType
    <3> QED BY <1>1, <3>1, <3>2 DEF SessionInv, SessionType, Sent
  <2>9. ChunksOK(x)'
    <3>1. /\ \A n \in 1 .. Len(g) : g[n] = n
          /\ \A n \in 1 .. Len(r) : r[n] = Len(g) + n
          /\ x \in streams /\ Session!Listens(x) => pushed[x] = Len(g) + Len(r)
          /\ st[x] \notin Early
      BY <2>1, <2>2, <2>3 DEF SessionInv, ChunksOK
    <3>2. \A n \in 1 .. Len(gg) : gg[n] = n
      <4>1. Len(r) # 0
        BY <2>3, EmptySeq
      <4>2. Head(r) = Len(g) + 1
        BY <2>3, <3>1, <4>1
      <4> QED BY <2>3, <2>4, <2>6, <3>1, <4>2
    <3>3. \A n \in 1 .. Len(rr) : rr[n] = Len(gg) + n
      <4> SUFFICES ASSUME NEW n \in 1 .. (Len(r) - 1) PROVE Tail(r)[n] = Len(g) + 1 + n
        BY <2>3, <2>5, <2>6
      <4>1. n + 1 \in 1 .. Len(r)
        BY <2>3
      <4> QED BY <2>3, <2>4, <3>1, <4>1
    <3>4. Len(gg) + Len(rr) = Len(g) + Len(r)
      BY <2>3, <2>5, <2>6
    <3> QED BY <1>1, <2>7, <3>1, <3>2, <3>3, <3>4 DEF ChunksOK, Session!Listens
  <2>10. ASSUME NEW i \in Session!Streams PROVE FramesOK(i)' /\ ChunksOK(i)' /\ EntriesOK(i)'
    <3>1. FramesOK(i)' /\ EntriesOK(i)'
      BY <1>1, <2>8, NothingSent, EntriesKept DEF SessionInv
    <3>2. CASE i # x
      BY <1>1, <2>7, <3>1, <3>2, ChunksKept DEF SessionInv, Session!Listens
    <3> QED BY <2>9, <3>1, <3>2
  <2> QED BY <2>8, <2>10 DEF SessionInv
<1> QED BY <1>1, <1>2, <1>3

(* A chunk arrives on a stream whose SYN has been written.                 *)
LEMMA Receives ==
  ASSUME SessionInv, NEW x \in Session!Streams, Session!HandlePush(x)
  PROVE  SessionInv'
<1>1. PICK k \in Nat : k = pushed[x] + 1
  BY DEF SessionInv, SessionType
<1>2. /\ UNCHANGED <<st, got, wq, wire, writer, cleaning, streams, synacks>>
      /\ pushed' = [pushed EXCEPT ![x] = k] /\ pushed'[x] = k
      /\ Session!OnWire(x)
      /\ rx' = IF x \in streams /\ Session!Listens(x)
               THEN [rx EXCEPT ![x] = Append(rx[x], pushed'[x])] ELSE rx
  BY <1>1 DEF Session!HandlePush, Session!userVars, Session!wireVars, SessionInv, SessionType
<1>3. st[x] \notin Early
  <2>1. PICK n \in DOMAIN wire : wire[n].id = x
    BY <1>2 DEF Session!OnWire, Session!Frame
  <2>2. wire \in Seq(Item) /\ wq \in Seq(Item) /\ WellFormed(wire \o wq, x)
    BY DEF SessionInv, SessionType, FramesOK, Sent
  <2>3. n \in FramesIn(wire, x)
    BY <2>1, <2>2, LenProperties DEF FramesIn
  <2>4. n \in FramesIn(Sent, x)
    BY <2>2, <2>3, PrefixWellFormed DEF Sent
  <2> QED BY <2>4 DEF SessionInv, FramesOK
<1>4. PICK r \in Seq(Nat) : r = rx[x]
  BY DEF SessionInv, SessionType
<1>5. PICK g \in Seq(Nat) : g = got[x]
  BY DEF SessionInv, SessionType
<1>6. /\ Append(r, k) \in Seq(Nat) /\ Len(r) \in Nat /\ Len(g) \in Nat
      /\ Len(Append(r, k)) = Len(r) + 1
      /\ \A n \in 1 .. Len(r) : Append(r, k)[n] = r[n]
      /\ Append(r, k)[Len(r) + 1] = k
  BY AppendProperties, LenProperties
<1>7. PICK rr \in Seq(Nat) : rr = Append(r, k)
  BY <1>6
<1>8. /\ rx'[x] = IF x \in streams /\ Session!Listens(x) THEN rr ELSE r
      /\ \A i \in Session!Streams \ {x} : rx'[i] = rx[i] /\ pushed'[i] = pushed[i]
      /\ rx' \in [Session!Streams -> Seq(Nat)]
  <2>1. CASE x \in streams /\ Session!Listens(x)
    <3>1. rx' = [rx EXCEPT ![x] = rr]
      BY <1>2, <1>4, <1>7, <2>1
    <3> QED BY <1>2, <2>1, <3>1 DEF SessionInv, SessionType
  <2>2. CASE ~(x \in streams /\ Session!Listens(x))
    BY <1>2, <1>4, <2>2 DEF SessionInv, SessionType
  <2> QED BY <2>1, <2>2
<1>9. SessionType' /\ Sent' = Sent
  BY <1>2, <1>8 DEF SessionInv, SessionType, Sent
<1>10. ChunksOK(x)'
  <2>1. /\ \A n \in 1 .. Len(g) : g[n] = n
        /\ \A n \in 1 .. Len(r) : r[n] = Len(g) + n
        /\ x \in streams /\ Session!Listens(x) => pushed[x] = Len(g) + Len(r)
    BY <1>4, <1>5, <1>6 DEF SessionInv, ChunksOK
  <2>2. CASE x \in streams /\ Session!Listens(x)
    <3>1. k = Len(g) + Len(r) + 1
      BY <1>1, <1>6, <2>1, <2>2
    <3>2. \A n \in 1 .. Len(rr) : rr[n] = Len(g) + n
      <4> SUFFICES ASSUME NEW n \in 1 .. (Len(r) + 1) PROVE Append(r, k)[n] = Len(g) + n
        BY <1>6, <1>7
      <4>1. CASE n \in 1 .. Len(r)
        BY <1>6, <2>1, <4>1
      <4>2. CASE n = Len(r) + 1
        BY <1>6, <3>1, <4>2
      <4> QED BY <1>6, <4>1, <4>2
    <3>3. Len(g) + Len(rr) = k
      BY <1>6, <1>7, <3>1
    <3>4. got'[x] = g /\ rx'[x] = rr /\ pushed'[x] = k /\ st'[x] \notin Early
      BY <1>2, <1>3, <1>5, <1>8, <2>2
    <3> QED BY <2>1, <3>2, <3>3, <3>4 DEF ChunksOK
  <2>3. CASE ~(x \in streams /\ Session!Listens(x))
    BY <1>2, <1>3, <1>5, <1>8, <2>1, <2>3 DEF ChunksOK, Session!Listens
  <2> QED BY <2>2, <2>3
<1>11. ASSUME NEW i \in Session!Streams PROVE FramesOK(i)' /\ ChunksOK(i)' /\ EntriesOK(i)'
  <2>1. FramesOK(i)' /\ EntriesOK(i)'
    BY <1>2, <1>9, NothingSent, EntriesKept DEF SessionInv
  <2>2. CASE i # x
    BY <1>2, <1>8, <2>1, <2>2, ChunksKept DEF SessionInv, Session!Listens
  <2> QED BY <1>10, <2>1, <2>2
<1> QED BY <1>9, <1>11 DEF SessionInv

LEMMA SessionStep == ASSUME SessionInv, Session!Next PROVE SessionInv'
<1>1. CASE \E i \in Session!Streams :
             Session!User(i) \/ Session!Opening(i) \/ Session!Forgetting(i) \/ Session!Handle(i)
  BY <1>1, OpensStream, ReadLoopQuiet, ReadsData, WritesData, EndsStream, SendsSyn, Forgets,
     Receives DEF Session!User, Session!Opening, Session!Handle
<1>2. CASE \/ Session!HandleHeartbeat \/ Session!LeavePool \/ Session!Closing
           \/ Session!ReaderEnds \/ \E alert \in BOOLEAN : Session!ReadEnds(alert)
  <2>1. PICK x : x \in Session!Streams
    BY AnyTlsAssumption DEF Session!SessionAssumption, Session!Streams
  <2> QED BY <1>2, <2>1, WritesData, ReadLoopQuiet
<1>3. CASE Session!Writer
  BY <1>3, Writes
<1> QED BY <1>1, <1>2, <1>3 DEF Session!Next

LEMMA SessionStart == Session!Init => SessionInv
<1> SUFFICES ASSUME Session!Init PROVE SessionInv
  OBVIOUS
<1>1. SessionType
  BY EmptySeq DEF Session!Init, SessionType, Early
<1>2. Sent = <<>>
  BY <1>1, ConcatEmptySeq DEF Session!Init, SessionType, Sent
<1>3. ASSUME NEW i \in Session!Streams PROVE FramesOK(i) /\ ChunksOK(i) /\ EntriesOK(i)
  <2>1. FramesIn(Sent, i) = {}
    <3>1. Len(<<>>) = 0 /\ 1 .. 0 = {}
      BY EmptySeq
    <3> QED BY <1>2, <3>1 DEF FramesIn
  <2>2. st[i] = "none" /\ rx[i] = <<>> /\ got[i] = <<>> /\ pushed[i] = 0
    BY DEF Session!Init
  <2>3. Len(rx[i]) = 0 /\ Len(got[i]) = 0 /\ 1 .. 0 = {}
    BY <2>2, EmptySeq
  <2> QED BY <2>1, <2>2, <2>3 DEF FramesOK, WellFormed, ChunksOK, EntriesOK
<1> QED BY <1>1, <1>3 DEF SessionInv

(* How reading ends.  A stream from its first insertion until it is shut   *)
(* has its sender, unless the server's FIN or the end of the session has   *)
(* taken it: the removals under way are of streams that are past.          *)
Inserted == {"synacks", "open"}

EndOK(i) ==
  /\ st[i] \in Inserted /\ i \notin streams => ended \/ i \in finned
  /\ outcome[i] = "eof" => st[i] = "shut" \/ ended \/ i \in finned
  /\ <<i, "streams">> \in cleaning => st[i] \in {"shut", "dropped"}

EndsInv ==
  /\ outcome = [i \in Session!Streams |-> outcome[i]]
  /\ reader \in {"drain", "drainEnd", "clear", "clearEnd"} => ended
  /\ \A i \in Session!Streams : EndOK(i)

LEMMA EndsStart == Session!Init => EndsInv
BY DEF Session!Init, EndsInv, EndOK, Inserted

(* A step that leaves the streams where they are.                          *)
LEMMA EndsQuiet ==
  ASSUME EndsInv, UNCHANGED <<st, outcome, cleaning, streams, finned>>,
         ended => ended',
         reader' \in {"drain", "drainEnd", "clear", "clearEnd"} =>
           ended' \/ reader \in {"drain", "drainEnd", "clear", "clearEnd"}
  PROVE  EndsInv'
BY DEF EndsInv, EndOK

(* A step of the user of stream x, or of its removal. *)
LEMMA EndsUser ==
  ASSUME SessionInv, EndsInv, NEW x \in Session!Streams,
         Session!User(x) \/ Session!Opening(x) \/ Session!Forgetting(x)
  PROVE  EndsInv'
<1> USE DEF EndsInv
<1>1. st \in [Session!Streams -> Early \cup {"open", "failed", "shut", "dropped"}]
  BY DEF SessionInv, SessionType
<1>2. CASE \/ Session!OpenStream(x) \/ Session!InsertStream(x) \/ Session!InsertSynack(x)
  <2>1. /\ \/ st[x] = "none" /\ st' = [st EXCEPT ![x] = "streams"] /\ streams' = streams
           \/ /\ st[x] = "streams" /\ st' = [st EXCEPT ![x] = "synacks"]
              /\ streams' = streams \cup {x}
           \/ /\ st[x] = "synacks" /\ streams' = streams
              /\ st' = [st EXCEPT ![x] = "open"] \/ st' = [st EXCEPT ![x] = "failed"]
        /\ UNCHANGED <<outcome, cleaning, finned, ended, reader>>
    BY <1>2 DEF Session!OpenStream, Session!InsertStream, Session!InsertSynack, Session!Step,
       Session!mapVars, Session!userVars, Session!wireVars
  <2>2. ASSUME NEW i \in Session!Streams PROVE EndOK(i)'
    <3>1. CASE i = x
      BY <1>1, <2>1, <3>1 DEF EndOK, Inserted
    <3>2. CASE i # x
      BY <1>1, <2>1, <3>2 DEF EndOK, Inserted
    <3> QED BY <3>1, <3>2
  <2> QED BY <2>1, <2>2
<1>3. CASE Session!ReadSynack(x) \/ Session!ReadData(x)
  <2>1. /\ UNCHANGED <<st, cleaning, streams, finned, ended, reader>>
        /\ \/ outcome' = outcome
           \/ outcome' = [outcome EXCEPT ![x] = IF synack[x] = "err" THEN "refused" ELSE @]
           \/ /\ st[x] \in {"open", "shut"} /\ x \notin streams
              /\ outcome' = [outcome EXCEPT ![x] = "eof"]
    BY <1>3 DEF Session!ReadSynack, Session!ReadData, Session!mapVars, Session!userVars,
       Session!wireVars
  <2>2. ASSUME NEW i \in Session!Streams PROVE EndOK(i)'
    <3>1. CASE i = x
      BY <2>1, <3>1 DEF EndOK, Inserted
    <3>2. CASE i # x
      BY <2>1, <3>2 DEF EndOK
    <3> QED BY <3>1, <3>2
  <2> QED BY <2>1, <2>2
<1>4. CASE Session!WriteData(x)
  BY <1>4, EndsQuiet DEF Session!WriteData, Session!mapVars, Session!userVars
<1>5. CASE Session!Shutdown(x) \/ Session!DropStream(x)
  <2>1. /\ \/ st' = [st EXCEPT ![x] = "shut"] /\ outcome' = outcome
           \/ /\ st' = [st EXCEPT ![x] = "dropped"]
              /\ outcome' = [outcome EXCEPT ![x] = "reading"]
        /\ cleaning' = cleaning \cup {<<x, "streams">>}
        /\ finned' = finned \ {x}
        /\ UNCHANGED <<streams, ended, reader>>
    BY <1>5 DEF Session!Shutdown, Session!DropStream, Session!Step, Session!Spawned,
       Session!Deafened, Session!mapVars, Session!userVars, Session!wireVars
  <2>2. ASSUME NEW i \in Session!Streams PROVE EndOK(i)'
    <3>1. CASE i = x
      BY <1>1, <2>1, <3>1 DEF EndOK, Inserted
    <3>2. CASE i # x
      BY <1>1, <2>1, <3>2 DEF EndOK
    <3> QED BY <3>1, <3>2
  <2> QED BY <2>1, <2>2
<1>6. CASE Session!ForgetStream(x)
  <2>1. /\ <<x, "streams">> \in cleaning /\ streams' = streams \ {x}
        /\ cleaning' = (cleaning \ {<<x, "streams">>}) \cup {<<x, "synacks">>}
        /\ UNCHANGED <<st, outcome, finned, ended, reader>>
    BY <1>6 DEF Session!ForgetStream, Session!userVars, Session!wireVars
  <2>2. ASSUME NEW i \in Session!Streams PROVE EndOK(i)'
    BY <2>1 DEF EndOK, Inserted
  <2> QED BY <2>1, <2>2
<1>7. CASE Session!ForgetSynack(x)
  <2>1. cleaning' \subseteq cleaning /\ UNCHANGED <<st, outcome, streams, finned, ended, reader>>
    BY <1>7 DEF Session!ForgetSynack, Session!userVars, Session!wireVars
  <2> QED BY <2>1 DEF EndOK
<1> QED BY <1>2, <1>3, <1>4, <1>5, <1>6, <1>7 DEF Session!User, Session!Opening,
    Session!Forgetting

(* A frame of the server for stream x.  Its FIN finds no stream that is    *)
(* still to be opened.                                                     *)
LEMMA EndsHandle ==
  ASSUME SessionInv, EndsInv, NEW x \in Session!Streams, Session!Handle(x)
  PROVE  EndsInv'
<1>1. CASE Session!HandlePush(x) \/ \E result \in {"ok", "err"} : Session!HandleSynack(x, result)
  BY <1>1, EndsQuiet DEF Session!HandlePush, Session!HandleSynack, Session!userVars,
     Session!wireVars
<1>2. CASE Session!HandleFin(x)
  <2>1. /\ streams' = streams \ {x}
        /\ finned' = IF st[x] = "open" /\ x \in streams THEN finned \cup {x} ELSE finned
        /\ UNCHANGED <<st, outcome, cleaning, ended, reader>>
    BY <1>2 DEF Session!HandleFin, Session!userVars, Session!wireVars
  <2>2. st[x] # "synacks"
    <3>1. PICK n \in DOMAIN wire : wire[n] = Session!Frame("SYN", x)
      BY <1>2 DEF Session!HandleFin, Session!OnWire
    <3>2. /\ wire \in Seq(Item) /\ wq \in Seq(Item)
          /\ Len(wire) \in Nat /\ Len(wq) \in Nat /\ n \in 1 .. Len(wire)
      BY <3>1, LenProperties DEF SessionInv, SessionType
    <3>3. n \in 1 .. Len(Sent) /\ Sent[n] = wire[n]
      BY <3>2, ConcatProperties DEF Sent
    <3>4. n \in FramesIn(Sent, x)
      BY <3>1, <3>3 DEF FramesIn, Session!Frame
    <3> QED BY <3>4 DEF SessionInv, FramesOK, Early
  <2>3. ASSUME NEW i \in Session!Streams PROVE EndOK(i)'
    BY <2>1, <2>2 DEF EndsInv, EndOK, Inserted
  <2> QED BY <2>1, <2>3 DEF EndsInv
<1> QED BY <1>1, <1>2 DEF Session!Handle

LEMMA EndsStep == ASSUME SessionInv, EndsInv, Session!Next PROVE EndsInv'
<1>1. CASE \E i \in Session!Streams :
             Session!User(i) \/ Session!Opening(i) \/ Session!Forgetting(i) \/ Session!Handle(i)
  BY <1>1, EndsUser, EndsHandle
<1>2. CASE Session!HandleHeartbeat \/ Session!LeavePool \/ Session!Writer \/ Session!ReaderEnds
  BY <1>2, EndsQuiet DEF Session!HandleHeartbeat, Session!LeavePool, Session!Writer,
     Session!WriteItem, Session!WriteItemFails, Session!WriterEnds, Session!ReaderEnds,
     Session!mapVars, Session!userVars, Session!wireVars
<1>3. CASE \E alert \in BOOLEAN : Session!ReadEnds(alert)
  BY <1>3, EndsQuiet DEF Session!ReadEnds, Session!mapVars, Session!userVars, Session!wireVars
<1>4. CASE Session!Closing
  <2>1. ended /\ UNCHANGED <<st, outcome, cleaning, finned, ended>>
    BY <1>4 DEF Session!Closing, Session!DrainSynacks, Session!ClearStreams, EndsInv,
       Session!userVars, Session!wireVars
  <2>2. ASSUME NEW i \in Session!Streams PROVE EndOK(i)'
    BY <2>1 DEF EndsInv, EndOK
  <2> QED BY <2>1, <2>2 DEF EndsInv
<1> QED BY <1>1, <1>2, <1>3, <1>4 DEF Session!Next

(* The three properties of AnyTlsSession.                                  *)
LEMMA SessionProperties ==
  ASSUME SessionInv, EndsInv
  PROVE  Session!NoEntryLeaks /\ Session!DeliveredInOrder /\ Session!WireWellFormed
<1>1. Session!NoEntryLeaks
  BY DEF SessionInv, EntriesOK, Session!NoEntryLeaks
<1>2. Session!DeliveredInOrder
  <2> SUFFICES ASSUME NEW i \in Session!Streams
               PROVE  got[i] \o rx[i] = [n \in 1 .. Len(got[i] \o rx[i]) |-> n]
    BY DEF Session!DeliveredInOrder, EndsInv, EndOK
  <2>1. PICK g \in Seq(Nat) : g = got[i]
    BY DEF SessionInv, SessionType
  <2>2. PICK r \in Seq(Nat) : r = rx[i]
    BY DEF SessionInv, SessionType
  <2>3. /\ \A n \in 1 .. Len(g) : g[n] = n
        /\ \A n \in 1 .. Len(r) : r[n] = Len(g) + n
    BY <2>1, <2>2 DEF SessionInv, ChunksOK
  <2>4. PICK s : s = g \o r
    OBVIOUS
  <2>5. /\ Len(g) \in Nat /\ Len(r) \in Nat /\ Len(s) = Len(g) + Len(r)
        /\ s \in [1 .. Len(s) -> Nat]
        /\ \A n \in 1 .. Len(s) : s[n] = IF n <= Len(g) THEN g[n] ELSE r[n - Len(g)]
    <3>1. g \in Seq(Nat) /\ r \in Seq(Nat)
      BY <2>1, <2>2
    <3>2. Len(g) \in Nat /\ Len(r) \in Nat
      BY <3>1, LenProperties
    <3>3. /\ s \in Seq(Nat) /\ Len(s) = Len(g) + Len(r)
          /\ \A n \in 1 .. Len(g) + Len(r) :
               s[n] = IF n <= Len(g) THEN g[n] ELSE r[n - Len(g)]
      BY <3>1, <2>4, ConcatProperties
    <3>4. s \in [1 .. Len(s) -> Nat]
      BY <3>3, LenProperties
    <3> QED BY <3>2, <3>3, <3>4
  <2>6. \A n \in 1 .. Len(s) : s[n] = n
    <3> SUFFICES ASSUME NEW n \in 1 .. Len(s) PROVE s[n] = n
      OBVIOUS
    <3>1. CASE n <= Len(g)
      BY <2>3, <2>5, <3>1
    <3>2. CASE n > Len(g)
      <4>1. n - Len(g) \in 1 .. Len(r)
        BY <2>5, <3>2
      <4> QED BY <2>3, <2>5, <3>2, <4>1
    <3> QED BY <2>5, <3>1, <3>2
  <2>7. s = [n \in 1 .. Len(s) |-> n]
    BY <2>5, <2>6
  <2> QED BY <2>1, <2>2, <2>4, <2>7
<1>3. Session!WireWellFormed
  <2>1. ASSUME NEW i \in Session!Streams PROVE WellFormed(wire, i)
    BY PrefixWellFormed DEF SessionInv, SessionType, FramesOK, Sent
  <2>2. \A i : Session!FramesOf(i) = FramesIn(wire, i)
    BY LenProperties DEF SessionInv, SessionType, Session!FramesOf, FramesIn
  <2> QED BY <2>1, <2>2 DEF WellFormed, Session!WireWellFormed
<1> QED BY <1>1, <1>2, <1>3

-----------------------------------------------------------------------------
(* The loop of cleanup_idle. *)
Entry == [session : Sessions, expired : BOOLEAN]

(* q has some of the entries of p, in the same order.                      *)
Embeds(h, q, p) ==
  /\ h \in [1 .. Len(q) -> 1 .. Len(p)]
  /\ \A i \in 1 .. Len(q) : q[i] = p[h[i]]
  /\ \A i, j \in 1 .. Len(q) : i < j => h[i] < h[j]

(* Every set of natural numbers has a least one; hence induction.          *)
LEMMA LeastNumber ==
  ASSUME NEW T \in SUBSET Nat, T # {}
  PROVE  \E n \in T : \A m \in T : n <= m
<1> DEFINE R == OpToRel(<, Nat)
<1>1. IsWellFoundedOn(R, Nat)
  BY NatLessThanWellFounded
<1> HIDE DEF R
<1>2. PICK n \in T : \A m \in T : ~(<<m, n>> \in R)
  BY <1>1, WFMin
<1>3. \A m \in T : ~(m < n)
  BY <1>2 DEF R, OpToRel
<1> QED BY <1>3

LEMMA Induction ==
  ASSUME NEW S, 0 \in S, \A n \in Nat : n \in S => n + 1 \in S
  PROVE  \A n \in Nat : n \in S
<1> SUFFICES ASSUME Nat \ S # {} PROVE FALSE
  OBVIOUS
<1>1. PICK n \in Nat \ S : \A m \in Nat \ S : n <= m
  BY LeastNumber
<1>2. n - 1 \in Nat /\ ~(n <= n - 1)
  BY <1>1
<1>3. n - 1 + 1 \in S
  BY <1>1, <1>2
<1> QED BY <1>1, <1>3

LEMMA LastNumber ==
  ASSUME NEW l \in Nat, NEW S, S \subseteq 1 .. l, S # {}
  PROVE  \E n \in S : \A m \in S : m <= n
<1> DEFINE T == { l - m : m \in S }
<1>1. T \in SUBSET Nat /\ T # {}
  <2>1. \A m \in S : l - m \in Nat
    OBVIOUS
  <2> QED BY <2>1
<1>2. PICK k \in T : \A m \in T : k <= m
  <2> HIDE DEF T
  <2> QED BY <1>1, LeastNumber
<1>3. PICK n \in S : k = l - n
  BY <1>2
<1>4. ASSUME NEW m \in S PROVE m <= n
  <2>1. l - n <= l - m
    BY <1>2, <1>3
  <2> QED BY <2>1
<1> QED BY <1>4

(* One turn of the loop: s is what has been kept so far.                   *)
Turn(q, s, n) ==
  IF closed[q[n].session] \/ (q[n].expired /\ Len(s) >= MinIdle) THEN s ELSE Append(s, q[n])

(* f has what is kept after each of the first k turns.                     *)
Turns(f, q, k) == f = [n \in 0 .. k |-> IF n = 0 THEN <<>> ELSE Turn(q, f[n - 1], n)]

LEMMA TurnsExist ==
  ASSUME NEW q, NEW l \in Nat
  PROVE  \E f : Turns(f, q, l)
<1> DEFINE S == { k \in Nat : \E f : Turns(f, q, k) }
<1>1. 0 \in S
  <2> DEFINE f == [n \in 0 .. 0 |-> <<>>]
  <2>1. f = [n \in 0 .. 0 |-> IF n = 0 THEN <<>> ELSE Turn(q, f[n - 1], n)]
    OBVIOUS
  <2> HIDE DEF f
  <2> QED BY <2>1 DEF Turns
<1>2. ASSUME NEW k \in Nat, k \in S PROVE k + 1 \in S
  <2>1. PICK f : Turns(f, q, k)
    BY <1>2
  <2> DEFINE g == [n \in 0 .. (k + 1) |-> IF n = k + 1 THEN Turn(q, f[k], k + 1) ELSE f[n]]
  <2>2. \A n \in 0 .. k : f[n] = IF n = 0 THEN <<>> ELSE Turn(q, f[n - 1], n)
    BY <2>1 DEF Turns
  <2>3. \A n \in 0 .. (k + 1) : g[n] = IF n = 0 THEN <<>> ELSE Turn(q, g[n - 1], n)
    <3> SUFFICES ASSUME NEW n \in 0 .. (k + 1)
                 PROVE  g[n] = IF n = 0 THEN <<>> ELSE Turn(q, g[n - 1], n)
      OBVIOUS
    <3>1. CASE n = k + 1
      <4>1. g[n] = Turn(q, f[k], n) /\ g[n - 1] = f[k] /\ n # 0
        BY <3>1
      <4> QED BY <4>1
    <3>2. CASE n # k + 1
      <4>1. n \in 0 .. k /\ g[n] = f[n] /\ (n # 0 => g[n - 1] = f[n - 1])
        BY <3>2
      <4> QED BY <2>2, <4>1
    <3> QED BY <3>1, <3>2
  <2>4. g = [n \in 0 .. (k + 1) |-> g[n]]
    OBVIOUS
  <2> HIDE DEF g
  <2>5. Turns(g, q, k + 1)
    BY <2>3, <2>4 DEF Turns
  <2> QED BY <2>5
<1> HIDE DEF S
<1>3. l \in S
  BY <1>1, <1>2, Induction
<1> QED BY <1>3 DEF S

(* What is kept after n turns comes from the entries seen so far, and what *)
(* of these is not kept was closed, or expired and not needed.             *)
KeptOf(q, n, s, h) ==
  /\ \A i \in 1 .. Len(s) : s[i] = q[h[i]]
  /\ \A i, j \in 1 .. Len(s) : i < j => h[i] < h[j]
  /\ \A m \in 1 .. n : \/ \E i \in 1 .. Len(s) : h[i] = m
                       \/ closed[q[m].session]
                       \/ q[m].expired /\ Len(s) >= MinIdle

LEMMA TurnKeeps ==
  ASSUME NEW q \in Seq(Entry), NEW n \in Nat, n + 1 \in 1 .. Len(q), MinIdle \in Nat,
         NEW s \in Seq(Entry), NEW h \in [1 .. Len(s) -> 1 .. n],
         KeptOf(q, n, s, h)
  PROVE  \E t \in Seq(Entry) : \E g \in [1 .. Len(t) -> 1 .. (n + 1)] :
           t = Turn(q, s, n + 1) /\ KeptOf(q, n + 1, t, g)
<1> USE DEF KeptOf
<1>1. PICK e \in Entry : e = q[n + 1]
  BY ElementOfSeq
<1>2. Len(s) \in Nat
  BY LenProperties
<1>3. CASE closed[e.session] \/ (e.expired /\ Len(s) >= MinIdle)
  <2>1. Turn(q, s, n + 1) = s
    BY <1>1, <1>3 DEF Turn
  <2>2. h \in [1 .. Len(s) -> 1 .. (n + 1)]
    BY <1>2
  <2>3. \A m \in 1 .. (n + 1) : \/ \E i \in 1 .. Len(s) : h[i] = m
                                \/ closed[q[m].session]
                                \/ q[m].expired /\ Len(s) >= MinIdle
    <3> SUFFICES ASSUME NEW m \in 1 .. (n + 1), m \notin 1 .. n
                 PROVE  closed[q[m].session] \/ (q[m].expired /\ Len(s) >= MinIdle)
      OBVIOUS
    <3>1. m = n + 1
      OBVIOUS
    <3> QED BY <1>1, <1>3, <3>1
  <2> QED BY <2>1, <2>2, <2>3
<1>4. CASE ~(closed[e.session] \/ (e.expired /\ Len(s) >= MinIdle))
  <2>1. PICK t : t = Append(s, e)
    OBVIOUS
  <2>2. /\ t \in Seq(Entry) /\ Len(t) = Len(s) + 1 /\ t[Len(t)] = e
        /\ \A i \in 1 .. Len(s) : t[i] = s[i]
    BY <2>1, AppendProperties
  <2>3. Turn(q, s, n + 1) = t
    BY <1>1, <1>4, <2>1 DEF Turn
  <2> DEFINE g == [i \in 1 .. Len(t) |-> IF i = Len(t) THEN n + 1 ELSE h[i]]
  <2>4. /\ \A i \in 1 .. Len(s) : g[i] = h[i] /\ h[i] \in 1 .. n
        /\ g[Len(t)] = n + 1 /\ Len(t) \in 1 .. Len(t)
        /\ \A i \in 1 .. Len(t) : i \in 1 .. Len(s) \/ i = Len(t)
    <3>1. /\ Len(t) \in 1 .. Len(t)
          /\ \A i \in 1 .. Len(s) : i \in 1 .. Len(t) /\ i # Len(t)
          /\ \A i \in 1 .. Len(t) : i \in 1 .. Len(s) \/ i = Len(t)
      BY <1>2, <2>2
    <3>2. \A i \in 1 .. Len(s) : h[i] \in 1 .. n
      OBVIOUS
    <3> HIDE <2>2
    <3> QED BY <3>1, <3>2
  <2>5. g \in [1 .. Len(t) -> 1 .. (n + 1)]
    BY <1>2, <2>4
  <2> HIDE DEF g
  <2>6. \A i \in 1 .. Len(t) : t[i] = q[g[i]]
    BY <1>1, <2>2, <2>4
  <2>7. \A i, j \in 1 .. Len(t) : i < j => g[i] < g[j]
    <3> SUFFICES ASSUME NEW i \in 1 .. Len(t), NEW j \in 1 .. Len(t), i < j
                 PROVE  g[i] < g[j]
      OBVIOUS
    <3>1. i \in 1 .. Len(s)
      BY <1>2, <2>2
    <3>2. CASE j = Len(t)
      BY <2>4, <3>1, <3>2
    <3>3. CASE j \in 1 .. Len(s)
      BY <2>4, <3>1, <3>3
    <3> QED BY <2>4, <3>2, <3>3
  <2>8. \A m \in 1 .. (n + 1) : \/ \E i \in 1 .. Len(t) : g[i] = m
                                \/ closed[q[m].session]
                                \/ q[m].expired /\ Len(t) >= MinIdle
    <3> SUFFICES ASSUME NEW m \in 1 .. (n + 1)
                 PROVE  \/ \E i \in 1 .. Len(t) : g[i] = m
                        \/ closed[q[m].session]
                        \/ q[m].expired /\ Len(t) >= MinIdle
      OBVIOUS
    <3>1. CASE m = n + 1
      BY <2>4, <3>1
    <3>2. CASE m \in 1 .. n
      <4>1. Len(s) >= MinIdle => Len(t) >= MinIdle
        BY <1>2, <2>2
      <4>2. \A i \in 1 .. Len(s) : i \in 1 .. Len(t) /\ g[i] = h[i]
        BY <1>2, <2>2, <2>4
      <4> QED BY <3>2, <4>1, <4>2
    <3> QED BY <3>1, <3>2
  <2>9. KeptOf(q, n + 1, t, g)
    BY <2>6, <2>7, <2>8
  <2> HIDE DEF KeptOf
  <2>10. t \in Seq(Entry)
    BY <2>2
  <2> QED BY <2>3, <2>5, <2>9, <2>10
<1> QED BY <1>3, <1>4

(* Kept, for any deque. *)
LEMMA KeptFacts ==
  ASSUME NEW q \in Seq(Entry), MinIdle \in Nat
  PROVE  /\ Kept(q) \in Seq(Entry)
         /\ \E h : /\ Embeds(h, Kept(q), q)
                   /\ \A m \in 1 .. Len(q) :
                        \/ \E i \in 1 .. Len(Kept(q)) : h[i] = m
                        \/ closed[q[m].session]
                        \/ q[m].expired /\ Len(Kept(q)) >= MinIdle
<1> DEFINE l == Len(q)
           f == CHOOSE keep : keep = [n \in 0 .. Len(q) |->
                   IF n = 0 THEN <<>>
                   ELSE LET e == q[n] IN
                        IF closed[e.session] \/ (e.expired /\ Len(keep[n - 1]) >= MinIdle)
                        THEN keep[n - 1] ELSE Append(keep[n - 1], e)]
<1>1. l \in Nat
  BY LenProperties
<1>2. Kept(q) = f[l]
  BY DEF Kept
<1>3. f = CHOOSE keep : Turns(keep, q, l)
  BY DEF Turns, Turn
<1>4. Turns(f, q, l)
  <2> HIDE DEF f
  <2> QED BY <1>1, <1>3, TurnsExist
<1> HIDE DEF f
<1>5. f[0] = <<>> /\ \A n \in 1 .. l : f[n] = Turn(q, f[n - 1], n)
  BY <1>1, <1>4 DEF Turns
<1> DEFINE S == { n \in Nat : n \in 0 .. l =>
                    \E h \in [1 .. Len(f[n]) -> 1 .. n] :
                      f[n] \in Seq(Entry) /\ KeptOf(q, n, f[n], h) }
<1>6. 0 \in S
  <2>1. <<>> \in Seq(Entry) /\ Len(<<>>) = 0 /\ 1 .. 0 = {}
    BY EmptySeq
  <2>2. PICK h : h \in [1 .. 0 -> 1 .. 0]
    <3>1. [i \in 1 .. 0 |-> 1] \in [1 .. 0 -> 1 .. 0]
      BY <2>1
    <3> QED BY <3>1
  <2>3. KeptOf(q, 0, <<>>, h)
    BY <2>1 DEF KeptOf
  <2> QED BY <1>5, <2>1, <2>2, <2>3
<1>7. ASSUME NEW n \in Nat, n \in S PROVE n + 1 \in S
  <2> SUFFICES ASSUME n + 1 \in 0 .. l
               PROVE  \E h \in [1 .. Len(f[n + 1]) -> 1 .. (n + 1)] :
                        f[n + 1] \in Seq(Entry) /\ KeptOf(q, n + 1, f[n + 1], h)
    OBVIOUS
  <2>1. PICK s \in Seq(Entry) : s = f[n] /\ \E h \in [1 .. Len(s) -> 1 .. n] : KeptOf(q, n, s, h)
    BY <1>1, <1>7
  <2>2. PICK h \in [1 .. Len(s) -> 1 .. n] : KeptOf(q, n, s, h)
    BY <2>1
  <2>3. n + 1 \in 1 .. l /\ f[n + 1] = Turn(q, s, n + 1)
    BY <1>1, <1>5, <2>1
  <2>4. \E t \in Seq(Entry) : \E g \in [1 .. Len(t) -> 1 .. (n + 1)] :
          t = Turn(q, s, n + 1) /\ KeptOf(q, n + 1, t, g)
    BY <2>2, <2>3, TurnKeeps
  <2> QED BY <2>3, <2>4
<1>8. l \in S
  <2> HIDE DEF S
  <2> QED BY <1>1, <1>6, <1>7, Induction
<1>9. PICK h \in [1 .. Len(f[l]) -> 1 .. l] : f[l] \in Seq(Entry) /\ KeptOf(q, l, f[l], h)
  BY <1>1, <1>8
<1> QED BY <1>2, <1>9 DEF Embeds, KeptOf

-----------------------------------------------------------------------------
(* Clients and idle sessions. *)
PoolType ==
  /\ registry \in 0 .. MaxClients /\ clients \in 0 .. MaxClients
  /\ sessions \in 0 .. MaxSessions
  /\ idle \in [Clients -> Seq(Entry)]
  /\ closed \in [Sessions -> BOOLEAN]
  /\ pc = [x \in Calls |-> pc[x]]
  /\ client \in [Calls -> 0 .. MaxClients]
  /\ session \in [Calls -> 0 .. MaxSessions]
  /\ releasing \subseteq Clients \X Sessions

CallsOK ==
  \A x \in Calls :
    /\ pc[x] \in Holding \cup {"stream"} => client[x] # None
    /\ pc[x] \in {"syn", "send", "stream"} <=> session[x] # None

(* Where a session can be, besides a call. *)
InTask(s) == \E p \in releasing : p[2] = s
InDeque(s) == \E c \in Clients : \E i \in 1 .. Len(idle[c]) : idle[c][i].session = s

OneCall ==
  \A x, y \in Calls : session[x] # None /\ session[x] = session[y] => x = y

OneTask == \A p, q \in releasing : p[2] = q[2] => p = q

OnePlace ==
  \A c, d \in Clients : \A i \in 1 .. Len(idle[c]), j \in 1 .. Len(idle[d]) :
    idle[c][i].session = idle[d][j].session => c = d /\ i = j

Apart ==
  /\ \A x \in Calls : session[x] # None => ~InTask(session[x]) /\ ~InDeque(session[x])
  /\ \A p \in releasing : ~InDeque(p[2])

(* Nobody has a session that has not been created.                         *)
Created ==
  /\ \A x \in Calls : session[x] <= sessions
  /\ \A p \in releasing : p[2] <= sessions
  /\ \A c \in Clients : \A i \in 1 .. Len(idle[c]) : idle[c][i].session <= sessions

Ordered(q) == \A i, j \in 1 .. Len(q) : i < j /\ q[j].expired => q[i].expired

PlacesInv == OneCall /\ OneTask /\ OnePlace /\ Apart /\ Created

PoolInv ==
  /\ PoolType /\ CallsOK
  /\ PlacesInv
  /\ \A c \in Clients : Ordered(idle[c])

LEMMA PoolFacts ==
  /\ MaxClients \in Nat /\ MaxSessions \in Nat /\ MinIdle \in Nat
  /\ None \notin Clients /\ None \notin Sessions
  /\ None \in 0 .. MaxClients /\ None \in 0 .. MaxSessions
  /\ Clients \subseteq 0 .. MaxClients /\ Sessions \subseteq 0 .. MaxSessions
  /\ \A c \in 0 .. MaxClients : c # None => c \in Clients
  /\ \A s \in 0 .. MaxSessions : s # None => s \in Sessions
BY PoolAssumption DEF None, Clients, Sessions

(* One deque becomes q, whose entries come from different places of it.    *)
LEMMA DequeBecomes ==
  ASSUME PoolType, OnePlace, NEW c \in Clients, NEW q \in Seq(Entry),
         idle' = [idle EXCEPT ![c] = q],
         NEW h \in [1 .. Len(q) -> 1 .. Len(idle[c])],
         \A i \in 1 .. Len(q) : q[i].session = idle[c][h[i]].session,
         \A i, j \in 1 .. Len(q) : h[i] = h[j] => i = j
  PROVE  /\ idle' \in [Clients -> Seq(Entry)] /\ idle'[c] = q
         /\ \A d \in Clients \ {c} : idle'[d] = idle[d]
         /\ OnePlace'
         /\ \A s : InDeque(s)' => InDeque(s)
<1>1. /\ idle' \in [Clients -> Seq(Entry)] /\ idle'[c] = q
      /\ \A d \in Clients \ {c} : idle'[d] = idle[d]
  BY DEF PoolType
<1>2. ASSUME NEW d \in Clients, NEW i \in 1 .. Len(idle'[d])
      PROVE  \E j \in 1 .. Len(idle[d]) : /\ idle'[d][i].session = idle[d][j].session
                                          /\ d = c => j = h[i]
                                          /\ d # c => j = i
  BY <1>1
<1>3. OnePlace'
  <2> SUFFICES ASSUME NEW d \in Clients, NEW e \in Clients,
                      NEW i \in 1 .. Len(idle'[d]), NEW j \in 1 .. Len(idle'[e]),
                      idle'[d][i].session = idle'[e][j].session
               PROVE  d = e /\ i = j
    BY DEF OnePlace
  <2>1. PICK k \in 1 .. Len(idle[d]) : /\ idle'[d][i].session = idle[d][k].session
                                       /\ d = c => k = h[i]
                                       /\ d # c => k = i
    BY <1>2
  <2>2. PICK m \in 1 .. Len(idle[e]) : /\ idle'[e][j].session = idle[e][m].session
                                       /\ e = c => m = h[j]
                                       /\ e # c => m = j
    BY <1>2
  <2>3. d = e /\ k = m
    BY <2>1, <2>2 DEF OnePlace
  <2> QED BY <1>1, <2>1, <2>2, <2>3
<1>4. ASSUME NEW s, InDeque(s)' PROVE InDeque(s)
  BY <1>2, <1>4 DEF InDeque
<1> QED BY <1>1, <1>3, <1>4

(* No session gets a new holder, and no deque gets an entry.               *)
LEMMA PlacesShrink ==
  ASSUME PoolType, PlacesInv, OnePlace', \A s : InDeque(s)' => InDeque(s),
         \A x \in Calls : session'[x] = session[x] \/ session'[x] = None,
         releasing' \subseteq releasing, sessions' = sessions,
         idle' \in [Clients -> Seq(Entry)]
  PROVE  PlacesInv'
<1> USE DEF PlacesInv
<1>1. OneCall' /\ OneTask'
  BY DEF OneCall, OneTask
<1>2. \A s : InTask(s)' => InTask(s)
  BY DEF InTask
<1>3. Apart'
  BY <1>2 DEF Apart
<1>4. Created'
  <2>1. \A c \in Clients : \A i \in 1 .. Len(idle'[c]) : idle'[c][i].session <= sessions
    <3> SUFFICES ASSUME NEW c \in Clients, NEW i \in 1 .. Len(idle'[c])
                 PROVE  idle'[c][i].session <= sessions
      OBVIOUS
    <3>1. PICK s : s = idle'[c][i].session
      OBVIOUS
    <3>2. InDeque(s)
      BY <3>1 DEF InDeque
    <3> QED BY <3>1, <3>2 DEF InDeque, Created
  <2>2. \A x \in Calls : session'[x] <= sessions
    <3>1. None <= sessions
      BY PoolFacts DEF PoolType, None
    <3> QED BY <3>1 DEF Created
  <2> QED BY <2>1, <2>2 DEF Created
<1> QED BY <1>1, <1>3, <1>4

(* Steps of a call that touch no deque and take no session.                *)
LEMMA CallQuiet ==
  ASSUME PoolInv, NEW x \in Calls,
         \/ Lookup(x) \/ MakeClient(x) \/ ResolveFails(x) \/ CreateFails(x)
         \/ OpenStream(x) \/ SendReturns(x)
  PROVE  PoolInv'
<1> USE DEF PoolInv
<1>1. /\ UNCHANGED <<idle, sessions, closed, releasing>>
      /\ registry' \in 0 .. MaxClients /\ clients' \in 0 .. MaxClients
  <2>1. CASE MakeClient(x)
    BY <2>1, PoolFacts DEF MakeClient, PoolType
  <2>2. CASE ~MakeClient(x)
    BY <2>2, PoolFacts
    DEF Lookup, ResolveFails, CreateFails, OpenStream, SendReturns, PoolType
  <2> QED BY <2>1, <2>2
<1>2. \/ /\ pc[x] = "start" /\ pc' = [pc EXCEPT ![x] = "cleanup"]
         /\ client' = [client EXCEPT ![x] = registry]
         /\ registry # None /\ session' = session
      \/ /\ pc[x] = "start" /\ pc' = [pc EXCEPT ![x] = "resolve"]
         /\ client' = client /\ session' = session
      \/ /\ pc[x] = "resolve" /\ pc' = [pc EXCEPT ![x] = "cleanup"]
         /\ client' = [client EXCEPT ![x] = clients + 1]
         /\ clients + 1 \in Clients /\ session' = session
      \/ /\ pc' = [pc EXCEPT ![x] = "err"] /\ client' = [client EXCEPT ![x] = None]
         /\ session' = [session EXCEPT ![x] = None]
      \/ /\ pc[x] = "syn" /\ client' = client /\ session' = session
         /\ \E l \in {"stream", "send"} : pc' = [pc EXCEPT ![x] = l]
      \/ /\ pc[x] = "send" /\ pc' = [pc EXCEPT ![x] = "stream"]
         /\ client' = client /\ session' = session
  <2>1. CASE Lookup(x)
    BY <2>1 DEF Lookup, Goto
  <2>2. CASE MakeClient(x)
    <3>1. clients + 1 \in Clients
      BY <2>2, PoolFacts DEF MakeClient, PoolType, Clients
    <3> QED BY <2>2, <3>1 DEF MakeClient, Goto
  <2>3. CASE ResolveFails(x) \/ CreateFails(x)
    BY <2>3 DEF ResolveFails, CreateFails, Return, Goto
  <2>4. CASE OpenStream(x) \/ SendReturns(x)
    BY <2>4 DEF OpenStream, SendReturns, Return, Goto
  <2> QED BY <2>1, <2>2, <2>3, <2>4
<1>3. /\ pc' = [y \in Calls |-> pc'[y]]
      /\ client' \in [Calls -> 0 .. MaxClients] /\ session' \in [Calls -> 0 .. MaxSessions]
      /\ \A y \in Calls \ {x} : /\ pc'[y] = pc[y] /\ client'[y] = client[y]
                                /\ session'[y] = session[y]
  <2>1. \E l : pc' = [pc EXCEPT ![x] = l]
    BY <1>2
  <2>2. client' = client \/ \E c \in 0 .. MaxClients : client' = [client EXCEPT ![x] = c]
    <3>1. registry \in 0 .. MaxClients /\ None \in 0 .. MaxClients
          /\ \A c \in Clients : c \in 0 .. MaxClients
      BY PoolFacts DEF PoolType
    <3> QED BY <1>2, <3>1
  <2>3. session' = session \/ session' = [session EXCEPT ![x] = None]
    BY <1>2
  <2>4. pc = [y \in Calls |-> pc[y]] /\ client \in [Calls -> 0 .. MaxClients]
        /\ session \in [Calls -> 0 .. MaxSessions] /\ None \in 0 .. MaxSessions
    BY PoolFacts DEF PoolType
  <2>5. /\ pc' = [y \in Calls |-> pc'[y]]
        /\ \A y \in Calls \ {x} : pc'[y] = pc[y]
    BY <2>1, <2>4
  <2>6. /\ client' \in [Calls -> 0 .. MaxClients]
        /\ \A y \in Calls \ {x} : client'[y] = client[y]
    BY <2>2, <2>4
  <2>7. /\ session' \in [Calls -> 0 .. MaxSessions]
        /\ \A y \in Calls \ {x} : session'[y] = session[y]
    BY <2>3, <2>4
  <2> QED BY <2>5, <2>6, <2>7
<1>4. /\ session'[x] = session[x] \/ session'[x] = None
      /\ pc'[x] \in Holding \cup {"stream"} => client'[x] # None
      /\ pc'[x] \in {"syn", "send", "stream"} <=> session'[x] # None
  BY <1>2, PoolFacts DEF PoolType, CallsOK, Holding
<1>5. PoolType' /\ CallsOK'
  BY <1>1, <1>3, <1>4 DEF PoolType, CallsOK
<1>6. OnePlace' /\ \A s : InDeque(s)' => InDeque(s)
  BY <1>1 DEF PlacesInv, OnePlace, InDeque
<1>7. PlacesInv'
  BY <1>1, <1>3, <1>4, <1>5, <1>6, PlacesShrink DEF PoolType
<1> QED BY <1>1, <1>5, <1>7

LEMMA EmbedsFacts ==
  ASSUME NEW q \in Seq(Entry), NEW p \in Seq(Entry), NEW h, Embeds(h, q, p)
  PROVE  /\ h \in [1 .. Len(q) -> 1 .. Len(p)]
         /\ \A i \in 1 .. Len(q) : q[i].session = p[h[i]].session
         /\ \A i, j \in 1 .. Len(q) : h[i] = h[j] => i = j
         /\ Ordered(p) => Ordered(q)
<1>1. /\ h \in [1 .. Len(q) -> 1 .. Len(p)]
      /\ \A i \in 1 .. Len(q) : q[i] = p[h[i]]
  BY DEF Embeds
<1>2. \A i, j \in 1 .. Len(q) : h[i] = h[j] => i = j
  <2> SUFFICES ASSUME NEW i \in 1 .. Len(q), NEW j \in 1 .. Len(q), h[i] = h[j] PROVE i = j
    OBVIOUS
  <2>1. ~(i < j) /\ ~(j < i)
    BY <1>1 DEF Embeds
  <2> QED BY <2>1
<1>3. Ordered(p) => Ordered(q)
  BY <1>1 DEF Embeds, Ordered
<1> QED BY <1>1, <1>2, <1>3

(* cleanup_idle. *)
LEMMA CleansUp ==
  ASSUME PoolInv, NEW x \in Calls, CleanupIdle(x)
  PROVE  PoolInv'
<1> USE DEF PoolInv
<1>1. PICK c \in Clients : c = client[x]
  BY PoolFacts DEF CleanupIdle, CallsOK, Holding, PoolType
<1>2. PICK p \in Seq(Entry) : p = idle[c]
  BY DEF PoolType
<1>3. PICK q \in Seq(Entry) : q = Kept(p) /\ \E h : Embeds(h, q, p)
  BY PoolFacts, KeptFacts
<1>4. PICK h : Embeds(h, q, p)
  BY <1>3
<1>5. /\ idle' = [idle EXCEPT ![c] = q] /\ closed' \in [Sessions -> BOOLEAN]
      /\ pc' = [pc EXCEPT ![x] = "take"] /\ pc[x] = "cleanup"
      /\ UNCHANGED <<registry, clients, sessions, client, session, releasing>>
  <2>1. closed' \in [Sessions -> BOOLEAN]
    BY DEF CleanupIdle, PoolType
  <2> QED BY <1>1, <1>2, <1>3, <2>1 DEF CleanupIdle, Goto
<1>6. /\ idle' \in [Clients -> Seq(Entry)] /\ idle'[c] = q
      /\ \A d \in Clients \ {c} : idle'[d] = idle[d]
      /\ OnePlace' /\ \A s : InDeque(s)' => InDeque(s)
  <2>1. /\ h \in [1 .. Len(q) -> 1 .. Len(idle[c])]
        /\ \A i \in 1 .. Len(q) : q[i].session = idle[c][h[i]].session
        /\ \A i, j \in 1 .. Len(q) : h[i] = h[j] => i = j
    BY <1>2, <1>4, EmbedsFacts
  <2> QED BY <1>5, <2>1, DequeBecomes DEF PlacesInv
<1>7. PoolType' /\ CallsOK'
  BY <1>5, <1>6 DEF PoolType, CallsOK, Holding
<1>8. PlacesInv'
  BY <1>5, <1>6, PlacesShrink
<1>9. \A d \in Clients : Ordered(idle'[d])
  BY <1>2, <1>4, <1>6, EmbedsFacts
<1> QED BY <1>7, <1>8, <1>9

(* take_idle: the entry leaves the deque with those behind it.             *)
LEMMA Takes ==
  ASSUME PoolInv, NEW x \in Calls, TakeIdle(x)
  PROVE  PoolInv'
<1> USE DEF PoolInv
<1>1. PICK c \in Clients : c = client[x]
  BY PoolFacts DEF TakeIdle, CallsOK, Holding, PoolType
<1>2. PICK p \in Seq(Entry) : p = idle[c]
  BY DEF PoolType
<1>3. PICK n \in 0 .. Len(p) : \E q : q = SubSeq(p, 1, n) /\ idle' = [idle EXCEPT ![c] = q]
        /\ \/ pc' = [pc EXCEPT ![x] = "create"] /\ session' = session
           \/ /\ n + 1 \in 1 .. Len(p)
              /\ session' = [session EXCEPT ![x] = p[n + 1].session]
              /\ pc' = [pc EXCEPT ![x] = "syn"]
  <2> DEFINE open == { i \in DOMAIN idle[c] : ~closed[idle[c][i].session] }
  <2>1. DOMAIN p = 1 .. Len(p) /\ Len(p) \in Nat
    BY LenProperties
  <2>2. CASE open = {}
    <3>1. idle' = [idle EXCEPT ![c] = <<>>] /\ pc' = [pc EXCEPT ![x] = "create"]
          /\ session' = session
      BY <1>1, <2>2 DEF TakeIdle, Goto
    <3>2. SubSeq(p, 1, 0) = <<>> /\ 0 \in 0 .. Len(p)
      BY <2>1, SubSeqEmpty
    <3> QED BY <3>1, <3>2
  <2>3. CASE open # {}
    <3> DEFINE i == CHOOSE i \in open : \A j \in open : j <= i
    <3>1. /\ idle' = [idle EXCEPT ![c] = SubSeq(idle[c], 1, i - 1)]
          /\ session' = [session EXCEPT ![x] = idle[c][i].session]
          /\ pc' = [pc EXCEPT ![x] = "syn"]
      BY <1>1, <2>3 DEF TakeIdle, Goto
    <3>2. i \in 1 .. Len(p)
      <4>1. open \subseteq 1 .. Len(p)
        BY <1>2, <2>1
      <4>2. \E k \in open : \A j \in open : j <= k
        <5> HIDE DEF open
        <5> QED BY <2>1, <2>3, <4>1, LastNumber
      <4> HIDE DEF open
      <4> QED BY <4>1, <4>2
    <3> HIDE DEF i
    <3>3. i - 1 \in 0 .. Len(p) /\ i - 1 + 1 = i
      BY <2>1, <3>2
    <3> QED BY <1>2, <3>1, <3>2, <3>3
  <2> QED BY <2>2, <2>3
<1>4. PICK q : /\ q = SubSeq(p, 1, n) /\ idle' = [idle EXCEPT ![c] = q]
               /\ \/ pc' = [pc EXCEPT ![x] = "create"] /\ session' = session
                  \/ /\ n + 1 \in 1 .. Len(p)
                     /\ session' = [session EXCEPT ![x] = p[n + 1].session]
                     /\ pc' = [pc EXCEPT ![x] = "syn"]
  BY <1>3
<1>5. /\ pc[x] = "take" /\ session[x] = None /\ client[x] # None
      /\ UNCHANGED <<registry, clients, sessions, closed, client, releasing>>
  BY DEF TakeIdle, CallsOK, Holding
<1>6. /\ Len(p) \in Nat /\ q \in Seq(Entry) /\ Len(q) = n
      /\ \A i \in 1 .. n : q[i] = p[i]
  <2>1. Len(p) \in Nat /\ \A i \in 1 .. Len(p) : p[i] \in Entry
    BY LenProperties, ElementOfSeq
  <2>2. 1 \in Int /\ n \in Int /\ \A i \in 1 .. n : p[i] \in Entry
    BY <2>1
  <2>3. /\ q \in Seq(Entry) /\ Len(q) = IF 1 <= n THEN n - 1 + 1 ELSE 0
        /\ \A i \in 1 .. n - 1 + 1 : q[i] = p[1 + i - 1]
    BY <1>4, <2>2, SubSeqProperties
  <2>4. Len(q) = n
    BY <2>2, <2>3
  <2> QED BY <2>1, <2>2, <2>3, <2>4
<1> DEFINE h == [i \in 1 .. Len(q) |-> i]
<1>7. Embeds(h, q, p)
  BY <1>6 DEF Embeds
<1>8. /\ idle' \in [Clients -> Seq(Entry)] /\ idle'[c] = q
      /\ \A d \in Clients \ {c} : idle'[d] = idle[d]
      /\ OnePlace' /\ \A s : InDeque(s)' => InDeque(s)
  <2> HIDE DEF h
  <2>1. /\ h \in [1 .. Len(q) -> 1 .. Len(idle[c])]
        /\ \A i \in 1 .. Len(q) : q[i].session = idle[c][h[i]].session
        /\ \A i, j \in 1 .. Len(q) : h[i] = h[j] => i = j
    <3>1. q \in Seq(Entry)
      BY <1>6
    <3>2. /\ h \in [1 .. Len(q) -> 1 .. Len(p)]
          /\ \A i \in 1 .. Len(q) : q[i].session = p[h[i]].session
          /\ \A i, j \in 1 .. Len(q) : h[i] = h[j] => i = j
      BY <1>7, <3>1, EmbedsFacts
    <3> QED BY <1>2, <3>2
  <2> QED BY <1>4, <1>6, <2>1, DequeBecomes DEF PlacesInv
<1>9. \A d \in Clients : Ordered(idle'[d])
  <2> HIDE DEF h
  <2> QED BY <1>2, <1>6, <1>7, <1>8, EmbedsFacts
<1>10. CASE pc' = [pc EXCEPT ![x] = "create"] /\ session' = session
  <2>1. PoolType' /\ CallsOK'
    BY <1>5, <1>8, <1>10 DEF PoolType, CallsOK, Holding
  <2>2. PlacesInv'
    BY <1>5, <1>8, <1>10, PlacesShrink
  <2> QED BY <1>9, <2>1, <2>2
<1>11. CASE /\ n + 1 \in 1 .. Len(p)
            /\ session' = [session EXCEPT ![x] = p[n + 1].session]
            /\ pc' = [pc EXCEPT ![x] = "syn"]
  <2>1. PICK s \in Sessions : s = p[n + 1].session
    <3>1. PICK e \in Entry : e = p[n + 1]
      BY <1>11, ElementOfSeq
    <3> QED BY <3>1 DEF Entry
  <2>2. /\ s # None /\ session'[x] = s /\ pc'[x] = "syn"
        /\ \A y \in Calls \ {x} : session'[y] = session[y] /\ pc'[y] = pc[y]
        /\ session' \in [Calls -> 0 .. MaxSessions] /\ pc' = [y \in Calls |-> pc'[y]]
    BY <1>11, <2>1, PoolFacts DEF PoolType
  <2>3. PoolType' /\ CallsOK'
    BY <1>5, <1>8, <2>2 DEF PoolType, CallsOK, Holding
  <2>4. InDeque(s) /\ s <= sessions
    BY <1>2, <1>11, <2>1 DEF InDeque, PlacesInv, Created
  <2>5. ~InDeque(s)'
    <3> SUFFICES ASSUME NEW d \in Clients, NEW i \in 1 .. Len(idle'[d]),
                        idle'[d][i].session = s
                 PROVE  FALSE
      BY DEF InDeque
    <3>1. CASE d = c
      <4>1. i \in 1 .. Len(p) /\ p[i].session = p[n + 1].session /\ i # n + 1
        BY <1>6, <1>8, <2>1, <3>1
      <4> QED BY <1>2, <1>11, <4>1 DEF PlacesInv, OnePlace
    <3>2. CASE d # c
      <4>1. i \in 1 .. Len(idle[d]) /\ idle[d][i].session = s
        BY <1>8, <3>2
      <4>2. PICK j \in 1 .. Len(idle[c]) : idle[c][j].session = s
        BY <1>2, <1>11, <2>1
      <4> QED BY <3>2, <4>1, <4>2 DEF PlacesInv, OnePlace
    <3> QED BY <3>1, <3>2
  <2>6. \A y \in Calls : session[y] # s
    BY <2>2, <2>4 DEF PlacesInv, Apart
  <2>7. ~InTask(s)
    BY <2>4 DEF PlacesInv, Apart, InTask
  <2>8. OneCall' /\ OneTask'
    BY <1>5, <2>2, <2>6 DEF PlacesInv, OneCall, OneTask
  <2>9. Apart'
    <3>1. \A t : InTask(t)' <=> InTask(t)
      BY <1>5 DEF InTask
    <3>2. ASSUME NEW y \in Calls, session'[y] # None
          PROVE  \/ ~InTask(session'[y]) /\ ~InDeque(session'[y])
                 \/ y = x
      BY <2>2, <3>2 DEF PlacesInv, Apart
    <3>3. \A p1 \in releasing : ~InDeque(p1[2])'
      BY <1>8 DEF PlacesInv, Apart
    <3>4. ASSUME NEW y \in Calls, session'[y] # None, NEW t, t = session'[y]
          PROVE  ~InTask(t)' /\ ~InDeque(t)'
      BY <1>8, <2>2, <2>5, <2>7, <3>1, <3>2, <3>4
    <3> QED BY <1>5, <3>3, <3>4 DEF Apart
  <2>10. Created'
    <3>1. \A d \in Clients : \A i \in 1 .. Len(idle'[d]) : idle'[d][i].session <= sessions
      BY <1>2, <1>6, <1>8 DEF PlacesInv, Created
    <3> QED BY <1>5, <2>2, <2>4, <3>1 DEF PlacesInv, Created
  <2> QED BY <1>8, <1>9, <2>3, <2>8, <2>9, <2>10 DEF PlacesInv
<1> QED BY <1>4, <1>10, <1>11

(* create_session: nobody has the new session yet.                         *)
LEMMA Creates ==
  ASSUME PoolInv, NEW x \in Calls, CreateSession(x)
  PROVE  PoolInv'
<1> USE DEF PoolInv
<1>1. PICK s \in Sessions : s = sessions + 1
  BY PoolFacts DEF CreateSession, PoolType, Sessions
<1>2. /\ pc[x] = "create" /\ sessions' = s /\ session' = [session EXCEPT ![x] = s]
      /\ pc' = [pc EXCEPT ![x] = "syn"]
      /\ UNCHANGED <<registry, clients, idle, closed, client, releasing>>
  BY <1>1 DEF CreateSession, Goto
<1>3. /\ s # None /\ session'[x] = s /\ pc'[x] = "syn" /\ client[x] # None
      /\ \A y \in Calls \ {x} : session'[y] = session[y] /\ pc'[y] = pc[y]
      /\ session' \in [Calls -> 0 .. MaxSessions] /\ pc' = [y \in Calls |-> pc'[y]]
      /\ s \in 0 .. MaxSessions
  BY <1>2, PoolFacts DEF PoolType, CallsOK, Holding
<1>4. PoolType' /\ CallsOK'
  BY <1>2, <1>3 DEF PoolType, CallsOK, Holding
<1>5. sessions \in Nat /\ s \in Nat /\ ~(s <= sessions) /\ \A n \in Nat : n <= sessions => n <= s
  BY <1>1 DEF PoolType
<1>6. (\A y \in Calls : session[y] # s) /\ ~InTask(s) /\ ~InDeque(s)
  BY <1>5 DEF PlacesInv, Created, InTask, InDeque
<1>7. /\ OneCall' /\ OneTask' /\ OnePlace'
      /\ \A t : (InTask(t)' <=> InTask(t)) /\ (InDeque(t)' <=> InDeque(t))
  BY <1>2, <1>3, <1>6 DEF PlacesInv, OneCall, OneTask, OnePlace, InTask, InDeque
<1>8. Apart'
  <2>1. ASSUME NEW y \in Calls, session'[y] # None, NEW t, t = session'[y]
        PROVE  ~InTask(t) /\ ~InDeque(t)
    BY <1>3, <1>6, <2>1 DEF PlacesInv, Apart
  <2>2. \A p \in releasing : ~InDeque(p[2])
    BY DEF PlacesInv, Apart
  <2>3. \A y \in Calls : \A t : t = session'[y] /\ t # None => ~InTask(t)' /\ ~InDeque(t)'
    BY <1>7, <2>1
  <2>4. \A p \in releasing : \A t : t = p[2] => ~InDeque(t)'
    BY <1>7, <2>2
  <2> QED BY <1>2, <2>3, <2>4 DEF Apart
<1>9. Created'
  <2>1. \A y \in Calls \ {x} : session[y] <= s
    BY <1>5 DEF PlacesInv, Created, PoolType
  <2>2. \A p \in releasing : p[2] <= s
    <3>1. \A p \in releasing : p[2] \in Nat /\ p[2] <= sessions
      BY DEF PlacesInv, Created, PoolType, Sessions
    <3> QED BY <1>5, <3>1
  <2>3. \A c \in Clients : \A i \in 1 .. Len(idle[c]) : idle[c][i].session <= s
    <3> SUFFICES ASSUME NEW c \in Clients, NEW i \in 1 .. Len(idle[c])
                 PROVE  idle[c][i].session <= s
      OBVIOUS
    <3>1. PICK e \in Entry : e = idle[c][i]
      BY ElementOfSeq DEF PoolType
    <3>2. e.session \in Nat /\ e.session <= sessions
      BY <3>1 DEF Entry, Sessions, PlacesInv, Created
    <3> QED BY <1>5, <3>1, <3>2
  <2>4. s <= s
    BY <1>5
  <2> QED BY <1>2, <1>3, <2>1, <2>2, <2>3, <2>4 DEF Created
<1> QED BY <1>2, <1>4, <1>7, <1>8, <1>9 DEF PlacesInv

(* A stream is dropped: its session goes to a release task, or nowhere.    *)
LEMMA Drops ==
  ASSUME PoolInv, NEW x \in Calls, DropStream(x)
  PROVE  PoolInv'
<1> USE DEF PoolInv
<1>1. PICK s \in Sessions : s = session[x]
  BY PoolFacts DEF DropStream, CallsOK, PoolType
<1>2. PICK c \in Clients : c = client[x]
  BY PoolFacts DEF DropStream, CallsOK, PoolType
<1>3. /\ (releasing' = releasing \cup {<<c, s>>} \/ releasing' = releasing)
      /\ pc' = [pc EXCEPT ![x] = "done"] /\ client' = [client EXCEPT ![x] = None]
      /\ session' = [session EXCEPT ![x] = None]
      /\ UNCHANGED <<registry, clients, idle, sessions, closed>>
  BY <1>1, <1>2 DEF DropStream, Return, Goto
<1>4. /\ pc'[x] = "done" /\ client'[x] = None /\ session'[x] = None
      /\ \A y \in Calls \ {x} : /\ pc'[y] = pc[y] /\ client'[y] = client[y]
                                /\ session'[y] = session[y]
      /\ pc' = [y \in Calls |-> pc'[y]]
      /\ client' \in [Calls -> 0 .. MaxClients] /\ session' \in [Calls -> 0 .. MaxSessions]
      /\ releasing' \subseteq Clients \X Sessions
  <2>1. /\ client'[x] = None /\ client' \in [Calls -> 0 .. MaxClients]
        /\ \A y \in Calls \ {x} : client'[y] = client[y]
    BY <1>3, PoolFacts DEF PoolType
  <2>2. /\ session'[x] = None /\ session' \in [Calls -> 0 .. MaxSessions]
        /\ \A y \in Calls \ {x} : session'[y] = session[y]
    BY <1>3, PoolFacts DEF PoolType
  <2>3. /\ pc'[x] = "done" /\ pc' = [y \in Calls |-> pc'[y]]
        /\ \A y \in Calls \ {x} : pc'[y] = pc[y]
    BY <1>3 DEF PoolType
  <2>4. releasing' \subseteq Clients \X Sessions
    BY <1>3 DEF PoolType
  <2> QED BY <2>1, <2>2, <2>3, <2>4
<1>5. PoolType' /\ CallsOK'
  BY <1>3, <1>4 DEF PoolType, CallsOK, Holding
<1>6. /\ \A y \in Calls \ {x} : session[y] # s
      /\ \A p \in releasing : p[2] # s
      /\ ~InDeque(s) /\ s <= sessions
  BY <1>1, PoolFacts DEF PlacesInv, OneCall, Apart, InTask, Created
<1>7. \A p \in releasing' : p \in releasing \/ (p[2] = s /\ p = <<c, s>>)
  BY <1>3
<1>8. /\ OneCall' /\ OneTask' /\ OnePlace' /\ \A t : InDeque(t)' <=> InDeque(t)
  BY <1>3, <1>4, <1>6, <1>7 DEF PlacesInv, OneCall, OneTask, OnePlace, InDeque
<1>9. \A t : InTask(t)' => InTask(t) \/ t = s
  BY <1>7 DEF InTask
<1>10. Apart'
  <2>1. \A y \in Calls : \A t : t = session'[y] /\ t # None => ~InTask(t)' /\ ~InDeque(t)'
    BY <1>4, <1>6, <1>8, <1>9 DEF PlacesInv, Apart
  <2>2. \A p \in releasing' : \A t : t = p[2] => ~InDeque(t)'
    BY <1>6, <1>7, <1>8 DEF PlacesInv, Apart
  <2> QED BY <2>1, <2>2 DEF Apart
<1>11. Created'
  <2>1. None <= sessions
    BY PoolFacts DEF PoolType, None
  <2> QED BY <1>3, <1>4, <1>6, <1>7, <2>1 DEF PlacesInv, Created
<1> QED BY <1>3, <1>5, <1>8, <1>10, <1>11 DEF PlacesInv

(* The release task: the session goes to the back of the deque.            *)
LEMMA Releases ==
  ASSUME PoolInv, NEW c \in Clients, NEW s \in Sessions, Release(c, s)
  PROVE  PoolInv'
<1> USE DEF PoolInv
<1>1. PICK p \in Seq(Entry) : p = idle[c]
  BY DEF PoolType
<1>2. PICK e \in Entry : e = [session |-> s, expired |-> FALSE]
  BY DEF Entry
<1>3. PICK q : q = Append(p, e)
  OBVIOUS
<1>4. /\ <<c, s>> \in releasing /\ releasing' = releasing \ {<<c, s>>}
      /\ (idle' = idle \/ idle' = [idle EXCEPT ![c] = q])
      /\ UNCHANGED <<registry, clients, sessions, closed, pc, client, session>>
  BY <1>1, <1>2, <1>3 DEF Release
<1>5. /\ q \in Seq(Entry) /\ Len(p) \in Nat /\ Len(q) = Len(p) + 1 /\ q[Len(q)] = e
      /\ \A i \in 1 .. Len(p) : q[i] = p[i]
      /\ \A i \in 1 .. Len(q) : i \in 1 .. Len(p) \/ i = Len(q)
  <2>1. /\ q \in Seq(Entry) /\ Len(p) \in Nat /\ Len(q) = Len(p) + 1 /\ q[Len(q)] = e
        /\ \A i \in 1 .. Len(p) : q[i] = p[i]
    BY <1>3, AppendProperties, LenProperties
  <2> QED BY <2>1
<1>6. /\ idle' \in [Clients -> Seq(Entry)] /\ (idle'[c] = q \/ idle'[c] = p)
      /\ \A d \in Clients \ {c} : idle'[d] = idle[d]
  BY <1>1, <1>4, <1>5 DEF PoolType
<1>7. PoolType' /\ CallsOK'
  BY <1>4, <1>6 DEF PoolType, CallsOK
<1>8. /\ \A y \in Calls : session[y] # None => session[y] # s
      /\ \A r \in releasing' : r[2] # s
      /\ ~InDeque(s) /\ s <= sessions
  <2>1. PICK r \in releasing : r = <<c, s>> /\ r[2] = s
    BY <1>4
  <2> QED BY <1>4, <2>1 DEF PlacesInv, OneTask, Apart, InTask, Created
<1>9. ASSUME NEW d \in Clients, NEW i \in 1 .. Len(idle'[d])
      PROVE  \/ i \in 1 .. Len(idle[d]) /\ idle'[d][i] = idle[d][i]
             \/ /\ idle'[d][i].session = s /\ ~idle'[d][i].expired
                /\ d = c /\ i = Len(q) /\ idle'[c] = q
  <2>1. CASE idle'[d] = idle[d]
    BY <2>1
  <2>2. CASE d = c /\ idle'[c] = q
    BY <1>1, <1>2, <1>5, <2>2
  <2> QED BY <1>1, <1>6, <2>1, <2>2
<1>10. OnePlace'
  <2> SUFFICES ASSUME NEW d \in Clients, NEW f \in Clients,
                      NEW i \in 1 .. Len(idle'[d]), NEW j \in 1 .. Len(idle'[f]),
                      idle'[d][i].session = idle'[f][j].session
               PROVE  d = f /\ i = j
    BY DEF OnePlace
  <2>1. CASE i \in 1 .. Len(idle[d]) /\ idle'[d][i] = idle[d][i]
    <3>1. idle'[f][j].session # s
      BY <1>8, <2>1 DEF InDeque
    <3>2. j \in 1 .. Len(idle[f]) /\ idle'[f][j] = idle[f][j]
      BY <1>9, <3>1
    <3> QED BY <2>1, <3>2 DEF PlacesInv, OnePlace
  <2>2. CASE idle'[d][i].session = s /\ d = c /\ i = Len(q)
    <3>1. ~(j \in 1 .. Len(idle[f]) /\ idle'[f][j] = idle[f][j])
      BY <1>8, <2>2 DEF InDeque
    <3> QED BY <1>9, <2>2, <3>1
  <2> QED BY <1>9, <2>1, <2>2
<1>11. \A t : InDeque(t)' => InDeque(t) \/ t = s
  <2> SUFFICES ASSUME NEW d \in Clients, NEW i \in 1 .. Len(idle'[d])
               PROVE  idle'[d][i].session = s \/ InDeque(idle'[d][i].session)
    BY DEF InDeque
  <2> QED BY <1>9 DEF InDeque
<1>12. \A t : InTask(t)' => InTask(t)
  BY <1>4 DEF InTask
<1>13. Apart'
  <2>1. \A y \in Calls : \A t : t = session'[y] /\ t # None => ~InTask(t)' /\ ~InDeque(t)'
    BY <1>4, <1>8, <1>11, <1>12 DEF PlacesInv, Apart
  <2>2. \A r \in releasing' : \A t : t = r[2] => ~InDeque(t)'
    BY <1>4, <1>8, <1>11 DEF PlacesInv, Apart
  <2> QED BY <2>1, <2>2 DEF Apart
<1>14. Created'
  <2>1. \A d \in Clients : \A i \in 1 .. Len(idle'[d]) : idle'[d][i].session <= sessions
    BY <1>8, <1>9 DEF PlacesInv, Created
  <2> QED BY <1>4, <2>1 DEF PlacesInv, Created
<1>15. ASSUME NEW d \in Clients PROVE Ordered(idle'[d])
  <2>1. CASE idle'[d] = idle[d]
    BY <2>1
  <2>2. CASE idle'[d] = q /\ d = c
    <3> SUFFICES ASSUME NEW i \in 1 .. Len(q), NEW j \in 1 .. Len(q), i < j, q[j].expired
                 PROVE  q[i].expired
      BY <2>2 DEF Ordered
    <3>1. j \in 1 .. Len(p)
      BY <1>2, <1>5
    <3>2. i \in 1 .. Len(p)
      BY <1>5, <3>1
    <3> QED BY <1>1, <1>5, <3>1, <3>2 DEF Ordered
  <2> QED BY <1>1, <1>6, <2>1, <2>2
<1>16. OneCall' /\ OneTask'
  BY <1>4 DEF PlacesInv, OneCall, OneTask
<1> QED BY <1>7, <1>10, <1>13, <1>14, <1>15, <1>16 DEF PlacesInv

LEMMA Closes ==
  ASSUME PoolInv, NEW s \in Sessions, SessionCloses(s)
  PROVE  PoolInv'
<1>1. /\ closed' = [closed EXCEPT ![s] = TRUE]
      /\ UNCHANGED <<registry, clients, idle, sessions, pc, client, session, releasing>>
  BY DEF SessionCloses
<1> QED
  BY <1>1 DEF PoolInv, PoolType, CallsOK, PlacesInv, OneCall, OneTask, OnePlace, Apart,
     Created, InTask, InDeque, Ordered

(* The oldest entry that has not expired does.                             *)
LEMMA Expires ==
  ASSUME PoolInv, NEW c \in Clients, NEW n \in DOMAIN idle[c], Expire(c, n)
  PROVE  PoolInv'
<1> USE DEF PoolInv
<1>1. PICK p \in Seq(Entry) : p = idle[c]
  BY DEF PoolType
<1>2. n \in 1 .. Len(p) /\ Len(p) \in Nat
  BY <1>1, LenProperties
<1>3. PICK e \in Entry : e = p[n]
  BY <1>2, ElementOfSeq
<1>4. PICK f \in Entry : f = [e EXCEPT !.expired = TRUE]
  BY DEF Entry
<1>5. f.session = e.session /\ f.expired
  BY <1>4 DEF Entry
<1>6. PICK q : q = [p EXCEPT ![n] = f]
  OBVIOUS
<1>7. /\ idle' = [idle EXCEPT ![c] = q] /\ \A j \in 1 .. (n - 1) : p[j].expired
      /\ UNCHANGED <<registry, clients, sessions, closed, pc, client, session, releasing>>
  <2>1. idle' = [idle EXCEPT ![c] = [idle[c] EXCEPT ![n] = [idle[c][n] EXCEPT !.expired = TRUE]]]
    BY DEF Expire
  <2> QED BY <1>1, <1>3, <1>4, <1>6, <2>1 DEF Expire
<1>8. /\ q \in Seq(Entry) /\ Len(q) = Len(p) /\ q[n] = f
      /\ \A j \in 1 .. Len(p) : j # n => q[j] = p[j]
  BY <1>2, <1>6, ExceptSeq
<1>9. \A j \in 1 .. Len(p) : q[j].session = p[j].session
  BY <1>3, <1>5, <1>8
<1> DEFINE h == [j \in 1 .. Len(q) |-> j]
<1>10. /\ idle' \in [Clients -> Seq(Entry)] /\ idle'[c] = q
       /\ \A d \in Clients \ {c} : idle'[d] = idle[d]
       /\ OnePlace' /\ \A s : InDeque(s)' => InDeque(s)
  <2>1. /\ h \in [1 .. Len(q) -> 1 .. Len(idle[c])]
        /\ \A i \in 1 .. Len(q) : q[i].session = idle[c][h[i]].session
        /\ \A i, j \in 1 .. Len(q) : h[i] = h[j] => i = j
    BY <1>1, <1>8, <1>9
  <2> HIDE DEF h
  <2> QED BY <1>7, <1>8, <2>1, DequeBecomes DEF PlacesInv
<1>11. PoolType' /\ CallsOK'
  BY <1>7, <1>10 DEF PoolType, CallsOK
<1>12. PlacesInv'
  BY <1>7, <1>10, PlacesShrink
<1>13. Ordered(q)
  <2> SUFFICES ASSUME NEW i \in 1 .. Len(p), NEW j \in 1 .. Len(p), i < j, q[j].expired
               PROVE  q[i].expired
    BY <1>8 DEF Ordered
  <2>1. CASE i = n
    BY <1>5, <1>8, <2>1
  <2>2. CASE i # n /\ j = n
    <3>1. i \in 1 .. (n - 1)
      BY <1>2, <2>2
    <3> QED BY <1>7, <1>8, <2>2, <3>1
  <2>3. CASE i # n /\ j # n
    BY <1>1, <1>8, <2>3 DEF Ordered
  <2> QED BY <2>1, <2>2, <2>3
<1> QED BY <1>10, <1>11, <1>12, <1>13

LEMMA PoolStep == ASSUME PoolInv, Next PROVE PoolInv'
<1>1. CASE \E x \in Calls :
             \/ Lookup(x) \/ MakeClient(x) \/ ResolveFails(x)
             \/ CleanupIdle(x) \/ TakeIdle(x) \/ CreateSession(x) \/ CreateFails(x)
             \/ OpenStream(x) \/ SendReturns(x) \/ DropStream(x)
  BY <1>1, CallQuiet, CleansUp, Takes, Creates, Drops
<1>2. CASE \E c \in Clients, s \in Sessions : Release(c, s)
  BY <1>2, Releases
<1>3. CASE \E s \in Sessions : SessionCloses(s)
  BY <1>3, Closes
<1>4. CASE \E c \in Clients : \E n \in DOMAIN idle[c] : Expire(c, n)
  BY <1>4, Expires
<1> QED BY <1>1, <1>2, <1>3, <1>4 DEF Next

LEMMA PoolStart == Init => PoolInv
<1> SUFFICES ASSUME Init PROVE PoolInv
  OBVIOUS
<1>1. /\ registry = None /\ clients = 0 /\ sessions = 0 /\ releasing = {}
      /\ \A x \in Calls : pc[x] = "start" /\ client[x] = None /\ session[x] = None
      /\ \A c \in Clients : idle[c] = <<>>
  BY DEF Init
<1>2. PoolType
  <2>1. <<>> \in Seq(Entry)
    BY EmptySeq
  <2>2. /\ idle \in [Clients -> Seq(Entry)] /\ closed \in [Sessions -> BOOLEAN]
        /\ pc = [x \in Calls |-> pc[x]]
    BY <2>1 DEF Init
  <2>3. /\ client \in [Calls -> 0 .. MaxClients] /\ session \in [Calls -> 0 .. MaxSessions]
    BY PoolFacts DEF Init
  <2>4. 0 \in 0 .. MaxClients /\ 0 \in 0 .. MaxSessions
    BY PoolFacts DEF None
  <2> QED BY <1>1, <2>2, <2>3, <2>4 DEF PoolType, None
<1>3. CallsOK
  BY <1>1 DEF CallsOK, Holding
<1>4. \A c \in Clients : 1 .. Len(idle[c]) = {}
  <2>1. Len(<<>>) = 0 /\ 1 .. 0 = {}
    BY EmptySeq
  <2> QED BY <1>1, <2>1
<1>5. PlacesInv
  <2>1. OneCall /\ OneTask /\ OnePlace /\ Apart
    BY <1>1, <1>4 DEF OneCall, OneTask, OnePlace, Apart
  <2>2. None <= sessions
    BY <1>1 DEF None
  <2> QED BY <1>1, <1>4, <2>1, <2>2 DEF PlacesInv, Created
<1>6. \A c \in Clients : Ordered(idle[c])
  BY <1>4 DEF Ordered
<1> QED BY <1>2, <1>3, <1>5, <1>6 DEF PoolInv

(* A set with at most one element.                                         *)
LEMMA AtMostOne ==
  ASSUME NEW S, \A a, b \in S : a = b
  PROVE  /\ Cardinality(S) = 0 \/ Cardinality(S) = 1
         /\ S = {} => Cardinality(S) = 0
<1>1. S = {} \/ \E a : S = {a}
  OBVIOUS
<1> QED BY <1>1, FS_EmptySet, FS_Singleton

(* Whoever has a session is the only one.                                  *)
LEMMA PoolExclusive == ASSUME PoolInv PROVE ExclusiveSession
<1> USE DEF PoolInv
<1> SUFFICES ASSUME NEW s \in Sessions
             PROVE  Cardinality({ x \in Calls : session[x] = s })
                      + Cardinality({ r \in releasing : r[2] = s })
                      + Cardinality({ p \in Clients \X (1 .. MaxSessions) :
                          p[2] \in DOMAIN idle[p[1]] /\ idle[p[1]][p[2]].session = s }) <= 1
  BY DEF ExclusiveSession
<1> DEFINE A == { x \in Calls : session[x] = s }
           B == { r \in releasing : r[2] = s }
           C == { p \in Clients \X (1 .. MaxSessions) :
                    p[2] \in DOMAIN idle[p[1]] /\ idle[p[1]][p[2]].session = s }
<1>1. s # None
  BY PoolFacts
<1>2. \A x, y \in A : x = y
  BY <1>1 DEF PlacesInv, OneCall
<1>3. \A p, q \in B : p = q
  BY DEF PlacesInv, OneTask
<1>4. \A p \in C : /\ p[1] \in Clients /\ p[2] \in 1 .. Len(idle[p[1]])
                   /\ idle[p[1]][p[2]].session = s /\ p = <<p[1], p[2]>>
  BY LenProperties DEF PoolType
<1>5. ASSUME NEW p \in C, NEW q \in C PROVE p = q
  <2>1. p[1] = q[1] /\ p[2] = q[2]
    BY <1>4 DEF PlacesInv, OnePlace
  <2> QED BY <1>4, <2>1
<1>6. /\ C # {} => InDeque(s)
      /\ B # {} => InTask(s)
  BY <1>4 DEF InDeque, InTask
<1>7. /\ A # {} => B = {} /\ C = {}
      /\ B # {} => C = {}
  BY <1>1, <1>6 DEF PlacesInv, Apart
<1>8. /\ (Cardinality(A) = 0 \/ Cardinality(A) = 1) /\ (A = {} => Cardinality(A) = 0)
      /\ (Cardinality(B) = 0 \/ Cardinality(B) = 1) /\ (B = {} => Cardinality(B) = 0)
      /\ (Cardinality(C) = 0 \/ Cardinality(C) = 1) /\ (C = {} => Cardinality(C) = 0)
  <2> HIDE DEF A, B, C
  <2> QED BY <1>2, <1>3, <1>5, AtMostOne
<1> HIDE DEF A, B, C
<1>9. Cardinality(A) + Cardinality(B) + Cardinality(C) <= 1
  BY <1>7, <1>8
<1> QED BY <1>9 DEF A, B, C

LEMMA PoolOldestFirst == ASSUME PoolInv PROVE OldestFirst
BY LenProperties DEF PoolInv, PoolType, Ordered, OldestFirst

(* As many sessions as entries, when no two entries have the same one.     *)
LEMMA PooledCount ==
  ASSUME NEW q \in Seq(Entry),
         \A i, j \in 1 .. Len(q) : q[i].session = q[j].session => i = j
  PROVE  Cardinality({ q[i].session : i \in DOMAIN q }) = Len(q)
<1> DEFINE P == { q[i].session : i \in 1 .. Len(q) }
           f == [i \in 1 .. Len(q) |-> q[i].session]
<1>1. f \in Bijection(1 .. Len(q), P)
  <2>1. f \in [1 .. Len(q) -> P] /\ \A t \in P : \E i \in 1 .. Len(q) : f[i] = t
    OBVIOUS
  <2>2. \A i, j \in 1 .. Len(q) : f[i] = f[j] => i = j
    OBVIOUS
  <2> HIDE DEF f, P
  <2> QED BY <2>1, <2>2 DEF Bijection, Injection, Surjection, IsInjective
<1>2. Len(q) \in Nat /\ DOMAIN q = 1 .. Len(q)
  BY LenProperties
<1>3. IsFiniteSet(1 .. Len(q)) /\ Cardinality(1 .. Len(q)) = Len(q)
  BY <1>2, FS_Interval
<1>4. Cardinality(P) = Len(q)
  <2> HIDE DEF f, P
  <2> QED BY <1>1, <1>3, FS_Bijection DEF ExistsBijection
<1> QED BY <1>2, <1>4

(* What a step closes and takes out of a deque.                            *)
Surplus ==
  \A c \in Clients : \A i \in DOMAIN idle[c] :
    LET s == idle[c][i].session
        left == { idle'[c][j].session : j \in DOMAIN idle'[c] }
    IN  ~closed[s] /\ closed'[s] /\ s \notin left =>
          idle[c][i].expired /\ Cardinality(left) >= MinIdle

LEMMA CleanupSurplus ==
  ASSUME PoolInv, PoolInv', NEW x \in Calls, CleanupIdle(x)
  PROVE  Surplus
<1> USE DEF PoolInv
<1> SUFFICES ASSUME NEW d \in Clients, NEW i \in DOMAIN idle[d],
                    NEW s, s = idle[d][i].session, ~closed[s], closed'[s],
                    s \notin { idle'[d][j].session : j \in DOMAIN idle'[d] }
             PROVE  /\ idle[d][i].expired
                    /\ Cardinality({ idle'[d][j].session : j \in DOMAIN idle'[d] }) >= MinIdle
  BY DEF Surplus
<1>1. PICK c \in Clients : c = client[x]
  BY PoolFacts DEF CleanupIdle, CallsOK, Holding, PoolType
<1>2. PICK p \in Seq(Entry) : p = idle[c]
  BY DEF PoolType
<1>3. PICK q \in Seq(Entry) : /\ q = Kept(p)
                              /\ \E h : /\ Embeds(h, q, p)
                                        /\ \A m \in 1 .. Len(p) :
                                             \/ \E k \in 1 .. Len(q) : h[k] = m
                                             \/ closed[p[m].session]
                                             \/ p[m].expired /\ Len(q) >= MinIdle
  BY PoolFacts, KeptFacts
<1>4. PICK h : /\ Embeds(h, q, p)
               /\ \A m \in 1 .. Len(p) : \/ \E k \in 1 .. Len(q) : h[k] = m
                                         \/ closed[p[m].session]
                                         \/ p[m].expired /\ Len(q) >= MinIdle
  BY <1>3
<1>5. /\ idle' = [idle EXCEPT ![c] = q]
      /\ closed' = [t \in Sessions |-> closed[t] \/
           (t \in Pooled(c) /\ \A k \in DOMAIN q : q[k].session # t)]
  BY <1>1, <1>2, <1>3 DEF CleanupIdle
<1>6. idle'[c] = q
  BY <1>5 DEF PoolType
<1>7. i \in 1 .. Len(idle[d]) /\ s \in Sessions
  <2>1. PICK r \in Seq(Entry) : r = idle[d]
    BY DEF PoolType
  <2>2. i \in 1 .. Len(r) /\ r[i] \in Entry
    BY <2>1, LenProperties, ElementOfSeq
  <2> QED BY <2>1, <2>2 DEF Entry
<1>8. s \in Pooled(c)
  BY <1>5, <1>7
<1>9. d = c
  <2>1. PICK k \in 1 .. Len(p) : p[k].session = s
    BY <1>2, <1>8, LenProperties DEF Pooled
  <2> QED BY <1>2, <1>7, <2>1 DEF PlacesInv, OnePlace
<1>10. ~\E k \in 1 .. Len(q) : h[k] = i
  <2> SUFFICES ASSUME NEW k \in 1 .. Len(q), h[k] = i PROVE FALSE
    OBVIOUS
  <2>1. q[k].session = s
    BY <1>2, <1>4, <1>9 DEF Embeds
  <2> QED BY <1>6, <1>9, <2>1, LenProperties
<1>11. p[i].expired /\ Len(q) >= MinIdle
  BY <1>2, <1>4, <1>7, <1>9, <1>10
<1>12. Cardinality({ q[j].session : j \in DOMAIN q }) = Len(q)
  <2>1. \A k, m \in 1 .. Len(q) : q[k].session = q[m].session => k = m
    BY <1>6 DEF PlacesInv, OnePlace
  <2> QED BY <2>1, PooledCount
<1> QED BY <1>2, <1>6, <1>9, <1>11, <1>12

(* The server closes a session; its entry stays where it is.               *)
LEMMA ClosesSurplus ==
  ASSUME PoolInv, NEW t \in Sessions, SessionCloses(t)
  PROVE  Surplus
BY DEF SessionCloses, Surplus

LEMMA PoolSurplus == ASSUME PoolInv, PoolInv', [Next]_vars PROVE Surplus
<1>1. CASE \E x \in Calls : CleanupIdle(x)
  BY <1>1, CleanupSurplus
<1>2. CASE \E s \in Sessions : SessionCloses(s)
  BY <1>2, ClosesSurplus
<1>3. CASE closed' = closed
  BY <1>3 DEF Surplus
<1>4. ASSUME NEW x \in Calls,
             \/ Lookup(x) \/ MakeClient(x) \/ ResolveFails(x)
             \/ TakeIdle(x) \/ CreateSession(x) \/ CreateFails(x)
             \/ OpenStream(x) \/ SendReturns(x) \/ DropStream(x)
      PROVE  closed' = closed
  BY <1>4 DEF Lookup, MakeClient, ResolveFails, TakeIdle, CreateSession, CreateFails,
     OpenStream, SendReturns, DropStream
<1>5. ASSUME NEW c, NEW s, Release(c, s) \/ Expire(c, s) PROVE closed' = closed
  BY <1>5 DEF Release, Expire
<1>6. UNCHANGED vars => closed' = closed
  BY DEF vars
<1> QED BY <1>1, <1>2, <1>3, <1>4, <1>5, <1>6 DEF Next

-----------------------------------------------------------------------------
(* Both levels.                                                            *)
Inv == PoolInv /\ SessionInv /\ EndsInv

LEMMA LevelStep ==
  ASSUME Inv, [levelNext]_<<level, vars, sessionVars>>
  PROVE  Inv' /\ [Next]_vars
<1>1. UNCHANGED vars => PoolInv'
  BY DEF Inv, vars, PoolInv, PoolType, CallsOK, PlacesInv, OneCall, OneTask, OnePlace, Apart,
     Created, InTask, InDeque, Ordered
<1>2. UNCHANGED sessionVars => SessionInv' /\ EndsInv'
  BY QuietStep, EndsQuiet DEF Inv, sessionVars
<1>3. /\ Next \/ UNCHANGED vars
      /\ Session!Next \/ UNCHANGED sessionVars
  BY DEF levelNext
<1> QED BY <1>1, <1>2, <1>3, PoolStep, SessionStep, EndsStep DEF Inv

(* The invariant holds in every behaviour of either level.                 *)
LEMMA InvAlways == AnyTlsSpec => []Inv
<1>1. levelInit => Inv
  BY PoolStart, SessionStart, EndsStart DEF levelInit, Inv
<1>2. Inv /\ [levelNext]_<<level, vars, sessionVars>> => Inv'
  BY LevelStep
<1> QED BY <1>1, <1>2, PTL DEF AnyTlsSpec

(* A session never serves two: connect, take_idle, the drop of a stream,   *)
(* the release task and cleanup_idle hand it over whole.                   *)
THEOREM ExclusiveSessionAlways == AnyTlsSpec => []ExclusiveSession
<1>1. Inv => ExclusiveSession
  BY PoolExclusive DEF Inv
<1> QED BY <1>1, InvAlways, PTL

(* release appends and cleanup_idle keeps the order, so the entries that   *)
(* have expired are a prefix of their deque.                               *)
THEOREM OldestFirstAlways == AnyTlsSpec => []OldestFirst
<1>1. Inv => OldestFirst
  BY PoolOldestFirst DEF Inv
<1> QED BY <1>1, InvAlways, PTL

(* cleanup_idle takes an open session out of the pool only if it has       *)
(* expired and at least min_idle_sessions others are kept.                 *)
THEOREM ClosesOnlySurplusAlways == AnyTlsSpec => ClosesOnlySurplus
<1>1. Inv /\ Inv' /\ [levelNext]_<<level, vars, sessionVars>> => [Surplus]_vars
  BY LevelStep, PoolSurplus DEF Inv
<1>2. AnyTlsSpec => [][Surplus]_vars
  BY <1>1, InvAlways, PTL DEF AnyTlsSpec
<1> QED BY <1>2, PTL DEF ClosesOnlySurplus, Surplus

(* forget, the handlers and the end of the read loop leave no sender of a  *)
(* stream that is gone in the session's maps.                              *)
THEOREM NoEntryLeaksAlways == AnyTlsSpec => []NoEntryLeaks
<1>1. Inv => NoEntryLeaks
  BY SessionProperties DEF Inv, NoEntryLeaks
<1> QED BY <1>1, InvAlways, PTL

(* What the read loop hands to a stream, and poll_read to its user, is a   *)
(* prefix of what the server sent on it, and no removal of another stream  *)
(* ends it early.                                                          *)
THEOREM DeliveredInOrderAlways == AnyTlsSpec => []DeliveredInOrder
<1>1. Inv => DeliveredInOrder
  BY SessionProperties DEF Inv, DeliveredInOrder
<1> QED BY <1>1, InvAlways, PTL

(* A stream's frames reach the server as SYN, chunks and at most one FIN.  *)
THEOREM WireWellFormedAlways == AnyTlsSpec => []WireWellFormed
<1>1. Inv => WireWellFormed
  BY SessionProperties DEF Inv, WireWellFormed
<1> QED BY <1>1, InvAlways, PTL
=============================================================================
