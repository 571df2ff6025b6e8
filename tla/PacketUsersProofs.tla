-------------------------- MODULE PacketUsersProofs --------------------------
(***************************************************************************)
(* The promises of the two adapters that share packet connections, for any *)
(* number of calls, targets and connections: a call that waits is listed   *)
(* in the table of its connection, or its answer is on the way.  Each      *)
(* adapter has its own invariant; a behaviour is of one and keeps it.      *)
(***************************************************************************)
EXTENDS PacketUsers, PacketDemuxLemmas, TLAPS

(* Both models have the demultiplexer, of which PacketDemuxLemmas speaks.  *)
LEMMA UdpDemux ==
  /\ AnyTls!EmptyDemux = EmptyDemux
  /\ \A d, k, i : AnyTls!register(d, k, i) = register(d, k, i)
  /\ \A d, k, i : AnyTls!remove_by_id(d, k, i) = remove_by_id(d, k, i)
  /\ \A d, k : AnyTls!deliverable(d, k) = deliverable(d, k)
  /\ \A d, k : AnyTls!deliver_waiter(d, k) = deliver_waiter(d, k)
  /\ \A d, k : AnyTls!deliver(d, k) = deliver(d, k)
  /\ \A d : AnyTls!fail_all(d) = fail_all(d)
  /\ \A d : AnyTls!Waiters(d) = Waiters(d)
  /\ \A d : AnyTls!Elements(d) = Elements(d)
BY DEF EmptyDemux, AnyTls!EmptyDemux, Elements, AnyTls!Elements, DropAt, AnyTls!DropAt,
   Without, AnyTls!Without, Queue, AnyTls!Queue, Updated, AnyTls!Updated, Waiters,
   AnyTls!Waiters, register, AnyTls!register, remove_by_id, AnyTls!remove_by_id,
   deliverable, AnyTls!deliverable, deliver_waiter, AnyTls!deliver_waiter, deliver,
   AnyTls!deliver, Live, AnyTls!Live, LivePositions, AnyTls!LivePositions, FirstLive,
   AnyTls!FirstLive, deliver_next_waiter, AnyTls!deliver_next_waiter, deliver_next,
   AnyTls!deliver_next, fail_all, AnyTls!fail_all

(* The same of the copy of it in the VLESS model.                          *)
LEMMA MuxDemux ==
  /\ Vless!EmptyDemux = EmptyDemux
  /\ \A d, k, i : Vless!register(d, k, i) = register(d, k, i)
  /\ \A d, k, i : Vless!remove_by_id(d, k, i) = remove_by_id(d, k, i)
  /\ \A d, k : Vless!deliverable(d, k) = deliverable(d, k)
  /\ \A d, k : Vless!deliver_waiter(d, k) = deliver_waiter(d, k)
  /\ \A d, k : Vless!deliver(d, k) = deliver(d, k)
  /\ \A d : Vless!fail_all(d) = fail_all(d)
  /\ \A d : Vless!LivePositions(d) = LivePositions(d)
  /\ \A d : Vless!deliver_next_waiter(d) = deliver_next_waiter(d)
  /\ \A d : Vless!deliver_next(d) = deliver_next(d)
  /\ \A d : Vless!Waiters(d) = Waiters(d)
  /\ \A d, k : Vless!Queue(d, k) = Queue(d, k)
  /\ \A d : Vless!Elements(d) = Elements(d)
BY DEF EmptyDemux, Vless!EmptyDemux, Elements, Vless!Elements, DropAt, Vless!DropAt,
   Without, Vless!Without, Queue, Vless!Queue, Updated, Vless!Updated, Waiters,
   Vless!Waiters, register, Vless!register, remove_by_id, Vless!remove_by_id,
   deliverable, Vless!deliverable, deliver_waiter, Vless!deliver_waiter, deliver,
   Vless!deliver, Live, Vless!Live, LivePositions, Vless!LivePositions, FirstLive,
   Vless!FirstLive, deliver_next_waiter, Vless!deliver_next_waiter, deliver_next,
   Vless!deliver_next, fail_all, Vless!fail_all

-----------------------------------------------------------------------------
(* AnyTLS UDP over TCP. *)
UdpWaiting == {"write", "wait"}
UdpEarly == {"start", "lookup", "open", "install", "check", "register"}
UdpWorking == {"install", "check", "register", "write", "unwrite", "wait", "expired",
            "erred", "failall", "detach"}
UdpDone == {"ok", "err"}
UdpResults == {Target, AnyTls!Failed}

-----------------------------------------------------------------------------
(* The calls and their connections.                                        *)
UdpCallType ==
  /\ opened \in 0 .. MaxConns
  /\ slot \in 0 .. opened
  /\ closed \in [AnyTls!Conns -> BOOLEAN]
  /\ pc = [x \in Calls |-> pc[x]]
  /\ conn \in [Calls -> 0 .. opened]
  /\ first \in [Calls -> 0 .. opened]

ConnKnown == \A x \in Calls : pc[x] \in UdpWorking => conn[x] # AnyTls!NoConn

(* A first attempt that failed has closed its connection before it looks   *)
(* for another; whoever fails all has stored the flag before.              *)
FirstClosed ==
  /\ \A x \in Calls : first[x] # AnyTls!NoConn => closed[first[x]]
  /\ \A x \in Calls : pc[x] \in {"failall", "detach"} =>
                        first[x] = AnyTls!NoConn /\ closed[conn[x]]

UdpCallInv == UdpCallType /\ ConnKnown /\ FirstClosed /\ AnyTls!RetryUsesAnotherConn

(* A connection a call has is one of the connections.                      *)
LEMMA ConnFacts ==
  ASSUME AnyTls!AnyTlsUdpAssumption, UdpCallInv
  PROVE  \A y \in Calls : /\ first[y] # AnyTls!NoConn => first[y] \in AnyTls!Conns
                          /\ conn[y] # AnyTls!NoConn => conn[y] \in AnyTls!Conns
BY DEF AnyTls!AnyTlsUdpAssumption, UdpCallInv, UdpCallType, AnyTls!Conns, AnyTls!NoConn

(* What return does to the calls.                                          *)
LEMMA UdpReturnFacts ==
  ASSUME UdpCallInv, NEW x \in Calls, NEW result, AnyTls!Return(x, result)
  PROVE  /\ pc'[x] = result /\ conn'[x] = AnyTls!NoConn /\ first'[x] = AnyTls!NoConn
         /\ slot' \in {slot, AnyTls!NoConn}
         /\ pc' = [y \in Calls |-> pc'[y]]
         /\ conn' \in [Calls -> 0 .. opened] /\ first' \in [Calls -> 0 .. opened]
         /\ \A y \in Calls \ {x} : /\ pc'[y] = pc[y] /\ conn'[y] = conn[y]
                                   /\ first'[y] = first[y]
BY DEF UdpCallInv, UdpCallType, AnyTls!Return, AnyTls!Goto, AnyTls!NoConn

(* A step that changes at most call x and takes no flag back.              *)
LEMMA UdpCallKept ==
  ASSUME AnyTls!AnyTlsUdpAssumption, UdpCallInv, UdpCallType', NEW x \in Calls,
         \A y \in Calls \ {x} : /\ pc'[y] = pc[y] /\ conn'[y] = conn[y]
                                /\ first'[y] = first[y],
         \A c \in AnyTls!Conns : closed[c] => closed'[c],
         pc'[x] \in UdpWorking => conn'[x] # AnyTls!NoConn,
         first'[x] # AnyTls!NoConn => closed'[first'[x]],
         pc'[x] \in {"failall", "detach"} => first'[x] = AnyTls!NoConn /\ closed'[conn'[x]],
         conn'[x] # AnyTls!NoConn /\ first'[x] # AnyTls!NoConn => conn'[x] # first'[x]
  PROVE  UdpCallInv'
<1>1. ConnKnown'
  BY DEF UdpCallInv, ConnKnown
<1>2. AnyTls!RetryUsesAnotherConn'
  BY DEF UdpCallInv, AnyTls!RetryUsesAnotherConn
<1>3. \A y \in Calls : /\ first[y] # AnyTls!NoConn => first[y] \in AnyTls!Conns
                       /\ conn[y] # AnyTls!NoConn => conn[y] \in AnyTls!Conns
  BY ConnFacts
<1>4. \A y \in Calls : first'[y] # AnyTls!NoConn => closed'[first'[y]]
  BY <1>3 DEF UdpCallInv, FirstClosed
<1>5. \A y \in Calls : pc'[y] \in {"failall", "detach"} =>
                         first'[y] = AnyTls!NoConn /\ closed'[conn'[y]]
  BY <1>3 DEF UdpCallInv, FirstClosed, ConnKnown, UdpWorking
<1> QED BY <1>1, <1>2, <1>4, <1>5 DEF UdpCallInv, FirstClosed

(* The two looks at the map and the opening in between.                    *)
LEMMA UdpCallEarly ==
  ASSUME AnyTls!AnyTlsUdpAssumption, UdpCallInv, NEW x \in Calls,
         AnyTls!Start(x) \/ AnyTls!Lookup(x) \/ AnyTls!Open(x) \/ AnyTls!OpenFails(x)
         \/ AnyTls!Install(x)
  PROVE  UdpCallInv'
<1> USE DEF AnyTls!NoConn
<1>1. CASE AnyTls!Start(x)
  <2>1. /\ pc' = [pc EXCEPT ![x] = "lookup"] /\ slot' \in {slot, AnyTls!NoConn}
        /\ UNCHANGED <<opened, closed, conn, first>>
    BY <1>1 DEF AnyTls!Start, AnyTls!Goto
  <2>2. UdpCallType'
    BY <2>1 DEF UdpCallInv, UdpCallType
  <2>3. pc'[x] = "lookup" /\ \A y \in Calls \ {x} : pc'[y] = pc[y]
    BY <2>1 DEF UdpCallInv, UdpCallType
  <2> QED BY <2>1, <2>2, <2>3, UdpCallKept DEF UdpCallInv, FirstClosed,
      AnyTls!RetryUsesAnotherConn, UdpWorking
<1>2. CASE AnyTls!Lookup(x) \/ AnyTls!Install(x)
  <2>1. /\ pc'[x] \in {"check", "open"} /\ \A y \in Calls \ {x} : pc'[y] = pc[y]
        /\ pc' = [y \in Calls |-> pc'[y]]
        /\ UNCHANGED <<opened, closed, first>>
    BY <1>2 DEF AnyTls!Lookup, AnyTls!Install, AnyTls!Goto, AnyTls!connVars, UdpCallInv,
       UdpCallType
  <2>2. /\ slot' = slot \/ slot' = conn[x]
        /\ \/ AnyTls!Usable(slot) /\ conn' = [conn EXCEPT ![x] = slot]
           \/ UNCHANGED conn /\ (pc'[x] = "check" => pc[x] = "install")
    BY <1>2, <2>1 DEF AnyTls!Lookup, AnyTls!Install, AnyTls!Goto, AnyTls!connVars,
       UdpCallInv, UdpCallType
  <2>3. UdpCallType'
    BY <2>1, <2>2 DEF UdpCallInv, UdpCallType
  <2>4. CASE AnyTls!Usable(slot) /\ conn' = [conn EXCEPT ![x] = slot]
    <3>1. conn'[x] = slot /\ slot # AnyTls!NoConn /\ ~closed[slot]
          /\ \A y \in Calls \ {x} : conn'[y] = conn[y]
      BY <2>4 DEF AnyTls!Usable, UdpCallInv, UdpCallType
    <3> QED BY <2>1, <2>3, <3>1, UdpCallKept DEF UdpCallInv, FirstClosed
  <2>5. CASE UNCHANGED conn /\ (pc'[x] = "check" => pc[x] = "install")
    BY <2>1, <2>3, <2>5, UdpCallKept DEF UdpCallInv, FirstClosed, ConnKnown,
       AnyTls!RetryUsesAnotherConn, UdpWorking
  <2> QED BY <2>2, <2>4, <2>5
<1>3. CASE AnyTls!Open(x)
  <2>1. /\ opened' = opened + 1 /\ opened' \in 0 .. MaxConns
        /\ conn' = [conn EXCEPT ![x] = opened + 1]
        /\ pc' = [pc EXCEPT ![x] = "install"]
        /\ UNCHANGED <<slot, closed, first>>
    BY <1>3 DEF AnyTls!Open, AnyTls!Goto, UdpCallInv, UdpCallType,
       AnyTls!AnyTlsUdpAssumption
  <2>2. UdpCallType'
    BY <2>1 DEF UdpCallInv, UdpCallType
  <2>3. /\ pc'[x] = "install" /\ conn'[x] = opened + 1
        /\ \A y \in Calls \ {x} : pc'[y] = pc[y] /\ conn'[y] = conn[y]
    BY <2>1 DEF UdpCallInv, UdpCallType
  <2>4. first[x] # opened + 1 /\ opened + 1 # AnyTls!NoConn
    BY DEF UdpCallInv, UdpCallType
  <2> QED BY <2>1, <2>2, <2>3, <2>4, UdpCallKept DEF UdpCallInv, FirstClosed
<1>4. CASE AnyTls!OpenFails(x)
  <2>1. AnyTls!Return(x, "err") /\ UNCHANGED <<opened, closed>>
    BY <1>4 DEF AnyTls!OpenFails
  <2>2. UdpCallType'
    BY <2>1, UdpReturnFacts DEF UdpCallInv, UdpCallType
  <2> QED BY <2>1, <2>2, UdpReturnFacts, UdpCallKept DEF UdpWorking
<1> QED BY <1>1, <1>2, <1>3, <1>4

(* Registering, writing, waiting and failing.                              *)
LEMMA UdpCallLate ==
  ASSUME AnyTls!AnyTlsUdpAssumption, UdpCallInv, NEW x \in Calls,
         \/ AnyTls!Check(x) \/ AnyTls!Register(x) \/ AnyTls!EncodeFails(x)
                     \/ AnyTls!Write(x) \/ AnyTls!WriteFails(x) \/ AnyTls!Timeout(x)
         \/ AnyTls!TimedOut(x) \/ AnyTls!Erred(x) \/ AnyTls!CloseFailsAll(x)
                     \/ AnyTls!Detach(x)
  PROVE  UdpCallInv'
<1> USE DEF AnyTls!NoConn
<1>1. pc[x] \in UdpWorking \ {"install"}
  BY UdpDemux DEF AnyTls!Check, AnyTls!Register, AnyTls!EncodeFails, AnyTls!Write,
     AnyTls!WriteFails, AnyTls!Timeout, AnyTls!TimedOut, AnyTls!Erred, AnyTls!CloseFailsAll, AnyTls!Detach,
     UdpWorking
<1>2. PICK c \in AnyTls!Conns : c = conn[x]
  BY <1>1, ConnFacts DEF UdpCallInv, ConnKnown
<1>3. CASE \/ AnyTls!Check(x) \/ AnyTls!Register(x) \/ AnyTls!EncodeFails(x)
            \/ AnyTls!Write(x)
            \/ AnyTls!WriteFails(x) \/ AnyTls!Timeout(x)
           \/ AnyTls!TimedOut(x) \/ AnyTls!CloseFailsAll(x)
  <2>1. /\ \E label \in {"erred", "register", "write", "wait", "unwrite", "expired",
            "detach"} :
             /\ pc' = [pc EXCEPT ![x] = label]
             /\ label = "detach" => pc[x] = "failall"
        /\ closed' = closed \/ closed' = [closed EXCEPT ![c] = TRUE]
        /\ UNCHANGED <<slot, opened, conn, first>>
    BY <1>2, <1>3, UdpDemux DEF AnyTls!Check, AnyTls!Register, AnyTls!EncodeFails, AnyTls!Write,
       AnyTls!WriteFails, AnyTls!Timeout, AnyTls!TimedOut, AnyTls!CloseFailsAll,
       AnyTls!Goto, AnyTls!connVars
  <2>2. UdpCallType'
    BY <2>1 DEF UdpCallInv, UdpCallType
  <2>3. /\ pc'[x] \notin {"failall"} /\ (pc'[x] = "detach" => pc[x] = "failall")
        /\ \A y \in Calls \ {x} : pc'[y] = pc[y]
        /\ \A d \in AnyTls!Conns : closed[d] => closed'[d]
    BY <2>1 DEF UdpCallInv, UdpCallType
  <2>4. first[x] # AnyTls!NoConn => first[x] \in AnyTls!Conns
    BY ConnFacts
  <2> QED BY <1>2, <2>1, <2>2, <2>3, <2>4, UdpCallKept DEF UdpCallInv, FirstClosed,
      AnyTls!RetryUsesAnotherConn, AnyTls!Conns
<1>4. CASE AnyTls!Erred(x) /\ first[x] = AnyTls!NoConn
  <2>1. /\ closed' = [closed EXCEPT ![c] = TRUE] /\ pc' = [pc EXCEPT ![x] = "failall"]
        /\ UNCHANGED <<slot, opened, conn, first>>
    BY <1>2, <1>4 DEF AnyTls!Erred, AnyTls!Goto
  <2>2. UdpCallType'
    BY <2>1 DEF UdpCallInv, UdpCallType
  <2>3. /\ pc'[x] = "failall" /\ closed'[c] /\ \A y \in Calls \ {x} : pc'[y] = pc[y]
        /\ \A d \in AnyTls!Conns : closed[d] => closed'[d]
    BY <2>1 DEF UdpCallInv, UdpCallType
  <2> QED BY <1>2, <1>4, <2>1, <2>2, <2>3, UdpCallKept DEF AnyTls!Conns
<1>5. CASE AnyTls!Erred(x) /\ first[x] # AnyTls!NoConn
  <2>1. AnyTls!Return(x, "err") /\ UNCHANGED <<opened, closed>>
    BY <1>5 DEF AnyTls!Erred
  <2>2. UdpCallType'
    BY <2>1, UdpReturnFacts DEF UdpCallInv, UdpCallType
  <2> QED BY <2>1, <2>2, UdpReturnFacts, UdpCallKept DEF UdpWorking
<1>6. CASE AnyTls!Detach(x)
  <2>1. /\ slot' \in {slot, AnyTls!NoConn} /\ UNCHANGED <<opened, closed>>
        /\ first' = [first EXCEPT ![x] = c] /\ conn' = [conn EXCEPT ![x] = AnyTls!NoConn]
        /\ pc' = [pc EXCEPT ![x] = "lookup"] /\ closed[c]
    BY <1>2, <1>6 DEF AnyTls!Detach, AnyTls!Goto, UdpCallInv, FirstClosed
  <2>2. UdpCallType'
    BY <1>2, <2>1 DEF UdpCallInv, UdpCallType
  <2>3. /\ pc'[x] = "lookup" /\ first'[x] = c /\ conn'[x] = AnyTls!NoConn
        /\ \A y \in Calls \ {x} : pc'[y] = pc[y] /\ first'[y] = first[y]
                    /\ conn'[y] = conn[y]
    BY <2>1 DEF UdpCallInv, UdpCallType
  <2> QED BY <2>1, <2>2, <2>3, UdpCallKept DEF UdpWorking
<1> QED BY <1>3, <1>4, <1>5, <1>6

(* A result that is sent, the readers, the passing of time.                *)
LEMMA UdpCallOthers ==
  ASSUME AnyTls!AnyTlsUdpAssumption, UdpCallInv,
         \/ \E s \in sending : s[2] \in Calls /\ AnyTls!Send(s[1], s[2], s[3])
         \/ \E c \in AnyTls!Conns : AnyTls!ReaderStep(c) \/ AnyTls!GrowIdle(c)
         \/ UNCHANGED AnyTls!vars
  PROVE  UdpCallInv'
<1>1. CASE \E s \in sending : s[2] \in Calls /\ AnyTls!Send(s[1], s[2], s[3])
  <2>1. PICK s \in sending : s[2] \in Calls /\ AnyTls!Send(s[1], s[2], s[3])
    BY <1>1
  <2>2. PICK x \in Calls : x = s[2]
    BY <2>1
  <2>3. UNCHANGED <<opened, closed>>
    BY <2>1 DEF AnyTls!Send
  <2>4. CASE UNCHANGED <<slot, pc, conn, first>>
    BY <2>3, <2>4 DEF UdpCallInv, UdpCallType, ConnKnown, FirstClosed,
       AnyTls!RetryUsesAnotherConn
  <2>5. CASE AnyTls!Return(x, "ok")
    <3>1. UdpCallType'
      BY <2>3, <2>5, UdpReturnFacts DEF UdpCallInv, UdpCallType, AnyTls!NoConn
    <3> QED BY <2>3, <2>5, <3>1, UdpReturnFacts, UdpCallKept DEF UdpWorking
  <2>6. CASE AnyTls!Goto(x, "erred") /\ pc[x] = "wait" /\ UNCHANGED <<slot, conn, first>>
    <3>1. UdpCallType'
      BY <2>3, <2>6 DEF UdpCallInv, UdpCallType, AnyTls!Goto
    <3>2. pc'[x] = "erred" /\ \A y \in Calls \ {x} : pc'[y] = pc[y]
      BY <2>6 DEF UdpCallInv, UdpCallType, AnyTls!Goto
    <3>3. conn[x] # AnyTls!NoConn
      BY <2>6 DEF UdpCallInv, ConnKnown, UdpWorking
    <3> QED BY <2>3, <2>6, <3>1, <3>2, <3>3, UdpCallKept DEF UdpCallInv, FirstClosed,
        AnyTls!RetryUsesAnotherConn
  <2> QED BY <2>1, <2>2, <2>4, <2>5, <2>6 DEF AnyTls!Send, AnyTls!callVars
<1>2. CASE (\E c \in AnyTls!Conns : AnyTls!ReaderStep(c) \/ AnyTls!GrowIdle(c))
            \/ UNCHANGED AnyTls!vars
  <2>1. /\ UNCHANGED <<slot, opened, pc, conn, first>>
        /\ closed' = closed \/ \E c \in AnyTls!Conns : closed' = [closed EXCEPT ![c] = TRUE]
    BY <1>2, UdpDemux DEF AnyTls!ReaderStep, AnyTls!ReadFails, AnyTls!ReaderFailsAll,
       AnyTls!ReaderDelivers, AnyTls!ReaderAborted, AnyTls!GrowIdle, AnyTls!callVars,
       AnyTls!vars, AnyTls!connVars
  <2>2. /\ closed' \in [AnyTls!Conns -> BOOLEAN]
        /\ \A d \in AnyTls!Conns : closed[d] => closed'[d]
    BY <2>1 DEF UdpCallInv, UdpCallType
  <2>3. \A y \in Calls : /\ first[y] # AnyTls!NoConn => first[y] \in AnyTls!Conns
                         /\ conn[y] # AnyTls!NoConn => conn[y] \in AnyTls!Conns
    BY ConnFacts
  <2>4. UdpCallType' /\ ConnKnown' /\ AnyTls!RetryUsesAnotherConn'
    BY <2>1, <2>2 DEF UdpCallInv, UdpCallType, ConnKnown, AnyTls!RetryUsesAnotherConn
  <2>5. FirstClosed'
    BY <2>1, <2>2, <2>3 DEF UdpCallInv, FirstClosed, ConnKnown, UdpWorking
  <2> QED BY <2>4, <2>5 DEF UdpCallInv
<1> QED BY <1>1, <1>2

-----------------------------------------------------------------------------
(* The tables and the answers on their way.                                *)
UdpEntries(c) == Elements(demux[c].fifo)

UdpWaiterType ==
  /\ demux = [c \in AnyTls!Conns |-> demux[c]]
  /\ \A c \in AnyTls!Conns : DemuxType(demux[c], {Target}, Calls) /\ DemuxOK(demux[c])
  /\ sending \subseteq AnyTls!Conns \X Calls \X UdpResults

(* A table entry belongs to a call that registered it with this connection. *)
UdpEntriesOwned ==
  \A c \in AnyTls!Conns : \A e \in UdpEntries(c) :
    pc[e[2]] \in UdpWaiting \cup {"expired"} /\ conn[e[2]] = c

(* The connections that may still owe call y a result: a call that is not  *)
(* registered yet has dealt only with that of its first attempt.           *)
SentFrom(y) ==
  IF pc[y] \in UdpEarly THEN {first[y]}
  ELSE IF pc[y] \in UdpDone THEN AnyTls!Conns ELSE {conn[y], first[y]}

(* A result on its way has left the table of its connection.               *)
UdpSendingOwned ==
  \A s \in sending : s[1] \in SentFrom(s[2]) /\ \A e \in UdpEntries(s[1]) : e[2] # s[2]

UdpWaitingIsHeld ==
  \A x \in Calls : pc[x] \in UdpWaiting =>
    \/ <<Target, x>> \in UdpEntries(conn[x])
    \/ \E result \in UdpResults : <<conn[x], x, result>> \in sending

UdpWaiterInv ==
  /\ UdpWaiterType
  /\ UdpEntriesOwned
  /\ UdpSendingOwned
  /\ UdpWaitingIsHeld

(* What a step that registers nobody may do with a call y: nothing; move   *)
(* it along while it waits; or take it away from the tables.               *)
UdpGoesOn(y) ==
  /\ SentFrom(y) \cap AnyTls!Conns \subseteq SentFrom(y)'
  /\ \/ pc'[y] = pc[y] /\ conn'[y] = conn[y]
     \/ /\ pc[y] \in UdpWaiting /\ pc'[y] \in {"wait", "expired"}
        /\ conn'[y] = conn[y]
     \/ /\ \A c \in AnyTls!Conns : \A e \in UdpEntries(c)' : e[2] # y
        /\ pc'[y] \notin UdpWaiting

(* A call is listed only between its registration and its return.          *)
LEMMA UdpListedCalls ==
  ASSUME UdpWaiterInv, NEW c \in AnyTls!Conns, NEW e \in UdpEntries(c)
  PROVE  /\ e = <<Target, e[2]>>
         /\ e[2] \in Calls /\ conn[e[2]] = c
         /\ pc[e[2]] \in {"write", "wait", "expired"}
<1>1. e \in {Target} \X Calls
  BY WaitersFacts DEF UdpWaiterInv, UdpWaiterType, UdpEntries
<1> QED BY <1>1 DEF UdpWaiterInv, UdpEntriesOwned, UdpWaiting

(* A call that is not waiting is not listed anywhere.                      *)
LEMMA UdpUnlistedCall ==
  ASSUME UdpWaiterInv, NEW y \in Calls, pc[y] \notin {"write", "wait", "expired"}
  PROVE  \A c \in AnyTls!Conns : \A e \in UdpEntries(c) : e[2] # y
BY UdpListedCalls

(* A step that takes entries out of the table of one connection c, each to *)
(* be answered unless its call is gone, keeps the invariant.               *)
LEMMA UdpTakeStep ==
  ASSUME AnyTls!AnyTlsUdpAssumption, UdpCallInv, UdpWaiterInv, UdpWaiterType',
         NEW c \in AnyTls!Conns,
         \A y \in Calls : UdpGoesOn(y),
         \A d \in AnyTls!Conns \ {c} : demux'[d] = demux[d],
         UdpEntries(c)' \subseteq UdpEntries(c),
         \A e \in UdpEntries(c) \ UdpEntries(c)' :
           \/ pc'[e[2]] \notin UdpWaiting
           \/ \E result \in UdpResults : <<c, e[2], result>> \in sending',
         \A s \in sending' \ sending :
           s[1] = c /\ \E e \in UdpEntries(c) \ UdpEntries(c)' : e[2] = s[2],
         \A s \in sending \ sending' :
           pc'[s[2]] \notin UdpWaiting \/ conn'[s[2]] # s[1]
  PROVE  UdpWaiterInv'
<1>1. \A d \in AnyTls!Conns : UdpEntries(d)' \subseteq UdpEntries(d)
  BY DEF UdpEntries
<1>2. UdpEntriesOwned'
  <2> SUFFICES ASSUME NEW d \in AnyTls!Conns, NEW e \in UdpEntries(d)'
               PROVE  pc'[e[2]] \in UdpWaiting \cup {"expired"} /\ conn'[e[2]] = d
    BY DEF UdpEntriesOwned, UdpWaiting
  <2>1. /\ e[2] \in Calls /\ conn[e[2]] = d
        /\ pc[e[2]] \in {"write", "wait", "expired"}
    BY <1>1, UdpListedCalls
  <2>2. UdpGoesOn(e[2]) /\ ~ \A u \in AnyTls!Conns : \A f \in UdpEntries(u)' : f[2] # e[2]
    BY <2>1
  <2> QED BY <2>1, <2>2 DEF UdpGoesOn, UdpWaiting
<1>3. UdpSendingOwned'
  <2> SUFFICES ASSUME NEW s \in sending'
               PROVE  s[1] \in SentFrom(s[2])' /\ \A e \in UdpEntries(s[1])' : e[2] # s[2]
    BY DEF UdpSendingOwned
  <2>1. s[1] \in AnyTls!Conns /\ s[2] \in Calls
    BY DEF UdpWaiterType
  <2>2. SentFrom(s[2]) \cap AnyTls!Conns \subseteq SentFrom(s[2])'
    BY <2>1 DEF UdpGoesOn
  <2>3. CASE s \in sending
    <3>1. s[1] \in SentFrom(s[2]) /\ \A e \in UdpEntries(s[1]) : e[2] # s[2]
      BY <2>3 DEF UdpWaiterInv, UdpSendingOwned
    <3> QED BY <1>1, <2>1, <2>2, <3>1
  <2>4. CASE s \notin sending
    <3>1. s[1] = c
      BY <2>4
    <3>2. PICK e \in UdpEntries(c) \ UdpEntries(c)' : e[2] = s[2]
      BY <2>4
    <3>3. pc[s[2]] \in {"write", "wait", "expired"} /\ conn[s[2]] = c
                /\ e = <<Target, s[2]>>
      BY <3>2, UdpListedCalls
    <3>4. c \in SentFrom(s[2])
      BY <3>3 DEF SentFrom, UdpEarly, UdpDone
    <3>5. \A f \in UdpEntries(c)' : f[2] # s[2]
      BY <1>1, <3>2, <3>3, UdpListedCalls
    <3> QED BY <2>2, <3>1, <3>4, <3>5
  <2> QED BY <2>3, <2>4
<1>4. UdpWaitingIsHeld'
  <2> SUFFICES ASSUME NEW y \in Calls, pc'[y] \in UdpWaiting
               PROVE  \/ <<Target, y>> \in Elements(demux'[conn'[y]].fifo)
                      \/ \E result \in UdpResults : <<conn'[y], y, result>> \in sending'
    BY DEF UdpWaitingIsHeld, UdpEntries, UdpWaiting, UdpResults, AnyTls!Failed
  <2>1. pc[y] \in UdpWaiting /\ conn'[y] = conn[y]
    BY DEF UdpGoesOn, UdpWaiting
  <2>2. PICK d \in AnyTls!Conns : d = conn[y]
    BY <2>1, ConnFacts DEF UdpCallInv, ConnKnown, UdpWaiting, UdpWorking
  <2>3. CASE <<Target, y>> \in UdpEntries(d)
    <3>1. CASE <<Target, y>> \in UdpEntries(d)'
      BY <2>1, <2>2, <3>1 DEF UdpEntries
    <3>2. CASE <<Target, y>> \notin UdpEntries(d)'
      <4>1. d = c
        BY <2>3, <3>2 DEF UdpEntries
      <4>2. <<Target, y>>[2] = y
        OBVIOUS
      <4> QED BY <2>1, <2>2, <2>3, <3>2, <4>1, <4>2
    <3> QED BY <3>1, <3>2
  <2>4. CASE \E result \in UdpResults : <<d, y, result>> \in sending
    <3>1. PICK result \in UdpResults : <<d, y, result>> \in sending
      BY <2>4
    <3>2. <<d, y, result>>[2] = y /\ <<d, y, result>>[1] = d
      OBVIOUS
    <3>3. <<d, y, result>> \in sending'
      BY <2>1, <2>2, <3>1, <3>2
    <3> QED BY <2>1, <2>2, <3>3
  <2> QED BY <2>1, <2>2, <2>3, <2>4 DEF UdpWaiterInv, UdpWaitingIsHeld
<1> QED BY <1>2, <1>3, <1>4 DEF UdpWaiterInv

(* A step that touches neither tables nor answers.                         *)
LEMMA UdpTablesKept ==
  ASSUME AnyTls!AnyTlsUdpAssumption, UdpCallInv, UdpWaiterInv, UNCHANGED <<demux, sending>>,
         \A y \in Calls : UdpGoesOn(y)
  PROVE  UdpWaiterInv'
<1>1. UdpWaiterType' /\ \A d \in AnyTls!Conns : UdpEntries(d)' = UdpEntries(d)
  BY DEF UdpWaiterInv, UdpWaiterType, UdpEntries
<1>2. 1 \in AnyTls!Conns
  BY DEF AnyTls!AnyTlsUdpAssumption, AnyTls!Conns
<1> QED BY <1>1, <1>2, UdpTakeStep

(* What fail_all of a connection's table does: the table is empty, and     *)
(* each of its waiters is about to be failed.                              *)
LEMMA UdpFailFacts ==
  ASSUME UdpWaiterInv, NEW c \in AnyTls!Conns,
         demux' = [demux EXCEPT ![c] = fail_all(demux[c])],
         AnyTls!SendAll(c, Waiters(demux[c]), AnyTls!Failed)
  PROVE  /\ UdpWaiterType'
         /\ UdpEntries(c)' = {}
         /\ \A d \in AnyTls!Conns \ {c} : demux'[d] = demux[d]
         /\ \A e \in UdpEntries(c) : <<c, e[2], AnyTls!Failed>> \in sending'
         /\ \A s \in sending' \ sending : s[1] = c /\ \E e \in UdpEntries(c) : e[2] = s[2]
         /\ sending \subseteq sending'
<1>1. PICK d : d = demux[c]
  OBVIOUS
<1>2. DemuxType(d, {Target}, Calls) /\ DemuxOK(d) /\ Elements(d.fifo) = UdpEntries(c)
  BY <1>1 DEF UdpWaiterInv, UdpWaiterType, UdpEntries
<1>3. /\ \A id : id \in Waiters(d) <=> \E e \in UdpEntries(c) : e[2] = id
      /\ \A e \in UdpEntries(c) : e \in {Target} \X Calls
  BY <1>2, WaitersFacts
<1>4. Waiters(d) \subseteq Calls
  BY <1>3
<1>5. demux'[c] = EmptyDemux /\ \A b \in AnyTls!Conns \ {c} : demux'[b] = demux[b]
  BY DEF UdpWaiterInv, UdpWaiterType, fail_all
<1>6. sending' = sending \cup ({c} \X Waiters(d) \X {AnyTls!Failed})
  BY <1>1 DEF AnyTls!SendAll
<1>7. UdpWaiterType'
  <2>1. demux' = [b \in AnyTls!Conns |-> demux'[b]]
    BY DEF UdpWaiterInv, UdpWaiterType
  <2>2. \A b \in AnyTls!Conns : DemuxType(demux'[b], {Target}, Calls) /\ DemuxOK(demux'[b])
    BY <1>5, EmptyDemuxFacts DEF UdpWaiterInv, UdpWaiterType
  <2>3. sending' \subseteq AnyTls!Conns \X Calls \X UdpResults
    BY <1>4, <1>6 DEF UdpWaiterInv, UdpWaiterType, UdpResults
  <2> QED BY <2>1, <2>2, <2>3 DEF UdpWaiterType, UdpResults, AnyTls!Failed
<1>8. UdpEntries(c)' = {}
  BY <1>5, EmptyDemuxFacts DEF UdpEntries
<1> QED BY <1>3, <1>5, <1>6, <1>7, <1>8

(* What taking one waiter out of a connection's table does.                *)
LEMMA UdpRemovedFacts ==
  ASSUME UdpWaiterInv, NEW c \in AnyTls!Conns, NEW x \in Calls,
         demux' = [demux EXCEPT ![c] = remove_by_id(demux[c], Target, x)],
         sending' \subseteq AnyTls!Conns \X Calls \X UdpResults
  PROVE  /\ UdpWaiterType'
         /\ UdpEntries(c)' = UdpEntries(c) \ {<<Target, x>>}
         /\ \A d \in AnyTls!Conns \ {c} : demux'[d] = demux[d]
<1>1. PICK d : d = demux[c]
  OBVIOUS
<1>2. DemuxType(d, {Target}, Calls) /\ DemuxOK(d)
  BY <1>1 DEF UdpWaiterInv, UdpWaiterType
<1>3. PICK r : r = remove_by_id(d, Target, x)
  OBVIOUS
<1>4. /\ DemuxType(r, {Target}, Calls) /\ DemuxOK(r)
      /\ r.fifo = Without(d.fifo, <<Target, x>>)
      /\ Elements(r.fifo) = Elements(d.fifo) \ {<<Target, x>>}
  BY <1>2, <1>3, RemoveFacts
<1>5. demux' = [demux EXCEPT ![c] = r]
  BY <1>1, <1>3
<1>6. demux'[c] = r /\ \A b \in AnyTls!Conns \ {c} : demux'[b] = demux[b]
  BY <1>5 DEF UdpWaiterInv, UdpWaiterType
<1>7. demux' = [b \in AnyTls!Conns |-> demux'[b]]
  BY <1>5 DEF UdpWaiterInv, UdpWaiterType
<1>8. UdpEntries(c)' = UdpEntries(c) \ {<<Target, x>>}
  BY <1>1, <1>4, <1>6 DEF UdpEntries
<1>9. UdpWaiterType'
  BY <1>4, <1>6, <1>7 DEF UdpWaiterInv, UdpWaiterType, UdpResults, AnyTls!Failed
<1> QED BY <1>6, <1>8, <1>9

-----------------------------------------------------------------------------
(* A call that has not registered yet.                                     *)
LEMMA UdpEarlyWaiters ==
  ASSUME AnyTls!AnyTlsUdpAssumption, UdpCallInv, UdpWaiterInv, NEW x \in Calls,
         AnyTls!Start(x) \/ AnyTls!Lookup(x) \/ AnyTls!Open(x) \/ AnyTls!OpenFails(x)
         \/ AnyTls!Install(x) \/ AnyTls!Check(x) \/ AnyTls!EncodeFails(x)
  PROVE  UdpWaiterInv'
<1>1. UNCHANGED <<demux, sending>>
  BY UdpDemux DEF AnyTls!Start, AnyTls!Lookup, AnyTls!Open, AnyTls!OpenFails,
     AnyTls!Install, AnyTls!Check, AnyTls!EncodeFails, AnyTls!connVars
<1>2. pc[x] \in UdpEarly
  BY UdpDemux DEF AnyTls!Start, AnyTls!Lookup, AnyTls!Open, AnyTls!OpenFails,
     AnyTls!Install, AnyTls!Check, AnyTls!EncodeFails, UdpEarly
<1>3. \A d \in AnyTls!Conns : \A e \in UdpEntries(d)' : e[2] # x
  BY <1>1, <1>2, UdpUnlistedCall DEF UdpEarly, UdpEntries
<1>4. /\ pc'[x] \notin UdpWaiting
      /\ \/ first'[x] = first[x] /\ pc'[x] \in UdpEarly \cup {"erred"}
         \/ pc'[x] = "err"
      /\ \A y \in Calls \ {x} : pc'[y] = pc[y] /\ conn'[y] = conn[y] /\ first'[y] = first[y]
  <2>1. CASE AnyTls!Start(x) \/ AnyTls!Lookup(x) \/ AnyTls!Open(x)
              \/ AnyTls!Install(x) \/ AnyTls!Check(x) \/ AnyTls!EncodeFails(x)
    BY <2>1, UdpDemux DEF AnyTls!Start, AnyTls!Lookup, AnyTls!Open, AnyTls!Install,
       AnyTls!Check, AnyTls!EncodeFails, AnyTls!Goto, UdpCallInv, UdpCallType, UdpWaiting, UdpEarly
  <2>2. CASE AnyTls!OpenFails(x)
    BY <2>2, UdpReturnFacts DEF AnyTls!OpenFails, UdpWaiting
  <2> QED BY <2>1, <2>2
<1>5. SentFrom(x) \cap AnyTls!Conns \subseteq SentFrom(x)'
  BY <1>2, <1>4 DEF SentFrom, UdpEarly, UdpDone
<1>6. \A y \in Calls : UdpGoesOn(y)
  BY <1>3, <1>4, <1>5 DEF UdpGoesOn, SentFrom
<1> QED BY <1>1, <1>6, UdpTablesKept

(* A call that has written, or whose timer fires.                          *)
LEMMA UdpWaitWaiters ==
  ASSUME AnyTls!AnyTlsUdpAssumption, UdpCallInv, UdpWaiterInv, NEW x \in Calls,
         AnyTls!Write(x) \/ AnyTls!Timeout(x)
  PROVE  UdpWaiterInv'
<1>1. /\ AnyTls!Goto(x, "wait") \/ AnyTls!Goto(x, "expired")
      /\ pc[x] \in UdpWaiting
      /\ UNCHANGED <<demux, conn, first, sending>>
  BY DEF AnyTls!Write, AnyTls!Timeout, AnyTls!connVars, UdpWaiting
<1>2. /\ pc'[x] \in {"wait", "expired"}
      /\ \A y \in Calls \ {x} : pc'[y] = pc[y]
  BY <1>1 DEF AnyTls!Goto, UdpCallInv, UdpCallType
<1>3. SentFrom(x) \cap AnyTls!Conns \subseteq SentFrom(x)'
  BY <1>1, <1>2 DEF SentFrom, UdpEarly, UdpDone, UdpWaiting
<1>4. \A y \in Calls : UdpGoesOn(y)
  BY <1>1, <1>2, <1>3 DEF UdpGoesOn, SentFrom
<1> QED BY <1>1, <1>4, UdpTablesKept

(* remove_by_id after a timeout or a write that failed.                    *)
LEMMA UdpRemoveWaiters ==
  ASSUME AnyTls!AnyTlsUdpAssumption, UdpCallInv, UdpWaiterInv, NEW x \in Calls,
         AnyTls!WriteFails(x) \/ AnyTls!TimedOut(x)
  PROVE  UdpWaiterInv'
<1>1. PICK c \in AnyTls!Conns : c = conn[x]
  BY ConnFacts, UdpDemux DEF AnyTls!WriteFails, AnyTls!TimedOut, UdpCallInv, ConnKnown,
     UdpWorking
<1>2. /\ demux' = [demux EXCEPT ![c] = remove_by_id(demux[c], Target, x)]
      /\ UNCHANGED <<conn, first, sending>>
      /\ pc[x] \in {"write", "expired"}
                  /\ (AnyTls!Goto(x, "unwrite") \/ AnyTls!Goto(x, "erred"))
  BY <1>1, UdpDemux DEF AnyTls!WriteFails, AnyTls!TimedOut
<1>3. sending' \subseteq AnyTls!Conns \X Calls \X UdpResults
  BY <1>2 DEF UdpWaiterInv, UdpWaiterType
<1>4. /\ UdpWaiterType'
      /\ UdpEntries(c)' = UdpEntries(c) \ {<<Target, x>>}
      /\ \A d \in AnyTls!Conns \ {c} : demux'[d] = demux[d]
  BY <1>2, <1>3, UdpRemovedFacts
<1>5. \A d \in AnyTls!Conns : \A e \in UdpEntries(d)' : e[2] # x
  <2> SUFFICES ASSUME NEW d \in AnyTls!Conns, NEW e \in UdpEntries(d)', e[2] = x PROVE FALSE
    OBVIOUS
  <2>1. e \in UdpEntries(d)
    BY <1>4 DEF UdpEntries
  <2>2. d = c /\ e = <<Target, x>>
    BY <1>1, <2>1, UdpListedCalls
  <2> QED BY <1>4, <2>2
<1>6. pc'[x] \in {"unwrite", "erred"} /\ \A y \in Calls \ {x} : pc'[y] = pc[y]
  BY <1>2 DEF AnyTls!Goto, UdpCallInv, UdpCallType
<1>7. SentFrom(x) \cap AnyTls!Conns \subseteq SentFrom(x)'
  BY <1>2, <1>6 DEF SentFrom, UdpEarly, UdpDone
<1>8. \A y \in Calls : UdpGoesOn(y)
  BY <1>2, <1>5, <1>6, <1>7 DEF UdpGoesOn, SentFrom, UdpWaiting
<1>9. \A e \in UdpEntries(c) \ UdpEntries(c)' : pc'[e[2]] \notin UdpWaiting
  BY <1>4, <1>6 DEF UdpWaiting
<1> QED BY <1>2, <1>4, <1>8, <1>9, UdpTakeStep

(* A call that is not registered fails everybody, or gives up.             *)
LEMMA FailWaiters ==
  ASSUME AnyTls!AnyTlsUdpAssumption, UdpCallInv, UdpWaiterInv, NEW x \in Calls,
         AnyTls!Erred(x) \/ AnyTls!CloseFailsAll(x) \/ AnyTls!Detach(x)
  PROVE  UdpWaiterInv'
<1>1. PICK c \in AnyTls!Conns : c = conn[x]
  BY ConnFacts, UdpDemux DEF AnyTls!Erred, AnyTls!CloseFailsAll, AnyTls!Detach,
     UdpCallInv, ConnKnown, UdpWorking
<1>2. pc[x] \in {"erred", "unwrite", "failall", "detach"}
  BY UdpDemux DEF AnyTls!Erred, AnyTls!CloseFailsAll, AnyTls!Detach
<1>3. \A d \in AnyTls!Conns : \A e \in UdpEntries(d) : e[2] # x
  BY <1>2, UdpUnlistedCall
<1>4. /\ pc'[x] \notin UdpWaiting /\ SentFrom(x) \cap AnyTls!Conns \subseteq SentFrom(x)'
      /\ \A y \in Calls \ {x} : pc'[y] = pc[y] /\ conn'[y] = conn[y] /\ first'[y] = first[y]
  <2>1. SentFrom(x) = {c, first[x]}
    BY <1>1, <1>2 DEF SentFrom, UdpEarly, UdpDone
  <2>2. CASE AnyTls!Return(x, "err")
    BY <2>1, <2>2, UdpReturnFacts DEF SentFrom, UdpEarly, UdpDone, UdpWaiting
  <2>3. CASE /\ AnyTls!Goto(x, "erred") \/ AnyTls!Goto(x, "failall")
              \/ AnyTls!Goto(x, "detach")
             /\ UNCHANGED <<conn, first>>
    <3>1. /\ pc'[x] \in {"erred", "failall", "detach"}
          /\ \A y \in Calls \ {x} : pc'[y] = pc[y]
      BY <2>3 DEF AnyTls!Goto, UdpCallInv, UdpCallType
    <3> QED BY <1>1, <2>1, <2>3, <3>1 DEF SentFrom, UdpEarly, UdpDone, UdpWaiting
  <2>4. CASE AnyTls!Detach(x)
    <3>1. /\ pc' = [pc EXCEPT ![x] = "lookup"] /\ conn' = [conn EXCEPT ![x] = AnyTls!NoConn]
          /\ first' = [first EXCEPT ![x] = c] /\ first[x] = AnyTls!NoConn
      BY <1>1, <2>4 DEF AnyTls!Detach, AnyTls!Goto, UdpCallInv, FirstClosed
    <3>2. /\ pc'[x] = "lookup" /\ first'[x] = c
          /\ \A y \in Calls \ {x} : pc'[y] = pc[y] /\ conn'[y] = conn[y]
                      /\ first'[y] = first[y]
      BY <3>1 DEF UdpCallInv, UdpCallType
    <3> QED BY <2>1, <3>1, <3>2 DEF SentFrom, UdpEarly, UdpWaiting, AnyTls!Conns,
        AnyTls!NoConn
  <2> QED BY <2>2, <2>3, <2>4, UdpDemux DEF AnyTls!Erred, AnyTls!CloseFailsAll
<1>5. CASE AnyTls!CloseFailsAll(x)
  <2>1. /\ demux' = [demux EXCEPT ![c] = fail_all(demux[c])]
        /\ AnyTls!SendAll(c, Waiters(demux[c]), AnyTls!Failed)
    BY <1>1, <1>5, UdpDemux DEF AnyTls!CloseFailsAll
  <2>2. /\ UdpWaiterType'
        /\ UdpEntries(c)' = {}
        /\ \A d \in AnyTls!Conns \ {c} : demux'[d] = demux[d]
        /\ \A e \in UdpEntries(c) : <<c, e[2], AnyTls!Failed>> \in sending'
        /\ \A s \in sending' \ sending : s[1] = c /\ \E e \in UdpEntries(c) : e[2] = s[2]
        /\ sending \subseteq sending'
    BY <2>1, UdpFailFacts
  <2>3. \A d \in AnyTls!Conns : \A e \in UdpEntries(d)' : e[2] # x
    BY <1>3, <2>2 DEF UdpEntries
  <2>4. \A y \in Calls : UdpGoesOn(y)
    BY <1>4, <2>3 DEF UdpGoesOn, SentFrom
  <2>5. \A e \in UdpEntries(c) \ UdpEntries(c)' :
            \E result \in UdpResults : <<c, e[2], result>> \in sending'
    BY <2>2 DEF UdpResults
  <2> QED BY <2>2, <2>4, <2>5, UdpTakeStep
<1>6. CASE AnyTls!Erred(x) \/ AnyTls!Detach(x)
  <2>1. UNCHANGED <<demux, sending>>
    BY <1>6 DEF AnyTls!Erred, AnyTls!Detach
  <2>2. \A d \in AnyTls!Conns : \A e \in UdpEntries(d)' : e[2] # x
    BY <1>3, <2>1 DEF UdpEntries
  <2>3. \A y \in Calls : UdpGoesOn(y)
    BY <1>4, <2>2 DEF UdpGoesOn, SentFrom
  <2> QED BY <2>1, <2>3, UdpTablesKept
<1> QED BY <1>5, <1>6

(* Registration: the call is new to the tables, and the connection owes it *)
(* nothing.                                                                *)
LEMMA UdpRegisterWaiters ==
  ASSUME AnyTls!AnyTlsUdpAssumption, UdpCallInv, UdpWaiterInv, NEW x \in Calls,
         AnyTls!Register(x)
  PROVE  UdpWaiterInv'
<1>1. PICK c \in AnyTls!Conns : c = conn[x]
  BY ConnFacts, UdpDemux DEF AnyTls!Register, UdpCallInv, ConnKnown, UdpWorking
<1>2. pc[x] = "register" /\ \A d \in AnyTls!Conns : \A e \in UdpEntries(d) : e[2] # x
  BY UdpUnlistedCall, UdpDemux DEF AnyTls!Register
<1>3. \A s \in sending : s[2] = x => s[1] = first[x] /\ s[1] # c
  <2>1. first[x] # c
    BY <1>1 DEF UdpCallInv, AnyTls!RetryUsesAnotherConn, AnyTls!Conns, AnyTls!NoConn
  <2> QED BY <1>2, <2>1 DEF UdpWaiterInv, UdpSendingOwned, SentFrom, UdpEarly
<1>4. PICK d : d = demux[c]
  OBVIOUS
<1>5. PICK r : r = register(d, Target, x)
  OBVIOUS
<1>6. /\ DemuxType(r, {Target}, Calls) /\ DemuxOK(r)
      /\ Elements(r.fifo) = UdpEntries(c) \cup {<<Target, x>>}
  <2>1. DemuxType(d, {Target}, Calls) /\ DemuxOK(d) /\ \A e \in Elements(d.fifo) : e[2] # x
    BY <1>2, <1>4 DEF UdpWaiterInv, UdpWaiterType, UdpEntries
  <2> QED BY <1>4, <1>5, <2>1, RegisterFacts DEF UdpEntries
<1>7. demux' = [demux EXCEPT ![c] = r]
  BY <1>1, <1>4, <1>5, UdpDemux DEF AnyTls!Register
<1>8. demux'[c] = r /\ \A b \in AnyTls!Conns \ {c} : demux'[b] = demux[b]
  BY <1>7 DEF UdpWaiterInv, UdpWaiterType
<1>9. /\ pc'[x] = "write" /\ \A y \in Calls \ {x} : pc'[y] = pc[y]
      /\ UNCHANGED <<conn, first, sending>>
  BY UdpDemux DEF AnyTls!Register, AnyTls!Goto, UdpCallInv, UdpCallType
<1>10. UdpWaiterType'
  <2>1. demux' = [b \in AnyTls!Conns |-> demux'[b]]
    BY <1>7 DEF UdpWaiterInv, UdpWaiterType
  <2> QED BY <1>6, <1>8, <1>9, <2>1 DEF UdpWaiterInv, UdpWaiterType, UdpResults,
      AnyTls!Failed
<1>11. /\ UdpEntries(c)' = UdpEntries(c) \cup {<<Target, x>>}
       /\ \A b \in AnyTls!Conns \ {c} : UdpEntries(b)' = UdpEntries(b)
  BY <1>6, <1>8 DEF UdpEntries
<1>12. UdpEntriesOwned'
  <2> SUFFICES ASSUME NEW b \in AnyTls!Conns, NEW e \in UdpEntries(b)'
               PROVE  pc'[e[2]] \in UdpWaiting \cup {"expired"} /\ conn'[e[2]] = b
    BY DEF UdpEntriesOwned, UdpWaiting
  <2>1. CASE e \in UdpEntries(b)
    <3>1. /\ e[2] \in Calls /\ e[2] # x /\ conn[e[2]] = b
          /\ pc[e[2]] \in {"write", "wait", "expired"}
      BY <1>2, <2>1, UdpListedCalls
    <3> QED BY <1>9, <3>1 DEF UdpWaiting
  <2>2. CASE b = c /\ e = <<Target, x>>
    BY <1>1, <1>9, <2>2 DEF UdpWaiting
  <2> QED BY <1>11, <2>1, <2>2
<1>13. UdpSendingOwned'
  <2> SUFFICES ASSUME NEW s \in sending
               PROVE  s[1] \in SentFrom(s[2])' /\ \A e \in UdpEntries(s[1])' : e[2] # s[2]
    BY <1>9 DEF UdpSendingOwned
  <2>1. s[1] \in AnyTls!Conns /\ s[2] \in Calls
    BY DEF UdpWaiterInv, UdpWaiterType
  <2>2. s[1] \in SentFrom(s[2]) /\ \A e \in UdpEntries(s[1]) : e[2] # s[2]
    BY DEF UdpWaiterInv, UdpSendingOwned
  <2>3. s[1] \in SentFrom(s[2])'
    <3>1. CASE s[2] = x
      BY <1>3, <1>9, <3>1 DEF SentFrom, UdpEarly, UdpDone
    <3>2. CASE s[2] # x
      BY <1>9, <2>1, <2>2, <3>2 DEF SentFrom
    <3> QED BY <3>1, <3>2
  <2>4. ASSUME NEW e \in UdpEntries(s[1])', e[2] = s[2] PROVE FALSE
    <3>1. s[1] = c /\ s[2] = x
      BY <1>11, <2>1, <2>2, <2>4
    <3> QED BY <1>3, <3>1
  <2> QED BY <2>3, <2>4
<1>14. UdpWaitingIsHeld'
  <2> SUFFICES ASSUME NEW y \in Calls, pc'[y] \in UdpWaiting
               PROVE  \/ <<Target, y>> \in Elements(demux'[conn[y]].fifo)
                      \/ \E result \in UdpResults : <<conn[y], y, result>> \in sending
    BY <1>9 DEF UdpWaitingIsHeld, UdpEntries, UdpWaiting, UdpResults, AnyTls!Failed
  <2>1. CASE y = x
    <3>1. <<Target, x>> \in Elements(demux'[c].fifo)
      BY <1>11 DEF UdpEntries
    <3> QED BY <1>1, <2>1, <3>1
  <2>2. CASE y # x
    <3>1. pc[y] \in UdpWaiting
      BY <1>9, <2>2
    <3>2. PICK b \in AnyTls!Conns : b = conn[y]
      BY <3>1, ConnFacts DEF UdpCallInv, ConnKnown, UdpWaiting, UdpWorking
    <3>3. \/ <<Target, y>> \in UdpEntries(b)
          \/ \E result \in UdpResults : <<b, y, result>> \in sending
      BY <3>1, <3>2 DEF UdpWaiterInv, UdpWaitingIsHeld
    <3>4. UdpEntries(b) \subseteq Elements(demux'[b].fifo)
      BY <1>11 DEF UdpEntries
    <3> QED BY <3>2, <3>3, <3>4
  <2> QED BY <2>1, <2>2
<1> QED BY <1>10, <1>12, <1>13, <1>14 DEF UdpWaiterInv

(* The reader.                                                             *)
LEMMA UdpReaderWaiters ==
  ASSUME AnyTls!AnyTlsUdpAssumption, UdpCallInv, UdpWaiterInv, NEW c \in AnyTls!Conns,
         AnyTls!ReaderStep(c) \/ AnyTls!GrowIdle(c)
  PROVE  UdpWaiterInv'
<1>1. UNCHANGED <<pc, conn, first>>
  BY UdpDemux DEF AnyTls!ReaderStep, AnyTls!ReadFails, AnyTls!ReaderFailsAll,
     AnyTls!ReaderDelivers, AnyTls!ReaderAborted, AnyTls!GrowIdle, AnyTls!callVars
<1>2. \A y \in Calls : UdpGoesOn(y)
  BY <1>1 DEF UdpGoesOn, SentFrom
<1>3. CASE AnyTls!ReaderDelivers(c)
  <2>1. PICK d : d = demux[c]
    OBVIOUS
  <2>2. DemuxType(d, {Target}, Calls) /\ DemuxOK(d) /\ Elements(d.fifo) = UdpEntries(c)
    BY <2>1 DEF UdpWaiterInv, UdpWaiterType, UdpEntries
  <2>3. PICK x : x = deliver_waiter(d, Target)
    OBVIOUS
  <2>4. /\ demux' = [demux EXCEPT ![c] = deliver(d, Target)]
        /\ sending' = sending \cup {<<c, x, Target>>} /\ deliverable(d, Target)
    <3>1. /\ AnyTls!deliver(d, Target) = deliver(d, Target)
          /\ AnyTls!deliverable(d, Target) = deliverable(d, Target)
          /\ AnyTls!deliver_waiter(d, Target) = x
      BY <2>3, UdpDemux
    <3> QED BY <1>3, <2>1, <3>1 DEF AnyTls!ReaderDelivers, AnyTls!SendAll
  <2>5. deliver(d, Target) = remove_by_id(d, Target, x) /\ <<Target, x>> \in UdpEntries(c)
    BY <2>2, <2>3, <2>4, DeliverIsRemove
  <2>6. demux' = [demux EXCEPT ![c] = remove_by_id(demux[c], Target, x)]
    BY <2>1, <2>4, <2>5
  <2>7. x \in Calls
    <3>1. <<Target, x>>[2] \in Calls
      BY <2>5, UdpListedCalls
    <3> QED BY <3>1
  <2>8. sending' \subseteq AnyTls!Conns \X Calls \X UdpResults
    BY <2>4, <2>7 DEF UdpWaiterInv, UdpWaiterType, UdpResults
  <2>9. /\ UdpWaiterType'
        /\ UdpEntries(c)' = UdpEntries(c) \ {<<Target, x>>}
        /\ \A b \in AnyTls!Conns \ {c} : demux'[b] = demux[b]
    BY <2>6, <2>7, <2>8, UdpRemovedFacts
  <2>10. \A e \in UdpEntries(c) \ UdpEntries(c)' :
             \E r \in UdpResults : <<c, e[2], r>> \in sending'
    BY <2>4, <2>9 DEF UdpResults
  <2>11. \A s \in sending' \ sending :
           s[1] = c /\ \E e \in UdpEntries(c) \ UdpEntries(c)' : e[2] = s[2]
    BY <2>4, <2>5, <2>9
  <2>12. sending \subseteq sending' /\ UdpEntries(c)' \subseteq UdpEntries(c)
    BY <2>4, <2>9
  <2> QED BY <1>2, <2>9, <2>10, <2>11, <2>12, UdpTakeStep
<1>4. CASE AnyTls!ReaderFailsAll(c)
  <2>1. /\ demux' = [demux EXCEPT ![c] = fail_all(demux[c])]
        /\ AnyTls!SendAll(c, Waiters(demux[c]), AnyTls!Failed)
    BY <1>4, UdpDemux DEF AnyTls!ReaderFailsAll
  <2>2. /\ UdpWaiterType'
        /\ UdpEntries(c)' = {}
        /\ \A d \in AnyTls!Conns \ {c} : demux'[d] = demux[d]
        /\ \A e \in UdpEntries(c) : <<c, e[2], AnyTls!Failed>> \in sending'
        /\ \A s \in sending' \ sending : s[1] = c /\ \E e \in UdpEntries(c) : e[2] = s[2]
        /\ sending \subseteq sending'
    BY <2>1, UdpFailFacts
  <2>3. \A e \in UdpEntries(c) \ UdpEntries(c)' :
            \E r \in UdpResults : <<c, e[2], r>> \in sending'
    BY <2>2 DEF UdpResults
  <2> QED BY <1>2, <2>2, <2>3, UdpTakeStep
<1>5. CASE AnyTls!ReadFails(c) \/ AnyTls!ReaderAborted(c) \/ AnyTls!GrowIdle(c)
  <2>1. UNCHANGED <<demux, sending>>
    BY <1>5 DEF AnyTls!ReadFails, AnyTls!ReaderAborted, AnyTls!GrowIdle
  <2> QED BY <1>2, <2>1, UdpTablesKept
<1> QED BY <1>3, <1>4, <1>5 DEF AnyTls!ReaderStep

(* The oneshot send: the answer leaves sending; the call that waits on     *)
(* that connection takes it, any other has dropped the receiver.           *)
LEMMA UdpSendWaiters ==
  ASSUME AnyTls!AnyTlsUdpAssumption, UdpCallInv, UdpWaiterInv, NEW s \in sending,
         AnyTls!Send(s[1], s[2], s[3])
  PROVE  UdpWaiterInv'
<1>1. PICK x \in Calls, c \in AnyTls!Conns : x = s[2] /\ c = s[1]
  BY DEF UdpWaiterInv, UdpWaiterType
<1>2. s = <<s[1], s[2], s[3]>>
  BY DEF UdpWaiterInv, UdpWaiterType
<1>3. \A e \in UdpEntries(c) : e[2] # x
  BY <1>1 DEF UdpWaiterInv, UdpSendingOwned
<1>4. UNCHANGED demux /\ sending' = sending \ {s}
  BY <1>2 DEF AnyTls!Send
<1>5. UdpWaiterType' /\ \A d \in AnyTls!Conns : UdpEntries(d)' = UdpEntries(d)
  BY <1>4 DEF UdpWaiterInv, UdpWaiterType, UdpEntries, UdpResults, AnyTls!Failed
<1>6. CASE pc[x] \in UdpWaiting /\ conn[x] = c
  <2>1. /\ pc[x] = "wait"
        /\ \/ AnyTls!Return(x, "ok")
           \/ AnyTls!Goto(x, "erred") /\ UNCHANGED <<conn, first>>
    BY <1>1, <1>6 DEF AnyTls!Send, UdpWaiting
  <2>2. /\ pc'[x] \notin UdpWaiting
        /\ \/ pc'[x] = "ok"
           \/ pc'[x] = "erred" /\ conn'[x] = conn[x] /\ first'[x] = first[x]
        /\ \A y \in Calls \ {x} : pc'[y] = pc[y] /\ conn'[y] = conn[y]
                    /\ first'[y] = first[y]
    <3>1. CASE AnyTls!Return(x, "ok")
      BY <3>1, UdpReturnFacts DEF UdpWaiting
    <3>2. CASE AnyTls!Goto(x, "erred") /\ UNCHANGED <<conn, first>>
      BY <3>2 DEF AnyTls!Goto, UdpCallInv, UdpCallType, UdpWaiting
    <3> QED BY <2>1, <3>1, <3>2
  <2>3. SentFrom(x) \cap AnyTls!Conns \subseteq SentFrom(x)'
    BY <2>1, <2>2 DEF SentFrom, UdpEarly, UdpDone
  <2>4. \A d \in AnyTls!Conns : \A e \in UdpEntries(d)' : e[2] # x
    BY <1>3, <1>5, <1>6, UdpListedCalls
  <2>5. \A y \in Calls : UdpGoesOn(y)
    BY <2>2, <2>3, <2>4 DEF UdpGoesOn, SentFrom
  <2> QED BY <1>1, <1>4, <1>5, <2>2, <2>5, UdpTakeStep
<1>7. CASE ~ (pc[x] \in UdpWaiting /\ conn[x] = c)
  <2>1. UNCHANGED <<pc, conn, first>>
    BY <1>1, <1>7 DEF AnyTls!Send, AnyTls!callVars, UdpWaiting
  <2>2. \A y \in Calls : UdpGoesOn(y)
    BY <2>1 DEF UdpGoesOn, SentFrom
  <2> QED BY <1>1, <1>4, <1>5, <1>7, <2>1, <2>2, UdpTakeStep
<1> QED BY <1>6, <1>7

-----------------------------------------------------------------------------
(* The inductive invariant of the calls and their connections.             *)
UdpInv == UdpCallInv /\ UdpWaiterInv

(* Nothing is registered to begin with.                                    *)
LEMMA UdpInitInv == AnyTls!AnyTlsUdpAssumption /\ AnyTls!Init => UdpInv
<1> SUFFICES ASSUME AnyTls!AnyTlsUdpAssumption, AnyTls!Init PROVE UdpInv
  OBVIOUS
<1>1. \A c \in AnyTls!Conns : demux[c] = EmptyDemux
  BY UdpDemux DEF AnyTls!Init
<1>2. UdpWaiterType
  BY <1>1, EmptyDemuxFacts, UdpDemux DEF AnyTls!Init, UdpWaiterType
<1>3. \A c \in AnyTls!Conns : UdpEntries(c) = {}
  BY <1>1, EmptyDemuxFacts DEF UdpEntries
<1>4. UdpWaiterInv
  BY <1>2, <1>3, UdpDemux DEF AnyTls!Init, UdpWaiterInv, UdpEntriesOwned,
     UdpSendingOwned, UdpWaitingIsHeld, UdpWaiting
<1>5. UdpCallInv
  BY UdpDemux DEF AnyTls!AnyTlsUdpAssumption, AnyTls!Init, UdpCallInv, UdpCallType,
     ConnKnown, FirstClosed, AnyTls!RetryUsesAnotherConn, UdpWorking, AnyTls!NoConn
<1> QED BY <1>4, <1>5 DEF UdpInv

(* Every step keeps the invariant.                                         *)
LEMMA UdpStep == AnyTls!AnyTlsUdpAssumption /\ UdpInv /\ [AnyTls!Next]_(AnyTls!vars)
    => UdpInv'
<1> SUFFICES ASSUME AnyTls!AnyTlsUdpAssumption, UdpCallInv, UdpWaiterInv,
        [AnyTls!Next]_(AnyTls!vars)
             PROVE  UdpCallInv' /\ UdpWaiterInv'
  BY DEF UdpInv
<1>1. ASSUME NEW x \in Calls, AnyTls!CallStep(x) PROVE UdpCallInv' /\ UdpWaiterInv'
  <2>1. CASE AnyTls!Start(x) \/ AnyTls!Lookup(x) \/ AnyTls!Open(x)
              \/ AnyTls!OpenFails(x) \/ AnyTls!Install(x)
    BY <2>1, UdpCallEarly, UdpEarlyWaiters
  <2>2. CASE AnyTls!Check(x) \/ AnyTls!EncodeFails(x)
    BY <2>2, UdpCallLate, UdpEarlyWaiters
  <2>3. CASE AnyTls!Write(x) \/ AnyTls!Timeout(x)
    BY <2>3, UdpCallLate, UdpWaitWaiters
  <2>4. CASE AnyTls!Register(x)
    BY <2>4, UdpCallLate, UdpRegisterWaiters
  <2>5. CASE AnyTls!WriteFails(x) \/ AnyTls!TimedOut(x)
    BY <2>5, UdpCallLate, UdpRemoveWaiters
  <2>6. CASE AnyTls!Erred(x) \/ AnyTls!CloseFailsAll(x) \/ AnyTls!Detach(x)
    BY <2>6, UdpCallLate, FailWaiters
  <2> QED BY <1>1, <2>1, <2>2, <2>3, <2>4, <2>5, <2>6 DEF AnyTls!CallStep, AnyTls!Proceeds
<1>2. CASE AnyTls!Sends
  <2>1. PICK s \in sending : AnyTls!Send(s[1], s[2], s[3])
    BY <1>2 DEF AnyTls!Sends
  <2>2. s[2] \in Calls
    BY DEF UdpWaiterInv, UdpWaiterType
  <2> QED BY <2>1, <2>2, UdpCallOthers, UdpSendWaiters
<1>3. ASSUME NEW c \in AnyTls!Conns, AnyTls!ReaderStep(c) \/ AnyTls!GrowIdle(c)
          PROVE UdpCallInv' /\ UdpWaiterInv'
  BY <1>3, UdpCallOthers, UdpReaderWaiters
<1>4. CASE UNCHANGED AnyTls!vars
  <2>1. UdpCallInv'
    BY <1>4, UdpCallOthers
  <2>2. UNCHANGED <<demux, sending, pc, conn, first>>
    BY <1>4 DEF AnyTls!vars, AnyTls!callVars, AnyTls!connVars
  <2>3. \A y \in Calls : UdpGoesOn(y)
    BY <2>2 DEF UdpGoesOn, SentFrom
  <2> QED BY <2>1, <2>2, <2>3, UdpTablesKept
<1> QED BY <1>1, <1>2, <1>3, <1>4 DEF AnyTls!Next

-----------------------------------------------------------------------------
(* What the invariant is for.                                              *)
LEMMA UdpInvIsEnough ==
  AnyTls!AnyTlsUdpAssumption /\ UdpInv => AnyTls!NoStrandedCall
  /\ AnyTls!RetryUsesAnotherConn /\ AnyTls!NoWaiterLeaks
<1> SUFFICES ASSUME AnyTls!AnyTlsUdpAssumption, UdpCallInv, UdpWaiterInv
             PROVE  AnyTls!NoStrandedCall /\ AnyTls!NoWaiterLeaks
  BY DEF UdpInv, UdpCallInv
<1>1. ASSUME NEW x \in Calls, pc[x] \in UdpWaiting
      PROVE  \/ x \in Waiters(demux[conn[x]])
             \/ \E s \in sending : s[1] = conn[x] /\ s[2] = x
  <2>1. PICK c \in AnyTls!Conns : c = conn[x]
    BY <1>1, ConnFacts DEF UdpCallInv, ConnKnown, UdpWaiting, UdpWorking
  <2>2. DemuxType(demux[c], {Target}, Calls) /\ DemuxOK(demux[c])
    BY DEF UdpWaiterInv, UdpWaiterType
  <2>3. <<Target, x>> \in UdpEntries(c) => x \in Waiters(demux[c])
    <3>1. <<Target, x>>[2] = x
      OBVIOUS
    <3> QED BY <2>2, <3>1, WaitersFacts DEF UdpEntries
  <2>4. \A result \in UdpResults : <<c, x, result>>[1] = c /\ <<c, x, result>>[2] = x
    OBVIOUS
  <2>5. \/ <<Target, x>> \in UdpEntries(c)
        \/ \E result \in UdpResults : <<c, x, result>> \in sending
    BY <1>1, <2>1 DEF UdpWaiterInv, UdpWaitingIsHeld
  <2> QED BY <2>1, <2>3, <2>4, <2>5
<1>2. ASSUME \A x \in Calls : pc[x] \in {"ok", "err"}, NEW c \in AnyTls!Conns
      PROVE  Waiters(demux[c]) = {} /\ demux[c].fifo = <<>>
  <2>1. DemuxType(demux[c], {Target}, Calls) /\ DemuxOK(demux[c])
    BY DEF UdpWaiterInv, UdpWaiterType
  <2>2. \A e \in Elements(demux[c].fifo) : FALSE
    BY <1>2, UdpListedCalls DEF UdpEntries
  <2>3. Waiters(demux[c]) = {}
    BY <2>1, <2>2, WaitersFacts
  <2>4. PICK fifo : fifo = demux[c].fifo
    OBVIOUS
  <2>5. fifo \in Seq({Target} \X Calls) /\ DOMAIN fifo = {}
    BY <2>1, <2>2, <2>4 DEF DemuxType, Elements
  <2>6. Len(fifo) \in Nat /\ DOMAIN fifo = 1 .. Len(fifo)
    BY <2>5
  <2>7. Len(fifo) = 0
    BY <2>5, <2>6
  <2>8. fifo = <<>>
    BY <2>5, <2>7
  <2> QED BY <2>3, <2>4, <2>8
<1> QED BY <1>1, <1>2, UdpDemux DEF AnyTls!NoStrandedCall, AnyTls!NoWaiterLeaks,
           UdpWaiting

(* The connection in the map goes only when it is closed or idle, or with  *)
(* the last call.                                                          *)
LEMMA UdpEvicts == AnyTls!AnyTlsUdpAssumption /\ UdpInv
            /\ [AnyTls!Next]_(AnyTls!vars) => AnyTls!EvictsDeadConn
<1> SUFFICES ASSUME AnyTls!AnyTlsUdpAssumption, UdpCallInv, UdpWaiterInv,
        [AnyTls!Next]_(AnyTls!vars),
                    slot # AnyTls!NoConn, slot' # slot, ~closed[slot], ~idle[slot]
             PROVE  \A x \in Calls : pc'[x] \notin AnyTls!InFlight
  BY DEF UdpInv, AnyTls!EvictsDeadConn
<1>1. ASSUME NEW x \in Calls, NEW result \in UdpDone, AnyTls!Return(x, result)
      PROVE  \A y \in Calls : pc'[y] \notin AnyTls!InFlight
  <2>1. pc'[x] = result /\ \A y \in Calls \ {x} : pc'[y] = pc[y]
    BY <1>1, UdpReturnFacts
  <2>2. \A y \in Calls \ {x} : pc[y] \notin AnyTls!InFlight
    BY <1>1 DEF AnyTls!Return
  <2> QED BY <2>1, <2>2, UdpDemux DEF UdpDone, AnyTls!InFlight
<1>2. ASSUME NEW x \in Calls, AnyTls!CallStep(x) PROVE AnyTls!Return(x, "err")
  <2>1. CASE AnyTls!Start(x) \/ AnyTls!Lookup(x) \/ AnyTls!Open(x)
              \/ AnyTls!Install(x) \/ AnyTls!Check(x) \/ AnyTls!Register(x)
             \/ AnyTls!EncodeFails(x) \/ AnyTls!Write(x) \/ AnyTls!WriteFails(x) \/ AnyTls!Timeout(x)
                         \/ AnyTls!TimedOut(x) \/ AnyTls!CloseFailsAll(x)
    BY <2>1, UdpDemux DEF AnyTls!Start, AnyTls!Lookup, AnyTls!Open, AnyTls!Install,
       AnyTls!Check, AnyTls!Register, AnyTls!EncodeFails, AnyTls!Write, AnyTls!WriteFails,
       AnyTls!Timeout,
       AnyTls!TimedOut, AnyTls!CloseFailsAll, AnyTls!connVars, AnyTls!Usable
  <2>2. CASE AnyTls!Detach(x)
    BY <2>2 DEF AnyTls!Detach, UdpCallInv, FirstClosed
  <2> QED BY <1>2, <2>1, <2>2 DEF AnyTls!CallStep, AnyTls!Proceeds, AnyTls!OpenFails,
      AnyTls!Erred
<1>3. ASSUME NEW s \in sending, AnyTls!Send(s[1], s[2], s[3])
          PROVE AnyTls!Return(s[2], "ok")
  BY <1>3 DEF AnyTls!Send
<1>4. \A s \in sending : s[2] \in Calls
  BY DEF UdpWaiterInv, UdpWaiterType
<1>5. ASSUME NEW c \in AnyTls!Conns, AnyTls!ReaderStep(c) \/ AnyTls!GrowIdle(c) PROVE FALSE
  BY <1>5, UdpDemux DEF AnyTls!ReaderStep, AnyTls!ReadFails, AnyTls!ReaderFailsAll,
     AnyTls!ReaderDelivers, AnyTls!ReaderAborted, AnyTls!GrowIdle
<1>6. ~ UNCHANGED AnyTls!vars
  BY DEF AnyTls!vars, AnyTls!connVars
<1> QED BY <1>1, <1>2, <1>3, <1>4, <1>5, <1>6 DEF AnyTls!Next, AnyTls!Sends, UdpDone

-----------------------------------------------------------------------------
(* VLESS mux. *)
MuxFailed == "failed"
MuxWaiting == {"lock", "write", "wait"}
MuxEarly == {"start", "open", "insert", "check", "register"}
MuxWorking == {"insert", "check", "register", "lock", "write", "wait", "expired", "close"}
MuxResults == Keys \cup {MuxFailed, "targetless"}

-----------------------------------------------------------------------------
(* The calls, the flags and the streams.                                   *)
MuxCallType ==
  /\ opened \in Nat
  /\ closed \in [Vless!Workers -> BOOLEAN]
  /\ reader = [w \in Vless!Workers |-> reader[w]]
  /\ pc = [x \in Calls |-> pc[x]]
  /\ key = [x \in Calls |-> key[x]]
  /\ worker \in [Calls -> Vless!Workers \cup {Vless!NoWorker}]

(* A call that is under way knows its target, and its worker once it has   *)
(* one.                                                                    *)
KeyKnown == \A x \in Calls : pc[x] \notin {"start"} \cup Vless!Returned => key[x] \in Keys
WorkerKnown == \A x \in Calls : pc[x] \in MuxWorking => worker[x] \in Vless!Workers

(* The flag is stored before anybody is failed.                            *)
ClosedBefore ==
  /\ \A x \in Calls : pc[x] = "close" => closed[worker[x]]
  /\ \A w \in Vless!Workers : reader[w] = "failing" => closed[w]

MuxCallInv == MuxCallType /\ KeyKnown /\ WorkerKnown /\ ClosedBefore

(* What return does to the calls.                                          *)
LEMMA MuxReturnFacts ==
  ASSUME MuxCallInv, NEW x \in Calls, NEW result, Vless!Return(x, result)
  PROVE  /\ pc'[x] = result
         /\ worker' \in [Calls -> Vless!Workers \cup {Vless!NoWorker}]
         /\ key' = [y \in Calls |-> key'[y]]
         /\ pc' = [y \in Calls |-> pc'[y]]
         /\ \A y \in Calls \ {x} : /\ pc'[y] = pc[y] /\ key'[y] = key[y]
                                   /\ worker'[y] = worker[y]
BY DEF MuxCallInv, MuxCallType, Vless!Return, Vless!Goto, Vless!NoWorker

(* A step that changes at most call x, by a return or by leaving it with   *)
(* its target, and never takes a flag back.                                *)
LEMMA MuxCallKept ==
  ASSUME MuxCallInv, MuxCallType', NEW x \in Calls,
         \A y \in Calls \ {x} : /\ pc'[y] = pc[y] /\ key'[y] = key[y]
                                /\ worker'[y] = worker[y],
         pc'[x] \notin {"start"} \cup Vless!Returned => key'[x] \in Keys,
         pc'[x] \in MuxWorking => worker'[x] \in Vless!Workers,
         pc'[x] = "close" => closed'[worker'[x]],
         \A w \in Vless!Workers : closed[w] => closed'[w],
         \A w \in Vless!Workers : reader'[w] = "failing" => closed'[w]
  PROVE  MuxCallInv'
<1>1. KeyKnown' /\ WorkerKnown'
  BY DEF MuxCallInv, KeyKnown, WorkerKnown
<1>2. \A y \in Calls : pc'[y] = "close" => closed'[worker'[y]]
  BY DEF MuxCallInv, WorkerKnown, ClosedBefore, MuxWorking
<1> QED BY <1>1, <1>2 DEF MuxCallInv, ClosedBefore

(* Looking up, opening and registering.                                    *)
LEMMA MuxCallEarly ==
  ASSUME Vless!MuxAssumption, MuxCallInv, NEW x \in Calls,
         \/ \E k \in Keys : Vless!Lookup(x, k)
         \/ Vless!Open(x) \/ Vless!OpenFails(x) \/ Vless!Insert(x) \/ Vless!Check(x)
                     \/ Vless!Register(x)
  PROVE  MuxCallInv'
<1> USE DEF MuxCallInv
<1>1. CASE \E k \in Keys : Vless!Lookup(x, k)
  <2>1. PICK k \in Keys : Vless!Lookup(x, k)
    BY <1>1
  <2>2. UNCHANGED <<opened, closed, reader>>
    BY <2>1 DEF Vless!Lookup
  <2>3. worker'[x] \in Vless!Workers \/ pc'[x] = "open"
    BY <2>1 DEF Vless!Lookup, Vless!Goto, Vless!Upgrades, MuxCallType
  <2>4. pc'[x] \in {"check", "open"}
    BY <2>1 DEF Vless!Lookup, Vless!Goto, MuxCallType
  <2>5. MuxCallType'
    BY <2>1, <2>2 DEF Vless!Lookup, Vless!Goto, MuxCallType, Vless!Upgrades
  <2>6. key'[x] = k /\ \A y \in Calls \ {x} : /\ pc'[y] = pc[y] /\ key'[y] = key[y]
                                              /\ worker'[y] = worker[y]
    BY <2>1 DEF Vless!Lookup, Vless!Goto, MuxCallType
  <2> QED BY <2>2, <2>3, <2>4, <2>5, <2>6, MuxCallKept DEF ClosedBefore, MuxWorking
<1>2. CASE Vless!Open(x)
  <2>1. opened + 1 \in Vless!Workers
    BY <1>2 DEF Vless!Open, Vless!MuxAssumption, Vless!Workers, MuxCallType
  <2>2. MuxCallType'
    BY <1>2, <2>1 DEF Vless!Open, Vless!Goto, MuxCallType, Vless!callVars
  <2>3. /\ pc'[x] = "insert" /\ worker'[x] = opened + 1 /\ key' = key /\ closed' = closed
        /\ \A y \in Calls \ {x} : pc'[y] = pc[y] /\ worker'[y] = worker[y]
        /\ \A w \in Vless!Workers : reader'[w] = "failing" => reader[w] = "failing"
    BY <1>2 DEF Vless!Open, Vless!Goto, MuxCallType
  <2>4. key[x] \in Keys
    BY <1>2 DEF Vless!Open, KeyKnown, Vless!Returned
  <2> QED BY <2>1, <2>2, <2>3, <2>4, MuxCallKept DEF ClosedBefore
<1>3. CASE Vless!OpenFails(x)
  <2>1. Vless!Return(x, "err") /\ UNCHANGED <<opened, closed, reader>>
    BY <1>3 DEF Vless!OpenFails, Vless!tableVars
  <2> QED BY <2>1, MuxReturnFacts, MuxCallKept DEF MuxCallType, ClosedBefore,
      Vless!Returned, MuxWorking
<1>4. CASE Vless!Check(x) /\ closed[worker[x]]
  <2>1. Vless!Return(x, "err") /\ UNCHANGED <<opened, closed, reader>>
    BY <1>4, MuxDemux DEF Vless!Check, Vless!tableVars
  <2> QED BY <2>1, MuxReturnFacts, MuxCallKept DEF MuxCallType, ClosedBefore,
      Vless!Returned, MuxWorking
<1>5. CASE Vless!Insert(x) \/ (Vless!Check(x) /\ ~closed[worker[x]]) \/ Vless!Register(x)
  <2>1. /\ Vless!Goto(x, "check") \/ Vless!Goto(x, "register") \/ Vless!Goto(x, "lock")
        /\ pc[x] \in {"insert", "check", "register"}
        /\ UNCHANGED <<opened, closed, reader, key, worker>>
    BY <1>5, MuxDemux DEF Vless!Insert, Vless!Check, Vless!Register, Vless!tableVars,
       Vless!callVars
  <2>2. /\ MuxCallType' /\ pc'[x] \in {"check", "register", "lock"}
        /\ \A y \in Calls \ {x} : pc'[y] = pc[y]
    BY <2>1 DEF Vless!Goto, MuxCallType
  <2>3. key[x] \in Keys /\ worker[x] \in Vless!Workers
    BY <2>1 DEF KeyKnown, WorkerKnown, Vless!Returned, MuxWorking
  <2> QED BY <2>1, <2>2, <2>3, MuxCallKept DEF ClosedBefore
<1> QED BY <1>1, <1>2, <1>3, <1>4, <1>5

(* Writing and waiting.                                                    *)
LEMMA MuxCallLate ==
  ASSUME MuxCallInv, NEW x \in Calls,
         Vless!Lock(x) \/ Vless!LockFails(x) \/ Vless!Write(x) \/ Vless!WriteFails(x) \/ Vless!Close(x)
         \/ Vless!Timeout(x) \/ Vless!TimedOut(x)
  PROVE  MuxCallInv'
<1> USE DEF MuxCallInv
<1>1. CASE Vless!Lock(x) \/ Vless!LockFails(x) \/ Vless!Write(x) \/ Vless!Timeout(x)
  <2>1. /\ Vless!Goto(x, "write") \/ Vless!Goto(x, "wait") \/ Vless!Goto(x, "expired")
            \/ Vless!Goto(x, "refused")
        /\ pc[x] \in {"lock", "write", "wait"}
        /\ UNCHANGED <<opened, closed, reader, key, worker>>
    BY <1>1 DEF Vless!Lock, Vless!LockFails, Vless!Write, Vless!Timeout, Vless!tableVars, Vless!callVars
  <2>2. /\ MuxCallType' /\ pc'[x] \in {"write", "wait", "expired", "refused"}
        /\ \A y \in Calls \ {x} : pc'[y] = pc[y]
    BY <2>1 DEF Vless!Goto, MuxCallType
  <2>3. key[x] \in Keys /\ worker[x] \in Vless!Workers
    BY <2>1 DEF KeyKnown, WorkerKnown, Vless!Returned, MuxWorking
  <2> QED BY <2>1, <2>2, <2>3, MuxCallKept DEF ClosedBefore
<1>2. CASE Vless!WriteFails(x)
  <2>1. PICK w \in Vless!Workers : w = worker[x]
    BY <1>2, MuxDemux DEF Vless!WriteFails, WorkerKnown, MuxWorking
  <2>2. /\ closed' = [closed EXCEPT ![w] = TRUE]
        /\ reader' = [reader EXCEPT ![w] = Vless!Stopped(w)]
        /\ Vless!Goto(x, "close") /\ UNCHANGED <<opened, key, worker>>
    BY <1>2, <2>1, MuxDemux DEF Vless!WriteFails, Vless!tableVars, Vless!callVars
  <2>3. /\ MuxCallType' /\ pc'[x] = "close" /\ closed'[w]
        /\ \A y \in Calls \ {x} : pc'[y] = pc[y]
        /\ \A v \in Vless!Workers : closed[v] => closed'[v]
        /\ \A v \in Vless!Workers \ {w} : reader'[v] = reader[v]
    BY <2>2 DEF MuxCallType, Vless!Goto
  <2>4. key[x] \in Keys
    BY <1>2, MuxDemux DEF Vless!WriteFails, KeyKnown, Vless!Returned
  <2> QED BY <2>1, <2>2, <2>3, <2>4, MuxCallKept DEF ClosedBefore
<1>3. CASE Vless!Close(x) \/ Vless!TimedOut(x)
  <2>1. Vless!Return(x, "err") /\ UNCHANGED <<opened, closed, reader>>
    BY <1>3, MuxDemux DEF Vless!Close, Vless!TimedOut, Vless!tableVars
  <2> QED BY <2>1, MuxReturnFacts, MuxCallKept DEF MuxCallType, ClosedBefore,
      Vless!Returned, MuxWorking
<1> QED BY <1>1, <1>2, <1>3

(* A result that is sent, and the readers.                                 *)
LEMMA MuxCallOthers ==
  ASSUME MuxCallInv,
         \/ \E s \in sending : s[2] \in Calls /\ Vless!Send(s[1], s[2], s[3])
         \/ \E w \in Vless!Workers : Vless!ReaderStep(w)
         \/ UNCHANGED Vless!vars
  PROVE  MuxCallInv'
<1> USE DEF MuxCallInv
<1>1. CASE \E s \in sending : s[2] \in Calls /\ Vless!Send(s[1], s[2], s[3])
  <2>1. PICK s \in sending : s[2] \in Calls /\ Vless!Send(s[1], s[2], s[3])
    BY <1>1
  <2>2. PICK x \in Calls : x = s[2]
    BY <2>1
  <2>3. UNCHANGED <<opened, closed, reader>>
    BY <2>1 DEF Vless!Send, Vless!tableVars
  <2>4. CASE UNCHANGED <<pc, key, worker>>
    BY <2>3, <2>4 DEF MuxCallType, KeyKnown, WorkerKnown, ClosedBefore
  <2>5. CASE \E result \in Vless!Returned : Vless!Return(x, result)
    <3>1. PICK result \in Vless!Returned : Vless!Return(x, result)
      BY <2>5
    <3> QED BY <2>3, <3>1, MuxReturnFacts, MuxCallKept DEF MuxCallType, ClosedBefore,
        Vless!Returned, MuxWorking
  <2> QED BY <2>1, <2>2, <2>4, <2>5 DEF Vless!Send, Vless!callVars, Vless!Returned
<1>2. CASE \E w \in Vless!Workers : Vless!ReaderStep(w)
  <2>1. PICK w \in Vless!Workers : Vless!ReaderStep(w)
    BY <1>2
  <2>2. UNCHANGED <<opened, pc, key, worker>>
    BY <2>1, MuxDemux DEF Vless!ReaderStep, Vless!ReadHeader, Vless!ReaderDelivers,
       Vless!ReaderDeliversNext, Vless!ReaderErrs, Vless!ReaderFailsAll,
       Vless!ReaderStops, Vless!tableVars, Vless!callVars
  <2>3. /\ closed' = closed \/ closed' = [closed EXCEPT ![w] = TRUE]
        /\ \/ reader' = reader
           \/ reader' = [reader EXCEPT ![w] = "reading"]
           \/ reader' = [reader EXCEPT ![w] = "done"]
           \/ /\ reader' = [reader EXCEPT ![w] = "failing"]
              /\ closed' = [closed EXCEPT ![w] = TRUE]
    BY <2>1, MuxDemux DEF Vless!ReaderStep, Vless!ReadHeader, Vless!ReaderDelivers,
       Vless!ReaderDeliversNext, Vless!ReaderErrs, Vless!ReaderFailsAll,
       Vless!ReaderStops
  <2>4. MuxCallType'
    BY <2>2, <2>3 DEF MuxCallType
  <2>5. /\ \A v \in Vless!Workers : closed[v] => closed'[v]
        /\ \A v \in Vless!Workers : reader'[v] = "failing" => closed'[v]
    BY <2>3 DEF MuxCallType, ClosedBefore
  <2>6. KeyKnown' /\ WorkerKnown'
    BY <2>2 DEF KeyKnown, WorkerKnown
  <2> QED BY <2>2, <2>4, <2>5, <2>6 DEF ClosedBefore, WorkerKnown, MuxWorking
<1>3. CASE UNCHANGED Vless!vars
  BY <1>3 DEF Vless!vars, Vless!tableVars, Vless!callVars, MuxCallType, KeyKnown,
     WorkerKnown, ClosedBefore
<1> QED BY <1>1, <1>2, <1>3

-----------------------------------------------------------------------------
(* The tables.                                                             *)
MuxEntries(w) == Elements(demux[w].fifo)

MuxWaiterType ==
  /\ demux = [w \in Vless!Workers |-> demux[w]]
  /\ \A w \in Vless!Workers : DemuxType(demux[w], Keys, Calls) /\ DemuxOK(demux[w])
  /\ sending \subseteq Vless!Workers \X Calls \X MuxResults

(* A table entry belongs to a call that registered it with this worker, be *)
(* it one that has returned without writing its frame.                     *)
MuxEntriesOwned ==
  \A w \in Vless!Workers : \A e \in MuxEntries(w) :
    /\ pc[e[2]] \in MuxWaiting \cup {"expired", "refused"}
    /\ key[e[2]] = e[1] /\ worker[e[2]] = w

(* A result on its way has left the tables; a failure comes from a worker  *)
(* that is closed.                                                         *)
MuxSendingOwned ==
  \A s \in sending :
    /\ pc[s[2]] \notin MuxEarly
    /\ s[3] = MuxFailed => closed[s[1]]
    /\ \A w \in Vless!Workers : \A e \in MuxEntries(w) : e[2] # s[2]

MuxWaitingIsHeld ==
  \A x \in Calls : pc[x] \in MuxWaiting =>
    \/ <<key[x], x>> \in MuxEntries(worker[x])
    \/ \E result \in MuxResults : <<worker[x], x, result>> \in sending

MuxWaiterInv ==
  /\ MuxWaiterType
  /\ MuxEntriesOwned
  /\ MuxSendingOwned
  /\ MuxWaitingIsHeld

(* What a step that registers nobody may do with a call y: nothing; move   *)
(* it along while it waits; or take it away from the tables for good.      *)
MuxGoesOn(y) ==
  \/ pc'[y] = pc[y] /\ key'[y] = key[y] /\ worker'[y] = worker[y]
  \/ /\ pc[y] \in MuxWaiting /\ pc'[y] \in {"write", "wait", "expired", "refused"}
     /\ key'[y] = key[y] /\ worker'[y] = worker[y]
  \/ /\ \A v \in Vless!Workers : \A e \in MuxEntries(v)' : e[2] # y
     /\ pc'[y] \notin MuxWaiting
     /\ pc'[y] \in MuxEarly => pc[y] \in MuxEarly

(* A call is listed only between its registration and its return.          *)
LEMMA MuxListedCalls ==
  ASSUME MuxWaiterInv, NEW w \in Vless!Workers, NEW e \in MuxEntries(w)
  PROVE  /\ e \in Keys \X Calls /\ e = <<e[1], e[2]>>
         /\ e[2] \in Calls /\ e[1] = key[e[2]] /\ worker[e[2]] = w
         /\ pc[e[2]] \in {"lock", "write", "wait", "expired", "refused"}
<1>1. e \in Keys \X Calls
  BY WaitersFacts DEF MuxWaiterInv, MuxWaiterType, MuxEntries
<1> QED BY <1>1 DEF MuxWaiterInv, MuxEntriesOwned, MuxWaiting

(* A call that is not waiting is not listed anywhere.                      *)
LEMMA MuxUnlistedCall ==
  ASSUME MuxWaiterInv, NEW y \in Calls, pc[y] \notin {"lock", "write", "wait", "expired", "refused"}
  PROVE  \A v \in Vless!Workers : \A e \in MuxEntries(v) : e[2] # y
BY MuxListedCalls

(* A step that takes entries out of the table of one worker w, each to be  *)
(* answered unless its call is gone, keeps the invariant.                  *)
LEMMA MuxTakeStep ==
  ASSUME MuxCallInv, MuxWaiterInv, MuxWaiterType', NEW w \in Vless!Workers,
         \A y \in Calls : MuxGoesOn(y),
         \A v \in Vless!Workers : closed[v] => closed'[v],
         \A v \in Vless!Workers \ {w} : demux'[v] = demux[v],
         MuxEntries(w)' \subseteq MuxEntries(w),
         \A e \in MuxEntries(w) \ MuxEntries(w)' :
           \/ pc'[e[2]] \notin MuxWaiting
           \/ \E result \in MuxResults : <<w, e[2], result>> \in sending',
         \A s \in sending' \ sending :
           /\ s[1] = w /\ \E e \in MuxEntries(w) \ MuxEntries(w)' : e[2] = s[2]
           /\ s[3] = MuxFailed => closed'[w],
         \A s \in sending \ sending' :
           pc'[s[2]] \notin MuxWaiting \/ worker'[s[2]] # s[1]
  PROVE  MuxWaiterInv'
<1>1. \A v \in Vless!Workers : MuxEntries(v)' \subseteq MuxEntries(v)
  BY DEF MuxEntries
<1>2. MuxEntriesOwned'
  <2> SUFFICES ASSUME NEW v \in Vless!Workers, NEW e \in MuxEntries(v)'
               PROVE  /\ pc'[e[2]] \in MuxWaiting \cup {"expired", "refused"}
                      /\ key'[e[2]] = e[1] /\ worker'[e[2]] = v
    BY DEF MuxEntriesOwned, MuxWaiting
  <2>1. /\ e[2] \in Calls /\ key[e[2]] = e[1] /\ worker[e[2]] = v
        /\ pc[e[2]] \in {"lock", "write", "wait", "expired", "refused"}
    BY <1>1, MuxListedCalls
  <2>2. MuxGoesOn(e[2]) /\ ~ \A u \in Vless!Workers : \A f \in MuxEntries(u)' : f[2] # e[2]
    BY <2>1
  <2> QED BY <2>1, <2>2 DEF MuxGoesOn, MuxWaiting
<1>3. MuxSendingOwned'
  <2> SUFFICES ASSUME NEW s \in sending'
               PROVE  /\ pc'[s[2]] \notin MuxEarly
                      /\ s[3] = MuxFailed => closed'[s[1]]
                      /\ \A v \in Vless!Workers : \A e \in MuxEntries(v)' : e[2] # s[2]
    BY DEF MuxSendingOwned, MuxEarly
  <2>1. s[1] \in Vless!Workers /\ s[2] \in Calls
    BY DEF MuxWaiterType
  <2>2. CASE s \in sending
    <3>1. /\ pc[s[2]] \notin MuxEarly /\ (s[3] = MuxFailed => closed[s[1]])
          /\ \A v \in Vless!Workers : \A e \in MuxEntries(v) : e[2] # s[2]
      BY <2>2 DEF MuxWaiterInv, MuxSendingOwned
    <3>2. MuxGoesOn(s[2])
      BY <2>1
    <3> QED BY <1>1, <2>1, <3>1, <3>2 DEF MuxGoesOn, MuxEarly, MuxWaiting
  <2>3. CASE s \notin sending
    <3>1. PICK e \in MuxEntries(w) \ MuxEntries(w)' : e[2] = s[2]
      BY <2>3
    <3>2. /\ pc[s[2]] \in {"lock", "write", "wait", "expired", "refused"} /\ worker[s[2]] = w
          /\ e = <<key[s[2]], s[2]>>
      BY <3>1, MuxListedCalls
    <3>3. \A v \in Vless!Workers : \A f \in MuxEntries(v)' : f[2] # s[2]
      BY <1>1, <3>1, <3>2, MuxListedCalls
    <3>4. MuxGoesOn(s[2]) /\ s[1] = w /\ (s[3] = MuxFailed => closed'[w])
      BY <2>1, <2>3
    <3> QED BY <3>2, <3>3, <3>4 DEF MuxGoesOn, MuxEarly, MuxWaiting
  <2> QED BY <2>2, <2>3
<1>4. MuxWaitingIsHeld'
  <2> SUFFICES ASSUME NEW y \in Calls, pc'[y] \in MuxWaiting
               PROVE  \/ <<key'[y], y>> \in Elements(demux'[worker'[y]].fifo)
                      \/ \E result \in MuxResults : <<worker'[y], y, result>> \in sending'
    BY DEF MuxWaitingIsHeld, MuxEntries, MuxWaiting, MuxResults
  <2>1. /\ pc[y] \in MuxWaiting
        /\ key'[y] = key[y] /\ worker'[y] = worker[y]
    BY DEF MuxGoesOn, MuxWaiting
  <2>2. PICK v \in Vless!Workers : v = worker[y]
    BY <2>1 DEF MuxCallInv, WorkerKnown, MuxWaiting, MuxWorking
  <2>3. CASE <<key[y], y>> \in MuxEntries(v)
    <3>1. CASE <<key[y], y>> \in MuxEntries(v)'
      BY <2>1, <2>2, <3>1 DEF MuxEntries
    <3>2. CASE <<key[y], y>> \notin MuxEntries(v)'
      <4>1. v = w
        BY <2>3, <3>2 DEF MuxEntries
      <4>2. <<key[y], y>>[2] = y
        OBVIOUS
      <4> QED BY <2>1, <2>2, <2>3, <3>2, <4>1, <4>2
    <3> QED BY <3>1, <3>2
  <2>4. CASE \E result \in MuxResults : <<v, y, result>> \in sending
    <3>1. PICK result \in MuxResults : <<v, y, result>> \in sending
      BY <2>4
    <3>2. <<v, y, result>>[2] = y /\ <<v, y, result>>[1] = v
      OBVIOUS
    <3>3. <<v, y, result>> \in sending'
      BY <2>1, <2>2, <3>1, <3>2
    <3> QED BY <2>1, <2>2, <3>3
  <2> QED BY <2>1, <2>2, <2>3, <2>4 DEF MuxWaiterInv, MuxWaitingIsHeld
<1> QED BY <1>2, <1>3, <1>4 DEF MuxWaiterInv

(* A step that touches neither table nor answers.                          *)
LEMMA MuxTablesKept ==
  ASSUME MuxCallInv, MuxWaiterInv, UNCHANGED <<demux, sending>>, NEW w \in Vless!Workers,
         \A y \in Calls : MuxGoesOn(y),
         \A v \in Vless!Workers : closed[v] => closed'[v]
  PROVE  MuxWaiterInv'
<1>1. MuxWaiterType' /\ \A v \in Vless!Workers : MuxEntries(v)' = MuxEntries(v)
  BY DEF MuxWaiterInv, MuxWaiterType, MuxEntries
<1> QED BY <1>1, MuxTakeStep

(* What fail_all of a worker's table does: the table is empty, and each of *)
(* its waiters is about to be failed.                                      *)
LEMMA MuxFailFacts ==
  ASSUME MuxWaiterInv, NEW w \in Vless!Workers,
         demux' = [demux EXCEPT ![w] = fail_all(demux[w])],
         sending' = sending \cup ({w} \X Waiters(demux[w]) \X {"failed"})
  PROVE  /\ MuxWaiterType'
         /\ MuxEntries(w)' = {}
         /\ \A v \in Vless!Workers \ {w} : demux'[v] = demux[v]
         /\ \A e \in MuxEntries(w) : <<w, e[2], MuxFailed>> \in sending'
         /\ \A s \in sending' \ sending : s[1] = w /\ \E e \in MuxEntries(w) : e[2] = s[2]
         /\ sending \subseteq sending'
<1>1. PICK d : d = demux[w]
  OBVIOUS
<1>2. DemuxType(d, Keys, Calls) /\ DemuxOK(d) /\ Elements(d.fifo) = MuxEntries(w)
  BY <1>1 DEF MuxWaiterInv, MuxWaiterType, MuxEntries
<1>3. /\ \A id : id \in Waiters(d) <=> \E e \in MuxEntries(w) : e[2] = id
      /\ \A e \in MuxEntries(w) : e \in Keys \X Calls
  BY <1>2, WaitersFacts
<1>4. Waiters(d) \subseteq Calls
  BY <1>3
<1>5. demux'[w] = EmptyDemux /\ \A v \in Vless!Workers \ {w} : demux'[v] = demux[v]
  BY DEF MuxWaiterInv, MuxWaiterType, fail_all
<1>6. MuxWaiterType'
  <2>1. demux' = [v \in Vless!Workers |-> demux'[v]]
    BY DEF MuxWaiterInv, MuxWaiterType
  <2>2. \A v \in Vless!Workers : DemuxType(demux'[v], Keys, Calls) /\ DemuxOK(demux'[v])
    BY <1>5, EmptyDemuxFacts DEF MuxWaiterInv, MuxWaiterType
  <2>3. sending' \subseteq Vless!Workers \X Calls \X MuxResults
    BY <1>1, <1>4 DEF MuxWaiterInv, MuxWaiterType, MuxResults, MuxFailed
  <2> QED BY <2>1, <2>2, <2>3 DEF MuxWaiterType
<1>7. MuxEntries(w)' = {}
  BY <1>5, EmptyDemuxFacts DEF MuxEntries
<1>8. sending' = sending \cup ({w} \X Waiters(d) \X {MuxFailed})
  BY <1>1 DEF MuxFailed
<1> QED BY <1>3, <1>5, <1>6, <1>7, <1>8

(* What taking one waiter of key k out of a worker's table does.           *)
LEMMA MuxRemovedFacts ==
  ASSUME MuxWaiterInv, NEW w \in Vless!Workers, NEW k \in Keys, NEW x \in Calls,
         demux' = [demux EXCEPT ![w] = remove_by_id(demux[w], k, x)],
         sending' \subseteq Vless!Workers \X Calls \X MuxResults
  PROVE  /\ MuxWaiterType'
         /\ MuxEntries(w)' = MuxEntries(w) \ {<<k, x>>}
         /\ \A v \in Vless!Workers \ {w} : demux'[v] = demux[v]
<1>1. PICK d : d = demux[w]
  OBVIOUS
<1>2. DemuxType(d, Keys, Calls) /\ DemuxOK(d)
  BY <1>1 DEF MuxWaiterInv, MuxWaiterType
<1>3. PICK r : r = remove_by_id(d, k, x)
  OBVIOUS
<1>4. /\ DemuxType(r, Keys, Calls) /\ DemuxOK(r)
      /\ r.fifo = Without(d.fifo, <<k, x>>)
      /\ Elements(r.fifo) = Elements(d.fifo) \ {<<k, x>>}
  BY <1>2, <1>3, RemoveFacts
<1>5. demux' = [demux EXCEPT ![w] = r]
  BY <1>1, <1>3
<1>6. demux'[w] = r /\ \A v \in Vless!Workers \ {w} : demux'[v] = demux[v]
  BY <1>5 DEF MuxWaiterInv, MuxWaiterType
<1>7. demux' = [v \in Vless!Workers |-> demux'[v]]
  BY <1>5 DEF MuxWaiterInv, MuxWaiterType
<1>8. MuxEntries(w)' = MuxEntries(w) \ {<<k, x>>}
  BY <1>1, <1>4, <1>6 DEF MuxEntries
<1>9. MuxWaiterType'
  BY <1>4, <1>6, <1>7 DEF MuxWaiterInv, MuxWaiterType
<1> QED BY <1>6, <1>8, <1>9

-----------------------------------------------------------------------------
(* A call that has not registered yet.                                     *)
LEMMA MuxEarlyWaiters ==
  ASSUME MuxCallInv, MuxWaiterInv, NEW x \in Calls, NEW w \in Vless!Workers,
         \/ \E k \in Keys : Vless!Lookup(x, k)
         \/ Vless!Open(x) \/ Vless!OpenFails(x) \/ Vless!Insert(x) \/ Vless!Check(x)
  PROVE  MuxWaiterInv'
<1>1. UNCHANGED <<demux, closed, sending>>
  BY MuxDemux DEF Vless!Lookup, Vless!Open, Vless!OpenFails, Vless!Insert, Vless!Check
<1>2. pc[x] \in MuxEarly
  BY MuxDemux DEF Vless!Lookup, Vless!Open, Vless!OpenFails, Vless!Insert, Vless!Check,
     MuxEarly
<1>3. \A v \in Vless!Workers : \A e \in MuxEntries(v)' : e[2] # x
  BY <1>1, <1>2, MuxUnlistedCall DEF MuxEarly, MuxEntries
<1>4. /\ pc'[x] \notin MuxWaiting
      /\ \A y \in Calls \ {x} : pc'[y] = pc[y] /\ key'[y] = key[y] /\ worker'[y] = worker[y]
  <2>1. CASE \E k \in Keys : Vless!Lookup(x, k)
    BY <2>1 DEF Vless!Lookup, Vless!Goto, MuxCallInv, MuxCallType, MuxWaiting
  <2>2. CASE Vless!Open(x) \/ Vless!Insert(x)
    BY <2>2 DEF Vless!Open, Vless!Insert, Vless!Goto, MuxCallInv, MuxCallType,
       MuxWaiting, Vless!callVars
  <2>3. CASE Vless!OpenFails(x)
    BY <2>3, MuxReturnFacts DEF Vless!OpenFails, MuxWaiting
  <2>4. CASE Vless!Check(x)
    <3>1. CASE Vless!Return(x, "err")
      BY <3>1, MuxReturnFacts DEF MuxWaiting
    <3>2. CASE Vless!Goto(x, "register") /\ UNCHANGED Vless!callVars
      BY <3>2 DEF Vless!Goto, Vless!callVars, MuxCallInv, MuxCallType, MuxWaiting
    <3> QED BY <2>4, <3>1, <3>2, MuxDemux DEF Vless!Check
  <2> QED BY <2>1, <2>2, <2>3, <2>4
<1>5. \A y \in Calls : MuxGoesOn(y)
  BY <1>2, <1>3, <1>4 DEF MuxGoesOn
<1> QED BY <1>1, <1>5, MuxTablesKept

(* A call that gets the writer, has written, or whose timer fires.         *)
LEMMA MuxWaitWaiters ==
  ASSUME MuxCallInv, MuxWaiterInv, NEW x \in Calls, NEW w \in Vless!Workers,
         Vless!Lock(x) \/ Vless!LockFails(x) \/ Vless!Write(x) \/ Vless!Timeout(x)
  PROVE  MuxWaiterInv'
<1>1. /\ Vless!Goto(x, "write") \/ Vless!Goto(x, "wait") \/ Vless!Goto(x, "expired")
            \/ Vless!Goto(x, "refused")
      /\ pc[x] \in MuxWaiting
      /\ UNCHANGED <<demux, closed, key, worker, sending>>
  BY DEF Vless!Lock, Vless!LockFails, Vless!Write, Vless!Timeout, Vless!callVars, MuxWaiting
<1>2. /\ pc'[x] \in {"write", "wait", "expired", "refused"}
      /\ \A y \in Calls \ {x} : pc'[y] = pc[y]
  BY <1>1 DEF Vless!Goto, MuxCallInv, MuxCallType
<1>3. \A y \in Calls : MuxGoesOn(y)
  BY <1>1, <1>2 DEF MuxGoesOn
<1> QED BY <1>1, <1>3, MuxTablesKept

(* remove_by_id after a timeout or a write that failed.                    *)
LEMMA MuxRemoveWaiters ==
  ASSUME MuxCallInv, MuxWaiterInv, NEW x \in Calls, Vless!WriteFails(x) \/ Vless!TimedOut(x)
  PROVE  MuxWaiterInv'
<1>1. PICK w \in Vless!Workers : w = worker[x]
  BY MuxDemux DEF Vless!WriteFails, Vless!TimedOut, MuxCallInv, WorkerKnown, MuxWorking
<1>2. PICK k \in Keys : k = key[x]
  BY MuxDemux DEF Vless!WriteFails, Vless!TimedOut, MuxCallInv, KeyKnown, Vless!Returned
<1>3. /\ demux' = [demux EXCEPT ![w] = remove_by_id(demux[w], k, x)]
      /\ UNCHANGED sending
      /\ UNCHANGED closed \/ closed' = [closed EXCEPT ![w] = TRUE]
  BY <1>1, <1>2, MuxDemux DEF Vless!WriteFails, Vless!TimedOut
<1>4. sending' \subseteq Vless!Workers \X Calls \X MuxResults
  BY <1>3 DEF MuxWaiterInv, MuxWaiterType
<1>5. /\ MuxWaiterType'
      /\ MuxEntries(w)' = MuxEntries(w) \ {<<k, x>>}
      /\ \A v \in Vless!Workers \ {w} : demux'[v] = demux[v]
  BY <1>3, <1>4, MuxRemovedFacts
<1>6. \A v \in Vless!Workers : \A e \in MuxEntries(v)' : e[2] # x
  <2> SUFFICES ASSUME NEW v \in Vless!Workers, NEW e \in MuxEntries(v)', e[2] = x
          PROVE FALSE
    OBVIOUS
  <2>1. e \in MuxEntries(v)
    BY <1>5 DEF MuxEntries
  <2>2. v = w /\ e = <<k, x>>
    BY <1>1, <1>2, <2>1, MuxListedCalls
  <2> QED BY <1>5, <2>2
<1>7. /\ pc'[x] \in {"close", "err"}
      /\ \A y \in Calls \ {x} : pc'[y] = pc[y] /\ key'[y] = key[y] /\ worker'[y] = worker[y]
  <2>1. CASE Vless!WriteFails(x)
    BY <2>1, MuxDemux DEF Vless!WriteFails, Vless!Goto, Vless!callVars, MuxCallInv,
       MuxCallType
  <2>2. CASE Vless!TimedOut(x)
    BY <2>2, MuxReturnFacts, MuxDemux DEF Vless!TimedOut
  <2> QED BY <2>1, <2>2
<1>8. \A y \in Calls : MuxGoesOn(y)
  BY <1>6, <1>7 DEF MuxGoesOn, MuxEarly, MuxWaiting
<1>9. \A v \in Vless!Workers : closed[v] => closed'[v]
  BY <1>3 DEF MuxCallInv, MuxCallType
<1>10. \A e \in MuxEntries(w) \ MuxEntries(w)' : pc'[e[2]] \notin MuxWaiting
  BY <1>5, <1>7 DEF MuxWaiting
<1> QED BY <1>3, <1>5, <1>8, <1>9, <1>10, MuxTakeStep

(* close() fails everybody; the call itself is in no table any more.       *)
LEMMA CloseWaiters ==
  ASSUME MuxCallInv, MuxWaiterInv, NEW x \in Calls, Vless!Close(x)
  PROVE  MuxWaiterInv'
<1>1. PICK w \in Vless!Workers : w = worker[x]
  BY MuxDemux DEF Vless!Close, MuxCallInv, WorkerKnown, MuxWorking
<1>2. /\ demux' = [demux EXCEPT ![w] = fail_all(demux[w])]
      /\ sending' = sending \cup ({w} \X Waiters(demux[w]) \X {"failed"})
      /\ UNCHANGED closed /\ closed[w] /\ Vless!Return(x, "err") /\ pc[x] = "close"
  BY <1>1, MuxDemux DEF Vless!Close, MuxCallInv, ClosedBefore
<1>3. /\ MuxWaiterType'
      /\ MuxEntries(w)' = {}
      /\ \A v \in Vless!Workers \ {w} : demux'[v] = demux[v]
      /\ \A e \in MuxEntries(w) : <<w, e[2], MuxFailed>> \in sending'
      /\ \A s \in sending' \ sending : s[1] = w /\ \E e \in MuxEntries(w) : e[2] = s[2]
      /\ sending \subseteq sending'
  BY <1>2, MuxFailFacts
<1>4. \A v \in Vless!Workers : \A e \in MuxEntries(v)' : e[2] # x
  BY <1>2, <1>3, MuxUnlistedCall DEF MuxEntries
<1>5. \A y \in Calls : MuxGoesOn(y)
  BY <1>2, <1>4, MuxReturnFacts DEF MuxGoesOn, MuxEarly, MuxWaiting
<1>6. /\ \A v \in Vless!Workers : closed[v] => closed'[v]
      /\ closed'[w]
  BY <1>2
<1>7. \A e \in MuxEntries(w) \ MuxEntries(w)' :
          \E result \in MuxResults : <<w, e[2], result>> \in sending'
  BY <1>3 DEF MuxResults
<1>8. \A s \in sending' \ sending :
        /\ s[1] = w /\ \E e \in MuxEntries(w) \ MuxEntries(w)' : e[2] = s[2]
        /\ s[3] = MuxFailed => closed'[w]
  BY <1>3, <1>6
<1> QED BY <1>3, <1>5, <1>6, <1>7, <1>8, MuxTakeStep

(* Registration: the call is new to the tables.                            *)
LEMMA MuxRegisterWaiters ==
  ASSUME MuxCallInv, MuxWaiterInv, NEW x \in Calls, Vless!Register(x)
  PROVE  MuxWaiterInv'
<1>1. PICK w \in Vless!Workers : w = worker[x]
  BY MuxDemux DEF Vless!Register, MuxCallInv, WorkerKnown, MuxWorking
<1>2. PICK k \in Keys : k = key[x]
  BY MuxDemux DEF Vless!Register, MuxCallInv, KeyKnown, Vless!Returned
<1>3. pc[x] = "register" /\ \A v \in Vless!Workers : \A e \in MuxEntries(v) : e[2] # x
  BY MuxUnlistedCall, MuxDemux DEF Vless!Register
<1>4. \A s \in sending : s[2] # x
  BY <1>3 DEF MuxWaiterInv, MuxSendingOwned, MuxEarly
<1>5. PICK d : d = demux[w]
  OBVIOUS
<1>6. /\ DemuxType(register(d, k, x), Keys, Calls) /\ DemuxOK(register(d, k, x))
      /\ Elements(register(d, k, x).fifo) = MuxEntries(w) \cup {<<k, x>>}
  <2>1. DemuxType(d, Keys, Calls) /\ DemuxOK(d) /\ \A e \in Elements(d.fifo) : e[2] # x
    BY <1>3, <1>5 DEF MuxWaiterInv, MuxWaiterType, MuxEntries
  <2> QED BY <1>5, <2>1, RegisterFacts DEF MuxEntries
<1>7. demux' = [demux EXCEPT ![w] = register(d, k, x)]
  BY <1>1, <1>2, <1>5, MuxDemux DEF Vless!Register
<1>8. demux'[w] = register(d, k, x) /\ \A v \in Vless!Workers \ {w} : demux'[v] = demux[v]
  BY <1>7 DEF MuxWaiterInv, MuxWaiterType
<1>9. /\ pc'[x] = "lock" /\ \A y \in Calls \ {x} : pc'[y] = pc[y]
      /\ UNCHANGED <<closed, key, worker, sending>>
  BY MuxDemux DEF Vless!Register, Vless!Goto, Vless!callVars, MuxCallInv, MuxCallType
<1>10. MuxWaiterType'
  <2>1. demux' = [v \in Vless!Workers |-> demux'[v]]
    BY <1>7 DEF MuxWaiterInv, MuxWaiterType
  <2> QED BY <1>6, <1>8, <1>9, <2>1 DEF MuxWaiterInv, MuxWaiterType
<1>11. /\ MuxEntries(w)' = MuxEntries(w) \cup {<<k, x>>}
       /\ \A v \in Vless!Workers \ {w} : MuxEntries(v)' = MuxEntries(v)
  BY <1>6, <1>8 DEF MuxEntries
<1>12. MuxEntriesOwned'
  <2> SUFFICES ASSUME NEW v \in Vless!Workers, NEW e \in MuxEntries(v)'
               PROVE  /\ pc'[e[2]] \in MuxWaiting \cup {"expired", "refused"}
                      /\ key'[e[2]] = e[1] /\ worker'[e[2]] = v
    BY DEF MuxEntriesOwned, MuxWaiting
  <2>1. CASE e \in MuxEntries(v)
    <3>1. /\ e[2] \in Calls /\ e[2] # x /\ key[e[2]] = e[1] /\ worker[e[2]] = v
          /\ pc[e[2]] \in {"lock", "write", "wait", "expired", "refused"}
      BY <1>3, <2>1, MuxListedCalls
    <3> QED BY <1>9, <3>1 DEF MuxWaiting
  <2>2. CASE v = w /\ e = <<k, x>>
    BY <1>1, <1>2, <1>9, <2>2 DEF MuxWaiting
  <2> QED BY <1>11, <2>1, <2>2
<1>13. MuxSendingOwned'
  <2> SUFFICES ASSUME NEW s \in sending
               PROVE  /\ pc'[s[2]] \notin MuxEarly
                      /\ s[3] = MuxFailed => closed[s[1]]
                      /\ \A v \in Vless!Workers : \A e \in MuxEntries(v)' : e[2] # s[2]
    BY <1>9 DEF MuxSendingOwned, MuxEarly
  <2>1. s[2] \in Calls /\ s[2] # x
    BY <1>4 DEF MuxWaiterInv, MuxWaiterType
  <2>2. /\ pc[s[2]] \notin MuxEarly /\ (s[3] = MuxFailed => closed[s[1]])
        /\ \A v \in Vless!Workers : \A e \in MuxEntries(v) : e[2] # s[2]
    BY DEF MuxWaiterInv, MuxSendingOwned
  <2> QED BY <1>9, <1>11, <2>1, <2>2
<1>14. MuxWaitingIsHeld'
  <2> SUFFICES ASSUME NEW y \in Calls, pc'[y] \in MuxWaiting
               PROVE  \/ <<key[y], y>> \in Elements(demux'[worker[y]].fifo)
                      \/ \E result \in MuxResults : <<worker[y], y, result>> \in sending
    BY <1>9 DEF MuxWaitingIsHeld, MuxEntries, MuxWaiting, MuxResults
  <2>1. CASE y = x
    <3>1. <<k, x>> \in Elements(demux'[w].fifo)
      BY <1>11 DEF MuxEntries
    <3> QED BY <1>1, <1>2, <2>1, <3>1
  <2>2. CASE y # x
    <3>1. pc[y] \in MuxWaiting
      BY <1>9, <2>2
    <3>2. PICK v \in Vless!Workers : v = worker[y]
      BY <3>1 DEF MuxCallInv, WorkerKnown, MuxWaiting, MuxWorking
    <3>3. \/ <<key[y], y>> \in MuxEntries(v)
          \/ \E result \in MuxResults : <<v, y, result>> \in sending
      BY <3>1, <3>2 DEF MuxWaiterInv, MuxWaitingIsHeld
    <3>4. MuxEntries(v) \subseteq Elements(demux'[v].fifo)
      BY <1>11 DEF MuxEntries
    <3> QED BY <3>2, <3>3, <3>4
  <2> QED BY <2>1, <2>2
<1> QED BY <1>10, <1>12, <1>13, <1>14 DEF MuxWaiterInv

(* The reader takes out the waiter it answers.                             *)
LEMMA DeliverWaiters ==
  ASSUME MuxCallInv, MuxWaiterInv, NEW w \in Vless!Workers, NEW k \in Keys, NEW x,
         NEW result \in MuxResults \ {MuxFailed}, <<k, x>> \in MuxEntries(w),
         demux' = [demux EXCEPT ![w] = remove_by_id(demux[w], k, x)],
         sending' = sending \cup {<<w, x, result>>},
         UNCHANGED <<closed, pc, key, worker>>
  PROVE  MuxWaiterInv'
<1>1. x \in Calls
  <2>1. <<k, x>>[2] \in Calls
    BY MuxListedCalls
  <2> QED BY <2>1
<1>2. sending' \subseteq Vless!Workers \X Calls \X MuxResults
  BY <1>1 DEF MuxWaiterInv, MuxWaiterType
<1>3. /\ MuxWaiterType'
      /\ MuxEntries(w)' = MuxEntries(w) \ {<<k, x>>}
      /\ \A v \in Vless!Workers \ {w} : demux'[v] = demux[v]
  BY <1>1, <1>2, MuxRemovedFacts
<1>4. \A y \in Calls : MuxGoesOn(y)
  BY DEF MuxGoesOn
<1>5. \A e \in MuxEntries(w) \ MuxEntries(w)' :
          \E r \in MuxResults : <<w, e[2], r>> \in sending'
  BY <1>3
<1>6. \A s \in sending' \ sending :
        /\ s[1] = w /\ \E e \in MuxEntries(w) \ MuxEntries(w)' : e[2] = s[2]
        /\ s[3] = MuxFailed => closed'[w]
  BY <1>3
<1>7. \A v \in Vless!Workers : closed[v] => closed'[v]
  OBVIOUS
<1> QED BY <1>3, <1>4, <1>5, <1>6, <1>7, MuxTakeStep

(* The reader.                                                             *)
LEMMA MuxReaderWaiters ==
  ASSUME Vless!MuxAssumption, MuxCallInv, MuxWaiterInv, NEW w \in Vless!Workers,
         Vless!ReaderStep(w)
  PROVE  MuxWaiterInv'
<1>1. UNCHANGED <<pc, key, worker>>
  BY MuxDemux DEF Vless!ReaderStep, Vless!ReadHeader, Vless!ReaderDelivers,
     Vless!ReaderDeliversNext, Vless!ReaderErrs, Vless!ReaderFailsAll,
     Vless!ReaderStops, Vless!callVars
<1>2. PICK d : d = demux[w]
  OBVIOUS
<1>3. DemuxType(d, Keys, Calls) /\ DemuxOK(d) /\ Elements(d.fifo) = MuxEntries(w)
  BY <1>2 DEF MuxWaiterInv, MuxWaiterType, MuxEntries
<1>4. ASSUME NEW k \in Keys, Vless!ReaderDelivers(w, k) PROVE MuxWaiterInv'
  <2>1. PICK x : x = deliver_waiter(d, k)
    OBVIOUS
  <2>2. /\ demux' = [demux EXCEPT ![w] = deliver(d, k)]
        /\ sending' = sending \cup {<<w, x, k>>} /\ deliverable(d, k)
        /\ UNCHANGED closed
    BY <1>2, <1>4, <2>1, MuxDemux DEF Vless!ReaderDelivers
  <2>3. deliver(d, k) = remove_by_id(d, k, x) /\ <<k, x>> \in MuxEntries(w)
    BY <1>3, <2>1, <2>2, DeliverIsRemove
  <2>4. demux' = [demux EXCEPT ![w] = remove_by_id(demux[w], k, x)]
    BY <1>2, <2>2, <2>3
  <2>5. k \in MuxResults \ {MuxFailed}
    BY DEF Vless!MuxAssumption, MuxResults, MuxFailed
  <2> QED BY <1>1, <2>2, <2>3, <2>4, <2>5, DeliverWaiters
<1>5. CASE Vless!ReaderDeliversNext(w)
  <2>1. PICK x : x = deliver_next_waiter(d)
    OBVIOUS
  <2>2. PICK k : k = d.fifo[1][1]
    OBVIOUS
  <2>3. /\ demux' = [demux EXCEPT ![w] = deliver_next(d)]
        /\ sending' = sending \cup {<<w, x, "targetless">>} /\ LivePositions(d) # {}
        /\ UNCHANGED closed
    BY <1>2, <1>5, <2>1, MuxDemux DEF Vless!ReaderDeliversNext
  <2>4. k \in Keys /\ <<k, x>> \in MuxEntries(w) /\ deliver_next(d) = remove_by_id(d, k, x)
    BY <1>3, <2>1, <2>2, <2>3, DeliverNextIsRemove
  <2>5. demux' = [demux EXCEPT ![w] = remove_by_id(demux[w], k, x)]
    BY <1>2, <2>3, <2>4
  <2>6. "targetless" \in MuxResults \ {MuxFailed}
    BY DEF MuxResults, MuxFailed
  <2> QED BY <1>1, <2>3, <2>4, <2>5, <2>6, DeliverWaiters
<1>6. CASE Vless!ReaderFailsAll(w)
  <2>1. /\ demux' = [demux EXCEPT ![w] = fail_all(demux[w])]
        /\ sending' = sending \cup ({w} \X Waiters(demux[w]) \X {"failed"})
        /\ UNCHANGED closed /\ closed[w]
    BY <1>6, MuxDemux DEF Vless!ReaderFailsAll, MuxCallInv, ClosedBefore
  <2>2. /\ MuxWaiterType'
        /\ MuxEntries(w)' = {}
        /\ \A v \in Vless!Workers \ {w} : demux'[v] = demux[v]
        /\ \A e \in MuxEntries(w) : <<w, e[2], MuxFailed>> \in sending'
        /\ \A s \in sending' \ sending : s[1] = w /\ \E e \in MuxEntries(w) : e[2] = s[2]
        /\ sending \subseteq sending'
    BY <2>1, MuxFailFacts
  <2>3. \A y \in Calls : MuxGoesOn(y)
    BY <1>1 DEF MuxGoesOn
  <2>4. \A e \in MuxEntries(w) \ MuxEntries(w)' :
            \E r \in MuxResults : <<w, e[2], r>> \in sending'
    BY <2>2 DEF MuxResults
  <2>5. \A s \in sending' \ sending :
          /\ s[1] = w /\ \E e \in MuxEntries(w) \ MuxEntries(w)' : e[2] = s[2]
          /\ s[3] = MuxFailed => closed'[w]
    BY <2>1, <2>2
  <2>6. \A v \in Vless!Workers : closed[v] => closed'[v]
    BY <2>1
  <2> QED BY <2>2, <2>3, <2>4, <2>5, <2>6, MuxTakeStep
<1>7. CASE Vless!ReadHeader(w) \/ Vless!ReaderErrs(w) \/ Vless!ReaderStops(w)
  <2>1. UNCHANGED <<demux, sending>>
    BY <1>7 DEF Vless!ReadHeader, Vless!ReaderErrs, Vless!ReaderStops
  <2>2. \A y \in Calls : MuxGoesOn(y)
    BY <1>1 DEF MuxGoesOn
  <2>3. \A v \in Vless!Workers : closed[v] => closed'[v]
    BY <1>7 DEF Vless!ReadHeader, Vless!ReaderErrs, Vless!ReaderStops, MuxCallInv,
       MuxCallType
  <2> QED BY <2>1, <2>2, <2>3, MuxTablesKept
<1> QED BY <1>4, <1>5, <1>6, <1>7 DEF Vless!ReaderStep

(* The oneshot send: the answer leaves sending; the call that waits on     *)
(* that worker returns, any other has dropped the receiver.                *)
LEMMA MuxSendWaiters ==
  ASSUME MuxCallInv, MuxWaiterInv, NEW s \in sending, Vless!Send(s[1], s[2], s[3])
  PROVE  MuxWaiterInv'
<1>1. PICK x \in Calls, w \in Vless!Workers : x = s[2] /\ w = s[1]
  BY DEF MuxWaiterInv, MuxWaiterType
<1>2. s = <<s[1], s[2], s[3]>>
  BY DEF MuxWaiterInv, MuxWaiterType
<1>3. \A v \in Vless!Workers : \A e \in MuxEntries(v) : e[2] # x
  BY <1>1 DEF MuxWaiterInv, MuxSendingOwned
<1>4. UNCHANGED <<demux, closed>> /\ sending' = sending \ {s}
  BY <1>2 DEF Vless!Send
<1>5. MuxWaiterType' /\ \A v \in Vless!Workers : MuxEntries(v)' = MuxEntries(v)
  BY <1>4 DEF MuxWaiterInv, MuxWaiterType, MuxEntries
<1>6. CASE pc[x] \in MuxWaiting /\ worker[x] = w
  <2>1. PICK result \in Vless!Returned : Vless!Return(x, result)
    BY <1>1, <1>6 DEF Vless!Send, Vless!Returned, MuxWaiting
  <2>2. \A y \in Calls : MuxGoesOn(y)
    BY <1>3, <1>5, <2>1, MuxReturnFacts DEF MuxGoesOn, Vless!Returned, MuxEarly,
       MuxWaiting
  <2>3. pc'[x] \notin MuxWaiting
    BY <2>1, MuxReturnFacts DEF Vless!Returned, MuxWaiting
  <2> QED BY <1>1, <1>4, <1>5, <2>2, <2>3, MuxTakeStep
<1>7. CASE ~ (pc[x] \in MuxWaiting /\ worker[x] = w)
  <2>1. UNCHANGED <<pc, key, worker>>
    BY <1>1, <1>7 DEF Vless!Send, Vless!callVars, MuxWaiting
  <2>2. \A y \in Calls : MuxGoesOn(y)
    BY <2>1 DEF MuxGoesOn
  <2> QED BY <1>1, <1>4, <1>5, <1>7, <2>1, <2>2, MuxTakeStep
<1> QED BY <1>6, <1>7

-----------------------------------------------------------------------------
(* The streams: first_packet tells whether anything has been written.      *)
FrameInv ==
  /\ first \in [Vless!Workers -> BOOLEAN]
  /\ wire \in [Vless!Workers -> Seq({1, 2})]
  /\ \A w \in Vless!Workers : first[w] <=> wire[w] = <<>>
  /\ Vless!FirstFrameNew

LEMMA FrameStep ==
  ASSUME MuxCallInv, FrameInv, [Vless!Next]_(Vless!vars)
  PROVE  FrameInv'
<1>1. ASSUME NEW x \in Calls, Vless!Lock(x) PROVE FrameInv'
  <2>1. PICK w \in Vless!Workers : w = worker[x]
    BY <1>1 DEF Vless!Lock, MuxCallInv, WorkerKnown, MuxWorking
  <2>2. PICK status \in {1, 2} : status = Vless!encode_xudp_packet(first[w])
    BY DEF Vless!encode_xudp_packet
  <2>3. /\ first' = [first EXCEPT ![w] = FALSE]
        /\ wire' = [wire EXCEPT ![w] = Append(wire[w], status)]
    BY <1>1, <2>1, <2>2 DEF Vless!Lock
  <2>4. PICK t \in Seq({1, 2}) : t = wire[w]
    BY DEF FrameInv
  <2>5. /\ Append(t, status) \in Seq({1, 2}) /\ Append(t, status) # <<>>
        /\ Len(t) \in Nat /\ DOMAIN t = 1 .. Len(t)
        /\ DOMAIN Append(t, status) = 1 .. (Len(t) + 1)
        /\ \A i \in 1 .. Len(t) : Append(t, status)[i] = t[i]
        /\ Append(t, status)[Len(t) + 1] = status
        /\ t = <<>> <=> Len(t) = 0
    BY EmptySeq
  <2>6. status = 1 <=> Len(t) = 0
    BY <2>2, <2>4, <2>5 DEF FrameInv, Vless!encode_xudp_packet
  <2>7. \A i \in DOMAIN t : t[i] = 1 <=> i = 1
    BY <2>4 DEF FrameInv, Vless!FirstFrameNew
  <2>8. \A i \in DOMAIN Append(t, status) : Append(t, status)[i] = 1 <=> i = 1
    BY <2>5, <2>6, <2>7
  <2>9. /\ wire'[w] = Append(t, status) /\ ~first'[w]
        /\ \A v \in Vless!Workers \ {w} : wire'[v] = wire[v] /\ first'[v] = first[v]
        /\ first' \in [Vless!Workers -> BOOLEAN] /\ wire' \in [Vless!Workers -> Seq({1, 2})]
    BY <2>3, <2>4, <2>5 DEF FrameInv
  <2>10. Vless!FirstFrameNew'
    <3> SUFFICES ASSUME NEW v \in Vless!Workers, NEW i \in DOMAIN wire'[v]
                 PROVE  wire'[v][i] = 1 <=> i = 1
      BY DEF Vless!FirstFrameNew
    <3>1. CASE v = w
      BY <2>8, <2>9, <3>1
    <3>2. CASE v # w
      BY <2>9, <3>2 DEF FrameInv, Vless!FirstFrameNew
    <3> QED BY <3>1, <3>2
  <2> QED BY <2>5, <2>9, <2>10 DEF FrameInv
<1>2. CASE UNCHANGED <<first, wire>>
  BY <1>2 DEF FrameInv, Vless!FirstFrameNew
<1>3. ASSUME NEW x \in Calls, Vless!CallStep(x) PROVE Vless!Lock(x)
            \/ UNCHANGED <<first, wire>>
  BY <1>3, MuxDemux DEF Vless!CallStep, Vless!Lookup, Vless!Open, Vless!OpenFails,
     Vless!Insert, Vless!Check, Vless!Register, Vless!LockFails, Vless!Write, Vless!WriteFails,
     Vless!Close, Vless!Waits, Vless!Timeout, Vless!TimedOut, Vless!writerVars
<1>4. ASSUME NEW w \in Vless!Workers, Vless!ReaderStep(w) PROVE UNCHANGED <<first, wire>>
  BY <1>4, MuxDemux DEF Vless!ReaderStep, Vless!ReadHeader, Vless!ReaderDelivers,
     Vless!ReaderDeliversNext, Vless!ReaderErrs, Vless!ReaderFailsAll,
     Vless!ReaderStops, Vless!writerVars
<1>5. CASE Vless!Sends \/ UNCHANGED Vless!vars
  BY <1>2, <1>5 DEF Vless!Sends, Vless!Send, Vless!writerVars, Vless!vars
<1> QED BY <1>1, <1>2, <1>3, <1>4, <1>5 DEF Vless!Next

-----------------------------------------------------------------------------
(* The inductive invariant of the mux workers.                             *)
MuxInv == MuxCallInv /\ MuxWaiterInv /\ FrameInv

(* Nothing is registered to begin with.                                    *)
LEMMA MuxInitInv == Vless!MuxAssumption /\ Vless!Init => MuxInv
<1> SUFFICES ASSUME Vless!MuxAssumption, Vless!Init PROVE MuxInv
  OBVIOUS
<1>1. \A w \in Vless!Workers : demux[w] = EmptyDemux
  BY MuxDemux DEF Vless!Init
<1>2. MuxWaiterType
  BY <1>1, EmptyDemuxFacts, MuxDemux DEF Vless!Init, MuxWaiterType
<1>3. \A w \in Vless!Workers : MuxEntries(w) = {}
  BY <1>1, EmptyDemuxFacts DEF MuxEntries
<1>4. MuxWaiterInv
  BY <1>2, <1>3, MuxDemux DEF Vless!Init, MuxWaiterInv, MuxEntriesOwned,
     MuxSendingOwned, MuxWaitingIsHeld, MuxWaiting
<1>5. MuxCallInv
  BY MuxDemux DEF Vless!Init, MuxCallInv, MuxCallType, KeyKnown, WorkerKnown,
     ClosedBefore, MuxWorking
<1>6. FrameInv
  BY MuxDemux DEF Vless!Init, FrameInv, Vless!FirstFrameNew
<1> QED BY <1>4, <1>5, <1>6 DEF MuxInv

(* Every step keeps the invariant.                                         *)
LEMMA MuxStep == Vless!MuxAssumption /\ MuxInv /\ [Vless!Next]_(Vless!vars) => MuxInv'
<1> SUFFICES ASSUME Vless!MuxAssumption, MuxCallInv, MuxWaiterInv, FrameInv,
        [Vless!Next]_(Vless!vars)
             PROVE  MuxCallInv' /\ MuxWaiterInv'
  BY FrameStep DEF MuxInv
<1>1. ASSUME NEW x \in Calls, Vless!CallStep(x) PROVE MuxCallInv' /\ MuxWaiterInv'
  <2>1. CASE \/ \E k \in Keys : Vless!Lookup(x, k)
             \/ Vless!Open(x) \/ Vless!OpenFails(x) \/ Vless!Insert(x) \/ Vless!Check(x)
    <3>1. MuxCallInv'
      BY <2>1, MuxCallEarly
    <3>2. CASE Vless!Workers # {}
      <4>1. PICK w \in Vless!Workers : TRUE
        BY <3>2
      <4> QED BY <2>1, <3>1, <4>1, MuxEarlyWaiters
    <3>3. CASE Vless!Workers = {}
      <4>1. /\ demux' = demux /\ sending' = sending
        BY <2>1, MuxDemux DEF Vless!Lookup, Vless!Open, Vless!OpenFails, Vless!Insert,
           Vless!Check
      <4>2. MuxWaiterType'
        BY <4>1 DEF MuxWaiterInv, MuxWaiterType
      <4>3. sending' = {}
        BY <3>3, <4>2 DEF MuxWaiterType
      <4>4. \A y \in Calls : pc'[y] \notin MuxWaiting
        BY <3>1, <3>3 DEF MuxCallInv, WorkerKnown, MuxWorking, MuxWaiting
      <4> QED BY <3>1, <3>3, <4>2, <4>3, <4>4 DEF MuxWaiterInv, MuxEntriesOwned,
          MuxSendingOwned, MuxWaitingIsHeld
    <3> QED BY <3>1, <3>2, <3>3
  <2>2. CASE Vless!Lock(x) \/ Vless!LockFails(x) \/ Vless!Write(x) \/ Vless!Timeout(x)
    <3>1. worker[x] \in Vless!Workers
      BY <2>2 DEF Vless!Lock, Vless!LockFails, Vless!Write, Vless!Timeout, MuxCallInv, WorkerKnown,
         MuxWorking
    <3> QED BY <2>2, <3>1, MuxCallLate, MuxWaitWaiters
  <2>3. CASE Vless!Register(x)
    BY <2>3, MuxCallEarly, MuxRegisterWaiters
  <2>4. CASE Vless!WriteFails(x) \/ Vless!TimedOut(x) \/ Vless!Close(x)
    BY <2>4, MuxCallLate, MuxRemoveWaiters, CloseWaiters
  <2> QED BY <1>1, <2>1, <2>2, <2>3, <2>4 DEF Vless!CallStep, Vless!Waits
<1>2. CASE Vless!Sends
  <2>1. PICK s \in sending : Vless!Send(s[1], s[2], s[3])
    BY <1>2 DEF Vless!Sends
  <2>2. s[2] \in Calls
    BY DEF MuxWaiterInv, MuxWaiterType
  <2> QED BY <2>1, <2>2, MuxCallOthers, MuxSendWaiters
<1>3. ASSUME NEW w \in Vless!Workers, Vless!ReaderStep(w) PROVE MuxCallInv' /\ MuxWaiterInv'
  BY <1>3, MuxCallOthers, MuxReaderWaiters
<1>4. CASE UNCHANGED Vless!vars
  <2>1. MuxCallInv'
    BY <1>4, MuxCallOthers
  <2>2. UNCHANGED <<demux, sending, closed, pc, key, worker>>
    BY <1>4 DEF Vless!vars, Vless!callVars
  <2>3. MuxWaiterType' /\ \A v \in Vless!Workers : MuxEntries(v)' = MuxEntries(v)
    BY <2>2 DEF MuxWaiterInv, MuxWaiterType, MuxEntries
  <2>4. MuxEntriesOwned' /\ MuxSendingOwned'
    BY <2>2, <2>3 DEF MuxWaiterInv, MuxEntriesOwned, MuxSendingOwned
  <2>5. MuxWaitingIsHeld'
    BY <2>2 DEF MuxWaiterInv, MuxWaitingIsHeld, MuxEntries, MuxWaiting, MuxResults
  <2> QED BY <2>1, <2>3, <2>4, <2>5 DEF MuxWaiterInv
<1> QED BY <1>1, <1>2, <1>3, <1>4 DEF Vless!Next

-----------------------------------------------------------------------------
(* What the invariant is for.                                              *)
LEMMA MuxInvIsEnough == MuxInv => Vless!NoStrandedCall /\ Vless!FirstFrameNew
            /\ Vless!FailedCallsSeeClosed
<1> SUFFICES ASSUME MuxCallInv, MuxWaiterInv, FrameInv
             PROVE  Vless!NoStrandedCall /\ Vless!FailedCallsSeeClosed
  BY DEF MuxInv, FrameInv
<1>1. ASSUME NEW x \in Calls, pc[x] \in MuxWaiting
      PROVE  \/ x \in Elements(Queue(demux[worker[x]], key[x]))
             \/ \E s \in sending : s[1] = worker[x] /\ s[2] = x
  <2>1. PICK w \in Vless!Workers : w = worker[x]
    BY <1>1 DEF MuxCallInv, WorkerKnown, MuxWaiting, MuxWorking
  <2>2. DemuxType(demux[w], Keys, Calls) /\ DemuxOK(demux[w])
    BY DEF MuxWaiterInv, MuxWaiterType
  <2>3. <<key[x], x>> \in MuxEntries(w) => x \in Elements(Queue(demux[w], key[x]))
    BY <2>2, LiveIsPending DEF MuxEntries
  <2>4. \A result \in MuxResults : <<w, x, result>>[1] = w /\ <<w, x, result>>[2] = x
    OBVIOUS
  <2>5. \/ <<key[x], x>> \in MuxEntries(w)
        \/ \E result \in MuxResults : <<w, x, result>> \in sending
    BY <1>1, <2>1 DEF MuxWaiterInv, MuxWaitingIsHeld
  <2> QED BY <2>1, <2>3, <2>4, <2>5
<1>2. Vless!FailedCallsSeeClosed
  BY DEF Vless!FailedCallsSeeClosed, MuxWaiterInv, MuxSendingOwned, MuxFailed
<1> QED BY <1>1, <1>2, MuxDemux DEF Vless!NoStrandedCall, MuxWaiting

-----------------------------------------------------------------------------
(* The invariant of the adapter whose behaviour it is.                     *)
UsersInv ==
  \/ adapter = "anytls" /\ UdpInv
  \/ adapter = "vless" /\ MuxInv

LEMMA UsersInitInv == Init => UsersInv
BY PacketUsersAssumption, UdpInitInv, MuxInitInv DEF Init, UsersInv

(* Every step keeps the invariant; and it evicts only what is dead.        *)
LEMMA UsersStep ==
  UsersInv /\ [Next]_vars =>
    UsersInv' /\ (adapter = "anytls" => AnyTls!EvictsDeadConn)
<1> SUFFICES ASSUME UsersInv, [Next]_vars
             PROVE  UsersInv' /\ (adapter = "anytls" => AnyTls!EvictsDeadConn)
  OBVIOUS
<1>1. /\ adapter' = adapter
      /\ adapter = "anytls" => [AnyTls!Next]_(AnyTls!vars)
      /\ adapter = "vless" => [Vless!Next]_(Vless!vars)
  <2>1. CASE Next
    BY <2>1 DEF Next
  <2>2. CASE UNCHANGED vars
    BY <2>2 DEF vars, anytlsOnly, vlessOnly, AnyTls!vars, AnyTls!connVars, AnyTls!callVars,
                Vless!vars, Vless!tableVars, Vless!writerVars, Vless!callVars
  <2> QED BY <2>1, <2>2
<1>2. CASE adapter = "anytls"
  <2>1. UdpInv' /\ AnyTls!EvictsDeadConn
    BY <1>1, <1>2, PacketUsersAssumption, UdpStep, UdpEvicts DEF UsersInv
  <2> QED BY <1>1, <1>2, <2>1 DEF UsersInv
<1>3. CASE adapter = "vless"
  <2>1. MuxInv'
    BY <1>1, <1>3, PacketUsersAssumption, MuxStep DEF UsersInv
  <2> QED BY <1>1, <1>3, <2>1 DEF UsersInv
<1> QED BY <1>2, <1>3 DEF UsersInv

(* What the invariant is for.                                              *)
LEMMA UsersInvIsEnough ==
  UsersInv => NoStrandedCall /\ RetryUsesAnotherConn /\ NoWaiterLeaks /\ FirstFrameNew
BY PacketUsersAssumption, UdpInvIsEnough, MuxInvIsEnough
   DEF UsersInv, NoStrandedCall, RetryUsesAnotherConn, NoWaiterLeaks, FirstFrameNew

LEMMA UsersInvHolds == Spec => []UsersInv
<1>1. UsersInv /\ [Next]_vars => UsersInv'
  BY UsersStep
<1> QED BY UsersInitInv, <1>1, PTL DEF Spec

-----------------------------------------------------------------------------
(* A call that awaits its receiver is listed in the table of its own       *)
(* connection or worker, or its answer is on the way: `Ok(Err(_))' of      *)
(* anytls.rs send and vless.rs send_packet is never taken, however many    *)
(* calls register, time out and fail at once.                              *)
THEOREM NoCallStranded == Spec => []NoStrandedCall
<1>1. UsersInv => NoStrandedCall
  BY UsersInvIsEnough
<1> QED BY UsersInvHolds, <1>1, PTL

(* The second attempt of send_uot is made on another connection than the   *)
(* first; a VLESS worker that fails a caller is closed by then, so that    *)
(* mux_worker_for gives a later try another one.                           *)
THEOREM RetriesElsewhere == Spec => []RetryUsesAnotherConn
<1>1. UsersInv => RetryUsesAnotherConn
  BY UsersInvIsEnough
<1> QED BY UsersInvHolds, <1>1, PTL

(* Once every send_uot has returned no table of any AnyTLS connection, in  *)
(* the map or dropped from it, holds a waiter.                             *)
THEOREM NoLeaks == Spec => []NoWaiterLeaks
<1>1. UsersInv => NoWaiterLeaks
  BY UsersInvIsEnough
<1> QED BY UsersInvHolds, <1>1, PTL

(* A connection leaves the client's udp map closed, idle or with the last  *)
(* call: remove_udp_conn never evicts the successor of the connection that *)
(* failed.                                                                 *)
THEOREM NoLiveEviction == Spec => EvictsOnlyDeadConns
<1>1. UsersInv /\ [Next]_vars => (adapter = "anytls" => AnyTls!EvictsDeadConn)
  BY UsersStep
<1> QED BY UsersInvHolds, <1>1, PTL DEF Spec, EvictsOnlyDeadConns

(* Whichever call gets the writer's mutex first writes the New frame, and  *)
(* no other frame of the stream is New.                                    *)
THEOREM OneNewFrame == Spec => []FirstFrameNew
<1>1. UsersInv => FirstFrameNew
  BY UsersInvIsEnough
<1> QED BY UsersInvHolds, <1>1, PTL
=============================================================================
