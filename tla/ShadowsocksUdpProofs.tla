------------------------ MODULE ShadowsocksUdpProofs ------------------------
(***************************************************************************)
(* The packet lanes of Shadowsocks, for any number of calls, targets,      *)
(* lanes and sockets.                                                      *)
(*                                                                         *)
(* The first part is of the sockets: who may replace a lane's socket, and  *)
(* when.  A socket is opened only by the call that holds the lane's mutex  *)
(* and found the lane without one; it is closed only under the mutex, too. *)
(* A UoT call holds the mutex while it writes, so its stream stays.        *)
(*                                                                         *)
(* The second part is of the waiters: a call that waits is listed in its   *)
(* lane's table, or its answer is on the way, and the socket it registered *)
(* on is the one the lane still has.                                       *)
(***************************************************************************)
EXTENDS ShadowsocksUdp, PacketDemuxLemmas, TLAPS

-----------------------------------------------------------------------------
(* The sockets. *)
LaneType ==
  /\ kind \in {"direct", "uot"}
  /\ next \in Lanes
  /\ lock \in [Lanes -> Calls \cup {Free}]
  /\ socket \in [Lanes -> Sockets \cup {NoSocket}]
  /\ stale \in [Lanes -> BOOLEAN]
  /\ opened \in 0 .. MaxSockets
  /\ home \in [Sockets -> Lanes]
  /\ reader \in [Sockets -> {"off", "reading", "aborted", "done"}]
  /\ pc \in [Calls -> {"start", "lock", "open", "register", "write",
                       "wait", "expired", "close"} \cup Returned]
  /\ key \in [Calls -> Keys \cup {"none"}]
  /\ lane \in [Calls -> Lanes]
  /\ sock \in [Calls -> Sockets \cup {NoSocket}]

(* A socket in a lane has been opened for that lane. *)
SocketsKnown ==
  \A l \in Lanes : socket[l] # NoSocket => socket[l] <= opened /\ home[socket[l]] = l

(* No reader runs ahead of its socket. *)
ReadersKnown == \A s \in Sockets : reader[s] = "reading" => s <= opened

Holds(x) == pc[x] \in {"open", "register"} \/ (pc[x] = "write" /\ kind = "uot")

LockHeld == \A x \in Calls : Holds(x) => lock[lane[x]] = x

OpensEmptyLane == \A x \in Calls : pc[x] = "open" => socket[lane[x]] = NoSocket

RegistersOnSocket == \A x \in Calls : pc[x] = "register" => socket[lane[x]] # NoSocket

WritesToLane ==
  \A x \in Calls : pc[x] = "write" /\ kind = "uot" =>
    sock[x] = socket[lane[x]] /\ sock[x] # NoSocket

(* The inductive invariant of the lanes. *)
LaneInv ==
  /\ LaneType
  /\ SocketsKnown
  /\ ReadersKnown
  /\ OneReaderPerLane
  /\ LockHeld
  /\ OpensEmptyLane
  /\ RegistersOnSocket
  /\ WritesToLane

(* A new pool has lanes without sockets.                                   *)
LEMMA LaneInitInv == Init => LaneInv
<1> SUFFICES ASSUME Init PROVE LaneInv
  OBVIOUS
<1>1. 0 \in Lanes /\ NoSocket \notin Sockets
  BY LanesAssumption DEF Lanes, Sockets, NoSocket
<1>2. LaneType
  BY <1>1, LanesAssumption DEF Init, LaneType, Returned
<1> QED
  BY <1>1, <1>2 DEF Init, LaneInv, SocketsKnown, ReadersKnown, OneReaderPerLane, LockHeld,
         Holds, OpensEmptyLane, RegistersOnSocket, WritesToLane

(* The steps that leave the sockets and readers alone and take a call from *)
(* one place without the mutex to another keep the invariant.              *)
LEMMA QuietStep ==
  ASSUME LaneInv, LaneType', NEW x \in Calls,
         UNCHANGED <<kind, lock, socket, readerVars>>,
         \A y \in Calls \ {x} : pc'[y] = pc[y] /\ lane'[y] = lane[y] /\ sock'[y] = sock[y],
         ~ Holds(x)'
  PROVE  LaneInv'
<1>1. SocketsKnown' /\ ReadersKnown' /\ OneReaderPerLane'
  BY DEF LaneInv, SocketsKnown, ReadersKnown, OneReaderPerLane, readerVars
<1>2. LockHeld' /\ OpensEmptyLane' /\ RegistersOnSocket' /\ WritesToLane'
  BY DEF LaneInv, LockHeld, OpensEmptyLane, RegistersOnSocket, WritesToLane, Holds
<1> QED BY <1>1, <1>2 DEF LaneInv

(* The choice of a lane.                                                   *)
LEMMA PickInv ==
  ASSUME LaneInv, NEW x \in Calls, NEW k \in Keys, PickLane(x, k)
  PROVE  LaneInv'
<1>1. LaneType'
  <2>1. (next + 1) % NLanes \in Lanes
    BY LanesAssumption DEF LaneInv, LaneType, Lanes
  <2>2. next' \in Lanes /\ lane' \in [Calls -> Lanes]
    BY <2>1 DEF PickLane, LaneInv, LaneType
  <2> QED BY <2>2 DEF PickLane, Goto, LaneInv, LaneType, laneVars, readerVars
<1>2. ~ Holds(x)'
  BY DEF PickLane, Goto, Holds, LaneInv, LaneType
<1> QED
  BY <1>1, <1>2, QuietStep DEF PickLane, Goto, laneVars, readerVars, LaneInv, LaneType

(* Whoever holds a mutex that x has, or that nobody has, is on another     *)
(* lane.                                                                   *)
LEMMA OthersElsewhere ==
  ASSUME LaneInv, NEW x \in Calls, NEW l \in Lanes, lock[l] \in {Free, x}
  PROVE  \A y \in Calls \ {x} : Holds(y) => lane[y] # l
<1>1. Free \notin Calls
  BY LanesAssumption DEF Free
<1> QED BY <1>1 DEF LaneInv, LockHeld

(* What a call x may do to its own lane l: close at most that lane's       *)
(* socket, and stop the reader with it.                                    *)
ChangesOnly(l) ==
  /\ kind' = kind /\ opened' = opened /\ home' = home
  /\ \A m \in Lanes \ {l} : lock'[m] = lock[m] /\ socket'[m] = socket[m]
  /\ socket'[l] \in {socket[l], NoSocket}
  /\ \A s \in Sockets : reader'[s] = "reading" =>
       reader[s] = "reading" /\ (socket'[l] # socket[l] => s # socket[l])

OthersStay(x) ==
  \A y \in Calls \ {x} : pc'[y] = pc[y] /\ lane'[y] = lane[y] /\ sock'[y] = sock[y]

(* x goes on only to what it is then entitled to on lane l.                *)
EntitledNext(x, l) ==
  /\ Holds(x)' => lane'[x] = l /\ lock'[l] = x
  /\ pc'[x] = "open" => socket'[l] = NoSocket
  /\ pc'[x] = "register" => socket'[l] # NoSocket
  /\ pc'[x] = "write" /\ kind = "uot" => sock'[x] = socket'[l] /\ sock'[x] # NoSocket

(* Such a step under the mutex keeps the invariant.                        *)
LEMMA MutexStep ==
  ASSUME LaneInv, LaneType', NEW x \in Calls, NEW l \in Lanes,
         lock[l] \in {Free, x}, ChangesOnly(l), OthersStay(x), EntitledNext(x, l)
  PROVE  LaneInv'
<1> USE DEF ChangesOnly, OthersStay, EntitledNext
<1>1. \A y \in Calls \ {x} : Holds(y) => lane[y] # l
  BY OthersElsewhere
<1>2. \A y \in Calls \ {x} : Holds(y)' => Holds(y)
  BY DEF Holds
<1>3. \A y \in Calls : lane[y] \in Lanes
  BY DEF LaneInv, LaneType
<1>4. SocketsKnown' /\ ReadersKnown'
  BY DEF LaneInv, SocketsKnown, ReadersKnown
<1>5. OneReaderPerLane'
  <2>1. \A s \in Sockets : home[s] \in Lanes
    BY DEF LaneInv, LaneType
  <2> QED BY <2>1 DEF LaneInv, OneReaderPerLane
<1>6. LockHeld'
  BY <1>1, <1>2, <1>3 DEF LaneInv, LockHeld
<1>7. OpensEmptyLane'
  BY <1>1, <1>3 DEF LaneInv, OpensEmptyLane, Holds
<1>8. RegistersOnSocket'
  BY <1>1, <1>3 DEF LaneInv, RegistersOnSocket, Holds
<1>9. WritesToLane'
  BY <1>1, <1>3 DEF LaneInv, WritesToLane, Holds
<1> QED BY <1>4, <1>5, <1>6, <1>7, <1>8, <1>9 DEF LaneInv

(* reset_state: the lane is left without a socket, and no other lane, and  *)
(* the reader of that socket is told to stop.                              *)
LEMMA ResetFacts ==
  ASSUME LaneInv, NEW l \in Lanes, NEW d, ResetLane(l, d)
  PROVE  /\ socket' \in [Lanes -> Sockets \cup {NoSocket}]
         /\ socket'[l] = NoSocket
         /\ \A m \in Lanes \ {l} : socket'[m] = socket[m]
         /\ reader' \in [Sockets -> {"off", "reading", "aborted", "done"}]
         /\ \A s \in Sockets : reader'[s] = "reading" => reader[s] = "reading" /\ s # socket[l]
BY DEF LaneInv, LaneType, ResetLane, Aborted

(* A step that unlocks or resets its lane, and nothing else of the lanes.  *)
LEMMA ResetChanges ==
  ASSUME LaneInv, NEW l \in Lanes, NEW d, ResetLane(l, d),
         kind' = kind, opened' = opened, home' = home,
         \A m \in Lanes \ {l} : lock'[m] = lock[m]
  PROVE  ChangesOnly(l)
<1>1. /\ socket'[l] = NoSocket
      /\ \A m \in Lanes \ {l} : socket'[m] = socket[m]
      /\ \A s \in Sockets : reader'[s] = "reading" => reader[s] = "reading" /\ s # socket[l]
  BY ResetFacts
<1> QED BY <1>1 DEF ChangesOnly

LEMMA UnlockChanges ==
  ASSUME LaneInv, NEW l \in Lanes,
         kind' = kind, opened' = opened, home' = home, socket' = socket, reader' = reader,
         \A m \in Lanes \ {l} : lock'[m] = lock[m]
  PROVE  ChangesOnly(l)
BY DEF ChangesOnly

(* send: the mutex, and the reset of a lane that is empty or out of use.   *)
LEMMA LockInv ==
  ASSUME LaneInv, NEW x \in Calls, LockLane(x)
  PROVE  LaneInv'
<1> DEFINE l == lane[x]
<1>1. l \in Lanes /\ lock[l] = Free /\ lock' = [lock EXCEPT ![l] = x]
  BY DEF LaneInv, LaneType, LockLane
<1>2. CASE socket[l] = NoSocket \/ stale[l]
  <2>1. ResetLane(l, demux[l]) /\ pc' = [pc EXCEPT ![x] = "open"]
    BY <1>2 DEF LockLane, Goto
  <2>2. UNCHANGED <<kind, next, stale, opened, home, key, lane, sock>>
    BY DEF LockLane, callVars
  <2>3. LaneType'
    BY <1>1, <2>1, <2>2, ResetFacts DEF LaneInv, LaneType
  <2>4. ChangesOnly(l)
    <3>1. \A m \in Lanes \ {l} : lock'[m] = lock[m]
      BY <1>1 DEF LaneInv, LaneType
    <3> QED BY <1>1, <2>1, <2>2, <3>1, ResetChanges
  <2>5. OthersStay(x)
    BY <2>1, <2>2 DEF OthersStay, LaneInv, LaneType
  <2>6. EntitledNext(x, l)
    <3>1. pc'[x] = "open" /\ lock'[l] = x /\ lane'[x] = l
      BY <1>1, <2>1, <2>2 DEF LaneInv, LaneType
    <3>2. socket'[l] = NoSocket
      BY <1>1, <2>1, ResetFacts
    <3> QED BY <3>1, <3>2 DEF EntitledNext
  <2> QED
    BY <1>1, <2>3, <2>4, <2>5, <2>6, MutexStep
<1>3. CASE ~ (socket[l] = NoSocket \/ stale[l])
  <2>1. pc' = [pc EXCEPT ![x] = "register"] /\ UNCHANGED <<socket, reader>>
    BY <1>3 DEF LockLane, Goto
  <2>2. UNCHANGED <<kind, next, stale, opened, home, key, lane, sock>>
    BY DEF LockLane, callVars
  <2>3. LaneType'
    BY <1>1, <2>1, <2>2 DEF LaneInv, LaneType
  <2>4. ChangesOnly(l)
    <3>1. \A m \in Lanes \ {l} : lock'[m] = lock[m]
      BY <1>1 DEF LaneInv, LaneType
    <3> QED BY <1>1, <2>1, <2>2, <3>1, UnlockChanges
  <2>5. OthersStay(x)
    BY <2>1, <2>2 DEF OthersStay, LaneInv, LaneType
  <2>6. EntitledNext(x, l)
    <3>1. pc'[x] = "register" /\ lock'[l] = x /\ lane'[x] = l
      BY <1>1, <2>1, <2>2 DEF LaneInv, LaneType
    <3> QED BY <1>3, <2>1, <3>1 DEF EntitledNext
  <2> QED
    BY <1>1, <2>3, <2>4, <2>5, <2>6, MutexStep
<1> QED BY <1>2, <1>3

(* The new socket is a number nobody has, in a lane that had none.         *)
LEMMA OpenInv ==
  ASSUME LaneInv, NEW x \in Calls, OpenLane(x)
  PROVE  LaneInv'
<1> DEFINE l == lane[x]
           s == opened + 1
<1>1. /\ l \in Lanes /\ pc[x] = "open" /\ lock[l] = x /\ socket[l] = NoSocket
      /\ s \in Sockets /\ s # NoSocket
  BY LanesAssumption
     DEF LaneInv, LaneType, LockHeld, Holds, OpensEmptyLane, OpenLane, NewSocket, Sockets, NoSocket
<1>2. /\ opened' = s
      /\ socket' = [socket EXCEPT ![l] = s]
      /\ home' = [home EXCEPT ![s] = l]
      /\ reader' = [reader EXCEPT ![s] = "reading"]
      /\ pc' = [pc EXCEPT ![x] = "register"]
      /\ UNCHANGED <<kind, next, lock, stale, key, lane, sock>>
  BY DEF OpenLane, NewSocket, Goto, callVars
<1>3. LaneType'
  <2>1. opened' \in 0 .. MaxSockets
    BY <1>1, <1>2, LanesAssumption DEF LaneInv, LaneType, Sockets
  <2> QED BY <1>1, <1>2, <2>1 DEF LaneInv, LaneType
<1>4. \A r \in Sockets : r <= opened => r # s /\ r <= s
  BY DEF LaneInv, LaneType, Sockets
<1>5. \A m \in Lanes : socket[m] # NoSocket => socket[m] \in Sockets
  BY DEF LaneInv, LaneType
<1>6. \A y \in Calls \ {x} : Holds(y) => lane[y] # l
  BY <1>1, OthersElsewhere
<1>7. \A y \in Calls : lane[y] \in Lanes
  BY DEF LaneInv, LaneType
<1>8. s <= s /\ pc \in [Calls -> {"start", "lock", "open", "register", "write",
                                  "wait", "expired", "close"} \cup Returned]
  BY DEF LaneInv, LaneType
<1> HIDE DEF l, s
<1>9. SocketsKnown'
  <2> SUFFICES ASSUME NEW m \in Lanes, socket'[m] # NoSocket
               PROVE  socket'[m] <= s /\ home'[socket'[m]] = m
    BY <1>2 DEF SocketsKnown
  <2>1. CASE m = l
    BY <1>1, <1>2, <1>8, <2>1 DEF LaneInv, LaneType
  <2>2. CASE m # l
    <3>1. socket'[m] = socket[m] /\ socket[m] \in Sockets
      BY <1>2, <1>5, <2>2 DEF LaneInv, LaneType
    <3>2. socket[m] <= opened /\ home[socket[m]] = m
      BY <3>1 DEF LaneInv, SocketsKnown
    <3>3. socket[m] # s /\ socket[m] <= s
      BY <1>4, <3>1, <3>2
    <3> QED BY <1>2, <3>1, <3>2, <3>3 DEF LaneInv, LaneType
  <2> QED BY <2>1, <2>2
<1>10. ReadersKnown' /\ OneReaderPerLane'
  <2> SUFFICES ASSUME NEW r \in Sockets, reader'[r] = "reading"
               PROVE  r <= s /\ socket'[home'[r]] = r
    BY <1>2 DEF ReadersKnown, OneReaderPerLane
  <2>1. CASE r = s
    BY <1>1, <1>2, <1>8, <2>1 DEF LaneInv, LaneType
  <2>2. CASE r # s
    <3>1. reader[r] = "reading" /\ home'[r] = home[r] /\ home[r] \in Lanes
      BY <1>2, <2>2 DEF LaneInv, LaneType
    <3>2. socket[home[r]] = r /\ r <= opened
      BY <3>1 DEF LaneInv, ReadersKnown, OneReaderPerLane
    <3>3. r # NoSocket
      BY DEF Sockets, NoSocket
    <3>4. home[r] # l
      BY <1>1, <3>2, <3>3 
    <3> QED BY <1>2, <1>4, <3>1, <3>2, <3>4 DEF LaneInv, LaneType
  <2> QED BY <2>1, <2>2
<1>11. LockHeld' /\ OpensEmptyLane' /\ RegistersOnSocket' /\ WritesToLane'
  <2>1. \A y \in Calls \ {x} : pc'[y] = pc[y]
    BY <1>2, <1>8
  <2>2. pc'[x] = "register" /\ socket'[lane'[x]] = s
    BY <1>1, <1>2, <1>8 DEF LaneInv, LaneType, l
  <2>3. \A m \in Lanes \ {l} : socket'[m] = socket[m]
    BY <1>2 DEF LaneInv, LaneType
  <2>4. LockHeld'
    BY <1>1, <1>2, <2>1, <2>2 DEF LaneInv, LockHeld, Holds, l
  <2>5. OpensEmptyLane' /\ RegistersOnSocket'
    BY <1>1, <1>2, <1>6, <1>7, <2>1, <2>2, <2>3
       DEF LaneInv, OpensEmptyLane, RegistersOnSocket, Holds
  <2>6. WritesToLane'
    BY <1>2, <1>6, <1>7, <2>1, <2>2, <2>3 DEF LaneInv, WritesToLane, Holds
  <2> QED BY <2>4, <2>5, <2>6
<1> QED BY <1>3, <1>9, <1>10, <1>11 DEF LaneInv

(* A call that returns holds no mutex and has no socket. *)
LEMMA ReturnFacts ==
  ASSUME LaneInv, NEW x \in Calls, NEW result \in Returned, Return(x, result)
  PROVE  /\ pc' \in [Calls -> {"start", "lock", "open", "register", "write",
                               "wait", "expired", "close"} \cup Returned]
         /\ key' \in [Calls -> Keys \cup {"none"}]
         /\ lane' \in [Calls -> Lanes]
         /\ sock' \in [Calls -> Sockets \cup {NoSocket}]
         /\ \A y \in Calls \ {x} : /\ pc'[y] = pc[y] /\ key'[y] = key[y]
                                   /\ lane'[y] = lane[y] /\ sock'[y] = sock[y]
         /\ pc'[x] = result /\ ~ Holds(x)'
<1>1. 0 \in Lanes
  BY LanesAssumption DEF Lanes
<1> QED BY <1>1 DEF Return, Goto, LaneInv, LaneType, Returned, Holds

LEMMA ReturnStays ==
  ASSUME LaneInv, NEW x \in Calls, NEW l \in Lanes, Return(x, "err")
  PROVE  "err" \in Returned /\ OthersStay(x) /\ EntitledNext(x, l)
<1>1. "err" \in Returned
  BY DEF Returned
<1>2. pc'[x] = "err" /\ ~ Holds(x)'
  BY <1>1, ReturnFacts
<1>3. EntitledNext(x, l)
  BY <1>2 DEF EntitledNext
<1>4. OthersStay(x)
  BY <1>1, ReturnFacts DEF OthersStay
<1> QED BY <1>1, <1>3, <1>4

(* `?' while the socket is opened: the lane is unlocked without one.       *)
LEMMA OpenFailsInv ==
  ASSUME LaneInv, NEW x \in Calls, OpenLaneFails(x)
  PROVE  LaneInv'
<1> DEFINE l == lane[x]
<1>1. l \in Lanes /\ lock[l] = x /\ lock' = [lock EXCEPT ![l] = Free] /\ Return(x, "err")
  BY DEF LaneInv, LaneType, LockHeld, Holds, OpenLaneFails, Unlock
<1>2. UNCHANGED <<kind, next, socket, stale, opened, home, reader>>
  BY DEF OpenLaneFails, readerVars
<1>3. "err" \in Returned /\ OthersStay(x) /\ EntitledNext(x, l)
  BY <1>1, ReturnStays
<1>4. LaneType'
  BY <1>1, <1>2, <1>3, ReturnFacts DEF LaneInv, LaneType
<1>5. ChangesOnly(l)
  <2>1. \A m \in Lanes \ {l} : lock'[m] = lock[m]
    BY <1>1 DEF LaneInv, LaneType
  <2> QED BY <1>1, <1>2, <2>1, UnlockChanges
<1> QED
  BY <1>1, <1>3, <1>4, <1>5, MutexStep

(* The call registers on the socket the lane has; a direct UDP call then   *)
(* lets go of the mutex, a UoT call keeps it.                              *)
LEMMA RegisterInv ==
  ASSUME LaneInv, NEW x \in Calls, RegisterInLane(x),
         \/ Unlock(lane[x]) /\ kind = "direct"
         \/ UNCHANGED lock
  PROVE  LaneInv'
<1> DEFINE l == lane[x]
<1>1. /\ l \in Lanes /\ lock[l] = x /\ socket[l] # NoSocket
      /\ socket[l] \in Sockets
  BY DEF LaneInv, LaneType, LockHeld, Holds, RegistersOnSocket, RegisterInLane
<1>2. /\ pc' = [pc EXCEPT ![x] = "write"]
      /\ sock' = [sock EXCEPT ![x] = socket[l]]
      /\ stale' = [stale EXCEPT ![l] = FALSE]
      /\ UNCHANGED <<kind, next, socket, opened, home, reader, key, lane>>
  BY DEF RegisterInLane, Goto, readerVars
<1>3. /\ lock' \in [Lanes -> Calls \cup {Free}]
      /\ \A m \in Lanes \ {l} : lock'[m] = lock[m]
      /\ kind = "uot" => lock'[l] = x
  BY <1>1 DEF LaneInv, LaneType, Unlock
<1>4. LaneType'
  BY <1>1, <1>2, <1>3 DEF LaneInv, LaneType
<1>5. ChangesOnly(l)
  BY <1>1, <1>2, <1>3, UnlockChanges
<1>6. OthersStay(x)
  BY <1>2 DEF OthersStay, LaneInv, LaneType
<1>7. EntitledNext(x, l)
  <2>1. pc'[x] = "write" /\ lane'[x] = l /\ sock'[x] = socket'[l] /\ socket'[l] # NoSocket
    BY <1>1, <1>2 DEF LaneInv, LaneType
  <2>2. kind' = kind
    BY <1>2
  <2> QED BY <1>3, <2>1, <2>2 DEF EntitledNext, Holds
<1> QED
  BY <1>1, <1>4, <1>5, <1>6, <1>7, MutexStep

(* The packet cannot be encoded: the mutex is released.                    *)
LEMMA EncodeFailsInv ==
  ASSUME LaneInv, NEW x \in Calls, EncodeFails(x)
  PROVE  LaneInv'
<1> DEFINE l == lane[x]
<1>1. l \in Lanes /\ lock[l] = x /\ lock' = [lock EXCEPT ![l] = Free] /\ Return(x, "err")
  BY DEF LaneInv, LaneType, LockHeld, Holds, EncodeFails, Unlock
<1>2. UNCHANGED <<kind, next, socket, opened, home, reader>> /\ stale' \in [Lanes -> BOOLEAN]
  BY DEF EncodeFails, readerVars, LaneInv, LaneType
<1>3. "err" \in Returned /\ OthersStay(x) /\ EntitledNext(x, l)
  BY <1>1, ReturnStays
<1>4. LaneType'
  BY <1>1, <1>2, <1>3, ReturnFacts DEF LaneInv, LaneType
<1>5. ChangesOnly(l)
  <2>1. \A m \in Lanes \ {l} : lock'[m] = lock[m]
    BY <1>1 DEF LaneInv, LaneType
  <2> QED BY <1>1, <1>2, <2>1, UnlockChanges
<1> QED
  BY <1>1, <1>3, <1>4, <1>5, MutexStep

(* close() of a direct UDP lane takes the mutex for the reset; whoever     *)
(* registered on that socket had let go of it.                             *)
LEMMA CloseInv ==
  ASSUME LaneInv, NEW x \in Calls, Close(x)
  PROVE  LaneInv'
<1> DEFINE l == lane[x]
<1>1. l \in Lanes /\ lock[l] = Free /\ ResetLane(l, demux[l]) /\ Return(x, "err")
  BY DEF LaneInv, LaneType, Close
<1>2. UNCHANGED <<kind, next, lock, stale, opened, home>>
  BY DEF Close
<1>3. "err" \in Returned /\ OthersStay(x) /\ EntitledNext(x, l)
  BY <1>1, ReturnStays
<1>4. LaneType'
  BY <1>1, <1>2, <1>3, ResetFacts, ReturnFacts DEF LaneInv, LaneType
<1>5. ChangesOnly(l)
  BY <1>1, <1>2, ResetChanges
<1> QED
  BY <1>1, <1>3, <1>4, <1>5, MutexStep

(* A UoT write, and one that fails: the lane is reset before the mutex is  *)
(* released, so the stream it closes is the one it wrote to.               *)
LEMMA UotWriteInv ==
  ASSUME LaneInv, kind = "uot", NEW x \in Calls, UotWrite(x)
  PROVE  LaneInv'
<1> DEFINE l == lane[x]
<1>1. l \in Lanes /\ lock[l] = x /\ lock' = [lock EXCEPT ![l] = Free]
  BY DEF LaneInv, LaneType, LockHeld, Holds, UotWrite, Unlock
<1>2. /\ pc' = [pc EXCEPT ![x] = "wait"]
      /\ UNCHANGED <<kind, next, socket, stale, opened, home, reader, key, lane, sock>>
  BY DEF UotWrite, Goto, readerVars, callVars
<1>3. LaneType'
  BY <1>1, <1>2 DEF LaneInv, LaneType
<1>4. ChangesOnly(l)
  <2>1. \A m \in Lanes \ {l} : lock'[m] = lock[m]
    BY <1>1 DEF LaneInv, LaneType
  <2> QED BY <1>1, <1>2, <2>1, UnlockChanges
<1>5. OthersStay(x)
  BY <1>2 DEF OthersStay, LaneInv, LaneType
<1>6. EntitledNext(x, l)
  <2>1. pc'[x] = "wait"
    BY <1>2 DEF LaneInv, LaneType
  <2> QED BY <2>1 DEF EntitledNext, Holds
<1> QED
  BY <1>1, <1>3, <1>4, <1>5, <1>6, MutexStep

LEMMA UotWriteFailsInv ==
  ASSUME LaneInv, kind = "uot", NEW x \in Calls, UotWriteFails(x)
  PROVE  LaneInv'
<1> DEFINE l == lane[x]
           d == remove_by_id(demux[l], key[x], x)
<1>1. /\ l \in Lanes /\ lock[l] = x /\ lock' = [lock EXCEPT ![l] = Free]
      /\ ResetLane(l, d) /\ Return(x, "err")
  BY DEF LaneInv, LaneType, LockHeld, Holds, UotWriteFails, Unlock
<1>2. UNCHANGED <<kind, next, stale, opened, home>>
  BY DEF UotWriteFails
<1> HIDE DEF d
<1>3. "err" \in Returned /\ OthersStay(x) /\ EntitledNext(x, l)
  BY <1>1, ReturnStays
<1>4. LaneType'
  BY <1>1, <1>2, <1>3, ResetFacts, ReturnFacts DEF LaneInv, LaneType
<1>5. ChangesOnly(l)
  <2>1. \A m \in Lanes \ {l} : lock'[m] = lock[m]
    BY <1>1 DEF LaneInv, LaneType
  <2> QED BY <1>1, <1>2, <2>1, ResetChanges
<1> QED
  BY <1>1, <1>3, <1>4, <1>5, MutexStep

(* A call that writes datagrams, waits or has waited holds no mutex.       *)
LEMMA WaitInv ==
  ASSUME LaneInv, NEW x \in Calls,
         \/ kind = "direct" /\ (DirectWrite(x) \/ DirectWriteFails(x))
         \/ Expires(x) \/ GivesUp(x)
  PROVE  LaneInv'
<1>1. CASE \/ kind = "direct" /\ (DirectWrite(x) \/ DirectWriteFails(x))
           \/ Expires(x)
  <2>1. /\ pc' \in {[pc EXCEPT ![x] = "wait"], [pc EXCEPT ![x] = "close"],
                    [pc EXCEPT ![x] = "expired"]}
        /\ UNCHANGED <<kind, next, lock, socket, stale, opened, home, reader, key, lane, sock>>
    BY <1>1 DEF DirectWrite, DirectWriteFails, Expires, Goto, laneVars, readerVars, callVars
  <2>2. LaneType'
    BY <2>1 DEF LaneInv, LaneType
  <2>3. ~ Holds(x)' /\ \A y \in Calls \ {x} : pc'[y] = pc[y]
    BY <2>1 DEF LaneInv, LaneType, Holds
  <2> QED BY <2>1, <2>2, <2>3, QuietStep DEF readerVars
<1>2. CASE GivesUp(x)
  <2>1. Return(x, "err") /\ "err" \in Returned
    BY <1>2 DEF GivesUp, Returned
  <2>2. LaneType'
    BY <1>2, <2>1, ReturnFacts DEF GivesUp, LaneInv, LaneType, readerVars
  <2>3. OthersStay(x) /\ ~ Holds(x)'
    BY <2>1, ReturnFacts DEF OthersStay
  <2>4. UNCHANGED <<kind, lock, socket, readerVars>>
    BY <1>2 DEF GivesUp
  <2> QED BY <2>2, <2>3, <2>4, QuietStep DEF OthersStay
<1> QED BY <1>1, <1>2

(* The oneshot send, taken or not.                                         *)
LEMMA SendInv ==
  ASSUME LaneInv, NEW s \in sending, Send(s[1], s[2], s[3]), s[2] \in Calls
  PROVE  LaneInv'
<1> DEFINE x == s[2]
           result == IF s[3] = Failed THEN "err" ELSE "ok"
<1>1. UNCHANGED <<kind, next, lock, socket, stale, readerVars>>
  BY DEF Send, laneVars
<1>2. result \in Returned
  BY DEF Returned
<1> HIDE DEF result
<1>3. CASE UNCHANGED <<pc, callVars>>
  BY <1>1, <1>3 DEF LaneInv, LaneType, SocketsKnown, ReadersKnown, OneReaderPerLane, LockHeld,
       OpensEmptyLane, RegistersOnSocket, WritesToLane, Holds, callVars, readerVars
<1>4. CASE Return(x, result)
  <2>1. LaneType'
    BY <1>1, <1>2, <1>4, ReturnFacts DEF LaneInv, LaneType, readerVars
  <2>2. OthersStay(x) /\ ~ Holds(x)'
    BY <1>2, <1>4, ReturnFacts DEF OthersStay
  <2> QED BY <1>1, <2>1, <2>2, QuietStep DEF OthersStay
<1> QED BY <1>3, <1>4 DEF Send, result

(* What the readers do, and the passing of the idle timeout: no socket     *)
(* comes or goes, and no reader starts.                                    *)
LEMMA ReaderInv ==
  ASSUME LaneInv,
         \/ \E s \in Sockets : DirectReader(s) \/ UotReader(s)
         \/ \E l \in Lanes : GrowStale(l)
         \/ UNCHANGED vars
  PROVE  LaneInv'
<1>1. /\ UNCHANGED <<kind, next, lock, socket, opened, home, pc, key, lane, sock>>
      /\ stale' \in [Lanes -> BOOLEAN]
      /\ reader' \in [Sockets -> {"off", "reading", "aborted", "done"}]
      /\ \A s \in Sockets : reader'[s] = "reading" => reader[s] = "reading"
  <2>1. CASE \E s \in Sockets : DirectReader(s) \/ UotReader(s)
    <3>1. PICK s \in Sockets : \/ \E k \in Keys : ReaderDeliversTo(s, k)
                               \/ ReaderEnds(s) \/ ReaderStops(s)
      BY <2>1 DEF DirectReader, UotReader
    <3>2. /\ UNCHANGED <<kind, next, lock, socket, stale, opened, home, pc, callVars>>
          /\ reader' = reader \/ reader' = [reader EXCEPT ![s] = "done"]
      BY <3>1 DEF ReaderDeliversTo, ReaderEnds, ReaderStops, laneVars, readerVars
    <3> QED BY <3>2 DEF LaneInv, LaneType, callVars
  <2>2. CASE \E l \in Lanes : GrowStale(l)
    BY <2>2 DEF GrowStale, readerVars, callVars, LaneInv, LaneType
  <2>3. CASE UNCHANGED vars
    BY <2>3 DEF vars, laneVars, readerVars, callVars, LaneInv, LaneType
  <2> QED BY <2>1, <2>2, <2>3
<1>2. LaneType'
  BY <1>1 DEF LaneInv, LaneType
<1> QED
  BY <1>1, <1>2 DEF LaneInv, SocketsKnown, ReadersKnown, OneReaderPerLane, LockHeld,
     OpensEmptyLane, RegistersOnSocket, WritesToLane, Holds

(* Every step of the pool, the answers going to calls of the pool, keeps   *)
(* the invariant of the lanes.                                             *)
LEMMA LaneStep ==
  ASSUME LaneInv, [Next]_vars, \A s \in sending : s[2] \in Calls
  PROVE  LaneInv'
<1>1. ASSUME NEW x \in Calls, Step(x) PROVE LaneInv'
  <2>1. CASE DirectStep(x)
    BY <2>1, PickInv, OpenInv, OpenFailsInv, RegisterInv, EncodeFailsInv, WaitInv
       DEF DirectStep, DirectPick, DirectOpen, DirectRegister, DirectTimeout
  <2>2. CASE UotStep(x)
    BY <2>2, PickInv, OpenInv, OpenFailsInv, RegisterInv, UotWriteInv, UotWriteFailsInv, WaitInv
       DEF UotStep, UotPick, UotOpen, UotRegister, UotTimeout
  <2> QED BY <1>1, <2>1, <2>2 DEF Step
<1>2. ASSUME NEW x \in Calls, Locks(x) PROVE LaneInv'
  BY <1>2, LockInv, CloseInv DEF Locks, DirectLocks, DirectLock, UotLocks, UotLock
<1>3. CASE Sends
  BY <1>3, SendInv DEF Sends
<1>4. CASE \E s \in Sockets : Reader(s)
  BY <1>4, ReaderInv DEF Reader
<1>5. CASE (\E l \in Lanes : GrowStale(l)) \/ UNCHANGED vars
  BY <1>5, ReaderInv
<1> QED BY <1>1, <1>2, <1>3, <1>4, <1>5 DEF Next, Settled

-----------------------------------------------------------------------------
(* The waiters. *)
Entries(l) == Elements(demux[l].fifo)

WaiterType ==
  /\ demux = [l \in Lanes |-> demux[l]]
  /\ \A l \in Lanes : DemuxType(demux[l], Keys, Calls) /\ DemuxOK(demux[l])
  /\ sending \subseteq Lanes \X Calls \X (Keys \cup {Failed})

(* A call that is under way knows its target. *)
KeyKnown == \A x \in Calls : pc[x] \notin {"start"} \cup Returned => key[x] \in Keys

(* A table entry belongs to a call that registered it on the socket the    *)
(* lane still has.                                                         *)
EntriesOwned ==
  \A l \in Lanes : \A e \in Entries(l) :
    /\ pc[e[2]] \in {"write", "wait", "expired"}
    /\ key[e[2]] = e[1] /\ lane[e[2]] = l
    /\ sock[e[2]] = socket[l] /\ socket[l] # NoSocket

(* A result on its way has left the tables. *)
SendingOwned ==
  \A s \in sending :
    /\ pc[s[2]] \notin {"start", "lock", "open", "register"}
    /\ \A l \in Lanes : \A e \in Entries(l) : e[2] # s[2]

WaitingIsHeld ==
  \A x \in Calls : pc[x] \in {"write", "wait"} =>
    \/ <<key[x], x>> \in Entries(lane[x])
    \/ \E result \in {key[x], Failed} : <<lane[x], x, result>> \in sending

WaiterInv ==
  /\ WaiterType
  /\ KeyKnown
  /\ EntriesOwned
  /\ SendingOwned
  /\ WaitingIsHeld

(* The places of a call that has not registered yet. *)
Early == {"start", "lock", "open", "register"}

(* What a step that registers nobody may do with a call y: nothing; move   *)
(* it along while it waits; or take it away from the tables for good.      *)
GoesOn(y) ==
  \/ pc'[y] = pc[y] /\ key'[y] = key[y] /\ lane'[y] = lane[y] /\ sock'[y] = sock[y]
  \/ /\ pc[y] \in {"write", "wait"} /\ pc'[y] \in {"wait", "expired"}
     /\ key'[y] = key[y] /\ lane'[y] = lane[y] /\ sock'[y] = sock[y]
  \/ /\ \A m \in Lanes : \A e \in Entries(m)' : e[2] # y
     /\ pc'[y] \notin {"write", "wait"}
     /\ pc'[y] \in Early => pc[y] \in Early
     /\ pc'[y] \notin {"start"} \cup Returned => key'[y] \in Keys

(* A call is listed, or about to be answered, only between its             *)
(* registration and its return.                                            *)
LEMMA ListedCalls ==
  ASSUME WaiterInv, NEW l \in Lanes, NEW e \in Entries(l)
  PROVE  /\ e \in Keys \X Calls /\ e = <<e[1], e[2]>>
         /\ e[2] \in Calls /\ e[1] = key[e[2]] /\ lane[e[2]] = l
         /\ pc[e[2]] \in {"write", "wait", "expired"}
         /\ sock[e[2]] = socket[l] /\ socket[l] # NoSocket
<1>1. e \in Keys \X Calls
  BY WaitersFacts DEF WaiterInv, WaiterType, Entries
<1> QED BY <1>1 DEF WaiterInv, EntriesOwned

(* A step that takes entries out of the table of one lane l, each to be    *)
(* answered unless its call is gone, keeps the invariant.                  *)
LEMMA TakeStep ==
  ASSUME LaneInv, WaiterInv, WaiterType', NEW l \in Lanes,
         \A y \in Calls : GoesOn(y),
         \A m \in Lanes \ {l} : demux'[m] = demux[m],
         Entries(l)' \subseteq Entries(l),
         \A m \in Lanes : Entries(m)' # {} => socket'[m] = socket[m],
         \A e \in Entries(l) \ Entries(l)' :
           \/ pc'[e[2]] \notin {"write", "wait"}
           \/ \E result \in {e[1], Failed} : <<l, e[2], result>> \in sending',
         \A s \in sending' \ sending :
           s[1] = l /\ \E e \in Entries(l) \ Entries(l)' : e[2] = s[2],
         \A s \in sending \ sending' :
           pc'[s[2]] \notin {"write", "wait"} \/ lane'[s[2]] # s[1]
  PROVE  WaiterInv'
<1>1. \A m \in Lanes : Entries(m)' \subseteq Entries(m)
  BY DEF Entries
<1>2. KeyKnown'
  BY DEF WaiterInv, KeyKnown, GoesOn, Returned
<1>3. EntriesOwned'
  <2> SUFFICES ASSUME NEW m \in Lanes, NEW e \in Entries(m)'
               PROVE  /\ pc'[e[2]] \in {"write", "wait", "expired"}
                      /\ key'[e[2]] = e[1] /\ lane'[e[2]] = m
                      /\ sock'[e[2]] = socket'[m] /\ socket'[m] # NoSocket
    BY DEF EntriesOwned
  <2>1. e \in Entries(m) /\ socket'[m] = socket[m]
    BY <1>1
  <2>2. /\ e[2] \in Calls /\ key[e[2]] = e[1] /\ lane[e[2]] = m
        /\ pc[e[2]] \in {"write", "wait", "expired"}
        /\ sock[e[2]] = socket[m] /\ socket[m] # NoSocket
    BY <2>1, ListedCalls
  <2>3. ~ \A n \in Lanes : \A f \in Entries(n)' : f[2] # e[2]
    OBVIOUS
  <2>4. GoesOn(e[2])
    BY <2>2
  <2> QED BY <2>1, <2>2, <2>3, <2>4 DEF GoesOn
<1>4. SendingOwned'
  <2> SUFFICES ASSUME NEW s \in sending'
               PROVE  /\ pc'[s[2]] \notin Early
                      /\ \A m \in Lanes : \A e \in Entries(m)' : e[2] # s[2]
    BY DEF SendingOwned, Early
  <2>1. s[2] \in Calls
    BY DEF WaiterType
  <2>2. pc[s[2]] \notin Early /\ \A m \in Lanes : \A e \in Entries(m)' : e[2] # s[2]
    <3>1. CASE s \in sending
      BY <1>1, <3>1 DEF WaiterInv, SendingOwned, Early
    <3>2. CASE s \notin sending
      <4>1. PICK e \in Entries(l) \ Entries(l)' : e[2] = s[2]
        BY <3>2
      <4>2. pc[s[2]] \in {"write", "wait", "expired"} /\ lane[s[2]] = l /\ e = <<key[s[2]], s[2]>>
        BY <4>1, ListedCalls
      <4>3. \A m \in Lanes : \A f \in Entries(m)' : f[2] = s[2] => f = e /\ m = l
        BY <1>1, <4>2, ListedCalls
      <4> QED BY <4>1, <4>2, <4>3 DEF Early
    <3> QED BY <3>1, <3>2
  <2>3. GoesOn(s[2])
    BY <2>1
  <2> QED BY <2>2, <2>3 DEF GoesOn, Early
<1>5. WaitingIsHeld'
  <2> SUFFICES ASSUME NEW y \in Calls, pc'[y] \in {"write", "wait"}
               PROVE  \/ <<key'[y], y>> \in Elements(demux'[lane'[y]].fifo)
                      \/ \E result \in {key'[y], Failed} : <<lane'[y], y, result>> \in sending'
    BY DEF WaitingIsHeld, Entries
  <2>1. /\ pc[y] \in {"write", "wait"}
        /\ key'[y] = key[y] /\ lane'[y] = lane[y]
    BY DEF GoesOn
  <2>2. PICK m \in Lanes : m = lane[y]
    BY DEF LaneInv, LaneType
  <2>3. CASE <<key[y], y>> \in Entries(m)
    <3>1. CASE <<key[y], y>> \in Entries(m)'
      BY <2>1, <2>2, <3>1 DEF Entries
    <3>2. CASE <<key[y], y>> \notin Entries(m)'
      <4>1. m = l
        BY <2>3, <3>2 DEF Entries
      <4> QED BY <2>1, <2>2, <2>3, <3>2, <4>1
    <3> QED BY <3>1, <3>2
  <2>4. CASE \E result \in {key[y], Failed} : <<m, y, result>> \in sending
    <3>1. PICK result \in {key[y], Failed} : <<m, y, result>> \in sending
      BY <2>4
    <3>2. <<m, y, result>>[2] = y /\ <<m, y, result>>[1] = m
      OBVIOUS
    <3>3. <<m, y, result>> \in sending'
      BY <2>1, <2>2, <3>1, <3>2
    <3> QED BY <2>1, <2>2, <3>1, <3>3
  <2>5. \/ <<key[y], y>> \in Entries(m)
        \/ \E result \in {key[y], Failed} : <<m, y, result>> \in sending
    BY <2>1, <2>2 DEF WaiterInv, WaitingIsHeld
  <2> QED BY <2>3, <2>4, <2>5
<1> QED BY <1>2, <1>3, <1>4, <1>5 DEF WaiterInv

(* A new pool has no waiters.                                              *)
LEMMA WaiterInitInv == Init => WaiterInv
<1> SUFFICES ASSUME Init PROVE WaiterInv
  OBVIOUS
<1>1. \A l \in Lanes : demux[l] = EmptyDemux
  BY DEF Init
<1>2. WaiterType
  BY <1>1, EmptyDemuxFacts DEF Init, WaiterType
<1>3. \A l \in Lanes : Entries(l) = {}
  BY <1>1, EmptyDemuxFacts DEF Entries
<1> QED
  BY <1>2, <1>3 DEF Init, WaiterInv, KeyKnown, EntriesOwned, SendingOwned, WaitingIsHeld

(* A step that touches neither table nor answers.                          *)
LEMMA TablesKept ==
  ASSUME LaneInv, WaiterInv, UNCHANGED <<demux, sending>>,
         \A y \in Calls : GoesOn(y),
         \A m \in Lanes : Entries(m) # {} => socket'[m] = socket[m]
  PROVE  WaiterInv'
<1>1. PICK l \in Lanes : l = 0
  BY LanesAssumption DEF Lanes
<1>2. WaiterType' /\ \A m \in Lanes : Entries(m)' = Entries(m)
  BY DEF WaiterInv, WaiterType, Entries
<1> QED BY <1>1, <1>2, TakeStep

(* A call that is not listed anywhere may return, or move before its       *)
(* registration.                                                           *)
LEMMA UnlistedCall ==
  ASSUME WaiterInv, NEW y \in Calls, pc[y] \notin {"write", "wait", "expired"}
  PROVE  \A m \in Lanes : \A e \in Entries(m) : e[2] # y
BY ListedCalls

(* The choice of a lane, and its opening: the call is not listed yet, and  *)
(* a lane that gets a socket has no waiters.                               *)
LEMMA EarlyStep ==
  ASSUME LaneInv, WaiterInv, NEW x \in Calls,
         \/ \E k \in Keys : PickLane(x, k)
         \/ OpenLane(x)
         \/ OpenLaneFails(x)
         \/ EncodeFails(x)
  PROVE  WaiterInv'
<1>1. UNCHANGED <<demux, sending>>
  BY DEF PickLane, OpenLane, OpenLaneFails, EncodeFails, laneVars
<1>2. pc[x] \in Early
  BY DEF PickLane, OpenLane, OpenLaneFails, EncodeFails, Early
<1>3. \A m \in Lanes : \A e \in Entries(m)' : e[2] # x
  BY <1>1, <1>2, UnlistedCall DEF Early, Entries
<1>4. \A y \in Calls : GoesOn(y)
  <2>1. CASE \E k \in Keys : PickLane(x, k)
    <3>1. PICK k \in Keys : PickLane(x, k)
      BY <2>1
    <3> QED BY <1>2, <1>3, <3>1 DEF PickLane, Goto, GoesOn, LaneInv, LaneType
  <2>2. CASE OpenLane(x)
    BY <1>2, <1>3, <2>2
       DEF OpenLane, Goto, GoesOn, LaneInv, LaneType, callVars, WaiterInv, KeyKnown, Returned
  <2>3. CASE OpenLaneFails(x) \/ EncodeFails(x)
    <3>1. Return(x, "err") /\ "err" \in Returned
      BY <2>3 DEF OpenLaneFails, EncodeFails, Returned
    <3> QED BY <1>3, <3>1, ReturnFacts DEF GoesOn, Returned, Early
  <2> QED BY <2>1, <2>2, <2>3
<1>5. \A m \in Lanes : Entries(m) # {} => socket'[m] = socket[m]
  <2>1. CASE OpenLane(x)
    <3>1. socket[lane[x]] = NoSocket /\ socket' = [socket EXCEPT ![lane[x]] = opened']
      BY <2>1 DEF OpenLane, NewSocket, LaneInv, OpensEmptyLane
    <3>2. \A m \in Lanes : Entries(m) # {} => socket[m] # NoSocket
      BY ListedCalls
    <3> QED BY <3>1, <3>2 DEF LaneInv, LaneType
  <2>2. CASE UNCHANGED socket
    BY <2>2
  <2> QED BY <2>1, <2>2 DEF PickLane, OpenLaneFails, EncodeFails, laneVars
<1> QED BY <1>1, <1>4, <1>5, TablesKept

(* What fail_all of a lane's table does: the table is empty, and each of   *)
(* its waiters is about to be failed.                                      *)
LEMMA FailFacts ==
  ASSUME WaiterInv, NEW l \in Lanes, NEW d, DemuxType(d, Keys, Calls), DemuxOK(d),
         demux' = [demux EXCEPT ![l] = fail_all(d)],
         sending' = sending \cup ({l} \X Waiters(d) \X {Failed})
  PROVE  /\ WaiterType'
         /\ Entries(l)' = {}
         /\ \A m \in Lanes \ {l} : demux'[m] = demux[m]
         /\ \A e \in Elements(d.fifo) : <<l, e[2], Failed>> \in sending'
         /\ \A s \in sending' \ sending : s[1] = l /\ \E e \in Elements(d.fifo) : e[2] = s[2]
         /\ sending \subseteq sending'
<1>1. /\ \A id : id \in Waiters(d) <=> \E e \in Elements(d.fifo) : e[2] = id
      /\ \A e \in Elements(d.fifo) : e \in Keys \X Calls
  BY WaitersFacts
<1>2. Waiters(d) \subseteq Calls
  BY <1>1
<1>3. demux'[l] = EmptyDemux /\ \A m \in Lanes \ {l} : demux'[m] = demux[m]
  BY DEF WaiterInv, WaiterType, fail_all
<1>4. WaiterType'
  <2>1. demux' = [m \in Lanes |-> demux'[m]]
    BY DEF WaiterInv, WaiterType
  <2>2. \A m \in Lanes : DemuxType(demux'[m], Keys, Calls) /\ DemuxOK(demux'[m])
    BY <1>3, EmptyDemuxFacts DEF WaiterInv, WaiterType
  <2>3. sending' \subseteq Lanes \X Calls \X (Keys \cup {Failed})
    BY <1>2 DEF WaiterInv, WaiterType
  <2> QED BY <2>1, <2>2, <2>3 DEF WaiterType
<1>5. Entries(l)' = {}
  BY <1>3, EmptyDemuxFacts DEF Entries
<1> QED BY <1>1, <1>3, <1>4, <1>5

(* Taking one waiter of key k out of a lane's table, with all else in it.  *)
LEMMA RemovedFacts ==
  ASSUME WaiterInv, NEW l \in Lanes, NEW k \in Keys, NEW x \in Calls
  PROVE  /\ DemuxType(remove_by_id(demux[l], k, x), Keys, Calls)
         /\ DemuxOK(remove_by_id(demux[l], k, x))
         /\ Elements(remove_by_id(demux[l], k, x).fifo) = Entries(l) \ {<<k, x>>}
<1>1. PICK d : d = demux[l]
  OBVIOUS
<1>2. DemuxType(d, Keys, Calls) /\ DemuxOK(d)
  BY <1>1 DEF WaiterInv, WaiterType
<1>3. PICK r : r = remove_by_id(d, k, x)
  OBVIOUS
<1>4. /\ DemuxType(r, Keys, Calls) /\ DemuxOK(r)
      /\ r.fifo = Without(d.fifo, <<k, x>>)
      /\ Elements(r.fifo) = Elements(d.fifo) \ {<<k, x>>}
  BY <1>2, <1>3, RemoveFacts
<1> QED BY <1>1, <1>3, <1>4 DEF Entries

(* A reset of lane l by a call x that holds its mutex: x itself is not, or *)
(* is no longer, among those who wait.                                     *)
LEMMA ResetStep ==
  ASSUME LaneInv, WaiterInv, NEW x \in Calls, NEW l \in Lanes, NEW d,
         DemuxType(d, Keys, Calls), DemuxOK(d), ResetLane(l, d),
         Elements(d.fifo) \subseteq Entries(l),
         \A e \in Entries(l) \ Elements(d.fifo) : e[2] = x,
         pc'[x] \notin {"write", "wait"},
         \A m \in Lanes \ {l} : \A e \in Entries(m) : e[2] # x,
         pc'[x] \in Early => pc[x] \in Early,
         pc'[x] \notin {"start"} \cup Returned => key'[x] \in Keys,
         \A y \in Calls \ {x} : /\ pc'[y] = pc[y] /\ key'[y] = key[y]
                                /\ lane'[y] = lane[y] /\ sock'[y] = sock[y]
  PROVE  WaiterInv'
<1>1. /\ WaiterType'
      /\ Entries(l)' = {}
      /\ \A m \in Lanes \ {l} : demux'[m] = demux[m]
      /\ \A e \in Elements(d.fifo) : <<l, e[2], Failed>> \in sending'
      /\ \A s \in sending' \ sending : s[1] = l /\ \E e \in Elements(d.fifo) : e[2] = s[2]
      /\ sending \subseteq sending'
  BY FailFacts DEF ResetLane
<1>2. \A m \in Lanes : \A e \in Entries(m)' : e[2] # x
  BY <1>1 DEF Entries
<1>3. \A y \in Calls : GoesOn(y)
  BY <1>2 DEF GoesOn
<1>4. \A m \in Lanes : Entries(m)' # {} => socket'[m] = socket[m]
  BY <1>1, ResetFacts
<1>5. \A e \in Entries(l) \ Entries(l)' :
        \/ pc'[e[2]] \notin {"write", "wait"}
        \/ \E result \in {e[1], Failed} : <<l, e[2], result>> \in sending'
  BY <1>1
<1> QED BY <1>1, <1>3, <1>4, <1>5, TakeStep

(* send locks the lane and, if it is empty or out of use, resets it first. *)
LEMMA LockWaiters ==
  ASSUME LaneInv, WaiterInv, NEW x \in Calls, LockLane(x)
  PROVE  WaiterInv'
<1>1. PICK l \in Lanes : l = lane[x]
  BY DEF LaneInv, LaneType
<1>2. pc[x] = "lock" /\ key[x] \in Keys /\ \A m \in Lanes : \A e \in Entries(m) : e[2] # x
  BY UnlistedCall DEF LockLane, WaiterInv, KeyKnown, Returned
<1>3. CASE ResetLane(l, demux[l]) /\ Goto(x, "open")
  <2>1. /\ pc'[x] = "open" /\ key'[x] = key[x]
        /\ \A y \in Calls \ {x} : /\ pc'[y] = pc[y] /\ key'[y] = key[y]
                                  /\ lane'[y] = lane[y] /\ sock'[y] = sock[y]
    BY <1>3 DEF LockLane, Goto, callVars, LaneInv, LaneType
  <2>2. DemuxType(demux[l], Keys, Calls) /\ DemuxOK(demux[l])
    BY DEF WaiterInv, WaiterType
  <2> QED BY <1>2, <1>3, <2>1, <2>2, ResetStep DEF Entries, Early
<1>4. CASE Goto(x, "register") /\ UNCHANGED <<socket, demux, reader, sending>>
  <2>1. \A m \in Lanes : \A e \in Entries(m)' : e[2] # x
    BY <1>2, <1>4 DEF Entries
  <2>2. \A y \in Calls : GoesOn(y)
    BY <1>2, <1>4, <2>1 DEF LockLane, Goto, callVars, LaneInv, LaneType, GoesOn, Early
  <2> QED BY <1>4, <2>2, TablesKept
<1> QED BY <1>1, <1>3, <1>4 DEF LockLane

(* close() after a datagram that was not sent: the call is in no table.    *)
LEMMA CloseWaiters ==
  ASSUME LaneInv, WaiterInv, NEW x \in Calls, Close(x)
  PROVE  WaiterInv'
<1>1. PICK l \in Lanes : l = lane[x]
  BY DEF LaneInv, LaneType
<1>2. /\ pc[x] = "close" /\ \A m \in Lanes : \A e \in Entries(m) : e[2] # x
      /\ ResetLane(l, demux[l]) /\ Return(x, "err") /\ "err" \in Returned
  BY <1>1, UnlistedCall DEF Close, Returned
<1>3. DemuxType(demux[l], Keys, Calls) /\ DemuxOK(demux[l])
  BY DEF WaiterInv, WaiterType
<1> QED BY <1>2, <1>3, ReturnFacts, ResetStep DEF Entries, Early

(* A UoT write that fails takes the call out and fails the others.         *)
LEMMA UotWriteFailsWaiters ==
  ASSUME LaneInv, WaiterInv, NEW x \in Calls, UotWriteFails(x)
  PROVE  WaiterInv'
<1>1. PICK l \in Lanes : l = lane[x]
  BY DEF LaneInv, LaneType
<1>2. PICK k \in Keys : k = key[x]
  BY DEF UotWriteFails, WaiterInv, KeyKnown, Returned
<1> DEFINE d == remove_by_id(demux[l], k, x)
<1>3. ResetLane(l, d) /\ Return(x, "err") /\ "err" \in Returned
  BY <1>1, <1>2 DEF UotWriteFails, Returned
<1>4. /\ DemuxType(d, Keys, Calls) /\ DemuxOK(d)
      /\ Elements(d.fifo) = Entries(l) \ {<<k, x>>}
  BY RemovedFacts
<1> HIDE DEF d
<1>5. \A m \in Lanes \ {l} : \A e \in Entries(m) : e[2] # x
  BY <1>1, ListedCalls
<1>6. \A e \in Entries(l) \ Elements(d.fifo) : e[2] = x
  BY <1>4
<1> QED BY <1>3, <1>4, <1>5, <1>6, ReturnFacts, ResetStep DEF Early

(* remove_by_id after a timeout, or after a datagram that was not sent.    *)
LEMMA RemoveWaiters ==
  ASSUME LaneInv, WaiterInv, NEW x \in Calls, DirectWriteFails(x) \/ GivesUp(x)
  PROVE  WaiterInv'
<1>1. PICK l \in Lanes : l = lane[x]
  BY DEF LaneInv, LaneType
<1>2. PICK k \in Keys : k = key[x]
  BY DEF DirectWriteFails, GivesUp, WaiterInv, KeyKnown, Returned
<1> DEFINE d == remove_by_id(demux[l], k, x)
<1>3. /\ demux' = [demux EXCEPT ![l] = d]
      /\ UNCHANGED <<socket, sending>>
  BY <1>1, <1>2 DEF DirectWriteFails, GivesUp
<1>4. /\ DemuxType(d, Keys, Calls) /\ DemuxOK(d)
      /\ Elements(d.fifo) = Entries(l) \ {<<k, x>>}
  BY RemovedFacts
<1> HIDE DEF d
<1>5. demux'[l] = d /\ \A m \in Lanes \ {l} : demux'[m] = demux[m]
  BY <1>3 DEF WaiterInv, WaiterType
<1>6. WaiterType'
  <2>1. demux' = [m \in Lanes |-> demux'[m]]
    BY <1>3 DEF WaiterInv, WaiterType
  <2> QED BY <1>3, <1>4, <1>5, <2>1 DEF WaiterInv, WaiterType
<1>7. Entries(l)' = Entries(l) \ {<<k, x>>} /\ \A m \in Lanes \ {l} : Entries(m)' = Entries(m)
  BY <1>4, <1>5 DEF Entries
<1>8. \A m \in Lanes : \A e \in Entries(m)' : e[2] # x
  <2> SUFFICES ASSUME NEW m \in Lanes, NEW e \in Entries(m)', e[2] = x PROVE FALSE
    OBVIOUS
  <2>1. e \in Entries(m)
    BY <1>7
  <2>2. m = l /\ e = <<k, x>>
    BY <1>1, <1>2, <2>1, ListedCalls
  <2> QED BY <1>7, <2>2
<1>9. /\ pc'[x] \in {"close", "err"}
      /\ pc'[x] = "close" => key'[x] \in Keys
      /\ \A y \in Calls \ {x} : /\ pc'[y] = pc[y] /\ key'[y] = key[y]
                                /\ lane'[y] = lane[y] /\ sock'[y] = sock[y]
  <2>1. CASE DirectWriteFails(x)
    BY <1>2, <2>1 DEF DirectWriteFails, Goto, callVars, LaneInv, LaneType
  <2>2. CASE GivesUp(x)
    <3>1. Return(x, "err") /\ "err" \in Returned
      BY <2>2 DEF GivesUp, Returned
    <3> QED BY <3>1, ReturnFacts
  <2> QED BY <2>1, <2>2
<1>10. \A y \in Calls : GoesOn(y)
  BY <1>8, <1>9 DEF GoesOn, Early, Returned
<1> QED BY <1>3, <1>5, <1>6, <1>7, <1>9, <1>10, TakeStep

(* Registration: the call is new to the tables, and its lane has a socket. *)
LEMMA RegisterWaiters ==
  ASSUME LaneInv, WaiterInv, NEW x \in Calls, RegisterInLane(x)
  PROVE  WaiterInv'
<1>1. PICK l \in Lanes : l = lane[x]
  BY DEF LaneInv, LaneType
<1>2. PICK k \in Keys : k = key[x]
  BY DEF RegisterInLane, WaiterInv, KeyKnown, Returned
<1>3. pc[x] = "register" /\ \A m \in Lanes : \A e \in Entries(m) : e[2] # x
  BY UnlistedCall DEF RegisterInLane
<1>4. \A s \in sending : s[2] # x
  BY <1>3 DEF WaiterInv, SendingOwned
<1>5. PICK d : d = demux[l]
  OBVIOUS
<1>6. /\ DemuxType(register(d, k, x), Keys, Calls) /\ DemuxOK(register(d, k, x))
      /\ Elements(register(d, k, x).fifo) = Entries(l) \cup {<<k, x>>}
  <2>1. DemuxType(d, Keys, Calls) /\ DemuxOK(d) /\ \A e \in Elements(d.fifo) : e[2] # x
    BY <1>3, <1>5 DEF WaiterInv, WaiterType, Entries
  <2> QED BY <1>5, <2>1, RegisterFacts DEF Entries
<1>7. demux' = [demux EXCEPT ![l] = register(d, k, x)]
  BY <1>1, <1>2, <1>5 DEF RegisterInLane
<1>8. demux'[l] = register(d, k, x) /\ \A m \in Lanes \ {l} : demux'[m] = demux[m]
  BY <1>7 DEF WaiterInv, WaiterType
<1>9. /\ pc' = [pc EXCEPT ![x] = "write"]
      /\ sock' = [sock EXCEPT ![x] = socket[l]]
      /\ UNCHANGED <<socket, key, lane, sending>>
      /\ socket[l] # NoSocket
  BY <1>1, <1>3 DEF RegisterInLane, Goto, LaneInv, RegistersOnSocket
<1>10. WaiterType'
  <2>1. demux' = [m \in Lanes |-> demux'[m]]
    BY <1>7 DEF WaiterInv, WaiterType
  <2> QED BY <1>6, <1>8, <1>9, <2>1 DEF WaiterInv, WaiterType
<1>11. /\ Entries(l)' = Entries(l) \cup {<<k, x>>}
       /\ \A m \in Lanes \ {l} : Entries(m)' = Entries(m)
  BY <1>6, <1>8 DEF Entries
<1>12. /\ pc'[x] = "write" /\ sock'[x] = socket'[l]
       /\ \A y \in Calls \ {x} : pc'[y] = pc[y] /\ sock'[y] = sock[y]
  BY <1>9 DEF LaneInv, LaneType
<1>13. KeyKnown'
  BY <1>2, <1>9, <1>12 DEF WaiterInv, KeyKnown
<1>14. EntriesOwned'
  <2> SUFFICES ASSUME NEW m \in Lanes, NEW e \in Entries(m)'
               PROVE  /\ pc'[e[2]] \in {"write", "wait", "expired"}
                      /\ key'[e[2]] = e[1] /\ lane'[e[2]] = m
                      /\ sock'[e[2]] = socket'[m] /\ socket'[m] # NoSocket
    BY DEF EntriesOwned
  <2>1. CASE e \in Entries(m)
    <3>1. /\ e[2] \in Calls /\ e[2] # x /\ key[e[2]] = e[1] /\ lane[e[2]] = m
          /\ pc[e[2]] \in {"write", "wait", "expired"}
          /\ sock[e[2]] = socket[m] /\ socket[m] # NoSocket
      BY <1>3, <2>1, ListedCalls
    <3> QED BY <1>9, <1>12, <3>1
  <2>2. CASE m = l /\ e = <<k, x>>
    BY <1>1, <1>2, <1>9, <1>12, <2>2
  <2> QED BY <1>11, <2>1, <2>2
<1>15. SendingOwned'
  <2> SUFFICES ASSUME NEW s \in sending
               PROVE  /\ pc'[s[2]] \notin Early
                      /\ \A m \in Lanes : \A e \in Entries(m)' : e[2] # s[2]
    BY <1>9 DEF SendingOwned, Early
  <2>1. s[2] \in Calls /\ s[2] # x
    BY <1>4 DEF WaiterInv, WaiterType
  <2>2. pc[s[2]] \notin Early /\ \A m \in Lanes : \A e \in Entries(m) : e[2] # s[2]
    BY DEF WaiterInv, SendingOwned, Early
  <2> QED BY <1>11, <1>12, <2>1, <2>2
<1>16. WaitingIsHeld'
  <2> SUFFICES ASSUME NEW y \in Calls, pc'[y] \in {"write", "wait"}
               PROVE  \/ <<key[y], y>> \in Elements(demux'[lane[y]].fifo)
                      \/ \E result \in {key[y], Failed} : <<lane[y], y, result>> \in sending
    BY <1>9 DEF WaitingIsHeld, Entries
  <2>1. PICK m \in Lanes : m = lane[y]
    BY DEF LaneInv, LaneType
  <2>2. Elements(demux'[m].fifo) = Entries(m)'
    BY DEF Entries
  <2>3. CASE y = x
    BY <1>1, <1>2, <1>11, <2>1, <2>2, <2>3
  <2>4. CASE y # x
    <3>1. pc[y] \in {"write", "wait"}
      BY <1>12, <2>4
    <3>2. \/ <<key[y], y>> \in Entries(m)
          \/ \E result \in {key[y], Failed} : <<m, y, result>> \in sending
      BY <2>1, <3>1 DEF WaiterInv, WaitingIsHeld
    <3> QED BY <1>11, <2>1, <2>2, <3>2
  <2> QED BY <2>3, <2>4
<1> QED BY <1>10, <1>13, <1>14, <1>15, <1>16 DEF WaiterInv

(* The readers: a waiter that leaves the table is about to get the packet, *)
(* or the error.                                                           *)
LEMMA ReaderWaiters ==
  ASSUME LaneInv, WaiterInv, NEW s \in Sockets,
         (\E k \in Keys : ReaderDeliversTo(s, k)) \/ ReaderEnds(s) \/ ReaderStops(s)
  PROVE  WaiterInv'
<1>1. PICK l \in Lanes : l = home[s]
  BY DEF LaneInv, LaneType
<1>2. UNCHANGED <<socket, pc, key, lane, sock>>
  BY DEF ReaderDeliversTo, ReaderEnds, ReaderStops, laneVars, callVars
<1>3. \A y \in Calls : GoesOn(y)
  BY <1>2 DEF GoesOn
<1>4. PICK d : d = demux[l]
  OBVIOUS
<1>5. DemuxType(d, Keys, Calls) /\ DemuxOK(d) /\ Elements(d.fifo) = Entries(l)
  BY <1>4 DEF WaiterInv, WaiterType, Entries
<1>6. ASSUME NEW k \in Keys, ReaderDeliversTo(s, k) PROVE WaiterInv'
  <2>1. PICK w : w = deliver_waiter(d, k)
    OBVIOUS
  <2>2. /\ demux' = [demux EXCEPT ![l] = deliver(d, k)]
        /\ sending' = sending \cup {<<l, w, k>>} /\ deliverable(d, k)
    BY <1>1, <1>4, <1>6, <2>1 DEF ReaderDeliversTo
  <2>3. deliver(d, k) = remove_by_id(d, k, w) /\ <<k, w>> \in Entries(l)
    BY <1>5, <2>1, <2>2, DeliverIsRemove
  <2>4. w \in Calls
    <3>1. <<k, w>>[2] \in Calls
      BY <2>3, ListedCalls
    <3> QED BY <3>1
  <2>5. /\ DemuxType(deliver(d, k), Keys, Calls) /\ DemuxOK(deliver(d, k))
        /\ Elements(deliver(d, k).fifo) = Entries(l) \ {<<k, w>>}
    BY <1>4, <2>3, <2>4, RemovedFacts
  <2>6. demux'[l] = deliver(d, k) /\ \A m \in Lanes \ {l} : demux'[m] = demux[m]
    BY <2>2 DEF WaiterInv, WaiterType
  <2>7. WaiterType'
    <3>1. demux' = [m \in Lanes |-> demux'[m]]
      BY <2>2 DEF WaiterInv, WaiterType
    <3> QED BY <2>2, <2>4, <2>5, <2>6, <3>1 DEF WaiterInv, WaiterType
  <2>8. Entries(l)' = Entries(l) \ {<<k, w>>}
    BY <2>5, <2>6 DEF Entries
  <2> QED BY <1>2, <1>3, <2>2, <2>3, <2>6, <2>7, <2>8, TakeStep
<1>7. CASE ReaderEnds(s)
  <2>1. /\ demux' = [demux EXCEPT ![l] = fail_all(d)]
        /\ sending' = sending \cup ({l} \X Waiters(d) \X {Failed})
    BY <1>1, <1>4, <1>7 DEF ReaderEnds, fail_all
  <2>2. /\ WaiterType'
        /\ Entries(l)' = {}
        /\ \A m \in Lanes \ {l} : demux'[m] = demux[m]
        /\ \A e \in Elements(d.fifo) : <<l, e[2], Failed>> \in sending'
        /\ \A t \in sending' \ sending : t[1] = l /\ \E e \in Elements(d.fifo) : e[2] = t[2]
        /\ sending \subseteq sending'
    BY <1>5, <2>1, FailFacts
  <2> QED BY <1>2, <1>3, <1>5, <2>2, TakeStep
<1>8. CASE ReaderStops(s)
  BY <1>2, <1>3, <1>8, TablesKept DEF ReaderStops, laneVars
<1> QED BY <1>6, <1>7, <1>8

(* The oneshot send: the answer leaves sending; the call that waits on     *)
(* that lane returns, any other has dropped the receiver.                  *)
LEMMA SendWaiters ==
  ASSUME LaneInv, WaiterInv, NEW s \in sending, Send(s[1], s[2], s[3])
  PROVE  WaiterInv'
<1>1. PICK x \in Calls, l \in Lanes : x = s[2] /\ l = s[1]
  BY DEF WaiterInv, WaiterType
<1>2. s = <<s[1], s[2], s[3]>>
  BY DEF WaiterInv, WaiterType
<1>3. \A m \in Lanes : \A e \in Entries(m) : e[2] # x
  BY <1>1 DEF WaiterInv, SendingOwned
<1>4. UNCHANGED <<demux, socket>> /\ sending' = sending \ {s}
  BY <1>2 DEF Send, laneVars
<1>5. WaiterType' /\ \A m \in Lanes : Entries(m)' = Entries(m)
  BY <1>4 DEF WaiterInv, WaiterType, Entries
<1>6. CASE pc[x] \in {"write", "wait"} /\ lane[x] = l
  <2>1. PICK result \in Returned : Return(x, result)
    BY <1>1, <1>6 DEF Send, Returned
  <2>2. \A y \in Calls : GoesOn(y)
    BY <1>3, <1>5, <2>1, ReturnFacts DEF GoesOn, Returned, Early
  <2>3. pc'[x] \notin {"write", "wait"}
    BY <2>1, ReturnFacts DEF Returned
  <2> QED BY <1>1, <1>4, <1>5, <2>2, <2>3, TakeStep
<1>7. CASE ~ (pc[x] \in {"write", "wait"} /\ lane[x] = l)
  <2>1. UNCHANGED <<pc, key, lane, sock>>
    BY <1>1, <1>7 DEF Send, callVars
  <2>2. \A y \in Calls : GoesOn(y)
    BY <2>1 DEF GoesOn
  <2> QED BY <1>1, <1>4, <1>5, <1>7, <2>1, <2>2, TakeStep
<1> QED BY <1>6, <1>7

(* A call that writes, or whose timer fires; the passing of the idle       *)
(* timeout.                                                                *)
LEMMA WaitStep ==
  ASSUME LaneInv, WaiterInv,
         \/ \E x \in Calls : DirectWrite(x) \/ UotWrite(x) \/ Expires(x)
         \/ \E l \in Lanes : GrowStale(l)
         \/ UNCHANGED vars
  PROVE  WaiterInv'
<1>1. CASE \E x \in Calls : DirectWrite(x) \/ UotWrite(x) \/ Expires(x)
  <2>1. PICK x \in Calls : DirectWrite(x) \/ UotWrite(x) \/ Expires(x)
    BY <1>1
  <2>2. /\ Goto(x, "wait") \/ Goto(x, "expired")
        /\ UNCHANGED <<socket, demux, key, lane, sock, sending>>
    BY <2>1 DEF DirectWrite, UotWrite, Expires, laneVars, callVars
  <2>3. /\ pc[x] \in {"write", "wait"} /\ pc'[x] \in {"wait", "expired"}
        /\ \A y \in Calls \ {x} : pc'[y] = pc[y]
    BY <2>1, <2>2 DEF DirectWrite, UotWrite, Expires, Goto, LaneInv, LaneType
  <2>4. \A y \in Calls : GoesOn(y)
    BY <2>2, <2>3 DEF GoesOn
  <2> QED BY <2>2, <2>4, TablesKept
<1>2. CASE (\E l \in Lanes : GrowStale(l)) \/ UNCHANGED vars
  <2>1. UNCHANGED <<socket, demux, pc, key, lane, sock, sending>>
    BY <1>2 DEF GrowStale, vars, laneVars, callVars
  <2>2. \A y \in Calls : GoesOn(y)
    BY <2>1 DEF GoesOn
  <2> QED BY <2>1, <2>2, TablesKept
<1> QED BY <1>1, <1>2

-----------------------------------------------------------------------------
(* The inductive invariant of the pool.                                    *)
PoolInv == LaneInv /\ WaiterInv

(* Every step of the pool keeps the invariant.                             *)
LEMMA PoolStep == PoolInv /\ [Next]_vars => PoolInv'
<1> SUFFICES ASSUME LaneInv, WaiterInv, [Next]_vars PROVE LaneInv' /\ WaiterInv'
  BY DEF PoolInv
<1>1. LaneInv'
  <2>1. \A s \in sending : s[2] \in Calls
    BY DEF WaiterInv, WaiterType
  <2> QED BY <2>1, LaneStep
<1>2. ASSUME NEW x \in Calls, Step(x) PROVE WaiterInv'
  <2>1. CASE DirectStep(x)
    BY <2>1, EarlyStep, RegisterWaiters, RemoveWaiters, WaitStep
       DEF DirectStep, DirectPick, DirectOpen, DirectRegister, DirectTimeout
  <2>2. CASE UotStep(x)
    BY <2>2, EarlyStep, RegisterWaiters, RemoveWaiters, UotWriteFailsWaiters, WaitStep
       DEF UotStep, UotPick, UotOpen, UotRegister, UotTimeout
  <2> QED BY <1>2, <2>1, <2>2 DEF Step
<1>3. ASSUME NEW x \in Calls, Locks(x) PROVE WaiterInv'
  BY <1>3, LockWaiters, CloseWaiters DEF Locks, DirectLocks, DirectLock, UotLocks, UotLock
<1>4. CASE Sends
  BY <1>1, <1>4, SendWaiters DEF Sends
<1>5. CASE \E s \in Sockets : Reader(s)
  BY <1>1, <1>5, ReaderWaiters DEF Reader, DirectReader, UotReader
<1>6. CASE (\E l \in Lanes : GrowStale(l)) \/ UNCHANGED vars
  BY <1>1, <1>6, WaitStep
<1> QED BY <1>1, <1>2, <1>3, <1>4, <1>5, <1>6 DEF Next, Settled

(* The invariant holds of every behaviour of the pool.                     *)
LEMMA PoolInvHolds == Spec => []PoolInv
<1>1. Init => PoolInv
  BY LaneInitInv, WaiterInitInv DEF PoolInv
<1> QED BY <1>1, PoolStep, PTL DEF Spec

(* reset_state aborts the reader it replaces, so that no two readers feed  *)
(* one lane's table (direct_udp.rs, uot.rs: state.read_task).              *)
THEOREM OneReader == Spec => []OneReaderPerLane
<1>1. PoolInv => OneReaderPerLane
  BY DEF PoolInv, LaneInv
<1> QED BY <1>1, PoolInvHolds, PTL

(* The guard of the lane's mutex covers write_all and flush in uot.rs, so  *)
(* the length-prefixed frames of two calls never interleave on a stream.   *)
THEOREM OneWriter == Spec => []OneWriterPerStream
<1>1. ASSUME PoolInv PROVE OneWriterPerStream
  <2> SUFFICES ASSUME kind = "uot", NEW x \in Calls, NEW y \in Calls,
                      pc[x] = "write", pc[y] = "write", sock[x] = sock[y]
               PROVE  x = y
    BY DEF OneWriterPerStream
  <2>1. sock[x] = socket[lane[x]] /\ sock[y] = socket[lane[y]] /\ sock[x] # NoSocket
    BY <1>1 DEF PoolInv, LaneInv, WritesToLane
  <2>2. lane[x] = home[sock[x]] /\ lane[y] = home[sock[y]]
    BY <1>1, <2>1 DEF PoolInv, LaneInv, LaneType, SocketsKnown
  <2>3. lock[lane[x]] = x /\ lock[lane[y]] = y
    BY <1>1 DEF PoolInv, LaneInv, LockHeld, Holds
  <2> QED BY <2>2, <2>3
<1> QED BY <1>1, PoolInvHolds, PTL

(* Whoever replaces or closes the socket of a lane has failed all who      *)
(* registered on it, although direct UDP writes without the mutex.         *)
THEOREM WaitersOnLiveSocket == Spec => []NoWaitOnClosedSocket
<1>1. ASSUME PoolInv PROVE NoWaitOnClosedSocket
  <2> SUFFICES ASSUME NEW l \in Lanes, NEW x \in Waiters(demux[l])
               PROVE  lane[x] = l /\ sock[x] = socket[l]
    BY DEF NoWaitOnClosedSocket
  <2>1. DemuxType(demux[l], Keys, Calls) /\ DemuxOK(demux[l])
    BY <1>1 DEF PoolInv, WaiterInv, WaiterType
  <2>2. PICK e \in Entries(l) : e[2] = x
    BY <2>1, WaitersFacts DEF Entries
  <2> QED BY <1>1, <2>2, ListedCalls DEF PoolInv
<1> QED BY <1>1, PoolInvHolds, PTL

(* No call is forgotten: while it waits, it is in its lane's table under   *)
(* its target, or its answer or its error is on the way.                   *)
THEOREM NoCallStranded == Spec => []NoStrandedCall
<1>1. ASSUME PoolInv PROVE NoStrandedCall
  <2> SUFFICES ASSUME NEW x \in Calls, pc[x] \in {"write", "wait"}
               PROVE  \/ x \in Elements(Queue(demux[lane[x]], key[x]))
                      \/ \E result \in {key[x], Failed} : <<lane[x], x, result>> \in sending
    BY DEF NoStrandedCall
  <2>1. PICK l \in Lanes : l = lane[x]
    BY <1>1 DEF PoolInv, LaneInv, LaneType
  <2>2. DemuxType(demux[l], Keys, Calls) /\ DemuxOK(demux[l])
    BY <1>1 DEF PoolInv, WaiterInv, WaiterType
  <2>3. <<key[x], x>> \in Entries(l) => x \in Elements(Queue(demux[l], key[x]))
    BY <2>2, LiveIsPending DEF Entries
  <2>4. \/ <<key[x], x>> \in Entries(l)
        \/ \E result \in {key[x], Failed} : <<l, x, result>> \in sending
    BY <1>1, <2>1 DEF PoolInv, WaiterInv, WaitingIsHeld
  <2> QED BY <2>1, <2>3, <2>4
<1> QED BY <1>1, PoolInvHolds, PTL

(* When every call has returned, by whatever way, no entry of theirs is    *)
(* left behind in the map or in the fifo of any lane.                      *)
THEOREM NoLeaks == Spec => []NoWaiterLeaks
<1>1. ASSUME PoolInv PROVE NoWaiterLeaks
  <2> SUFFICES ASSUME \A x \in Calls : pc[x] \in Returned, NEW l \in Lanes
               PROVE  Waiters(demux[l]) = {} /\ demux[l].fifo = <<>>
    BY DEF NoWaiterLeaks
  <2>1. DemuxType(demux[l], Keys, Calls) /\ DemuxOK(demux[l])
    BY <1>1 DEF PoolInv, WaiterInv, WaiterType
  <2>2. Entries(l) = {}
    BY <1>1, ListedCalls DEF PoolInv, Returned
  <2>3. Waiters(demux[l]) = {}
    BY <2>1, <2>2, WaitersFacts DEF Entries
  <2>4. demux[l].fifo = <<>>
    <3>1. demux[l].fifo \in Seq(Keys \X Calls)
      BY <2>1 DEF DemuxType
    <3>2. PICK f \in Seq(Keys \X Calls) : f = demux[l].fifo
      BY <3>1
    <3>3. 1 \notin DOMAIN f
      BY <2>2, <3>2 DEF Entries, Elements
    <3>4. Len(f) \in Nat /\ DOMAIN f = 1 .. Len(f)
      OBVIOUS
    <3>5. Len(f) = 0
      BY <3>3, <3>4
    <3> QED BY <3>2, <3>5, EmptySeq
  <2> QED BY <2>3, <2>4
<1> QED BY <1>1, PoolInvHolds, PTL
=============================================================================
