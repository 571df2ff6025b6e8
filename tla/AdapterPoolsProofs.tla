------------------------- MODULE AdapterPoolsProofs -------------------------
(***************************************************************************)
(* The four pools of the adapters, for any number of calls, keys, ports    *)
(* and slots and any size.  A behaviour is of one pool, so each pool has   *)
(* its own inductive invariant; Inv says that the one in use holds.        *)
(***************************************************************************)
EXTENDS AdapterPools, FiniteSetTheorems, SequenceTheorems, WellFoundedInduction, TLAPS

-----------------------------------------------------------------------------
(* Hysteria2. *)
Hy2Type ==
  /\ made \in Nat
  /\ pool \in [clients : Seq(1 .. made), next : Nat]
  /\ pc \in [Calls -> {"look", "make", "add", "use", "remove", "ok", "err"}]
  /\ client \in [Calls -> 0 .. made]
  /\ failed \in [Calls -> 0 .. made]

InPool(c) == \E i \in DOMAIN pool.clients : pool.clients[i] = c

(* Nobody else has met the client that a call is about to add.             *)
MineIsFresh ==
  \A x \in Calls : pc[x] = "add" =>
    /\ client[x] # 0
    /\ ~InPool(client[x])
    /\ \A y \in Calls : failed[y] # client[x] /\ (y # x => client[y] # client[x])

(* A call that has removed the entry after its error does not find the     *)
(* failed client there again.                                              *)
FailedStaysOut ==
  \A x \in Calls : failed[x] # 0 /\ pc[x] # "remove" => ~InPool(failed[x])

Hy2Inv ==
  /\ Hy2Type
  /\ Hy2!PoolWithinSize
  /\ MineIsFresh
  /\ FailedStaysOut
  /\ Hy2!RetryUsesAnotherClient

(* The calls of both kinds.                                                *)
LEMMA Hy2Users == PoolsAssumption => Hy2!Users = Calls
BY DEF PoolsAssumption, Hy2!Users

(* next_client hands out a member of the pool.                             *)
LEMMA NextIsInPool ==
  ASSUME Hy2Type, pool.clients # <<>>
  PROVE  InPool(Hy2!next_client) /\ Hy2!next_client \in 1 .. made
<1>1. PICK s \in Seq(1 .. made) : s = pool.clients
  BY DEF Hy2Type
<1>2. PICK n \in Nat : n = pool.next
  BY DEF Hy2Type
<1>3. Len(s) \in Nat /\ Len(s) # 0 /\ DOMAIN s = 1 .. Len(s)
  BY <1>1
<1>4. n % Len(s) \in 0 .. (Len(s) - 1)
  BY <1>3
<1>5. (n % Len(s)) + 1 \in DOMAIN s
  BY <1>3, <1>4
<1>6. PICK i \in DOMAIN s : i = (n % Len(s)) + 1
  BY <1>5
<1>7. s[i] \in 1 .. made
  BY <1>3, <1>6, ElementOfSeq
<1>8. Hy2!next_client = s[i]
  BY <1>1, <1>2, <1>6 DEF Hy2!next_client
<1> QED BY <1>1, <1>6, <1>7, <1>8 DEF InPool

(* Looking and, when the pool is empty, making a client.                   *)
LEMMA Hy2Looks ==
  ASSUME PoolsAssumption, Hy2Inv, NEW x \in Calls, Hy2!Look(x) \/ Hy2!Make(x)
  PROVE  Hy2Inv'
<1> USE DEF Hy2Inv, Hy2!Goto
<1>1. CASE Hy2!Look(x) /\ pool.clients # <<>>
  <2>1. PICK c \in 1 .. made : c = Hy2!next_client /\ InPool(c)
    BY <1>1, NextIsInPool
  <2>2. /\ made' = made /\ failed' = failed /\ pool'.clients = pool.clients
        /\ pool' \in [clients : Seq(1 .. made), next : Nat]
        /\ client' = [client EXCEPT ![x] = c] /\ pc' = [pc EXCEPT ![x] = "use"]
    BY <1>1, <2>1 DEF Hy2!Look, Hy2!TakeNext, Hy2Type
  <2>3. Hy2Type'
    BY <2>2 DEF Hy2Type
  <2>4. \A d : InPool(d)' <=> InPool(d)
    BY <2>2 DEF InPool
  <2>5. failed[x] # c
    <3>1. pc[x] # "remove" /\ c # 0 /\ InPool(c)
      BY <2>1, <1>1 DEF Hy2Type, Hy2!Look
    <3> QED BY <3>1 DEF FailedStaysOut
  <2>6. \A y \in Calls : /\ y # x => pc'[y] = pc[y] /\ client'[y] = client[y]
                         /\ y = x => pc'[y] = "use" /\ client'[y] = c
    BY <2>2 DEF Hy2Type
  <2>7. MineIsFresh'
    BY <2>1, <2>2, <2>4, <2>6 DEF MineIsFresh
  <2>8. FailedStaysOut'
    BY <1>1, <2>2, <2>4, <2>6 DEF FailedStaysOut, Hy2!Look
  <2>9. Hy2!RetryUsesAnotherClient'
    BY <2>2, <2>5, <2>6, Hy2Users DEF Hy2!RetryUsesAnotherClient
  <2> QED BY <2>2, <2>3, <2>7, <2>8, <2>9 DEF Hy2!PoolWithinSize
<1>2. CASE Hy2!Look(x) /\ pool.clients = <<>>
  <2>1. /\ made' = made /\ failed' = failed /\ pool' = pool /\ client' = client
        /\ pc[x] = "look" /\ pc' = [pc EXCEPT ![x] = "make"]
    BY <1>2 DEF Hy2!Look
  <2>2. \A y \in Calls : (y # x => pc'[y] = pc[y]) /\ (y = x => pc'[y] = "make")
    BY <2>1 DEF Hy2Type
  <2>3. Hy2Type'
    BY <2>1 DEF Hy2Type
  <2> QED
    BY <2>1, <2>2, <2>3
    DEF MineIsFresh, FailedStaysOut, InPool, Hy2!PoolWithinSize, Hy2!RetryUsesAnotherClient
<1>3. CASE Hy2!Make(x)
  <2>1. /\ made' = made + 1 /\ failed' = failed /\ pool' = pool
        /\ client' = [client EXCEPT ![x] = made + 1]
        /\ pc[x] = "make" /\ pc' = [pc EXCEPT ![x] = "add"]
    BY <1>3 DEF Hy2!Make
  <2>2. \A y \in Calls : /\ y # x => pc'[y] = pc[y] /\ client'[y] = client[y]
                         /\ y = x => pc'[y] = "add" /\ client'[y] = made + 1
    BY <2>1 DEF Hy2Type
  <2>3. \A d : (InPool(d)' <=> InPool(d)) /\ (InPool(d) => d \in 1 .. made)
    BY <2>1 DEF InPool, Hy2Type
  <2>4. /\ made + 1 \notin 0 .. made
        /\ \A y \in Calls : client[y] \in 0 .. made /\ failed[y] \in 0 .. made
    BY DEF Hy2Type
  <2>5. Hy2Type'
    BY <2>1 DEF Hy2Type
  <2>6. MineIsFresh'
    BY <2>1, <2>2, <2>3, <2>4 DEF MineIsFresh, Hy2Type
  <2>7. FailedStaysOut'
    BY <2>1, <2>2, <2>3 DEF FailedStaysOut
  <2>8. Hy2!RetryUsesAnotherClient'
    BY <2>1, <2>2, <2>4, Hy2Users DEF Hy2!RetryUsesAnotherClient
  <2> QED BY <2>1, <2>5, <2>6, <2>7, <2>8 DEF Hy2!PoolWithinSize
<1> QED BY <1>1, <1>2, <1>3

(* The second look, with a client in hand.                                 *)
LEMMA Hy2Adds ==
  ASSUME PoolsAssumption, Hy2Inv, NEW x \in Calls, Hy2!Add(x)
  PROVE  Hy2Inv'
<1> USE DEF Hy2Inv, Hy2!Goto
<1>1. CASE Len(pool.clients) < PoolSize
  <2>0. PICK s \in Seq(1 .. made), c \in 1 .. made : s = pool.clients /\ c = client[x]
    BY DEF Hy2Type, Hy2!Add, MineIsFresh
  <2>a. /\ made' = made /\ failed' = failed /\ client' = client
        /\ pool' = [pool EXCEPT !.clients = Append(s, c)]
        /\ pc[x] = "add" /\ pc' = [pc EXCEPT ![x] = "use"]
    BY <1>1, <2>0 DEF Hy2!Add
  <2>b. Append(s, c) \in Seq(1 .. made)
    BY <2>0
  <2>1. /\ made' = made /\ failed' = failed /\ client' = client
        /\ pool'.clients = Append(s, c)
        /\ pool' \in [clients : Seq(1 .. made), next : Nat]
        /\ pc[x] = "add" /\ pc' = [pc EXCEPT ![x] = "use"]
    BY <2>a, <2>b DEF Hy2Type
  <2>2. \A y \in Calls : (y # x => pc'[y] = pc[y]) /\ (y = x => pc'[y] = "use")
    BY <2>1 DEF Hy2Type
  <2>3. \A d : InPool(d)' => InPool(d) \/ d = c
    BY <2>0, <2>1 DEF InPool
  <2>4. /\ ~InPool(c)
        /\ \A y \in Calls : failed[y] # c /\ (y # x => client[y] # c)
    BY <2>0, <2>1 DEF MineIsFresh
  <2>5. Hy2Type'
    BY <2>1 DEF Hy2Type
  <2>6. MineIsFresh'
    BY <2>1, <2>2, <2>3, <2>4 DEF MineIsFresh
  <2>7. FailedStaysOut'
    BY <2>1, <2>2, <2>3, <2>4 DEF FailedStaysOut
  <2>8. IsInjective(Append(s, c))
    BY <2>0, <2>4 DEF IsInjective, InPool, Hy2!PoolWithinSize, Hy2!IsInjective
  <2>9. Hy2!PoolWithinSize'
    BY <1>1, <2>0, <2>1, <2>8 DEF IsInjective, Hy2!PoolWithinSize, Hy2!IsInjective,
       PoolsAssumption, Hy2!Hy2Assumption
  <2> QED BY <2>1, <2>5, <2>6, <2>7, <2>9 DEF Hy2!RetryUsesAnotherClient
<1>2. CASE ~(Len(pool.clients) < PoolSize)
  <2>0. pool.clients # <<>>
    BY <1>2 DEF PoolsAssumption, Hy2!Hy2Assumption
  <2>1. PICK c \in 1 .. made : c = Hy2!next_client /\ InPool(c)
    BY <2>0, NextIsInPool
  <2>2. /\ made' = made /\ failed' = failed /\ pool'.clients = pool.clients
        /\ pool' \in [clients : Seq(1 .. made), next : Nat]
        /\ client' = [client EXCEPT ![x] = c] /\ pc' = [pc EXCEPT ![x] = "use"]
    BY <1>2, <2>1 DEF Hy2!Add, Hy2!TakeNext, Hy2Type
  <2>3. Hy2Type'
    BY <2>2 DEF Hy2Type
  <2>4. \A d : InPool(d)' <=> InPool(d)
    BY <2>2 DEF InPool
  <2>5. failed[x] # c
    <3>1. pc[x] = "add" /\ c # 0
      BY <2>1 DEF Hy2!Add, Hy2Type
    <3> QED BY <2>1, <3>1 DEF FailedStaysOut
  <2>6. \A y \in Calls : /\ y # x => pc'[y] = pc[y] /\ client'[y] = client[y]
                         /\ y = x => pc'[y] = "use" /\ client'[y] = c
    BY <2>2 DEF Hy2Type
  <2>7. MineIsFresh'
    BY <2>1, <2>2, <2>4, <2>6 DEF MineIsFresh
  <2>8. FailedStaysOut'
    BY <2>2, <2>4, <2>6 DEF FailedStaysOut, Hy2!Add
  <2>9. Hy2!RetryUsesAnotherClient'
    BY <2>2, <2>5, <2>6, Hy2Users DEF Hy2!RetryUsesAnotherClient
  <2> QED BY <2>2, <2>3, <2>7, <2>8, <2>9 DEF Hy2!PoolWithinSize
<1> QED BY <1>1, <1>2

(* Using it, once or twice.                                                *)
LEMMA Hy2Uses ==
  ASSUME PoolsAssumption, Hy2Inv, NEW x \in Calls,
         Hy2!Use(x) \/ Hy2!SessionError(x) \/ Hy2!Evict(x)
  PROVE  Hy2Inv'
<1> USE DEF Hy2Inv, Hy2!Goto
<1>1. CASE Hy2!Use(x)
  <2>1. PICK result \in {"ok", "err"} :
          /\ made' = made /\ pool' = pool /\ pc' = [pc EXCEPT ![x] = result]
          /\ client' = [client EXCEPT ![x] = 0] /\ failed' = [failed EXCEPT ![x] = 0]
    BY <1>1 DEF Hy2!Use, Hy2!Returns, Hy2!NoClient
  <2>2. \A y \in Calls :
          /\ y # x => pc'[y] = pc[y] /\ client'[y] = client[y] /\ failed'[y] = failed[y]
          /\ y = x => pc'[y] = result /\ client'[y] = 0 /\ failed'[y] = 0
    BY <2>1 DEF Hy2Type
  <2>3. Hy2Type'
    BY <2>1 DEF Hy2Type
  <2>4. MineIsFresh' /\ FailedStaysOut'
    BY <2>1, <2>2 DEF MineIsFresh, FailedStaysOut, InPool
  <2> QED
    BY <2>1, <2>2, <2>3, <2>4, Hy2Users
    DEF Hy2!PoolWithinSize, Hy2!RetryUsesAnotherClient, Hy2!NoClient
<1>2. CASE Hy2!SessionError(x)
  <2>1. /\ made' = made /\ pool' = pool /\ pc[x] = "use"
        /\ pc' = [pc EXCEPT ![x] = "remove"]
        /\ client' = [client EXCEPT ![x] = 0] /\ failed' = [failed EXCEPT ![x] = client[x]]
    BY <1>2 DEF Hy2!SessionError, Hy2!NoClient
  <2>2. \A y \in Calls :
          /\ y # x => pc'[y] = pc[y] /\ client'[y] = client[y] /\ failed'[y] = failed[y]
          /\ y = x => pc'[y] = "remove" /\ client'[y] = 0 /\ failed'[y] = client[x]
    BY <2>1 DEF Hy2Type
  <2>3. Hy2Type'
    BY <2>1 DEF Hy2Type
  <2>4. MineIsFresh' /\ FailedStaysOut'
    BY <2>1, <2>2 DEF MineIsFresh, FailedStaysOut, InPool
  <2> QED
    BY <2>1, <2>2, <2>3, <2>4, Hy2Users
    DEF Hy2!PoolWithinSize, Hy2!RetryUsesAnotherClient, Hy2!NoClient
<1>3. CASE Hy2!Evict(x)
  <2>1. /\ made' = made /\ client' = client /\ failed' = failed
        /\ pool' = [clients |-> <<>>, next |-> 0] /\ pc' = [pc EXCEPT ![x] = "look"]
    BY <1>3 DEF Hy2!Evict, Hy2!NoPool
  <2>2. \A y \in Calls : (y # x => pc'[y] = pc[y]) /\ (y = x => pc'[y] = "look")
    BY <2>1 DEF Hy2Type
  <2>3. Hy2Type' /\ \A d : ~InPool(d)'
    BY <2>1 DEF Hy2Type, InPool
  <2>4. MineIsFresh' /\ FailedStaysOut'
    BY <2>1, <2>2, <2>3 DEF MineIsFresh, FailedStaysOut
  <2>5. Hy2!PoolWithinSize'
    BY <2>1 DEF Hy2!PoolWithinSize, Hy2!IsInjective, PoolsAssumption, Hy2!Hy2Assumption
  <2> QED BY <2>1, <2>3, <2>4, <2>5 DEF Hy2!RetryUsesAnotherClient
<1> QED BY <1>1, <1>2, <1>3

LEMMA Hy2Step == ASSUME PoolsAssumption, Hy2Inv, Hy2!Next PROVE Hy2Inv'
<1>1. PICK x \in Calls :
        \/ Hy2!Look(x) \/ Hy2!Make(x) \/ Hy2!Add(x)
        \/ Hy2!Use(x) \/ Hy2!SessionError(x) \/ Hy2!Evict(x)
  BY Hy2Users DEF Hy2!Next
<1> QED BY <1>1, Hy2Looks, Hy2Adds, Hy2Uses

LEMMA Hy2Start == ASSUME PoolsAssumption, Hy2!Init PROVE Hy2Inv
BY Hy2Users
DEF Hy2!Init, Hy2!NoPool, Hy2!NoClient, Hy2Inv, Hy2Type, Hy2!PoolWithinSize,
    Hy2!IsInjective, MineIsFresh, FailedStaysOut, InPool, Hy2!RetryUsesAnotherClient,
    PoolsAssumption, Hy2!Hy2Assumption

-----------------------------------------------------------------------------
(* Kcptun. *)
Creating == {"recheck", "create", "store", "recreate", "restore", "reopen"}

KcpType ==
  /\ slot = [i \in Kcptun!Slots |-> slot[i]]
  /\ rr \in Kcptun!Slots
  /\ lock = [i \in Kcptun!Slots |-> lock[i]]
  /\ closed \in [Kcptun!Sessions -> BOOLEAN]
  /\ expired \in [Kcptun!Sessions -> BOOLEAN]
  /\ slot \in [Kcptun!Slots -> Kcptun!Sessions \cup {0}]
  /\ made \in Nat
  /\ pc = [x \in Pair |-> pc[x]]
  /\ idx \in [Pair -> Kcptun!Slots]
  /\ session \in [Pair -> Kcptun!Sessions \cup {0}]

(* A call that makes a session has the slot's create lock.                 *)
CreatorLocks == \A x \in Pair : pc[x] \in Creating => lock[idx[x]] = x

(* Its first time, it has found no session that could be reused, and while *)
(* it has the lock nobody else puts one there.                             *)
NothingToReuse ==
  \A x \in Pair : pc[x] \in {"create", "store"} => ~Kcptun!reusable(slot[idx[x]])

(* What is about to be stored is a session.                                *)
StoresSession ==
  \A x \in Pair : pc[x] \in {"store", "restore"} => session[x] \in Kcptun!Sessions

KcpInv == KcpType /\ CreatorLocks /\ NothingToReuse /\ StoresSession

(* A session that can be reused after a step that changes no slot could be *)
(* reused before it.                                                       *)
LEMMA ScavengeFacts ==
  ASSUME KcpType
  PROVE  /\ Kcptun!Scavenged \in [Kcptun!Slots -> Kcptun!Sessions \cup {0}]
         /\ \A i \in Kcptun!Slots :
              \/ Kcptun!Scavenged[i] = slot[i]
              \/ /\ Kcptun!Scavenged[i] = 0
                 /\ closed[slot[i]] \/ scavenge_due[slot[i]]
BY DEF KcpType, Kcptun!Scavenged, Kcptun!should_scavenge, Kcptun!NoSession

(* A step of one call that empties slots at most.                          *)
LEMMA KcpKept ==
  ASSUME PoolsAssumption, KcpInv, KcpType', NEW x \in Pair,
         UNCHANGED <<closed, expired>>,
         \A i \in Kcptun!Slots : slot'[i] \in {0, slot[i]},
         \A y \in Pair \ {x} : /\ pc'[y] = pc[y] /\ idx'[y] = idx[y]
                               /\ session'[y] = session[y],
         \A i \in Kcptun!Slots : lock'[i] = lock[i] \/ lock[i] \in {x, "none"},
         pc'[x] \in Creating => lock'[idx'[x]] = x,
         pc'[x] \in {"create", "store"} => ~Kcptun!reusable(slot[idx[x]])',
         pc'[x] \in {"store", "restore"} => session'[x] \in Kcptun!Sessions
  PROVE  KcpInv'
<1> USE DEF KcpInv
<1>0. "none" \notin Pair
  BY DEF PoolsAssumption, Kcptun!KcptunAssumption
<1>a. ASSUME NEW y \in Pair \ {x}, pc'[y] \in Creating
      PROVE  lock'[idx'[y]] = y
  <2>1. PICK i \in Kcptun!Slots : i = idx[y] /\ i = idx'[y]
    BY DEF KcpType
  <2>2. lock[i] = y
    BY <1>a, <2>1 DEF CreatorLocks
  <2> QED BY <1>0, <2>1, <2>2
<1>1. CreatorLocks'
  BY <1>a DEF CreatorLocks
<1>2. \A i \in Kcptun!Slots : Kcptun!reusable(slot[i])' => Kcptun!reusable(slot[i])
  BY DEF Kcptun!reusable, Kcptun!NoSession
<1>3. \A y \in Pair \ {x} : idx'[y] = idx[y] /\ idx[y] \in Kcptun!Slots
  BY DEF KcpType
<1>4. ASSUME NEW y \in Pair \ {x}, pc'[y] \in {"create", "store"}
      PROVE  ~Kcptun!reusable(slot[idx[y]])'
  BY <1>2, <1>3, <1>4 DEF NothingToReuse, Kcptun!reusable
<1>5. NothingToReuse'
  BY <1>4 DEF NothingToReuse
<1> QED BY <1>1, <1>5 DEF StoresSession

(* Choosing a slot and waiting for its create lock.                        *)
LEMMA KcpEarly ==
  ASSUME PoolsAssumption, KcpInv, NEW x \in Pair, Kcptun!Pick(x) \/ Kcptun!Lock(x)
  PROVE  KcpInv'
<1> USE DEF KcpInv
<1>1. CASE Kcptun!Pick(x)
  <2>1. /\ slot' = Kcptun!Scavenged /\ idx' = [idx EXCEPT ![x] = rr]
        /\ rr' = (rr + 1) % Conn /\ UNCHANGED <<lock, made, closed, expired>>
        /\ \/ pc' = [pc EXCEPT ![x] = "lock"] /\ session' = session
           \/ pc' = [pc EXCEPT ![x] = "open"] /\ session' = [session EXCEPT ![x] = slot'[rr]]
    BY <1>1 DEF Kcptun!Pick, Kcptun!Goto, Kcptun!ages
  <2>2. rr' \in Kcptun!Slots
    BY <2>1 DEF KcpType, Kcptun!Slots, PoolsAssumption, Kcptun!KcptunAssumption
  <2>3. \A i \in Kcptun!Slots : slot'[i] \in {0, slot[i]}
    BY <2>1, ScavengeFacts
  <2>4. slot' \in [Kcptun!Slots -> Kcptun!Sessions \cup {0}]
    BY <2>1, ScavengeFacts
  <2>5. KcpType'
    BY <2>1, <2>2, <2>4 DEF KcpType
  <2>6. /\ pc'[x] \in {"lock", "open"}
        /\ \A y \in Pair \ {x} : /\ pc'[y] = pc[y] /\ idx'[y] = idx[y]
                                 /\ session'[y] = session[y]
    BY <2>1 DEF KcpType
  <2> QED BY <2>1, <2>3, <2>5, <2>6, KcpKept DEF Creating
<1>2. CASE Kcptun!Lock(x)
  <2>1. PICK i \in Kcptun!Slots, to \in {"recheck", "recreate"} :
          /\ i = idx[x] /\ lock[i] = "none" /\ lock' = [lock EXCEPT ![i] = x]
          /\ pc' = [pc EXCEPT ![x] = to]
          /\ UNCHANGED <<slot, rr, made, closed, expired, idx, session>>
    BY <1>2 DEF Kcptun!Lock, Kcptun!Goto, Kcptun!ages, Kcptun!Free, KcpType
  <2>2. KcpType'
    BY <2>1 DEF KcpType
  <2>3. pc'[x] = to /\ \A y \in Pair \ {x} : pc'[y] = pc[y]
    BY <2>1 DEF KcpType
  <2>4. lock'[i] = x /\ \A j \in Kcptun!Slots \ {i} : lock'[j] = lock[j]
    BY <2>1 DEF KcpType
  <2> QED BY <2>1, <2>2, <2>3, <2>4, KcpKept
<1> QED BY <1>1, <1>2

(* Looking again and making a session.                                     *)
LEMMA KcpMakes ==
  ASSUME PoolsAssumption, KcpInv, NEW x \in Pair,
         Kcptun!Recheck(x) \/ Kcptun!Create(x) \/ Kcptun!CreateFails(x)
  PROVE  KcpInv'
<1> USE DEF KcpInv
<1>0. PICK i \in Kcptun!Slots : i = idx[x]
  BY DEF KcpType
<1>a. lock[i] = x
  BY <1>0 DEF CreatorLocks, Creating, Kcptun!Recheck, Kcptun!Create, Kcptun!CreateFails
<1>1. CASE Kcptun!Recheck(x)
  <2>1. /\ slot' = Kcptun!Scavenged
        /\ UNCHANGED <<rr, made, closed, expired, idx>>
        /\ \/ /\ pc' = [pc EXCEPT ![x] = "open"] /\ lock' = [lock EXCEPT ![i] = "none"]
              /\ session' = [session EXCEPT ![x] = slot'[i]]
           \/ /\ pc' = [pc EXCEPT ![x] = "create"] /\ UNCHANGED <<lock, session>>
              /\ ~Kcptun!reusable(slot'[i])
    BY <1>0, <1>1 DEF Kcptun!Recheck, Kcptun!Goto, Kcptun!ages, Kcptun!Unlock, Kcptun!Free
  <2>2. slot' \in [Kcptun!Slots -> Kcptun!Sessions \cup {0}]
    BY <2>1, ScavengeFacts
  <2>3. \A j \in Kcptun!Slots : slot'[j] \in {0, slot[j]}
    BY <2>1, ScavengeFacts
  <2>4. KcpType'
    BY <2>1, <2>2 DEF KcpType
  <2>5. /\ pc'[x] = "open" \/ (pc'[x] = "create" /\ lock' = lock /\ ~Kcptun!reusable(slot'[i]))
        /\ \A y \in Pair \ {x} : pc'[y] = pc[y] /\ session'[y] = session[y]
    BY <2>1 DEF KcpType
  <2>6. \A j \in Kcptun!Slots : lock'[j] = lock[j] \/ lock[j] = x
    BY <1>a, <2>1 DEF KcpType
  <2>7. pc'[x] = "create" => ~Kcptun!reusable(slot[idx[x]])'
    BY <1>0, <2>1, <2>5 DEF Kcptun!reusable
  <2> QED BY <1>0, <1>a, <2>1, <2>3, <2>4, <2>5, <2>6, <2>7, KcpKept DEF Creating
<1>2. CASE Kcptun!Create(x)
  <2>1. PICK to \in {"store", "restore"} :
        /\ made < MaxSessions /\ made' = made + 1
        /\ session' = [session EXCEPT ![x] = made + 1]
        /\ pc' = [pc EXCEPT ![x] = to] /\ (to = "store" => pc[x] = "create")
        /\ UNCHANGED <<slot, rr, lock, closed, expired, idx>>
    BY <1>2 DEF Kcptun!Create, Kcptun!Goto, Kcptun!ages
  <2>2. made + 1 \in Kcptun!Sessions
    BY <2>1 DEF KcpType, Kcptun!Sessions, PoolsAssumption, Kcptun!KcptunAssumption
  <2>3. KcpType'
    BY <2>1, <2>2 DEF KcpType
  <2>4. /\ pc'[x] = to /\ session'[x] = made + 1
        /\ \A y \in Pair \ {x} : pc'[y] = pc[y] /\ session'[y] = session[y]
    BY <2>1 DEF KcpType
  <2>5. to = "store" => ~Kcptun!reusable(slot[idx[x]])'
    BY <2>1 DEF NothingToReuse, Kcptun!reusable
  <2> QED BY <1>0, <1>a, <2>1, <2>2, <2>3, <2>4, <2>5, KcpKept
<1>3. CASE Kcptun!CreateFails(x)
  <2>1. /\ session' = [session EXCEPT ![x] = 0] /\ pc' = [pc EXCEPT ![x] = "err"]
        /\ lock' = [lock EXCEPT ![i] = "none"]
        /\ UNCHANGED <<slot, rr, made, closed, expired, idx>>
    BY <1>0, <1>3 DEF Kcptun!CreateFails, Kcptun!Goto, Kcptun!ages, Kcptun!Unlock,
       Kcptun!Free, Kcptun!NoSession
  <2>2. KcpType'
    BY <2>1 DEF KcpType
  <2>3. /\ pc'[x] = "err"
        /\ \A y \in Pair \ {x} : pc'[y] = pc[y] /\ session'[y] = session[y]
        /\ \A j \in Kcptun!Slots : lock'[j] = lock[j] \/ lock[j] = x
    BY <1>a, <2>1 DEF KcpType
  <2> QED BY <2>1, <2>2, <2>3, KcpKept DEF Creating
<1> QED BY <1>1, <1>2, <1>3

(* Storing it: whoever else needs the slot does not have the lock.         *)
LEMMA KcpStores ==
  ASSUME PoolsAssumption, KcpInv, NEW x \in Pair, Kcptun!Store(x)
  PROVE  KcpInv'
<1> USE DEF KcpInv
<1>1. PICK i \in Kcptun!Slots : i = idx[x]
  BY DEF KcpType
<1>2. lock[i] = x /\ session[x] \in Kcptun!Sessions
  BY <1>1 DEF CreatorLocks, Creating, StoresSession, Kcptun!Store
<1>3. /\ slot' = [slot EXCEPT ![i] = session[x]]
      /\ UNCHANGED <<rr, made, closed, expired, idx, session>>
      /\ \/ pc' = [pc EXCEPT ![x] = "open"] /\ lock' = [lock EXCEPT ![i] = "none"]
         \/ pc' = [pc EXCEPT ![x] = "reopen"] /\ lock' = lock
  BY <1>1 DEF Kcptun!Store, Kcptun!Goto, Kcptun!ages, Kcptun!Unlock, Kcptun!Free
<1>4. KcpType'
  BY <1>2, <1>3 DEF KcpType
<1>5. /\ pc'[x] = "open" \/ (pc'[x] = "reopen" /\ lock' = lock)
      /\ \A y \in Pair \ {x} : pc'[y] = pc[y]
      /\ \A j \in Kcptun!Slots \ {i} : lock'[j] = lock[j] /\ slot'[j] = slot[j]
  BY <1>3 DEF KcpType
<1>6. \A y \in Pair \ {x} : idx[y] \in Kcptun!Slots /\ (pc[y] \in Creating => idx[y] # i)
  BY <1>2 DEF CreatorLocks, KcpType
<1>a. ASSUME NEW y \in Pair \ {x}, pc[y] \in Creating
      PROVE  lock'[idx[y]] = y
  BY <1>5, <1>6, <1>a DEF CreatorLocks
<1>b. pc'[x] \in Creating => lock'[idx[x]] = x
  BY <1>1, <1>2, <1>5 DEF Creating
<1>7. CreatorLocks'
  BY <1>3, <1>5, <1>a, <1>b DEF CreatorLocks
<1>8. NothingToReuse'
  BY <1>3, <1>5, <1>6 DEF NothingToReuse, Kcptun!reusable, Creating
<1> QED BY <1>3, <1>4, <1>5, <1>7, <1>8 DEF StoresSession

(* Opening the stream and dropping it.                                     *)
LEMMA KcpLate ==
  ASSUME PoolsAssumption, KcpInv, NEW x \in Pair,
         Kcptun!Open(x) \/ Kcptun!OpenFails(x) \/ Kcptun!Drop(x)
  PROVE  KcpInv'
<1> USE DEF KcpInv
<1>1. PICK i \in Kcptun!Slots : i = idx[x]
  BY DEF KcpType
<1>2. pc[x] = "reopen" => lock[i] = x
  BY <1>1 DEF CreatorLocks, Creating
<1>3. PICK to \in {"up", "relock", "err", "down"} :
        /\ pc' = [pc EXCEPT ![x] = to]
        /\ lock' = lock \/ (lock' = [lock EXCEPT ![i] = "none"] /\ pc[x] = "reopen")
        /\ session' = session \/ session' = [session EXCEPT ![x] = 0]
        /\ UNCHANGED <<slot, rr, made, closed, expired, idx>>
  BY <1>1 DEF Kcptun!Open, Kcptun!OpenFails, Kcptun!Drop, Kcptun!Goto, Kcptun!ages,
     Kcptun!Unlock, Kcptun!Free, Kcptun!NoSession
<1>4. KcpType'
  BY <1>3 DEF KcpType
<1>5. /\ pc'[x] = to
      /\ \A y \in Pair \ {x} : pc'[y] = pc[y] /\ session'[y] = session[y]
      /\ \A j \in Kcptun!Slots : lock'[j] = lock[j] \/ lock[j] = x
  BY <1>2, <1>3 DEF KcpType
<1> QED BY <1>3, <1>4, <1>5, KcpKept DEF Creating

(* A session that closes or gets old can be reused no more than before.    *)
LEMMA KcpAges ==
  ASSUME KcpInv, NEW s \in Kcptun!Sessions,
         Kcptun!Closes(s) \/ Kcptun!Expires(s) \/ Kcptun!DuesScavenge(s)
  PROVE  KcpInv'
<1> USE DEF KcpInv
<1>1. /\ UNCHANGED <<slot, rr, lock, made, pc, idx, session>>
      /\ closed' = [closed EXCEPT ![s] = TRUE] \/ closed' = closed
      /\ expired' = [expired EXCEPT ![s] = TRUE] \/ expired' = expired
  BY DEF Kcptun!Closes, Kcptun!Expires, Kcptun!DuesScavenge
<1>2. KcpType'
  BY <1>1 DEF KcpType
<1>3. \A i \in Kcptun!Slots : Kcptun!reusable(slot[i])' => Kcptun!reusable(slot[i])
  BY <1>1 DEF KcpType, Kcptun!reusable, Kcptun!NoSession
<1>4. NothingToReuse'
  BY <1>1, <1>3 DEF NothingToReuse, KcpType, Kcptun!reusable
<1> QED BY <1>1, <1>2, <1>4 DEF CreatorLocks, StoresSession

LEMMA KcpStep == ASSUME PoolsAssumption, KcpInv, Kcptun!Next PROVE KcpInv'
<1>1. CASE \E x \in Pair : Kcptun!CallStep(x) \/ Kcptun!Drop(x)
  <2>1. PICK x \in Pair :
          \/ Kcptun!Pick(x) \/ Kcptun!Lock(x) \/ Kcptun!Recheck(x) \/ Kcptun!Create(x)
          \/ Kcptun!CreateFails(x) \/ Kcptun!Store(x)
          \/ Kcptun!Open(x) \/ Kcptun!OpenFails(x) \/ Kcptun!Drop(x)
    BY <1>1 DEF Kcptun!CallStep, Kcptun!Proceeds
  <2> QED BY <2>1, KcpEarly, KcpMakes, KcpStores, KcpLate
<1>2. CASE \E s \in Kcptun!Sessions :
             Kcptun!Closes(s) \/ Kcptun!Expires(s) \/ Kcptun!DuesScavenge(s)
  BY <1>2, KcpAges
<1> QED BY <1>1, <1>2 DEF Kcptun!Next

LEMMA KcpStart == ASSUME PoolsAssumption, Kcptun!Init PROVE KcpInv
<1>1. 0 \in Kcptun!Slots
  BY DEF PoolsAssumption, Kcptun!KcptunAssumption, Kcptun!Slots
<1> QED
  BY <1>1 DEF Kcptun!Init, Kcptun!NoSession, KcpInv, KcpType, CreatorLocks,
              NothingToReuse, StoresSession, Creating

(* A slot is emptied by scavenge, refilled by a retry, or filled by the    *)
(* first call, which found nothing to reuse.                               *)
LEMMA KcpReplaces ==
  ASSUME PoolsAssumption, KcpInv, Kcptun!Next
  PROVE  Kcptun!ReplacesOnlyForRetry
<1> USE DEF KcpInv
<1> SUFFICES ASSUME NEW i \in Kcptun!Slots,
                    Kcptun!reusable(slot[i]), slot'[i] # slot[i]
             PROVE  \/ scavenge_due[slot[i]]
                    \/ \E x \in Pair : pc[x] = "restore" /\ idx[x] = i
  BY DEF Kcptun!ReplacesOnlyForRetry
<1>1. CASE slot' = Kcptun!Scavenged
  BY <1>1, ScavengeFacts DEF Kcptun!reusable
<1>2. CASE \E x \in Pair : Kcptun!Store(x)
  <2>1. PICK x \in Pair : Kcptun!Store(x)
    BY <1>2
  <2>2. slot' = [slot EXCEPT ![idx[x]] = session[x]] /\ pc[x] \in {"store", "restore"}
    BY <2>1 DEF Kcptun!Store
  <2>3. idx[x] = i
    BY <2>2 DEF KcpType
  <2> QED BY <2>2, <2>3 DEF NothingToReuse
<1>3. slot' = slot \/ slot' = Kcptun!Scavenged \/ \E x \in Pair : Kcptun!Store(x)
  BY DEF Kcptun!Next, Kcptun!CallStep, Kcptun!Proceeds, Kcptun!Pick, Kcptun!Lock, Kcptun!Recheck,
     Kcptun!Create, Kcptun!CreateFails, Kcptun!Open, Kcptun!OpenFails, Kcptun!Drop,
     Kcptun!Closes, Kcptun!Expires, Kcptun!DuesScavenge
<1> QED BY <1>1, <1>2, <1>3

-----------------------------------------------------------------------------
(* SIP003. *)
Process == [state : {"unborn", "starting", "listening", "exited"},
            port : Ports \cup {None}, idle : BOOLEAN]

SipType ==
  /\ pool \in [Keys -> Children \cup {None}]
  /\ child \in [Children -> Process]
  /\ locks \in [Keys -> Locks \cup {None}]
  /\ holder \in [Locks -> Pair \cup {None}]
  /\ pc = [x \in Pair |-> pc[x]]
  /\ key \in [Pair -> Keys]
  /\ arc \in [Pair -> Locks \cup {None}]
  /\ proc \in [Pair -> Children \cup {None}]
  /\ port \in [Pair -> Ports \cup {None}]
  /\ starts = [x \in Pair |-> starts[x]]
  /\ attempt = [x \in Pair |-> attempt[x]]

(* A call has an Arc of a create lock from sip003_create_lock on, and it   *)
(* stays the lock of its key; no two keys have the same lock.              *)
StartLabels ==
  {"recheck", "reserve", "bound", "drawn", "spawn", "probe", "discard", "insert"}
WithArc == {"lock"} \cup StartLabels

ArcIsOfKey ==
  \A x \in Pair : IF pc[x] \in WithArc THEN arc[x] # None /\ locks[key[x]] = arc[x]
                                       ELSE arc[x] = None

LocksDiffer == \A j, k \in Keys : locks[j] # None /\ locks[j] = locks[k] => j = k

(* The lock is held exactly by a call that starts the plugin.              *)
HolderStarts ==
  /\ \A x \in Pair : pc[x] \in StartLabels => holder[arc[x]] = x
  /\ \A l \in Locks : holder[l] # None =>
       pc[holder[l]] \in StartLabels /\ arc[holder[l]] = l

(* It has looked at the pool and has found nothing there.                  *)
NothingPooled ==
  \A x \in Pair : pc[x] \in StartLabels \ {"recheck"} => pool[key[x]] = None

LockInv == ArcIsOfKey /\ LocksDiffer /\ HolderStarts /\ NothingPooled

(* A call has a process from spawn on, until it discards it, and while it  *)
(* connects and has its stream; the reservations are the ports of the      *)
(* starts that have one, no two the same.                                  *)
Reserving == {"spawn", "probe"}
WithProcess == {"probe", "discard", "insert", "connect", "open"}

ProcHeld == \A x \in Pair : proc[x] # None <=> pc[x] \in WithProcess

PortInv == ProcHeld /\ Sip003!StartsHaveOwnPort /\ Sip003!NoReservationLeaks

SipInv == SipType /\ LockInv /\ PortInv

(* Of as many ids as there are calls and keys, one is free for a call that *)
(* has none: f and g say which id the calls and the keys have.             *)
LEMMA FreeId ==
  ASSUME NEW A, NEW B, NEW ids, IsFiniteSet(A), IsFiniteSet(B), IsFiniteSet(ids),
         Cardinality(A) + Cardinality(B) <= Cardinality(ids), None \notin ids,
         NEW f \in [A -> ids \cup {None}], NEW g \in [B -> ids \cup {None}],
         NEW a \in A, f[a] = None
  PROVE  \E i \in ids : (\A x \in A : f[x] # i) /\ (\A k \in B : g[k] # i)
<1> DEFINE F == { f[x] : x \in A \ {a} }
           G == { g[k] : k \in B }
           h == [x \in A \ {a} |-> f[x]]
<1>1. /\ IsFiniteSet(A \ {a}) /\ Cardinality(A \ {a}) = Cardinality(A) - 1
      /\ Cardinality(A) \in Nat /\ Cardinality(B) \in Nat /\ Cardinality(ids) \in Nat
  BY FS_RemoveElement, FS_CardinalityType
<1>2. h \in Surjection(A \ {a}, F) /\ g \in Surjection(B, G)
  BY DEF Surjection
<1> HIDE DEF F, G, h
<1>3. IsFiniteSet(F) /\ Cardinality(F) <= Cardinality(A) - 1
  BY <1>1, <1>2, FS_Surjection
<1>4. IsFiniteSet(G) /\ Cardinality(G) <= Cardinality(B)
  BY <1>2, FS_Surjection
<1>5. /\ IsFiniteSet(F \cup G) /\ Cardinality(F \cup G) < Cardinality(ids)
  <2>1. /\ Cardinality(F) \in Nat /\ Cardinality(G) \in Nat
        /\ IsFiniteSet(F \cap G) /\ Cardinality(F \cap G) \in Nat
    <3>1. IsFiniteSet(F \cap G)
      BY <1>3, FS_Subset
    <3> QED BY <1>3, <1>4, <3>1, FS_CardinalityType
  <2>2. /\ IsFiniteSet(F \cup G)
        /\ Cardinality(F \cup G) = Cardinality(F) + Cardinality(G) - Cardinality(F \cap G)
    BY <1>3, <1>4, FS_Union
  <2> QED BY <1>1, <1>3, <1>4, <2>1, <2>2
<1>6. ~(ids \subseteq F \cup G)
  <2>1. SUFFICES ASSUME ids \subseteq F \cup G PROVE FALSE
    OBVIOUS
  <2>2. Cardinality(ids) <= Cardinality(F \cup G)
    BY <1>5, <2>1, FS_Subset
  <2>3. Cardinality(F \cup G) \in Nat
    BY <1>5, FS_CardinalityType
  <2> QED BY <1>1, <1>5, <2>2, <2>3
<1>7. PICK i \in ids : i \notin F /\ i \notin G
  BY <1>6
<1> QED BY <1>7 DEF F, G

LEMMA SipCounts ==
  \A S : (Sip003!IsFiniteSet(S) <=> IsFiniteSet(S)) /\ Sip003!Cardinality(S) = Cardinality(S)
BY DEF Sip003!IsFiniteSet, IsFiniteSet, Sip003!Cardinality, Cardinality

LEMMA EnoughIds ==
  ASSUME PoolsAssumption
  PROVE  /\ IsFiniteSet(Pair) /\ IsFiniteSet(Keys)
         /\ IsFiniteSet(Locks) /\ Cardinality(Pair) + Cardinality(Keys) <= Cardinality(Locks)
         /\ IsFiniteSet(Children)
         /\ Cardinality(Pair) + Cardinality(Keys) <= Cardinality(Children)
         /\ None \notin Pair \cup Keys \cup Ports \cup Children \cup Locks
         /\ Contested \subseteq Ports
<1>1. Sip003!Sip003Assumption
  BY DEF PoolsAssumption
<1>2. \A ids : ids = Children \/ ids = Locks =>
        /\ Sip003!IsFiniteSet(ids)
        /\ Sip003!Cardinality(Pair) + Sip003!Cardinality(Keys) <= Sip003!Cardinality(ids)
  BY <1>1 DEF Sip003!Sip003Assumption
<1>3. Sip003!IsFiniteSet(Pair) /\ Sip003!IsFiniteSet(Keys)
  BY <1>1 DEF Sip003!Sip003Assumption
<1>4. /\ None \notin Pair \cup Keys \cup Ports \cup Children \cup Locks
      /\ Contested \subseteq Ports
  BY <1>1 DEF Sip003!Sip003Assumption
<1> QED BY <1>2, <1>3, <1>4, SipCounts

(* What Drop of an Arc does to the children.                               *)
LEMMA DropFacts ==
  ASSUME SipType, Sip003!DropUnreferenced
  PROVE  child' \in [Children -> Process]
BY DEF Sip003!DropUnreferenced, SipType, Process, Sip003!Unborn

-----------------------------------------------------------------------------
(* The create locks. *)

LEMMA HolderFacts ==
  ASSUME SipType, LockInv, NEW l \in Locks, holder[l] # None
  PROVE  \E y \in Pair : y = holder[l] /\ pc[y] \in StartLabels /\ arc[y] = l
<1>1. holder[l] \in Pair
  BY DEF SipType
<1> QED BY <1>1 DEF LockInv, HolderStarts

(* A step of one call that neither takes nor returns a create lock.        *)
LEMMA LockKept ==
  ASSUME SipType, LockInv, NEW x \in Pair,
         UNCHANGED <<locks, holder, arc, key>>,
         \A y \in Pair \ {x} : pc'[y] = pc[y],
         pc'[x] \in StartLabels <=> pc[x] \in StartLabels,
         pc'[x] \in WithArc <=> pc[x] \in WithArc,
         \A k \in Keys : pool'[k] \in {pool[k], None},
         pc'[x] \in StartLabels \ {"recheck"} => pool'[key[x]] = None
  PROVE  LockInv'
<1> USE DEF LockInv
<1>1. ArcIsOfKey'
  BY DEF ArcIsOfKey
<1>2. LocksDiffer'
  BY DEF LocksDiffer
<1>3. HolderStarts'
  <2>1. \A l \in Locks : holder[l] # None => holder[l] \in Pair
    BY DEF SipType
  <2> QED BY <2>1 DEF HolderStarts
<1>4. NothingPooled'
  BY DEF NothingPooled, SipType
<1> QED BY <1>1, <1>2, <1>3, <1>4

(* A step that ends a start: no other call starts with the same key.       *)
LEMMA LockReturned ==
  ASSUME PoolsAssumption, SipType, LockInv, NEW x \in Pair,
         pc[x] \in StartLabels, pc'[x] \notin WithArc,
         Sip003!Unlock(x), UNCHANGED <<locks, key>>,
         \A y \in Pair \ {x} : pc'[y] = pc[y],
         \A k \in Keys : pool'[k] = pool[k] \/ k = key[x]
  PROVE  LockInv'
<1> USE DEF LockInv
<1>0. PICK l \in Locks : l = arc[x]
  BY DEF ArcIsOfKey, SipType, WithArc
<1>1. /\ holder' = [holder EXCEPT ![l] = None]
      /\ arc' = [arc EXCEPT ![x] = None]
      /\ holder[l] = x /\ locks[key[x]] = l
  BY <1>0 DEF Sip003!Unlock, HolderStarts, ArcIsOfKey, WithArc
<1>2. /\ arc'[x] = None /\ \A y \in Pair \ {x} : arc'[y] = arc[y]
      /\ holder'[l] = None /\ \A m \in Locks \ {l} : holder'[m] = holder[m]
  BY <1>1 DEF SipType
<1>3. ArcIsOfKey'
  BY <1>2 DEF ArcIsOfKey
<1>4. LocksDiffer'
  BY DEF LocksDiffer
<1>5. HolderStarts'
  <2>1. ASSUME NEW y \in Pair, pc'[y] \in StartLabels PROVE holder'[arc'[y]] = y
    <3>1. y # x /\ pc[y] \in StartLabels /\ arc'[y] = arc[y]
      BY <1>2, <2>1 DEF WithArc
    <3>2. holder[arc[y]] = y /\ arc[y] \in Locks
      BY <3>1 DEF HolderStarts, ArcIsOfKey, SipType, WithArc
    <3> QED BY <1>1, <1>2, <3>1, <3>2
  <2>2. ASSUME NEW m \in Locks, holder'[m] # None
        PROVE  pc'[holder'[m]] \in StartLabels /\ arc'[holder'[m]] = m
    <3>1. m # l /\ holder'[m] = holder[m]
      BY <1>2, <2>2
    <3>2. PICK y \in Pair : y = holder[m] /\ arc[y] = m /\ pc[y] \in StartLabels
      BY <2>2, <3>1, HolderFacts
    <3>3. y # x
      BY <1>0, <3>1, <3>2
    <3> QED BY <1>2, <3>1, <3>2, <3>3
  <2> QED BY <2>1, <2>2 DEF HolderStarts
<1>6. NothingPooled'
  <2>1. ASSUME NEW y \in Pair, pc'[y] \in StartLabels \ {"recheck"}
        PROVE  pool'[key[y]] = None
    <3>1. y # x /\ pc[y] \in StartLabels \ {"recheck"} /\ key[y] \in Keys
      BY <2>1 DEF WithArc, SipType
    <3>2. arc[y] = locks[key[y]] /\ holder[arc[y]] = y
      BY <3>1 DEF ArcIsOfKey, HolderStarts, WithArc
    <3>3. key[y] # key[x]
      BY <1>1, <3>1, <3>2
    <3> QED BY <3>1, <3>3 DEF NothingPooled
  <2> QED BY <2>1 DEF NothingPooled
<1> QED BY <1>3, <1>4, <1>5, <1>6

(* sip003_create_lock keeps the lock of every key that anybody needs.      *)
LEMMA LockGot ==
  ASSUME PoolsAssumption, SipType, LockInv, NEW x \in Pair, Sip003!GetLock(x)
  PROVE  /\ LockInv'
         /\ locks' \in [Keys -> Locks \cup {None}]
         /\ arc' \in [Pair -> Locks \cup {None}]
<1> USE DEF LockInv
<1> DEFINE Has(l) == \E y \in Pair : arc[y] = l
           Keeps(k) == locks[k] # None /\ Has(locks[k])
           kept == [k \in Keys |-> IF Keeps(k) THEN locks[k] ELSE None]
           Fresh(l) == l \notin { locks[k] : k \in Keys } /\ ~Has(l)
           mine == IF kept[key[x]] = None THEN CHOOSE l \in Locks : Fresh(l) ELSE kept[key[x]]
<1>0. None \notin Locks
  BY DEF PoolsAssumption, Sip003!Sip003Assumption
<1>1. /\ locks' = [kept EXCEPT ![key[x]] = mine]
      /\ arc' = [arc EXCEPT ![x] = mine]
      /\ pc[x] = "getlock" /\ pc' = [pc EXCEPT ![x] = "lock"]
      /\ UNCHANGED <<pool, holder, key>>
  BY DEF Sip003!GetLock, Sip003!HasArc, Sip003!Goto
<1>2. arc[x] = None
  BY <1>1 DEF ArcIsOfKey, WithArc, StartLabels
<1>3. \E l \in Locks : Fresh(l)
  <2>1. \E l \in Locks : (\A y \in Pair : arc[y] # l) /\ (\A k \in Keys : locks[k] # l)
    <3>1. /\ arc \in [Pair -> Locks \cup {None}] /\ locks \in [Keys -> Locks \cup {None}]
      BY DEF SipType
    <3> QED BY <1>0, <1>2, <3>1, EnoughIds, FreeId
  <2> QED BY <2>1
<1>4. PICK l : l = mine
  OBVIOUS
<1>5. PICK j \in Keys : j = key[x]
  BY DEF SipType
<1>6. /\ Keeps(j) => l = locks[j]
      /\ ~Keeps(j) => l \in Locks /\ Fresh(l)
  BY <1>3, <1>4, <1>5
<1> HIDE DEF mine
<1>7. /\ locks'[j] = l
      /\ \A k \in Keys \ {j} : locks'[k] = IF Keeps(k) THEN locks[k] ELSE None
  BY <1>1, <1>4, <1>5
<1>8. /\ arc'[x] = l /\ \A y \in Pair \ {x} : arc'[y] = arc[y]
      /\ pc'[x] = "lock" /\ \A y \in Pair \ {x} : pc'[y] = pc[y]
  BY <1>1, <1>4 DEF SipType
<1>9. l \in Locks
  BY <1>6 DEF SipType
<1>10. ArcIsOfKey'
  <2>1. ASSUME NEW y \in Pair \ {x}, pc[y] \in WithArc PROVE locks'[key[y]] = arc[y]
    <3>1. key[y] \in Keys /\ Keeps(key[y]) /\ locks[key[y]] = arc[y]
      BY <2>1 DEF ArcIsOfKey, SipType
    <3> QED BY <1>6, <1>7, <3>1
  <2>2. ASSUME NEW y \in Pair \ {x}
        PROVE IF pc'[y] \in WithArc THEN arc'[y] # None /\ locks'[key'[y]] = arc'[y]
                                    ELSE arc'[y] = None
    BY <1>1, <1>8, <2>1 DEF ArcIsOfKey
  <2>3. /\ pc'[x] \in WithArc
        /\ arc'[x] # None /\ locks'[key'[x]] = arc'[x]
    BY <1>0, <1>1, <1>5, <1>7, <1>8, <1>9 DEF WithArc
  <2> QED BY <2>2, <2>3 DEF ArcIsOfKey
<1>11. LocksDiffer'
  <2>1. ASSUME NEW k \in Keys \ {j}, locks'[k] # None PROVE locks'[k] # l
    <3>1. locks'[k] = locks[k] /\ locks[k] # None
      BY <1>7, <2>1
    <3> QED BY <1>6, <3>1 DEF LocksDiffer
  <2>2. ASSUME NEW k \in Keys \ {j}, NEW m \in Keys \ {j}, locks'[k] # None,
               locks'[k] = locks'[m]
        PROVE  k = m
    BY <1>7, <2>2 DEF LocksDiffer
  <2> QED BY <1>7, <2>1, <2>2 DEF LocksDiffer
<1>12. HolderStarts'
  <2>1. \A m \in Locks : holder[m] # None => holder[m] \in Pair \ {x}
    <3>1. pc[x] \notin StartLabels
      BY <1>1 DEF StartLabels
    <3> QED BY <3>1, HolderFacts
  <2> QED BY <1>1, <1>8, <2>1 DEF HolderStarts, StartLabels
<1>13. NothingPooled'
  BY <1>1, <1>8 DEF NothingPooled, StartLabels
<1>14. /\ locks' \in [Keys -> Locks \cup {None}]
       /\ arc' \in [Pair -> Locks \cup {None}]
  <2>1. arc' \in [Pair -> Locks \cup {None}]
    BY <1>1, <1>4, <1>9 DEF SipType
  <2>2. kept \in [Keys -> Locks \cup {None}]
    BY DEF SipType
  <2> HIDE DEF kept
  <2> QED BY <1>1, <1>4, <1>9, <2>1, <2>2
<1> QED BY <1>10, <1>11, <1>12, <1>13, <1>14

(* Locking it.                                                             *)
LEMMA LockTaken ==
  ASSUME PoolsAssumption, SipType, LockInv, NEW x \in Pair, Sip003!Lock(x)
  PROVE  LockInv' /\ holder' \in [Locks -> Pair \cup {None}]
<1> USE DEF LockInv
<1>0. None \notin Pair
  BY DEF PoolsAssumption, Sip003!Sip003Assumption
<1>1. PICK l \in Locks : l = arc[x]
  BY DEF ArcIsOfKey, SipType, WithArc, Sip003!Lock
<1>2. /\ pc[x] = "lock" /\ holder[l] = None
      /\ holder' = [holder EXCEPT ![l] = x]
      /\ pc' = [pc EXCEPT ![x] = "recheck"]
      /\ UNCHANGED <<pool, locks, key, arc>>
  BY <1>1 DEF Sip003!Lock, Sip003!Goto
<1>3. /\ pc'[x] = "recheck" /\ \A y \in Pair \ {x} : pc'[y] = pc[y]
      /\ holder'[l] = x /\ \A m \in Locks \ {l} : holder'[m] = holder[m]
  BY <1>2 DEF SipType
<1>4. ArcIsOfKey' /\ LocksDiffer' /\ NothingPooled'
  BY <1>2, <1>3 DEF ArcIsOfKey, LocksDiffer, NothingPooled, WithArc, StartLabels
<1>5. HolderStarts'
  <2>1. ASSUME NEW y \in Pair \ {x}, pc[y] \in StartLabels PROVE holder'[arc[y]] = y
    <3>1. holder[arc[y]] = y /\ arc[y] \in Locks
      BY <2>1 DEF HolderStarts, ArcIsOfKey, SipType, WithArc
    <3> QED BY <1>0, <1>2, <1>3, <3>1
  <2>2. ASSUME NEW m \in Locks \ {l}, holder[m] # None
        PROVE  pc'[holder[m]] \in StartLabels /\ arc[holder[m]] = m
    <3>1. PICK y \in Pair : y = holder[m] /\ pc[y] \in StartLabels /\ arc[y] = m
      BY <2>2, HolderFacts
    <3> QED BY <1>1, <1>3, <3>1
  <2> QED BY <1>1, <1>2, <1>3, <2>1, <2>2 DEF HolderStarts, StartLabels
<1> QED BY <1>2, <1>4, <1>5 DEF SipType
-----------------------------------------------------------------------------
(* The ports and the processes. *)

(* A step that changes one child.                                          *)
LEMMA ChildBecomes ==
  ASSUME SipType, NEW c \in Children, NEW r \in Process, child' = [child EXCEPT ![c] = r]
  PROVE  /\ child' \in [Children -> Process]
         /\ child'[c] = r
         /\ \A d \in Children \ {c} : child'[d] = child[d]
BY DEF SipType

(* A step of a call that neither makes nor ends a reservation.             *)
LEMMA PortKept ==
  ASSUME SipType, PortInv, NEW x \in Pair,
         UNCHANGED reserved,
         \A y \in Pair \ {x} : pc'[y] = pc[y] /\ proc'[y] = proc[y] /\ port'[y] = port[y],
         pc'[x] \in Reserving <=> pc[x] \in Reserving,
         pc[x] \in Reserving => port'[x] = port[x],
         proc'[x] # None <=> pc'[x] \in WithProcess
  PROVE  PortInv'
<1> USE DEF PortInv
<1>1. ProcHeld'
  BY DEF ProcHeld
<1>2. \A y \in Pair : /\ Sip003!Reserves(y)' <=> Sip003!Reserves(y)
                      /\ Sip003!Reserves(y) => port'[y] = port[y]
  BY DEF Sip003!Reserves, Reserving
<1>3. Sip003!StartsHaveOwnPort'
  BY <1>2 DEF Sip003!StartsHaveOwnPort
<1>4. Sip003!NoReservationLeaks'
  BY <1>2 DEF Sip003!NoReservationLeaks
<1> QED BY <1>1, <1>3, <1>4

(* Looking at the pool and at the create locks.                            *)
LEMMA SipLooks ==
  ASSUME PoolsAssumption, SipInv, NEW x \in Pair, Sip003!Look(x)
  PROVE  SipInv'
<1> USE DEF SipInv
<1>1. PICK k \in Keys : k = key[x]
  BY DEF SipType
<1>2. /\ pc[x] = "look"
      /\ pool' = [j \in Keys |-> IF pool[j] # None /\ Sip003!Retained(pool[j])
                                 THEN pool[j] ELSE None]
      /\ proc' = [proc EXCEPT ![x] = pool'[k]]
      /\ pc' = [pc EXCEPT ![x] = IF pool'[k] = None THEN "getlock" ELSE "connect"]
      /\ Sip003!DropUnreferenced
      /\ UNCHANGED <<reserved, locks, holder, arc, key, port, attempt, starts>>
  BY <1>1 DEF Sip003!Look, Sip003!Goto, Sip003!lockVars
<1>3. pool' \in [Keys -> Children \cup {None}] /\ \A j \in Keys : pool'[j] \in {pool[j], None}
  BY <1>2 DEF SipType
<1>4. /\ proc' \in [Pair -> Children \cup {None}]
      /\ proc'[x] = pool'[k] /\ pc'[x] = IF pool'[k] = None THEN "getlock" ELSE "connect"
      /\ \A y \in Pair \ {x} : pc'[y] = pc[y] /\ proc'[y] = proc[y]
  BY <1>2, <1>3 DEF SipType
<1>5. SipType'
  BY <1>2, <1>3, <1>4, DropFacts DEF SipType
<1>6. LockInv'
  BY <1>2, <1>3, <1>4, LockKept DEF WithArc, StartLabels
<1>7. PortInv'
  BY <1>2, <1>3, <1>4, PortKept DEF Reserving, WithProcess
<1> QED BY <1>5, <1>6, <1>7

LEMMA SipLocks ==
  ASSUME PoolsAssumption, SipInv, NEW x \in Pair, Sip003!GetLock(x) \/ Sip003!Lock(x)
  PROVE  SipInv'
<1> USE DEF SipInv
<1>1. PICK to \in {"lock", "recheck"} :
      /\ pc[x] \in {"getlock", "lock"} /\ pc' = [pc EXCEPT ![x] = to]
      /\ UNCHANGED <<pool, child, foreign, reserved, key, proc, port, attempt, starts>>
  BY DEF Sip003!GetLock, Sip003!Lock, Sip003!Goto
<1>2. pc'[x] = to /\ \A y \in Pair \ {x} : pc'[y] = pc[y]
  BY <1>1 DEF SipType
<1>3. /\ LockInv' /\ locks' \in [Keys -> Locks \cup {None}]
      /\ arc' \in [Pair -> Locks \cup {None}] /\ holder' \in [Locks -> Pair \cup {None}]
  <2>1. CASE Sip003!GetLock(x)
    BY <2>1, LockGot DEF Sip003!GetLock, SipType
  <2>2. CASE Sip003!Lock(x)
    BY <2>2, LockTaken DEF Sip003!Lock, SipType
  <2> QED BY <2>1, <2>2
<1>4. SipType'
  BY <1>1, <1>3 DEF SipType
<1>5. proc[x] = None
  BY <1>1 DEF PortInv, ProcHeld, WithProcess
<1>6. PortInv'
  BY <1>1, <1>2, <1>5, PortKept DEF Reserving, WithProcess
<1> QED BY <1>3, <1>4, <1>6

(* What a step that releases the create lock does to the types.            *)
LEMMA UnlockType ==
  ASSUME SipType, LockInv, NEW x \in Pair, pc[x] \in StartLabels, Sip003!Unlock(x)
  PROVE  /\ arc' \in [Pair -> Locks \cup {None}]
         /\ holder' \in [Locks -> Pair \cup {None}]
BY DEF SipType, Sip003!Unlock

(* The second look.                                                        *)
LEMMA SipRechecks ==
  ASSUME PoolsAssumption, SipInv, NEW x \in Pair, Sip003!Recheck(x)
  PROVE  SipInv'
<1> USE DEF SipInv
<1>1. PICK k \in Keys : k = key[x]
  BY DEF SipType
<1>2. /\ pc[x] = "recheck"
      /\ UNCHANGED <<pool, child, foreign, reserved, locks, key, port, attempt, starts>>
  BY DEF Sip003!Recheck
<1>a. proc[x] = None
  BY <1>2 DEF PortInv, ProcHeld, WithProcess
<1>3. CASE pool[k] # None
  <2>1. /\ proc' = [proc EXCEPT ![x] = pool[k]] /\ Sip003!Unlock(x)
        /\ pc' = [pc EXCEPT ![x] = "connect"]
    BY <1>1, <1>3 DEF Sip003!Recheck, Sip003!Goto
  <2>2. /\ pc'[x] = "connect" /\ proc'[x] = pool[k]
        /\ \A y \in Pair \ {x} : pc'[y] = pc[y] /\ proc'[y] = proc[y]
    BY <2>1 DEF SipType
  <2>3. SipType'
    BY <1>2, <2>1, UnlockType DEF SipType, StartLabels
  <2>4. LockInv'
    BY <1>2, <2>1, <2>2, LockReturned DEF StartLabels, WithArc
  <2>5. PortInv'
    BY <1>2, <1>3, <2>2, PortKept DEF Reserving, WithProcess
  <2> QED BY <2>3, <2>4, <2>5
<1>4. CASE pool[k] = None
  <2>1. UNCHANGED <<proc, holder, arc>> /\ pc' = [pc EXCEPT ![x] = "reserve"]
    BY <1>1, <1>4 DEF Sip003!Recheck, Sip003!Goto
  <2>2. pc'[x] = "reserve" /\ \A y \in Pair \ {x} : pc'[y] = pc[y]
    BY <2>1 DEF SipType
  <2>3. SipType'
    BY <1>2, <2>1 DEF SipType
  <2>4. LockInv'
    BY <1>1, <1>2, <1>4, <2>1, <2>2, LockKept DEF StartLabels, WithArc
  <2>5. PortInv'
    BY <1>2, <1>a, <2>1, <2>2, PortKept DEF Reserving, WithProcess
  <2> QED BY <2>3, <2>4, <2>5
<1> QED BY <1>3, <1>4

(* Inserting the new process, and giving up before there is one.           *)
LEMMA SipInserts ==
  ASSUME PoolsAssumption, SipInv, NEW x \in Pair, Sip003!Insert(x)
  PROVE  SipInv'
<1> USE DEF SipInv
<1>1. PICK k \in Keys : k = key[x]
  BY DEF SipType
<1>2. /\ pc[x] = "insert" /\ pool[k] = None /\ proc[x] # None
  BY <1>1 DEF Sip003!Insert, LockInv, NothingPooled, StartLabels, PortInv, ProcHeld,
     WithProcess
<1>3. /\ pool' = [pool EXCEPT ![k] = proc[x]] /\ proc' = [proc EXCEPT ![x] = pool'[k]]
      /\ Sip003!DropUnreferenced /\ Sip003!Unlock(x)
      /\ starts' = [starts EXCEPT ![x] = 0] /\ pc' = [pc EXCEPT ![x] = "connect"]
      /\ UNCHANGED <<reserved, locks, key, port, attempt>>
  BY <1>1, <1>2 DEF Sip003!Insert, Sip003!Goto
<1>4. /\ pool'[k] = proc[x] /\ \A j \in Keys \ {k} : pool'[j] = pool[j]
      /\ pool' \in [Keys -> Children \cup {None}]
  BY <1>3 DEF SipType
<1>5. proc' = proc
  BY <1>3, <1>4 DEF SipType
<1>6. pc'[x] = "connect" /\ \A y \in Pair \ {x} : pc'[y] = pc[y]
  BY <1>3 DEF SipType
<1>7. SipType'
  BY <1>2, <1>3, <1>4, <1>5, UnlockType, DropFacts DEF SipType, StartLabels
<1>8. LockInv'
  BY <1>1, <1>2, <1>3, <1>4, <1>6, LockReturned DEF StartLabels, WithArc
<1>9. PortInv'
  BY <1>2, <1>3, <1>5, <1>6, PortKept DEF Reserving, WithProcess
<1> QED BY <1>7, <1>8, <1>9

LEMMA SipReserveFails ==
  ASSUME PoolsAssumption, SipInv, NEW x \in Pair, Sip003!ReserveFails(x)
  PROVE  SipInv'
<1> USE DEF SipInv
<1>1. /\ pc[x] = "reserve" /\ pc' = [pc EXCEPT ![x] = "err"] /\ Sip003!Unlock(x)
      /\ UNCHANGED <<pool, child, foreign, reserved, locks, key, proc, port, attempt, starts>>
  BY DEF Sip003!ReserveFails, Sip003!Goto
<1>2. pc'[x] = "err" /\ \A y \in Pair \ {x} : pc'[y] = pc[y]
  BY <1>1 DEF SipType
<1>3. proc[x] = None
  BY <1>1 DEF PortInv, ProcHeld, WithProcess
<1>4. SipType'
  BY <1>1, UnlockType DEF SipType, StartLabels
<1>5. LockInv'
  BY <1>1, <1>2, LockReturned DEF StartLabels, WithArc
<1>6. PortInv'
  BY <1>1, <1>2, <1>3, PortKept DEF Reserving, WithProcess
<1> QED BY <1>4, <1>5, <1>6

(* Using the process: connecting, a refused connection, the end.           *)
LEMMA SipUses ==
  ASSUME PoolsAssumption, SipInv, NEW x \in Pair,
         Sip003!Connect(x) \/ Sip003!ConnectFails(x) \/ Sip003!Close(x)
  PROVE  SipInv'
<1> USE DEF SipInv
<1>0. PICK c \in Children : c = proc[x] /\ pc[x] \in {"connect", "open"}
  BY DEF Sip003!Connect, Sip003!ConnectFails, Sip003!Close, PortInv, ProcHeld,
     WithProcess, SipType
<1>1. CASE Sip003!Connect(x)
  <2>1. /\ child' = [child EXCEPT ![c].idle = FALSE] /\ pc' = [pc EXCEPT ![x] = "open"]
        /\ UNCHANGED <<pool, foreign, reserved, locks, holder, arc, key, proc, port,
                       attempt, starts>>
    BY <1>0, <1>1 DEF Sip003!Connect, Sip003!Goto, Sip003!lockVars
  <2>2. pc'[x] = "open" /\ \A y \in Pair \ {x} : pc'[y] = pc[y]
    BY <2>1 DEF SipType
  <2>3. child' \in [Children -> Process]
    <3>1. child[c] \in Process
      BY DEF SipType
    <3>2. PICK r : r = [child[c] EXCEPT !.idle = FALSE]
      OBVIOUS
    <3>3. r \in Process
      BY <3>1, <3>2 DEF Process
    <3>4. child' = [child EXCEPT ![c] = r]
      BY <2>1, <3>2
    <3> QED BY <3>3, <3>4, ChildBecomes
  <2>4. SipType'
    BY <2>1, <2>3 DEF SipType
  <2>5. LockInv'
    BY <1>0, <2>1, <2>2, LockKept DEF WithArc, StartLabels, LockInv, NothingPooled
  <2>6. PortInv'
    BY <1>0, <2>1, <2>2, PortKept DEF PortInv, ProcHeld, Reserving, WithProcess
  <2> QED BY <2>4, <2>5, <2>6
<1>2. CASE Sip003!ConnectFails(x) \/ Sip003!Close(x)
  <2>1. PICK to \in {"look", "err", "closed"} :
        /\ pool' = [pool EXCEPT ![key[x]] = None] \/ pool' = pool
        /\ proc' = [proc EXCEPT ![x] = None] /\ pc' = [pc EXCEPT ![x] = to]
        /\ attempt' = [attempt EXCEPT ![x] = @ + 1] \/ attempt' = attempt
        /\ Sip003!DropUnreferenced
        /\ UNCHANGED <<reserved, locks, holder, arc, key, port, starts>>
    BY <1>2 DEF Sip003!ConnectFails, Sip003!Close, Sip003!Goto, Sip003!lockVars
  <2>2. /\ pc'[x] = to /\ proc'[x] = None
        /\ \A y \in Pair \ {x} : pc'[y] = pc[y] /\ proc'[y] = proc[y]
    BY <2>1 DEF SipType
  <2>3. pool' \in [Keys -> Children \cup {None}] /\ \A j \in Keys : pool'[j] \in {pool[j], None}
    BY <2>1 DEF SipType
  <2>4. SipType'
    BY <2>1, <2>3, DropFacts DEF SipType
  <2>5. LockInv'
    BY <1>0, <2>1, <2>2, <2>3, LockKept DEF WithArc, StartLabels
  <2>6. PortInv'
    BY <1>0, <2>1, <2>2, PortKept DEF Reserving, WithProcess
  <2> QED BY <2>4, <2>5, <2>6
<1> QED BY <1>1, <1>2

(* Drawing a port.                                                         *)
LEMMA SipDraws ==
  ASSUME PoolsAssumption, SipInv, NEW x \in Pair, Sip003!Bind(x) \/ Sip003!Unbind(x)
  PROVE  SipInv'
<1> USE DEF SipInv
<1>1. PICK to \in {"bound", "drawn"}, p \in Ports \cup {None} :
        /\ pc[x] \in {"reserve", "bound"} /\ pc' = [pc EXCEPT ![x] = to]
        /\ port' = [port EXCEPT ![x] = p]
        /\ UNCHANGED <<pool, child, reserved, locks, holder, arc, key, proc, attempt, starts>>
  <2>1. CASE Sip003!Bind(x)
    BY <2>1 DEF Sip003!Bind, Sip003!Goto, Sip003!lockVars
  <2>2. CASE Sip003!Unbind(x)
    <3>1. port[x] \in Ports \cup {None} /\ port = [port EXCEPT ![x] = port[x]]
      BY DEF SipType
    <3> QED BY <2>2, <3>1 DEF Sip003!Unbind, Sip003!Goto, Sip003!lockVars
  <2> QED BY <2>1, <2>2
<1>2. /\ pc'[x] = to
      /\ \A y \in Pair \ {x} : pc'[y] = pc[y] /\ port'[y] = port[y]
  BY <1>1 DEF SipType
<1>3. proc[x] = None
  BY <1>1 DEF PortInv, ProcHeld, WithProcess
<1>4. SipType'
  BY <1>1 DEF SipType
<1>5. LockInv'
  BY <1>1, <1>2, LockKept DEF StartLabels, WithArc, LockInv, NothingPooled
<1>6. PortInv'
  BY <1>1, <1>2, <1>3, PortKept DEF Reserving, WithProcess
<1> QED BY <1>4, <1>5, <1>6

(* Reserving it, unless another start was faster.                          *)
LEMMA SipReserves ==
  ASSUME PoolsAssumption, SipInv, NEW x \in Pair, Sip003!Reserve(x)
  PROVE  SipInv'
<1> USE DEF SipInv
<1>1. /\ pc[x] = "drawn"
      /\ UNCHANGED <<pool, child, locks, holder, arc, key, proc, attempt, starts>>
  BY DEF Sip003!Reserve, Sip003!lockVars
<1>2. proc[x] = None
  BY <1>1 DEF PortInv, ProcHeld, WithProcess
<1>3. CASE port[x] \in reserved
  <2>1. /\ port' = [port EXCEPT ![x] = None] /\ pc' = [pc EXCEPT ![x] = "reserve"]
        /\ UNCHANGED reserved
    BY <1>3 DEF Sip003!Reserve, Sip003!Goto
  <2>2. /\ pc'[x] = "reserve"
        /\ \A y \in Pair \ {x} : pc'[y] = pc[y] /\ port'[y] = port[y]
    BY <2>1 DEF SipType
  <2>3. SipType'
    BY <1>1, <2>1 DEF SipType
  <2>4. LockInv'
    BY <1>1, <2>2, LockKept DEF StartLabels, WithArc, LockInv, NothingPooled
  <2>5. PortInv'
    BY <1>1, <1>2, <2>1, <2>2, PortKept DEF Reserving, WithProcess
  <2> QED BY <2>3, <2>4, <2>5
<1>4. CASE port[x] \notin reserved
  <2>1. /\ reserved' = reserved \cup {port[x]} /\ pc' = [pc EXCEPT ![x] = "spawn"]
        /\ UNCHANGED port
    BY <1>4 DEF Sip003!Reserve, Sip003!Goto
  <2>2. pc'[x] = "spawn" /\ \A y \in Pair \ {x} : pc'[y] = pc[y]
    BY <2>1 DEF SipType
  <2>3. SipType'
    BY <1>1, <2>1 DEF SipType
  <2>4. LockInv'
    BY <1>1, <2>2, LockKept DEF StartLabels, WithArc, LockInv, NothingPooled
  <2>5. /\ Sip003!Reserves(x)' /\ ~Sip003!Reserves(x)
        /\ \A y \in Pair \ {x} : Sip003!Reserves(y)' <=> Sip003!Reserves(y)
    BY <1>1, <2>2 DEF Sip003!Reserves
  <2>6. \A q : q \in reserved <=> \E y \in Pair : Sip003!Reserves(y) /\ port[y] = q
    BY DEF PortInv, Sip003!NoReservationLeaks
  <2>7. Sip003!StartsHaveOwnPort'
    BY <1>4, <2>1, <2>5, <2>6 DEF PortInv, Sip003!StartsHaveOwnPort
  <2>8. Sip003!NoReservationLeaks'
    <3>1. \A q : q \in reserved' <=> \E y \in Pair : Sip003!Reserves(y)' /\ port'[y] = q
      BY <2>1, <2>5, <2>6
    <3> QED BY <3>1 DEF Sip003!NoReservationLeaks
  <2>9. ProcHeld'
    BY <1>1, <1>2, <2>2 DEF PortInv, ProcHeld, WithProcess
  <2> QED BY <2>3, <2>4, <2>7, <2>8, <2>9 DEF PortInv
<1> QED BY <1>3, <1>4

(* What the release of a port does.                                        *)
LEMMA PortReleased ==
  ASSUME SipType, PortInv, NEW x \in Pair, pc[x] \in Reserving, pc'[x] \notin Reserving,
         \A y \in Pair \ {x} : pc'[y] = pc[y],
         Sip003!ReleasePort(x)
  PROVE  /\ port' \in [Pair -> Ports \cup {None}]
         /\ Sip003!StartsHaveOwnPort' /\ Sip003!NoReservationLeaks'
<1>1. reserved' = reserved \ {port[x]} /\ port' = [port EXCEPT ![x] = None]
  BY DEF Sip003!ReleasePort
<1>2. /\ port' \in [Pair -> Ports \cup {None}]
      /\ \A y \in Pair \ {x} : port'[y] = port[y]
  BY <1>1 DEF SipType
<1>3. /\ Sip003!Reserves(x) /\ ~Sip003!Reserves(x)'
      /\ \A y \in Pair \ {x} : Sip003!Reserves(y)' <=> Sip003!Reserves(y)
  BY DEF Sip003!Reserves, Reserving
<1>4. Sip003!StartsHaveOwnPort'
  BY <1>2, <1>3 DEF PortInv, Sip003!StartsHaveOwnPort
<1>5. Sip003!NoReservationLeaks'
  <2>1. \A y \in Pair \ {x} : Sip003!Reserves(y) => port[y] # port[x]
    BY <1>3 DEF PortInv, Sip003!StartsHaveOwnPort
  <2>2. \A q : q \in reserved <=> \E y \in Pair : Sip003!Reserves(y) /\ port[y] = q
    BY DEF PortInv, Sip003!NoReservationLeaks
  <2>3. \A q : q \in reserved' <=> \E y \in Pair : Sip003!Reserves(y)' /\ port'[y] = q
    BY <1>1, <1>2, <1>3, <2>1, <2>2
  <2> QED BY <2>3 DEF Sip003!NoReservationLeaks
<1> QED BY <1>2, <1>4, <1>5

(* Spawning a child on the reserved port, in a place nobody refers to.     *)
LEMMA SipSpawns ==
  ASSUME PoolsAssumption, SipInv, NEW x \in Pair, Sip003!Spawn(x)
  PROVE  SipInv'
<1> USE DEF SipInv
<1>1. pc[x] = "spawn" /\ proc[x] = None
  BY DEF Sip003!Spawn, PortInv, ProcHeld, WithProcess
<1>2. \E c \in Children : ~Sip003!Referenced(c)
  <2>1. \E c \in Children : (\A y \in Pair : proc[y] # c) /\ (\A k \in Keys : pool[k] # c)
    <3>1. proc \in [Pair -> Children \cup {None}] /\ pool \in [Keys -> Children \cup {None}]
      BY DEF SipType
    <3> QED BY <1>1, <3>1, EnoughIds, FreeId
  <2> QED BY <2>1 DEF Sip003!Referenced, Sip003!HeldByCall
<1>3. PICK c \in Children :
        /\ ~Sip003!Referenced(c)
        /\ child' = [child EXCEPT ![c] = [state |-> "starting", port |-> port[x], idle |-> FALSE]]
        /\ proc' = [proc EXCEPT ![x] = c]
  <2>1. PICK c : c = CHOOSE d \in Children : ~Sip003!Referenced(d)
    OBVIOUS
  <2>2. c \in Children /\ ~Sip003!Referenced(c)
    BY <1>2, <2>1
  <2> QED BY <2>1, <2>2 DEF Sip003!Spawn
<1>4. /\ pc' = [pc EXCEPT ![x] = "probe"]
      /\ UNCHANGED <<pool, reserved, locks, holder, arc, key, port, attempt, starts>>
  BY DEF Sip003!Spawn, Sip003!Goto, Sip003!lockVars
<1>5. /\ pc'[x] = "probe" /\ proc'[x] = c
      /\ \A y \in Pair \ {x} : pc'[y] = pc[y] /\ proc'[y] = proc[y]
  BY <1>3, <1>4 DEF SipType
<1>6. child' \in [Children -> Process]
  <2>1. [state |-> "starting", port |-> port[x], idle |-> FALSE] \in Process
    BY DEF Process, SipType
  <2> QED BY <1>3, <2>1, ChildBecomes
<1>7. c # None
  BY EnoughIds
<1>8. SipType'
  BY <1>3, <1>4, <1>6 DEF SipType
<1>9. LockInv'
  BY <1>1, <1>4, <1>5, LockKept DEF StartLabels, WithArc, LockInv, NothingPooled
<1>10. PortInv'
  BY <1>1, <1>4, <1>5, <1>7, PortKept DEF Reserving, WithProcess
<1> QED BY <1>8, <1>9, <1>10

(* The three ways a reservation ends.                                      *)
LEMMA SipReleases ==
  ASSUME PoolsAssumption, SipInv, NEW x \in Pair,
         Sip003!SpawnFails(x) \/ Sip003!ProbeAccepted(x) \/ Sip003!ProbeGivesUp(x)
  PROVE  SipInv'
<1> USE DEF SipInv
<1>1. PICK to \in {"err", "insert", "discard"} :
        /\ pc[x] \in Reserving /\ (to = "err" <=> pc[x] = "spawn")
        /\ pc' = [pc EXCEPT ![x] = to]
        /\ IF to = "err" THEN Sip003!Unlock(x) ELSE UNCHANGED <<holder, arc>>
        /\ Sip003!ReleasePort(x)
        /\ UNCHANGED <<pool, child, locks, key, proc, attempt, starts>>
  BY DEF Sip003!SpawnFails, Sip003!ProbeAccepted, Sip003!ProbeGivesUp, Sip003!Goto,
     Sip003!lockVars, Reserving
<1>2. pc'[x] = to /\ \A y \in Pair \ {x} : pc'[y] = pc[y]
  BY <1>1 DEF SipType
<1>3. /\ port' \in [Pair -> Ports \cup {None}]
      /\ Sip003!StartsHaveOwnPort' /\ Sip003!NoReservationLeaks'
  BY <1>1, <1>2, PortReleased DEF Reserving
<1>4. arc' \in [Pair -> Locks \cup {None}] /\ holder' \in [Locks -> Pair \cup {None}]
  BY <1>1, UnlockType DEF StartLabels, Reserving, SipType
<1>5. SipType'
  BY <1>1, <1>3, <1>4 DEF SipType
<1>6. LockInv'
  <2>1. CASE to = "err"
    BY <1>1, <1>2, <2>1, LockReturned DEF StartLabels, WithArc, Reserving
  <2>2. CASE to # "err"
    BY <1>1, <1>2, <2>2, LockKept DEF StartLabels, WithArc, Reserving, LockInv, NothingPooled
  <2> QED BY <2>1, <2>2
<1>7. ProcHeld'
  BY <1>1, <1>2 DEF PortInv, ProcHeld, WithProcess, Reserving
<1> QED BY <1>3, <1>5, <1>6, <1>7 DEF PortInv

(* A start that has given up drops its child.                              *)
LEMMA SipDiscards ==
  ASSUME PoolsAssumption, SipInv, NEW x \in Pair, Sip003!Discard(x)
  PROVE  SipInv'
<1> USE DEF SipInv
<1>1. PICK to \in {"reserve", "err"} :
        /\ pc[x] = "discard" /\ pc' = [pc EXCEPT ![x] = to]
        /\ Sip003!DropUnreferenced
        /\ proc' = [proc EXCEPT ![x] = None]
        /\ to = "reserve" => UNCHANGED <<holder, arc>>
        /\ to = "err" => Sip003!Unlock(x)
        /\ starts' = [starts EXCEPT ![x] = @ + 1] \/ starts' = [starts EXCEPT ![x] = 0]
        /\ UNCHANGED <<pool, reserved, locks, key, port, attempt>>
  BY DEF Sip003!Discard, Sip003!Goto
<1>2. /\ pc'[x] = to /\ proc'[x] = None
      /\ \A y \in Pair \ {x} : pc'[y] = pc[y] /\ proc'[y] = proc[y]
  BY <1>1 DEF SipType
<1>3. arc' \in [Pair -> Locks \cup {None}] /\ holder' \in [Locks -> Pair \cup {None}]
  BY <1>1, UnlockType DEF StartLabels, SipType
<1>4. SipType'
  BY <1>1, <1>3, DropFacts DEF SipType
<1>5. LockInv'
  <2>1. CASE to = "reserve"
    BY <1>1, <1>2, <2>1, LockKept DEF StartLabels, WithArc, LockInv, NothingPooled
  <2>2. CASE to = "err"
    BY <1>1, <1>2, <2>2, LockReturned DEF StartLabels, WithArc
  <2> QED BY <2>1, <2>2
<1>6. PortInv'
  BY <1>1, <1>2, PortKept DEF Reserving, WithProcess
<1> QED BY <1>4, <1>5, <1>6

(* The children and the other programs.                                    *)
LEMMA SipWorld ==
  ASSUME PoolsAssumption, SipInv,
         \/ \E c \in Children : Sip003!Listens(c) \/ Sip003!Exits(c) \/ Sip003!GrowIdle(c)
         \/ \E p \in Ports : Sip003!Arrives(p) \/ Sip003!Leaves(p)
  PROVE  SipInv'
<1> USE DEF SipInv
<1>1. CASE \E c \in Children : Sip003!Listens(c) \/ Sip003!Exits(c) \/ Sip003!GrowIdle(c)
  <2>1. PICK c \in Children : Sip003!Listens(c) \/ Sip003!Exits(c) \/ Sip003!GrowIdle(c)
    BY <1>1
  <2>2. UNCHANGED <<pool, reserved, locks, holder, arc, pc, key, proc, port, attempt, starts>>
    BY <1>1 DEF Sip003!Listens, Sip003!Exits, Sip003!GrowIdle, Sip003!Becomes, Sip003!lockVars
  <2>3. PICK r \in Process : child' = [child EXCEPT ![c] = r]
    <3>1. child[c] \in Process
      BY DEF SipType
    <3>2. /\ \A st \in {"listening", "exited"} : [child[c] EXCEPT !.state = st] \in Process
          /\ [child[c] EXCEPT !.idle = TRUE] \in Process
      BY <3>1 DEF Process
    <3>3. \/ child' = [child EXCEPT ![c] = [child[c] EXCEPT !.state = "listening"]]
          \/ child' = [child EXCEPT ![c] = [child[c] EXCEPT !.state = "exited"]]
          \/ child' = [child EXCEPT ![c] = [child[c] EXCEPT !.idle = TRUE]]
      BY <2>1 DEF Sip003!Listens, Sip003!Exits, Sip003!GrowIdle, Sip003!Becomes
    <3> QED BY <3>2, <3>3
  <2>4. SipType'
    BY <2>2, <2>3, ChildBecomes DEF SipType
  <2>5. LockInv'
    BY <2>2 DEF LockInv, ArcIsOfKey, LocksDiffer, HolderStarts, NothingPooled
  <2>6. PortInv'
    BY <2>2 DEF PortInv, ProcHeld, Sip003!StartsHaveOwnPort, Sip003!NoReservationLeaks,
       Sip003!Reserves
  <2> QED BY <2>4, <2>5, <2>6
<1>2. CASE \E p \in Ports : Sip003!Arrives(p) \/ Sip003!Leaves(p)
  <2>1. UNCHANGED <<pool, child, reserved, locks, holder, arc, pc, key, proc, port,
                    attempt, starts>>
    BY <1>2 DEF Sip003!Arrives, Sip003!Leaves, Sip003!lockVars
  <2>2. SipType'
    BY <2>1 DEF SipType
  <2>3. LockInv'
    BY <2>1 DEF LockInv, ArcIsOfKey, LocksDiffer, HolderStarts, NothingPooled
  <2>4. PortInv'
    BY <2>1 DEF PortInv, ProcHeld, Sip003!StartsHaveOwnPort, Sip003!NoReservationLeaks,
       Sip003!Reserves
  <2> QED BY <2>2, <2>3, <2>4
<1> QED BY <1>1, <1>2

LEMMA SipStep == ASSUME PoolsAssumption, SipInv, Sip003!Next PROVE SipInv'
<1>1. CASE \E x \in Pair : Sip003!CallStep(x) \/ Sip003!Lock(x) \/ Sip003!Close(x)
  <2>1. PICK x \in Pair :
          \/ Sip003!Look(x) \/ Sip003!GetLock(x) \/ Sip003!Lock(x) \/ Sip003!Recheck(x)
          \/ Sip003!Bind(x) \/ Sip003!Unbind(x) \/ Sip003!Reserve(x)
          \/ Sip003!ReserveFails(x) \/ Sip003!Spawn(x) \/ Sip003!SpawnFails(x)
          \/ Sip003!ProbeAccepted(x) \/ Sip003!ProbeGivesUp(x) \/ Sip003!Discard(x)
          \/ Sip003!Insert(x) \/ Sip003!Connect(x) \/ Sip003!ConnectFails(x)
          \/ Sip003!Close(x)
    BY <1>1 DEF Sip003!CallStep
  <2> QED
    BY <2>1, SipLooks, SipLocks, SipRechecks, SipDraws, SipReserves, SipReserveFails,
       SipSpawns, SipReleases, SipDiscards, SipInserts, SipUses
<1> QED BY <1>1, SipWorld DEF Sip003!Next

LEMMA SipStart == ASSUME PoolsAssumption, Sip003!Init PROVE SipInv
<1>1. key \in [Pair -> Keys] /\ None \notin Children \cup Locks
  BY DEF Sip003!Init, PoolsAssumption, Sip003!Sip003Assumption
<1>2. SipType
  BY <1>1 DEF Sip003!Init, Sip003!Unborn, SipType, Process
<1>3. LockInv
  BY <1>1 DEF Sip003!Init, SipType, LockInv, ArcIsOfKey, LocksDiffer, HolderStarts,
     NothingPooled, WithArc, StartLabels
<1>4. PortInv
  BY DEF Sip003!Init, PortInv, ProcHeld, WithProcess, Sip003!Reserves,
     Sip003!StartsHaveOwnPort, Sip003!NoReservationLeaks
<1> QED BY <1>2, <1>3, <1>4 DEF SipInv

(* What the lock invariant says of the starts.                             *)
LEMMA SipStartsOnce ==
  ASSUME PoolsAssumption, SipInv
  PROVE  Sip003!OneStarterPerKey /\ Sip003!NewProcessIsPooled
<1>1. ASSUME NEW x \in Pair, NEW y \in Pair, pc[x] \in StartLabels, pc[y] \in StartLabels,
             key[x] = key[y]
      PROVE  x = y
  <2>1. arc[x] = arc[y]
    BY <1>1 DEF SipInv, LockInv, ArcIsOfKey, WithArc
  <2> QED BY <1>1, <2>1 DEF SipInv, LockInv, HolderStarts
<1>2. Sip003!OneStarterPerKey
  BY <1>1 DEF Sip003!OneStarterPerKey, Sip003!Starting, StartLabels
<1> QED BY <1>2 DEF Sip003!NewProcessIsPooled, SipInv, LockInv, NothingPooled, StartLabels

-----------------------------------------------------------------------------
(* XHTTP. *)
XmuxType ==
  /\ config \in Configs
  /\ opened \in 0 .. MaxClients
  /\ clients \subseteq 1 .. opened
  /\ open_usage \in [1 .. MaxClients -> Int]
  /\ left_usage \in [1 .. MaxClients -> Int]
  /\ pc = [x \in Calls |-> pc[x]]
  /\ client \in [Calls -> 0 .. opened]
  /\ download = [x \in Calls |-> download[x]]

(* A call has a client from get_client on, and a download task once the    *)
(* request is sent.                                                        *)
CallsOf ==
  \A x \in Calls :
    /\ pc[x] \in {"start", "connect"} => client[x] = 0
    /\ pc[x] \in {"use", "request", "open"} => client[x] # 0
    /\ pc[x] # "open" => download[x] = "off"
    /\ pc[x] = "open" => download[x] \in {"header", "body", "failed", "ended"}

(* The call that connects has the manager's mutex, and has found room.     *)
ConnectsLocked == \A x \in Calls : pc[x] = "connect" => lock = x

RoomFound ==
  config.max_concurrency = 0 /\ config.max_connections > 0 =>
    \A x \in Calls : pc[x] = "connect" => Cardinality(clients) < config.max_connections

(* What is left of a budget and what was handed out is all of it.          *)
Handed(c) == { x \in Calls : client[x] = c }

BudgetAddsUp ==
  config.c_max_reuse_times > 0 => \A c \in 1 .. opened :
    /\ left_usage[c] >= 0
    /\ Cardinality(Handed(c)) + left_usage[c] = config.c_max_reuse_times

(* open_usage counts the calls that have added to it and not yet taken     *)
(* away (Xmux!UsageIsAccounted, in the terms of this module).              *)
Users(c) == { x \in Calls : Xmux!HoldsUsage(x, c) \/ Xmux!Leaked(x, c) }

UsageCounts == \A c \in 1 .. MaxClients : open_usage[c] = Cardinality(Users(c))

(* The size of the pool (Xmux!PoolBounded, likewise).                      *)
Unlimited == config.max_concurrency = 0 /\ config.max_connections > 0

PoolFits == Unlimited => Cardinality(clients) <= config.max_connections

XmuxInv ==
  /\ XmuxType /\ CallsOf
  /\ ConnectsLocked /\ RoomFound /\ PoolFits
  /\ UsageCounts
  /\ BudgetAddsUp

LEMMA XmuxCounts ==
  \A S : (Xmux!IsFiniteSet(S) <=> IsFiniteSet(S)) /\ Xmux!Cardinality(S) = Cardinality(S)
BY DEF Xmux!IsFiniteSet, IsFiniteSet, Xmux!Cardinality, Cardinality

LEMMA XmuxFacts ==
  ASSUME PoolsAssumption, XmuxType
  PROVE  /\ MaxClients \in Nat /\ IsFiniteSet(Calls) /\ "none" \notin Calls
         /\ config.max_concurrency \in Nat /\ config.max_connections \in Nat
         /\ config.c_max_reuse_times \in Nat
         /\ opened \in Nat
         /\ IsFiniteSet(clients) /\ Cardinality(clients) \in Nat
<1>1. Xmux!XmuxAssumption
  BY DEF PoolsAssumption
<1>2. /\ MaxClients \in Nat /\ IsFiniteSet(Calls) /\ "none" \notin Calls
  BY <1>1, XmuxCounts DEF Xmux!XmuxAssumption
<1>3. config \in [max_concurrency : Nat, max_connections : Nat, c_max_reuse_times : Nat,
                  h_max_request_times : Nat, h_max_reusable_secs : Nat]
  BY <1>1 DEF Xmux!XmuxAssumption, XmuxType
<1>4. opened \in Nat
  BY <1>2 DEF XmuxType
<1>5. IsFiniteSet(clients)
  BY <1>4, FS_Interval, FS_Subset DEF XmuxType
<1> QED BY <1>2, <1>3, <1>4, <1>5, FS_CardinalityType

(* A set of calls is finite, and gains or loses one call at a time.        *)
LEMMA CallSets ==
  ASSUME PoolsAssumption, XmuxType, NEW S, S \subseteq Calls
  PROVE  /\ IsFiniteSet(S) /\ Cardinality(S) \in Nat
         /\ \A x : x \notin S => Cardinality(S \cup {x}) = Cardinality(S) + 1
         /\ \A x : x \in S => Cardinality(S \ {x}) = Cardinality(S) - 1
<1>1. IsFiniteSet(S)
  BY XmuxFacts, FS_Subset
<1> QED BY <1>1, FS_CardinalityType, FS_AddElement, FS_RemoveElement

(* Every set of natural numbers has a least one.                           *)
LEMMA LeastNumber ==
  ASSUME NEW T \in SUBSET Nat, T # {}
  PROVE  \E n \in T : \A m \in T : n <= m
<1> DEFINE R == OpToRel(<, Nat)
<1>1. IsWellFoundedOn(R, Nat)
  BY NatLessThanWellFounded
<1> HIDE DEF R
<1>2. PICK n \in T : \A m \in T : ~(<<m, n>> \in R)
  BY <1>1, WFMin
<1>3. \A m \in T : ~(m < n)
  BY <1>2 DEF R, OpToRel
<1> QED BY <1>3

(* There is a first among the least used candidates.                       *)
LEMMA LeastUsedFacts ==
  ASSUME PoolsAssumption, XmuxType, UsageCounts, NEW cs, cs \subseteq 1 .. opened,
         Xmux!Candidates(cs) # {}
  PROVE  Xmux!LeastUsed(cs) \in cs
<1> DEFINE K == Xmux!Candidates(cs)
           U == { open_usage[c] : c \in K }
<1>1. K \subseteq cs
  BY DEF Xmux!Candidates
<1>2. \A c \in K : c \in Nat /\ c \in 1 .. MaxClients
  BY <1>1, XmuxFacts DEF XmuxType
<1>3. \A c \in K : open_usage[c] \in Nat
  <2>1. \A c \in K : Users(c) \subseteq Calls
    BY DEF Users
  <2> QED BY <1>2, <2>1, CallSets DEF UsageCounts
<1> HIDE DEF K
<1>4. PICK u \in U : \A v \in U : u <= v
  <2>1. U \subseteq Nat /\ U # {}
    BY <1>3 DEF K
  <2> HIDE DEF U
  <2> QED BY <2>1, LeastNumber
<1>5. PICK c \in K : open_usage[c] = u /\ \A d \in K : open_usage[d] = u => c <= d
  <2> DEFINE T == { d \in K : open_usage[d] = u }
  <2>1. T \subseteq Nat /\ T # {}
    BY <1>2, <1>4
  <2>2. PICK c \in T : \A d \in T : c <= d
    <3> HIDE DEF T
    <3> QED BY <2>1, LeastNumber
  <2> QED BY <2>2
<1>6. \A d \in K \ {c} : \/ open_usage[c] < open_usage[d]
                         \/ open_usage[c] = open_usage[d] /\ c < d
  <2> SUFFICES ASSUME NEW d \in K \ {c}
               PROVE  \/ open_usage[c] < open_usage[d]
                      \/ open_usage[c] = open_usage[d] /\ c < d
    OBVIOUS
  <2>1. open_usage[c] <= open_usage[d] /\ open_usage[c] \in Nat /\ open_usage[d] \in Nat
    BY <1>3, <1>4, <1>5
  <2>2. open_usage[d] = open_usage[c] => c <= d /\ c # d /\ c \in Nat /\ d \in Nat
    BY <1>2, <1>5
  <2> QED BY <2>1, <2>2
<1>7. \E e \in K : \A d \in K \ {e} : \/ open_usage[e] < open_usage[d]
                                      \/ open_usage[e] = open_usage[d] /\ e < d
  BY <1>6
<1>8. Xmux!LeastUsed(cs) \in K
  BY <1>7 DEF Xmux!LeastUsed, K
<1> QED BY <1>1, <1>8

-----------------------------------------------------------------------------
(* The users of a client after a step of one call. *)

(* Nobody's part in the counting changes.                                  *)
LEMMA UsersKept ==
  ASSUME NEW x \in Calls, NEW c,
         \A y \in Calls \ {x} : /\ pc'[y] = pc[y] /\ client'[y] = client[y]
                                /\ download'[y] = download[y],
         (Xmux!HoldsUsage(x, c) \/ Xmux!Leaked(x, c))'
           <=> (Xmux!HoldsUsage(x, c) \/ Xmux!Leaked(x, c))
  PROVE  Users(c)' = Users(c)
<1>1. \A y \in Calls : (Xmux!HoldsUsage(y, c) \/ Xmux!Leaked(y, c))'
                         <=> (Xmux!HoldsUsage(y, c) \/ Xmux!Leaked(y, c))
  BY DEF Xmux!HoldsUsage, Xmux!Leaked
<1> QED BY <1>1 DEF Users

(* Call x starts to count, or ceases to, for the client it has.            *)
LEMMA UsersChange ==
  ASSUME NEW x \in Calls, client' = client,
         \A y \in Calls \ {x} : pc'[y] = pc[y] /\ download'[y] = download[y]
  PROVE  /\ \A c : c # client[x] => Users(c)' = Users(c)
         /\ pc'[x] = "request" =>
              \A c : c = client[x] => Users(c)' = Users(c) \cup {x}
         /\ pc'[x] \notin {"request", "err"} /\ download'[x] \notin {"header", "body", "failed"} =>
              \A c : c = client[x] => Users(c)' = Users(c) \ {x}
<1>1. \A c : \A y \in Calls \ {x} :
        (Xmux!HoldsUsage(y, c) \/ Xmux!Leaked(y, c))'
          <=> (Xmux!HoldsUsage(y, c) \/ Xmux!Leaked(y, c))
  BY DEF Xmux!HoldsUsage, Xmux!Leaked
<1>2. \A c : c # client[x] => ~(Xmux!HoldsUsage(x, c) \/ Xmux!Leaked(x, c))
                              /\ ~(Xmux!HoldsUsage(x, c) \/ Xmux!Leaked(x, c))'
  BY DEF Xmux!HoldsUsage, Xmux!Leaked
<1>3. ASSUME NEW c, c # client[x] PROVE Users(c)' = Users(c)
  BY <1>1, <1>2, <1>3 DEF Users
<1>4. ASSUME NEW c, c = client[x], pc'[x] = "request" PROVE Users(c)' = Users(c) \cup {x}
  <2>1. Xmux!HoldsUsage(x, c)'
    BY <1>4 DEF Xmux!HoldsUsage
  <2> QED BY <1>1, <2>1 DEF Users
<1>5. ASSUME NEW c, c = client[x],
             pc'[x] \notin {"request", "err"}, download'[x] \notin {"header", "body", "failed"}
      PROVE  Users(c)' = Users(c) \ {x}
  <2>1. ~(Xmux!HoldsUsage(x, c) \/ Xmux!Leaked(x, c))'
    BY <1>5 DEF Xmux!HoldsUsage, Xmux!Leaked
  <2> QED BY <1>1, <2>1 DEF Users
<1> QED BY <1>3, <1>4, <1>5

(* Only the one who connects has the mutex.                                *)
LEMMA OnlyOneConnects ==
  ASSUME PoolsAssumption, XmuxType, ConnectsLocked, NEW x \in Calls,
         lock = "none" \/ pc[x] = "connect"
  PROVE  \A y \in Calls \ {x} : pc[y] # "connect"
BY XmuxFacts DEF ConnectsLocked

(* get_client, when it has to connect.                                     *)
LEMMA GetsNone ==
  ASSUME PoolsAssumption, XmuxInv, NEW x \in Calls, Xmux!GetClient(x),
         \/ Xmux!Usable = {} \/ Xmux!should_open_more_connections(Xmux!Usable)
         \/ Xmux!Candidates(Xmux!Usable) = {}
  PROVE  XmuxInv'
<1> USE DEF XmuxInv
<1>1. /\ pc[x] = "start" /\ lock = "none" /\ clients' = Xmux!Usable /\ lock' = x
      /\ pc' = [pc EXCEPT ![x] = "connect"]
      /\ UNCHANGED <<config, opened, open_usage, left_usage, client, download>>
  BY DEF Xmux!GetClient, Xmux!Goto, Xmux!Free, Xmux!bridge
<1>2. pc'[x] = "connect" /\ \A y \in Calls \ {x} : pc'[y] = pc[y]
  BY <1>1 DEF XmuxType
<1>3. /\ clients' \subseteq clients /\ IsFiniteSet(clients')
      /\ Cardinality(clients') \in Nat /\ Cardinality(clients') <= Cardinality(clients)
  <2>1. clients' \subseteq clients
    BY <1>1 DEF Xmux!Usable
  <2> QED BY <2>1, XmuxFacts, FS_Subset, FS_CardinalityType
<1>4. XmuxType' /\ CallsOf'
  BY <1>1, <1>2, <1>3 DEF XmuxType, CallsOf
<1>5. ConnectsLocked'
  BY <1>1, <1>2, OnlyOneConnects DEF ConnectsLocked
<1>6. RoomFound' /\ PoolFits'
  <2>1. Unlimited => Cardinality(clients') < config.max_connections
    <3>1. CASE Xmux!Usable = {}
      BY <1>1, <3>1, XmuxFacts, FS_EmptySet DEF Unlimited
    <3>2. CASE Xmux!should_open_more_connections(Xmux!Usable)
      BY <1>1, <3>2, XmuxCounts DEF Xmux!should_open_more_connections
    <3>3. CASE Xmux!Candidates(Xmux!Usable) = {} /\ Unlimited
      <4>1. Xmux!Usable = {}
        BY <3>3 DEF Xmux!Candidates, Unlimited
      <4> QED BY <4>1, <3>1
    <3> QED BY <3>1, <3>2, <3>3
  <2>2. PoolFits'
    BY <1>1, <1>3, <2>1, XmuxFacts DEF PoolFits, Unlimited
  <2> QED BY <1>1, <2>1, <2>2 DEF RoomFound, Unlimited
<1>7. UsageCounts'
  <2>1. ASSUME NEW c \in 1 .. MaxClients PROVE Users(c)' = Users(c)
    BY <1>1, <1>2, UsersKept DEF Xmux!HoldsUsage, Xmux!Leaked, CallsOf
  <2> QED BY <1>1, <2>1 DEF UsageCounts
<1>8. BudgetAddsUp'
  BY <1>1 DEF BudgetAddsUp, Handed
<1> QED BY <1>4, <1>5, <1>6, <1>7, <1>8

(* get_client, when there is one to hand out.                              *)
LEMMA GetsOne ==
  ASSUME PoolsAssumption, XmuxInv, NEW x \in Calls, Xmux!GetClient(x),
         ~(\/ Xmux!Usable = {} \/ Xmux!should_open_more_connections(Xmux!Usable)
           \/ Xmux!Candidates(Xmux!Usable) = {})
  PROVE  XmuxInv'
<1> USE DEF XmuxInv
<1>1. PICK c : /\ c = Xmux!LeastUsed(Xmux!Usable)
               /\ Xmux!consume_connection_reuse(c)
               /\ client' = [client EXCEPT ![x] = c]
               /\ pc[x] = "start" /\ lock = "none" /\ clients' = Xmux!Usable /\ lock' = lock
               /\ pc' = [pc EXCEPT ![x] = "use"]
               /\ UNCHANGED <<config, opened, open_usage, download>>
  BY DEF Xmux!GetClient, Xmux!Goto, Xmux!Free, Xmux!bridge
<1>2. Xmux!Usable \subseteq clients
  BY DEF Xmux!Usable
<1>3. c \in Xmux!Usable
  <2>1. Xmux!Usable \subseteq 1 .. opened
    BY <1>2 DEF XmuxType
  <2> QED BY <1>1, <2>1, LeastUsedFacts
<1>4. c \in 1 .. opened /\ c \in 1 .. MaxClients /\ left_usage[c] # 0
  BY <1>2, <1>3, XmuxFacts DEF XmuxType, Xmux!Usable, Xmux!is_usable
<1>5. /\ IsFiniteSet(clients') /\ clients' \subseteq clients
      /\ Cardinality(clients') \in Nat /\ Cardinality(clients') <= Cardinality(clients)
  BY <1>1, <1>2, XmuxFacts, FS_Subset, FS_CardinalityType
<1>6. /\ pc'[x] = "use" /\ client[x] = 0 /\ client'[x] = c /\ download[x] = "off"
      /\ \A y \in Calls \ {x} : pc'[y] = pc[y] /\ client'[y] = client[y]
  BY <1>1 DEF XmuxType, CallsOf
<1>7. /\ left_usage' \in [1 .. MaxClients -> Int]
      /\ left_usage'[c] = IF left_usage[c] > 0 THEN left_usage[c] - 1 ELSE left_usage[c]
      /\ \A d \in 1 .. MaxClients : d # c => left_usage'[d] = left_usage[d]
  BY <1>1, <1>4 DEF XmuxType, Xmux!consume_connection_reuse
<1>8. XmuxType'
  <2>1. clients' \subseteq 1 .. opened
    BY <1>5 DEF XmuxType
  <2>2. client' \in [Calls -> 0 .. opened]
    BY <1>1, <1>4 DEF XmuxType
  <2>3. pc' = [y \in Calls |-> pc'[y]]
    BY <1>1 DEF XmuxType
  <2> QED BY <1>1, <1>7, <2>1, <2>2, <2>3 DEF XmuxType
<1>9. CallsOf'
  BY <1>1, <1>4, <1>6 DEF CallsOf
<1>10. ConnectsLocked' /\ RoomFound' /\ PoolFits'
  <2>1. \A y \in Calls : pc'[y] # "connect"
    BY <1>1, <1>6, OnlyOneConnects
  <2> QED
    BY <1>1, <1>5, <2>1, XmuxFacts DEF ConnectsLocked, RoomFound, PoolFits, Unlimited
<1>11. UsageCounts'
  <2>1. ASSUME NEW d \in 1 .. MaxClients PROVE Users(d)' = Users(d)
    BY <1>1, <1>6, UsersKept DEF Xmux!HoldsUsage, Xmux!Leaked
  <2> QED BY <1>1, <2>1 DEF UsageCounts
<1>12. BudgetAddsUp'
  <2>1. SUFFICES ASSUME config.c_max_reuse_times > 0, NEW d \in 1 .. opened
                 PROVE  /\ left_usage'[d] >= 0
                        /\ Cardinality(Handed(d)') + left_usage'[d] = config.c_max_reuse_times
    BY <1>1 DEF BudgetAddsUp
  <2>2. /\ left_usage[d] >= 0 /\ left_usage[d] \in Int
        /\ Cardinality(Handed(d)) + left_usage[d] = config.c_max_reuse_times
        /\ d \in 1 .. MaxClients /\ d # 0
    BY <2>1, XmuxFacts DEF BudgetAddsUp, XmuxType
  <2>3. CASE d = c
    <3>1. Handed(d)' = Handed(d) \cup {x} /\ x \notin Handed(d)
      BY <1>6, <2>2, <2>3 DEF Handed
    <3>2. Cardinality(Handed(d)') = Cardinality(Handed(d)) + 1 /\ Cardinality(Handed(d)) \in Nat
      BY <3>1, CallSets DEF Handed
    <3> QED BY <1>4, <1>7, <2>2, <2>3, <3>2
  <2>4. CASE d # c
    <3>1. Handed(d)' = Handed(d)
      BY <1>6, <2>2, <2>4 DEF Handed
    <3> QED BY <1>7, <2>2, <2>4, <3>1
  <2> QED BY <2>3, <2>4
<1> QED BY <1>8, <1>9, <1>10, <1>11, <1>12

(* new_client: a fresh connection, handed to its maker.                    *)
LEMMA Connects ==
  ASSUME PoolsAssumption, XmuxInv, NEW x \in Calls, Xmux!Connect(x)
  PROVE  XmuxInv'
<1> USE DEF XmuxInv
<1>1. PICK c : c = opened + 1
  OBVIOUS
<1>2. /\ pc[x] = "connect" /\ opened < MaxClients /\ opened' = c
      /\ clients' = clients \cup {c} /\ client' = [client EXCEPT ![x] = c]
      /\ left_usage' = [left_usage EXCEPT ![c] = config.c_max_reuse_times - 1]
      /\ lock' = "none" /\ pc' = [pc EXCEPT ![x] = "use"]
      /\ UNCHANGED <<config, open_usage, download>>
  BY <1>1 DEF Xmux!Connect, Xmux!Goto, Xmux!Free, Xmux!bridge
<1>3. /\ c \in 1 .. MaxClients /\ c \notin 0 .. opened /\ 0 .. opened \subseteq 0 .. c
      /\ 1 .. c = (1 .. opened) \cup {c} /\ c \in Nat
  BY <1>1, <1>2, XmuxFacts
<1>4. /\ pc'[x] = "use" /\ client[x] = 0 /\ client'[x] = c /\ download[x] = "off"
      /\ \A y \in Calls \ {x} : pc'[y] = pc[y] /\ client'[y] = client[y]
  BY <1>2 DEF XmuxType, CallsOf
<1>5. /\ left_usage' \in [1 .. MaxClients -> Int]
      /\ left_usage'[c] = config.c_max_reuse_times - 1
      /\ \A d \in 1 .. MaxClients : d # c => left_usage'[d] = left_usage[d]
  BY <1>2, <1>3, XmuxFacts DEF XmuxType
<1>6. XmuxType'
  <2>1. client' \in [Calls -> 0 .. c] /\ clients' \subseteq 1 .. c /\ c \in 0 .. MaxClients
    BY <1>2, <1>3 DEF XmuxType
  <2> QED BY <1>2, <1>5, <2>1 DEF XmuxType
<1>7. CallsOf'
  BY <1>2, <1>3, <1>4 DEF CallsOf
<1>8. \A y \in Calls : pc'[y] # "connect"
  BY <1>2, <1>4, OnlyOneConnects
<1>9. PoolFits'
  <2>1. /\ IsFiniteSet(clients) /\ Cardinality(clients) \in Nat
        /\ Cardinality(clients') <= Cardinality(clients) + 1
    <3>1. IsFiniteSet(clients) /\ Cardinality(clients) \in Nat
      BY XmuxFacts
    <3>2. Cardinality(clients') = IF c \in clients THEN Cardinality(clients)
                                                   ELSE Cardinality(clients) + 1
      BY <1>2, <3>1, FS_AddElement
    <3> QED BY <3>1, <3>2
  <2>2. Cardinality(clients') \in Nat
    BY <1>2, <2>1, FS_AddElement, FS_CardinalityType
  <2>3. Unlimited => Cardinality(clients) < config.max_connections
    BY <1>2 DEF RoomFound, Unlimited
  <2> QED BY <1>2, <2>1, <2>2, <2>3, XmuxFacts DEF PoolFits, Unlimited
<1>10. ConnectsLocked' /\ RoomFound'
  BY <1>8 DEF ConnectsLocked, RoomFound
<1>11. UsageCounts'
  <2>1. ASSUME NEW d \in 1 .. MaxClients PROVE Users(d)' = Users(d)
    BY <1>2, <1>4, UsersKept DEF Xmux!HoldsUsage, Xmux!Leaked
  <2> QED BY <1>2, <2>1 DEF UsageCounts
<1>12. BudgetAddsUp'
  <2>1. SUFFICES ASSUME config.c_max_reuse_times > 0, NEW d \in (1 .. opened) \cup {c}
                 PROVE  /\ left_usage'[d] >= 0
                        /\ Cardinality(Handed(d)') + left_usage'[d] = config.c_max_reuse_times
    BY <1>2, <1>3 DEF BudgetAddsUp
  <2>2. CASE d = c
    <3>1. Handed(d)' = {x}
      BY <1>3, <1>4, <2>2 DEF Handed, XmuxType
    <3>2. Cardinality(Handed(d)') = 1
      BY <3>1, FS_Singleton
    <3>3. left_usage'[d] = config.c_max_reuse_times - 1 /\ config.c_max_reuse_times \in Nat
      BY <1>5, <2>2, XmuxFacts
    <3> QED BY <2>1, <3>2, <3>3
  <2>3. CASE d # c
    <3>1. d \in 1 .. opened /\ d # 0 /\ d \in 1 .. MaxClients
      BY <1>3, <2>3, XmuxFacts DEF XmuxType
    <3>2. Handed(d)' = Handed(d)
      BY <1>4, <2>3, <3>1 DEF Handed
    <3> QED BY <1>5, <2>1, <2>3, <3>1, <3>2 DEF BudgetAddsUp
  <2> QED BY <2>2, <2>3
<1> QED BY <1>6, <1>7, <1>9, <1>10, <1>11, <1>12

(* A step of one call that leaves the pool and the budgets alone.          *)
LEMMA XmuxKept ==
  ASSUME PoolsAssumption, XmuxInv, NEW x \in Calls, CallsOf', UsageCounts',
         UNCHANGED <<config, opened, clients, left_usage, client>>,
         open_usage' \in [1 .. MaxClients -> Int],
         pc' = [y \in Calls |-> pc'[y]], download' = [y \in Calls |-> download'[y]],
         lock' = lock \/ pc[x] = "connect",
         pc'[x] # "connect", \A y \in Calls \ {x} : pc'[y] = pc[y]
  PROVE  XmuxInv'
<1> USE DEF XmuxInv
<1>1. XmuxType'
  BY DEF XmuxType
<1>2. ConnectsLocked'
  BY OnlyOneConnects DEF ConnectsLocked
<1>3. RoomFound' /\ PoolFits' /\ BudgetAddsUp'
  BY DEF RoomFound, PoolFits, Unlimited, BudgetAddsUp, Handed
<1> QED BY <1>1, <1>2, <1>3

(* Steps that move nothing between a client and its calls.                 *)
LEMMA KeepsUsage ==
  ASSUME PoolsAssumption, XmuxInv, NEW x \in Calls,
         \/ Xmux!ConnectFails(x) \/ Xmux!Request(x) \/ Xmux!RequestFails(x)
         \/ Xmux!Upload(x) \/ Xmux!UploadEnds(x) \/ Xmux!Respond(x) \/ Xmux!RespondFails(x)
  PROVE  XmuxInv'
<1> USE DEF XmuxInv
<1>1. UNCHANGED <<config, opened, clients, left_usage, client, open_usage>>
  BY DEF Xmux!ConnectFails, Xmux!Request, Xmux!RequestFails, Xmux!Upload, Xmux!UploadEnds,
     Xmux!Respond, Xmux!RespondFails, Xmux!counters
<1>2. /\ lock' = lock \/ pc[x] = "connect"
      /\ \/ /\ pc[x] = "connect" /\ pc' = [pc EXCEPT ![x] = "err"] /\ download' = download
         \/ /\ pc[x] = "request" /\ pc' = [pc EXCEPT ![x] = "open"]
            /\ download' = [download EXCEPT ![x] = "header"]
         \/ /\ pc[x] = "request" /\ pc' = [pc EXCEPT ![x] = "err"] /\ download' = download
         \/ /\ pc' = pc /\ download' = download /\ lock' = lock
         \/ /\ pc' = pc /\ download[x] = "header"
            /\ \/ download' = [download EXCEPT ![x] = "body"]
               \/ download' = [download EXCEPT ![x] = "failed"]
  BY DEF Xmux!ConnectFails, Xmux!Request, Xmux!RequestFails, Xmux!Upload, Xmux!UploadEnds,
     Xmux!Respond, Xmux!RespondFails, Xmux!counters, Xmux!bridge, Xmux!Goto
<1>3. /\ pc' = [y \in Calls |-> pc'[y]] /\ download' = [y \in Calls |-> download'[y]]
      /\ \A y \in Calls \ {x} : pc'[y] = pc[y] /\ download'[y] = download[y]
  BY <1>2 DEF XmuxType
<1>4. /\ \/ pc[x] = "connect" /\ pc'[x] = "err" /\ download'[x] = download[x]
         \/ pc[x] = "request" /\ pc'[x] = "open" /\ download'[x] = "header"
         \/ pc[x] = "request" /\ pc'[x] = "err" /\ download'[x] = download[x]
         \/ pc'[x] = pc[x] /\ download'[x] = download[x] /\ lock' = lock
         \/ pc'[x] = pc[x] /\ download[x] = "header" /\ download'[x] \in {"body", "failed"}
  BY <1>2 DEF XmuxType
<1>5. CallsOf'
  BY <1>1, <1>3, <1>4 DEF CallsOf
<1>6. UsageCounts'
  <2>1. ASSUME NEW c \in 1 .. MaxClients PROVE Users(c)' = Users(c)
    BY <1>1, <1>3, <1>4, UsersKept DEF CallsOf, Xmux!HoldsUsage, Xmux!Leaked
  <2> QED BY <1>1, <2>1 DEF UsageCounts
<1>7. CASE pc'[x] # "connect"
  BY <1>1, <1>2, <1>3, <1>5, <1>6, <1>7, XmuxKept DEF XmuxType
<1>8. CASE pc'[x] = "connect"
  <2>1. pc' = pc /\ lock' = lock
    BY <1>2, <1>3, <1>4, <1>8 DEF XmuxType, CallsOf
  <2>2. XmuxType' /\ ConnectsLocked' /\ RoomFound' /\ PoolFits' /\ BudgetAddsUp'
    BY <1>1, <1>3, <2>1 DEF XmuxType, ConnectsLocked, RoomFound, PoolFits, Unlimited,
       BudgetAddsUp, Handed
  <2> QED BY <1>5, <1>6, <2>2
<1> QED BY <1>7, <1>8

(* fetch_add and fetch_sub.                                                *)
LEMMA MovesUsage ==
  ASSUME PoolsAssumption, XmuxInv, NEW x \in Calls, Xmux!Use(x) \/ Xmux!BodyEnds(x)
  PROVE  XmuxInv'
<1> USE DEF XmuxInv
<1>1. PICK c \in 1 .. MaxClients : c = client[x]
  <2>1. client[x] # 0
    BY DEF Xmux!Use, Xmux!BodyEnds, CallsOf
  <2> QED BY <2>1, XmuxFacts DEF XmuxType
<1>2. UNCHANGED <<config, opened, clients, left_usage, client, lock>>
  BY DEF Xmux!Use, Xmux!BodyEnds
<1>3. CASE Xmux!Use(x)
  <2>1. /\ pc[x] = "use" /\ open_usage' = [open_usage EXCEPT ![c] = @ + 1]
        /\ pc' = [pc EXCEPT ![x] = "request"] /\ download' = download
    BY <1>1, <1>3 DEF Xmux!Use, Xmux!Goto, Xmux!bridge
  <2>2. /\ pc'[x] = "request" /\ \A y \in Calls \ {x} : pc'[y] = pc[y]
        /\ open_usage'[c] = open_usage[c] + 1
        /\ \A d \in 1 .. MaxClients : d # c => open_usage'[d] = open_usage[d]
    BY <2>1 DEF XmuxType
  <2>3. CallsOf'
    BY <1>2, <2>1, <2>2 DEF CallsOf
  <2>4. /\ Users(c)' = Users(c) \cup {x}
        /\ \A d : d # c => Users(d)' = Users(d)
    BY <1>1, <1>2, <2>1, <2>2, UsersChange
  <2>5. x \notin Users(c)
    BY <2>1 DEF Users, Xmux!HoldsUsage, Xmux!Leaked, CallsOf
  <2>6. Cardinality(Users(c)') = Cardinality(Users(c)) + 1
    BY <2>4, <2>5, CallSets DEF Users
  <2>7. UsageCounts'
    BY <2>2, <2>4, <2>6 DEF UsageCounts
  <2>8. open_usage' \in [1 .. MaxClients -> Int]
    <3>1. open_usage \in [1 .. MaxClients -> Int]
      BY DEF XmuxType
    <3>2. open_usage[c] + 1 \in Int
      BY <3>1
    <3> QED BY <2>1, <3>1, <3>2
  <2>9. pc' = [y \in Calls |-> pc'[y]] /\ download' = [y \in Calls |-> download'[y]]
    BY <2>1 DEF XmuxType
  <2> QED BY <1>2, <2>2, <2>3, <2>7, <2>8, <2>9, XmuxKept
<1>4. CASE Xmux!BodyEnds(x)
  <2>1. /\ download[x] = "body" /\ open_usage' = [open_usage EXCEPT ![c] = @ - 1]
        /\ download' = [download EXCEPT ![x] = "ended"] /\ pc' = pc
    BY <1>1, <1>4 DEF Xmux!BodyEnds
  <2>2. /\ pc[x] = "open" /\ download'[x] = "ended"
        /\ \A y \in Calls \ {x} : download'[y] = download[y]
        /\ open_usage'[c] = open_usage[c] - 1
        /\ \A d \in 1 .. MaxClients : d # c => open_usage'[d] = open_usage[d]
    BY <2>1 DEF XmuxType, CallsOf
  <2>3. CallsOf'
    BY <1>2, <2>1, <2>2 DEF CallsOf
  <2>4. /\ Users(c)' = Users(c) \ {x}
        /\ \A d : d # c => Users(d)' = Users(d)
    BY <1>1, <1>2, <2>1, <2>2, UsersChange
  <2>5. x \in Users(c)
    BY <1>1, <2>1 DEF Users, Xmux!HoldsUsage
  <2>6. Cardinality(Users(c)') = Cardinality(Users(c)) - 1
    BY <2>4, <2>5, CallSets DEF Users
  <2>7. UsageCounts'
    BY <2>2, <2>4, <2>6 DEF UsageCounts
  <2>8. open_usage' \in [1 .. MaxClients -> Int]
    <3>1. open_usage \in [1 .. MaxClients -> Int]
      BY DEF XmuxType
    <3>2. open_usage[c] - 1 \in Int
      BY <3>1
    <3> QED BY <2>1, <3>1, <3>2
  <2>9. pc' = [y \in Calls |-> pc'[y]] /\ download' = [y \in Calls |-> download'[y]]
    BY <2>1 DEF XmuxType
  <2> QED BY <1>2, <2>1, <2>2, <2>3, <2>7, <2>8, <2>9, XmuxKept
<1> QED BY <1>3, <1>4

LEMMA XmuxStep == ASSUME PoolsAssumption, XmuxInv, Xmux!Next PROVE XmuxInv'
<1>1. CASE \E x \in Calls : Xmux!CallStep(x) \/ Xmux!BridgeStep(x)
  <2>1. PICK x \in Calls : Xmux!CallStep(x) \/ Xmux!BridgeStep(x)
    BY <1>1
  <2> QED
    BY <2>1, GetsNone, GetsOne, Connects, KeepsUsage, MovesUsage
    DEF Xmux!CallStep, Xmux!Proceeds, Xmux!BridgeStep
<1>2. CASE \E c \in Xmux!Clients : Xmux!ConnectionEnds(c) \/ Xmux!Expire(c)
  <2>1. UNCHANGED <<config, lock, clients, opened, open_usage, left_usage, pc, client, download>>
    BY <1>2 DEF Xmux!ConnectionEnds, Xmux!Expire, Xmux!counters, Xmux!bridge
  <2> QED
    BY <2>1 DEF XmuxInv, XmuxType, CallsOf, ConnectsLocked, RoomFound, PoolFits, Unlimited,
       UsageCounts, Users, Xmux!HoldsUsage, Xmux!Leaked, BudgetAddsUp, Handed
<1> QED BY <1>1, <1>2 DEF Xmux!Next

LEMMA XmuxStart == ASSUME PoolsAssumption, Xmux!Init PROVE XmuxInv
<1>1. XmuxType
  BY XmuxCounts DEF Xmux!Init, Xmux!Clients, Xmux!NoClient, PoolsAssumption,
     Xmux!XmuxAssumption, XmuxType
<1>2. CallsOf /\ ConnectsLocked /\ RoomFound
  BY DEF Xmux!Init, Xmux!NoClient, CallsOf, ConnectsLocked, RoomFound
<1>3. PoolFits
  BY <1>1, XmuxFacts, FS_EmptySet DEF Xmux!Init, PoolFits, Unlimited
<1>4. UsageCounts
  <2>1. ASSUME NEW c \in 1 .. MaxClients PROVE open_usage[c] = 0 /\ Users(c) = {}
    BY DEF Xmux!Init, Xmux!Clients, Xmux!NoClient, Users, Xmux!HoldsUsage, Xmux!Leaked
  <2> QED BY <2>1, FS_EmptySet DEF UsageCounts
<1>5. BudgetAddsUp
  BY DEF Xmux!Init, BudgetAddsUp
<1> QED BY <1>1, <1>2, <1>3, <1>4, <1>5 DEF XmuxInv

(* The properties of XmuxPool, in its own terms.                           *)
LEMMA XmuxProperties ==
  ASSUME PoolsAssumption, XmuxInv
  PROVE  Xmux!UsageIsAccounted /\ Xmux!PoolBounded /\ Xmux!ReuseBudgetKept
<1> USE DEF XmuxInv
<1>1. Xmux!UsageIsAccounted
  BY XmuxCounts DEF UsageCounts, Users, Xmux!UsageIsAccounted, Xmux!Clients
<1>2. Xmux!PoolBounded
  BY XmuxCounts DEF PoolFits, Unlimited, Xmux!PoolBounded
<1>3. Xmux!ReuseBudgetKept
  <2> SUFFICES ASSUME config.c_max_reuse_times > 0, NEW c \in 1 .. MaxClients
               PROVE  Cardinality(Handed(c)) <= config.c_max_reuse_times
    BY XmuxCounts DEF Xmux!ReuseBudgetKept, Xmux!Clients, Handed
  <2>1. CASE c \in 1 .. opened
    <3>1. /\ left_usage[c] \in Int /\ left_usage[c] >= 0
          /\ Cardinality(Handed(c)) + left_usage[c] = config.c_max_reuse_times
      BY <2>1 DEF BudgetAddsUp, XmuxType
    <3>2. Cardinality(Handed(c)) \in Nat
      BY CallSets DEF Handed
    <3> QED BY <3>1, <3>2
  <2>2. CASE c \notin 1 .. opened
    <3>1. Handed(c) = {}
      <4>1. c \notin 0 .. opened
        BY <2>2, XmuxFacts
      <4> QED BY <4>1 DEF Handed, XmuxType
    <3> QED BY <3>1, FS_EmptySet, XmuxFacts
  <2> QED BY <2>1, <2>2
<1> QED BY <1>1, <1>2, <1>3

-----------------------------------------------------------------------------
(* The pool in use. *)
Inv ==
  /\ of \in {"xmux", "sip003", "kcptun", "hy2"}
  /\ of = "xmux" => XmuxInv
  /\ of = "sip003" => SipInv
  /\ of = "kcptun" => KcpInv
  /\ of = "hy2" => Hy2Inv

LEMMA Starts == PoolsAssumption /\ Init => Inv
BY XmuxStart, SipStart, KcpStart, Hy2Start DEF Init, Inv

LEMMA Stutters == Inv /\ UNCHANGED vars => Inv'
<1> SUFFICES ASSUME Inv, UNCHANGED vars PROVE Inv'
  OBVIOUS
<1>1. /\ UNCHANGED <<of, pc, client, pool, lock, closed, expired, made, failed>>
      /\ UNCHANGED <<config, clients, opened, open_usage, left_usage, download>>
      /\ UNCHANGED <<child, foreign, reserved, locks, holder, key, arc, proc, port,
                     attempt, starts>>
      /\ UNCHANGED <<slot, rr, scavenge_due, idx, session>>
  BY DEF vars, xmuxOnly, sip003Only, kcptunOnly
<1>2. XmuxInv => XmuxInv'
  BY <1>1 DEF XmuxInv, XmuxType, CallsOf, ConnectsLocked, RoomFound, PoolFits, Unlimited,
     UsageCounts, Users, Xmux!HoldsUsage, Xmux!Leaked, BudgetAddsUp, Handed
<1>3. SipInv => SipInv'
  <2>1. SipType => SipType'
    BY <1>1 DEF SipType
  <2>2. LockInv => LockInv'
    BY <1>1 DEF LockInv, ArcIsOfKey, LocksDiffer, HolderStarts, NothingPooled
  <2>3. PortInv => PortInv'
    BY <1>1 DEF PortInv, ProcHeld, Sip003!StartsHaveOwnPort, Sip003!NoReservationLeaks,
       Sip003!Reserves
  <2> QED BY <2>1, <2>2, <2>3 DEF SipInv
<1>4. KcpInv => KcpInv'
  BY <1>1 DEF KcpInv, KcpType, CreatorLocks, NothingToReuse, StoresSession, Creating,
     Kcptun!reusable, Kcptun!NoSession
<1>5. Hy2Inv => Hy2Inv'
  BY <1>1 DEF Hy2Inv, Hy2Type, Hy2!PoolWithinSize, MineIsFresh, FailedStaysOut, InPool,
     Hy2!RetryUsesAnotherClient
<1> QED BY <1>1, <1>2, <1>3, <1>4, <1>5 DEF Inv

LEMMA Steps == PoolsAssumption /\ Inv /\ [Next]_vars => Inv'
<1> SUFFICES ASSUME PoolsAssumption, Inv, [Next]_vars PROVE Inv'
  OBVIOUS
<1>1. CASE OfXmux /\ Xmux!Next
  BY <1>1, XmuxStep DEF Inv, OfXmux
<1>2. CASE OfSip003 /\ Sip003!Next
  BY <1>2, SipStep DEF Inv, OfSip003
<1>3. CASE OfKcptun /\ Kcptun!Next
  BY <1>3, KcpStep DEF Inv, OfKcptun
<1>4. CASE OfHy2 /\ Hy2!Next
  BY <1>4, Hy2Step DEF Inv, OfHy2
<1>5. CASE UNCHANGED vars
  BY <1>5, Stutters
<1> QED BY <1>1, <1>2, <1>3, <1>4, <1>5 DEF Next

LEMMA Always == Spec => []Inv
<1>1. Init => Inv
  BY PoolsAssumption, Starts
<1>2. Inv /\ [Next]_vars => Inv'
  BY PoolsAssumption, Steps
<1> QED BY <1>1, <1>2, PTL DEF Spec

(* XHTTP's open_usage is exactly the running bridges and what the two      *)
(* failure paths leak, for any number of calls and connections.            *)
THEOREM UsageIsAccountedAlways == Spec => []UsageIsAccounted
<1>1. Inv => UsageIsAccounted
  BY PoolsAssumption, XmuxProperties DEF Inv, UsageIsAccounted
<1> QED BY <1>1, Always, PTL

(* get_client never opens beyond max_connections nor hands a connection    *)
(* out beyond c_max_reuse_times, for any configuration; Hysteria2's pool   *)
(* keeps HY2_CLIENT_POOL_SIZE.                                             *)
THEOREM PoolBoundedAlways == Spec => []PoolBounded
<1>1. Inv => PoolBounded
  BY PoolsAssumption, XmuxProperties DEF Inv, Hy2Inv, PoolBounded
<1> QED BY <1>1, Always, PTL

(* One start per plugin key at a time, whose process the pool takes, for   *)
(* any number of calls and keys.                                           *)
THEOREM StartedOnceAlways == Spec => []StartedOnce
<1>1. Inv => StartedOnce
  BY PoolsAssumption, SipStartsOnce DEF Inv, StartedOnce
<1> QED BY <1>1, Always, PTL

(* No two starts have the same port reserved, for any number of ports and  *)
(* of names the system gives out twice.                                    *)
THEOREM StartsHaveOwnPortAlways == Spec => []StartsHaveOwnPort
<1>1. Inv => StartsHaveOwnPort
  BY DEF Inv, SipInv, PortInv, StartsHaveOwnPort
<1> QED BY <1>1, Always, PTL

(* The reserved ports are those of the starts under way.                   *)
THEOREM NoReservationLeaksAlways == Spec => []NoReservationLeaks
<1>1. Inv => NoReservationLeaks
  BY DEF Inv, SipInv, PortInv, NoReservationLeaks
<1> QED BY <1>1, Always, PTL

(* The retry of a Hysteria2 call never has the client that failed it.      *)
THEOREM RetryUsesAnotherClientAlways == Spec => []RetryUsesAnotherClient
<1>1. Inv => RetryUsesAnotherClient
  BY DEF Inv, Hy2Inv, RetryUsesAnotherClient
<1> QED BY <1>1, Always, PTL

(* A kcptun slot with a session that can be reused is filled anew only by  *)
(* scavenge or by a retry: the lock and the second look keep the others    *)
(* from it.                                                                *)
THEOREM UsableReplacedOnlyByRetryAlways == Spec => UsableReplacedOnlyByRetry
<1>1. Inv /\ [Next]_vars => [of = "kcptun" => Kcptun!ReplacesOnlyForRetry]_vars
  <2> SUFFICES ASSUME Inv, Next, of = "kcptun" PROVE Kcptun!ReplacesOnlyForRetry
    OBVIOUS
  <2>1. KcpInv /\ Kcptun!Next
    BY DEF Inv, Next, OfXmux, OfSip003, OfKcptun, OfHy2
  <2> QED BY <2>1, PoolsAssumption, KcpReplaces
<1> QED BY <1>1, Always, PTL DEF Spec, UsableReplacedOnlyByRetry
=============================================================================
