------------------------------ MODULE Hy2Pool -------------------------------
(***************************************************************************)
(* The client pool of the Hysteria2 adapter (hysteria2.rs): HY2_CLIENTS    *)
(* maps a configuration to a vector of reconnectable clients, handed out   *)
(* in turn.  Every access locks a std::sync::Mutex and is one step; a call *)
(* looks, makes a client without the lock, and looks again.                *)
(*                                                                         *)
(* The entry of one configuration is modelled; what a client does on the   *)
(* wire is the vendored library's: a connect succeeds, fails with an error *)
(* of the session, or fails otherwise.                                     *)
(***************************************************************************)
EXTENDS Naturals, Sequences, SequencesExt

CONSTANTS TcpCalls, UdpCalls,  (* calls of connect and of send_udp          *)
          PoolSize,            (* HY2_CLIENT_POOL_SIZE, 4 in the code       *)
          MaxClients,          (* bound: clients the model lets calls make  *)
          MaxNext              (* bound of the counter, which wraps at 2^64 *)

Hy2Assumption ==
  /\ TcpCalls \cap UdpCalls = {}
  /\ PoolSize \in Nat \ {0}
  /\ MaxClients \in Nat /\ MaxNext \in Nat

Users == TcpCalls \cup UdpCalls
Clients == 1 .. MaxClients
NoClient == 0
NoPool == [clients |-> <<>>, next |-> 0]

VARIABLES pool,     (* the map entry; one without clients is no entry        *)
          made,     (* clients made so far                                  *)
          pc, client, failed    (* the calls: client in hand, client that   *)
                                (* failed with a session error              *)

vars == <<pool, made, pc, client, failed>>

Init ==
  /\ pool = NoPool
  /\ made = 0
  /\ pc = [x \in Users |-> "look"]
  /\ client = [x \in Users |-> NoClient]
  /\ failed = [x \in Users |-> NoClient]

Goto(x, label) == pc' = [pc EXCEPT ![x] = label]

(* next_client: the clients of the pool in turn. *)
next_client == pool.clients[(pool.next % Len(pool.clients)) + 1]

TakeNext(x) ==
  /\ pool.next < MaxNext
  /\ client' = [client EXCEPT ![x] = next_client]
  /\ pool' = [pool EXCEPT !.next = @ + 1]

(* cached_client. *)
Look(x) ==
  /\ pc[x] = "look"
  /\ IF pool.clients # <<>>
     THEN TakeNext(x) /\ Goto(x, "use")
     ELSE Goto(x, "make") /\ UNCHANGED <<pool, client>>
  /\ UNCHANGED <<made, failed>>

(* ReconnectableClient::new, without the lock; it connects on first use. *)
Make(x) ==
  /\ pc[x] = "make" /\ made < MaxClients
  /\ made' = made + 1
  /\ client' = [client EXCEPT ![x] = made + 1]
  /\ Goto(x, "add")
  /\ UNCHANGED <<pool, failed>>

(* The second look: the new client joins a pool with room; otherwise it is *)
(* dropped for one of the pool's.                                          *)
Add(x) ==
  /\ pc[x] = "add"
  /\ IF Len(pool.clients) < PoolSize
     THEN /\ pool' = [pool EXCEPT !.clients = Append(@, client[x])]
          /\ UNCHANGED client
     ELSE TakeNext(x)
  /\ Goto(x, "use")
  /\ UNCHANGED <<made, failed>>

Returns(x, result) ==
  /\ Goto(x, result)
  /\ client' = [client EXCEPT ![x] = NoClient]
  /\ failed' = [failed EXCEPT ![x] = NoClient]
  /\ UNCHANGED <<pool, made>>

(* tcp_connect or udp_exchange ends well, or badly for good: a UDP call,   *)
(* a second TCP attempt, or an error that is not of the session.           *)
Use(x) == pc[x] = "use" /\ (Returns(x, "ok") \/ Returns(x, "err"))

(* The first TCP attempt fails with is_session_level_error. *)
SessionError(x) ==
  /\ pc[x] = "use" /\ x \in TcpCalls /\ failed[x] = NoClient
  /\ failed' = [failed EXCEPT ![x] = client[x]]
  /\ client' = [client EXCEPT ![x] = NoClient]
  /\ Goto(x, "remove")
  /\ UNCHANGED <<pool, made>>

(* Mutant of Evict: the pool is left as it is. *)
EvictNone(x) ==
  /\ pc[x] = "remove"
  /\ Goto(x, "look")
  /\ UNCHANGED <<pool, made, client, failed>>

(* remove_cached_client: the whole entry goes, whatever it holds by now. *)
Evict(x) ==
  /\ pc[x] = "remove"
  /\ pool' = NoPool
  /\ Goto(x, "look")
  /\ UNCHANGED <<made, client, failed>>

Next ==
  \E x \in Users : Look(x) \/ Make(x) \/ Add(x) \/ Use(x) \/ SessionError(x) \/ Evict(x)

-----------------------------------------------------------------------------
(* Calls that made their clients side by side do not fill the pool beyond  *)
(* its size, and no client stands in it twice.                             *)
PoolWithinSize ==
  Len(pool.clients) <= PoolSize /\ IsInjective(pool.clients)

(* The one retry of a TCP call never meets the client that failed, also    *)
(* when other calls add and remove clients between its two attempts.       *)
RetryUsesAnotherClient ==
  \A x \in Users : failed[x] # NoClient /\ client[x] # NoClient => client[x] # failed[x]
=============================================================================
