------------------------------ MODULE XmuxPool ------------------------------
(***************************************************************************)
(* The HTTP/2 connection pool of the VLESS XHTTP packet-up transport       *)
(* (vless.rs): a manager per server configuration, under a tokio Mutex     *)
(* that a call keeps while it connects, hands out an XHttpH2XmuxClient;    *)
(* the client's counters are atomics, which the calls and the two tasks    *)
(* of each bridge move after the lock is released.                         *)
(*                                                                         *)
(* The manager of one key is modelled; managers share nothing.  Its vector *)
(* is a set here: connections are numbered in the order of their making,   *)
(* each is pushed at the end when it is made, and retain keeps the order.  *)
(***************************************************************************)
EXTENDS Integers, FiniteSets

CONSTANTS Calls,       (* calls of connect_h2_xhttp_packet_up_pooled        *)
          Configs,     (* the values of XHttpXmuxConfig to consider         *)
          MaxClients,  (* bound: connections the model lets the pool open   *)
          MaxPosts     (* bound: uploads of each bridge                     *)

XmuxAssumption ==
  /\ MaxClients \in Nat /\ MaxPosts \in Nat
  /\ Configs \subseteq [max_concurrency : Nat, max_connections : Nat,
                        c_max_reuse_times : Nat, h_max_request_times : Nat,
                        h_max_reusable_secs : Nat]
  /\ IsFiniteSet(Calls) /\ "none" \notin Calls

Clients == 1 .. MaxClients
NoClient == 0
Free == "none"

VARIABLES config,        (* XHttpXmuxConfig, where 0 means no limit         *)
          lock,          (* who holds the manager's mutex                   *)
          clients,       (* manager.clients                                 *)
          opened,        (* connections opened so far                       *)
          open_usage, left_usage, left_requests, expired, closed,
          pc, client,    (* the calls, and the client each was handed       *)
          upload, download, posts     (* the two tasks of each bridge       *)

counters == <<open_usage, left_usage, left_requests>>
conns == <<expired, closed>>
bridge == <<upload, download, posts>>
vars == <<config, lock, clients, opened, counters, conns, pc, client, bridge>>

Init ==
  /\ config \in Configs
  /\ lock = Free
  /\ clients = {}
  /\ opened = 0
  /\ open_usage = [c \in Clients |-> 0]
  /\ left_usage = [c \in Clients |-> 0]
  /\ left_requests = [c \in Clients |-> 0]
  /\ expired = [c \in Clients |-> FALSE]
  /\ closed = [c \in Clients |-> FALSE]
  /\ pc = [x \in Calls |-> "start"]
  /\ client = [x \in Calls |-> NoClient]
  /\ upload = [x \in Calls |-> "off"]
  /\ download = [x \in Calls |-> "off"]
  /\ posts = [x \in Calls |-> 0]

Goto(x, label) == pc' = [pc EXCEPT ![x] = label]

-----------------------------------------------------------------------------
(* left_requests starts at i32::MAX when it is not limited; no run of the  *)
(* program uses that up, and here it is not counted down.                  *)
Unlimited == config.h_max_request_times = 0

is_usable(c) ==
  /\ ~closed[c]
  /\ left_usage[c] # 0
  /\ Unlimited \/ left_requests[c] > 0
  /\ ~expired[c]

Usable == { c \in clients : is_usable(c) }

(* Mutant of should_open_more_connections: one too many. *)
OpensOneMore(cs) ==
  config.max_connections > 0 /\ Cardinality(cs) <= config.max_connections

should_open_more_connections(cs) ==
  config.max_connections > 0 /\ Cardinality(cs) < config.max_connections

(* The candidates of reusable_client, and the first of the least used.     *)
Candidates(cs) ==
  { c \in cs : config.max_concurrency = 0 \/ open_usage[c] < config.max_concurrency }

LeastUsed(cs) ==
  CHOOSE c \in Candidates(cs) : \A d \in Candidates(cs) \ {c} :
    \/ open_usage[c] < open_usage[d]
    \/ open_usage[c] = open_usage[d] /\ c < d

consume_connection_reuse(c) ==
  left_usage' = [left_usage EXCEPT ![c] = IF @ > 0 THEN @ - 1 ELSE @]

(***************************************************************************)
(* The manager's mutex, then get_client: clients that can no longer be     *)
(* used leave the list; a connection is opened (with the mutex held) when  *)
(* there is none, when max_connections asks for more, or when every client *)
(* is at max_concurrency; else the least used one is handed out.           *)
(***************************************************************************)
GetClient(x) ==
  LET cs == Usable IN
  /\ pc[x] = "start" /\ lock = Free
  /\ clients' = cs
  /\ IF cs = {} \/ should_open_more_connections(cs) \/ Candidates(cs) = {}
     THEN /\ lock' = x
          /\ Goto(x, "connect")
          /\ UNCHANGED <<client, left_usage>>
     ELSE LET c == LeastUsed(cs) IN
          /\ consume_connection_reuse(c)
          /\ client' = [client EXCEPT ![x] = c]
          /\ Goto(x, "use")
          /\ UNCHANGED lock
  /\ UNCHANGED <<config, opened, open_usage, left_requests, conns, bridge>>

(* new_client: a fresh client has one use taken from its reuse budget, by  *)
(* its maker, and none from open_usage, which the maker adds later.        *)
Connect(x) ==
  LET c == opened + 1 IN
  /\ pc[x] = "connect" /\ opened < MaxClients
  /\ opened' = c
  /\ clients' = clients \cup {c}
  /\ left_usage' = [left_usage EXCEPT ![c] = config.c_max_reuse_times - 1]
  /\ left_requests' = [left_requests EXCEPT ![c] = config.h_max_request_times]
  /\ client' = [client EXCEPT ![x] = c]
  /\ lock' = Free
  /\ Goto(x, "use")
  /\ UNCHANGED <<config, open_usage, conns, bridge>>

(* Mutant of ConnectFails: the mutex is not released. *)
ConnectFailsLocked(x) ==
  /\ pc[x] = "connect"
  /\ Goto(x, "err")
  /\ UNCHANGED <<config, lock, clients, opened, counters, conns, client, bridge>>

(* TCP, TLS or the HTTP/2 handshake fails. *)
ConnectFails(x) ==
  /\ pc[x] = "connect"
  /\ lock' = Free
  /\ Goto(x, "err")
  /\ UNCHANGED <<config, clients, opened, counters, conns, client, bridge>>

-----------------------------------------------------------------------------
(* open_usage.fetch_add, after the mutex has been released: the calls that *)
(* are between the two do not see each other.                              *)
Use(x) ==
  /\ pc[x] = "use"
  /\ open_usage' = [open_usage EXCEPT ![client[x]] = @ + 1]
  /\ Goto(x, "request")
  /\ UNCHANGED <<config, lock, clients, opened, left_usage, left_requests, conns,
                 client, bridge>>

SpendRequest(x) ==
  left_requests' = IF Unlimited THEN left_requests
                   ELSE [left_requests EXCEPT ![client[x]] = @ - 1]

(* The download request is sent; the bridge's two tasks start. *)
Request(x) ==
  /\ pc[x] = "request"
  /\ SpendRequest(x)
  /\ upload' = [upload EXCEPT ![x] = "reading"]
  /\ download' = [download EXCEPT ![x] = "header"]
  /\ Goto(x, "open")
  /\ UNCHANGED <<config, lock, clients, opened, open_usage, left_usage, conns,
                 client, posts>>

(* send_request fails: the early return leaves open_usage as it is.        *)
RequestFails(x) ==
  /\ pc[x] = "request"
  /\ Goto(x, "err")
  /\ UNCHANGED <<config, lock, clients, opened, counters, conns, client, bridge>>

(* The upload task: one request per read, whatever the budget says; a post *)
(* that fails is dropped without a word to the stream.                     *)
Upload(x) ==
  /\ upload[x] = "reading" /\ posts[x] < MaxPosts
  /\ posts' = [posts EXCEPT ![x] = @ + 1]
  /\ SpendRequest(x)
  /\ UNCHANGED <<config, lock, clients, opened, open_usage, left_usage, conns,
                 pc, client, upload, download>>

(* Mutant of UploadEnds: this task gives the usage back, too. *)
UploadEndsCounted(x) ==
  /\ upload[x] = "reading"
  /\ upload' = [upload EXCEPT ![x] = "ended"]
  /\ open_usage' = [open_usage EXCEPT ![client[x]] = @ - 1]
  /\ UNCHANGED <<config, lock, clients, opened, left_usage, left_requests, conns, pc,
                 client, download, posts>>

(* The relay closed its side, or the read failed. *)
UploadEnds(x) ==
  /\ upload[x] = "reading"
  /\ upload' = [upload EXCEPT ![x] = "ended"]
  /\ UNCHANGED <<config, lock, clients, opened, counters, conns, pc, client,
                 download, posts>>

(* The download task: the response arrives ... *)
Respond(x) ==
  /\ download[x] = "header"
  /\ download' = [download EXCEPT ![x] = "body"]
  /\ UNCHANGED <<config, lock, clients, opened, counters, conns, pc, client,
                 upload, posts>>

(* ... or does not: the task returns without giving its usage back.        *)
RespondFails(x) ==
  /\ download[x] = "header"
  /\ download' = [download EXCEPT ![x] = "failed"]
  /\ UNCHANGED <<config, lock, clients, opened, counters, conns, pc, client,
                 upload, posts>>

(* The body ends, with an error or not, or the relay is gone. *)
BodyEnds(x) ==
  /\ download[x] = "body"
  /\ download' = [download EXCEPT ![x] = "ended"]
  /\ open_usage' = [open_usage EXCEPT ![client[x]] = @ - 1]
  /\ UNCHANGED <<config, lock, clients, opened, left_usage, left_requests, conns, pc,
                 client, upload, posts>>

(* The connection's task ends and stores closed. *)
ConnectionEnds(c) ==
  /\ c <= opened /\ ~closed[c]
  /\ closed' = [closed EXCEPT ![c] = TRUE]
  /\ UNCHANGED <<config, lock, clients, opened, counters, expired, pc, client, bridge>>

(* reusable_until passes. *)
Expire(c) ==
  /\ config.h_max_reusable_secs > 0
  /\ c <= opened /\ ~expired[c]
  /\ expired' = [expired EXCEPT ![c] = TRUE]
  /\ UNCHANGED <<config, lock, clients, opened, counters, closed, pc, client, bridge>>

-----------------------------------------------------------------------------
(* What needs nobody but the scheduler, once the mutex is free. *)
Proceeds(x) == GetClient(x) \/ Use(x) \/ Request(x) \/ RequestFails(x)

CallStep(x) == Proceeds(x) \/ Connect(x) \/ ConnectFails(x)

BridgeStep(x) ==
  Upload(x) \/ UploadEnds(x) \/ Respond(x) \/ RespondFails(x) \/ BodyEnds(x)

Next ==
  \/ \E x \in Calls : CallStep(x) \/ BridgeStep(x)
  \/ \E c \in Clients : ConnectionEnds(c) \/ Expire(c)

-----------------------------------------------------------------------------
HoldsUsage(x, c) ==
  client[x] = c /\ (pc[x] = "request" \/ download[x] \in {"header", "body"})

(* A call that ended badly after fetch_add and never gave its usage back.  *)
Leaked(x, c) == client[x] = c /\ (pc[x] = "err" \/ download[x] = "failed")

(* open_usage is the number of bridges on the connection plus what the two *)
(* failure paths leak, whatever the order in which calls and tasks of      *)
(* several bridges move it: it never falls below the bridges that run.     *)
UsageIsAccounted ==
  \A c \in Clients :
    open_usage[c] = Cardinality({ x \in Calls : HoldsUsage(x, c) \/ Leaked(x, c) })

(* With c_max_reuse_times set, a connection is never handed to more calls  *)
(* than that, its maker included.                                          *)
ReuseBudgetKept ==
  config.c_max_reuse_times > 0 =>
    \A c \in Clients :
      Cardinality({ x \in Calls : client[x] = c }) <= config.c_max_reuse_times

(* Without a limit on concurrency, max_connections bounds the pool: calls  *)
(* that find the mutex taken do not each add a connection when they get    *)
(* it.  (With a limit, a full pool grows beyond max_connections.)          *)
PoolBounded ==
  config.max_concurrency = 0 /\ config.max_connections > 0 =>
    Cardinality(clients) <= config.max_connections
=============================================================================
