----------------------------- MODULE AnyTlsPool -----------------------------
(***************************************************************************)
(* AnyTLS clients and their idle sessions (adapter/anytls.rs): connect     *)
(* calls with one configuration find or make an AnyTlsClient through the   *)
(* global CLIENTS map, take an idle session of it or create one, and give  *)
(* the session back when their stream is dropped.                          *)
(*                                                                         *)
(* CLIENTS and the streams only hold Weak references: a client is alive    *)
(* while a call inside client.open_stream or client.send_uot, or a task    *)
(* releasing a session, holds an Arc.  An idle deque dies with its client. *)
(*                                                                         *)
(* A call is a TCP connect, or a send_uot that opened a connection of its  *)
(* own (what UDP calls share is the matter of AnyTlsUdp): it keeps the     *)
(* client until it returns, and its stream until the reader task ends.     *)
(***************************************************************************)
EXTENDS Naturals, Sequences, FiniteSets

CONSTANTS Calls,        (* calls of connect with the same cache_key         *)
          MaxClients,   (* bound: clients the model lets the calls make     *)
          MaxSessions,  (* bound: sessions the server lets them open        *)
          MinIdle       (* min_idle_sessions                                *)

ASSUME PoolAssumption ==
  MaxClients \in Nat /\ MaxSessions \in Nat /\ MinIdle \in Nat

Clients == 1 .. MaxClients
Sessions == 1 .. MaxSessions
None == 0

VARIABLES registry,   (* the CLIENTS entry of the key: a client or None     *)
          clients,    (* number of clients made                             *)
          idle,       (* AnyTlsClient.idle: [session, expired] records      *)
          sessions,   (* number of sessions created                         *)
          closed,     (* AnyTlsSession.closed                               *)
          pc,         (* where each call is                                 *)
          client,     (* the client a call holds (its stream: weakly)       *)
          session,    (* the session a call or its stream holds             *)
          releasing   (* <<client, session>> of the spawned release tasks   *)

vars == <<registry, clients, idle, sessions, closed, pc, client, session, releasing>>

Holding == {"cleanup", "take", "create", "syn", "send"}

Init ==
  /\ registry = None
  /\ clients = 0
  /\ idle = [c \in Clients |-> <<>>]
  /\ sessions = 0
  /\ closed = [s \in Sessions |-> FALSE]
  /\ pc = [x \in Calls |-> "start"]
  /\ client = [x \in Calls |-> None]
  /\ session = [x \in Calls |-> None]
  /\ releasing = {}

Goto(x, label) == pc' = [pc EXCEPT ![x] = label]

(* The call returns, or its stream is dropped. *)
Return(x, result) ==
  /\ Goto(x, result)
  /\ client' = [client EXCEPT ![x] = None]
  /\ session' = [session EXCEPT ![x] = None]

(* Weak::upgrade succeeds: strong_count > 0.  A dead client stays dead, as *)
(* every Arc is cloned from another.                                       *)
Alive(c) ==
  \/ \E x \in Calls : client[x] = c /\ pc[x] \in Holding
  \/ \E r \in releasing : r[1] = c

-----------------------------------------------------------------------------
(* client_for, under the CLIENTS lock: the live client, or the dead        *)
(* entries are dropped and the call goes on to resolve the server.         *)
Lookup(x) ==
  /\ pc[x] = "start"
  /\ IF registry # None /\ Alive(registry)
     THEN client' = [client EXCEPT ![x] = registry] /\ Goto(x, "cleanup")
          /\ UNCHANGED registry
     ELSE registry' = None /\ Goto(x, "resolve") /\ UNCHANGED client
  /\ UNCHANGED <<clients, idle, sessions, closed, session, releasing>>

(* The server's address is known: the new client replaces whatever another *)
(* call has registered while this one was resolving.                       *)
MakeClient(x) ==
  /\ pc[x] = "resolve"
  /\ clients < MaxClients
  /\ clients' = clients + 1
  /\ registry' = clients'
  /\ client' = [client EXCEPT ![x] = clients']
  /\ Goto(x, "cleanup")
  /\ UNCHANGED <<idle, sessions, closed, session, releasing>>

ResolveFails(x) ==
  /\ pc[x] = "resolve"
  /\ Return(x, "err")
  /\ UNCHANGED <<registry, clients, idle, sessions, closed, releasing>>

(* cleanup_idle: the entries kept of a prefix of the deque.                *)
Kept(queue) ==
  LET keep[n \in 0 .. Len(queue)] ==
        IF n = 0 THEN <<>>
        ELSE LET e == queue[n] IN
             IF closed[e.session] \/ (e.expired /\ Len(keep[n - 1]) >= MinIdle)
             THEN keep[n - 1] ELSE Append(keep[n - 1], e)
  IN  keep[Len(queue)]

Pooled(c) == { idle[c][i].session : i \in DOMAIN idle[c] }

(* Mutant of CleanupIdle: min_idle_sessions is not looked at. *)
CleanupAllExpired(x) ==
  LET c == client[x]
      kept == SelectSeq(idle[c], LAMBDA e : ~closed[e.session] /\ ~e.expired) IN
  /\ pc[x] = "cleanup"
  /\ idle' = [idle EXCEPT ![c] = kept]
  /\ closed' = [s \in Sessions |-> closed[s] \/
       (s \in Pooled(c) /\ \A i \in DOMAIN kept : kept[i].session # s)]
  /\ Goto(x, "take")
  /\ UNCHANGED <<registry, clients, sessions, client, session, releasing>>

CleanupIdle(x) ==
  LET c == client[x]
      kept == Kept(idle[c]) IN
  /\ pc[x] = "cleanup"
  /\ idle' = [idle EXCEPT ![c] = kept]
  /\ closed' = [s \in Sessions |-> closed[s] \/
       (s \in Pooled(c) /\ \A i \in DOMAIN kept : kept[i].session # s)]
  /\ Goto(x, "take")
  /\ UNCHANGED <<registry, clients, sessions, client, session, releasing>>

(* Mutant of TakeIdle: the entry is cloned and stays in the deque. *)
TakeLeavesEntry(x) ==
  LET c == client[x]
      open == { i \in DOMAIN idle[c] : ~closed[idle[c][i].session] } IN
  /\ pc[x] = "take"
  /\ IF open = {}
     THEN Goto(x, "create") /\ UNCHANGED session
     ELSE LET i == CHOOSE i \in open : \A j \in open : j <= i IN
          /\ session' = [session EXCEPT ![x] = idle[c][i].session]
          /\ Goto(x, "syn")
  /\ UNCHANGED <<registry, clients, idle, sessions, closed, client, releasing>>

(* take_idle pops from the back, the most recently released first, until   *)
(* one is not closed.                                                      *)
TakeIdle(x) ==
  LET c == client[x]
      open == { i \in DOMAIN idle[c] : ~closed[idle[c][i].session] } IN
  /\ pc[x] = "take"
  /\ IF open = {}
     THEN /\ idle' = [idle EXCEPT ![c] = <<>>]
          /\ Goto(x, "create")
          /\ UNCHANGED session
     ELSE LET i == CHOOSE i \in open : \A j \in open : j <= i IN
          /\ idle' = [idle EXCEPT ![c] = SubSeq(@, 1, i - 1)]
          /\ session' = [session EXCEPT ![x] = idle[c][i].session]
          /\ Goto(x, "syn")
  /\ UNCHANGED <<registry, clients, sessions, closed, client, releasing>>

(* create_session: connect, handshake, authentication and settings queued. *)
CreateSession(x) ==
  /\ pc[x] = "create"
  /\ sessions < MaxSessions
  /\ sessions' = sessions + 1
  /\ session' = [session EXCEPT ![x] = sessions']
  /\ Goto(x, "syn")
  /\ UNCHANGED <<registry, clients, idle, closed, client, releasing>>

CreateFails(x) ==
  /\ pc[x] = "create"
  /\ Return(x, "err")
  /\ UNCHANGED <<registry, clients, idle, sessions, closed, releasing>>

(* AnyTlsSession::open_stream; open_stream(self: Arc<Self>) returns.  A    *)
(* TCP call's Arc of the client is gone then, and its stream has a Weak.   *)
OpenStream(x) ==
  /\ pc[x] = "syn"
  /\ IF closed[session[x]]
     THEN Return(x, "err")
     ELSE /\ Goto(x, "stream") \/ Goto(x, "send")
          /\ UNCHANGED <<client, session>>
  /\ UNCHANGED <<registry, clients, idle, sessions, closed, releasing>>

(* send_uot(self: Arc<Self>) returns. *)
SendReturns(x) ==
  /\ pc[x] = "send"
  /\ Goto(x, "stream")
  /\ UNCHANGED <<registry, clients, idle, sessions, closed, client, session, releasing>>

(* impl Drop for AnyTlsStream: a task to release the session is spawned if *)
(* the client is still alive.                                              *)
DropStream(x) ==
  /\ pc[x] = "stream"
  /\ releasing' = IF Alive(client[x])
                  THEN releasing \cup {<<client[x], session[x]>>} ELSE releasing
  /\ Return(x, "done")
  /\ UNCHANGED <<registry, clients, idle, sessions, closed>>

(* Mutant of Release: the session goes to the front. *)
ReleaseToFront(c, s) ==
  /\ <<c, s>> \in releasing
  /\ releasing' = releasing \ {<<c, s>>}
  /\ idle' = IF closed[s] THEN idle
             ELSE [idle EXCEPT ![c] = <<[session |-> s, expired |-> FALSE]>> \o @]
  /\ UNCHANGED <<registry, clients, sessions, closed, pc, client, session>>

(* release. *)
Release(c, s) ==
  /\ <<c, s>> \in releasing
  /\ releasing' = releasing \ {<<c, s>>}
  /\ idle' = IF closed[s] THEN idle
             ELSE [idle EXCEPT ![c] = Append(@, [session |-> s, expired |-> FALSE])]
  /\ UNCHANGED <<registry, clients, sessions, closed, pc, client, session>>

(* The server or the network ends a session somebody holds. *)
SessionCloses(s) ==
  /\ ~closed[s]
  /\ \/ \E x \in Calls : session[x] = s
     \/ \E r \in releasing : r[2] = s
     \/ \E c \in Clients : Alive(c) /\ s \in Pooled(c)
  /\ closed' = [closed EXCEPT ![s] = TRUE]
  /\ UNCHANGED <<registry, clients, idle, sessions, pc, client, session, releasing>>

(* idle_session_timeout passes for the oldest entry that is not expired.   *)
Expire(c, i) ==
  /\ Alive(c)
  /\ ~idle[c][i].expired
  /\ \A j \in 1 .. (i - 1) : idle[c][j].expired
  /\ idle' = [idle EXCEPT ![c][i].expired = TRUE]
  /\ UNCHANGED <<registry, clients, sessions, closed, pc, client, session, releasing>>

Next ==
  \/ \E x \in Calls :
       \/ Lookup(x) \/ MakeClient(x) \/ ResolveFails(x)
       \/ CleanupIdle(x) \/ TakeIdle(x) \/ CreateSession(x) \/ CreateFails(x)
       \/ OpenStream(x) \/ SendReturns(x) \/ DropStream(x)
  \/ \E c \in Clients, s \in Sessions : Release(c, s)
  \/ \E s \in Sessions : SessionCloses(s)
  \/ \E c \in Clients : \E i \in DOMAIN idle[c] : Expire(c, i)

Spec == Init /\ [][Next]_vars
-----------------------------------------------------------------------------
(* A session never serves two: it is with one call or stream, or with one  *)
(* release task, or in one place of one idle deque.                        *)
ExclusiveSession ==
  \A s \in Sessions :
    Cardinality({ x \in Calls : session[x] = s })
      + Cardinality({ r \in releasing : r[2] = s })
      + Cardinality({ p \in Clients \X (1 .. MaxSessions) :
                        p[2] \in DOMAIN idle[p[1]] /\ idle[p[1]][p[2]].session = s }) <= 1

(* The oldest entries come first, so those that have expired are a prefix  *)
(* and take_idle offers one of them only if nothing younger is open.       *)
OldestFirst ==
  \A c \in Clients : \A i, j \in DOMAIN idle[c] :
    i < j /\ idle[c][j].expired => idle[c][i].expired

(* cleanup_idle closes an open session only if it has expired and at least *)
(* min_idle_sessions others are kept.                                      *)
ClosesOnlySurplus ==
  [][\A c \in Clients : \A i \in DOMAIN idle[c] :
       LET s == idle[c][i].session
           pooled == { idle'[c][j].session : j \in DOMAIN idle'[c] }
       IN  ~closed[s] /\ closed'[s] /\ s \notin pooled =>
             idle[c][i].expired /\ Cardinality(pooled) >= MinIdle]_vars

(***************************************************************************)
(* Session pooling, as README.md and docs/protocol-support.md announce it: *)
(* an open session nobody uses any more is kept for the calls to come.     *)
(***************************************************************************)
UnusedSessionPooled ==
  \A s \in 1 .. sessions :
    \/ closed[s]
    \/ \E x \in Calls : session[x] = s
    \/ \E r \in releasing : r[2] = s
    \/ \E c \in Clients : Alive(c) /\ s \in Pooled(c)
=============================================================================
