----------------------------- MODULE Sip003Pool -----------------------------
(***************************************************************************)
(* External SIP003 plugins (shadowsocks/transport.rs): one child process   *)
(* per (server, program, options) listens on a local port and serves all   *)
(* streams of that key.  The pool, the reserved ports and the table of     *)
(* per-key create locks are process-wide; an ExternalSip003Process is      *)
(* reference-counted by the pool, by calls and by open streams, and its    *)
(* Drop sends the child a kill without waiting for its exit.               *)
(*                                                                         *)
(* Child ids and lock ids are reused once nothing refers to them; there is *)
(* one per call and one per key, so the model never runs out of them.      *)
(***************************************************************************)
EXTENDS Naturals, FiniteSets

CONSTANTS Calls, Keys, Ports,
          KeyChoices,        (* which calls have the same key, by examples  *)
          Children, Locks,   (* ids, at least one per call and one per key  *)
          MaxStarts,         (* start attempts of one call (16 in the code) *)
          Contested,         (* the ports that other programs use, too      *)
          None

Sip003Assumption ==
  /\ MaxStarts \in Nat \ {0}
  /\ IsFiniteSet(Calls) /\ IsFiniteSet(Keys)
  /\ \A ids \in {Children, Locks} :
       IsFiniteSet(ids) /\ Cardinality(Calls) + Cardinality(Keys) <= Cardinality(ids)
  /\ KeyChoices \subseteq [Calls -> Keys]
  /\ Contested \subseteq Ports
  /\ None \notin Calls \cup Keys \cup Ports \cup Children \cup Locks

Attempts == 2

VARIABLES pool,      (* SIP003_PLUGIN_PROCESSES: the child of each key      *)
          child,     (* each child: where it is, its port, idle too long    *)
          foreign,   (* ports on which somebody else listens: another       *)
                     (* program, or a child that was killed and not reaped  *)
          reserved,  (* SIP003_RESERVED_PORTS                               *)
          locks,     (* SIP003_PLUGIN_CREATES: the create lock of each key  *)
          holder,    (* who holds each lock                                 *)
          pc, key,   (* the calls, and the key of each                      *)
          arc,       (* the Arc of a create lock each call has              *)
          proc,      (* the Arc of a process each call or its stream has    *)
          port,      (* the port each call has drawn or reserved            *)
          attempt, starts

lockVars == <<locks, holder, arc>>
vars == <<pool, child, foreign, reserved, lockVars, pc, key, proc, port, attempt, starts>>

Unborn == [state |-> "unborn", port |-> None, idle |-> FALSE]

Init ==
  /\ pool = [k \in Keys |-> None]
  /\ child = [c \in Children |-> Unborn]
  /\ foreign = {}
  /\ reserved = {}
  /\ locks = [k \in Keys |-> None]
  /\ holder = [l \in Locks |-> None]
  /\ pc = [x \in Calls |-> "look"]
  /\ key \in KeyChoices
  /\ arc = [x \in Calls |-> None]
  /\ proc = [x \in Calls |-> None]
  /\ port = [x \in Calls |-> None]
  /\ attempt = [x \in Calls |-> 0]
  /\ starts = [x \in Calls |-> 0]

Goto(x, label) == pc' = [pc EXCEPT ![x] = label]

Running(c) == child[c].state \in {"starting", "listening"}
Listeners(p) == { c \in Children : child[c].state = "listening" /\ child[c].port = p }

(* A start has its own listener on the port for as long as it asks for it. *)
Drawing(p) == \E x \in Calls : pc[x] = "bound" /\ port[x] = p
Listened(p) == p \in foreign \/ Listeners(p) # {} \/ Drawing(p)

HeldByCall(c) == \E x \in Calls : proc[x] = c
Referenced(c) == HeldByCall(c) \/ \E k \in Keys : pool[k] = c

(* Drop for ExternalSip003Process: a child is killed with its last Arc;    *)
(* one that listens keeps its port until it has gone (Leaves).             *)
DropUnreferenced ==
  /\ child' = [c \in Children |-> IF Referenced(c)' THEN child[c] ELSE Unborn]
  /\ foreign' = foreign \cup
       { child[c].port : c \in { d \in Children : child[d].state = "listening" /\ ~Referenced(d)' } }

-----------------------------------------------------------------------------
(* pool.retain, which looks at the processes of all keys. *)
Retained(c) == Running(c) /\ ~(child[c].idle /\ ~HeldByCall(c))

(* An attempt of open_sip003_plugin_stream begins with retain and get. *)
Look(x) ==
  /\ pc[x] = "look"
  /\ pool' = [k \in Keys |-> IF pool[k] # None /\ Retained(pool[k]) THEN pool[k] ELSE None]
  /\ proc' = [proc EXCEPT ![x] = pool'[key[x]]]
  /\ DropUnreferenced
  /\ Goto(x, IF pool'[key[x]] = None THEN "getlock" ELSE "connect")
  /\ UNCHANGED <<reserved, lockVars, key, port, attempt, starts>>

HasArc(l) == \E x \in Calls : arc[x] = l

(* sip003_create_lock: locks without an Arc outside the table go; the      *)
(* key's lock is taken from what is left, or made.                         *)
GetLock(x) ==
  LET kept  == [k \in Keys |-> IF locks[k] # None /\ HasArc(locks[k]) THEN locks[k] ELSE None]
      fresh == CHOOSE l \in Locks : l \notin { locks[k] : k \in Keys } /\ ~HasArc(l)
      lock  == IF kept[key[x]] = None THEN fresh ELSE kept[key[x]]
  IN /\ pc[x] = "getlock"
     /\ locks' = [kept EXCEPT ![key[x]] = lock]
     /\ arc' = [arc EXCEPT ![x] = lock]
     /\ Goto(x, "lock")
     /\ UNCHANGED <<pool, child, foreign, reserved, holder, key, proc, port, attempt, starts>>

Lock(x) ==
  /\ pc[x] = "lock" /\ holder[arc[x]] = None
  /\ holder' = [holder EXCEPT ![arc[x]] = x]
  /\ Goto(x, "recheck")
  /\ UNCHANGED <<pool, child, foreign, reserved, locks, key, arc, proc, port, attempt, starts>>

(* The guard and the Arc of the create lock are dropped. *)
Unlock(x) ==
  /\ holder' = [holder EXCEPT ![arc[x]] = None]
  /\ arc' = [arc EXCEPT ![x] = None]

(* Mutant of Recheck: the second look at the pool is left out. *)
RecheckSkipped(x) ==
  /\ pc[x] = "recheck"
  /\ Goto(x, "reserve")
  /\ UNCHANGED <<pool, child, foreign, reserved, lockVars, key, proc, port, attempt, starts>>

(* The second look, which does not ask whether the process still runs.     *)
Recheck(x) ==
  /\ pc[x] = "recheck"
  /\ IF pool[key[x]] # None
     THEN /\ proc' = [proc EXCEPT ![x] = pool[key[x]]]
          /\ Unlock(x)
          /\ Goto(x, "connect")
     ELSE Goto(x, "reserve") /\ UNCHANGED <<proc, holder, arc>>
  /\ UNCHANGED <<pool, child, foreign, reserved, locks, key, port, attempt, starts>>

-----------------------------------------------------------------------------
(* start_sip003_process, up to 16 times. *)

(* reserve_sip003_local_addr: the system names a port without a listener   *)
(* and the start listens there itself ...                                  *)
Bind(x) ==
  /\ pc[x] = "reserve"
  /\ \E p \in { q \in Ports : ~Listened(q) } : port' = [port EXCEPT ![x] = p]
  /\ Goto(x, "bound")
  /\ UNCHANGED <<pool, child, foreign, reserved, lockVars, key, proc, attempt, starts>>

(* ... drop(listener), so that the system may name the port again ...      *)
Unbind(x) ==
  /\ pc[x] = "bound"
  /\ Goto(x, "drawn")
  /\ UNCHANGED <<pool, child, foreign, reserved, lockVars, key, proc, port, attempt, starts>>

(* Mutant of Reserve: the answer of ports.insert is not looked at. *)
ReserveAny(x) ==
  /\ pc[x] = "drawn"
  /\ reserved' = reserved \cup {port[x]}
  /\ Goto(x, "spawn")
  /\ UNCHANGED <<pool, child, foreign, lockVars, key, proc, port, attempt, starts>>

(* ... and ports.insert: the port is taken unless another start has it,    *)
(* then the loop draws again.                                              *)
Reserve(x) ==
  /\ pc[x] = "drawn"
  /\ IF port[x] \in reserved
     THEN /\ port' = [port EXCEPT ![x] = None]
          /\ Goto(x, "reserve")
          /\ UNCHANGED reserved
     ELSE /\ reserved' = reserved \cup {port[x]}
          /\ Goto(x, "spawn")
          /\ UNCHANGED port
  /\ UNCHANGED <<pool, child, foreign, lockVars, key, proc, attempt, starts>>

(* bind fails, or 32 ports in a row were reserved. *)
ReserveFails(x) ==
  /\ pc[x] = "reserve"
  /\ Unlock(x)
  /\ Goto(x, "err")
  /\ UNCHANGED <<pool, child, foreign, reserved, locks, key, proc, port, attempt, starts>>

Spawn(x) ==
  /\ pc[x] = "spawn"
  /\ LET c == CHOOSE c \in Children : ~Referenced(c) IN
     /\ child' = [child EXCEPT ![c] = [state |-> "starting", port |-> port[x], idle |-> FALSE]]
     /\ proc' = [proc EXCEPT ![x] = c]
  /\ Goto(x, "probe")
  /\ UNCHANGED <<pool, foreign, reserved, lockVars, key, port, attempt, starts>>

ReleasePort(x) == reserved' = reserved \ {port[x]} /\ port' = [port EXCEPT ![x] = None]

(* Mutant of SpawnFails: the port stays reserved. *)
SpawnFailsReserved(x) ==
  /\ pc[x] = "spawn"
  /\ port' = [port EXCEPT ![x] = None]
  /\ Unlock(x)
  /\ Goto(x, "err")
  /\ UNCHANGED <<pool, child, foreign, reserved, locks, key, proc, attempt, starts>>

SpawnFails(x) ==
  /\ pc[x] = "spawn"
  /\ ReleasePort(x)
  /\ Unlock(x)
  /\ Goto(x, "err")
  /\ UNCHANGED <<pool, child, foreign, locks, key, proc, attempt, starts>>

(* Somebody accepts a connection on the port: the child, another program,  *)
(* a plugin that was started on the same port before, or a start that has  *)
(* just drawn it.  The child was looked at before and may have exited.     *)
ProbeAccepted(x) ==
  /\ pc[x] = "probe" /\ Listened(port[x])
  /\ ReleasePort(x)
  /\ Goto(x, "insert")
  /\ UNCHANGED <<pool, child, foreign, lockVars, key, proc, attempt, starts>>

(* The child has exited, or 50 probes over a second were refused: the port *)
(* is free for others while the child still runs ...                       *)
ProbeGivesUp(x) ==
  /\ pc[x] = "probe"
  /\ ~Running(proc[x]) \/ ~Listened(port[x])
  /\ ReleasePort(x)
  /\ Goto(x, "discard")
  /\ UNCHANGED <<pool, child, foreign, lockVars, key, proc, attempt, starts>>

(* ... then the process is dropped, and the next start begins, if one is   *)
(* left.                                                                   *)
Discard(x) ==
  /\ pc[x] = "discard"
  /\ proc' = [proc EXCEPT ![x] = None]
  /\ IF starts[x] + 1 < MaxStarts
     THEN /\ starts' = [starts EXCEPT ![x] = @ + 1]
          /\ Goto(x, "reserve")
          /\ UNCHANGED <<holder, arc>>
     ELSE /\ starts' = [starts EXCEPT ![x] = 0]
          /\ Unlock(x)
          /\ Goto(x, "err")
  /\ UNCHANGED <<pool, reserved, locks, key, port, attempt>>
  /\ DropUnreferenced

(* entry(key).or_insert_with, then the create lock is released. *)
Insert(x) ==
  /\ pc[x] = "insert"
  /\ pool' = [pool EXCEPT ![key[x]] = IF @ = None THEN proc[x] ELSE @]
  /\ proc' = [proc EXCEPT ![x] = pool'[key[x]]]
  /\ DropUnreferenced
  /\ starts' = [starts EXCEPT ![x] = 0]
  /\ Unlock(x)
  /\ Goto(x, "connect")
  /\ UNCHANGED <<reserved, locks, key, port, attempt>>

-----------------------------------------------------------------------------
(* TcpStream::connect and touch: the stream keeps the Arc of the process.  *)
Connect(x) ==
  /\ pc[x] = "connect" /\ Listened(child[proc[x]].port)
  /\ child' = [child EXCEPT ![proc[x]].idle = FALSE]
  /\ Goto(x, "open")
  /\ UNCHANGED <<pool, foreign, reserved, lockVars, key, proc, port, attempt, starts>>

(* The connection is refused: whatever process the pool now has for the    *)
(* key is removed, and a second attempt begins.                            *)
ConnectFails(x) ==
  /\ pc[x] = "connect"
  /\ pool' = [pool EXCEPT ![key[x]] = None]
  /\ proc' = [proc EXCEPT ![x] = None]
  /\ DropUnreferenced
  /\ attempt' = [attempt EXCEPT ![x] = @ + 1]
  /\ Goto(x, IF attempt[x] + 1 < Attempts THEN "look" ELSE "err")
  /\ UNCHANGED <<reserved, lockVars, key, port, starts>>

(* The stream is dropped. *)
Close(x) ==
  /\ pc[x] = "open"
  /\ proc' = [proc EXCEPT ![x] = None]
  /\ UNCHANGED <<pool, reserved, lockVars, key, port, attempt, starts>>
  /\ DropUnreferenced
  /\ Goto(x, "closed")

-----------------------------------------------------------------------------
(* The children and the rest of the machine. *)
Becomes(c, state) ==
  /\ child' = [child EXCEPT ![c].state = state]
  /\ UNCHANGED <<pool, foreign, reserved, lockVars, pc, key, proc, port, attempt, starts>>

Listens(c) == child[c].state = "starting" /\ ~Listened(child[c].port) /\ Becomes(c, "listening")

Exits(c) == Running(c) /\ Becomes(c, "exited")

(* last_used is 300 s old. *)
GrowIdle(c) ==
  /\ child[c].state = "listening" /\ ~child[c].idle
  /\ child' = [child EXCEPT ![c].idle = TRUE]
  /\ UNCHANGED <<pool, foreign, reserved, lockVars, pc, key, proc, port, attempt, starts>>

(* Other programs bind free ports, reserved here or not ... *)
Arrives(p) ==
  /\ p \in Contested /\ ~Listened(p)
  /\ foreign' = foreign \cup {p}
  /\ UNCHANGED <<pool, child, reserved, lockVars, pc, key, proc, port, attempt, starts>>

(* ... and leave them, as a killed child does when it exits.               *)
Leaves(p) ==
  /\ p \in foreign
  /\ foreign' = foreign \ {p}
  /\ UNCHANGED <<pool, child, reserved, lockVars, pc, key, proc, port, attempt, starts>>

CallStep(x) ==
  \/ Look(x) \/ GetLock(x) \/ Recheck(x) \/ Bind(x) \/ Unbind(x) \/ Reserve(x)
  \/ ReserveFails(x) \/ Spawn(x) \/ SpawnFails(x) \/ ProbeAccepted(x) \/ ProbeGivesUp(x)
  \/ Discard(x) \/ Insert(x) \/ Connect(x) \/ ConnectFails(x)

Next ==
  \/ \E x \in Calls : CallStep(x) \/ Lock(x) \/ Close(x)
  \/ \E c \in Children : Listens(c) \/ Exits(c) \/ GrowIdle(c)
  \/ \E p \in Ports : Arrives(p) \/ Leaves(p)

-----------------------------------------------------------------------------
Starting(x) ==
  pc[x] \in {"recheck", "reserve", "bound", "drawn", "spawn", "probe", "discard", "insert"}

(* ports.insert has let the start have its port, and nobody took it back.  *)
Reserves(x) == pc[x] \in {"spawn", "probe"}

(* One start per key at a time, although the table of create locks drops   *)
(* and remakes the locks: two calls never start the plugin of one key      *)
(* side by side.                                                           *)
OneStarterPerKey ==
  \A x, y \in Calls : Starting(x) /\ Starting(y) /\ key[x] = key[y] => x = y

(* A process that came up is the one the pool gets: or_insert_with never   *)
(* finds another one there, which would throw the new process away.        *)
NewProcessIsPooled == \A x \in Calls : pc[x] = "insert" => pool[key[x]] = None

(* Two starts never have the same port reserved, although the system names *)
(* one twice as soon as the first has dropped its listener.  (It ends with *)
(* the reservation: a port released is named again while its plugin has    *)
(* not begun to listen, or by a start that drew it before.)                *)
StartsHaveOwnPort ==
  \A x, y \in Calls : Reserves(x) /\ Reserves(y) /\ port[x] = port[y] => x = y

(* A port is reserved exactly while a start needs it; no way out of a      *)
(* start, successful or not, leaves it behind.                             *)
NoReservationLeaks == reserved = { port[x] : x \in { y \in Calls : Reserves(y) } }
=============================================================================
