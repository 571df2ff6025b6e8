----------------------------- MODULE KcptunPool -----------------------------
(***************************************************************************)
(* The smux session pool of the kcptun plugin (shadowsocks/transport.rs):  *)
(* KCPTUN_SESSION_POOLS has a vector of `conn' slots per server and        *)
(* configuration, used in turn; a missing session is made under a create   *)
(* lock of its own per slot, and a stream that cannot be opened is tried   *)
(* again on a new session, which takes the slot over.                      *)
(*                                                                         *)
(* The pool of one key is modelled.  It is never removed: retain calls     *)
(* scavenge, which sets last_used to now, before it looks at last_used.    *)
(* `conn' is part of the key, so the code that resizes a pool is not       *)
(* reached.  Locks of the table of pools are held without an await.  How   *)
(* long a session has been without streams is never asked.                 *)
(***************************************************************************)
EXTENDS Naturals

CONSTANTS Calls,
          Conn,         (* slots of the pool, `conn'                        *)
          AutoExpire,   (* whether auto_expire is set (0, off, by default)  *)
          MaxSessions   (* bound: sessions the model lets calls make        *)

KcptunAssumption ==
  /\ Conn \in Nat \ {0} /\ MaxSessions \in Nat
  /\ AutoExpire \in BOOLEAN
  /\ "none" \notin Calls

Slots == 0 .. (Conn - 1)
Sessions == 1 .. MaxSessions
NoSession == 0
Free == "none"

VARIABLES slot,      (* the session of each slot                            *)
          rr,        (* the turn, modulo conn                               *)
          lock,      (* who holds the create lock of each slot              *)
          made,      (* sessions made so far                                *)
          closed,    (* session.is_closed()                                 *)
          expired,   (* expires_at has passed                               *)
          scavenge_due,  (* scavenge_after has passed                       *)
          pc, idx, session   (* the calls: slot and session of each         *)

ages == <<closed, expired, scavenge_due>>
vars == <<slot, rr, lock, made, ages, pc, idx, session>>

Init ==
  /\ slot = [i \in Slots |-> NoSession]
  /\ rr = 0
  /\ lock = [i \in Slots |-> Free]
  /\ made = 0
  /\ closed = [s \in Sessions |-> FALSE]
  /\ expired = [s \in Sessions |-> FALSE]
  /\ scavenge_due = [s \in Sessions |-> FALSE]
  /\ pc = [x \in Calls |-> "pick"]
  /\ idx = [x \in Calls |-> 0]
  /\ session = [x \in Calls |-> NoSession]

Goto(x, label) == pc' = [pc EXCEPT ![x] = label]

reusable(s) == s # NoSession /\ ~closed[s] /\ ~expired[s]
should_scavenge(s) == s # NoSession /\ (closed[s] \/ scavenge_due[s])

(* KcptunSessionPool::scavenge. *)
Scavenged == [i \in Slots |-> IF should_scavenge(slot[i]) THEN NoSession ELSE slot[i]]

-----------------------------------------------------------------------------
(* open_kcptun_stream, under the lock of the pools: scavenge, the next     *)
(* slot, and its session if it is reusable.                                *)
Pick(x) ==
  /\ pc[x] = "pick"
  /\ slot' = Scavenged
  /\ idx' = [idx EXCEPT ![x] = rr]
  /\ rr' = (rr + 1) % Conn
  /\ IF reusable(slot'[rr])
     THEN session' = [session EXCEPT ![x] = slot'[rr]] /\ Goto(x, "open")
     ELSE UNCHANGED session /\ Goto(x, "lock")
  /\ UNCHANGED <<lock, made, ages>>

(* The create lock of the slot, for a missing session or for a retry.      *)
Lock(x) ==
  /\ pc[x] \in {"lock", "relock"} /\ lock[idx[x]] = Free
  /\ lock' = [lock EXCEPT ![idx[x]] = x]
  /\ Goto(x, IF pc[x] = "lock" THEN "recheck" ELSE "recreate")
  /\ UNCHANGED <<slot, rr, made, ages, idx, session>>

Unlock(x) == lock' = [lock EXCEPT ![idx[x]] = Free]

(* Mutant of Recheck: the slot is not looked at again. *)
RecheckSkipped(x) ==
  /\ pc[x] = "recheck"
  /\ Goto(x, "create")
  /\ UNCHANGED <<slot, rr, lock, made, ages, idx, session>>

(* kcptun_session_from_pool: another call may have filled the slot. *)
Recheck(x) ==
  /\ pc[x] = "recheck"
  /\ slot' = Scavenged
  /\ IF reusable(slot'[idx[x]])
     THEN /\ session' = [session EXCEPT ![x] = slot'[idx[x]]]
          /\ Unlock(x)
          /\ Goto(x, "open")
     ELSE Goto(x, "create") /\ UNCHANGED <<session, lock>>
  /\ UNCHANGED <<rr, made, ages, idx>>

(* create_kcptun_session, with the create lock and without the pools' lock. *)
Create(x) ==
  /\ pc[x] \in {"create", "recreate"} /\ made < MaxSessions
  /\ made' = made + 1
  /\ session' = [session EXCEPT ![x] = made + 1]
  /\ Goto(x, IF pc[x] = "create" THEN "store" ELSE "restore")
  /\ UNCHANGED <<slot, rr, lock, ages, idx>>

CreateFails(x) ==
  /\ pc[x] \in {"create", "recreate"}
  /\ session' = [session EXCEPT ![x] = NoSession]
  /\ Unlock(x)
  /\ Goto(x, "err")
  /\ UNCHANGED <<slot, rr, made, ages, idx>>

(* The new session takes the slot; the first time the create lock is then  *)
(* released, on a retry it is kept until the stream is open.               *)
Store(x) ==
  /\ pc[x] \in {"store", "restore"}
  /\ slot' = [slot EXCEPT ![idx[x]] = session[x]]
  /\ IF pc[x] = "store" THEN Unlock(x) /\ Goto(x, "open")
                        ELSE UNCHANGED lock /\ Goto(x, "reopen")
  /\ UNCHANGED <<rr, made, ages, idx, session>>

(* session.open_stream() succeeds ... *)
Open(x) ==
  /\ pc[x] \in {"open", "reopen"}
  /\ ~closed[session[x]]
  /\ IF pc[x] = "reopen" THEN Unlock(x) ELSE UNCHANGED lock
  /\ Goto(x, "up")
  /\ UNCHANGED <<slot, rr, made, closed, expired, scavenge_due, idx, session>>

(* ... or fails: the first time a new session is made for the slot, even   *)
(* if another call has just done so; the second time the call fails.       *)
OpenFails(x) ==
  /\ pc[x] \in {"open", "reopen"}
  /\ session' = [session EXCEPT ![x] = NoSession]
  /\ IF pc[x] = "open" THEN UNCHANGED lock /\ Goto(x, "relock")
                       ELSE Unlock(x) /\ Goto(x, "err")
  /\ UNCHANGED <<slot, rr, made, ages, idx>>

(* The user drops the stream. *)
Drop(x) ==
  /\ pc[x] = "up"
  /\ session' = [session EXCEPT ![x] = NoSession]
  /\ Goto(x, "down")
  /\ UNCHANGED <<slot, rr, lock, made, ages, idx>>

-----------------------------------------------------------------------------
(* The sessions: keepalive fails or the server closes; time passes. *)
Closes(s) ==
  /\ s <= made /\ ~closed[s]
  /\ closed' = [closed EXCEPT ![s] = TRUE]
  /\ UNCHANGED <<slot, rr, lock, made, expired, scavenge_due, pc, idx, session>>

Expires(s) ==
  /\ AutoExpire /\ s <= made /\ ~expired[s]
  /\ expired' = [expired EXCEPT ![s] = TRUE]
  /\ UNCHANGED <<slot, rr, lock, made, closed, scavenge_due, pc, idx, session>>

DuesScavenge(s) ==
  /\ expired[s] /\ ~scavenge_due[s]
  /\ scavenge_due' = [scavenge_due EXCEPT ![s] = TRUE]
  /\ UNCHANGED <<slot, rr, lock, made, closed, expired, pc, idx, session>>

(* What needs nobody but the scheduler, once the create lock is free. *)
Proceeds(x) == Pick(x) \/ Lock(x) \/ Recheck(x) \/ Store(x)

CallStep(x) ==
  Proceeds(x) \/ Create(x) \/ CreateFails(x) \/ Open(x) \/ OpenFails(x)

Next ==
  \/ \E x \in Calls : CallStep(x) \/ Drop(x)
  \/ \E s \in Sessions : Closes(s) \/ Expires(s) \/ DuesScavenge(s)

-----------------------------------------------------------------------------
(* A slot whose session can be reused keeps it until the session is closed *)
(* or old, except for a retry, which overrides it.                         *)
ReplacesOnlyForRetry ==
  \A i \in Slots : reusable(slot[i]) /\ slot'[i] # slot[i]
    => scavenge_due[slot[i]] \/ \E x \in Calls : pc[x] = "restore" /\ idx[x] = i
=============================================================================
