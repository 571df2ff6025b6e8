----------------------------- MODULE WaiterList -----------------------------
(***************************************************************************)
(* What a packet session promises, without its indexes: the waiters stand  *)
(* in one list in the order in which they registered.  A packet from k is  *)
(* for the first waiter of k, a packet without a source for the first      *)
(* waiter of all; a caller that gives up leaves the list and nobody else's *)
(* place changes; a failure empties it and answers everybody.              *)
(***************************************************************************)
EXTENDS Naturals, Sequences

CONSTANTS Requests, Keys, Targetless, Failed, Results

VARIABLES waiters, target, rx, answer, sending

vars == <<waiters, target, rx, answer, sending>>

Init ==
  /\ waiters = <<>>
  /\ target = [r \in Requests |-> "none"]
  /\ rx = [r \in Requests |-> "new"]
  /\ answer = [r \in Requests |-> "none"]
  /\ sending = {}

(* The list loses the i-th waiter and nothing else. *)
Leaves(i) ==
  waiters' = [j \in 1 .. (Len(waiters) - 1) |->
                IF j < i THEN waiters[j] ELSE waiters[j + 1]]

Join(r, k) ==
  /\ rx[r] = "new"
  /\ waiters' = Append(waiters, <<k, r>>)
  /\ target' = [target EXCEPT ![r] = k]
  /\ rx' = [rx EXCEPT ![r] = "waiting"]
  /\ UNCHANGED <<answer, sending>>

Expire(r) ==
  /\ rx[r] = "waiting"
  /\ rx' = [rx EXCEPT ![r] = "expired"]
  /\ UNCHANGED <<waiters, target, answer, sending>>

(* The caller gives up, in the list or (already taken out) not. *)
GiveUp(r) ==
  /\ rx[r] \in {"waiting", "expired"}
  /\ rx' = [rx EXCEPT ![r] = "done"]
  /\ \/ \E i \in DOMAIN waiters : waiters[i] = <<target[r], r>> /\ Leaves(i)
     \/ (\A i \in DOMAIN waiters : waiters[i][2] # r) /\ UNCHANGED waiters
  /\ UNCHANGED <<target, answer, sending>>

(* The i-th waiter is the first among the waiters of the set K of keys. *)
FirstOf(K, i) ==
  /\ waiters[i][1] \in K
  /\ \A j \in DOMAIN waiters : waiters[j][1] \in K => i <= j

Serve(K, result) ==
  /\ \E i \in DOMAIN waiters :
       /\ FirstOf(K, i)
       /\ Leaves(i)
       /\ sending' = sending \cup {<<waiters[i][2], result>>}
  /\ UNCHANGED <<target, rx, answer>>

ServeAll ==
  /\ waiters' = <<>>
  /\ sending' = sending \cup { <<waiters[i][2], Failed>> : i \in DOMAIN waiters }
  /\ UNCHANGED <<target, rx, answer>>

Send(r, result) ==
  /\ <<r, result>> \in sending
  /\ sending' = sending \ {<<r, result>>}
  /\ IF rx[r] = "waiting"
     THEN /\ answer' = [answer EXCEPT ![r] = result]
          /\ rx' = [rx EXCEPT ![r] = "done"]
     ELSE UNCHANGED <<answer, rx>>
  /\ UNCHANGED <<waiters, target>>

Next ==
  \/ \E r \in Requests, k \in Keys : Join(r, k)
  \/ \E r \in Requests : Expire(r) \/ GiveUp(r)
  \/ \E k \in Keys : Serve({k}, k)
  \/ Serve(Keys, Targetless)
  \/ ServeAll
  \/ \E r \in Requests, result \in Results : Send(r, result)

Spec == Init /\ [][Next]_vars
=============================================================================
