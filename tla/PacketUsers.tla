----------------------------- MODULE PacketUsers -----------------------------
(***************************************************************************)
(* The two adapters that keep a table of waiters per connection and share  *)
(* the connections between concurrent UDP calls: AnyTLS (AnyTlsUdp) and    *)
(* VLESS mux (VlessMux).  A behaviour is of one of them; they promise      *)
(* their callers the same, and where both do the property is stated of     *)
(* both.                                                                   *)
(***************************************************************************)
EXTENDS Integers

CONSTANTS Calls,                  (* calls of send_uot, or of send_udp      *)
          Target, MaxConns,       (* of AnyTlsUdp                           *)
          Keys, MaxWorkers        (* of VlessMux                            *)

VARIABLES adapter,
          opened, closed, demux, reader, first, pc, sending,   (* of both   *)
          slot, idle, conn,                                    (* AnyTlsUdp *)
          registry, lock, wire, key, worker                    (* VlessMux  *)

anytlsOnly == <<slot, idle, conn>>
vlessOnly == <<registry, lock, wire, key, worker>>
vars == <<adapter, opened, closed, demux, reader, first, pc, sending,
          anytlsOnly, vlessOnly>>

AnyTls == INSTANCE AnyTlsUdp
Vless == INSTANCE VlessMux

ASSUME PacketUsersAssumption ==
  AnyTls!AnyTlsUdpAssumption /\ Vless!MuxAssumption

Unused == "unused"

Init ==
  \/ /\ adapter = "anytls" /\ AnyTls!Init
     /\ registry = Unused /\ lock = Unused /\ wire = Unused
     /\ key = Unused /\ worker = Unused
  \/ /\ adapter = "vless" /\ Vless!Init
     /\ slot = Unused /\ idle = Unused /\ conn = Unused

Next ==
  \/ adapter = "anytls" /\ AnyTls!Next /\ UNCHANGED <<adapter, vlessOnly>>
  \/ adapter = "vless" /\ Vless!Next /\ UNCHANGED <<adapter, anytlsOnly>>

(* The fairness of the two modules, each in the behaviours of its adapter: *)
(* only steps without a wait for the network, and those that end a wait.   *)
Fairness ==
  /\ \A x \in Calls : WF_vars(adapter = "anytls" /\ AnyTls!Proceeds(x)
                                /\ UNCHANGED <<adapter, vlessOnly>>)
  /\ WF_vars(adapter = "anytls" /\ AnyTls!Sends /\ UNCHANGED <<adapter, vlessOnly>>)
  /\ \A x \in Calls : WF_vars(adapter = "vless" /\ Vless!Waits(x)
                                /\ UNCHANGED <<adapter, anytlsOnly>>)
  /\ WF_vars(adapter = "vless" /\ Vless!Sends /\ UNCHANGED <<adapter, anytlsOnly>>)

Spec == Init /\ [][Next]_vars /\ Fairness

-----------------------------------------------------------------------------
Returned(x) == pc[x] \in {"ok", "err", "refused"}

Written(x) == adapter = "anytls" \/ pc[x] = "wait"

Opening(x) == adapter = "anytls" /\ pc[x] = "open"

(* A call of send_uot that is not for ever opening a connection, which no  *)
(* timeout bounds, returns, whatever the server, its siblings and the      *)
(* reader do: the 20 s timeout ends even the wait of a call that           *)
(* registered after the reader's fail_all, and a sibling that hangs in an  *)
(* open holds nobody up.  send_packet returns once write_frame has, which  *)
(* no timeout bounds either.                                               *)
EveryCallReturns ==
  \A x \in Calls : []<>~Opening(x) => (Written(x) ~> Returned(x))

(* A call that awaits its receiver is in the table of its own connection   *)
(* or worker, or its answer is on the way: `Ok(Err(_))', the receiver      *)
(* without a sender (anytls.rs:422, vless.rs send_packet), is never taken. *)
NoStrandedCall ==
  IF adapter = "anytls" THEN AnyTls!NoStrandedCall ELSE Vless!NoStrandedCall

(* A call that failed does not meet the same connection again.  AnyTLS's   *)
(* second attempt never lands on the connection of the first, although the *)
(* map may still hold it when the first gives up; a VLESS worker raises    *)
(* its flag before it fails its callers, so one that tries again finds     *)
(* another.                                                                *)
RetryUsesAnotherConn ==
  IF adapter = "anytls" THEN AnyTls!RetryUsesAnotherConn
  ELSE Vless!FailedCallsSeeClosed

(* No waiter outlives its call: once every call has returned the tables of *)
(* all AnyTLS connections, those dropped from the map included, are empty. *)
NoWaiterLeaks == adapter = "anytls" => AnyTls!NoWaiterLeaks

(* An AnyTLS connection leaves the map only when it is closed or idle, or  *)
(* with the client: the failure of a call on an old connection never       *)
(* evicts its successor.                                                   *)
EvictsOnlyDeadConns == [][adapter = "anytls" => AnyTls!EvictsDeadConn]_vars

(* The stream of a VLESS worker carries one New frame, its first, although *)
(* any of the calls that share the worker may get the writer first.        *)
FirstFrameNew == adapter = "vless" => Vless!FirstFrameNew
=============================================================================
