---------------------------- MODULE StreamLayers ----------------------------
(***************************************************************************)
(* The relay of flow.rs over each stream layer of the Shadowsocks adapter, *)
(* one layer per behaviour: what arrives at the application and what the   *)
(* peer is sent, whatever the network does with the chunks, however little *)
(* the socket takes, and however the two directions interleave.            *)
(***************************************************************************)
EXTENDS ObfsStreams, ShadowTlsStream, SsrStreams

Init ==
  /\ StreamInit([k \in Kinds |-> CASE k \in Shadow -> ShadowPhase
                                   [] k \in Ssr -> SsrPhase
                                   [] OTHER -> FirstPhase[k]])
  /\ up = IF kind \in Shadow THEN "connect" ELSE "poll"
  /\ down = up

TaskStep == Runs \/ UpFill \/ Polls \/ ShadowPolls \/ SsrPolls
Next == TaskStep \/ AppSends \/ AppCloses \/ Arrive \/ PeerCloses \/ Writable

(* The task is polled again once it has been woken, a socket that is       *)
(* waited for becomes writable, and what a peer that does not close sends  *)
(* arrives.                                                                *)
Spec ==
  /\ Init /\ [][Next]_vars
  /\ WF_vars(TaskStep) /\ WF_vars(Writable) /\ WF_vars(Arrive)

-----------------------------------------------------------------------------
Units_of(s) == {s[i].v : i \in {j \in DOMAIN s : IsData(s[j])}}
InOrder(s) == LET d == Payload(s) IN \A i \in DOMAIN d : d[i].v = i

(* What the application gets is the payload the peer sent: in order and    *)
(* without a repetition; without a gap, except in the simple-obfs TLS layer*)
(* (RecordsKeepPayload) and in auth_sha1_v4 and auth_aes128, which skip the*)
(* first byte of each frame; with nothing of the layer's own in it, except *)
(* in the HTTP layers, which may take part of a response head for payload, *)
(* in ShadowTLS v2, where a cover server's session ticket looks like data, *)
(* and in the random-head layer, where the rest of an answer that comes in *)
(* two reads precedes the payload.                                         *)
(* A layer that ends the stream cleanly has hidden nothing: neither a      *)
(* record cut short nor decoded bytes nobody read.                         *)
DownloadIntact ==
  LET d == Payload(got) IN
  /\ \A i, j \in DOMAIN d : i < j => d[i].v < d[j].v
  /\ kind \notin {"tls", "sha1_v4", "aes128"} => InOrder(got)
  /\ kind \notin {"http", "st2", "head"} => d = got
  /\ kind = "head" => d = got \/ got = <<Mark("hello")>> \o d
  /\ down = "end" /\ ~broken =>
       /\ kind \in {"head"} \cup Shadow =>
            closed /\ rx = << >> /\ raw = << >> /\ plain = << >>
       /\ kind \in {"ws", "h2"} => Len(d) = Units

(* What a poll_write reported as written is not lost while the relay runs: *)
(* the socket has it, or it is pending, or put aside until the peer answers.*)
AcceptedIsKept ==
  ~broken => 1 .. taken \subseteq Units_of(tx) \cup Units_of(pend.data)
                                  \cup Units_of(hold)

(* What the peer is sent can be parsed, and carries the payload in order   *)
(* and once: a head, record or frame announces exactly the units that     *)
(* follow it, however often a poll_write was Pending in the middle, and the*)
(* frames of ShadowsocksR are numbered without a gap.  Not so for the      *)
(* layers that write a packet again (ticket, head) or drop the rest of one *)
(* (ShadowTLS v2 and v3), nor for what the code announces too short: a TLS *)
(* record beyond 16 bits, and a frame or first packet of auth_sha1_v2 with *)
(* a long padding, which ends later than it says.                          *)
UploadIntact ==
  kind \in {"http", "tls", "ws", "h2", "st1"} \cup Ssr =>
    /\ InOrder(tx)
    /\ kind \in Ssr => SsrSendsFrames
    /\ \A i \in DOMAIN tx : tx[i].t \in {"rec", "hello", "request"} =>
         \A j \in i + 1 .. i + tx[i].v : j \in DOMAIN tx => IsData(tx[j])

(* What arrives is read: no poll_read of these layers returns Pending      *)
(* without a waker for what it waits for, so the download never sleeps     *)
(* beside a socket that has data.  (ticket and head do: they return Pending*)
(* right after they have written.)                                         *)
ArrivedIsRead ==
  rx # << >> /\ kind \notin {"ticket", "head"} ~> (rx = << >> \/ down = "end")

-----------------------------------------------------------------------------
(* tests.rs:1647, simple_obfs_tls_skips_dynamic_handshake_response, reads   *)
(* the payload of the record behind the handshake whole.  The code drops   *)
(* what it has of a record when the rest of it has not arrived yet.        *)
RecordsKeepPayload == InOrder(got)
=============================================================================
