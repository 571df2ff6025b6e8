---------------------------- MODULE HttpBridges ----------------------------
(***************************************************************************)
(* The tasks that join the relay's pipe to a request and a response: the   *)
(* XHTTP bridges of the Shadowsocks adapter (XhttpBridge) and, behind the  *)
(* tasks of VLESS, the transports of the VLESS adapter (VlessStream).      *)
(* They share no state, so a behaviour is of one adapter.                  *)
(***************************************************************************)
EXTENDS Integers, Sequences, FiniteSets, SequencesExt

CONSTANTS XhttpKinds, Workers, QueueLimit, MaxBatches,      (* XhttpBridge  *)
          VlessKinds, Units, FirstLimit, Width, DirectMin,
          FilterLimit                                       (* VlessStream  *)

VARIABLES of, kind, gone, seq, posts,
          wrote, eof, taken, upload, failed, signalled, queue, work, kept,
          worker, requestEnd, arrived, served, download,            (* XhttpBridge  *)
          given, appEof, up1, up, uplink, overlong, up2, up2End, tup, tx, txEnd,
          coming, rx, rxEnd, reset, tdown, frag, dn2, dn2End,
          down, unpad, got, gotEnd                          (* VlessStream  *)

Xhttp == INSTANCE XhttpBridge WITH Kinds <- XhttpKinds
Vless == INSTANCE VlessStream WITH Kinds <- VlessKinds

ASSUME BridgesAssumption ==
  /\ Xhttp!BridgeAssumption
  /\ Vless!UnitsAssumption /\ Vless!VisionAssumption

xhttpOnly == <<wrote, eof, taken, upload, failed, signalled, queue, work, kept,
               worker, requestEnd, arrived, served, download>>
vlessOnly == <<given, appEof, up1, up, uplink, overlong, up2, up2End, tup, tx, txEnd,
               coming, rx, rxEnd, reset, tdown, frag, dn2, dn2End,
               down, unpad, got, gotEnd>>
vars == <<of, kind, gone, seq, posts, xhttpOnly, vlessOnly>>

Unused == "unused"
NoXhttp ==
  /\ wrote = Unused /\ eof = Unused /\ taken = Unused /\ upload = Unused
  /\ failed = Unused /\ signalled = Unused /\ queue = Unused /\ work = Unused
  /\ kept = Unused /\ worker = Unused /\ requestEnd = Unused
  /\ arrived = Unused /\ served = Unused /\ download = Unused
NoVless ==
  /\ given = Unused /\ appEof = Unused /\ up1 = Unused /\ up = Unused
  /\ uplink = Unused /\ overlong = Unused /\ up2 = Unused
  /\ up2End = Unused /\ tup = Unused
  /\ tx = Unused /\ txEnd = Unused /\ coming = Unused /\ rx = Unused
  /\ rxEnd = Unused /\ reset = Unused /\ tdown = Unused /\ frag = Unused
  /\ dn2 = Unused /\ dn2End = Unused /\ down = Unused /\ unpad = Unused
  /\ got = Unused /\ gotEnd = Unused

Init ==
  \/ of = "xhttp" /\ Xhttp!Init /\ NoVless
  \/ of = "vless" /\ Vless!Init /\ NoXhttp

OfXhttp == of = "xhttp" /\ UNCHANGED <<of, vlessOnly>>
OfVless == of = "vless" /\ UNCHANGED <<of, xhttpOnly>>

Next ==
  \/ OfXhttp /\ Xhttp!Next
  \/ OfVless /\ Vless!Next

(* tokio polls what can run, and its select! looks at the branches that    *)
(* are ready in a random order: a download that comes back to the channel  *)
(* of its upload again and again looks at it.                              *)
Fairness ==
  SF_vars(OfXhttp /\ (Xhttp!CutBeforeResponse \/ Xhttp!CutBody))

Spec == Init /\ [][Next]_vars /\ Fairness

-----------------------------------------------------------------------------
(* What the relay gets is what the VLESS peer sent behind its response     *)
(* header, in order and with nothing of the framing in it, however the     *)
(* header, the padding blocks and the hunks are split over the reads; and  *)
(* an HTTP/1.1 post worker reads each answer whose body is announced to its*)
(* end, so that the next head it finds on the connection it keeps is that  *)
(* of the next answer.  (A body that only the end of the connection would  *)
(* end, from a server that does not say it closes, it leaves there.)       *)
DownloadIntact ==
  /\ of = "vless" => Vless!DownloadIntact
  /\ of = "xhttp" => Xhttp!AnswersDrained

(* What a server can read is what the user sent, in order: a VLESS frame   *)
(* announces what follows it, the padding decodes to the user's units (as  *)
(* long as the length of no padding block was too large for its field), the*)
(* numbers of the posts keep the order, whatever order they arrive in; and *)
(* an XHTTP server never has to keep more than the lanes of h1_packet let  *)
(* posts run ahead of one that is stuck (a semaphore bounds nothing here). *)
UploadIntact ==
  /\ of = "vless" => Vless!UploadIntact
  /\ of = "xhttp" => Xhttp!ReorderBounded

(* An end on a connection that works comes after everything, on both sides;*)
(* an XHTTP server sees the end of a request only after all of it; and an  *)
(* upload in posts, or one whose request is answered, that ends without a  *)
(* failure has delivered all but the posts still queued or under way: a    *)
(* worker, a post or an answer that fails always leaves the failure behind.*)
EndsAreWhole ==
  /\ of = "vless" => Vless!EndsAreWhole
  /\ of = "xhttp" => Xhttp!CleanEndDeliversAll

(* Nothing is written for ever: not to a pipe that its reader leaves full, *)
(* nor to a connection whose other side takes no more, and a QUIC          *)
(* handshake ends.  The code has no timeout for any of them.               *)
WritesEnd ==
  /\ []<>(download # "write")
  /\ WF_vars(OfVless /\ Vless!Up)
  /\ WF_vars(OfVless /\ Vless!TransportUpload)
  /\ WF_vars(OfVless /\ Vless!TransportDownload)
  /\ WF_vars(OfVless /\ Vless!Down)

(* Once the user and the VLESS peer have both ended, so do all four tasks, *)
(* unless one of them is left writing: no half of a pipe keeps another one *)
(* waiting.  A failed XHTTP upload ends the download, so that the relay    *)
(* learns of it, also when the failure and the end of the upload task come *)
(* together and when the body goes on and on, unless the relay itself      *)
(* leaves the download writing.                                            *)
TasksEnd ==
  WritesEnd =>
    ((\/ of = "vless" /\ Vless!BothEnded
      \/ of = "xhttp" /\ Xhttp!FailureTold)
       ~> (\/ of = "vless" /\ Vless!TasksEnded
           \/ of = "xhttp" /\ download = "ended"))

(* Once the body is being copied it is only cut short by a failure, by the *)
(* relay itself or by the server: the body loop of each bridge tells a     *)
(* finished upload from a failed one.                                      *)
BodyNotCut ==
  [][of = "xhttp" => (Xhttp!CutsBody => Xhttp!EndsForAReason)]_vars

(* The same from the beginning: a relay that has finished its request and  *)
(* shut its side down still gets the response.                             *)
HalfCloseKeepsDownload ==
  [][of = "xhttp" => (Xhttp!CutsDownload => Xhttp!EndsForAReason)]_vars

(* vless.rs:3399, vision_downlink_switches_to_direct_on_command_two: after *)
(* command 2 the download is read below TLS.  bridge_vless_stream ignores  *)
(* result.direct and reads on through TLS, which fails.                    *)
DirectIsRead == of = "vless" => Vless!DirectIsRead
=============================================================================
