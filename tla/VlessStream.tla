----------------------------- MODULE VlessStream -----------------------------
(***************************************************************************)
(* A TCP connection through the VLESS adapter: bridge_vless_stream between *)
(* the pipe of the relay and the transport, and, for all but the bare      *)
(* transports, the two tasks of the transport's own bridge behind a second *)
(* pipe:                                                                   *)
(*                                                                         *)
(*   tcp, vision   the secured connection itself; with XTLS Vision         *)
(*   ws            a WebSocket       h2, grpc   one HTTP/2 request         *)
(*   http1         a chunked POST    packet, h3 a GET, and a task per post *)
(*                                                                         *)
(* The four tasks share nothing but the pipes: how one ends is all that    *)
(* the others learn of it.  Reads split what they find anywhere.           *)
(***************************************************************************)
EXTENDS VisionCodec, FiniteSets

CONSTANTS Kinds,     (* the transports to consider                          *)
          FirstLimit, (* SMALL_FLOW_COPY_BUFFER_SIZE, in units               *)
          Units      (* bound: units the user hands over, by transport      *)

UnitsAssumption ==
  /\ Units \in [Kinds -> Nat \ {0}]
  /\ FirstLimit \in Nat \ {0} /\ FirstLimit < Width

VARIABLES kind,
          given,     (* the units the user has handed over                  *)
          appEof,    (* ... and it has closed its side                      *)
          gone,      (* it has dropped its end of the pipe                  *)
          up1,       (* the pipe from the relay to bridge_vless_stream      *)
          up,        (* its upload task                                     *)
          uplink,    (* VisionUplinkState                                   *)
          overlong,  (* history: a padding block has been sent whose length *)
                     (* did not fit its field                               *)
          up2, up2End,      (* the pipe from there to the transport         *)
          tup,       (* the transport's upload task                         *)
          seq, posts,       (* packet: posts begun, posts under way         *)
          tx, txEnd, (* what the peer has received                          *)
          coming, rx, rxEnd, (* what it sends, what of it has arrived       *)
          reset,     (* the connection is broken                            *)
          tdown,     (* the transport's download task                       *)
          frag,      (* GrpcHunkDecoder.pending                             *)
          dn2, dn2End,      (* the pipe from there                          *)
          down,      (* the download task of bridge_vless_stream            *)
          unpad,     (* VisionUnpaddingState                                *)
          got, gotEnd       (* what the relay has got                       *)

appVars == <<given, appEof, gone>>
upVars == <<up, uplink, overlong>>
hopUp == <<up2, up2End>>
peerIn == <<seq, posts, tx, txEnd>>
peerOut == <<coming, rx, rxEnd, reset>>
hopDown == <<dn2, dn2End>>
transport == <<tup, tdown, frag>>
downVars == <<down, unpad, got, gotEnd>>
vars == <<kind, appVars, up1, upVars, hopUp, peerIn, peerOut, hopDown,
          transport, downVars>>

Vision == {"vision", "vision_tls"}
Bare == {"tcp"} \cup Vision
Packets == {"packet", "h3"}
Plain(n, m) == [i \in 1 .. m - n + 1 |-> <<"plain", n + i - 1>>]

(* What the peer answers: the response header, with an addon, and payload. *)
(* A Vision peer may leave out the padding, or end it with command 1, or   *)
(* with command 2, after which it writes below TLS.                        *)
Response == <<<<"version", 0>>, <<"addons", 1>>, <<"addon", 0>>>>
Answers(k) ==
  CASE k = "vision" ->
         {Response \o Plain(1, 2)} \cup
         {Response \o Padded(Plain(1, 1), 0, TRUE) \o Padded(Plain(2, 2), c, FALSE)
                   \o <<IF c = 2 THEN <<"bare", 3>> ELSE <<"plain", 3>>>> : c \in 1 .. 2}
    [] k = "tcp" -> {Response \o Plain(1, 2), Plain(1, 3)}
    [] k = "vision_tls" -> {Response \o Plain(1, 1)}
    [] k = "ws" -> {<<<<"ping", 0>>>> \o Response \o Plain(1, 2) \o <<<<"close", 0>>>>}
    [] k = "grpc" -> {<<<<"head", 0>>>> \o Hunk(Response \o Plain(1, 1)) \o
                      Hunk(Plain(2, 2))}
    [] OTHER -> {<<<<"head", 0>>>> \o Response \o Plain(1, 2)}

Init ==
  /\ kind \in Kinds
  /\ given = 0 /\ appEof = FALSE /\ gone = FALSE
  /\ up1 = << >> /\ up = "first" /\ uplink = FirstUplink /\ overlong = FALSE
  /\ up2 = << >> /\ up2End = FALSE
  /\ tup = CASE kind \in Bare -> "end" [] kind = "h3" -> "connect" [] OTHER -> "relay"
  /\ seq = 0 /\ posts = {} /\ tx = << >> /\ txEnd = FALSE
  /\ coming \in Answers(kind) /\ rx = << >> /\ rxEnd = FALSE /\ reset = FALSE
  /\ tdown = CASE kind \in Bare -> "end" [] kind = "ws" -> "relay"
               [] kind = "h3" -> "connect" [] OTHER -> "response"
  /\ frag = << >> /\ dn2 = << >> /\ dn2End = FALSE
  /\ down = "header" /\ unpad = FirstUnpadding
  /\ got = << >> /\ gotEnd = FALSE

-----------------------------------------------------------------------------
(* The relay at the outer pipe; the peer and the network. *)
AppSends ==
  /\ ~appEof /\ ~gone /\ given < Units[kind]
  /\ given' = given + 1
  /\ \E c \in IF kind = "vision_tls" THEN Classes ELSE {"plain"} :
       up1' = Append(up1, <<c, given + 1>>)
  /\ UNCHANGED <<kind, appEof, gone, upVars, hopUp, peerIn, peerOut, hopDown,
                 transport, downVars>>

AppCloses ==
  /\ ~appEof /\ appEof' = TRUE
  /\ UNCHANGED <<kind, given, gone, up1, upVars, hopUp, peerIn, peerOut, hopDown,
                 transport, downVars>>

AppDrops ==
  /\ ~gone /\ gone' = TRUE /\ appEof' = TRUE
  /\ UNCHANGED <<kind, given, up1, upVars, hopUp, peerIn, peerOut, hopDown,
                 transport, downVars>>

Arrive ==
  /\ coming # << >> /\ tdown # "connect"
  /\ rx' = Append(rx, Head(coming)) /\ coming' = Tail(coming)
  /\ UNCHANGED <<kind, appVars, up1, upVars, hopUp, peerIn, rxEnd, reset, hopDown,
                 transport, downVars>>

PeerEnds ==
  /\ coming = << >> /\ ~rxEnd
  /\ rxEnd' = TRUE
  /\ UNCHANGED <<kind, appVars, up1, upVars, hopUp, peerIn, coming, rx, reset,
                 hopDown, transport, downVars>>

ConnectionBreaks ==
  /\ ~reset
  /\ reset' = TRUE /\ rxEnd' = TRUE /\ coming' = << >>
  /\ UNCHANGED <<kind, appVars, up1, upVars, hopUp, peerIn, rx, hopDown,
                 transport, downVars>>

(* A post arrives, or fails, which nobody is told. *)
PostEnds ==
  /\ \E p \in posts :
       /\ posts' = posts \ {p}
       /\ \/ ~reset /\ tx' = Append(tx, p)
          \/ UNCHANGED tx
  /\ UNCHANGED <<kind, appVars, up1, upVars, hopUp, seq, txEnd, peerOut, hopDown,
                 transport, downVars>>

-----------------------------------------------------------------------------
(* The upload task of bridge_vless_stream.  A pipe is dropped when both    *)
(* tasks at its other end have returned.                                   *)
OutFails == IF kind \in Bare THEN reset ELSE tup = "end" /\ tdown = "end"
WriteOut(s) ==
  /\ ~OutFails
  /\ IF kind \in Bare THEN tx' = tx \o s /\ UNCHANGED <<seq, posts, txEnd, hopUp>>
     ELSE up2' = up2 \o s /\ UNCHANGED <<up2End, peerIn>>
(* Mutant of ShutOut: the upload returns without shutting its side down. *)
ShutOutForgotten == UNCHANGED <<peerIn, hopUp>>

ShutOut ==
  IF kind \in Bare THEN txEnd' = TRUE /\ UNCHANGED <<seq, posts, tx, hopUp>>
  ELSE up2End' = TRUE /\ UNCHANGED <<up2, peerIn>>

(* read_first_payload: a first chunk, the end, or nothing for 500 ms; then *)
(* request and what there is, in the first padding block for Vision.       *)
UpFirst ==
  /\ up = "first"
  /\ \E n \in IF up1 = << >> THEN {0}
             ELSE {m \in 1 .. Len(up1) : m <= FirstLimit} :
       LET first == SubSeq(up1, 1, n) IN
       /\ up1' = From(up1, n + 1)
       /\ \/ /\ WriteOut(<<<<"request", 0>>>> \o
                         (IF kind \in Vision THEN Padded(first, 0, TRUE) ELSE first))
             /\ up' = "relay"
          \/ OutFails /\ ShutOut /\ up' = "end"
  /\ UNCHANGED <<kind, appVars, uplink, overlong, peerOut, hopDown, transport, downVars>>

UpRelay ==
  /\ up = "relay"
  /\ \E n \in 1 .. Len(up1) :
       LET chunk == SubSeq(up1, 1, n)
           pads == kind \in Vision /\ uplink.padding
           decision == CommandFor(uplink, chunk, FALSE)
       IN
       /\ up1' = From(up1, n + 1)
       /\ uplink' = IF pads THEN decision.uplink ELSE uplink
       /\ overlong' = (overlong \/ (pads /\ n >= Width))
       /\ \/ /\ WriteOut(IF pads THEN Padded(chunk, decision.command, FALSE) ELSE chunk)
             /\ UNCHANGED up
          \/ OutFails /\ ShutOut /\ up' = "end"
  /\ UNCHANGED <<kind, appVars, peerOut, hopDown, transport, downVars>>

(* Mutant of UpEnds: the user's end is acted on before the pipe is empty. *)
UpEndsAtOnce ==
  /\ up = "relay" /\ appEof
  /\ ShutOut /\ up' = "end"
  /\ UNCHANGED <<kind, appVars, up1, uplink, overlong, peerOut, hopDown, transport, downVars>>

UpEnds ==
  /\ up = "relay" /\ up1 = << >> /\ appEof
  /\ ShutOut /\ up' = "end"
  /\ UNCHANGED <<kind, appVars, up1, uplink, overlong, peerOut, hopDown, transport, downVars>>

(* The upload task of each transport: what a read of the pipe returns is    *)
(* sent as a chunk, a message or a data frame until the connection fails,  *)
(* and the end of the pipe ends the request.                               *)
upRest == <<kind, appVars, up1, upVars, up2End, peerOut, hopDown, tdown, frag,
            downVars>>

Framed(s) ==
  CASE kind = "http1" -> <<<<"chunk", Len(s)>>>> \o s
    [] kind = "ws" -> <<<<"message", Len(s)>>>> \o s
    [] kind = "grpc" -> Hunk(s)
    [] OTHER -> s

Uploads(last) ==
  /\ tup = "relay"
  /\ \/ \E n \in 1 .. Len(up2) :
          /\ up2' = From(up2, n + 1)
          /\ IF reset THEN tup' = "end" /\ UNCHANGED peerIn
             ELSE /\ tx' = tx \o Framed(SubSeq(up2, 1, n))
                  /\ UNCHANGED <<seq, posts, txEnd, tup>>
     \/ /\ up2 = << >> /\ up2End
        /\ tup' = "end" /\ txEnd' = ~reset
        /\ tx' = IF reset THEN tx ELSE tx \o last
        /\ UNCHANGED <<up2, seq, posts>>
  /\ UNCHANGED upRest

Http1Upload == kind = "http1" /\ Uploads(<<<<"chunk", 0>>>>)
WsUpload == kind = "ws" /\ Uploads(<< >>)
H2Upload == kind \in {"h2", "grpc"} /\ Uploads(<< >>)

(* The packet transports start a task per read; they have no way to say     *)
(* that the upload has ended.                                              *)
Posts ==
  /\ tup = "relay"
  /\ \/ \E n \in 1 .. Len(up2) :
          /\ up2' = From(up2, n + 1)
          /\ posts' = posts \cup {[seq |-> seq, data |-> SubSeq(up2, 1, n)]}
          /\ seq' = seq + 1
          /\ UNCHANGED <<tx, txEnd, tup>>
     \/ up2 = << >> /\ up2End /\ tup' = "end" /\ UNCHANGED <<up2, peerIn>>
  /\ UNCHANGED upRest
PacketUpload == kind = "packet" /\ Posts
H3Upload == kind = "h3" /\ Posts

-----------------------------------------------------------------------------
(* The download task of each transport. *)
InDropped == up = "end" /\ down = "end"
DownEnd == tdown' = "end" /\ dn2End' = TRUE
tdownRest == <<kind, appVars, up1, upVars, hopUp, peerIn, coming, rxEnd, reset, tup,
               downVars>>

AwaitsResponse ==
  /\ tdown = "response"
  /\ \/ /\ rx # << >> /\ rx' = Tail(rx)
        /\ tdown' = "relay" /\ UNCHANGED dn2End
     \/ rx = << >> /\ rxEnd /\ DownEnd /\ UNCHANGED rx
  /\ UNCHANGED <<dn2, frag, tdownRest>>

(* The end of the response and an error both end the pipe cleanly. *)
ResponseEnds ==
  /\ tdown = "relay" /\ rx = << >> /\ rxEnd /\ DownEnd
  /\ UNCHANGED <<rx, dn2, frag, tdownRest>>

(* One read of the peer, out of which out is written to the pipe. *)
ReadsPeer(n) == tdown = "relay" /\ n <= Len(rx) /\ rx' = From(rx, n + 1)
WritePiped(out) ==
  IF InDropped /\ out # << >> THEN DownEnd /\ UNCHANGED dn2
  ELSE dn2' = dn2 \o out /\ UNCHANGED <<tdown, dn2End>>

(* copy, or a loop over data frames *)
Copies ==
  \/ AwaitsResponse \/ ResponseEnds
  \/ /\ \E n \in 1 .. Len(rx) : ReadsPeer(n) /\ WritePiped(SubSeq(rx, 1, n))
     /\ UNCHANGED <<frag, tdownRest>>
Http1Download == kind = "http1" /\ Copies
PacketDownload == kind = "packet" /\ Copies
H3Download == kind = "h3" /\ Copies

WsDownload ==
  /\ kind = "ws"
  /\ \/ ResponseEnds
     \/ /\ ReadsPeer(1)
        /\ CASE rx[1][1] = "close" -> DownEnd /\ UNCHANGED dn2
             [] rx[1][1] = "ping" -> UNCHANGED <<tdown, hopDown>>
             [] OTHER -> WritePiped(<<rx[1]>>)
        /\ UNCHANGED <<frag, tdownRest>>

H2Download ==
  /\ kind \in {"h2", "grpc"}
  /\ \/ AwaitsResponse \/ ResponseEnds
     \/ /\ \E n \in 1 .. Len(rx) :
             LET chunk == SubSeq(rx, 1, n)
                 hunks == IF kind = "grpc" THEN PushHunks(frag, chunk)
                          ELSE [pending |-> frag, out |-> chunk]
             IN ReadsPeer(n) /\ frag' = hunks.pending /\ WritePiped(hunks.out)
        /\ UNCHANGED tdownRest

(* The pipe of HTTP/3 is there before its connection: run_h3_xhttp_bridge   *)
(* runs behind it, and drops the other end if it fails.                    *)
H3Connects ==
  /\ tup = "connect"
  /\ \/ ~reset /\ tup' = "relay" /\ tdown' = "response" /\ UNCHANGED dn2End
     \/ reset /\ tup' = "end" /\ DownEnd
  /\ UNCHANGED <<kind, appVars, up1, upVars, hopUp, peerIn, peerOut, dn2, frag,
                 downVars>>

-----------------------------------------------------------------------------
(* The download task of bridge_vless_stream, which reads the pipe or the   *)
(* connection itself.  TLS does not decode what was written below it.      *)
In == IF kind \in Bare THEN rx ELSE dn2
InEnds ==
  IF kind \in Bare THEN (rx = << >> /\ rxEnd) \/ (rx # << >> /\ rx[1][1] = "bare")
  ELSE dn2 = << >> /\ dn2End
TakeIn(n) ==
  /\ n <= Len(In) /\ (kind \in Bare => \A i \in 1 .. n : rx[i][1] # "bare")
  /\ IF kind \in Bare THEN rx' = From(rx, n + 1) /\ UNCHANGED dn2
     ELSE dn2' = From(dn2, n + 1) /\ UNCHANGED rx
downRest == <<kind, appVars, up1, upVars, hopUp, peerIn, coming, rxEnd, reset, dn2End,
              transport>>

(* write_downlink; the pipe fails only when the relay has dropped it. *)
WriteDownlink(data, next) ==
  LET pushed == IF kind \in Vision THEN PushDownlink(unpad, data)
                ELSE [state |-> unpad, out |-> data] IN
  /\ unpad' = pushed.state
  /\ IF gone /\ pushed.out # << >> THEN down' = "end" /\ UNCHANGED <<got, gotEnd>>
     ELSE down' = next /\ got' = got \o pushed.out /\ UNCHANGED gotEnd

(* read_exact of the header: anything but version 0 is payload already.    *)
DownHeader ==
  /\ down = "header"
  /\ TakeIn(2)
  /\ IF In[1] = <<"version", 0>>
     THEN /\ down' = IF In[2][2] > 0 THEN "addon" ELSE "relay"
          /\ UNCHANGED <<unpad, got, gotEnd>>
     ELSE WriteDownlink(SubSeq(In, 1, 2), "relay")
  /\ UNCHANGED downRest

DownAddon ==
  /\ down = "addon" /\ TakeIn(1) /\ down' = "relay"
  /\ UNCHANGED <<unpad, got, gotEnd, downRest>>

DownRelay ==
  /\ down = "relay"
  /\ \E n \in 1 .. Len(In) : TakeIn(n) /\ WriteDownlink(SubSeq(In, 1, n), "relay")
  /\ UNCHANGED downRest

DownEnds ==
  /\ \/ down \in {"addon", "relay"} /\ InEnds
     \/ /\ down = "header" /\ Len(In) < 2
        /\ IF kind \in Bare THEN rxEnd ELSE dn2End
  /\ down' = "end" /\ gotEnd' = TRUE
  /\ UNCHANGED <<unpad, got, rx, dn2, downRest>>

-----------------------------------------------------------------------------
Up == UpFirst \/ UpRelay \/ UpEnds
TransportUpload ==
  \/ Http1Upload \/ WsUpload \/ H2Upload \/ PacketUpload \/ H3Connects \/ H3Upload
TransportDownload ==
  \/ Http1Download \/ WsDownload \/ H2Download \/ PacketDownload \/ H3Download
Down == DownHeader \/ DownAddon \/ DownRelay \/ DownEnds
Next ==
  \/ AppSends \/ AppCloses \/ AppDrops \/ Arrive \/ PeerEnds \/ ConnectionBreaks
  \/ PostEnds \/ Up \/ TransportUpload \/ TransportDownload \/ Down

-----------------------------------------------------------------------------
Counts(s) == LET u == UnitsIn(s) IN \A i \in DOMAIN u : u[i][2] = i

(* What the relay gets is what the peer sent behind its response header, in*)
(* order and with nothing of the framing in it, however the header, the    *)
(* padding blocks and the hunks are split over the reads.                  *)
DownloadIntact == Counts(got) /\ UnitsIn(got) = got

(* The payload as the peer reads it: the posts by their numbers, and none  *)
(* of the framing of the transport, which announces what follows it.       *)
Lost == <<"lost", 0>>
Sent ==
  IF kind \notin Packets THEN tx
  ELSE FlattenSeq([i \in 1 .. seq |->
         LET sent == {p \in posts \cup Range(tx) : p.seq = i - 1} IN
         IF sent = {} THEN <<Lost>> ELSE (CHOOSE p \in sent : TRUE).data])
Framing == {"message", "chunk", "length"}
Unframed ==
  OfTypes(Sent, Classes \cup {"uuid", "command", "content", "padding", "zero"})

(* What the peer reads is what the user sent, in order: a frame announces   *)
(* what follows it, the padding blocks of Vision decode to the user's units*)
(* with the padding ended where a command ends it, and the numbers of the  *)
(* posts keep the order, whatever order they arrive in.  A read of the     *)
(* pipe takes up to 128 KiB and the length in a padding block is two bytes:*)
(* behind a block that is longer the peer cannot follow.                   *)
UploadIntact ==
  /\ \/ Contains(Sent, Lost)
     \/ /\ Counts(Sent)
        /\ ~overlong =>
             (IF kind \in Vision THEN PushDownlink(FirstUnpadding, Unframed).out
              ELSE Unframed) = UnitsIn(Sent)
  /\ \A i \in DOMAIN Sent : Sent[i][1] \in Framing =>
       \A j \in i + 1 .. i + Sent[i][2] : IsUnit(Sent[j]) \/ Sent[j][1] = "request"

(* An end on a connection that works comes after everything: the peer sees  *)
(* the end of the upload only with all the user had sent, and the user that*)
(* of the download with all the peer had.  (The packet transport has no end*)
(* of the upload; a Vision peer may go on below TLS; and an answer without *)
(* padding that is shorter than a uuid is kept and never delivered.)       *)
Unread ==
  UnitsIn(coming \o rx \o frag \o dn2 \o
          (IF unpad.mode = "padding" THEN unpad.pending ELSE << >>))
EndsAreWhole ==
  ~reset =>
    /\ txEnd => Len(UnitsIn(Sent)) = given
    /\ gotEnd => Unread = << >>

BothEnded == appEof /\ rxEnd
TasksEnded == up = "end" /\ down = "end" /\ tup = "end" /\ tdown = "end"

(* What was written below TLS is not still there when the user is told     *)
(* that the download has ended.                                            *)
DirectIsRead ==
  ~reset /\ gotEnd => ~\E i \in DOMAIN rx : rx[i][1] = "bare"
=============================================================================
