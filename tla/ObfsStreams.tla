----------------------------- MODULE ObfsStreams -----------------------------
(***************************************************************************)
(* The stream layers of obfs.rs and ssr/obfs/tls_ticket.rs, and the        *)
(* WebSocket and HTTP/2 transports of transport.rs:                        *)
(*                                                                         *)
(*   http            an HTTP request before the payload, a response to skip*)
(*                   (HttpObfsStream and SsrHttpObfsStream)                *)
(*   tls             the payload in TLS records, the first in a ClientHello*)
(*   ticket          the same behind a handshake that has to finish first  *)
(*   head            a random first packet, the payload after its answer   *)
(*   ws, h2          messages of tungstenite, data frames of the h2 crate  *)
(*                                                                         *)
(* An action is a poll_read or poll_write, or one turn of its loop: nothing*)
(* else runs on the task in between, but the socket fills meanwhile.       *)
(***************************************************************************)
EXTENDS LayeredStream

CONSTANTS HoldLimit,   (* SSR_TLS_TICKET_MAX_PENDING_BYTES, in tokens       *)
          Width        (* units a 16-bit length no longer counts            *)

ASSUME WidthAssumption == Width \in Nat \ {0}

NoRecord == Mark("none")
FirstPhase ==
  [k \in {"http", "tls", "ticket", "head", "ws", "h2"} |->
     [first |-> TRUE,        (* first_request, ~sent_header, status 0       *)
      answer |-> TRUE,       (* first_response, ~received_response, not 8   *)
      record |-> NoRecord,   (* the header read by TlsReadState ...         *)
      left |-> 0]]           (* ... and its payload_remaining               *)

upRest == <<kind, peerVars, appVars, down, woken, got, broken, raw, plain>>
WriteTurn(kinds) == kind \in kinds /\ UpTurn /\ fed > taken
ReadTurn(kinds) == kind \in kinds /\ DownTurn
Packed(s) == <<Rec("rec", Len(s))>> \o s

(* A poll_write handed on to the socket as it is. *)
PassWrite ==
  /\ \/ \E k \in 1 .. Room(Buf) : Accepts(Buf, k) /\ Took(k)
     \/ UpPending({"write"}) /\ UNCHANGED socketOut
  /\ UNCHANGED <<phase, pend, hold>>

(* A first packet, or one that is left from the last poll. *)
WritePacket(packet) ==
  LET p == IF pend # NoPending THEN pend ELSE packet IN
  /\ phase' = [phase EXCEPT !.first = FALSE]
  /\ WriteAll(p, Took(p.len))
  /\ UNCHANGED hold

-----------------------------------------------------------------------------
(* poll_write *)
HttpPollWrite ==
  /\ WriteTurn({"http"})
  /\ IF pend # NoPending \/ phase.first
     THEN WritePacket([data |-> <<Rec("request", Len(Buf))>> \o Buf,
                       len |-> Len(Buf)])
     ELSE PassWrite
  /\ UNCHANGED upRest

(* A record's length, and those of a ClientHello, are cut to 16 bits, while *)
(* the relay may write 128 KiB at once; a "wrapped" header is one that says *)
(* less than follows it.                                                   *)
TlsHeader(type, s) ==
  IF Len(s) < Width THEN Rec(type, Len(s)) ELSE Rec("wrapped", Len(s) % Width)

TlsPollWrite ==
  /\ WriteTurn({"tls"})
  /\ WritePacket([data |-> <<TlsHeader(IF phase.first THEN "hello" ELSE "rec",
                                       Buf)>> \o Buf,
                  len |-> Len(Buf)])
  /\ UNCHANGED upRest

TicketPollWrite ==
  /\ WriteTurn({"ticket"})
  /\ CASE pend # NoPending ->
            /\ WriteAll(pend, Took(pend.len))     (* 0: the loop goes on *)
            /\ UNCHANGED <<phase, hold, down, woken, broken>>
       [] pend = NoPending /\ ~phase.answer ->
            /\ WriteAll([data |-> Packed(Buf), len |-> Len(Buf)], Took(Len(Buf)))
            /\ UNCHANGED <<phase, hold, down, woken, broken>>
       [] pend = NoPending /\ phase.answer /\ Len(hold) + Len(Buf) > HoldLimit ->
            Fail /\ UNCHANGED <<socketOut, fed, taken, phase, pend, hold>>
       [] OTHER ->
            /\ hold' = hold \o Packed(Buf)
            /\ phase' = [phase EXCEPT !.first = FALSE]
            /\ IF phase.first
               THEN WriteAll([data |-> <<Mark("hello")>>, len |-> Len(Buf)],
                             Took(Len(Buf)))
               ELSE Took(Len(Buf)) /\ UNCHANGED <<socketOut, pend>>
            /\ UNCHANGED <<down, woken, broken>>
  /\ UNCHANGED <<kind, peerVars, appVars, got, raw, plain>>

(* The payload is put aside before the first packet is written, and put    *)
(* aside once more when poll_write is called again after a Pending.        *)
HeadPollWrite ==
  /\ WriteTurn({"head"})
  /\ CASE pend # NoPending ->
            WriteAll(pend, Took(0)) /\ UNCHANGED <<phase, hold>>
       [] pend = NoPending /\ ~phase.answer -> PassWrite
       [] OTHER ->
            /\ hold' = hold \o Buf
            /\ phase' = [phase EXCEPT !.first = FALSE]
            /\ IF phase.first
               THEN WriteAll([data |-> <<Mark("head")>>, len |-> Len(Buf)],
                             Took(Len(Buf)))
               ELSE Took(Len(Buf)) /\ UNCHANGED <<socketOut, pend>>
  /\ UNCHANGED upRest

(* tungstenite queues a message once the last one has been flushed. *)
WsPollWrite ==
  /\ WriteTurn({"ws"})
  /\ IF pend # NoPending THEN WriteAll(pend, Took(0))
     ELSE /\ pend' = [data |-> Packed(Buf), len |-> 0]
          /\ Took(Len(Buf)) /\ UNCHANGED socketOut
  /\ UNCHANGED <<upRest, phase, hold>>

(* A frame as large as the capacity granted; Pending registers no waker    *)
(* when poll_capacity has just said that the capacity is zero.             *)
H2PollWrite ==
  /\ WriteTurn({"h2"})
  /\ \/ \E k \in 1 .. Len(Buf) :
          LET frame == Packed(SubSeq(Buf, 1, k)) IN
          Room(frame) = Len(frame) /\ Accepts(frame, Len(frame)) /\ Took(k)
     \/ \E ws \in {{"write"}, {}} : UpPending(ws) /\ UNCHANGED socketOut
  /\ UNCHANGED <<upRest, phase, pend, hold>>

(* Nothing to write: poll_flush at a Pending read of the application, and  *)
(* poll_shutdown once it has closed.                                       *)
Flushes == kind \in {"ticket", "ws"}
PollFlush ==
  /\ UpToFlush /\ ~appEof
  /\ IF Flushes /\ pend # NoPending
     THEN \E k \in 0 .. Room(pend.data) :
            /\ Accepts(pend.data, k)
            /\ IF k = Len(pend.data) THEN pend' = NoPending /\ UpSleeps
               ELSE /\ pend' = [pend EXCEPT !.data = SubSeq(@, k + 1, Len(@))]
                    /\ UpPending({"write"}) /\ UNCHANGED <<down, woken>>
     ELSE UpSleeps /\ UNCHANGED <<socketOut, pend>>
  /\ UNCHANGED <<kind, peerVars, appVars, fed, taken, got, broken,
                 phase, raw, plain, hold>>

PollShutdown ==
  /\ UpToFlush /\ appEof
  /\ IF Flushes /\ pend # NoPending
     THEN /\ WriteAll(pend, UNCHANGED <<taken, fed, up, wakers>>)
          /\ UNCHANGED <<down, woken>>
     ELSE shut' = TRUE /\ UpEnds /\ UNCHANGED <<tx, pend, fed, taken>>
  /\ UNCHANGED <<kind, peerVars, appVars, got, broken, phase, raw, plain, hold>>

-----------------------------------------------------------------------------
(* poll_read.  Frames: what every turn of a read leaves alone, and what one *)
(* that gets nothing leaves alone as well.                                 *)
readRest == <<kind, coming, closed, appVars, fed, taken>>
readNothing == <<readRest, socketOut, rx, got, broken, phase, plain, pend, hold>>

Drain(kinds) ==
  /\ ReadTurn(kinds) /\ plain # << >>
  /\ Deliver(plain)
  /\ UNCHANGED <<readRest, socketOut, rx, broken, phase, raw, pend, hold>>

ReadPending == NothingToRead /\ DownPending({"read"}) /\ UNCHANGED readNothing
ReadEnds == AtEof /\ EndOfStream /\ UNCHANGED <<readNothing, raw>>
ReadFails ==
  Fail /\ UNCHANGED <<readRest, socketOut, rx, got, phase, raw, plain, pend, hold>>

(* A poll_read handed on to the socket as it is. *)
PassRead ==
  \/ /\ ReadsAll /\ got' = got \o rx
     /\ UNCHANGED <<readRest, socketOut, turnVars, broken, phase, raw, plain,
                    pend, hold>>
  \/ ReadPending /\ UNCHANGED raw
  \/ ReadEnds

(* One more turn of a loop that gathers its input in raw. *)
GatherRead ==
  /\ ReadsAll /\ raw' = raw \o rx
  /\ UNCHANGED <<readRest, socketOut, turnVars, got, broken, phase, plain, pend,
                 hold>>

DrainBuffer == Drain({"http", "tls", "ticket", "ws", "h2"})

(* The response is gathered in read_buffer.  If the poll ends before the   *)
(* headers do it stays there, and the next poll drains it as payload; and  *)
(* a response that ends with its headers fills nothing, as an end would.   *)
HttpPollRead ==
  /\ ReadTurn({"http"}) /\ plain = << >>
  /\ IF ~phase.answer THEN PassRead
     ELSE \/ LET seen == raw \o rx IN
               /\ ReadsAll
               /\ IF ~Has(seen, "end")
                  THEN raw' = seen /\ UNCHANGED <<turnVars, got, plain, phase>>
                  ELSE LET body == SubSeq(seen, 1 + CHOOSE i \in DOMAIN seen :
                                                  seen[i].t = "end", Len(seen))
                       IN /\ raw' = << >>
                          /\ phase' = [phase EXCEPT !.answer = FALSE]
                          /\ IF body = << >> THEN EndOfStream /\ UNCHANGED <<got, plain>>
                             ELSE Deliver(body)
               /\ UNCHANGED <<readRest, socketOut, broken, pend, hold>>
          \/ /\ NothingToRead /\ DownPending({"read"})
             /\ plain' = raw /\ raw' = << >>
             /\ UNCHANGED <<readRest, socketOut, rx, got, broken, phase, pend, hold>>
          \/ AtEof /\ ReadFails

(* TlsReadState.poll_read_record: the header and how much is left survive a*)
(* Pending, the payload read so far (output, here raw) is a local variable.*)
TlsReadHeader ==
  /\ ReadTurn({"tls"}) /\ plain = << >> /\ phase.record = NoRecord
  /\ \/ /\ rx # << >> /\ rx[1].t \in {"rec", "shake"} /\ Reads(1)
        /\ phase' = [phase EXCEPT !.record = rx[1], !.left = rx[1].v]
        /\ UNCHANGED <<readRest, socketOut, turnVars, got, broken, raw, plain,
                       pend, hold>>
     \/ (AtEof \/ (rx # << >> /\ rx[1].t \notin {"rec", "shake"})) /\ ReadFails
     \/ ReadPending /\ UNCHANGED raw

TlsReadPayload ==
  /\ ReadTurn({"tls"}) /\ plain = << >> /\ phase.left > 0
  /\ \/ LET n == IF Len(rx) < phase.left THEN Len(rx) ELSE phase.left IN
          /\ rx # << >> /\ Reads(n)
          /\ raw' = raw \o SubSeq(rx, 1, n)
          /\ phase' = [phase EXCEPT !.left = @ - n]
          /\ UNCHANGED <<readRest, socketOut, turnVars, got, broken, plain, pend,
                         hold>>
     \/ AtEof /\ ReadFails
     \/ ReadPending /\ raw' = << >>

TlsReadRecord ==
  /\ ReadTurn({"tls"}) /\ phase.record # NoRecord /\ phase.left = 0
  /\ raw' = << >>
  /\ IF phase.answer /\ phase.record.t # "rec"
     THEN /\ phase' = [phase EXCEPT !.record = NoRecord]
          /\ UNCHANGED <<turnVars, got, plain>>
     ELSE /\ phase' = [phase EXCEPT !.record = NoRecord, !.answer = FALSE]
          /\ IF raw = << >> THEN EndOfStream /\ UNCHANGED <<got, plain>>
             ELSE Deliver(raw)
  /\ UNCHANGED <<readRest, socketOut, rx, broken, pend, hold>>

(* A pending_write that poll_read finishes first; Sleeps is how it is left *)
(* when the socket takes all of it.                                        *)
WriteFromRead(p, Sleeps) ==
  /\ IF shut THEN Fail /\ pend' = NoPending /\ UNCHANGED socketOut
     ELSE \E k \in 0 .. Room(p.data) :
            /\ Accepts(p.data, k) /\ UNCHANGED broken
            /\ IF k = Len(p.data) THEN pend' = NoPending /\ Sleeps
               ELSE /\ pend' = [p EXCEPT !.data = SubSeq(@, k + 1, Len(@))]
                    /\ DownPending({"write"})
  /\ UNCHANGED <<readRest, got, plain>>

FinishPending ==
  /\ ReadTurn({"ticket", "head"}) /\ pend # NoPending
  /\ WriteFromRead(pend, UNCHANGED turnVars)
  /\ UNCHANGED <<rx, phase, raw, hold>>

(* Where the last complete record of the input ends.                       *)
RecordsEnd(s) ==
  LET end[i \in 1 .. Len(s) + 1] ==
        IF i <= Len(s) /\ s[i].t = "rec" /\ i + s[i].v <= Len(s)
        THEN end[i + s[i].v + 1] ELSE i - 1
  IN end[1]

(* The server's handshake is looked at once 76 bytes of it are there, and  *)
(* has to verify as it is then.  The poll that writes the finish returns   *)
(* Pending although no read of it is registered.                           *)
TicketPollRead ==
  /\ ReadTurn({"ticket"}) /\ plain = << >> /\ pend = NoPending
  /\ IF ~phase.answer
     THEN LET end == RecordsEnd(raw)
              bad == end < Len(raw) /\ raw[end + 1].t # "rec"
          IN IF bad THEN ReadFails
             ELSE IF end > 0
             THEN /\ Deliver(Payload(SubSeq(raw, 1, end)))
                  /\ raw' = SubSeq(raw, end + 1, Len(raw))
                  /\ UNCHANGED <<readRest, socketOut, rx, broken, phase, pend, hold>>
             ELSE \/ GatherRead
                  \/ ReadPending /\ UNCHANGED raw
                  \/ ReadEnds
     ELSE IF Len(raw) < 2
     THEN \/ GatherRead
          \/ ReadPending /\ UNCHANGED raw
          \/ ReadEnds
     ELSE IF raw # <<Mark("hello"), Mark("hello"), Mark("hello")>> THEN ReadFails
     ELSE /\ WriteFromRead([data |-> <<Mark("finish")>> \o hold, len |-> 0],
                           DownPending({}))
          /\ raw' = << >> /\ hold' = << >>
          /\ phase' = [phase EXCEPT !.answer = FALSE]
          /\ UNCHANGED rx

(* One read of the answer is thrown away, whatever it brings of it, and the*)
(* payload put aside is written; again the poll returns Pending without    *)
(* having registered a read.                                               *)
HeadPollRead ==
  /\ ReadTurn({"head"}) /\ pend = NoPending
  /\ IF ~phase.answer THEN PassRead
     ELSE \/ /\ ReadsAll /\ hold' = << >> /\ UNCHANGED raw
             /\ phase' = [phase EXCEPT !.answer = FALSE]
             /\ IF hold # << >>
                THEN WriteFromRead([data |-> hold, len |-> 0], DownPending({}))
                ELSE DownPending({}) /\ UNCHANGED <<readRest, socketOut, got,
                                                    broken, plain, pend>>
          \/ ReadPending /\ UNCHANGED raw
          \/ ReadEnds

(* A message or data frame of the library.  Its payload is handed over, a   *)
(* ping is skipped, and the end of the messages is that of the stream.     *)
WholeMessage == raw # << >> /\ (raw[1].t = "rec" => Len(raw) > raw[1].v)
messageRest == <<readRest, socketOut, rx, broken, phase, pend, hold>>
NextMessage ==
  IF ~WholeMessage
  THEN \/ GatherRead
       \/ ReadPending /\ UNCHANGED raw
       \/ AtEof /\ ReadFails
  ELSE \/ /\ raw[1].t = "rec"
          /\ Deliver(SubSeq(raw, 2, 1 + raw[1].v))
          /\ raw' = SubSeq(raw, 2 + raw[1].v, Len(raw))
          /\ UNCHANGED messageRest
       \/ /\ raw[1].t = "close" /\ EndOfStream
          /\ UNCHANGED <<messageRest, got, plain, raw>>

H2PollRead == ReadTurn({"h2"}) /\ plain = << >> /\ NextMessage
WsPollRead ==
  /\ ReadTurn({"ws"}) /\ plain = << >>
  /\ \/ NextMessage
     \/ /\ WholeMessage /\ raw[1].t = "ping" /\ raw' = Tail(raw)
        /\ UNCHANGED <<messageRest, turnVars, got, plain>>

-----------------------------------------------------------------------------
Polls ==
  \/ HttpPollWrite \/ TlsPollWrite \/ TicketPollWrite \/ HeadPollWrite
  \/ WsPollWrite \/ H2PollWrite \/ PollFlush \/ PollShutdown
  \/ DrainBuffer \/ HttpPollRead \/ TlsReadHeader \/ TlsReadPayload
  \/ TlsReadRecord \/ FinishPending \/ TicketPollRead \/ HeadPollRead
  \/ WsPollRead \/ H2PollRead
=============================================================================
