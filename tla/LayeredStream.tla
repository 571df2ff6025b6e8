---------------------------- MODULE LayeredStream ----------------------------
(***************************************************************************)
(* What the stream layers of the Shadowsocks adapter have in common: one   *)
(* task, tokio's copy_bidirectional (flow.rs), polls a layer over a TCP    *)
(* socket in both directions.  It runs until both directions are Pending   *)
(* and then sleeps; it runs again only if something happens that one of    *)
(* its polls has registered a waker for.                                   *)
(*                                                                         *)
(* Bytes are tokens: payload units, and the heads, handshake messages and  *)
(* record headers that layers put around them.  Arrivals, and what the     *)
(* socket accepts of a write, split them anywhere.                         *)
(***************************************************************************)
EXTENDS Integers, Sequences, FiniteSets, SequencesExt

CONSTANTS Kinds,       (* the layers to consider                           *)
          Units,       (* bound: payload units in each direction           *)
          WireLimit,   (* bound, per layer: tokens the socket ever takes   *)
          Window       (* units an HTTP/2 peer may send unreleased         *)

ASSUME LayerAssumption == Units \in Nat \ {0} /\ Window \in Nat \ {0}
                   /\ WireLimit \in [Kinds -> Nat]

Data(n) == [t |-> "data", v |-> n]
Mark(t) == [t |-> t, v |-> 0]
Rec(type, n) == [t |-> type, v |-> n]     (* the header of a record or message *)
IsData(token) == token.t = "data"
Payload(s) == SelectSeq(s, IsData)
Has(s, t) == \E i \in DOMAIN s : s[i].t = t
NoPending == [data |-> << >>, len |-> 0]

(* What the peer of each layer sends: the payload in records of 2, 1 and 1 *)
(* units, after the handshake of the layer.  A cover server of ShadowTLS    *)
(* may send a session ticket right behind its last handshake message.  A   *)
(* ShadowsocksR server frames as the encoders of ssr.rs do, the only ones  *)
(* there are to go by: a pad token is followed by the padding, and says    *)
(* how much of it there is; in sha1_v4 and aes128 it counts itself as well *)
(* (pack_auth_sha1_v4_random), and a unit there is a byte.  The server ends*)
(* with what is not a frame: a length out of range (0), a wrong CRC or     *)
(* checksum, a frame of another number, or padding beyond the frame's end. *)
Records(first) ==
  <<Rec("rec", first)>> \o [i \in 1 .. first |-> Data(i)] \o
  FlattenSeq([i \in 1 .. Units - first |-> <<Rec("rec", 1), Data(first + i)>>])
Tagged ==
  FlattenSeq([i \in 1 .. Units |-> <<Rec("rec", 2), Rec("tag", i), Data(i)>>])
SsrFrame(fields) == <<Rec("len", Len(fields))>> \o fields
SsrFrames(Fields(_)) == FlattenSeq([i \in 1 .. Units |-> SsrFrame(Fields(i))])
Shake(hello, tag) ==
  <<Rec("shake", 1), Mark(hello)>> \o
  (IF tag = "none" THEN <<Rec("shake", 1), Mark("finished")>>
   ELSE <<Rec("rec", 2), Rec(tag, 1), Mark("finished"),
          Rec("rec", 1), Rec(tag, 2)>>)
Script ==
  LET bare == [i \in 1 .. Units |-> Data(i)]
      framed == Records(IF Units = 1 THEN 1 ELSE 2)
      pad == Mark("pad")
      simple(i) == <<Data(i), Rec("sum", 1)>>
      sha1(i) == <<Rec("sum", i), Data(i)>>
      early == <<Rec("pad", 1), pad>> \o bare \o <<Rec("sum", 1)>>
      v4 == <<Rec("crc", 1), Rec("pad", 1)>> \o bare \o <<Rec("sum", 1)>>
      chain(i) == (IF i = 1 THEN <<pad, Mark("skipped")>> ELSE <<pad>>)
                  \o <<Data(i), pad, Rec("sum", i)>>
      http == <<Mark("line"), Mark("end")>> \o bare
  IN [http |-> http,
      tls |-> <<Rec("shake", 1), Mark("hello")>> \o framed,
      ticket |-> <<Mark("hello"), Mark("hello"), Mark("hello")>> \o framed,
      head |-> <<Mark("hello"), Mark("hello")>> \o bare,
      ws |-> <<Mark("ping")>> \o framed \o <<Mark("close")>>,
      h2 |-> Records(1) \o <<Mark("close")>>,
      st1 |-> Shake("hello12", "none") \o bare,
      st2 |-> Shake("hello13", "hs") \o framed,
      st3 |-> Shake("hello13", "hstag") \o Tagged,
      st3_12 |-> Shake("hello12", "none") \o Tagged,
      verify_simple |-> SsrFrames(simple) \o <<Rec("len", 0), Data(1)>>,
      verify_sha1 |-> SsrFrames(sha1) \o <<Rec("len", 2), Rec("sum", 1), Data(1)>>,
      auth |-> SsrFrame(early) \o SsrFrame(<<Rec("pad", 2), Rec("sum", 1)>>),
      sha1_v4 |-> SsrFrame(v4) \o <<Rec("len", 3), Rec("crc", 0), Data(1)>>,
      aes128 |-> SsrFrame(v4) \o <<Rec("len", 3), Rec("crc", 1), Data(1)>>,
      chain |-> SsrFrames(chain) \o <<Rec("len", 2), Data(1), Rec("sum", 1)>>]

(* How many of these tokens come before the payload and its headers. *)
Handshake ==
  [k \in DOMAIN Script |->
     CASE k \in {"http", "tls", "head"} -> 2 [] k = "ticket" -> 3
       [] k = "ws" -> 1 [] k = "h2" -> 0
       [] k \in {"st1", "st3_12"} -> 4
       [] k \in {"st2", "st3"} -> 7 [] OTHER -> 0]

VARIABLES kind,
          coming,   (* tokens the peer has still to send                   *)
          rx,       (* tokens at the socket, not read yet                  *)
          closed,   (* the peer has closed its side                        *)
          tx,       (* tokens the socket has accepted                      *)
          shut,     (* the writing side has been shut down                 *)
          up, down, (* where the two directions of the relay are           *)
          wakers,   (* what its polls have registered wakers for           *)
          woken,    (* the task has been woken since its run began         *)
          given,    (* payload units the application has handed over       *)
          appEof,   (* ... and it has closed its side                      *)
          fed,      (* units the relay has read of them                    *)
          taken,    (* units a poll_write has returned Ready for           *)
          got,      (* tokens the relay has handed to the application      *)
          broken,   (* a poll returned an error: the relay has ended       *)
          phase,    (* the flags of the layer                              *)
          raw,      (* its undecoded input (read_raw)                      *)
          plain,    (* its decoded input (read_buffer)                     *)
          pend,     (* its pending_write: what is left, original_len       *)
          hold      (* payload it keeps for later (send_buffer)            *)

peerVars == <<coming, rx, closed>>
socketOut == <<tx, shut>>
appVars == <<given, appEof>>
relayVars == <<fed, taken, got, broken>>
turnVars == <<up, down, wakers, woken>>
layerVars == <<phase, raw, plain, pend, hold>>
vars == <<kind, peerVars, socketOut, turnVars, appVars, relayVars, layerVars>>

(* The relay's upload buffer: read from the application, not accepted yet. *)
Buf == [i \in 1 .. fed - taken |-> Data(taken + i)]

StreamInit(phases) ==
  /\ kind \in Kinds
  /\ coming = Script[kind] /\ rx = << >> /\ closed = FALSE
  /\ tx = << >> /\ shut = FALSE
  /\ wakers = {} /\ woken = FALSE
  /\ given = 0 /\ appEof = FALSE /\ fed = 0 /\ taken = 0
  /\ got = << >> /\ broken = FALSE
  /\ phase = phases[kind]
  /\ raw = << >> /\ plain = << >> /\ pend = NoPending /\ hold = << >>

(* A wake-up makes the task run once more, after the run it is in.         *)
Wake(w) ==
  /\ wakers' = wakers \ {w}
  /\ woken' = (woken \/ w \in wakers)
  /\ UNCHANGED <<up, down>>

Runs ==
  /\ woken /\ up # "poll" /\ down # "poll" /\ ~broken
  /\ woken' = FALSE
  /\ up' = IF up = "wait" THEN "poll" ELSE up
  /\ down' = IF down = "wait" THEN "poll" ELSE down
  /\ UNCHANGED <<kind, peerVars, socketOut, wakers, appVars, relayVars, layerVars>>

-----------------------------------------------------------------------------
(* The application, which the relay reads once it is connected, and the     *)
(* socket.                                                                 *)
AppSends ==
  /\ ~appEof /\ given < Units /\ up # "connect"
  /\ given' = given + 1
  /\ Wake("app")
  /\ UNCHANGED <<kind, peerVars, socketOut, appEof, relayVars, layerVars>>

AppCloses ==
  /\ ~appEof /\ given > 0 /\ up # "connect"
  /\ appEof' = TRUE
  /\ Wake("app")
  /\ UNCHANGED <<kind, peerVars, socketOut, given, relayVars, layerVars>>

(* A cover server ends the connection if the ClientHello is garbled. *)
Rejected ==
  /\ kind \in {"st3", "st3_12"} /\ Len(tx) >= 2
  /\ SubSeq(tx, 1, 2) # <<Mark("patched"), Mark("patched")>>

(* The peer answers what it has read of tx; an HTTP/2 peer also keeps to   *)
(* the window, which nobody enlarges.                                      *)
Answers(tail) ==
  LET next == tail[1].t
      payload == Len(tail) <= Len(Script[kind]) - Handshake[kind]
  IN
  /\ kind \notin {"ws", "h2"} => tx # << >> /\ (payload => Has(tx, "data"))
  /\ kind = "h2" /\ next = "data" =>
       Len(Payload(Script[kind])) - Len(Payload(coming)) < Window
  /\ kind = "ticket" /\ payload => Has(tx, "finish")
  /\ ~Rejected
  /\ kind \in {"st1", "st2"} => Len(tx) >= 2

Arrive ==
  /\ coming # << >> /\ Answers(coming)
  /\ rx' = Append(rx, Head(coming)) /\ coming' = Tail(coming)
  /\ Wake("read")
  /\ UNCHANGED <<kind, closed, socketOut, appVars, relayVars, layerVars>>

(* The peer may close at any time, in the middle of a record too. *)
PeerCloses ==
  /\ ~closed
  /\ closed' = TRUE /\ coming' = << >>
  /\ Wake("read")
  /\ UNCHANGED <<kind, rx, socketOut, appVars, relayVars, layerVars>>

Writable ==
  /\ "write" \in wakers
  /\ Wake("write")
  /\ UNCHANGED <<kind, peerVars, socketOut, appVars, relayVars, layerVars>>

-----------------------------------------------------------------------------
(* What a poll of the layer may come to, and what it does on the socket.   *)
(* The upload is polled first, the download once the upload is Pending.    *)
UpTurn == up = "poll" /\ ~broken
DownTurn == down = "poll" /\ up # "poll" /\ ~broken

(* poll_write of the socket: it takes k tokens of s. *)
Room(s) ==
  IF Len(tx) + Len(s) <= WireLimit[kind] THEN Len(s) ELSE WireLimit[kind] - Len(tx)
Accepts(s, k) == tx' = tx \o SubSeq(s, 1, k) /\ UNCHANGED shut
(* Mutant of Took: after a short write the buffer is sent from its start.  *)
TookNothing(n) == UNCHANGED <<taken, fed, up, wakers>>

(* Ready(n): the relay goes on with the rest. *)
Took(n) == taken' = taken + n /\ UNCHANGED <<fed, up, wakers>>
(* Pending: the relay still tops its buffer up. *)
UpPending(ws) ==
  /\ up' = "wait" /\ wakers' = wakers \cup ws \cup {"app"}
  /\ fed' = given /\ UNCHANGED taken

(* Mutant of WriteAll: a short write counts as the whole packet. *)
WriteAllShort(p, Done) ==
  \E k \in 0 .. Room(p.data) : Accepts(p.data, k) /\ pend' = NoPending /\ Done

(* PendingWrite.poll_write_all of p: whole, or as far as the socket takes. *)
WriteAll(p, Done) ==
  \E k \in 0 .. Room(p.data) :
    /\ Accepts(p.data, k)
    /\ IF k = Len(p.data) THEN pend' = NoPending /\ Done
       ELSE /\ pend' = [p EXCEPT !.data = SubSeq(p.data, k + 1, Len(p.data))]
            /\ UpPending({"write"})

(* Mutant of Deliver: what does not fit the caller's buffer is dropped. *)
DeliverTruncated(s) ==
  \E k \in 1 .. Len(s) :
    /\ got' = got \o SubSeq(s, 1, k)
    /\ plain' = << >>
    /\ UNCHANGED turnVars

(* Handing decoded tokens to the caller, whose buffer may be smaller. *)
Deliver(s) ==
  \E k \in 1 .. Len(s) :
    /\ got' = got \o SubSeq(s, 1, k)
    /\ plain' = SubSeq(s, k + 1, Len(s))
    /\ UNCHANGED turnVars
(* A Ready poll_read that fills nothing is the end of the stream. *)
EndOfStream == down' = "end" /\ UNCHANGED <<up, wakers, woken>>
(* Mutant of DownPending: no waker is registered. *)
DownPendingUnregistered(ws) ==
  down' = "wait" /\ UNCHANGED <<up, wakers, woken>>

DownPending(ws) ==
  down' = "wait" /\ wakers' = wakers \cup ws /\ UNCHANGED <<up, woken>>
Fail ==
  broken' = TRUE /\ up' = "end" /\ down' = "end" /\ wakers' = {} /\ UNCHANGED woken

(* poll_read of the socket.  A read that finds room for less than there is *)
(* is a read at which less has arrived.                                    *)
Reads(n) == rx' = SubSeq(rx, n + 1, Len(rx))
ReadsAll == rx # << >> /\ rx' = << >>
NothingToRead == rx = << >> /\ ~closed
AtEof == rx = << >> /\ closed

(* The relay's own steps: filling its buffer, flushing, shutting down.     *)
UpFill ==
  /\ UpTurn /\ fed = taken /\ given > fed
  /\ fed' = given
  /\ UNCHANGED <<kind, peerVars, socketOut, turnVars, appVars, taken, got,
                 broken, layerVars>>
UpToFlush == UpTurn /\ fed = taken /\ given = fed
UpSleeps ==
  up' = "wait" /\ wakers' = wakers \cup {"app"} /\ UNCHANGED <<down, woken>>
UpEnds == up' = "end" /\ UNCHANGED <<down, wakers, woken>>
=============================================================================
