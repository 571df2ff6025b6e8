--------------------------- MODULE ShadowTlsStream ---------------------------
(***************************************************************************)
(* ShadowTlsStream and ShadowTlsV3HandshakeStream of transport.rs.  The    *)
(* client shakes hands through a TLS server that covers for the proxy;     *)
(* then the payload travels in application data records of its own:        *)
(*                                                                         *)
(*   st1  bare, st2  the first record carries an authentication tag,       *)
(*   st3  each record carries a tag chained over all before it, and so do  *)
(*        the handshake records if the cover speaks TLS 1.3 (st3_12: 1.2)  *)
(*                                                                         *)
(* A tag of a chain is its position in it: it verifies if all before it    *)
(* have been folded in and nothing else.  rustls is external.              *)
(***************************************************************************)
EXTENDS LayeredStream

Chained == {"st3", "st3_12"}
Shadow == {"st1", "st2"} \cup Chained

ShadowPhase ==
  [stage |-> "hello",      (* hello, handshake, relay                      *)
   patched |-> FALSE,      (* wrote_client_hello                           *)
   authorized |-> FALSE,
   auth |-> TRUE,          (* st2: auth_tag is still to be sent            *)
   sent |-> 0,             (* hmac_add: records of ours folded in          *)
   seen |-> 0,             (* hmac_verify: records of the server           *)
   shakes |-> 0,           (* read_hmac: handshake records                 *)
   ignoring |-> TRUE]      (* hmac_ignore is Some                          *)

connectRest == <<kind, turnVars, appVars, relayVars, shut, pend, hold>>
Connecting(stage) == kind \in Shadow /\ phase.stage = stage /\ ~broken
ConnectFails ==
  /\ broken' = TRUE
  /\ UNCHANGED <<kind, peerVars, socketOut, turnVars, appVars, fed, taken, got,
                 layerVars>>

(* The ClientHello.  If the socket takes only part of the patched one, the *)
(* rest is dropped and rustls's next call writes its own, unpatched.       *)
ShadowHello ==
  /\ Connecting("hello")
  /\ LET patch == kind \in Chained /\ ~phase.patched
         hello == IF patch THEN <<Mark("patched"), Mark("patched")>>
                  ELSE <<Mark("hello"), Mark("hello")>>
     IN \E k \in 0 .. 2 :
          /\ tx' = tx \o SubSeq(hello, 1, k)
          /\ patch \/ k = 2
          /\ phase' = [phase EXCEPT !.patched = TRUE,
                                    !.stage = IF k = 2 THEN "handshake" ELSE @]
  /\ UNCHANGED <<connectRest, peerVars, raw, plain>>

(* The first record of raw, if all of it is there. *)
Whole(s) == s # << >> /\ Len(s) > s[1].v
First(s) == SubSeq(s, 2, 1 + s[1].v)
After(s) == SubSeq(s, 2 + s[1].v, Len(s))
Decodable(s) == s # << >> /\ (s[1].t = "rec" => Whole(s))
Verifies(record, tag, n) == record # << >> /\ record[1] = Rec(tag, n)

(* shadow_tls_v3_drain_handshake_records; for st1 and st2, rustls alone.   *)
ShadowHandshakeRecord ==
  /\ Connecting("handshake") /\ Whole(raw)
  /\ raw' = After(raw) /\ plain' = plain \o First(raw)
  /\ phase' =
       CASE kind \notin Chained -> [phase EXCEPT !.authorized = TRUE]
         [] kind \in Chained /\ raw[1].t = "shake" ->     (* the ServerHello *)
              [phase EXCEPT !.authorized = @ \/ Has(First(raw), "hello12")]
         [] OTHER ->
              LET ok == Verifies(First(raw), "hstag", phase.shakes + 1) IN
              [phase EXCEPT !.authorized = ok,
                            !.shakes = IF ok THEN @ + 1 ELSE Units + 9]
  /\ UNCHANGED <<connectRest, peerVars, tx>>

(* rustls is done once it has the server's last message and has answered:  *)
(* what has been read beyond the handshake is dropped with its stream.     *)
ShadowConnected ==
  /\ Connecting("handshake") /\ Has(plain, "finished")
  /\ IF ~phase.authorized THEN ConnectFails
     ELSE /\ phase' = [phase EXCEPT !.stage = "relay"]
          /\ tx' = Append(tx, Mark("finished"))
          /\ raw' = << >> /\ plain' = << >>
          /\ up' = "poll" /\ down' = "poll"
          /\ UNCHANGED <<kind, peerVars, shut, wakers, woken, appVars, relayVars,
                         pend, hold>>

ShadowHandshakeRead ==
  /\ Connecting("handshake") /\ ~Whole(raw) /\ ~Has(plain, "finished")
  /\ \/ /\ ReadsAll /\ raw' = raw \o rx
        /\ UNCHANGED <<connectRest, coming, closed, tx, phase, plain>>
     \/ AtEof /\ ConnectFails

-----------------------------------------------------------------------------
(* One record of the payload.  A pending_write is taken out of its slot and*)
(* not put back when the socket is Pending: the next call encodes its      *)
(* buffer anew, without the tag of st2, one further in the chain of st3.   *)
Encoded ==
  LET tag == IF kind \in Chained THEN <<Rec("tag", phase.sent + 1)>>
             ELSE IF phase.auth THEN <<Mark("auth")>> ELSE << >>
  IN <<Rec("rec", Len(tag) + Len(Buf))>> \o tag \o Buf

(* More than the wire will hold is as good as any larger number.           *)
Following(n) == IF kind \notin Chained \/ n > Units THEN n ELSE n + 1

ShadowPollWrite ==
  /\ kind \in Shadow /\ UpTurn /\ fed > taken
  /\ IF kind = "st1"
     THEN /\ \/ \E k \in 1 .. Room(Buf) : Accepts(Buf, k) /\ Took(k)
             \/ UpPending({"write"}) /\ UNCHANGED socketOut
          /\ UNCHANGED phase
     ELSE /\ \E k \in {0, 1, Room(Encoded)} \cap 0 .. Room(Encoded) :
               /\ Accepts(Encoded, k)
               /\ IF k = Len(Encoded) THEN Took(Len(Buf)) ELSE UpPending({"write"})
          /\ phase' = [phase EXCEPT !.auth = FALSE, !.sent = Following(@)]
  /\ UNCHANGED <<kind, peerVars, appVars, down, woken, got, broken, raw, plain,
                 pend, hold>>

(* shadow_tls_drain_records, one record a turn. *)
ShadowPollRecord ==
  /\ kind \in Shadow \ {"st1"} /\ DownTurn /\ plain = << >> /\ Decodable(raw)
  /\ LET record == First(raw)
         ignored == phase.ignoring /\ Verifies(record, "hstag", phase.shakes + 1)
         verified == Verifies(record, "tag", phase.seen + 1)
     IN IF raw[1].t # "rec" THEN Fail /\ UNCHANGED <<phase, raw, plain>>
        ELSE CASE kind = "st2" -> /\ plain' = record /\ raw' = After(raw)
                                  /\ UNCHANGED <<turnVars, broken, phase>>
               [] kind # "st2" /\ ignored ->
                    /\ phase' = [phase EXCEPT !.shakes = @ + 1]
                    /\ raw' = After(raw) /\ UNCHANGED <<turnVars, broken, plain>>
               [] kind # "st2" /\ ~ignored /\ verified ->
                    /\ phase' = [phase EXCEPT !.ignoring = FALSE, !.seen = @ + 1]
                    /\ plain' = Tail(record) /\ raw' = After(raw)
                    /\ UNCHANGED <<turnVars, broken>>
               [] OTHER -> Fail /\ UNCHANGED <<phase, raw, plain>>
  /\ UNCHANGED <<kind, peerVars, socketOut, appVars, fed, taken, got, pend, hold>>

ShadowPollRead ==
  /\ kind \in Shadow /\ DownTurn
  /\ IF plain # << >>
     THEN Deliver(plain) /\ UNCHANGED <<peerVars, broken, raw>>
     ELSE /\ ~Decodable(raw)
          /\ \/ /\ ReadsAll
                /\ IF kind = "st1" THEN got' = got \o rx /\ UNCHANGED raw
                   ELSE raw' = raw \o rx /\ UNCHANGED got
                /\ UNCHANGED <<coming, closed, turnVars, broken, plain>>
             \/ /\ NothingToRead /\ DownPending({"read"})
                /\ UNCHANGED <<peerVars, broken, got, raw, plain>>
             \/ /\ AtEof
                /\ IF raw = << >> THEN EndOfStream /\ UNCHANGED broken ELSE Fail
                /\ UNCHANGED <<peerVars, got, raw, plain>>
  /\ UNCHANGED <<kind, socketOut, appVars, fed, taken, phase, pend, hold>>

ShadowPolls ==
  \/ ShadowHello \/ ShadowHandshakeRecord \/ ShadowConnected
  \/ ShadowHandshakeRead \/ ShadowPollWrite \/ ShadowPollRecord \/ ShadowPollRead
=============================================================================
