----------------------------- MODULE SsrStreams -----------------------------
(***************************************************************************)
(* SsrClientStream of ssr.rs and the stream side of its codecs, over the   *)
(* encrypted stream:                                                       *)
(*                                                                         *)
(*   verify_simple  length, payload, checksum                              *)
(*   verify_sha1    length, HMAC keyed with the frame's number, payload    *)
(*   auth           auth_simple, auth_sha1, auth_sha1_v2: length, padding, *)
(*                  payload, checksum                                      *)
(*   sha1_v4        the same with a CRC of the length behind it            *)
(*   aes128         CRC and checksum are MACs keyed with the frame's number*)
(*   chain          padding on both sides of the payload, a MAC keyed with *)
(*                  number and last MAC; two bytes to skip in the first    *)
(*                                                                         *)
(* A frame is one token per field, its length counted in tokens; a sum, CRC*)
(* or MAC is the number of the frame it is keyed with.  A "sum" is one over*)
(* all of the frame before it, as the decoders compute it; the frames of   *)
(* auth, sha1_v4 and aes128 are sent with one that leaves out the first    *)
(* four bytes, the length and its CRC ("part").                            *)
(***************************************************************************)
EXTENDS LayeredStream

Numbered == {"verify_sha1", "aes128", "chain"}
Ssr == Numbered \cup {"verify_simple", "auth", "sha1_v4"}

SsrPhase ==
  [target |-> TRUE,        (* the target has not been sent yet              *)
   sending |-> 1,          (* pack_id, send_chunk_id + 1                    *)
   receiving |-> 1]        (* recv_id, recv_chunk_id + 1                    *)

-----------------------------------------------------------------------------
(* encode, of a payload that begins with the target if it is the first: the*)
(* results it may have, and how many numbers its frames use up.  A frame    *)
(* holds what chunks() leaves together; its padding and the CRC of its     *)
(* length go with the length, except for what the length leaves out: of    *)
(* the three bytes in front of a long padding, packed_len of the early     *)
(* codecs counts one ("long": the other two; only auth_sha1_v2 draws that  *)
(* much).                                                                  *)
Enclosed(type, s, check) == <<Rec(type, Len(s) + 1)>> \o s \o <<check>>

VerifySimpleFrame(s, n) == Enclosed("len", s, Rec("sum", 1))
SumFirst(s, n) == <<Rec("len", Len(s) + 1), Rec("sum", n)>> \o s
LongPadding == {<< >>, <<Mark("long")>>}     (* push_random *)
Uncounted(frame, long) == <<Head(frame)>> \o long \o Tail(frame)
EarlyAuthHead(s, long) == Uncounted(Enclosed("auth", s, Mark("mac")), long)
EarlyAuthFrame(s, long) == Uncounted(Enclosed("len", s, Rec("part", 1)), long)
AuthSha1V4Head(s) == Enclosed("auth", s, Mark("mac"))
AuthSha1V4Frame(s, n) == Enclosed("len", s, Rec("part", 1))
AuthAes128Head(s) == Enclosed("auth", s, Mark("mac"))
AuthAes128Frame(s, n) == Enclosed("len", s, Rec("part", n))
AuthChainFrame(s, n) == Enclosed("len", s, Rec("sum", n))
AuthChainHead(s, n) == <<Mark("auth")>> \o AuthChainFrame(s, n)

Rest(Frame(_, _), s, n) ==
  IF s = << >> THEN [data |-> << >>, frames |-> 0]
  ELSE [data |-> Frame(s, n), frames |-> 1]
Behind(head, e) == [e EXCEPT !.data = head \o @]

(* An authenticated packet takes the target and as much of the payload as  *)
(* a random length allows (get_auth_sha1_v4_data_len); the rest goes into  *)
(* frames.                                                                 *)
HeadTakes(s) == 1 .. Len(s)
From(s, k) == SubSeq(s, k + 1, Len(s))
WithHead(PackHead(_), Frame(_, _), s, n) ==
  IF ~phase.target THEN {Rest(Frame, s, n)}
  ELSE {Behind(PackHead(SubSeq(s, 1, k)), Rest(Frame, From(s, k), n)) :
          k \in HeadTakes(s)}

VerifySimpleEncode(s) == {Rest(VerifySimpleFrame, s, 1)}
VerifySha1Encode(s) ==
  IF ~phase.target THEN {Rest(SumFirst, s, phase.sending)}
  ELSE {Behind(<<s[1], Mark("tag")>>, Rest(SumFirst, Tail(s), phase.sending))}
EarlyAuthEncode(s) ==
  UNION {LET head(x) == EarlyAuthHead(x, longs[1])
             frame(x, n) == EarlyAuthFrame(x, longs[2])
         IN WithHead(head, frame, s, 1) : longs \in LongPadding \X LongPadding}
AuthSha1V4Encode(s) == WithHead(AuthSha1V4Head, AuthSha1V4Frame, s, 1)
AuthAes128Encode(s) == WithHead(AuthAes128Head, AuthAes128Frame, s, phase.sending)
AuthChainEncode(s) ==
  LET n == phase.sending IN
  IF ~phase.target THEN {Rest(AuthChainFrame, s, n)}
  ELSE {LET e == Rest(AuthChainFrame, From(s, k), n + 1) IN
        [data |-> AuthChainHead(SubSeq(s, 1, k), n) \o e.data,
         frames |-> e.frames + 1] : k \in HeadTakes(s)}

Encodings(s) ==
  CASE kind = "verify_simple" -> VerifySimpleEncode(s)
    [] kind = "verify_sha1" -> VerifySha1Encode(s)
    [] kind = "auth" -> EarlyAuthEncode(s)
    [] kind = "sha1_v4" -> AuthSha1V4Encode(s)
    [] kind = "aes128" -> AuthAes128Encode(s)
    [] OTHER -> AuthChainEncode(s)

SsrPollWrite ==
  /\ kind \in Ssr /\ UpTurn /\ fed > taken
  /\ IF pend # NoPending
     THEN WriteAll(pend, Took(pend.len)) /\ UNCHANGED phase
     ELSE \E e \in Encodings((IF phase.target THEN <<Mark("target")>> ELSE << >>)
                             \o Buf) :
            /\ WriteAll([data |-> e.data, len |-> Len(Buf)], Took(Len(Buf)))
            /\ phase' = [phase EXCEPT !.target = FALSE,
                                      !.sending = @ + e.frames]
  /\ UNCHANGED <<kind, peerVars, appVars, down, woken, got, broken, raw, plain, hold>>

-----------------------------------------------------------------------------
(* decode.  A turn needs more than head tokens of input.  A CRC of the head *)
(* is checked before the length is, the sum when the frame is whole; the   *)
(* payload is what the fields before and behind it leave.  Of the fields   *)
(* before it the last is the padding; what a pad token says is skipped     *)
(* after it.  In sha1_v4 and aes128, where the encoder counts the token    *)
(* itself, that is a byte more than there is (two more in a long padding). *)
Layout(head, crc, number, before, behind) ==
  [head |-> head, crc |-> crc, number |-> number, before |-> before,
   behind |-> behind]
VerifySimpleDecode == Layout(1, FALSE, 1, 0, 1)
VerifySha1Decode == Layout(2, FALSE, phase.receiving, 1, 0)
EarlyAuthDecode == Layout(1, FALSE, 1, 1, 1)
AuthSha1V4Decode == Layout(2, TRUE, 1, 2, 1)
AuthAes128Decode == Layout(2, TRUE, phase.receiving, 2, 1)
AuthChainDecode ==
  Layout(1, FALSE, phase.receiving, IF phase.receiving = 1 THEN 2 ELSE 1, 2)

Decode ==
  CASE kind = "verify_simple" -> VerifySimpleDecode
    [] kind = "verify_sha1" -> VerifySha1Decode
    [] kind = "auth" -> EarlyAuthDecode
    [] kind = "sha1_v4" -> AuthSha1V4Decode
    [] kind = "aes128" -> AuthAes128Decode
    [] OTHER -> AuthChainDecode

HeadRead == Len(raw) > Decode.head
BadHead ==
  HeadRead /\ (raw[1].v = 0 \/ (Decode.crc /\ raw[2] # Rec("crc", Decode.number)))
WholeFrame == HeadRead /\ Len(raw) > raw[1].v
TheFrame == SubSeq(raw, 2, raw[1].v + 1)
BadSum ==
  WholeFrame /\ TheFrame[IF Decode.behind = 0 THEN 1 ELSE Len(TheFrame)]
                  # Rec("sum", Decode.number)
Padded == {"auth", "sha1_v4", "aes128"}
PayloadFrom ==
  Decode.before + (IF kind \in Padded THEN TheFrame[Decode.before].v ELSE 0)
PayloadTo == Len(TheFrame) - Decode.behind
BadPadding == WholeFrame /\ PayloadFrom > PayloadTo

(* What has been decoded is gathered in read_buffer, and handed over when   *)
(* no whole frame is left.  After an error the relay ends, and what was    *)
(* decoded before it is lost.                                              *)
SsrDecodes == kind \in Ssr /\ DownTurn /\ (BadHead \/ WholeFrame)
SsrDecodeFrame ==
  /\ SsrDecodes
  /\ IF BadHead \/ BadSum \/ BadPadding
     THEN Fail /\ UNCHANGED <<phase, raw, plain>>
     ELSE /\ plain' = plain \o SubSeq(TheFrame, PayloadFrom + 1, PayloadTo)
          /\ raw' = SubSeq(raw, raw[1].v + 2, Len(raw))
          /\ phase' = [phase EXCEPT !.receiving = @ + 1]
          /\ UNCHANGED <<turnVars, broken>>
  /\ UNCHANGED <<kind, peerVars, socketOut, appVars, fed, taken, got, pend, hold>>

SsrPollRead ==
  /\ kind \in Ssr /\ DownTurn /\ ~SsrDecodes
  /\ IF plain # << >>
     THEN Deliver(plain) /\ UNCHANGED <<rx, raw>>
     ELSE /\ \/ ReadsAll /\ raw' = raw \o rx /\ UNCHANGED turnVars
             \/ NothingToRead /\ DownPending({"read"}) /\ UNCHANGED <<rx, raw>>
             \/ AtEof /\ EndOfStream /\ UNCHANGED <<rx, raw>>
          /\ UNCHANGED <<got, plain>>
  /\ UNCHANGED <<kind, coming, closed, socketOut, appVars, fed, taken, broken,
                 phase, pend, hold>>

(* What the server can make of tx: after the target, which is sent once,   *)
(* frames of exactly the length they announce, or what a long padding      *)
(* leaves out more, numbered one after another.  That a server takes a sum *)
(* over a part of the frame is not said.                                   *)
SsrSendsFrames ==
  LET at(t) == {i \in DOMAIN tx : tx[i].t = t}
      sums == SelectSeq(tx, LAMBDA token : token.t \in {"sum", "part"})
      end(i) == i + tx[i].v + (IF i + 1 \in at("long") THEN 1 ELSE 0)
  IN
  /\ Cardinality(at("target")) <= 1
  /\ \A i \in at("data") : \E j \in at("target") : j < i
  /\ \A i \in at("len") \cup {a \in at("auth") : tx[a].v > 0} :
       \A j \in i + 1 .. end(i) :
         j \in DOMAIN tx =>
           (j = (IF kind = "verify_sha1" THEN i + 1 ELSE end(i))
              <=> j \in at("sum") \cup at("part") \cup at("mac"))
  /\ at("auth") \subseteq {1}
  /\ \A i \in DOMAIN sums : sums[i].v = IF kind \in Numbered THEN i ELSE 1

SsrPolls == SsrPollWrite \/ SsrDecodeFrame \/ SsrPollRead
=============================================================================
