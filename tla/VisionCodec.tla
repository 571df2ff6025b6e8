----------------------------- MODULE VisionCodec -----------------------------
(***************************************************************************)
(* The framings of vless.rs as functions of what has been received or is   *)
(* to be sent: XTLS Vision padding, whose uplink looks at the TLS records  *)
(* of the user's own traffic, and gRPC hunks.                              *)
(*                                                                         *)
(* Bytes are tokens <<type, value>>.  A uuid is two tokens and a block     *)
(* header three (the command and the two lengths), so that both can arrive *)
(* in pieces.  A unit of the user's is of one of four classes: a TLS       *)
(* handshake message, a whole application data record, part of one, or     *)
(* anything else.                                                          *)
(***************************************************************************)
EXTENDS Integers, Sequences, SequencesExt

CONSTANTS Width,        (* 2^16, in units: what a length field can tell     *)
                        (* apart                                            *)
          DirectMin,    (* VISION_UPLINK_DIRECT_MIN_BYTES, in units         *)
          FilterLimit   (* VISION_PACKET_FILTER_LIMIT                       *)

VisionAssumption ==
  Width \in Nat /\ Width > 1 /\ DirectMin \in Nat /\ FilterLimit \in Nat

Classes == {"hello", "record", "part", "plain"}
IsUnit(token) == token[1] \in Classes
OfTypes(s, types) ==
  LET kept[i \in 0 .. Len(s)] ==
        IF i = 0 THEN << >>
        ELSE IF s[i][1] \in types THEN Append(kept[i - 1], s[i]) ELSE kept[i - 1]
  IN kept[Len(s)]
UnitsIn(s) == OfTypes(s, Classes)
From(s, n) == SubSeq(s, n, Len(s))

Uuid == <<<<"uuid", 1>>, <<"uuid", 2>>>>
Header(command, content, padding) ==
  <<<<"command", command>>, <<"content", content>>, <<"padding", padding>>>>

(* xtls_padding; short contents are padded, here by one token.  The length *)
(* of the content is cast to two bytes, however much there is.             *)
Padded(content, command, first) ==
  LET padding == IF Len(content) < 2 THEN <<<<"zero", 0>>>> ELSE << >> IN
  (IF first THEN Uuid ELSE << >>) \o
  Header(command, Len(content) % Width, Len(padding)) \o content \o padding

-----------------------------------------------------------------------------
(* VisionUplinkState.  The uplink has seen a handshake (is_tls) only if it  *)
(* came after the first payload, which it is never shown.                  *)
FirstUplink == [padding |-> TRUE, tls |-> FALSE, direct |-> FALSE,
                filter |-> FilterLimit]

(* filter_tls *)
FilterTls(u, data) ==
  IF u.filter <= 0 THEN u
  ELSE [u EXCEPT !.filter = @ - 1, !.tls = @ \/ data[1][1] = "hello"]

(* is_complete_tls_application_data *)
Complete(data) == \A i \in DOMAIN data : data[i][1] = "record"

(* command_for *)
CommandFor(u, data, confirmed) ==
  LET v == FilterTls(u, data)
      direct == /\ v.tls /\ ~v.direct
                /\ data[1][1] = "record" /\ Complete(data)
                /\ confirmed \/ Len(data) >= DirectMin
  IN CASE data[1][1] = "hello" -> [uplink |-> v, command |-> 0]
       [] data[1][1] # "hello" /\ direct ->
            [uplink |-> [v EXCEPT !.padding = FALSE, !.direct = TRUE],
             command |-> 2]
       [] data[1][1] # "hello" /\ ~direct /\ ~v.tls ->
            [uplink |-> [v EXCEPT !.padding = FALSE], command |-> 1]
       [] OTHER -> [uplink |-> v, command |-> 0]

-----------------------------------------------------------------------------
(* VisionUnpaddingState.  Its two loops read the same blocks, one from the  *)
(* bytes kept so far and one from the caller's slice.                      *)
FirstUnpadding == [mode |-> "unknown", pending |-> << >>]

Push(mode, pending, out) ==
  [state |-> [mode |-> mode, pending |-> pending], out |-> out]

BlockLength(s) == 3 + s[2][2] + s[3][2]

(* Mutant of UnpadBlocks: the padding of a block is taken for the next one. *)
UnpadBlocksUnpadded(s) ==
  LET scan[i \in 1 .. Len(s) + 1] ==
        LET rest == From(s, i) IN
        IF Len(rest) < 3 THEN Push("padding", rest, << >>)
        ELSE IF rest[1][1] # "command" \/ rest[1][2] > 2
        THEN Push("raw", << >>, rest)
        ELSE IF Len(rest) < BlockLength(rest) THEN Push("padding", rest, << >>)
        ELSE LET content == SubSeq(rest, 4, 3 + rest[2][2])
                 next == i + 3 + rest[2][2]
             IN IF rest[1][2] # 0 THEN Push("raw", << >>, content \o From(s, next))
                ELSE [scan[next] EXCEPT !.out = content \o @]
  IN scan[1]

(* The blocks at the front of s, up to one that ends the padding.           *)
UnpadBlocks(s) ==
  LET scan[i \in 1 .. Len(s) + 1] ==
        LET rest == From(s, i) IN
        IF Len(rest) < 3 THEN Push("padding", rest, << >>)
        ELSE IF rest[1][1] # "command" \/ rest[1][2] > 2
        THEN Push("raw", << >>, rest)
        ELSE IF Len(rest) < BlockLength(rest) THEN Push("padding", rest, << >>)
        ELSE LET content == SubSeq(rest, 4, 3 + rest[2][2])
                 next == i + BlockLength(rest)
             IN IF rest[1][2] # 0 THEN Push("raw", << >>, content \o From(s, next))
                ELSE [scan[next] EXCEPT !.out = content \o @]
  IN scan[1]

(* push_without_pending: from the caller's slice, whose unread end is kept. *)
PushWhole(mode, data) ==
  IF mode = "padding" THEN UnpadBlocks(data)
  ELSE IF Len(data) < 2 THEN Push("unknown", data, << >>)
  ELSE IF SubSeq(data, 1, 2) = Uuid THEN UnpadBlocks(From(data, 3))
  ELSE Push("raw", << >>, data)

(* push: from what was kept, once there is any. *)
PushDownlink(u, data) ==
  IF u.mode = "raw" THEN Push("raw", << >>, data)
  ELSE IF u.pending = << >> THEN PushWhole(u.mode, data)
  ELSE LET kept == u.pending \o data IN
       CASE u.mode = "padding" -> UnpadBlocks(kept)
         [] u.mode = "unknown" /\ Len(kept) < 2 -> Push("unknown", kept, << >>)
         [] u.mode = "unknown" /\ Len(kept) >= 2 /\ SubSeq(kept, 1, 2) = Uuid ->
              UnpadBlocks(From(kept, 3))
         [] OTHER -> Push("raw", << >>, kept)

-----------------------------------------------------------------------------
(* encode_grpc_hunk; GrpcHunkDecoder.push, which stops for good at a       *)
(* compressed message.                                                     *)
Hunk(s) == <<<<"flag", 0>>, <<"length", Len(s)>>>> \o s

PushHunks(pending, data) ==
  LET s == pending \o data
      scan[i \in 1 .. Len(s) + 1] ==
        LET rest == From(s, i) IN
        IF Len(rest) < 2 \/ rest[1] # <<"flag", 0>> \/ Len(rest) < 2 + rest[2][2]
        THEN [pending |-> rest, out |-> << >>]
        ELSE [scan[i + 2 + rest[2][2]] EXCEPT
                !.out = SubSeq(rest, 3, 2 + rest[2][2]) \o @]
  IN scan[1]
=============================================================================
