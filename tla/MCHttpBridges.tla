--------------------------- MODULE MCHttpBridges ---------------------------
(* All kinds: two post workers whose channels hold one post; two units of  *)
(* the user's, three where the uplink looks for TLS records, one for       *)
(* HTTP/3, which from its connection on does what the other packets do.    *)
EXTENDS HttpBridges

NoKinds == {}
AllXhttp == {"h1_stream", "h1_split", "h2_stream", "h2_up",
             "h1_packet", "h2_packet", "h3_packet"}
XhttpStream == {"h2_stream"}
AllBatches == [k \in AllXhttp |-> IF k = "h1_packet" THEN 5 ELSE 3]
OneBatch == [k \in XhttpStream |-> 1]

AllVless == {"tcp", "vision", "vision_tls", "ws", "h2", "grpc", "http1", "packet", "h3"}
AllUnits == [k \in AllVless |-> CASE k = "vision_tls" -> 3 [] k = "h3" -> 1 [] OTHER -> 2]
VisionKind == {"vision"}
OneUnit == [k \in VisionKind |-> 1]
NoUnits == [k \in {} |-> 1]
=============================================================================
