--------------------------- MODULE MCStreamLayers ---------------------------
(* Two payload units each way; the socket takes six tokens, which is a     *)
(* handshake and a record, or the first packet and a frame of a codec; of  *)
(* the early codecs seven, for a frame with a long padding.                *)
EXTENDS StreamLayers

AllKinds == {"http", "tls", "ticket", "head", "ws", "h2",
             "st1", "st2", "st3", "st3_12"} \cup Ssr
AllWires == [k \in AllKinds |-> IF k = "auth" THEN 7 ELSE 6]
TlsWire == [k \in {"tls"} |-> 6]
=============================================================================
