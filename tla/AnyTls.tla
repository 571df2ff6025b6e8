------------------------------- MODULE AnyTls -------------------------------
(***************************************************************************)
(* The two levels of AnyTLS: the clients that keep idle sessions           *)
(* (AnyTlsPool), and what goes on in one session, from the point of view of*)
(* which the pool only takes it and gives it back (AnyTlsSession).  A      *)
(* behaviour follows one of the two; the other stays as it begins.         *)
(***************************************************************************)
EXTENDS AnyTlsPool

CONSTANTS MaxStreams, MaxTraffic, ChunkSizes       (* of AnyTlsSession      *)

VARIABLES level,
          ended, fault, pooled, st, streams, synacks, synack, rx, got, outcome,
          cleaning, wq, wire, writer, reader, pushed, finned

Session == INSTANCE AnyTlsSession WITH closed <- ended

ASSUME AnyTlsAssumption == Session!SessionAssumption

sessionVars == <<ended, fault, pooled, st, streams, synacks, synack, rx, got,
                 outcome, cleaning, wq, wire, writer, reader, pushed, finned>>

levelInit == level \in {"pool", "session"} /\ Init /\ Session!Init

levelNext ==
  \/ level = "pool" /\ Next /\ UNCHANGED <<level, sessionVars>>
  \/ level = "session" /\ Session!Next /\ UNCHANGED <<level, vars>>

AnyTlsSpec == levelInit /\ [][levelNext]_<<level, vars, sessionVars>>

-----------------------------------------------------------------------------
(* A stream that is gone leaves no sender behind in the session its        *)
(* successors use.                                                         *)
NoEntryLeaks == Session!NoEntryLeaks

(* A stream's user reads exactly a prefix of what the server sent on that  *)
(* stream, in order and without a gap, and until it shuts the stream down  *)
(* reads an end only behind the server's FIN or with the session closed,   *)
(* however the removals of this stream and of its predecessors interleave  *)
(* with the read loop.                                                     *)
DeliveredInOrder == Session!DeliveredInOrder

(* What the server sees of a stream is SYN, chunks, and at most one FIN    *)
(* after which nothing follows.                                            *)
WireWellFormed == Session!WireWellFormed

(* The TCP relay of docs/protocol-support.md: a session ends because the   *)
(* server, the network or the pool ends it, never because of what its user *)
(* wrote.                                                                  *)
UploadKeepsSession == Session!UploadKeepsSession
=============================================================================
