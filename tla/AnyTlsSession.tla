---------------------------- MODULE AnyTlsSession ----------------------------
(***************************************************************************)
(* One AnyTLS session (adapter/anytls.rs): the streams that use it one     *)
(* after the other, the write loop that drains the unbounded channel, the  *)
(* read loop that hands frames to the streams, and the tasks a stream      *)
(* spawns when it shuts down or is dropped.                                *)
(*                                                                         *)
(* `streams' and `synacks' have a mutex each, so everything that touches   *)
(* both takes two steps.  The network and the server are external: any     *)
(* frame may arrive for a stream whose SYN has been written, and reading   *)
(* or writing may fail at any time.                                        *)
(***************************************************************************)
EXTENDS Naturals, Sequences, FiniteSets, SequencesExt

CONSTANTS MaxStreams,   (* bound: streams that use the session              *)
          MaxTraffic,   (* bound: chunks from the server, plus two for each *)
                        (* chunk from a user and each heartbeat             *)
          ChunkSizes    (* subset of {"fits", "oversize"}: what the relay   *)
                        (* writes fits a frame (65535 bytes) or does not    *)

SessionAssumption ==
  /\ MaxStreams \in Nat \ {0}
  /\ MaxTraffic \in Nat
  /\ ChunkSizes \subseteq {"fits", "oversize"}

Streams == 1 .. MaxStreams

VARIABLES closed,    (* AnyTlsSession.closed                                *)
          fault,     (* the server or the network has ended the session     *)
          pooled,    (* the session waits in an idle deque                  *)
          st,        (* where each AnyTlsStream is                          *)
          streams,   (* the ids in `streams', whose sender is alive         *)
          synacks,   (* the ids in `synacks'                                *)
          synack,    (* what the synack oneshot of each stream holds        *)
          rx,        (* the incoming channel of each stream                 *)
          got,       (* chunks the user of each stream has read             *)
          outcome,   (* how reading ended for the user                      *)
          cleaning,  (* <<id, map>>: the removals spawned and not yet done  *)
          wq,        (* the write channel                                   *)
          wire,      (* the frames written to the connection                *)
          writer,    (* the write loop                                      *)
          reader,    (* the read loop                                       *)
          pushed,    (* chunks the server has sent on each stream           *)
          finned     (* history: the open streams the server has ended      *)

mapVars == <<streams, synacks, synack, rx, cleaning>>
userVars == <<st, got, outcome, pooled>>
wireVars == <<wq, wire, writer>>
vars == <<closed, fault, mapVars, userVars, wireVars, reader, pushed, finned>>

Close == [cmd |-> "CLOSE", id |-> 0]

(* A session as a call finds it: nobody uses it, what its creation and its *)
(* earlier streams queued (authentication, settings) has been written.     *)
Init ==
  /\ closed = FALSE /\ fault = FALSE /\ pooled = TRUE
  /\ st = [i \in Streams |-> "none"]
  /\ streams = {} /\ synacks = {}
  /\ synack = [i \in Streams |-> "empty"]
  /\ rx = [i \in Streams |-> <<>>] /\ got = [i \in Streams |-> <<>>]
  /\ outcome = [i \in Streams |-> "reading"]
  /\ cleaning = {}
  /\ wq = <<>> /\ wire = <<>> /\ writer = "running"
  /\ reader = "reading"
  /\ pushed = [i \in Streams |-> 0]
  /\ finned = {}

Frame(cmd, i) == [cmd |-> cmd, id |-> i]

(* write_tx.send: lost once the write loop has dropped the receiver. *)
Enqueued(queue, item) == IF writer = "running" THEN Append(queue, item) ELSE queue

Step(i, label) == st' = [st EXCEPT ![i] = label]

(* Somebody holds the receivers of stream i. *)
Listens(i) == st[i] \notin {"failed", "dropped"}

(* Arcs of the session: the pool, a stream or a call opening one, and      *)
(* spawned removals.  The loops only hold Weak references.                 *)
Held ==
  \/ pooled
  \/ \E i \in Streams : st[i] \in {"streams", "synacks", "open", "shut"}
  \/ cleaning # {}
  \/ reader \in {"drain", "clear", "drainEnd", "clearEnd"}

-----------------------------------------------------------------------------
(* AnyTlsSession::open_stream of the i-th stream: the is_closed check and  *)
(* the id, by a call that has taken the session out of the pool.           *)
OpenStream(i) ==
  /\ pooled /\ ~closed
  /\ st[i] = "none" /\ \A j \in 1 .. (i - 1) : st[j] # "none"
  /\ pooled' = FALSE
  /\ Step(i, "streams")
  /\ UNCHANGED <<closed, fault, mapVars, got, outcome, wireVars, reader, pushed, finned>>

InsertStream(i) ==
  /\ st[i] = "streams"
  /\ streams' = streams \cup {i}
  /\ Step(i, "synacks")
  /\ UNCHANGED <<closed, fault, synacks, synack, rx, cleaning, got, outcome, pooled,
                 wireVars, reader, pushed, finned>>

(* The synack sender, then SYN and the destination in one item.  Without a *)
(* write loop the call fails and both entries stay.                        *)
InsertSynack(i) ==
  /\ st[i] = "synacks"
  /\ synacks' = synacks \cup {i}
  /\ wq' = Enqueued(wq, Frame("SYN", i))
  /\ Step(i, IF writer = "running" THEN "open" ELSE "failed")
  /\ UNCHANGED <<closed, fault, streams, synack, rx, cleaning, got, outcome, pooled,
                 wire, writer, reader, pushed, finned>>

(* poll_read's look at the oneshot: a refusal is an error of the read.     *)
ReadSynack(i) ==
  /\ st[i] \in {"open", "shut"} /\ outcome[i] = "reading"
  /\ synack[i] \in {"ok", "err", "gone"}
  /\ synack' = [synack EXCEPT ![i] = "taken"]
  /\ outcome' = [outcome EXCEPT ![i] = IF synack[i] = "err" THEN "refused" ELSE @]
  /\ UNCHANGED <<closed, fault, streams, synacks, rx, cleaning, st, got, pooled,
                 wireVars, reader, pushed, finned>>

(* poll_read's loop: the next chunk, or the end once the sender is gone.   *)
(* It runs whether or not the synack has come.                             *)
ReadData(i) ==
  /\ st[i] \in {"open", "shut"} /\ outcome[i] = "reading"
  /\ \/ /\ rx[i] # <<>>
        /\ got' = [got EXCEPT ![i] = Append(@, Head(rx[i]))]
        /\ rx' = [rx EXCEPT ![i] = Tail(@)]
        /\ UNCHANGED outcome
     \/ /\ rx[i] = <<>> /\ i \notin streams
        /\ outcome' = [outcome EXCEPT ![i] = "eof"]
        /\ UNCHANGED <<got, rx>>
  /\ UNCHANGED <<closed, fault, streams, synacks, synack, cleaning, st, pooled,
                 wireVars, reader, pushed, finned>>

(* For the bound: chunks both ways and heartbeats so far. *)
Traffic ==
  MapThenSumSet(LAMBDA i : pushed[i], Streams)
    + 2 * Len(SelectSeq(wire \o wq, LAMBDA f : f.cmd \in {"PUSH", "OVERSIZE", "HEART"}))

(* poll_write: any chunk is accepted whole while the session is not closed *)
(* (without a write loop it is BrokenPipe and changes nothing).            *)
WriteData(i) ==
  /\ st[i] = "open" /\ ~closed
  /\ Traffic + 2 <= MaxTraffic
  /\ \E size \in ChunkSizes :
       wq' = Enqueued(wq, Frame(IF size = "fits" THEN "PUSH" ELSE "OVERSIZE", i))
  /\ UNCHANGED <<closed, fault, mapVars, userVars, wire, writer, reader, pushed, finned>>

(* The task that forgets stream i: `streams' first, then `synacks'.        *)
Spawned(i) == cleaning' = cleaning \cup {<<i, "streams">>}

(* poll_shutdown: FIN, and the stream is forgotten although its user may   *)
(* go on reading.                                                          *)
Shutdown(i) ==
  /\ st[i] = "open"
  /\ wq' = Enqueued(wq, Frame("FIN", i))
  /\ Spawned(i)
  /\ Step(i, "shut")
  /\ finned' = finned \ {i}
  /\ UNCHANGED <<closed, fault, streams, synacks, synack, rx, got, outcome, pooled,
                 wire, writer, reader, pushed>>

(* The stream is gone: with it the receivers and what they held. *)
Deafened(i) ==
  /\ rx' = [rx EXCEPT ![i] = <<>>] /\ got' = [got EXCEPT ![i] = <<>>]
  /\ synack' = [synack EXCEPT ![i] = "taken"]
  /\ outcome' = [outcome EXCEPT ![i] = "reading"]
  /\ finned' = finned \ {i}

(* Mutant of DropStream: FIN is sent again after poll_shutdown. *)
DropSendsFin(i) ==
  /\ st[i] \in {"open", "shut"}
  /\ wq' = Enqueued(wq, Frame("FIN", i))
  /\ Spawned(i)
  /\ Deafened(i)
  /\ Step(i, "dropped")
  /\ pooled' \in {FALSE, ~closed}
  /\ UNCHANGED <<closed, fault, streams, synacks, wire, writer, reader, pushed>>

(* impl Drop: FIN unless poll_shutdown has sent it, and the session goes   *)
(* back to its client if that still lives (AnyTlsPool says when, and has   *)
(* the release as a task of its own).                                      *)
DropStream(i) ==
  /\ st[i] \in {"open", "shut"}
  /\ wq' = IF st[i] = "open" THEN Enqueued(wq, Frame("FIN", i)) ELSE wq
  /\ Spawned(i)
  /\ Deafened(i)
  /\ Step(i, "dropped")
  /\ pooled' \in {FALSE, ~closed}
  /\ UNCHANGED <<closed, fault, streams, synacks, wire, writer, reader, pushed>>

(* Mutant of ForgetStream: the task ends after the first map. *)
ForgetHalf(i) ==
  /\ <<i, "streams">> \in cleaning
  /\ streams' = streams \ {i}
  /\ cleaning' = cleaning \ {<<i, "streams">>}
  /\ UNCHANGED <<closed, fault, synacks, synack, rx, userVars, wireVars, reader, pushed, finned>>

(* The stream that was opened last. *)
Latest == CHOOSE i \in Streams : st[i] # "none" /\ \A j \in Streams : j > i => st[j] = "none"

(* Mutant of ForgetStream: the id is read when the task runs. *)
ForgetLatest(i) ==
  /\ <<i, "streams">> \in cleaning
  /\ streams' = streams \ {Latest}
  /\ cleaning' = (cleaning \ {<<i, "streams">>}) \cup {<<i, "synacks">>}
  /\ UNCHANGED <<closed, fault, synacks, synack, rx, userVars, wireVars, reader, pushed, finned>>

ForgetStream(i) ==
  /\ <<i, "streams">> \in cleaning
  /\ streams' = streams \ {i}
  /\ cleaning' = (cleaning \ {<<i, "streams">>}) \cup {<<i, "synacks">>}
  /\ UNCHANGED <<closed, fault, synacks, synack, rx, userVars, wireVars, reader, pushed, finned>>

(* A oneshot whose sender is dropped without a value. *)
Orphaned(ids) ==
  synack' = [i \in Streams |->
               IF i \in ids /\ synack[i] = "empty" /\ Listens(i) THEN "gone" ELSE synack[i]]

ForgetSynack(i) ==
  /\ <<i, "synacks">> \in cleaning
  /\ synacks' = synacks \ {i}
  /\ Orphaned({i} \cap synacks)
  /\ cleaning' = cleaning \ {<<i, "synacks">>}
  /\ UNCHANGED <<closed, fault, streams, rx, userVars, wireVars, reader, pushed, finned>>

(* The pool lets go of the session: cleanup_idle closes it, or the client  *)
(* dies and the deque with it.                                             *)
LeavePool ==
  /\ pooled
  /\ pooled' = FALSE
  /\ \/ closed' = TRUE /\ wq' = Enqueued(wq, Close)
     \/ UNCHANGED <<closed, wq>>
  /\ UNCHANGED <<fault, mapVars, st, got, outcome, wire, writer, reader, pushed, finned>>

-----------------------------------------------------------------------------
(* write_loop: the next item is framed and written. *)
WriteItem ==
  /\ writer = "running" /\ wq # <<>> /\ Held
  /\ Head(wq).cmd \notin {"CLOSE", "OVERSIZE"}
  /\ wire' = Append(wire, Head(wq))
  /\ wq' = Tail(wq)
  /\ UNCHANGED <<closed, fault, mapVars, userVars, writer, reader, pushed, finned>>

(* The connection fails, or append_frame refuses an oversize chunk:        *)
(* session.close(), and the loop drops what is queued.                     *)
WriteItemFails ==
  /\ writer = "running" /\ wq # <<>> /\ Held
  /\ Head(wq).cmd # "CLOSE"
  /\ fault' = (fault \/ Head(wq).cmd # "OVERSIZE")
  /\ closed' = TRUE
  /\ writer' = "stopped"
  /\ wq' = <<>>
  /\ UNCHANGED <<mapVars, userVars, wire, reader, pushed, finned>>

(* A Close item, or nobody holds the session any more: the loop ends and   *)
(* drops what is queued, accepted chunks and FINs included.                *)
WriterEnds ==
  /\ writer = "running"
  /\ ~Held \/ (wq # <<>> /\ Head(wq) = Close)
  /\ writer' = "stopped"
  /\ wq' = <<>>
  /\ UNCHANGED <<closed, fault, mapVars, userVars, wire, reader, pushed, finned>>

-----------------------------------------------------------------------------
(* read_loop and handle_frame. *)

OnWire(i) == \E n \in DOMAIN wire : wire[n] = Frame("SYN", i)

HandlePush(i) ==
  /\ reader = "reading" /\ Held /\ OnWire(i) /\ Traffic < MaxTraffic
  /\ pushed' = [pushed EXCEPT ![i] = @ + 1]
  /\ rx' = IF i \in streams /\ Listens(i) THEN [rx EXCEPT ![i] = Append(@, pushed'[i])] ELSE rx
  /\ UNCHANGED <<closed, fault, streams, synacks, synack, cleaning, userVars, wireVars,
                 reader, finned>>

HandleFin(i) ==
  /\ reader = "reading" /\ Held /\ OnWire(i)
  /\ streams' = streams \ {i}
  /\ finned' = IF st[i] = "open" /\ i \in streams THEN finned \cup {i} ELSE finned
  /\ UNCHANGED <<closed, fault, synacks, synack, rx, cleaning, userVars, wireVars,
                 reader, pushed>>

HandleSynack(i, result) ==
  /\ reader = "reading" /\ Held /\ OnWire(i) /\ i \in synacks
  /\ synacks' = synacks \ {i}
  /\ synack' = [synack EXCEPT ![i] = IF Listens(i) THEN result ELSE @]
  /\ UNCHANGED <<closed, fault, streams, rx, cleaning, userVars, wireVars, reader, pushed, finned>>

(* The answer to a heartbeat; the stream id it echoes does not matter.     *)
HandleHeartbeat ==
  /\ reader = "reading" /\ Held
  /\ Traffic + 2 <= MaxTraffic
  /\ wq' = Enqueued(wq, Frame("HEART", 0))
  /\ UNCHANGED <<closed, fault, mapVars, userVars, wire, writer, reader, pushed, finned>>

(* close_session, up to its first await: only the one who finds the flag   *)
(* unset goes on.  After an alert the loop reads on, after the end of the  *)
(* connection it stops.                                                    *)
ReadEnds(alert) ==
  /\ reader = "reading" /\ Held
  /\ fault' = TRUE
  /\ closed' = TRUE
  /\ reader' = CASE closed /\ alert   -> "reading"
                 [] closed /\ ~alert  -> "stopped"
                 [] ~closed /\ alert  -> "drain"
                 [] OTHER             -> "drainEnd"
  /\ UNCHANGED <<mapVars, userVars, wireVars, pushed, finned>>

(* Every synack that still waits gets the error ... *)
DrainSynacks ==
  /\ reader \in {"drain", "drainEnd"}
  /\ synacks' = {}
  /\ synack' = [i \in Streams |-> IF i \in synacks /\ Listens(i) THEN "err"
                           ELSE synack[i]]
  /\ reader' = IF reader = "drain" THEN "clear" ELSE "clearEnd"
  /\ UNCHANGED <<closed, fault, streams, rx, cleaning, userVars, wireVars, pushed, finned>>

(* ... and every stream reads its end after what has arrived. *)
ClearStreams ==
  /\ reader \in {"clear", "clearEnd"}
  /\ streams' = {}
  /\ reader' = IF reader = "clear" THEN "reading" ELSE "stopped"
  /\ UNCHANGED <<closed, fault, synacks, synack, rx, cleaning, userVars, wireVars, pushed, finned>>

(* Weak::upgrade fails on the next frame. *)
ReaderEnds ==
  /\ reader = "reading" /\ ~Held
  /\ reader' = "stopped"
  /\ UNCHANGED <<closed, fault, mapVars, userVars, wireVars, pushed, finned>>

-----------------------------------------------------------------------------
User(i) ==
  OpenStream(i) \/ ReadSynack(i) \/ ReadData(i) \/ WriteData(i) \/ Shutdown(i)
    \/ DropStream(i)

Opening(i) == InsertStream(i) \/ InsertSynack(i)
Forgetting(i) == ForgetStream(i) \/ ForgetSynack(i)
Writer == WriteItem \/ WriteItemFails \/ WriterEnds

Handle(i) ==
  \/ HandlePush(i) \/ HandleFin(i)
  \/ \E result \in {"ok", "err"} : HandleSynack(i, result)

Closing == DrainSynacks \/ ClearStreams

Next ==
  \/ \E i \in Streams : User(i) \/ Opening(i) \/ Forgetting(i) \/ Handle(i)
  \/ HandleHeartbeat \/ LeavePool \/ Writer \/ Closing \/ ReaderEnds
  \/ \E alert \in BOOLEAN : ReadEnds(alert)

Spec == Init /\ [][Next]_vars

-----------------------------------------------------------------------------
(* A stream's user reads exactly a prefix of what the server sent on that  *)
(* stream, in order and without a gap, and until it shuts the stream down  *)
(* reads an end only behind the server's FIN or with the session closed,   *)
(* however the removals of this stream and of its predecessors interleave  *)
(* with the read loop.                                                     *)
DeliveredInOrder ==
  \A i \in Streams :
    /\ got[i] \o rx[i] = [n \in 1 .. Len(got[i] \o rx[i]) |-> n]
    /\ outcome[i] = "eof" => st[i] = "shut" \/ closed \/ i \in finned

(* What the server sees of a stream is SYN, chunks, and at most one FIN    *)
(* after which nothing follows.  (Heartbeats have id 0.)                   *)
FramesOf(i) == { n \in DOMAIN wire : wire[n].id = i }

WireWellFormed ==
  \A i \in Streams : \A n \in FramesOf(i) :
    /\ wire[n].cmd = "SYN" <=> \A m \in FramesOf(i) : n <= m
    /\ wire[n].cmd = "FIN" => \A m \in FramesOf(i) : m <= n

(* A stream that is gone leaves no sender behind in the session its        *)
(* successors use.                                                         *)
NoEntryLeaks ==
  \A i \in Streams :
    st[i] = "dropped" /\ (\A m \in {"streams", "synacks"} : <<i, m>> \notin cleaning)
      => i \notin streams \cup synacks

(***************************************************************************)
(* The TCP relay of docs/protocol-support.md: a session ends because the   *)
(* server, the network or the pool ends it, never because of what its user *)
(* wrote.                                                                  *)
(***************************************************************************)
UploadKeepsSession ==
  \A i \in Streams : st[i] = "open" /\ closed => fault
=============================================================================
