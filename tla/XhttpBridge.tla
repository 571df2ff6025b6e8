----------------------------- MODULE XhttpBridge -----------------------------
(***************************************************************************)
(* The XHTTP bridges of the Shadowsocks adapter (shadowsocks/transport.rs):*)
(* between the pipe the relay writes to and reads from, and one HTTP       *)
(* response plus one long upload request or many numbered posts.           *)
(*                                                                         *)
(*   h1_stream  one HTTP/1.1 request with a chunked body                   *)
(*   h1_split   a GET for the download, a chunked POST for the upload      *)
(*   h2_stream  one HTTP/2 request                                         *)
(*   h2_up      a GET and a POST on one HTTP/2 connection                  *)
(*   h1_packet  a GET; posts through a fixed set of worker tasks, in lanes *)
(*   h2_packet, h3_packet   a GET; a task per post, behind a semaphore     *)
(*                                                                         *)
(* Each bridge is an upload task and a download task.  The HTTP/2 and      *)
(* HTTP/3 ones share a watch channel that tells the download of a failed   *)
(* upload; it also ends when its last sender is dropped.  A batch is what  *)
(* one read of the pipe, or read_xhttp_post_batch, returns.                *)
(***************************************************************************)
EXTENDS Integers, Sequences, FiniteSets

CONSTANTS Kinds,        (* the kinds of bridge to consider                  *)
          Workers,      (* XHTTP_PACKET_POST_WORKERS (8 in the code)        *)
          QueueLimit,   (* XHTTP_PACKET_POST_QUEUE (32 in the code)         *)
          MaxBatches    (* bound: batches the user writes, by kind          *)

AllKinds == {"h1_stream", "h1_split", "h2_stream", "h2_up",
             "h1_packet", "h2_packet", "h3_packet"}

BridgeAssumption ==
  /\ Kinds \subseteq AllKinds
  /\ Workers \in Nat \ {0} /\ QueueLimit \in Nat \ {0}
  /\ MaxBatches \in [Kinds -> Nat]

Streaming == {"h1_stream", "h1_split", "h2_stream", "h2_up"}
Watching == {"h2_stream", "h2_up", "h2_packet", "h3_packet"}
Lanes == 0 .. (Workers - 1)
NoPost == [seq |-> -1, batch |-> 0]
NotKept == <<[t |-> "none"]>>

VARIABLES kind,
          wrote,      (* batches the relay has written to the pipe          *)
          eof,        (* the relay has shut its writing side down           *)
          gone,       (* the relay has dropped the pipe                     *)
          taken,      (* batches the upload task has read                   *)
          upload,     (* where the upload task is                           *)
          seq,        (* the number of the next post; for a stream, the     *)
                      (* batches its connection has taken                   *)
          failed,     (* the AtomicBool of the posts; for a stream, that    *)
                      (* its upload went wrong                              *)
          signalled,  (* the watch channel holds true                       *)
          posts,      (* the tasks of h2_packet and h3_packet: their posts  *)
          queue,      (* the channel of each worker of h1_packet            *)
          work,       (* the post each worker is sending                    *)
          kept,       (* the connection it keeps: what is unread on it      *)
          worker,     (* whether each worker runs                           *)
          requestEnd, (* the end of a stream's request: open, sent, seen by *)
                      (* the server, or lost with the connection            *)
          arrived,    (* the batches the server has received                *)
          served,     (* the server, or the network, has ended the response *)
          download    (* where the download task is                         *)

userVars == <<wrote, eof, gone>>
laneVars == <<queue, work, kept, worker>>
reachVars == <<requestEnd, arrived>>
uploadVars == <<taken, upload, seq, failed, signalled, posts, laneVars, reachVars>>
downloadVars == <<served, download>>
vars == <<kind, userVars, uploadVars, downloadVars>>

Init ==
  /\ kind \in Kinds
  /\ wrote = 0 /\ eof = FALSE /\ gone = FALSE
  /\ taken = 0
  /\ upload = IF kind = "h1_split" THEN "request"
              ELSE IF kind \in Streaming THEN "read" ELSE "top"
  /\ seq = 0
  /\ failed = FALSE /\ signalled = FALSE
  /\ posts = {}
  /\ queue = [l \in Lanes |-> <<>>]
  /\ work = [l \in Lanes |-> NoPost]
  /\ kept = [l \in Lanes |-> NotKept]
  /\ worker = [l \in Lanes |-> "running"]
  /\ requestEnd = "open" /\ arrived = {}
  /\ served = FALSE
  /\ download = "response"

-----------------------------------------------------------------------------
(* The relay at the other end of the pipe. *)
Write ==
  /\ ~eof /\ ~gone /\ wrote < MaxBatches[kind]
  /\ wrote' = wrote + 1
  /\ UNCHANGED <<kind, eof, gone, uploadVars, downloadVars>>

HalfClose ==
  /\ ~eof /\ ~gone
  /\ eof' = TRUE
  /\ UNCHANGED <<kind, wrote, gone, uploadVars, downloadVars>>

DropPipe ==
  /\ ~gone
  /\ gone' = TRUE
  /\ UNCHANGED <<kind, wrote, eof, uploadVars, downloadVars>>

-----------------------------------------------------------------------------
(* What the loops of the upload tasks have in common. *)
Goto(label) == upload' = label

(* upload_failure_tx.send(true), where there is such a channel. *)
Signal == signalled' = (signalled \/ kind \in Watching)

ReadBatch ==
  /\ upload = "read" /\ taken < wrote
  /\ taken' = taken + 1
  /\ Goto("hold")
  /\ UNCHANGED <<kind, userVars, seq, failed, signalled, posts, laneVars, reachVars,
                 downloadVars>>

(* The pipe has ended and is empty.  A stream ends its request; that this  *)
(* fails, its connection lost, is ignored: the task ends all the same.     *)
ReadEnd(next) ==
  /\ upload = "read" /\ taken = wrote /\ (eof \/ gone)
  /\ requestEnd' = IF kind \in Streaming /\ requestEnd = "open" THEN "sent" ELSE requestEnd
  /\ Goto(next)
  /\ UNCHANGED <<kind, userVars, taken, seq, failed, signalled, posts, laneVars, arrived,
                 downloadVars>>

(* Streams: the batch is handed to the connection, also to one that is     *)
(* lost, or it is not.                                                     *)
SendBatch ==
  /\ upload = "hold"
  /\ seq' = seq + 1
  /\ Goto("read")
  /\ UNCHANGED <<kind, userVars, taken, failed, signalled, posts, laneVars, reachVars,
                 downloadVars>>

SendFails(next) ==
  /\ upload = "hold"
  /\ failed' = TRUE
  /\ Signal
  /\ Goto(next)
  /\ UNCHANGED <<kind, userVars, taken, seq, posts, laneVars, reachVars, downloadVars>>

StreamUpload(next) == ReadBatch \/ ReadEnd(next) \/ SendBatch \/ SendFails(next)

(* The loop of the posts begins with a look at failed. *)
CheckFailed ==
  /\ upload = "top"
  /\ Goto(IF failed THEN "done" ELSE "read")
  /\ UNCHANGED <<kind, userVars, taken, seq, failed, signalled, posts, laneVars, reachVars,
                 downloadVars>>

PostBatches == CheckFailed \/ ReadBatch \/ ReadEnd("done")
Post == [seq |-> seq, batch |-> taken]

(* What the connection has taken arrives in its order, and the end of the  *)
(* request behind it, unless the connection is lost before.                *)
StreamArrives ==
  /\ kind \in Streaming /\ requestEnd \in {"open", "sent"}
  /\ \E b \in 1 .. seq : arrived = 1 .. b - 1 /\ arrived' = 1 .. b
  /\ UNCHANGED <<kind, userVars, taken, upload, seq, failed, signalled, posts, laneVars,
                 requestEnd, downloadVars>>

Reaches(from, to) ==
  /\ kind \in Streaming /\ requestEnd \in from
  /\ requestEnd' = to
  /\ UNCHANGED <<kind, userVars, taken, upload, seq, failed, signalled, posts, laneVars,
                 arrived, downloadVars>>
EndArrives == arrived = 1 .. seq /\ Reaches({"sent"}, "seen")
ConnectionLost == Reaches({"open", "sent"}, "lost")
Network == StreamArrives \/ EndArrives \/ ConnectionLost

-----------------------------------------------------------------------------
(* The upload task of each bridge. *)
Http1Upload == kind = "h1_stream" /\ StreamUpload("done")
H2Upload == kind = "h2_stream" /\ StreamUpload("done")

(* h1_split writes the head of its request from the task; without it the   *)
(* task returns.                                                           *)
RequestUpload ==
  /\ upload = "request"
  /\ \/ Goto("read") /\ UNCHANGED failed
     \/ Goto("done") /\ failed' = TRUE
  /\ UNCHANGED <<kind, userVars, taken, seq, signalled, posts, laneVars, reachVars,
                 downloadVars>>
Http1SplitUpload == kind = "h1_split" /\ (RequestUpload \/ StreamUpload("done"))

(* h2_up goes on to the answer of its POST, which it drains.  As for the   *)
(* posts, a server answers with a success only what it has got whole.      *)
UploadAnswered ==
  /\ upload = "answer"
  /\ \/ requestEnd = "seen" /\ UNCHANGED <<failed, signalled>>
     \/ failed' = TRUE /\ Signal
  /\ Goto("done")
  /\ UNCHANGED <<kind, userVars, taken, seq, posts, laneVars, reachVars, downloadVars>>
H2UpUpload == kind = "h2_up" /\ (StreamUpload("answer") \/ UploadAnswered)

(* h2_packet, h3_packet: a permit, a number, a task of its own. *)
SpawnPost ==
  /\ upload = "hold" /\ Cardinality(posts) < Workers
  /\ posts' = posts \cup {Post}
  /\ seq' = seq + 1
  /\ Goto("top")
  /\ UNCHANGED <<kind, userVars, taken, failed, signalled, laneVars, reachVars, downloadVars>>
H2PacketUpload == kind = "h2_packet" /\ (PostBatches \/ SpawnPost)
H3PacketUpload == kind = "h3_packet" /\ (PostBatches \/ SpawnPost)

(* The post reaches the server; its answer may still fail. *)
PostArrives(p) ==
  /\ p \in posts /\ p.batch \notin arrived
  /\ arrived' = arrived \cup {p.batch}
  /\ UNCHANGED <<kind, userVars, taken, upload, seq, failed, signalled, posts, laneVars,
                 requestEnd, downloadVars>>

PostSucceeds(p) ==
  /\ p \in posts /\ p.batch \in arrived
  /\ posts' = posts \ {p}
  /\ UNCHANGED <<kind, userVars, taken, upload, seq, failed, signalled, laneVars, reachVars,
                 downloadVars>>

PostFails(p) ==
  /\ p \in posts
  /\ posts' = posts \ {p}
  /\ failed' = TRUE
  /\ Signal
  /\ UNCHANGED <<kind, userVars, taken, upload, seq, laneVars, reachVars, downloadVars>>

(* h1_packet: lane seq % workers, a bounded channel per worker. *)
Lane == seq % Workers

(* Mutant of EnqueuePost: the channels have no limit. *)
EnqueueUnbounded ==
  /\ upload = "hold" /\ worker[Lane] = "running"
  /\ queue' = [queue EXCEPT ![Lane] = Append(@, Post)]
  /\ seq' = seq + 1
  /\ Goto("top")
  /\ UNCHANGED <<kind, userVars, taken, failed, signalled, posts, work, kept, worker,
                 reachVars, downloadVars>>

EnqueuePost ==
  /\ upload = "hold"
  /\ worker[Lane] = "running" /\ Len(queue[Lane]) < QueueLimit
  /\ queue' = [queue EXCEPT ![Lane] = Append(@, Post)]
  /\ seq' = seq + 1
  /\ Goto("top")
  /\ UNCHANGED <<kind, userVars, taken, failed, signalled, posts, work, kept, worker,
                 reachVars, downloadVars>>

(* The worker of the lane is gone: the send is an error, also one that     *)
(* waited for room.                                                        *)
EnqueueFails ==
  /\ upload = "hold" /\ worker[Lane] # "running"
  /\ failed' = TRUE
  /\ seq' = seq + 1
  /\ Goto("done")
  /\ UNCHANGED <<kind, userVars, taken, signalled, posts, laneVars, reachVars, downloadVars>>
Http1PacketUpload ==
  kind = "h1_packet" /\ (PostBatches \/ EnqueuePost \/ EnqueueFails)

-----------------------------------------------------------------------------
(* The workers of h1_packet.  Each keeps its connection from one post to   *)
(* the next, which is sound only if it reads every answer to its end.  An  *)
(* answer has no body, one of a length, one in chunks, or one that ends    *)
(* with the connection, and may announce that the server closes.  A body   *)
(* that ends with the connection and is not announced so is not read.      *)
Token(t, n) == [t |-> t, n |-> n]
Answer(framing, length, close, body) ==
  <<[t |-> "head", framing |-> framing, length |-> length, close |-> close]>> \o body
Answers ==
  LET byte == Token("byte", 0)
      chunks == <<Token("size", 2), byte, byte, Token("crlf", 0), Token("size", 0),
                  Token("trailer", 0), Token("blank", 0)>>
  IN {Answer("eof", 0, TRUE, <<byte>>),
      Answer("eof", 0, FALSE, <<Token("unannounced", 0)>>)} \cup
     UNION {{Answer("none", 0, close, << >>), Answer("length", 2, close, <<byte, byte>>),
             Answer("chunked", 0, close, chunks)} : close \in BOOLEAN}

(* drain_http1_chunked_body: chunks with a line end each, trailers, and an *)
(* empty line.                                                             *)
DrainChunked(s) ==
  LET from[i \in 1 .. Len(s)] ==
        IF s[i].n > 0 THEN from[i + s[i].n + 2]
        ELSE CHOOSE j \in i + 1 .. Len(s) :
               s[j].t = "blank" /\ \A k \in i + 1 .. j - 1 : s[k].t # "blank"
  IN SubSeq(s, from[1] + 1, Len(s))

(* drain_http1_response_body: what is unread when it returns. *)
DrainBody(head, s) ==
  CASE head.framing = "none" -> s
    [] head.framing = "chunked" -> DrainChunked(s)
    [] head.framing = "length" -> SubSeq(s, head.length + 1, Len(s))
    [] head.framing = "eof" /\ head.close -> << >>
    [] OTHER -> s

WorkerTakes(l) ==
  /\ worker[l] = "running" /\ work[l] = NoPost /\ queue[l] # <<>>
  /\ work' = [work EXCEPT ![l] = Head(queue[l])]
  /\ queue' = [queue EXCEPT ![l] = Tail(@)]
  /\ UNCHANGED <<kind, userVars, taken, upload, seq, failed, signalled, posts, kept,
                 worker, reachVars, downloadVars>>

(* Http1XHttpPostWorker::send on a new or on the kept connection: written, *)
(* and answered with a success.                                            *)
WorkerSends(l) ==
  /\ worker[l] = "running" /\ work[l] # NoPost
  /\ \E answer \in Answers :
       LET input == (IF kept[l] = NotKept THEN << >> ELSE kept[l]) \o answer
           head == input[1]
       IN
       /\ head.t = "head"
       /\ kept' = [kept EXCEPT ![l] = IF head.close THEN NotKept
                                      ELSE DrainBody(head, Tail(input))]
  /\ arrived' = arrived \cup {work[l].batch}
  /\ work' = [work EXCEPT ![l] = NoPost]
  /\ UNCHANGED <<kind, userVars, taken, upload, seq, failed, signalled, posts, queue,
                 worker, requestEnd, downloadVars>>

(* Mutant of WorkerFails: the upload task is not told. *)
WorkerFailsUnseen(l) ==
  /\ worker[l] = "running" /\ work[l] # NoPost
  /\ worker' = [worker EXCEPT ![l] = "dead"]
  /\ work' = [work EXCEPT ![l] = NoPost]
  /\ kept' = [kept EXCEPT ![l] = NotKept]
  /\ queue' = [queue EXCEPT ![l] = <<>>]
  /\ UNCHANGED <<kind, userVars, taken, upload, seq, failed, signalled, posts, reachVars,
                 downloadVars>>

(* Connecting, writing or the answer fails, perhaps after the server has   *)
(* got the post, or there is something else where the answer should begin: *)
(* no retry, and what is queued in the lane is lost.                       *)
WorkerFails(l) ==
  /\ worker[l] = "running" /\ work[l] # NoPost
  /\ \/ arrived' = arrived \cup {work[l].batch}
     \/ UNCHANGED arrived
  /\ failed' = TRUE
  /\ worker' = [worker EXCEPT ![l] = "dead"]
  /\ work' = [work EXCEPT ![l] = NoPost]
  /\ kept' = [kept EXCEPT ![l] = NotKept]
  /\ queue' = [queue EXCEPT ![l] = <<>>]
  /\ UNCHANGED <<kind, userVars, taken, upload, seq, signalled, posts, requestEnd,
                 downloadVars>>

(* The upload task has dropped the senders and the channel is empty. *)
WorkerEnds(l) ==
  /\ kind = "h1_packet" /\ upload = "done"
  /\ worker[l] = "running" /\ work[l] = NoPost /\ queue[l] = <<>>
  /\ worker' = [worker EXCEPT ![l] = "ended"]
  /\ kept' = [kept EXCEPT ![l] = NotKept]
  /\ UNCHANGED <<kind, userVars, taken, upload, seq, failed, signalled, posts, queue, work,
                 reachVars, downloadVars>>

-----------------------------------------------------------------------------
(* The server, or the network, refuses or ends the response. *)
ServerEnds ==
  /\ ~served
  /\ served' = TRUE
  /\ UNCHANGED <<kind, userVars, uploadVars, download>>

(* The download task. *)
Stops ==
  /\ download' = "ended"
  /\ UNCHANGED <<kind, userVars, uploadVars, served>>

(* Every upload_failure_tx has been dropped: the upload task's and those   *)
(* of the posts.                                                           *)
SendersGone == kind \in Watching /\ upload = "done" /\ posts = {}

(* A response with a success status. *)
Respond ==
  /\ download = "response"
  /\ download' = "body"
  /\ UNCHANGED <<kind, userVars, uploadVars, served>>

(* Some of the body is written to the pipe, which the relay may leave full *)
(* for as long as it likes: nothing else is looked at meanwhile.           *)
Writes(from, to) ==
  /\ download = from
  /\ download' = to
  /\ UNCHANGED <<kind, userVars, uploadVars, served>>
TakeData == Writes("body", "write")
DataWritten == Writes("write", "body")

(* Error or refusal; end of the body; the relay has dropped the pipe.      *)
DownloadEnds ==
  /\ \/ download = "response" /\ served
     \/ download = "body" /\ served
     \/ download = "write" /\ gone
  /\ Stops

(* changed() before the response: whatever it returns, the download ends.  *)
CutBeforeResponse ==
  /\ download = "response" /\ kind \in Watching \ {"h3_packet"}
  /\ signalled \/ SendersGone
  /\ Stops

(* Mutant of CutBody: changed() that fails ends this loop, too. *)
CutBodyAnyway ==
  /\ download = "body" /\ kind \in Watching
  /\ signalled \/ SendersGone
  /\ Stops

(* changed() while the body is copied: only a failure ends the loop; with  *)
(* all senders gone it spins between changed() and the body.               *)
CutBody ==
  /\ download = "body" /\ signalled
  /\ Stops

(* The HTTP/1.1 downloads have no channel; that of HTTP/3 awaits its       *)
(* response without looking at the channel.                                *)
Copies == Respond \/ TakeData \/ DataWritten \/ DownloadEnds
Http1Download == kind = "h1_stream" /\ Copies
Http1SplitDownload == kind = "h1_split" /\ Copies
Http1PacketDownload == kind = "h1_packet" /\ Copies
H2Download == kind = "h2_stream" /\ (Copies \/ CutBeforeResponse \/ CutBody)
H2UpDownload == kind = "h2_up" /\ (Copies \/ CutBeforeResponse \/ CutBody)
H2PacketDownload == kind = "h2_packet" /\ (Copies \/ CutBeforeResponse \/ CutBody)
H3PacketDownload == kind = "h3_packet" /\ (Copies \/ CutBody)

-----------------------------------------------------------------------------
Upload ==
  \/ Http1Upload \/ Http1SplitUpload \/ H2Upload \/ H2UpUpload
  \/ Http1PacketUpload \/ H2PacketUpload \/ H3PacketUpload
Download ==
  \/ Http1Download \/ Http1SplitDownload \/ Http1PacketDownload
  \/ H2Download \/ H2UpDownload \/ H2PacketDownload \/ H3PacketDownload
Worker(l) == WorkerTakes(l) \/ WorkerSends(l) \/ WorkerFails(l) \/ WorkerEnds(l)

Next ==
  \/ Write \/ HalfClose \/ DropPipe \/ ServerEnds \/ Network
  \/ Upload \/ Download
  \/ \E p \in posts : PostArrives(p) \/ PostSucceeds(p) \/ PostFails(p)
  \/ \E l \in Lanes : Worker(l)

-----------------------------------------------------------------------------
Pending ==
  { work[l].batch : l \in { m \in Lanes : work[m] # NoPost } }
    \cup UNION { { queue[l][n].batch : n \in DOMAIN queue[l] } : l \in Lanes }

(* The batches of the posts that are queued or under way. *)
UnderWay == Pending \cup { p.batch : p \in posts }

(* A server that sees the end of a stream's request has got all that the   *)
(* user wrote, and so has the server of an upload that is answered when it *)
(* has ended and nothing has gone wrong, but for the posts that are still  *)
(* queued or under way, which nobody waits for.  The other streams end     *)
(* without an answer and do not know whether their end has arrived.        *)
Answered == AllKinds \ {"h1_stream", "h1_split", "h2_stream"}
CleanEndDeliversAll ==
  /\ requestEnd = "seen" => arrived = 1 .. wrote
  /\ kind \in Answered /\ upload = "done" /\ ~failed =>
       arrived \cup UnderWay = 1 .. wrote

(* The lanes of h1_packet bound how far posts run ahead of one that is     *)
(* stuck, and so what the server has to keep to put them in order.         *)
(* (The semaphore of h2_packet and h3_packet does not.)                    *)
ReorderBounded ==
  \A d \in Pending, b \in arrived \cup Pending :
    b - d < Workers * (QueueLimit + 1)

(* The next thing on a connection that is kept is the answer to the next   *)
(* post, unless the last one had a body it did not announce: no rest of an *)
(* announced body is taken for an answer.                                  *)
AnswersDrained ==
  \A l \in Lanes : kept[l] \in {NotKept, << >>, <<Token("unannounced", 0)>>}

(* A failed upload that the download has a channel to learn of; h3_packet  *)
(* only looks at it once the response has come.                            *)
FailureTold ==
  failed /\ kind \in Watching /\ (kind = "h3_packet" => download # "response")

(* The download ends for a reason: a failure, the relay, or the server.    *)
(* That the upload is over, and its channel with it, is none.              *)
EndsForAReason == failed \/ gone \/ served
CutsBody == download \in {"body", "write"} /\ download' = "ended"
CutsDownload == download # "ended" /\ download' = "ended"
=============================================================================
