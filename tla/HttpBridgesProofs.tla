------------------------- MODULE HttpBridgesProofs -------------------------
(***************************************************************************)
(* The tasks that join the relay's pipe to a request and a response, for   *)
(* any number of workers, any length of their queues and any number of     *)
(* batches.                                                                *)
(***************************************************************************)
EXTENDS HttpBridges, SequenceTheorems, TLAPS

-----------------------------------------------------------------------------
(* Lanes: numbers that are a multiple of the workers apart share one.      *)
LEMMA Multiple ==
  ASSUME NEW W \in Nat \ {0}, NEW d \in Int, NEW r \in 0 .. W - 1, NEW t \in 0 .. W - 1,
         r - t = W * d
  PROVE  r = t
<1>1. CASE d = 0
  BY <1>1
<1>2. CASE d >= 1
  <2>1. W * d >= W
    BY <1>2
  <2> QED BY <2>1
<1>3. CASE d <= -1
  <2>1. W * d <= -W
    BY <1>3
  <2> QED BY <2>1
<1> QED BY <1>1, <1>2, <1>3

(* What the remainder of a division by a variable is; SMT knows no more.   *)
LEMMA Division ==
  ASSUME NEW W \in Nat \ {0}, NEW x \in Nat
  PROVE  /\ x % W \in 0 .. W - 1
         /\ x \div W \in Int
         /\ x = W * (x \div W) + (x % W)
<1>1. x % W \in Int /\ x % W < W /\ 0 <= x % W
  BY SMT
<1>2. x = W * (x \div W) + (x % W)
  BY SMT
<1> QED BY <1>1, <1>2

(* Two numbers with the same quotient representation have one remainder.   *)
LEMMA SameRemainder ==
  ASSUME NEW W \in Nat \ {0}, NEW q \in Int, NEW p \in Int, NEW k \in Int,
         NEW r \in 0 .. W - 1, NEW t \in 0 .. W - 1,
         W * q + r + W * k = W * p + t
  PROVE  r = t
<1>1. W * (p - q - k) = W * p - W * q - W * k
  BY SMT
<1>2. W * p \in Int /\ W * q \in Int /\ W * k \in Int /\ p - q - k \in Int
  OBVIOUS
<1>3. r - t = W * (p - q - k)
  BY <1>1, <1>2
<1> QED BY <1>2, <1>3, Multiple

(* A number and one that is k rounds of the workers later share a lane.    *)
LEMMA SameLane ==
  ASSUME NEW W \in Nat \ {0}, NEW x \in Nat, NEW k \in Nat
  PROVE  /\ x % W \in 0 .. W - 1
         /\ W * k \in Nat
         /\ (x + W * k) % W = x % W
<1>1. W * k \in Nat
  OBVIOUS
<1>2. PICK y \in Nat : y = x + W * k
  BY <1>1
<1>3. PICK q \in Int, r \in 0 .. W - 1 : r = x % W /\ x = W * q + r
  BY Division
<1>4. PICK p \in Int, t \in 0 .. W - 1 : t = y % W /\ y = W * p + t
  BY Division
<1>5. W * q + r + W * k = W * p + t
  BY <1>2, <1>3, <1>4
<1>6. r = t
  <2>1. k \in Int
    OBVIOUS
  <2> QED BY <1>5, <2>1, SameRemainder
<1> QED BY <1>1, <1>2, <1>3, <1>4, <1>6

-----------------------------------------------------------------------------
(* The answers a server can give to a post, each drained to its end.       *)
LEMMA HeadAndBody ==
  ASSUME NEW S, NEW h, NEW body \in Seq(S)
  PROVE  /\ (<<h>> \o body)[1] = h /\ Tail(<<h>> \o body) = body
         /\ << >> \o (<<h>> \o body) = <<h>> \o body
<1> DEFINE T == S \cup {h}
           s == <<h>> \o body
<1>1. body \in Seq(T) /\ <<h>> \in Seq(T) /\ Len(<<h>>) = 1
  <2>1. S \subseteq T
    OBVIOUS
  <2>2. body \in Seq(T)
    BY <2>1, SeqMonotonic
  <2> QED BY <2>2
<1>2. /\ s \in Seq(T) /\ Len(s) = 1 + Len(body) /\ Len(body) \in Nat
      /\ s[1] = h
      /\ \A i \in 1 .. Len(body) : s[i + 1] = body[i]
  <2> HIDE DEF T
  <2>1. Len(body) \in Nat
    BY LenProperties
  <2>2. /\ s \in Seq(T) /\ Len(s) = 1 + Len(body)
        /\ \A i \in 1 .. 1 + Len(body) : s[i] = IF i <= 1 THEN <<h>>[i] ELSE body[i - 1]
    BY <1>1, ConcatProperties
  <2> HIDE DEF s
  <2> QED BY <2>1, <2>2
<1> HIDE DEF s, T
<1>3. s # <<>>
  BY <1>2, EmptySeq
<1>4. /\ Tail(s) \in Seq(T) /\ Len(Tail(s)) = Len(body)
      /\ \A i \in 1 .. Len(body) : Tail(s)[i] = body[i]
  BY <1>2, <1>3, HeadTailProperties
<1>5. Tail(s) = body
  BY <1>1, <1>4, SeqEqual
<1>6. << >> \o s = s
  BY <1>2, ConcatEmptySeq
<1> QED BY <1>2, <1>5, <1>6 DEF s

(* drain_http1_chunked_body leaves nothing of a chunked answer unread.     *)
LEMMA ChunkedDrained ==
  ASSUME NEW s,
         s = <<Xhttp!Token("size", 2), Xhttp!Token("byte", 0), Xhttp!Token("byte", 0),
               Xhttp!Token("crlf", 0), Xhttp!Token("size", 0),
               Xhttp!Token("trailer", 0), Xhttp!Token("blank", 0)>>
  PROVE  Xhttp!DrainChunked(s) = <<>>
<1> DEFINE g(i) == CHOOSE j \in i + 1 .. Len(s) :
                     s[j].t = "blank" /\ \A k \in i + 1 .. j - 1 : s[k].t # "blank"
           F(f) == f = [i \in 1 .. Len(s) |->
                          IF s[i].n > 0 THEN f[i + s[i].n + 2]
                          ELSE CHOOSE j \in i + 1 .. Len(s) :
                                 /\ s[j].t = "blank"
                                 /\ \A k \in i + 1 .. j - 1 : s[k].t # "blank"]
           from == CHOOSE f : F(f)
<1>1. /\ Len(s) = 7 /\ s[1].n = 2 /\ \A i \in 2 .. 7 : s[i].n = 0
      /\ s[6].t # "blank" /\ s[7].t = "blank"
  BY DEF Xhttp!Token
<1>2. \E f : F(f)
  <2> DEFINE h == [i \in 1 .. Len(s) |-> IF i = 1 THEN g(5) ELSE g(i)]
  <2>1. h = [i \in 1 .. Len(s) |-> IF s[i].n > 0 THEN h[i + s[i].n + 2] ELSE g(i)]
    <3> HIDE DEF g
    <3>1. h[5] = g(5)
      BY <1>1
    <3>2. ASSUME NEW i \in 1 .. Len(s)
          PROVE  h[i] = IF s[i].n > 0 THEN h[i + s[i].n + 2] ELSE g(i)
      <4>1. CASE i = 1
        <5>1. s[i].n > 0 /\ i + s[i].n + 2 = 5 /\ h[i] = g(5)
          BY <1>1, <4>1
        <5> HIDE DEF h
        <5> QED BY <3>1, <5>1
      <4>2. CASE i # 1
        <5>1. s[i].n = 0
          BY <1>1, <4>2
        <5> QED BY <4>2, <5>1
      <4> QED BY <4>1, <4>2
    <3> QED BY <3>2
  <2> HIDE DEF h
  <2> QED BY <2>1
<1>3. F(from)
  <2> HIDE DEF F
  <2> QED BY <1>2
<1>4. from[1] = 7
  <2> HIDE DEF from
  <2>1. from[1] = from[5] /\ from[5] = g(5)
    <3>1. from = [i \in 1 .. Len(s) |-> IF s[i].n > 0 THEN from[i + s[i].n + 2] ELSE g(i)]
      BY <1>3
    <3>2. /\ 1 \in 1 .. Len(s) /\ s[1].n > 0 /\ 1 + s[1].n + 2 = 5
          /\ 5 \in 1 .. Len(s) /\ ~(s[5].n > 0)
      BY <1>1
    <3> HIDE DEF g
    <3>3. from[1] = from[1 + s[1].n + 2]
      BY <3>1, <3>2
    <3>4. from[5] = g(5)
      BY <3>1, <3>2
    <3> QED BY <3>2, <3>3, <3>4
  <2>2. g(5) = 7
    <3>1. \E j \in 6 .. 7 : s[j].t = "blank" /\ \A k \in 6 .. j - 1 : s[k].t # "blank"
      BY <1>1
    <3>2. g(5) \in 6 .. 7 /\ s[g(5)].t = "blank"
      BY <1>1, <3>1
    <3> HIDE DEF g
    <3> QED BY <1>1, <3>2
  <2> QED BY <2>1, <2>2
<1>5. Xhttp!DrainChunked(s) = SubSeq(s, from[1] + 1, Len(s))
  BY DEF Xhttp!DrainChunked
<1> HIDE DEF from
<1> QED BY <1>1, <1>4, <1>5, SubSeqEmpty

(* What an answer leaves on the connection that has a body and says        *)
(* neither how long it is nor that the connection ends with it.            *)
Unannounced == Xhttp!Token("unannounced", 0)

(* Whatever its framing, an answer that keeps the connection leaves nothing*)
(* unread on it, unless its body is unannounced; an answer behind such a   *)
(* body is not found.                                                      *)
LEMMA AnswerDrained ==
  ASSUME NEW answer \in Xhttp!Answers
  PROVE  /\ << >> \o answer = answer
         /\ answer[1].t = "head"
         /\ ~answer[1].close =>
              Xhttp!DrainBody(answer[1], Tail(answer)) \in {<< >>, <<Unannounced>>}
         /\ (<<Unannounced>> \o answer)[1].t # "head"
<1> DEFINE byte == Xhttp!Token("byte", 0)
           chunks == <<Xhttp!Token("size", 2), byte, byte, Xhttp!Token("crlf", 0),
                       Xhttp!Token("size", 0), Xhttp!Token("trailer", 0),
                       Xhttp!Token("blank", 0)>>
           Tokens == {byte, Xhttp!Token("crlf", 0), Xhttp!Token("size", 2),
                      Xhttp!Token("size", 0), Xhttp!Token("trailer", 0),
                      Xhttp!Token("blank", 0), Unannounced}
           head(framing, length, close) ==
             [t |-> "head", framing |-> framing, length |-> length, close |-> close]
<1>1. /\ <<byte>> \in Seq(Tokens) /\ <<byte, byte>> \in Seq(Tokens)
      /\ chunks \in Seq(Tokens) /\ << >> \in Seq(Tokens) /\ <<Unannounced>> \in Seq(Tokens)
  OBVIOUS
<1>2. PICK framing, length, close, body :
        /\ answer = <<head(framing, length, close)>> \o body
        /\ \/ framing = "eof" /\ close = TRUE /\ body = <<byte>>
           \/ framing = "eof" /\ close = FALSE /\ body = <<Unannounced>>
           \/ framing = "none" /\ body = << >>
           \/ framing = "length" /\ length = 2 /\ body = <<byte, byte>>
           \/ framing = "chunked" /\ body = chunks
  BY DEF Xhttp!Answers, Xhttp!Answer, Unannounced
<1> HIDE DEF byte, chunks
<1>3. body \in Seq(Tokens)
  BY <1>1, <1>2
<1>4. /\ answer[1] = head(framing, length, close) /\ Tail(answer) = body
      /\ << >> \o answer = answer
  BY <1>2, <1>3, HeadAndBody
<1>5. /\ answer[1].t = "head" /\ answer[1].framing = framing
      /\ answer[1].length = length /\ answer[1].close = close
  BY <1>4
<1>6. Xhttp!DrainChunked(chunks) = << >>
  BY ChunkedDrained DEF chunks, byte
<1>7. SubSeq(<<byte, byte>>, 3, 2) = << >> /\ Len(<<byte, byte>>) = 2
  BY SubSeqEmpty
<1> DEFINE Left == ~answer[1].close =>
                     Xhttp!DrainBody(answer[1], Tail(answer)) \in {<< >>, <<Unannounced>>}
<1>8. ASSUME framing = "eof" PROVE Left
  <2>1. ~close => Xhttp!DrainBody(answer[1], Tail(answer)) = body
    BY <1>4, <1>5, <1>8 DEF Xhttp!DrainBody
  <2> QED BY <1>2, <1>5, <1>8, <2>1
<1>9. ASSUME framing = "none" PROVE Left
  BY <1>2, <1>4, <1>5, <1>9 DEF Xhttp!DrainBody
<1>10. ASSUME framing = "length" PROVE Left
  <2>1. Xhttp!DrainBody(answer[1], Tail(answer)) = SubSeq(body, length + 1, Len(body))
    BY <1>4, <1>5, <1>10 DEF Xhttp!DrainBody
  <2>2. length + 1 = 3 /\ body = <<byte, byte>>
    BY <1>2, <1>10
  <2> QED BY <1>5, <1>7, <2>1, <2>2
<1>11. ASSUME framing = "chunked" PROVE Left
  BY <1>2, <1>4, <1>5, <1>6, <1>11 DEF Xhttp!DrainBody
<1>12. Left
  BY <1>2, <1>8, <1>9, <1>10, <1>11
<1>13. (<<Unannounced>> \o answer)[1] = Unannounced
  <2>1. PICK h : h = head(framing, length, close)
    OBVIOUS
  <2>2. PICK T : T = Tokens \cup {h}
    OBVIOUS
  <2>3. body \in Seq(T)
    <3>1. Tokens \subseteq T
      BY <2>2
    <3> QED BY <1>3, <3>1, SeqMonotonic
  <2>4. <<h>> \in Seq(T)
    BY <2>2
  <2>5. answer \in Seq(T)
    <3>1. PICK s \in Seq(T) : s = <<h>>
      BY <2>4
    <3>2. s \o body \in Seq(T)
      BY <2>3, <3>1, ConcatProperties
    <3> QED BY <1>2, <2>1, <3>1, <3>2
  <2> QED BY <2>5, HeadAndBody
<1>14. Unannounced.t = "unannounced"
  BY DEF Unannounced, Xhttp!Token
<1> QED BY <1>4, <1>5, <1>12, <1>13, <1>14

-----------------------------------------------------------------------------
(* XHTTP: what holds between the batches, the posts and the tasks.         *)
PostSet == [seq : Nat, batch : Nat]

XhttpType ==
  /\ wrote \in Nat /\ taken \in 0 .. wrote /\ seq \in Nat
  /\ upload \in {"request", "top", "read", "hold", "answer", "done"}
  /\ eof \in BOOLEAN /\ gone \in BOOLEAN
  /\ failed \in BOOLEAN /\ signalled \in BOOLEAN
  /\ posts \subseteq PostSet
  /\ queue \in [Xhttp!Lanes -> Seq(PostSet)]
  /\ work \in [Xhttp!Lanes -> PostSet \cup {Xhttp!NoPost}]
  /\ kept \in [Xhttp!Lanes -> {Xhttp!NotKept, << >>, <<Unannounced>>}]
  /\ worker \in [Xhttp!Lanes -> {"running", "dead", "ended"}]
  /\ requestEnd \in {"open", "sent", "seen", "lost"}
  /\ arrived \subseteq Nat

(* A post of lane l with k places from it to the end of the lane, when s   *)
(* posts have been numbered: no more than k rounds of posts after it.      *)
Placed(p, l, k, s) ==
  /\ p.batch = p.seq + 1 /\ p.seq < s
  /\ p.seq % Workers = l
  /\ s <= p.seq + Workers * k

LaneOK(q, w, l, s) ==
  /\ Len(q) <= QueueLimit
  /\ \A n \in 1 .. Len(q) : Placed(q[n], l, Len(q) - n + 1, s)
  /\ w # Xhttp!NoPost => Placed(w, l, Len(q) + 1, s)

OrderInv ==
  IF kind = "h1_packet"
  THEN /\ posts = {}
       /\ taken = IF upload = "hold" THEN seq + 1 ELSE seq
       /\ arrived \subseteq 0 .. seq
       /\ \A l \in Xhttp!Lanes :
            /\ LaneOK(queue[l], work[l], l, seq)
            /\ worker[l] # "running" => queue[l] = << >> /\ work[l] = Xhttp!NoPost
  ELSE \A l \in Xhttp!Lanes : queue[l] = << >> /\ work[l] = Xhttp!NoPost

(* Where the batches are that have been read and have not arrived.         *)
OnTheWay == Xhttp!UnderWay \cup (IF upload = "hold" THEN {taken} ELSE {})

(* Posts: nothing that has been read is forgotten, unless that is flagged. *)
PostDeliver ==
  /\ requestEnd = "open"
  /\ ~failed => /\ 1 .. taken = arrived \cup OnTheWay
                /\ upload = "done" => taken = wrote /\ (eof \/ gone)

(* A stream: the end of the request is sent, and seen, behind everything.  *)
StreamDeliver ==
  /\ posts = {}
  /\ upload \in {"request", "read"} => taken = seq
  /\ upload = "hold" => taken = seq + 1
  /\ requestEnd \in {"sent", "seen"} =>
       upload \in {"answer", "done"} /\ seq = taken /\ taken = wrote /\ (eof \/ gone)
  /\ requestEnd = "seen" => arrived = 1 .. seq
  /\ kind = "h2_up" /\ upload = "done" /\ ~failed => requestEnd = "seen"

DeliverInv ==
  /\ kind \in Xhttp!AllKinds
  /\ IF kind \in Xhttp!Streaming THEN StreamDeliver ELSE PostDeliver
  /\ signalled => failed

XhttpInv == XhttpType /\ OrderInv /\ DeliverInv

(* The invariant holds when a bridge starts.                               *)
LEMMA XhttpInitInv == Xhttp!BridgeAssumption /\ Xhttp!Init => XhttpInv
<1> SUFFICES ASSUME Xhttp!BridgeAssumption, Xhttp!Init PROVE XhttpInv
  OBVIOUS
<1>1. XhttpType
  <2>1. << >> \in Seq(PostSet)
    BY EmptySeq
  <2>2. upload \in {"request", "top", "read", "hold", "answer", "done"}
    BY DEF Xhttp!Init
  <2>3. /\ wrote \in Nat /\ taken \in 0 .. wrote /\ seq \in Nat
        /\ posts \subseteq PostSet /\ arrived \subseteq Nat
        /\ requestEnd \in {"open", "sent", "seen", "lost"}
    BY DEF Xhttp!Init
  <2>4. /\ eof \in BOOLEAN /\ gone \in BOOLEAN
        /\ failed \in BOOLEAN /\ signalled \in BOOLEAN
    BY DEF Xhttp!Init
  <2>5. /\ queue \in [Xhttp!Lanes -> Seq(PostSet)]
        /\ work \in [Xhttp!Lanes -> PostSet \cup {Xhttp!NoPost}]
        /\ kept \in [Xhttp!Lanes -> {Xhttp!NotKept, << >>, <<Unannounced>>}]
        /\ worker \in [Xhttp!Lanes -> {"running", "dead", "ended"}]
    BY <2>1 DEF Xhttp!Init
  <2> QED BY <2>2, <2>3, <2>4, <2>5 DEF XhttpType
<1>2. \A l \in Xhttp!Lanes : queue[l] = << >> /\ work[l] = Xhttp!NoPost
  BY DEF Xhttp!Init
<1>3. OrderInv
  <2>1. \A l \in Xhttp!Lanes : LaneOK(queue[l], work[l], l, seq)
    <3>1. Len(<< >>) = 0 /\ 1 .. 0 = {} /\ 0 <= QueueLimit
      BY DEF Xhttp!BridgeAssumption
    <3> QED BY <1>2, <3>1 DEF LaneOK
  <2>2. kind = "h1_packet" =>
          taken = 0 /\ seq = 0 /\ arrived = {} /\ upload = "top" /\ posts = {}
    BY DEF Xhttp!Init, Xhttp!Streaming
  <2> QED BY <1>2, <2>1, <2>2 DEF OrderInv
<1>4. DeliverInv
  <2>1. Xhttp!Pending = {}
    <3>1. DOMAIN << >> = {}
      OBVIOUS
    <3> QED BY <1>2, <3>1 DEF Xhttp!Pending
  <2>2. /\ upload \notin {"hold", "answer", "done"} /\ posts = {} /\ arrived = {}
        /\ taken = 0 /\ seq = 0 /\ requestEnd = "open" /\ ~signalled
    BY DEF Xhttp!Init
  <2>3. kind \in Xhttp!AllKinds
    BY DEF Xhttp!Init, Xhttp!BridgeAssumption
  <2> QED BY <2>1, <2>2, <2>3
      DEF DeliverInv, PostDeliver, StreamDeliver, OnTheWay, Xhttp!UnderWay
<1> QED BY <1>1, <1>3, <1>4 DEF XhttpInv

(* What a step of a bridge is. *)
LEMMA XhttpSteps ==
  ASSUME Xhttp!Next
  PROVE  \/ Xhttp!Write \/ Xhttp!HalfClose \/ Xhttp!DropPipe
         \/ UNCHANGED <<kind, Xhttp!userVars, Xhttp!uploadVars>>
         \/ Xhttp!Network
         \/ Xhttp!ReadBatch
         \/ kind # "h2_up" /\ Xhttp!ReadEnd("done")
         \/ kind = "h2_up" /\ Xhttp!ReadEnd("answer")
         \/ kind \in Xhttp!Streaming /\ Xhttp!SendBatch
         \/ kind \in Xhttp!Streaming /\ (Xhttp!SendFails("done") \/ Xhttp!SendFails("answer"))
         \/ kind = "h1_split" /\ Xhttp!RequestUpload
         \/ kind = "h2_up" /\ Xhttp!UploadAnswered
         \/ kind \notin Xhttp!Streaming /\ Xhttp!CheckFailed
         \/ kind \in {"h2_packet", "h3_packet"} /\ Xhttp!SpawnPost
         \/ kind = "h1_packet" /\ Xhttp!EnqueuePost
         \/ kind = "h1_packet" /\ Xhttp!EnqueueFails
         \/ \E p \in posts : Xhttp!PostArrives(p) \/ Xhttp!PostSucceeds(p) \/ Xhttp!PostFails(p)
         \/ \E l \in Xhttp!Lanes : Xhttp!Worker(l)
<1>1. CASE Xhttp!Upload
  <2>1. CASE Xhttp!Http1Upload
    <3>1. kind = "h1_stream" /\ kind \in Xhttp!Streaming
      BY <2>1 DEF Xhttp!Http1Upload, Xhttp!Streaming
    <3> QED BY <2>1, <3>1 DEF Xhttp!Http1Upload, Xhttp!StreamUpload
  <2>2. CASE Xhttp!Http1SplitUpload
    <3>1. kind = "h1_split" /\ kind \in Xhttp!Streaming
      BY <2>2 DEF Xhttp!Http1SplitUpload, Xhttp!Streaming
    <3> QED BY <2>2, <3>1 DEF Xhttp!Http1SplitUpload, Xhttp!StreamUpload
  <2>3. CASE Xhttp!H2Upload
    <3>1. kind = "h2_stream" /\ kind \in Xhttp!Streaming
      BY <2>3 DEF Xhttp!H2Upload, Xhttp!Streaming
    <3> QED BY <2>3, <3>1 DEF Xhttp!H2Upload, Xhttp!StreamUpload
  <2>4. CASE Xhttp!H2UpUpload
    <3>1. kind = "h2_up" /\ kind \in Xhttp!Streaming
      BY <2>4 DEF Xhttp!H2UpUpload, Xhttp!Streaming
    <3> QED BY <2>4, <3>1 DEF Xhttp!H2UpUpload, Xhttp!StreamUpload
  <2>5. CASE Xhttp!Http1PacketUpload
    <3>1. kind = "h1_packet" /\ kind \notin Xhttp!Streaming
      BY <2>5 DEF Xhttp!Http1PacketUpload, Xhttp!Streaming
    <3> QED BY <2>5, <3>1 DEF Xhttp!Http1PacketUpload, Xhttp!PostBatches
  <2>6. CASE Xhttp!H2PacketUpload
    <3>1. kind = "h2_packet" /\ kind \notin Xhttp!Streaming
      BY <2>6 DEF Xhttp!H2PacketUpload, Xhttp!Streaming
    <3> QED BY <2>6, <3>1 DEF Xhttp!H2PacketUpload, Xhttp!PostBatches
  <2>7. CASE Xhttp!H3PacketUpload
    <3>1. kind = "h3_packet" /\ kind \notin Xhttp!Streaming
      BY <2>7 DEF Xhttp!H3PacketUpload, Xhttp!Streaming
    <3> QED BY <2>7, <3>1 DEF Xhttp!H3PacketUpload, Xhttp!PostBatches
  <2> QED BY <1>1, <2>1, <2>2, <2>3, <2>4, <2>5, <2>6, <2>7 DEF Xhttp!Upload
<1>2. CASE Xhttp!Download
  BY <1>2 DEF Xhttp!Download, Xhttp!Http1Download, Xhttp!Http1SplitDownload,
     Xhttp!Http1PacketDownload, Xhttp!H2Download, Xhttp!H2UpDownload,
     Xhttp!H2PacketDownload, Xhttp!H3PacketDownload, Xhttp!Copies, Xhttp!Respond,
     Xhttp!TakeData, Xhttp!DataWritten, Xhttp!Writes, Xhttp!DownloadEnds,
     Xhttp!CutBeforeResponse, Xhttp!CutBody, Xhttp!Stops
<1>3. CASE Xhttp!ServerEnds
  BY <1>3 DEF Xhttp!ServerEnds
<1> QED BY <1>1, <1>2, <1>3 DEF Xhttp!Next

-----------------------------------------------------------------------------
(* What the queue and the work of a lane are made of.                      *)
LEMMA LaneFacts ==
  ASSUME Xhttp!BridgeAssumption, XhttpType
  PROVE  /\ Xhttp!NoPost \notin PostSet
         /\ Xhttp!Lane \in Xhttp!Lanes
         /\ \A l \in Xhttp!Lanes :
              /\ queue[l] \in Seq(PostSet) /\ Len(queue[l]) \in Nat
              /\ work[l] # Xhttp!NoPost => work[l] \in PostSet
              /\ \A n \in 1 .. Len(queue[l]) : queue[l][n] \in PostSet
<1>1. Xhttp!NoPost \notin PostSet
  BY DEF Xhttp!NoPost, PostSet
<1>2. Xhttp!Lane \in Xhttp!Lanes
  BY Division DEF Xhttp!Lane, Xhttp!Lanes, Xhttp!BridgeAssumption, XhttpType
<1>3. ASSUME NEW l \in Xhttp!Lanes
      PROVE  /\ queue[l] \in Seq(PostSet) /\ Len(queue[l]) \in Nat
             /\ work[l] # Xhttp!NoPost => work[l] \in PostSet
             /\ \A n \in 1 .. Len(queue[l]) : queue[l][n] \in PostSet
  <2>1. queue[l] \in Seq(PostSet) /\ work[l] \in PostSet \cup {Xhttp!NoPost}
    BY DEF XhttpType
  <2> QED BY <2>1, LenProperties, ElementOfSeq
<1> QED BY <1>1, <1>2, <1>3

(* Every step keeps the types; a worker keeps only drained connections.    *)
LEMMA XhttpTypeStep ==
  ASSUME Xhttp!BridgeAssumption, XhttpInv, Xhttp!Next
  PROVE  XhttpType'
<1> USE DEF XhttpInv, XhttpType
<1>1. CASE Xhttp!Write \/ Xhttp!HalfClose \/ Xhttp!DropPipe
           \/ UNCHANGED <<kind, Xhttp!userVars, Xhttp!uploadVars>>
  <2>1. UNCHANGED <<taken, upload, seq, failed, signalled, posts, queue, work, kept, worker,
                    requestEnd, arrived>>
    BY <1>1 DEF Xhttp!Write, Xhttp!HalfClose, Xhttp!DropPipe, Xhttp!uploadVars, Xhttp!laneVars,
       Xhttp!reachVars
  <2>2. wrote' \in {wrote, wrote + 1} /\ eof' \in {eof, TRUE} /\ gone' \in {gone, TRUE}
    BY <1>1 DEF Xhttp!Write, Xhttp!HalfClose, Xhttp!DropPipe, Xhttp!userVars
  <2>3. wrote' \in Nat /\ taken' \in 0 .. wrote'
    BY <2>1, <2>2
  <2>4. eof' \in BOOLEAN /\ gone' \in BOOLEAN
    BY <2>2, Zenon
  <2> QED BY <2>1, <2>3, <2>4
<1>2. CASE \/ Xhttp!ReadBatch \/ Xhttp!ReadEnd("done") \/ Xhttp!ReadEnd("answer")
           \/ Xhttp!SendBatch \/ Xhttp!SendFails("done") \/ Xhttp!SendFails("answer")
           \/ Xhttp!CheckFailed \/ Xhttp!RequestUpload \/ Xhttp!UploadAnswered
  <2>1. UNCHANGED <<wrote, eof, gone, posts, queue, work, kept, worker, arrived>>
    BY <1>2 DEF Xhttp!ReadBatch, Xhttp!ReadEnd, Xhttp!SendBatch, Xhttp!SendFails,
       Xhttp!CheckFailed, Xhttp!RequestUpload, Xhttp!UploadAnswered, Xhttp!userVars,
       Xhttp!laneVars, Xhttp!reachVars
  <2>2. upload' \in {"top", "read", "hold", "answer", "done"}
    BY <1>2 DEF Xhttp!ReadBatch, Xhttp!ReadEnd, Xhttp!SendBatch, Xhttp!SendFails,
       Xhttp!CheckFailed, Xhttp!RequestUpload, Xhttp!UploadAnswered, Xhttp!Goto
  <2>3. failed' \in {failed, TRUE} /\ signalled' \in BOOLEAN
    BY <1>2, Zenon DEF Xhttp!ReadBatch, Xhttp!ReadEnd, Xhttp!SendBatch, Xhttp!SendFails,
       Xhttp!CheckFailed, Xhttp!RequestUpload, Xhttp!UploadAnswered, Xhttp!Signal
  <2>4. failed' \in BOOLEAN
    BY <2>3, Zenon
  <2>5. /\ taken' = taken \/ (taken < wrote /\ taken' = taken + 1)
        /\ seq' \in {seq, seq + 1}
    BY <1>2 DEF Xhttp!ReadBatch, Xhttp!ReadEnd, Xhttp!SendBatch, Xhttp!SendFails,
       Xhttp!CheckFailed, Xhttp!RequestUpload, Xhttp!UploadAnswered
  <2>6. requestEnd' \in {requestEnd, "sent"}
    BY <1>2 DEF Xhttp!ReadBatch, Xhttp!ReadEnd, Xhttp!SendBatch, Xhttp!SendFails,
       Xhttp!CheckFailed, Xhttp!RequestUpload, Xhttp!UploadAnswered, Xhttp!reachVars
  <2>7. taken' \in 0 .. wrote /\ seq' \in Nat
    BY <2>5
  <2>8. requestEnd' \in {"open", "sent", "seen", "lost"}
    <3>1. requestEnd \in {"open", "sent", "seen", "lost"}
      OBVIOUS
    <3> QED BY <2>6, <3>1
  <2> QED BY <2>1, <2>2, <2>3, <2>4, <2>7, <2>8
<1>3. CASE Xhttp!SpawnPost \/ Xhttp!EnqueueFails
  <2>1. /\ UNCHANGED <<wrote, eof, gone, taken, signalled, queue, work, kept, worker,
                       requestEnd, arrived>>
        /\ seq' = seq + 1 /\ upload' \in {"top", "done"}
        /\ posts' = posts \/ posts' = posts \cup {Xhttp!Post}
    BY <1>3 DEF Xhttp!SpawnPost, Xhttp!EnqueueFails, Xhttp!userVars, Xhttp!laneVars,
       Xhttp!reachVars, Xhttp!Goto
  <2>2. failed' \in {failed, TRUE}
    BY <1>3, Zenon DEF Xhttp!SpawnPost, Xhttp!EnqueueFails
  <2>3. failed' \in BOOLEAN
    BY <2>2, Zenon
  <2>4. posts' \subseteq PostSet /\ seq' \in Nat
    BY <2>1 DEF Xhttp!Post, PostSet
  <2> QED BY <2>1, <2>3, <2>4
<1>4. CASE Xhttp!EnqueuePost
  <2>1. Xhttp!Post \in PostSet
    BY DEF Xhttp!Post, PostSet
  <2>2. Append(queue[Xhttp!Lane], Xhttp!Post) \in Seq(PostSet)
    BY <2>1, LaneFacts, AppendProperties
  <2>3. /\ UNCHANGED <<wrote, eof, gone, taken, failed, signalled, posts, work, kept, worker,
                       requestEnd, arrived>>
        /\ seq' = seq + 1 /\ upload' = "top"
        /\ queue' = [queue EXCEPT ![Xhttp!Lane] = Append(queue[Xhttp!Lane], Xhttp!Post)]
    BY <1>4 DEF Xhttp!EnqueuePost, Xhttp!userVars, Xhttp!Goto, Xhttp!reachVars
  <2>4. queue' \in [Xhttp!Lanes -> Seq(PostSet)]
    <3>1. queue \in [Xhttp!Lanes -> Seq(PostSet)]
      OBVIOUS
    <3> QED BY <2>2, <2>3, <3>1, Zenon
  <2>5. seq' \in Nat
    BY <2>3
  <2> QED BY <2>3, <2>4, <2>5
<1>5. ASSUME NEW p \in posts,
             Xhttp!PostArrives(p) \/ Xhttp!PostSucceeds(p) \/ Xhttp!PostFails(p)
      PROVE  XhttpType'
  <2>1. UNCHANGED <<wrote, eof, gone, seq, queue, work, kept, worker, upload, taken,
                    requestEnd>>
    BY <1>5 DEF Xhttp!PostArrives, Xhttp!PostSucceeds, Xhttp!PostFails, Xhttp!userVars,
       Xhttp!laneVars, Xhttp!reachVars
  <2>2. failed' \in {failed, TRUE} /\ signalled' \in BOOLEAN
    BY <1>5, Zenon DEF Xhttp!PostArrives, Xhttp!PostSucceeds, Xhttp!PostFails, Xhttp!Signal
  <2>3. failed' \in BOOLEAN
    BY <2>2, Zenon
  <2>4. posts' \subseteq PostSet /\ arrived' \subseteq Nat
    <3>1. p.batch \in Nat /\ posts \subseteq PostSet /\ arrived \subseteq Nat
      BY DEF PostSet
    <3>2. posts' \in {posts, posts \ {p}} /\ arrived' \in {arrived, arrived \cup {p.batch}}
      BY <1>5 DEF Xhttp!PostArrives, Xhttp!PostSucceeds, Xhttp!PostFails, Xhttp!reachVars
    <3> QED BY <3>1, <3>2
  <2> QED BY <2>1, <2>2, <2>3, <2>4
<1>6. ASSUME NEW l \in Xhttp!Lanes, Xhttp!Worker(l) PROVE XhttpType'
  <2>1. /\ queue[l] \in Seq(PostSet)
        /\ work[l] # Xhttp!NoPost => work[l].batch \in Nat
    BY LaneFacts DEF PostSet
  <2>2. /\ << >> \in Seq(PostSet)
        /\ queue[l] # << >> => Head(queue[l]) \in PostSet /\ Tail(queue[l]) \in Seq(PostSet)
    BY <2>1, EmptySeq, HeadTailProperties
  <2>3. CASE Xhttp!WorkerTakes(l)
    BY <2>2, <2>3 DEF Xhttp!WorkerTakes, Xhttp!userVars, Xhttp!reachVars
  <2>4. CASE Xhttp!WorkerSends(l)
    <3>1. /\ UNCHANGED <<wrote, eof, gone, taken, upload, seq, failed, signalled, posts,
                         queue, worker, requestEnd>>
          /\ work' = [work EXCEPT ![l] = Xhttp!NoPost]
          /\ arrived' = arrived \cup {work[l].batch} /\ work[l] # Xhttp!NoPost
      BY <2>4 DEF Xhttp!WorkerSends, Xhttp!userVars
    <3>2. kept' \in [Xhttp!Lanes -> {Xhttp!NotKept, << >>, <<Unannounced>>}]
      <4> DEFINE unread == IF kept[l] = Xhttp!NotKept THEN << >> ELSE kept[l]
      <4>1. PICK answer \in Xhttp!Answers :
              /\ (unread \o answer)[1].t = "head"
              /\ kept' = [kept EXCEPT ![l] =
                            IF (unread \o answer)[1].close THEN Xhttp!NotKept
                            ELSE Xhttp!DrainBody((unread \o answer)[1], Tail(unread \o answer))]
        BY <2>4 DEF Xhttp!WorkerSends
      <4>2. unread \in {<< >>, <<Unannounced>>}
        OBVIOUS
      <4> HIDE DEF unread
      <4>3. unread = << >>
        BY <4>1, <4>2, AnswerDrained
      <4>4. unread \o answer = answer
        BY <4>3, AnswerDrained
      <4>5. kept' = [kept EXCEPT ![l] = IF answer[1].close THEN Xhttp!NotKept
                                        ELSE Xhttp!DrainBody(answer[1], Tail(answer))]
        BY <4>1, <4>4, Zenon
      <4>6. (IF answer[1].close THEN Xhttp!NotKept
             ELSE Xhttp!DrainBody(answer[1], Tail(answer)))
              \in {Xhttp!NotKept, << >>, <<Unannounced>>}
        BY AnswerDrained
      <4> QED BY <4>5, <4>6
    <3>3. work' \in [Xhttp!Lanes -> PostSet \cup {Xhttp!NoPost}] /\ arrived' \subseteq Nat
      BY <2>1, <3>1
    <3> QED BY <3>1, <3>2, <3>3
  <2>5. CASE Xhttp!WorkerFails(l)
    <3>1. arrived' \subseteq Nat
      BY <2>1, <2>5 DEF Xhttp!WorkerFails
    <3>2. /\ queue' = [queue EXCEPT ![l] = << >>] /\ work' = [work EXCEPT ![l] = Xhttp!NoPost]
          /\ kept' = [kept EXCEPT ![l] = Xhttp!NotKept]
          /\ worker' = [worker EXCEPT ![l] = "dead"] /\ failed' = TRUE
          /\ UNCHANGED <<wrote, eof, gone, taken, upload, seq, signalled, posts, requestEnd>>
      BY <2>5 DEF Xhttp!WorkerFails, Xhttp!userVars
    <3> QED BY <2>2, <3>1, <3>2
  <2>6. CASE Xhttp!WorkerEnds(l)
    BY <2>6 DEF Xhttp!WorkerEnds, Xhttp!userVars, Xhttp!reachVars
  <2> QED BY <1>6, <2>3, <2>4, <2>5, <2>6 DEF Xhttp!Worker
<1>7. CASE Xhttp!Network
  <2>1. UNCHANGED <<wrote, eof, gone, taken, upload, seq, failed, signalled, posts, queue, work,
                    kept, worker>>
    BY <1>7 DEF Xhttp!Network, Xhttp!StreamArrives, Xhttp!EndArrives, Xhttp!ConnectionLost,
       Xhttp!Reaches, Xhttp!userVars, Xhttp!laneVars
  <2>2. requestEnd' \in {"open", "sent", "seen", "lost"}
    <3>1. requestEnd' \in {requestEnd, "seen", "lost"}
      BY <1>7 DEF Xhttp!Network, Xhttp!StreamArrives, Xhttp!EndArrives, Xhttp!ConnectionLost,
         Xhttp!Reaches
    <3>2. requestEnd \in {"open", "sent", "seen", "lost"}
      OBVIOUS
    <3> QED BY <3>1, <3>2
  <2>3. arrived' \subseteq Nat
    <3>1. arrived' = arrived \/ \E b \in 1 .. seq : arrived' = 1 .. b
      BY <1>7 DEF Xhttp!Network, Xhttp!StreamArrives, Xhttp!EndArrives, Xhttp!ConnectionLost,
         Xhttp!Reaches
    <3>2. seq \in Nat /\ arrived \subseteq Nat
      OBVIOUS
    <3>3. \A b \in 1 .. seq : 1 .. b \subseteq Nat
      OBVIOUS
    <3> QED BY <3>1, <3>2, <3>3
  <2> QED BY <2>1, <2>2, <2>3
<1> QED BY <1>1, <1>2, <1>3, <1>4, <1>5, <1>6, <1>7, XhttpSteps

-----------------------------------------------------------------------------
(* What happens to a lane. *)
LEMMA PlacedOn ==
  ASSUME Xhttp!BridgeAssumption, NEW p \in PostSet, NEW l, NEW k \in Nat, NEW s \in Nat,
         Placed(p, l, k, s)
  PROVE  /\ s % Workers # l => Placed(p, l, k, s + 1)
         /\ Placed(p, l, k + 1, s + 1)
<1>1. p.seq \in Nat /\ Workers \in Nat \ {0}
  BY DEF PostSet, Xhttp!BridgeAssumption
<1>2. PICK end \in Nat : end = p.seq + Workers * k /\ end % Workers = l
  <2>1. Workers * k \in Nat /\ (p.seq + Workers * k) % Workers = p.seq % Workers
    BY <1>1, SameLane
  <2> QED BY <1>1, <2>1 DEF Placed
<1>3. s % Workers # l => s + 1 <= end
  BY <1>2 DEF Placed
<1>4. Workers * (k + 1) = Workers * k + Workers /\ Workers * k \in Nat
  BY <1>1
<1> QED BY <1>1, <1>2, <1>3, <1>4 DEF Placed

(* A lane that is not the next one is not disturbed by a new number.       *)
LEMMA LanePassed ==
  ASSUME Xhttp!BridgeAssumption, NEW q \in Seq(PostSet), NEW w \in PostSet \cup {Xhttp!NoPost},
         NEW l, NEW s \in Nat, LaneOK(q, w, l, s), s % Workers # l
  PROVE  LaneOK(q, w, l, s + 1)
<1>1. Len(q) \in Nat
  BY LenProperties
<1>2. ASSUME NEW n \in 1 .. Len(q) PROVE Placed(q[n], l, Len(q) - n + 1, s + 1)
  <2>1. q[n] \in PostSet /\ Len(q) - n + 1 \in Nat /\ Placed(q[n], l, Len(q) - n + 1, s)
    BY <1>1, ElementOfSeq DEF LaneOK
  <2> QED BY <2>1, PlacedOn
<1>3. ASSUME w # Xhttp!NoPost PROVE Placed(w, l, Len(q) + 1, s + 1)
  <2>1. w \in PostSet /\ Len(q) + 1 \in Nat /\ Placed(w, l, Len(q) + 1, s)
    BY <1>1, <1>3 DEF LaneOK
  <2> QED BY <2>1, PlacedOn
<1> QED BY <1>2, <1>3 DEF LaneOK

(* EnqueuePost: the new post comes Workers after the last one of its lane. *)
LEMMA LaneAppend ==
  ASSUME Xhttp!BridgeAssumption, NEW q \in Seq(PostSet), NEW w \in PostSet \cup {Xhttp!NoPost},
         NEW l, NEW s \in Nat, LaneOK(q, w, l, s),
         NEW p \in PostSet, p.seq = s, p.batch = s + 1, s % Workers = l,
         Len(q) < QueueLimit
  PROVE  LaneOK(Append(q, p), w, l, s + 1)
<1>1. /\ Len(q) \in Nat /\ Len(Append(q, p)) = Len(q) + 1
      /\ \A n \in 1 .. Len(q) : Append(q, p)[n] = q[n]
      /\ Append(q, p)[Len(q) + 1] = p
      /\ QueueLimit \in Nat /\ Workers \in Nat \ {0}
  BY LenProperties, AppendProperties DEF Xhttp!BridgeAssumption
<1>2. Placed(p, l, 1, s + 1)
  <2>1. Workers * 1 = Workers
    BY <1>1
  <2> QED BY <1>1, <2>1 DEF Placed
<1>3. ASSUME NEW n \in 1 .. Len(q) PROVE Placed(q[n], l, Len(q) + 1 - n + 1, s + 1)
  <2>1. q[n] \in PostSet /\ Len(q) - n + 1 \in Nat /\ Placed(q[n], l, Len(q) - n + 1, s)
    BY <1>1, ElementOfSeq DEF LaneOK
  <2>2. Len(q) - n + 1 + 1 = Len(q) + 1 - n + 1
    BY <1>1
  <2> QED BY <2>1, <2>2, PlacedOn
<1>4. ASSUME w # Xhttp!NoPost PROVE Placed(w, l, Len(q) + 1 + 1, s + 1)
  <2>1. w \in PostSet /\ Len(q) + 1 \in Nat /\ Placed(w, l, Len(q) + 1, s)
    BY <1>1, <1>4 DEF LaneOK
  <2> QED BY <2>1, PlacedOn
<1>5. ASSUME NEW n \in 1 .. Len(Append(q, p))
      PROVE  Placed(Append(q, p)[n], l, Len(Append(q, p)) - n + 1, s + 1)
  <2>1. CASE n = Len(q) + 1
    <3>1. Len(Append(q, p)) - n + 1 = 1
      BY <1>1, <2>1
    <3> QED BY <1>1, <1>2, <2>1, <3>1
  <2>2. CASE n # Len(q) + 1
    <3>1. n \in 1 .. Len(q)
      BY <1>1, <2>2
    <3> QED BY <1>1, <1>3, <3>1
  <2> QED BY <2>1, <2>2
<1>6. Len(Append(q, p)) <= QueueLimit
  BY <1>1
<1> QED BY <1>1, <1>4, <1>5, <1>6 DEF LaneOK

(* WorkerTakes: the head of the queue becomes the work.                    *)
LEMMA LaneTaken ==
  ASSUME NEW q \in Seq(PostSet), NEW l, NEW s \in Nat, LaneOK(q, Xhttp!NoPost, l, s), q # << >>,
         Xhttp!BridgeAssumption
  PROVE  LaneOK(Tail(q), Head(q), l, s)
<1>1. /\ Len(q) \in Nat \ {0} /\ Len(Tail(q)) = Len(q) - 1
      /\ \A n \in 1 .. Len(q) - 1 : Tail(q)[n] = q[n + 1]
      /\ Head(q) = q[1] /\ QueueLimit \in Nat
  BY EmptySeq, HeadTailProperties DEF Xhttp!BridgeAssumption
<1>2. Placed(Head(q), l, Len(Tail(q)) + 1, s)
  <2>1. Len(q) - 1 + 1 = Len(Tail(q)) + 1 /\ 1 \in 1 .. Len(q)
    BY <1>1
  <2> QED BY <1>1, <2>1 DEF LaneOK
<1>3. ASSUME NEW n \in 1 .. Len(Tail(q))
      PROVE  Placed(Tail(q)[n], l, Len(Tail(q)) - n + 1, s)
  <2>1. n + 1 \in 1 .. Len(q) /\ Len(q) - (n + 1) + 1 = Len(Tail(q)) - n + 1
    BY <1>1
  <2>2. Tail(q)[n] = q[n + 1]
    BY <1>1
  <2> QED BY <2>1, <2>2 DEF LaneOK
<1>4. Len(Tail(q)) <= QueueLimit
  BY <1>1 DEF LaneOK
<1> QED BY <1>2, <1>3, <1>4 DEF LaneOK

(* A lane whose worker is gone or idle is in order.                        *)
LEMMA LaneCleared ==
  ASSUME Xhttp!BridgeAssumption, NEW q \in Seq(PostSet), NEW w, NEW l, NEW s
  PROVE  /\ LaneOK(q, w, l, s) => LaneOK(q, Xhttp!NoPost, l, s)
         /\ LaneOK(<< >>, Xhttp!NoPost, l, s)
<1>1. Len(<< >>) = 0 /\ 1 .. 0 = {} /\ 0 <= QueueLimit
  BY DEF Xhttp!BridgeAssumption
<1> QED BY <1>1 DEF LaneOK

(* Every step keeps the order of the lanes.                                *)
LEMMA OrderStep ==
  ASSUME Xhttp!BridgeAssumption, XhttpInv, Xhttp!Next
  PROVE  OrderInv'
<1> USE DEF XhttpInv, XhttpType
<1>1. CASE /\ UNCHANGED <<kind, queue, work, worker, seq, posts>>
           /\ kind = "h1_packet" => /\ arrived' = arrived
                                    /\ taken' = IF upload' = "hold" THEN seq + 1 ELSE seq
  BY <1>1 DEF OrderInv
<1>2. CASE Xhttp!Write \/ Xhttp!HalfClose \/ Xhttp!DropPipe
           \/ UNCHANGED <<kind, Xhttp!userVars, Xhttp!uploadVars>>
  <2>1. UNCHANGED <<kind, queue, work, worker, seq, posts, arrived, taken, upload>>
    BY <1>2 DEF Xhttp!Write, Xhttp!HalfClose, Xhttp!DropPipe, Xhttp!uploadVars, Xhttp!laneVars,
       Xhttp!reachVars
  <2> QED BY <1>1, <2>1 DEF OrderInv
<1>3. CASE Xhttp!ReadBatch
  <2>1. /\ UNCHANGED <<kind, queue, work, worker, seq, posts, arrived>>
        /\ upload = "read" /\ upload' = "hold" /\ taken' = taken + 1
    BY <1>3 DEF Xhttp!ReadBatch, Xhttp!laneVars, Xhttp!reachVars, Xhttp!Goto
  <2> QED BY <1>1, <2>1 DEF OrderInv
<1>4. CASE \/ Xhttp!ReadEnd("done") \/ Xhttp!ReadEnd("answer") \/ Xhttp!CheckFailed
           \/ Xhttp!RequestUpload \/ Xhttp!UploadAnswered
  <2>1. /\ UNCHANGED <<kind, queue, work, worker, seq, posts, arrived, taken>>
        /\ upload # "hold" /\ upload' # "hold"
    BY <1>4 DEF Xhttp!ReadEnd, Xhttp!CheckFailed, Xhttp!RequestUpload, Xhttp!UploadAnswered,
       Xhttp!laneVars, Xhttp!reachVars, Xhttp!Goto
  <2> QED BY <1>1, <2>1 DEF OrderInv
<1>5. CASE \/ kind \in Xhttp!Streaming /\ (\/ Xhttp!SendBatch \/ Xhttp!SendFails("done")
                                          \/ Xhttp!SendFails("answer"))
           \/ kind \in {"h2_packet", "h3_packet"} /\ Xhttp!SpawnPost
           \/ Xhttp!Network
  <2>1. kind # "h1_packet"
    BY <1>5 DEF Xhttp!Streaming, Xhttp!Network, Xhttp!StreamArrives, Xhttp!EndArrives,
       Xhttp!ConnectionLost, Xhttp!Reaches
  <2>2. UNCHANGED <<kind, queue, work>>
    BY <1>5 DEF Xhttp!SendBatch, Xhttp!SendFails, Xhttp!SpawnPost, Xhttp!laneVars, Xhttp!Network,
       Xhttp!StreamArrives, Xhttp!EndArrives, Xhttp!ConnectionLost, Xhttp!Reaches
  <2> QED BY <2>1, <2>2 DEF OrderInv
<1>6. ASSUME NEW p \in posts,
             Xhttp!PostArrives(p) \/ Xhttp!PostSucceeds(p) \/ Xhttp!PostFails(p)
      PROVE  OrderInv'
  BY <1>6 DEF Xhttp!PostArrives, Xhttp!PostSucceeds, Xhttp!PostFails, Xhttp!laneVars, OrderInv
<1>7. CASE kind = "h1_packet" /\ (Xhttp!EnqueuePost \/ Xhttp!EnqueueFails)
  <2>1. /\ kind' = kind /\ work' = work /\ posts' = {} /\ arrived' = arrived
        /\ taken' = taken /\ taken = seq + 1 /\ seq' = seq + 1 /\ upload' # "hold"
        /\ \A l \in Xhttp!Lanes :
             /\ LaneOK(queue[l], work[l], l, seq)
             /\ worker[l] # "running" => queue[l] = << >> /\ work[l] = Xhttp!NoPost
        /\ worker' = worker
    BY <1>7 DEF Xhttp!EnqueuePost, Xhttp!EnqueueFails, Xhttp!laneVars, Xhttp!reachVars,
       Xhttp!Goto, OrderInv
  <2>2. arrived' \subseteq 0 .. seq'
    BY <1>7, <2>1 DEF OrderInv
  <2>3. ASSUME NEW l \in Xhttp!Lanes PROVE LaneOK(queue'[l], work'[l], l, seq')
    <3>1. /\ queue[l] \in Seq(PostSet) /\ work[l] \in PostSet \cup {Xhttp!NoPost}
          /\ Xhttp!Lane = seq % Workers
      BY DEF Xhttp!Lane
    <3>2. CASE l # Xhttp!Lane
      <4>1. queue'[l] = queue[l]
        BY <1>7, <3>2 DEF Xhttp!EnqueuePost, Xhttp!EnqueueFails, Xhttp!laneVars
      <4> QED BY <2>1, <3>1, <3>2, <4>1, LanePassed
    <3>3. CASE l = Xhttp!Lane /\ Xhttp!EnqueuePost
      <4>1. queue'[l] = Append(queue[l], Xhttp!Post) /\ Len(queue[l]) < QueueLimit
        BY <3>3 DEF Xhttp!EnqueuePost
      <4>2. /\ Xhttp!Post \in PostSet /\ Xhttp!Post.seq = seq /\ Xhttp!Post.batch = seq + 1
        BY <2>1 DEF Xhttp!Post, PostSet
      <4> QED BY <2>1, <3>1, <3>3, <4>1, <4>2, LaneAppend
    <3>4. CASE l = Xhttp!Lane /\ Xhttp!EnqueueFails
      <4>1. queue'[l] = << >> /\ work[l] = Xhttp!NoPost
        BY <2>1, <3>4 DEF Xhttp!EnqueueFails, Xhttp!laneVars
      <4>2. LaneOK(<< >>, Xhttp!NoPost, l, seq')
        BY <3>1, LaneCleared
      <4>3. work'[l] = Xhttp!NoPost
        BY <2>1, <4>1
      <4> QED BY <4>1, <4>2, <4>3
    <3> QED BY <1>7, <3>2, <3>3, <3>4
  <2>4. ASSUME NEW l \in Xhttp!Lanes, worker'[l] # "running"
        PROVE  queue'[l] = << >> /\ work'[l] = Xhttp!NoPost
    BY <1>7, <2>1, <2>4 DEF Xhttp!EnqueuePost, Xhttp!EnqueueFails, Xhttp!laneVars
  <2> QED BY <1>7, <2>1, <2>2, <2>3, <2>4 DEF OrderInv
<1>8. ASSUME NEW l \in Xhttp!Lanes, Xhttp!Worker(l) PROVE OrderInv'
  <2>1. /\ UNCHANGED <<kind, seq, posts, taken, upload>>
        /\ \A m \in Xhttp!Lanes \ {l} :
             queue'[m] = queue[m] /\ work'[m] = work[m] /\ worker'[m] = worker[m]
    BY <1>8 DEF Xhttp!Worker, Xhttp!WorkerTakes, Xhttp!WorkerSends, Xhttp!WorkerFails,
       Xhttp!WorkerEnds
  <2>2. kind = "h1_packet"
    BY <1>8 DEF Xhttp!Worker, Xhttp!WorkerTakes, Xhttp!WorkerSends, Xhttp!WorkerFails,
       Xhttp!WorkerEnds, OrderInv
  <2>3. /\ LaneOK(queue[l], work[l], l, seq)
        /\ queue[l] \in Seq(PostSet) /\ work[l] \in PostSet \cup {Xhttp!NoPost}
    BY <2>2 DEF OrderInv
  <2>4. /\ LaneOK(queue'[l], work'[l], l, seq)
        /\ worker'[l] # "running" => queue'[l] = << >> /\ work'[l] = Xhttp!NoPost
    <3>1. CASE Xhttp!WorkerTakes(l)
      <4>1. /\ queue'[l] = Tail(queue[l]) /\ work'[l] = Head(queue[l]) /\ worker'[l] = "running"
            /\ work[l] = Xhttp!NoPost /\ queue[l] # << >>
        BY <3>1 DEF Xhttp!WorkerTakes
      <4> QED BY <2>3, <4>1, LaneTaken
    <3>2. CASE Xhttp!WorkerSends(l)
      <4>1. queue'[l] = queue[l] /\ work'[l] = Xhttp!NoPost /\ worker'[l] = "running"
        BY <3>2 DEF Xhttp!WorkerSends
      <4> QED BY <2>3, <4>1, LaneCleared
    <3>3. CASE Xhttp!WorkerFails(l)
      <4>1. queue'[l] = << >> /\ work'[l] = Xhttp!NoPost
        BY <3>3 DEF Xhttp!WorkerFails
      <4> QED BY <2>3, <4>1, LaneCleared
    <3>4. CASE Xhttp!WorkerEnds(l)
      <4>1. queue'[l] = queue[l] /\ work'[l] = work[l]
            /\ work[l] = Xhttp!NoPost /\ queue[l] = << >>
        BY <3>4 DEF Xhttp!WorkerEnds
      <4> QED BY <2>3, <4>1
    <3> QED BY <1>8, <3>1, <3>2, <3>3, <3>4 DEF Xhttp!Worker
  <2>5. arrived' \subseteq 0 .. seq
    <3>1. work[l] # Xhttp!NoPost => work[l].batch \in 0 .. seq
      <4>1. work[l] # Xhttp!NoPost => /\ work[l].seq \in Nat /\ work[l].seq < seq
                                      /\ work[l].batch = work[l].seq + 1
        BY <2>3 DEF LaneOK, Placed, PostSet
      <4> QED BY <4>1
    <3>2. arrived' = arrived \/ (work[l] # Xhttp!NoPost /\ arrived' = arrived \cup {work[l].batch})
      BY <1>8 DEF Xhttp!Worker, Xhttp!WorkerTakes, Xhttp!WorkerSends, Xhttp!WorkerFails,
         Xhttp!WorkerEnds, Xhttp!reachVars
    <3>3. arrived \subseteq 0 .. seq
      BY <2>2 DEF OrderInv
    <3> QED BY <3>1, <3>2, <3>3, Zenon
  <2>6. /\ posts = {} /\ taken = IF upload = "hold" THEN seq + 1 ELSE seq
        /\ \A m \in Xhttp!Lanes :
             /\ LaneOK(queue[m], work[m], m, seq)
             /\ worker[m] # "running" => queue[m] = << >> /\ work[m] = Xhttp!NoPost
    BY <2>2 DEF OrderInv
  <2>7. ASSUME NEW m \in Xhttp!Lanes
        PROVE  /\ LaneOK(queue'[m], work'[m], m, seq)
               /\ worker'[m] # "running" => queue'[m] = << >> /\ work'[m] = Xhttp!NoPost
    BY <2>1, <2>4, <2>6
  <2> QED BY <2>1, <2>2, <2>5, <2>6, <2>7 DEF OrderInv
<1> QED BY <1>2, <1>3, <1>4, <1>5, <1>6, <1>7, <1>8, XhttpSteps

-----------------------------------------------------------------------------
(* The batches of a lane: the one its worker has and those queued.         *)
InLane(q, w) ==
  (IF w = Xhttp!NoPost THEN {} ELSE {w.batch}) \cup { q[n].batch : n \in 1 .. Len(q) }

(* Pending, lane by lane.                                                  *)
LEMMA PendingIs ==
  ASSUME XhttpType, XhttpType'
  PROVE  /\ Xhttp!Pending = UNION { InLane(queue[l], work[l]) : l \in Xhttp!Lanes }
         /\ Xhttp!Pending' = UNION { InLane(queue'[l], work'[l]) : l \in Xhttp!Lanes }
<1>1. \A l \in Xhttp!Lanes : DOMAIN queue[l] = 1 .. Len(queue[l])
                             /\ DOMAIN queue'[l] = 1 .. Len(queue'[l])
  <2> SUFFICES ASSUME NEW l \in Xhttp!Lanes
               PROVE  DOMAIN queue[l] = 1 .. Len(queue[l])
                      /\ DOMAIN queue'[l] = 1 .. Len(queue'[l])
    OBVIOUS
  <2>1. queue[l] \in Seq(PostSet) /\ queue'[l] \in Seq(PostSet)
    BY DEF XhttpType
  <2> QED BY <2>1, LenProperties
<1>2. Xhttp!Pending = UNION { InLane(queue[l], work[l]) : l \in Xhttp!Lanes }
  BY <1>1 DEF Xhttp!Pending, InLane
<1>3. Xhttp!Pending' = UNION { InLane(queue'[l], work'[l]) : l \in Xhttp!Lanes }
  BY <1>1 DEF Xhttp!Pending, InLane
<1> QED BY <1>2, <1>3

(* What the steps of a lane do to its pending batches.                     *)
LEMMA InLaneSteps ==
  ASSUME NEW q \in Seq(PostSet), NEW w, NEW p \in PostSet
  PROVE  /\ InLane(Append(q, p), w) = InLane(q, w) \cup {p.batch}
         /\ q # << >> => InLane(Tail(q), Head(q)) = InLane(q, Xhttp!NoPost)
         /\ w # Xhttp!NoPost => InLane(q, w) = InLane(q, Xhttp!NoPost) \cup {w.batch}
<1>1. /\ Len(q) \in Nat /\ Len(Append(q, p)) = Len(q) + 1
      /\ \A n \in 1 .. Len(q) : Append(q, p)[n] = q[n]
      /\ Append(q, p)[Len(q) + 1] = p
  BY LenProperties, AppendProperties
<1>2. { Append(q, p)[n].batch : n \in 1 .. Len(Append(q, p)) }
        = { q[n].batch : n \in 1 .. Len(q) } \cup {p.batch}
  <2>1. 1 .. Len(Append(q, p)) = 1 .. Len(q) \cup {Len(q) + 1}
    BY <1>1
  <2> QED BY <1>1, <2>1
<1>3. ASSUME q # << >>
      PROVE  InLane(Tail(q), Head(q)) = InLane(q, Xhttp!NoPost)
  <2>1. /\ Len(q) \in Nat \ {0} /\ Len(Tail(q)) = Len(q) - 1
        /\ \A n \in 1 .. Len(q) - 1 : Tail(q)[n] = q[n + 1]
        /\ Head(q) = q[1] /\ q[1] \in PostSet
    BY <1>3, EmptySeq, HeadTailProperties
  <2>2. q[1] # Xhttp!NoPost
    BY <2>1 DEF PostSet, Xhttp!NoPost
  <2>3. { q[n].batch : n \in 1 .. Len(q) }
          = {q[1].batch} \cup { q[n + 1].batch : n \in 1 .. Len(q) - 1 }
    <3>1. \A n \in 1 .. Len(q) : n = 1 \/ (n - 1 \in 1 .. Len(q) - 1 /\ n - 1 + 1 = n)
      BY <2>1
    <3>2. 1 \in 1 .. Len(q) /\ \A n \in 1 .. Len(q) - 1 : n + 1 \in 1 .. Len(q)
      BY <2>1
    <3> QED BY <3>1, <3>2
  <2>4. { Tail(q)[n].batch : n \in 1 .. Len(Tail(q)) }
          = { q[n + 1].batch : n \in 1 .. Len(q) - 1 }
    BY <2>1
  <2> QED BY <2>1, <2>2, <2>3, <2>4 DEF InLane
<1> QED BY <1>2, <1>3 DEF InLane

(* A step of one lane. *)
LEMMA PendingStep ==
  ASSUME XhttpType, XhttpType', NEW l \in Xhttp!Lanes, NEW B,
         \A m \in Xhttp!Lanes \ {l} : queue'[m] = queue[m] /\ work'[m] = work[m]
  PROVE  /\ InLane(queue'[l], work'[l]) \cup B = InLane(queue[l], work[l])
              => Xhttp!Pending' \cup B = Xhttp!Pending
         /\ InLane(queue'[l], work'[l]) = InLane(queue[l], work[l]) \cup B
              => Xhttp!Pending' = Xhttp!Pending \cup B
<1> DEFINE Rest == UNION { InLane(queue[m], work[m]) : m \in Xhttp!Lanes \ {l} }
           Others == UNION { InLane(queue'[m], work'[m]) : m \in Xhttp!Lanes \ {l} }
<1>1. Rest = Others
  OBVIOUS
<1>2. Xhttp!Pending = InLane(queue[l], work[l]) \cup Rest
  BY PendingIs
<1>3. Xhttp!Pending' = InLane(queue'[l], work'[l]) \cup Others
  BY PendingIs
<1> HIDE DEF Rest, Others
<1> QED BY <1>1, <1>2, <1>3

(* Only a failure is signalled, and a bridge stays the kind it is.         *)
LEMMA SignalStep ==
  ASSUME XhttpInv, Xhttp!Next
  PROVE  kind' = kind /\ (signalled' => failed')
<1> USE DEF XhttpInv, DeliverInv
<1>1. CASE \/ Xhttp!Write \/ Xhttp!HalfClose \/ Xhttp!DropPipe \/ Xhttp!Network
           \/ UNCHANGED <<kind, Xhttp!userVars, Xhttp!uploadVars>>
  BY <1>1 DEF Xhttp!Write, Xhttp!HalfClose, Xhttp!DropPipe, Xhttp!Network, Xhttp!StreamArrives,
     Xhttp!EndArrives, Xhttp!ConnectionLost, Xhttp!Reaches, Xhttp!uploadVars
<1>2. CASE \/ Xhttp!ReadBatch \/ Xhttp!ReadEnd("done") \/ Xhttp!ReadEnd("answer")
           \/ Xhttp!SendBatch \/ Xhttp!SendFails("done") \/ Xhttp!SendFails("answer")
  BY <1>2 DEF Xhttp!ReadBatch, Xhttp!ReadEnd, Xhttp!SendBatch, Xhttp!SendFails
<1>3. CASE \/ Xhttp!RequestUpload \/ Xhttp!UploadAnswered \/ Xhttp!CheckFailed
           \/ Xhttp!SpawnPost \/ Xhttp!EnqueuePost \/ Xhttp!EnqueueFails
  BY <1>3 DEF Xhttp!RequestUpload, Xhttp!UploadAnswered, Xhttp!CheckFailed, Xhttp!SpawnPost,
     Xhttp!EnqueuePost, Xhttp!EnqueueFails
<1>4. CASE \E p \in posts : Xhttp!PostArrives(p) \/ Xhttp!PostSucceeds(p) \/ Xhttp!PostFails(p)
  BY <1>4 DEF Xhttp!PostArrives, Xhttp!PostSucceeds, Xhttp!PostFails
<1>5. CASE \E l \in Xhttp!Lanes : Xhttp!Worker(l)
  BY <1>5 DEF Xhttp!Worker, Xhttp!WorkerTakes, Xhttp!WorkerSends, Xhttp!WorkerFails,
     Xhttp!WorkerEnds
<1> QED BY <1>1, <1>2, <1>3, <1>4, <1>5, XhttpSteps

(* A stream keeps account of its connection.                               *)
LEMMA StreamStep ==
  ASSUME XhttpInv, Xhttp!Next, kind \in Xhttp!Streaming
  PROVE  StreamDeliver'
<1> USE DEF XhttpInv, StreamDeliver
<1>1. /\ StreamDeliver /\ kind' = kind /\ seq \in Nat
      /\ kind \notin {"h1_packet", "h2_packet", "h3_packet"}
      /\ \A l \in Xhttp!Lanes : queue[l] = << >> /\ work[l] = Xhttp!NoPost
  BY SignalStep DEF DeliverInv, OrderInv, Xhttp!Streaming, XhttpType
<1>2. CASE \/ Xhttp!Write \/ Xhttp!HalfClose \/ Xhttp!DropPipe
           \/ UNCHANGED <<kind, Xhttp!userVars, Xhttp!uploadVars>>
  <2>1. UNCHANGED <<taken, upload, seq, failed, posts, requestEnd, arrived>>
    BY <1>2 DEF Xhttp!Write, Xhttp!HalfClose, Xhttp!DropPipe, Xhttp!uploadVars, Xhttp!reachVars
  <2>2. eof \/ gone => wrote' = wrote /\ (eof' \/ gone')
    BY <1>2 DEF Xhttp!Write, Xhttp!HalfClose, Xhttp!DropPipe, Xhttp!userVars
  <2> QED BY <1>1, <2>1, <2>2
<1>3. CASE Xhttp!Network
  <2>1. UNCHANGED <<wrote, eof, gone, taken, upload, seq, failed, posts>>
    BY <1>3 DEF Xhttp!Network, Xhttp!StreamArrives, Xhttp!EndArrives, Xhttp!ConnectionLost,
       Xhttp!Reaches, Xhttp!userVars
  <2>2. \/ requestEnd' = requestEnd /\ requestEnd \in {"open", "sent"}
        \/ requestEnd = "sent" /\ requestEnd' = "seen" /\ arrived = 1 .. seq /\ arrived' = arrived
        \/ requestEnd # "seen" /\ requestEnd' = "lost"
    BY <1>3 DEF Xhttp!Network, Xhttp!StreamArrives, Xhttp!EndArrives, Xhttp!ConnectionLost,
       Xhttp!Reaches
  <2> QED BY <1>1, <2>1, <2>2
<1>4. CASE Xhttp!ReadBatch
  BY <1>1, <1>4 DEF Xhttp!ReadBatch, Xhttp!userVars, Xhttp!reachVars, Xhttp!Goto
<1>5. CASE \/ kind # "h2_up" /\ Xhttp!ReadEnd("done")
           \/ kind = "h2_up" /\ Xhttp!ReadEnd("answer")
  <2>1. /\ UNCHANGED <<wrote, eof, gone, taken, seq, failed, posts, arrived>>
        /\ upload = "read" /\ upload' \in {"answer", "done"} /\ taken = wrote /\ (eof \/ gone)
        /\ requestEnd' \in {requestEnd, "sent"} /\ (kind = "h2_up" => upload' # "done")
    BY <1>5 DEF Xhttp!ReadEnd, Xhttp!userVars, Xhttp!Goto
  <2>2. requestEnd' # "seen"
    BY <1>1, <2>1
  <2> QED BY <1>1, <2>1, <2>2
<1>6. CASE Xhttp!SendBatch
  BY <1>1, <1>6 DEF Xhttp!SendBatch, Xhttp!userVars, Xhttp!reachVars, Xhttp!Goto
<1>7. CASE Xhttp!SendFails("done") \/ Xhttp!SendFails("answer")
  BY <1>1, <1>7 DEF Xhttp!SendFails, Xhttp!userVars, Xhttp!reachVars, Xhttp!Goto
<1>8. CASE Xhttp!RequestUpload
  BY <1>1, <1>8 DEF Xhttp!RequestUpload, Xhttp!userVars, Xhttp!reachVars, Xhttp!Goto
<1>9. CASE Xhttp!UploadAnswered
  BY <1>1, <1>9 DEF Xhttp!UploadAnswered, Xhttp!userVars, Xhttp!reachVars, Xhttp!Goto
<1>10. CASE \E l \in Xhttp!Lanes : Xhttp!Worker(l)
  BY <1>1, <1>10 DEF Xhttp!Worker, Xhttp!WorkerTakes, Xhttp!WorkerSends, Xhttp!WorkerFails,
     Xhttp!WorkerEnds
<1> QED BY <1>1, <1>2, <1>3, <1>4, <1>5, <1>6, <1>7, <1>8, <1>9, <1>10, XhttpSteps

(* The other bridges keep account of their batches, unless one is lost,    *)
(* which is flagged.                                                       *)
LEMMA PostStep ==
  ASSUME Xhttp!BridgeAssumption, XhttpInv, XhttpType', Xhttp!Next, kind \notin Xhttp!Streaming
  PROVE  PostDeliver'
<1> USE DEF XhttpInv
<1>0. PostDeliver /\ kind \notin {"h1_stream", "h1_split", "h2_stream", "h2_up"}
  BY DEF DeliverInv, Xhttp!Streaming
<1>13. requestEnd' = "open"
  BY <1>0, XhttpSteps DEF PostDeliver, Xhttp!Write, Xhttp!HalfClose, Xhttp!DropPipe,
     Xhttp!Network, Xhttp!StreamArrives, Xhttp!EndArrives, Xhttp!ConnectionLost, Xhttp!Reaches,
     Xhttp!ReadBatch, Xhttp!ReadEnd, Xhttp!CheckFailed, Xhttp!SpawnPost, Xhttp!EnqueuePost,
     Xhttp!EnqueueFails, Xhttp!PostArrives, Xhttp!PostSucceeds, Xhttp!PostFails, Xhttp!Worker,
     Xhttp!WorkerTakes, Xhttp!WorkerSends, Xhttp!WorkerFails, Xhttp!WorkerEnds,
     Xhttp!uploadVars, Xhttp!reachVars
<1>1. CASE failed' = TRUE
  BY <1>1, <1>13 DEF PostDeliver
<1>2. ASSUME UNCHANGED <<queue, work>> PROVE Xhttp!Pending' = Xhttp!Pending
  BY <1>2 DEF Xhttp!Pending
<1>3. CASE \/ Xhttp!Write \/ Xhttp!HalfClose \/ Xhttp!DropPipe
           \/ UNCHANGED <<kind, Xhttp!userVars, Xhttp!uploadVars>>
  <2>1. UNCHANGED <<taken, upload, failed, posts, queue, work, arrived>>
    BY <1>3 DEF Xhttp!Write, Xhttp!HalfClose, Xhttp!DropPipe, Xhttp!uploadVars, Xhttp!laneVars,
       Xhttp!reachVars
  <2>2. OnTheWay' = OnTheWay
    BY <1>2, <2>1 DEF OnTheWay, Xhttp!UnderWay
  <2>3. eof \/ gone => wrote' = wrote /\ (eof' \/ gone')
    BY <1>3 DEF Xhttp!Write, Xhttp!HalfClose, Xhttp!DropPipe, Xhttp!userVars
  <2> QED BY <1>0, <1>13, <2>1, <2>2, <2>3 DEF PostDeliver
<1>4. CASE Xhttp!ReadBatch
  <2>1. /\ UNCHANGED <<wrote, eof, gone, failed, posts, queue, work, arrived>>
        /\ upload = "read" /\ upload' = "hold" /\ taken' = taken + 1
    BY <1>4 DEF Xhttp!ReadBatch, Xhttp!userVars, Xhttp!laneVars, Xhttp!reachVars, Xhttp!Goto
  <2>2. OnTheWay' = OnTheWay \cup {taken'}
    BY <1>2, <2>1 DEF OnTheWay, Xhttp!UnderWay
  <2>3. 1 .. taken' = 1 .. taken \cup {taken'}
    <3>1. taken \in Nat
      BY DEF XhttpType
    <3> QED BY <2>1, <3>1
  <2> QED BY <1>0, <1>13, <2>1, <2>2, <2>3 DEF PostDeliver
<1>5. CASE Xhttp!ReadEnd("done") \/ Xhttp!CheckFailed
  <2>1. /\ UNCHANGED <<wrote, eof, gone, taken, failed, posts, queue, work, arrived>>
        /\ upload # "hold" /\ upload' # "hold"
        /\ ~failed /\ upload' = "done" => taken = wrote /\ (eof \/ gone)
    BY <1>5 DEF Xhttp!ReadEnd, Xhttp!CheckFailed, Xhttp!userVars, Xhttp!laneVars,
       Xhttp!reachVars, Xhttp!Goto
  <2>2. OnTheWay' = OnTheWay
    BY <1>2, <2>1 DEF OnTheWay, Xhttp!UnderWay
  <2> QED BY <1>0, <1>13, <2>1, <2>2 DEF PostDeliver
<1>7. CASE Xhttp!EnqueueFails
  BY <1>1, <1>7 DEF Xhttp!EnqueueFails
<1>9. CASE Xhttp!SpawnPost
  <2>1. /\ UNCHANGED <<wrote, eof, gone, taken, failed, queue, work, arrived>>
        /\ upload = "hold" /\ upload' = "top" /\ posts' = posts \cup {Xhttp!Post}
        /\ Xhttp!Post.batch = taken
    BY <1>9 DEF Xhttp!SpawnPost, Xhttp!userVars, Xhttp!laneVars, Xhttp!reachVars, Xhttp!Goto,
       Xhttp!Post
  <2>2. OnTheWay' = OnTheWay
    BY <1>2, <2>1 DEF OnTheWay, Xhttp!UnderWay
  <2> QED BY <1>0, <1>13, <2>1, <2>2 DEF PostDeliver
<1>10. CASE Xhttp!EnqueuePost
  <2>1. /\ UNCHANGED <<wrote, eof, gone, taken, failed, posts, work, arrived>>
        /\ upload = "hold" /\ upload' = "top"
        /\ queue' = [queue EXCEPT ![Xhttp!Lane] = Append(queue[Xhttp!Lane], Xhttp!Post)]
        /\ Xhttp!Post.batch = taken
    BY <1>10 DEF Xhttp!EnqueuePost, Xhttp!userVars, Xhttp!reachVars, Xhttp!Goto, Xhttp!Post
  <2>2. /\ Xhttp!Lane \in Xhttp!Lanes /\ Xhttp!Post \in PostSet
        /\ queue[Xhttp!Lane] \in Seq(PostSet)
    BY LaneFacts DEF Xhttp!Post, PostSet, XhttpType
  <2>3. /\ queue'[Xhttp!Lane] = Append(queue[Xhttp!Lane], Xhttp!Post)
        /\ \A m \in Xhttp!Lanes \ {Xhttp!Lane} : queue'[m] = queue[m] /\ work'[m] = work[m]
    BY <2>1, <2>2 DEF XhttpType
  <2>4. InLane(queue'[Xhttp!Lane], work'[Xhttp!Lane])
          = InLane(queue[Xhttp!Lane], work[Xhttp!Lane]) \cup {taken}
    BY <2>1, <2>2, <2>3, InLaneSteps
  <2>5. Xhttp!Pending' = Xhttp!Pending \cup {taken}
    BY <2>2, <2>3, <2>4, PendingStep
  <2>6. OnTheWay' = OnTheWay
    BY <2>1, <2>5 DEF OnTheWay, Xhttp!UnderWay
  <2> QED BY <1>0, <1>13, <2>1, <2>6 DEF PostDeliver
<1>11. ASSUME NEW p \in posts,
              Xhttp!PostArrives(p) \/ Xhttp!PostSucceeds(p) \/ Xhttp!PostFails(p)
       PROVE  PostDeliver'
  <2>1. CASE Xhttp!PostFails(p)
    BY <1>1, <2>1 DEF Xhttp!PostFails
  <2>2. CASE Xhttp!PostArrives(p) \/ Xhttp!PostSucceeds(p)
    <3>1. /\ UNCHANGED <<wrote, eof, gone, taken, failed, upload, queue, work>>
          /\ \/ posts' = posts /\ arrived' = arrived \cup {p.batch}
             \/ posts' = posts \ {p} /\ arrived' = arrived /\ p.batch \in arrived
      BY <2>2 DEF Xhttp!PostArrives, Xhttp!PostSucceeds, Xhttp!userVars, Xhttp!laneVars,
         Xhttp!reachVars
    <3>2. arrived' \cup OnTheWay' = arrived \cup OnTheWay
      BY <1>2, <3>1 DEF OnTheWay, Xhttp!UnderWay
    <3> QED BY <1>0, <1>13, <3>1, <3>2 DEF PostDeliver
  <2> QED BY <1>11, <2>1, <2>2
<1>12. ASSUME NEW l \in Xhttp!Lanes, Xhttp!Worker(l) PROVE PostDeliver'
  <2>1. CASE Xhttp!WorkerFails(l)
    BY <1>1, <2>1 DEF Xhttp!WorkerFails
  <2>2. CASE Xhttp!WorkerTakes(l) \/ Xhttp!WorkerSends(l) \/ Xhttp!WorkerEnds(l)
    <3>1. /\ UNCHANGED <<wrote, eof, gone, taken, failed, upload, posts>>
          /\ \A m \in Xhttp!Lanes \ {l} : queue'[m] = queue[m] /\ work'[m] = work[m]
          /\ queue[l] \in Seq(PostSet)
      BY <2>2 DEF Xhttp!WorkerTakes, Xhttp!WorkerSends, Xhttp!WorkerEnds, Xhttp!userVars,
         XhttpType
    <3>2. PICK B : arrived' = arrived \cup B /\ Xhttp!Pending' \cup B = Xhttp!Pending
      <4>1. CASE Xhttp!WorkerTakes(l)
        <5>1. /\ queue'[l] = Tail(queue[l]) /\ work'[l] = Head(queue[l]) /\ arrived' = arrived
              /\ work[l] = Xhttp!NoPost /\ queue[l] # << >>
          BY <4>1 DEF Xhttp!WorkerTakes, Xhttp!reachVars, XhttpType
        <5>2. PICK p \in PostSet : TRUE
          BY <3>1, <5>1, HeadTailProperties
        <5>3. InLane(queue'[l], work'[l]) \cup {} = InLane(queue[l], work[l])
          BY <3>1, <5>1, <5>2, InLaneSteps
        <5>4. Xhttp!Pending' \cup {} = Xhttp!Pending
          BY <3>1, <5>3, PendingStep
        <5>5. arrived' = arrived \cup {}
          BY <5>1
        <5> QED BY <5>4, <5>5
      <4>2. CASE Xhttp!WorkerSends(l)
        <5>1. /\ queue'[l] = queue[l] /\ work'[l] = Xhttp!NoPost /\ work[l] # Xhttp!NoPost
              /\ arrived' = arrived \cup {work[l].batch}
          BY <4>2 DEF Xhttp!WorkerSends, XhttpType
        <5>2. work[l] \in PostSet
          BY <5>1 DEF XhttpType
        <5>3. InLane(queue'[l], work'[l]) \cup {work[l].batch} = InLane(queue[l], work[l])
          <6>1. PICK q : q = queue[l] /\ q \in Seq(PostSet)
            BY <3>1
          <6>2. PICK w : w = work[l] /\ w # Xhttp!NoPost /\ w \in PostSet
            BY <5>1, <5>2
          <6>3. InLane(q, w) = InLane(q, Xhttp!NoPost) \cup {w.batch}
            BY <6>1, <6>2, InLaneSteps
          <6> QED BY <5>1, <6>1, <6>2, <6>3
        <5>4. Xhttp!Pending' \cup {work[l].batch} = Xhttp!Pending
          BY <3>1, <5>3, PendingStep
        <5> QED BY <5>1, <5>4
      <4>3. CASE Xhttp!WorkerEnds(l)
        <5>1. UNCHANGED <<queue, work, arrived>>
          BY <4>3 DEF Xhttp!WorkerEnds, Xhttp!reachVars
        <5>2. arrived' = arrived \cup {} /\ Xhttp!Pending' \cup {} = Xhttp!Pending
          BY <1>2, <5>1
        <5> QED BY <5>2
      <4> QED BY <2>2, <4>1, <4>2, <4>3
    <3>3. arrived' \cup OnTheWay' = arrived \cup OnTheWay
      BY <3>1, <3>2 DEF OnTheWay, Xhttp!UnderWay
    <3> QED BY <1>0, <1>13, <3>1, <3>3 DEF PostDeliver
  <2> QED BY <1>12, <2>1, <2>2 DEF Xhttp!Worker
<1>14. CASE Xhttp!Network
  BY <1>0, <1>14 DEF Xhttp!Network, Xhttp!StreamArrives, Xhttp!EndArrives, Xhttp!ConnectionLost,
     Xhttp!Reaches, Xhttp!Streaming
<1> QED BY <1>0, <1>3, <1>4, <1>5, <1>7, <1>9, <1>10, <1>11, <1>12, <1>14, XhttpSteps

(* Every step keeps account of the batches.                                *)
LEMMA DeliverStep ==
  ASSUME Xhttp!BridgeAssumption, XhttpInv, XhttpType', Xhttp!Next
  PROVE  DeliverInv'
<1>1. kind' = kind /\ kind \in Xhttp!AllKinds /\ (signalled' => failed')
  BY SignalStep DEF XhttpInv, DeliverInv
<1> QED BY <1>1, StreamStep, PostStep DEF DeliverInv

-----------------------------------------------------------------------------
(* A step of a bridge keeps the invariant.                                 *)
LEMMA XhttpStep ==
  Xhttp!BridgeAssumption /\ XhttpInv /\ [Xhttp!Next]_(Xhttp!vars) => XhttpInv'
<1> SUFFICES ASSUME Xhttp!BridgeAssumption, XhttpInv, [Xhttp!Next]_(Xhttp!vars)
             PROVE  XhttpInv'
  OBVIOUS
<1>1. CASE Xhttp!Next
  BY <1>1, XhttpTypeStep, OrderStep, DeliverStep DEF XhttpInv
<1>2. CASE UNCHANGED Xhttp!vars
  <2>1. UNCHANGED <<kind, wrote, eof, gone, taken, upload, seq, failed, signalled, posts,
                    queue, work, kept, worker, requestEnd, arrived>>
    BY <1>2 DEF Xhttp!vars, Xhttp!userVars, Xhttp!uploadVars, Xhttp!laneVars, Xhttp!reachVars
  <2>2. Xhttp!Pending' = Xhttp!Pending
    BY <2>1 DEF Xhttp!Pending
  <2> QED BY <2>1, <2>2 DEF XhttpInv, XhttpType, OrderInv, DeliverInv, StreamDeliver,
      PostDeliver, OnTheWay, Xhttp!UnderWay
<1> QED BY <1>1, <1>2

(* A pending post of h1_packet, and how long ago it was numbered.          *)
LEMMA PendingBounded ==
  ASSUME Xhttp!BridgeAssumption, XhttpInv, NEW d \in Xhttp!Pending
  PROVE  /\ kind = "h1_packet"
         /\ d \in Nat /\ d <= seq
         /\ seq < d + Workers * (QueueLimit + 1)
<1>1. PICK l \in Xhttp!Lanes, p \in PostSet, k \in 1 .. QueueLimit + 1 :
        /\ kind = "h1_packet" /\ d = p.batch
        /\ Placed(p, l, k, seq)
  <2>1. PICK l \in Xhttp!Lanes :
          \/ work[l] # Xhttp!NoPost /\ d = work[l].batch
          \/ \E n \in DOMAIN queue[l] : d = queue[l][n].batch
    BY DEF Xhttp!Pending
  <2>2. /\ queue[l] \in Seq(PostSet) /\ Len(queue[l]) \in Nat
        /\ DOMAIN queue[l] = 1 .. Len(queue[l])
        /\ work[l] # Xhttp!NoPost => work[l] \in PostSet
        /\ \A n \in 1 .. Len(queue[l]) : queue[l][n] \in PostSet
    BY LaneFacts, LenProperties DEF XhttpInv
  <2>3. kind = "h1_packet"
    <3>1. DOMAIN << >> = {}
      OBVIOUS
    <3> QED BY <2>1, <3>1 DEF XhttpInv, OrderInv
  <2>4. LaneOK(queue[l], work[l], l, seq) /\ QueueLimit \in Nat
    BY <2>3 DEF XhttpInv, OrderInv, Xhttp!BridgeAssumption
  <2>5. CASE work[l] # Xhttp!NoPost /\ d = work[l].batch
    <3>1. Len(queue[l]) + 1 \in 1 .. QueueLimit + 1
      BY <2>2, <2>4 DEF LaneOK
    <3> QED BY <2>2, <2>3, <2>4, <2>5, <3>1 DEF LaneOK
  <2>6. ASSUME NEW n \in 1 .. Len(queue[l]), d = queue[l][n].batch
        PROVE  Len(queue[l]) - n + 1 \in 1 .. QueueLimit + 1
               /\ Placed(queue[l][n], l, Len(queue[l]) - n + 1, seq)
    BY <2>2, <2>4 DEF LaneOK
  <2> QED BY <2>1, <2>2, <2>3, <2>5, <2>6
<1>2. /\ p.seq \in Nat /\ d = p.seq + 1 /\ p.seq < seq /\ seq <= p.seq + Workers * k
      /\ seq \in Nat /\ Workers \in Nat \ {0} /\ QueueLimit \in Nat
  BY <1>1 DEF Placed, PostSet, XhttpInv, XhttpType, Xhttp!BridgeAssumption
<1>3. Workers * k <= Workers * (QueueLimit + 1) /\ Workers * k \in Nat
      /\ Workers * (QueueLimit + 1) \in Nat
  BY <1>2
<1> QED BY <1>1, <1>2, <1>3

(* The invariant implies what the runs check of a bridge.                  *)
LEMMA XhttpInvIsEnough ==
  Xhttp!BridgeAssumption /\ XhttpInv =>
    /\ Xhttp!AnswersDrained /\ Xhttp!ReorderBounded /\ Xhttp!CleanEndDeliversAll
    /\ signalled => failed
<1> SUFFICES ASSUME Xhttp!BridgeAssumption, XhttpInv
             PROVE  /\ Xhttp!AnswersDrained /\ Xhttp!ReorderBounded
                    /\ Xhttp!CleanEndDeliversAll
                    /\ signalled => failed
  OBVIOUS
<1>1. Xhttp!AnswersDrained
  BY DEF Xhttp!AnswersDrained, XhttpInv, XhttpType, Unannounced
<1>2. Xhttp!ReorderBounded
  <2> SUFFICES ASSUME NEW d \in Xhttp!Pending, NEW b \in arrived \cup Xhttp!Pending
               PROVE  b - d < Workers * (QueueLimit + 1)
    BY DEF Xhttp!ReorderBounded
  <2>1. kind = "h1_packet" /\ d \in Nat /\ seq < d + Workers * (QueueLimit + 1)
    BY PendingBounded
  <2>2. b \in Nat /\ b <= seq
    <3>1. CASE b \in Xhttp!Pending
      BY <3>1, PendingBounded
    <3>2. CASE b \in arrived
      BY <2>1, <3>2 DEF XhttpInv, XhttpType, OrderInv
    <3> QED BY <3>1, <3>2
  <2>3. Workers * (QueueLimit + 1) \in Nat /\ seq \in Nat
    BY DEF Xhttp!BridgeAssumption, XhttpInv, XhttpType
  <2> QED BY <2>1, <2>2, <2>3
<1>3. Xhttp!CleanEndDeliversAll
  <2>1. CASE kind \in Xhttp!Streaming
    <3>1. StreamDeliver /\ \A l \in Xhttp!Lanes : queue[l] = << >> /\ work[l] = Xhttp!NoPost
      BY <2>1 DEF XhttpInv, DeliverInv, OrderInv, Xhttp!Streaming
    <3>2. requestEnd = "seen" => arrived = 1 .. wrote
      BY <3>1 DEF StreamDeliver
    <3>3. Xhttp!UnderWay = {}
      <4>1. DOMAIN << >> = {}
        OBVIOUS
      <4> QED BY <3>1, <4>1 DEF Xhttp!UnderWay, Xhttp!Pending, StreamDeliver
    <3>4. kind \in Xhttp!Answered => kind = "h2_up"
      BY <2>1 DEF Xhttp!Streaming, Xhttp!Answered
    <3>5. kind = "h2_up" /\ upload = "done" /\ ~failed => requestEnd = "seen"
      BY <3>1 DEF StreamDeliver
    <3> QED BY <3>2, <3>3, <3>4, <3>5 DEF Xhttp!CleanEndDeliversAll
  <2>2. CASE kind \notin Xhttp!Streaming
    <3>1. PostDeliver
      BY <2>2 DEF XhttpInv, DeliverInv
    <3>2. upload = "done" => OnTheWay = Xhttp!UnderWay
      BY DEF OnTheWay
    <3> QED BY <3>1, <3>2 DEF Xhttp!CleanEndDeliversAll, PostDeliver
  <2> QED BY <2>1, <2>2
<1> QED BY <1>1, <1>2, <1>3 DEF XhttpInv, DeliverInv

(* The body is copied on when the channel tells of no failure.             *)
LEMMA XhttpCuts ==
  Xhttp!BridgeAssumption /\ XhttpInv /\ [Xhttp!Next]_(Xhttp!vars)
    => (Xhttp!CutsBody => Xhttp!EndsForAReason)
<1> SUFFICES ASSUME XhttpInv, [Xhttp!Next]_(Xhttp!vars), Xhttp!CutsBody
             PROVE  failed \/ gone \/ served
  BY DEF Xhttp!EndsForAReason
<1>1. download \in {"body", "write"} /\ download' = "ended"
  BY DEF Xhttp!CutsBody
<1>2. Xhttp!Next
  BY <1>1 DEF Xhttp!vars, Xhttp!downloadVars
<1>3. CASE Xhttp!Download
  <2>1. \/ Xhttp!Respond \/ Xhttp!TakeData \/ Xhttp!DataWritten \/ Xhttp!DownloadEnds
        \/ Xhttp!CutBeforeResponse \/ Xhttp!CutBody
    BY <1>3 DEF Xhttp!Download, Xhttp!Http1Download, Xhttp!Http1SplitDownload,
       Xhttp!Http1PacketDownload, Xhttp!H2Download, Xhttp!H2UpDownload,
       Xhttp!H2PacketDownload, Xhttp!H3PacketDownload, Xhttp!Copies
  <2> QED BY <1>1, <2>1 DEF Xhttp!Respond, Xhttp!TakeData, Xhttp!DataWritten, Xhttp!Writes,
      Xhttp!DownloadEnds, Xhttp!CutBeforeResponse, Xhttp!CutBody, XhttpInv, DeliverInv
<1>4. CASE Xhttp!Write \/ Xhttp!HalfClose \/ Xhttp!DropPipe \/ Xhttp!ServerEnds \/ Xhttp!Network
  BY <1>1, <1>4 DEF Xhttp!Write, Xhttp!HalfClose, Xhttp!DropPipe, Xhttp!ServerEnds,
     Xhttp!Network, Xhttp!StreamArrives, Xhttp!EndArrives, Xhttp!ConnectionLost, Xhttp!Reaches,
     Xhttp!downloadVars
<1>5. CASE Xhttp!Upload
  BY <1>1, <1>5 DEF Xhttp!Upload, Xhttp!Http1Upload, Xhttp!Http1SplitUpload, Xhttp!H2Upload,
     Xhttp!H2UpUpload, Xhttp!Http1PacketUpload, Xhttp!H2PacketUpload,
     Xhttp!H3PacketUpload, Xhttp!StreamUpload, Xhttp!PostBatches, Xhttp!ReadBatch,
     Xhttp!ReadEnd, Xhttp!SendBatch, Xhttp!SendFails, Xhttp!CheckFailed,
     Xhttp!RequestUpload, Xhttp!UploadAnswered, Xhttp!SpawnPost, Xhttp!EnqueuePost,
     Xhttp!EnqueueFails, Xhttp!downloadVars
<1>6. CASE \E p \in posts : Xhttp!PostArrives(p) \/ Xhttp!PostSucceeds(p) \/ Xhttp!PostFails(p)
  BY <1>1, <1>6 DEF Xhttp!PostArrives, Xhttp!PostSucceeds, Xhttp!PostFails, Xhttp!downloadVars
<1>7. CASE \E l \in Xhttp!Lanes : Xhttp!Worker(l)
  BY <1>1, <1>7 DEF Xhttp!Worker, Xhttp!WorkerTakes, Xhttp!WorkerSends, Xhttp!WorkerFails,
     Xhttp!WorkerEnds, Xhttp!downloadVars
<1> QED BY <1>2, <1>3, <1>4, <1>5, <1>6, <1>7 DEF Xhttp!Next

-----------------------------------------------------------------------------
(* The bridges beside the VLESS adapter: a behaviour is of one of them.    *)
BridgesInv == of = "xhttp" => XhttpInv

(* The XHTTP conjuncts of what the runs check: announced bodies drained,   *)
(* the server never holding back more posts than the lanes let run ahead,  *)
(* and no end of an upload that a server sees, or answers with a success,  *)
(* with a batch forgotten.                                                 *)
XhttpSafety ==
  of = "xhttp" =>
    Xhttp!AnswersDrained /\ Xhttp!ReorderBounded /\ Xhttp!CleanEndDeliversAll

(* A step of HttpBridges is one of the bridge, or leaves the bridge alone. *)
LEMMA BridgeOrOther ==
  ASSUME [Next]_vars, (of = "xhttp")'
  PROVE  of = "xhttp" /\ [Xhttp!Next]_(Xhttp!vars)
<1>1. CASE Next
  <2>1. CASE OfXhttp /\ Xhttp!Next
    BY <2>1 DEF OfXhttp
  <2>2. CASE OfVless /\ Vless!Next
    BY <2>2 DEF OfVless
  <2> QED BY <1>1, <2>1, <2>2 DEF Next
<1>2. CASE UNCHANGED vars
  <2>1. UNCHANGED <<of, kind, gone, seq, posts>> /\ UNCHANGED xhttpOnly
    BY <1>2 DEF vars
  <2>2. UNCHANGED Xhttp!vars
    BY <2>1 DEF xhttpOnly, Xhttp!vars, Xhttp!userVars, Xhttp!uploadVars, Xhttp!laneVars,
       Xhttp!reachVars, Xhttp!downloadVars
  <2> QED BY <2>1, <2>2
<1> QED BY <1>1, <1>2

(* The invariant of the bridges is inductive.                              *)
LEMMA BridgesInduction ==
  /\ Init => BridgesInv
  /\ BridgesInv /\ [Next]_vars => BridgesInv'
<1>1. Xhttp!BridgeAssumption
  BY BridgesAssumption
<1>2. Init => BridgesInv
  BY <1>1, XhttpInitInv DEF Init, BridgesInv
<1>3. ASSUME BridgesInv, [Next]_vars, (of = "xhttp")' PROVE XhttpInv'
  <2>1. of = "xhttp" /\ [Xhttp!Next]_(Xhttp!vars)
    BY <1>3, BridgeOrOther
  <2>2. XhttpInv
    BY <1>3, <2>1 DEF BridgesInv
  <2> QED BY <1>1, <2>1, <2>2, XhttpStep
<1>4. BridgesInv /\ [Next]_vars => BridgesInv'
  BY <1>3 DEF BridgesInv
<1> QED BY <1>2, <1>4

(* The posts, the batches and the answers of an XHTTP bridge fit together. *)
THEOREM XhttpInvAlways == Spec => []BridgesInv
<1> QED BY BridgesInduction, PTL DEF Spec

(* A worker leaves nothing of an announced body on the connection it       *)
(* keeps; a server that puts the posts of the lanes in order has to keep   *)
(* fewer than Workers * (QueueLimit + 1) of them back; a server that sees  *)
(* the end of a stream's request has received every batch; and when an     *)
(* upload that is answered has ended without a failure, every batch has    *)
(* arrived or is in a post that is still queued or under way.  The end may *)
(* be lost with the connection, and of a stream that is not answered the   *)
(* bridge never learns it.                                                 *)
THEOREM XhttpSafe == Spec => []XhttpSafety
<1>1. BridgesInv => XhttpSafety
  <2>1. Xhttp!BridgeAssumption
    BY BridgesAssumption
  <2> QED BY <2>1, XhttpInvIsEnough DEF BridgesInv, XhttpSafety
<1> QED BY <1>1, XhttpInvAlways, PTL

(* A body that is being copied is cut short only by a failure, by the      *)
(* relay itself or by the server; never because the upload has ended.      *)
THEOREM BodyNotCutAlways == Spec => BodyNotCut
<1>1. BridgesInv /\ [Next]_vars =>
        [of = "xhttp" => (Xhttp!CutsBody => Xhttp!EndsForAReason)]_vars
  <2> SUFFICES ASSUME BridgesInv, [Next]_vars, of = "xhttp", Xhttp!CutsBody
               PROVE  Xhttp!EndsForAReason
    OBVIOUS
  <2>1. (of = "xhttp")'
    <3>1. CASE UNCHANGED vars
      BY <3>1 DEF vars
    <3>2. CASE Next
      BY <3>2 DEF Next, OfXhttp, OfVless
    <3> QED BY <3>1, <3>2
  <2>2. [Xhttp!Next]_(Xhttp!vars)
    BY <2>1, BridgeOrOther
  <2> QED BY <2>2, XhttpCuts, BridgesAssumption DEF BridgesInv
<1> QED BY <1>1, XhttpInvAlways, PTL DEF BodyNotCut, Spec
=============================================================================
