# NeonCore Atlas: specifications of the networking kernel

TLA+ modules, TLC configurations and TLAPS proofs for the concurrent core of
`src/crates/neoncore-kernel`. Every module is translated from the Rust source;
`PROJECT.json` lists under `map` the lines each definition stands for, under
`hazards` what is hard to test and which property covers it, and under
`mutants` one plausible bug for every property that the property detects.

## 1. The system and its parts

The kernel is one tokio process. A local SOCKS5 or HTTP client connects to its
listener (`main.rs`), the router (`routing.rs`) picks an outbound, an adapter
(`adapter/*.rs`) opens a stream to the proxy server or exchanges one UDP packet
with it, and `flow.rs` relays bytes both ways. UDP is request and answer:
`send_udp` of an adapter takes one datagram and returns one. Two things make
the kernel hard to get right: the adapters keep connections, sessions, sockets
and child processes between calls in global maps, and every stream passes
through layers that cut, frame, delay and hold back what goes through them.

| Component | State it keeps | Operations | Correct when | Here |
| --- | --- | --- | --- | --- |
| Packet session demultiplexer (`packet_session.rs`) | queues of waiters by target, a global fifo, a oneshot per waiter | register, remove_by_id, deliver, deliver_next, fail_all | the two indexes agree; every waiter gets at most one answer, of its target | `PacketDemux`, `PacketSession`, `WaiterList` |
| AnyTLS UDP (`anytls.rs` 225-497) | packet connection per target, `closed`, reader task | send_uot with its retry, udp_conn, remove_udp_conn, cleanup_udp | no call is lost, the retry uses another connection, a call that does not hang in an opening returns | `AnyTlsUdp`, `PacketUsers` |
| AnyTLS clients (`anytls.rs` 54-355) | `CLIENTS` of weak references, idle deque per client | client_for, open_stream, take_idle, release, cleanup_idle | a session serves one stream at a time; only surplus is closed | `AnyTlsPool`, `AnyTls` |
| AnyTLS sessions (`anytls.rs` 499-812) | maps of streams and synacks, write channel, `closed` | open_stream, poll_read/write/shutdown, drop, write_loop, read_loop, close_session | a stream reads its own chunks in order, the wire is well formed, nothing is left behind | `AnyTlsSession`, `AnyTls` |
| Shadowsocks direct UDP and UoT (`direct_udp.rs`, `uot.rs`) | lanes: a mutex around socket and reader, a demultiplexer each | pool send, send, close, reader loops | nobody waits on a socket that is gone, one reader per lane, one writer per stream | `PacketLanes`, `DirectUdpLanes`, `UotLanes`, `ShadowsocksUdp` |
| VLESS UDP mux (`vless.rs`) | registry of weak workers, writer mutex, demultiplexer | send_udp, open, write frame, reader | frames whole and in the right status, no call lost | `VlessMux`, `PacketUsers` |
| VLESS connections (`vless.rs`) | four tasks, two pipes, Vision and gRPC buffers | bridge_vless_stream, nine transports | both directions intact, an end says so, every task ends | `VisionCodec`, `VlessStream`, `HttpBridges` |
| VLESS XHTTP pool (`vless.rs`) | manager mutex, clients with atomic usage counters | get client, bridge tasks, cleanup | counters account for the users, limits hold, every call settles unless a connect hangs | `XmuxPool`, `AdapterPools` |
| SIP003 plugins (`transport.rs`) | pool of child processes, create locks, reserved ports | ensure process, reserve port, start, probe, evict | one starter per key, no port reserved twice, no reservation leaks | `Sip003Pool`, `AdapterPools` |
| kcptun sessions (`transport.rs`) | slots in turn, a create lock per slot, expiry | open stream with its retry, scavenge | a slot is filled once, no lock is kept | `KcptunPool`, `AdapterPools` |
| Hysteria2 clients (`hysteria2.rs`) | vector of clients in turn | connect with its retry, send_udp, eviction | bounded, each client once, a retry on another one | `Hy2Pool`, `AdapterPools` |
| XHTTP bridges (`transport.rs`) | pipe, upload and download task, post workers with kept connections, watch channel | seven kinds of bridge | an upload that ends without a failure delivers all, posts overtake each other only so far, failure ends the download | `XhttpBridge`, `HttpBridges` |
| Stream layers of Shadowsocks (`obfs.rs`, `tls_ticket.rs`, `transport.rs`) | pending writes, partial heads and records, handshake phase | poll_read, poll_write, poll_shutdown | payload is read in order, what was accepted is sent, nobody sleeps beside data | `LayeredStream`, `ObfsStreams`, `ShadowTlsStream`, `StreamLayers` |
| ShadowsocksR protocols (`ssr.rs`, `ssr/protocol/*.rs`) | frame numbers, partial frames, decoded rest | encode, decode, poll_read, poll_write | the same, and frames are numbered without a gap | `SsrStreams`, `StreamLayers` |
| Flow relay (`flow.rs`) | tokio's copy_bidirectional | FlowLink::relay | - | inside the two rows above |
| DNS, routing, listeners, configuration, ciphers, TUN packet inspection, control plane, native apps, vendored code | - | - | - | section 7 |

The components interact by calls, oneshot channels and spawned tasks. A
`send_udp` registers a waiter in a demultiplexer under a std mutex, writes to a
shared socket or stream, and awaits a oneshot with a timeout; a reader task
takes waiters out under the mutex and sends after it has let go of it.
Connections are closed by whoever notices a failure. `JoinHandle::abort` takes
effect at an await only, dropping a handle detaches the task, and weak
references decide how long pools and workers live. A TCP flow is one task of
the relay that polls a stack of layers, or that copies to a duplex pipe behind
which up to four tasks of a bridge read, frame and post; a pipe's end is all
that those learn of each other.

The hard behaviours: results sent after an unlock, timeouts racing answers,
state checked before an await and used after it, readers and bridges of an
earlier connection acting on a later one, clean-up in spawned tasks, mutexes
held across network calls, counters moved outside their lock, partial failure
between two steps of opening something, a poll that is Pending in the middle of
a record, and an end that is not told apart from a failure.

## 2. Modules

**`PacketDemux`** has the methods of `PacketSessionDemux` as pure operators on
`[pending, fifo]`, the state behind the mutex: the queue of request ids of each
target, and the (target, id) pairs in order of registration. `DemuxOK` says how
the two must agree. Every module below that owns a demultiplexer composes these
operators with its tasks and timers.

**`PacketSession`** is one demultiplexer with any number of callers and packets.
`Register`, `Remove`, `Deliver`, `DeliverNext`, `FailAll` are the critical
sections, `Expire` a dropped receiver, and `Send` the oneshot send that follows
the unlock; `sending` holds what lies between the two. **`WaiterList`** is the
abstract promise, one list of waiters, which `PacketSession` implements with
`fifo` as the list (`ImplementsWaiterList`).

Modules that answer the same question are composed by a module that names the
question, chooses one of them in `Init` with a variable that never changes
(`adapter`, `level`, `kind`, `of`) and states the properties of all. The
components themselves share no state in the code, so a behaviour is of one.

**`PacketUsers`** (`adapter`), the tables of waiters per connection:

* **`AnyTlsUdp`**: concurrent `send_uot` calls for one target. `slot` is the
  entry of the `udp` map. The look at `is_closed` and the registration are
  apart, and so are the two halves of `close()` and a timeout and the removal
  that follows it. An aborted reader may still deliver.
* **`VlessMux`**: calls, the registry of weak references, workers, the writer
  mutex with `first_packet`, reader tasks.

**`ShadowsocksUdp`** (`kind`, from the configuration of the node as in
`ShadowsocksAdapter::send_udp`): **`PacketLanes`** has what the two pools share,
the choice of a lane, its mutex, `reset_state`, timeouts, and a reader for each
socket ever opened. **`DirectUdpLanes`** writes after it has released the mutex,
and closes whatever socket is there when the write fails; **`UotLanes`** keeps
the mutex until the flush and resets before it lets go.

**`AnyTls`** (`level`): **`AnyTlsPool`** has `client_for`, the idle deque,
release tasks and the life of a client, which is alive while a call inside
`open_stream` or `send_uot`, or a release task, holds it. `Kept` is the loop of
`cleanup_idle` as a recursive function. **`AnyTlsSession`** has the streams of
one session. The maps `streams` and `synacks` have a lock each, so opening,
forgetting and closing take two steps. A chunk fits a frame or is oversize.

**`AdapterPools`** (`of`), what calls share and make when it is missing:

* **`XmuxPool`**: the manager under its mutex, which a call keeps while it
  connects, and the counters that calls and the two tasks of each bridge move
  without it. The vector of clients is a set of numbers given in the order of
  opening: nothing reorders it. `Configs` are the limit settings a run considers.
* **`Sip003Pool`**: the pool, the reserved ports, the create lock of each key
  and who holds an `Arc` of what; children start, exit, idle and are killed by
  `Drop`. The steps of the code are apart: a start binds a port the system has
  free, drops the listener, inserts the reservation if nobody has it, spawns; and
  a start that fails gives up its port before it kills its child. `foreign` are
  the ports that something outside the starts has: another program (`Contested`
  ports), or a plugin that has been told to die and is not dead yet.
* **`KcptunPool`**: the slots of one key, their create locks, scavenging, the
  retry that overrides a slot. **`Hy2Pool`**: the clients of one configuration.

**`HttpBridges`** (`of`), the tasks between the relay's pipe and HTTP:

* **`XhttpBridge`**: upload task, download task and posts of all seven bridges
  of Shadowsocks, and the connection an HTTP/1.1 post worker keeps between
  posts. The kinds share their actions; where the code differs, a guard or an
  action of its own names the kinds. What a streaming upload has handed to its
  connection (`seq`) is not what has arrived: it follows on its own, or the
  connection is lost, and with it the end of the request, whose failure the code
  ignores (`requestEnd`). An answer to a post may have any framing, one that only
  the end of the connection would end included, and a download may be stuck
  writing to the relay, where it looks at nothing else.
* **`VlessStream`**: the four tasks of a VLESS connection over nine transports;
  **`VisionCodec`** has the framings as functions of what has been received:
  the Vision uplink with its look at TLS records, the unpadding of the
  downlink, gRPC hunks. The length of a padding block is its content modulo
  `Width`, the code's 2^16; `overlong` remembers that a block was longer.

**`StreamLayers`** (`kind`), one stream under `copy_bidirectional`:
**`LayeredStream`** has the relay's task, which runs until both directions are
Pending and sleeps until something it has registered a waker for happens, the
socket and the peer. Bytes are tokens (payload units, heads, record headers,
handshake messages) and everything may be split between any two of them.
**`ObfsStreams`** has simple-obfs http and tls, the ShadowsocksR ticket and
random head, WebSocket and HTTP/2, one action for each turn of a poll function;
the length of a TLS record wraps at `Width`, and a server's answer may come in
several reads, of which the code discards one;
**`ShadowTlsStream`** ShadowTLS v1 to v3 from the ClientHello on, a tag of the
HMAC chain being its position; **`SsrStreams`** six codec families of
ShadowsocksR, a frame being one token per field, with the paddings whose length
field is long or misread and the checksums that cover only a part of the frame.

The `MC*` modules name the model values, give calls, keys and settings, and the
symmetry. Operators marked "Mutant" in a comment are variants of the definition
that follows and are not used by it.

## 3. Runs

| Run | Instance | States | Shows |
| --- | --- | --- | --- |
| `packet_session` | 4 requests, 2 keys | 32 k | indexes agree, no waiter stranded, at most one answer, of the right target; implements `WaiterList`; no deadlock |
| `packet_users` | 2 calls; AnyTLS 2 connections; VLESS 2 keys, 2 workers | 728 k | no call stranded, retry on another connection, no leaked waiter, only dead connections evicted, exactly one New frame and first, every call returns unless its opening hangs (VLESS: once its frame is written) |
| `shadowsocks_udp` | 3 calls, 1 key, 2 lanes, 3 sockets, both kinds | 2.3 M | no call stranded or on a closed socket, one reader per lane, one writer per stream, no leaked waiter, no deadlock |
| `anytls` | pool: 4 calls, 2 clients, 3 sessions, `MinIdle` 1; session: 2 streams, `MaxTraffic` 3 | 792 k | exclusive sessions, ordered deque, only surplus closed; no entry of a past stream left, order, frames |
| `adapter_pools` | XHTTP 3 calls, 2 settings, 2 connections, 1 post; SIP003 2 calls, 1 port, contested, 2 starts; kcptun 2 calls, 1 slot, 3 sessions; Hysteria2 3 calls, pool of 2, 5 clients | 532 k | counters accounted for, pools bounded, one start per key, no port reserved twice, no reservation leaked, retries on another client; if no attempt to connect hangs, every call settles |
| `http_bridges` | 7 XHTTP kinds, 2 workers, queue of 1, 3 batches (`h1_packet` 5); 9 VLESS transports, 2 units, `Width` 3 | 566 k | both directions intact however reads are cut, an end on a working connection is whole, failure ends the download and nothing else cuts it, all tasks end if no write blocks for ever |
| `stream_layers` | 16 layers, 2 units each way, a socket of 6 tokens (`auth` 7), `Width` 2 | 1.1 M | the payload arrives in order, and nothing else where section 6 names no leak; what was accepted is kept, what is sent parses, what arrives is read |
| `anytls_pooling_claim` | 3 calls, 2 clients, 2 sessions | - | expected violation, section 6 |
| `anytls_upload_claim` | 1 stream, any chunk size | - | expected violation, section 6 |
| `xhttp_half_close_claim` | `h2_stream`, 1 batch | - | expected violation, section 6 |
| `vision_claim` | `vision`, 1 unit | - | expected violation, section 6 |
| `obfs_tls_claim` | `tls` | - | expected violation, section 6 |

Why the bounds are enough.

* Four requests over two keys give two waiters of one key with another's in
  between, and one that comes late: all the demultiplexer can tell apart.
* Two AnyTLS connections let a call fail on the first and retry on a second
  that another call has opened or replaced; a call makes two attempts. Two mux
  workers are a dead one that still has a reader and its replacement.
* Three calls and three sockets let a late failing write meet a socket opened
  after its own while a third call waits on it. The lane's target matters only
  to the demultiplexer, which has its own run with two keys.
* Four calls on two AnyTLS clients let the second client be made while
  streams and releases of the first remain; three sessions leave one to keep,
  one to close and one in use. Two streams on a session are a predecessor whose
  removals run late and its successor. In `MaxTraffic` a chunk from the server
  counts one, a chunk from the user and a heartbeat two.
* The two `XmuxPool` settings limit the connections with both budgets, and the
  concurrency too, with a deadline. Two connections are one that is used up or
  fails and its successor.
* Two SIP003 calls and one port give two starters of one key, or of two keys,
  that the system names the same port to; a second port would only let them miss
  each other, and the theorems of section 5 have any number. The code's sixteen
  starts are two here. `KeyChoices` has one example each of "the same key" and
  "two keys": keys are interchangeable.
* Two calls that meet on one kcptun slot, and three sessions, are a session
  that fails and two retries. Five Hysteria2 clients let two calls lose the race
  for a pool of two and retry.
* Two post workers with a queue of one and five batches fill every lane and let
  a batch wait for a place; the other bridges have no lanes, and three batches
  are one that has arrived, one on its way and one that is lost. Two units of
  payload on each side of a VLESS connection are one inside and one behind
  whatever a framing starts with; the
  Vision uplink gets three, as it needs a handshake and a direct record after
  it; HTTP/3, which does what the other packets do once connected, gets one. A
  `Width` of 3 makes a block of three units announce none, and the three units
  of `vision_tls` make that block occur. The first payload of a connection has
  at most `FirstLimit` units, fewer than `Width`, as in the code (32 KiB, 2^16).
* Two units each way and six tokens of socket (`WireLimit`, seven for `auth`,
  whose long padding has two more) are a handshake and a record, or
  a first packet and a frame, of every layer, cut anywhere. With a `Width` of 2
  the record of both units wraps.

`MaxConns`, `MaxSockets`, `MaxClients`, `MaxSessions`, `MaxWorkers`, `MaxPosts`,
`MaxStarts`, `MaxBatches`, `Units`, `WireLimit`, `MaxHy2Clients` and `MaxNext`
bound what is opened, sent or counted;
where an opening is out of bound its failure stays possible, so that no call is
stuck for the model's sake. Symmetry is used in `packet_session`,
`shadowsocks_udp` and `anytls` (whose pool does not tell calls apart), which
check safety only. Deadlock is checked in `packet_session` and
`shadowsocks_udp`, where `Settled` lets only a state rest in which all calls
have returned. In the others calls, tasks or traffic simply end
(`CHECK_DEADLOCK FALSE`).

## 4. Fairness

* `PacketUsers`: weak fairness for the steps of an AnyTLS call that wait for no
  network, for the waits of a VLESS call, and for sends under way: tokio polls
  tasks that can run and fires timers. Opening a connection (`TcpStream::connect`,
  the TLS handshake, `anytls.rs:330`) and the writer mutex and write of a VLESS
  worker have no timeout in the code. So `EveryCallReturns` promises a return to a
  call that does not hang in an opening for ever, and to one that has written.
* `AdapterPools`: strong fairness for each call together with its mutexes, for
  tokio's `Mutex` is first come, first served, but not for connects and
  handshakes with a server. `EveryCallSettles` has the premise that none of them
  hangs (`Connecting`); one that does keeps the manager's mutex of XHTTP
  (`vless.rs:391`), and every other call for that server waits behind it. A
  connect to a plugin on this host does end. Nothing is assumed of the Hysteria2
  library, and no promise is made of its calls.
* `HttpBridges`: strong fairness only for the arm of an XHTTP download's `select`
  that looks for a failed upload. `TasksEnd` has the premise `WritesEnd`, that
  nothing is written for ever: pipes of 4 MiB, TCP and QUIC push back without a
  timeout, and a download that is stuck in `download.write_all` (1030) does not
  see a failure that has been signalled.
* `StreamLayers`: weak fairness of the relay's task while it is awake, of a
  socket becoming writable and of arrivals. A task that sleeps is woken only
  through a waker that one of its polls has registered.

There is none for readers, servers or the users of streams: they may stop for
ever. `ShadowsocksUdp`, `AnyTls` and `PacketSession` have no fairness; the
deadlock check of the first and the last shows that a call can always go on.

## 5. Proofs

TLC checks the instances of section 3; TLAPS proves the following for every
value of the constants. `PacketDemuxLemmas` says once what each method of the
demultiplexer does to both indexes, and everything else cites it.

**`PacketSessionProofs`**, from `KeysAssumption`: `TypeCorrect`,
`IndexesAlwaysAgree`, `NoWaiterStranded`, `AnsweredAtMostOnce`, `TargetAware`
(the type of the table, and the four invariants of `packet_session`), and
`ImplementsList`, the refinement of `WaiterList`. The inductive invariant `Inv`
adds to them that a table entry belongs to a waiting or expired request under
its own target, and that a result on its way belongs to a request listed
nowhere. As the indexes agree, no fifo entry is stale and `deliver_next` takes
the head of the fifo, which the refinement rests on.

**`ShadowsocksUdpProofs`**, from `LanesAssumption`, for any calls, targets, lanes
and sockets: `OneReader`, `OneWriter`, `WaitersOnLiveSocket`, `NoCallStranded`,
`NoLeaks` (the five invariants of `shadowsocks_udp`). The invariant has two
halves.

* `LaneInv` is the discipline of the mutex: who opens
  or registers holds the lane's lock (a UoT call also while it writes), the
  opener found the lane empty, every socket in a lane was opened for it, and a
  reader that reads belongs to the lane's present socket. `MutexStep` is the
  core: whatever a call does to its own lane under the lock disturbs nobody,
  for the others that hold a lock are on other lanes.
* `WaiterInv` is the discipline of the table: an entry belongs to a call that
  registered on the socket the lane still has. Thus a lane that gets a socket
  has an empty table, and a reset leaves nobody behind. `TakeStep` covers every
  step that takes waiters out, `RegisterWaiters` the only one that adds.

**`PacketUsersProofs`**, from `PacketUsersAssumption`, for any calls, targets,
connections and workers: `NoCallStranded`, `RetriesElsewhere`, `NoLeaks`,
`OneNewFrame` (the four invariants of `packet_users`) and the action property
`NoLiveEviction`; `EveryCallReturns` is left to TLC. Each adapter has its
invariant, and a behaviour keeps that of its adapter.

* `UdpInv`: `UdpCallInv` says that a call under way has a connection, and
  that the connection of a failed first attempt is closed, which is why the
  second is made on another although the map may still hold the first.
  `UdpWaiterInv` needs to know which connections may still owe a call a result
  (`SentFrom`): a call whose first attempt timed out may have an answer on its
  way from the first connection while it registers on the second, and only
  because the two differ does the late answer not count as the new one.
* `MuxInv`: the same two halves without a second attempt; a failure on
  its way comes from a closed worker; `FrameInv` ties `first_packet` to the
  frames already written.

**`AnyTlsProofs`**, from `AnyTlsAssumption` and `PoolAssumption`, for any calls,
clients, sessions, streams and traffic: `ExclusiveSessionAlways`,
`OldestFirstAlways`, `NoEntryLeaksAlways`, `DeliveredInOrderAlways`,
`WireWellFormedAlways` (the five invariants of `anytls`) and the action property
`ClosesOnlySurplusAlways`. Each level has its invariant.

* `PoolInv` says of every session in how many places it can be (`OneCall`,
  `OneTask`, `OnePlace`, `Apart`) and that nobody has one that is still to be
  created (`Created`), without which a new session could be somebody's already;
  and that expired entries come first (`Ordered`). What keeps it is that
  `cleanup_idle` and `take_idle` leave a deque whose entries come, in order, from
  different places of the old one (`Embeds`). For `Kept`, a recursive function
  over the deque, this and what it closes are proved by induction (`KeptFacts`):
  the library's induction theorems cannot be instantiated, but that a set of
  numbers has a least one can be cited, and with a set in the place of a
  predicate it gives `Induction`.
* `SessionInv` looks at `Sent`, the frames on the wire and those still queued, as
  one sequence, so that the write loop moves nothing: before a stream is open
  there is no frame of it, while it is open no FIN (`FramesOK`). `ChunksOK` says
  that read and waiting chunks are numbered without a gap, and that as long as
  the read loop finds the sender and somebody listens there is none that has
  been passed over. `EntriesOK` keeps a removal under way for each entry of a
  stream that has been shut.

**`AdapterPoolsProofs`**, from `PoolsAssumption`, for any calls, keys, ports,
slots, limits and pool sizes: `UsageIsAccountedAlways`, `PoolBoundedAlways`,
`StartedOnceAlways`, `StartsHaveOwnPortAlways`, `NoReservationLeaksAlways`,
`RetryUsesAnotherClientAlways` (the six invariants of `adapter_pools`) and the
action property `UsableReplacedOnlyByRetryAlways`. Each pool has its invariant.

* `XmuxInv`: only the holder of the manager's mutex connects, and it has found
  room (`RoomFound`), which is why a connection added later still fits;
  `UsageCounts` ties the counter to the calls that have added to it, leaks
  included, and `BudgetAddsUp` what was handed out to what is left.
* `SipInv`: `LockInv` says that the calls and the lock table have the same lock
  for a key as long as anybody has it, and that the one who holds it is the only
  one between the second look and the insertion; `PortInv` that a call has a
  child exactly from its spawn to its end, and that the reserved ports are those
  of the starts under way, each another one: a start that has bound a port but
  not yet inserted it may have lost it to a start that bound it after the
  listener was dropped, and the insertion finds that out. That the child then
  gets the port is not promised: the code cannot know (section 6).
* `KcpInv`: a creator has the lock of its slot, and until it stores, nothing in
  the slot can be reused (`NothingToReuse`): sessions only get worse.
* `Hy2Inv`: the client a call is about to add is known to nobody else
  (`MineIsFresh`), and one that failed is out of the pool for good
  (`FailedStaysOut`).

**`HttpBridgesProofs`**, from `BridgesAssumption`, for any workers, length of
their queues and number of batches: `XhttpSafe`, the XHTTP conjuncts of
`DownloadIntact`, `UploadIntact` and `EndsAreWhole`, and the action property
`BodyNotCutAlways`. `XhttpSafe` says three things. On the connection a worker of
`h1_packet` keeps there is nothing, or the body that its last answer did not
announce (`AnswersDrained`), for which `ChunkedDrained` unfolds the recursive
function that reads a chunked body. Reordering is bounded: in `XhttpInv`, `Placed`
says of each post how many rounds of numbers can have been given since its own, by
its place in its lane; that posts of one lane are `Workers` apart is arithmetic of
`%` (`SameLane`). And ends are clean: a server that sees the end of a request has
all of it, and an upload in posts, or one whose request is answered, that ends
without a failure has delivered all but the posts queued or under way.
`DeliverInv` says that until something fails every batch that was read has been
handed on, and has arrived or is under way if it is a post. Of `h1_stream`,
`h1_split` and `h2_stream`, which end without an answer and ignore whether their
end was sent, no more than the first is promised.

**`VlessProofs`** proves of the codecs of VLESS that reads may be split anywhere:
`UnpaddingIsIncremental`, for any bytes at all, well formed or not. What the loop
of `UnpadBlocks` computes is a recursive function over positions; `ScanFacts`
says that such a function exists and is the only one, `UnpadStep` gives its
recursion, and `UnpadConcat` follows by induction over what is left.
`HunksAreIncremental` is the same of `GrpcHunkDecoder`. On them rests
`DownloadIntactAlways`, with the XHTTP conjunct from `HttpBridgesProofs`. Its
invariant, `DownInv`, says where each byte of the answer is, by positions in it:
`Net` what has not arrived and what has not been read, `Handed` what the task of
the transport has made of the bytes it has taken (for gRPC the hunks in them, for
a WebSocket the messages that are neither pings nor the end), `Between` what is in
the pipe, and `ReadTo` that the user has what the bytes behind the header decode
to. That `Decoded` of the whole answer is the payload (`StreamsOK`) is proved for
each of `Answers`; that a read may be anything is what the two theorems on the
codecs are for.

Of the upload the module proves `UploadIntactAlways`, for any number of units, any
reads and any order and loss of the posts. `UpInv` says that
`bridge_vless_stream` has written some `X \o S`, of which the transport has taken
`X` and `S` is in the pipe between them. `Encodes` says that these bytes hold the
first `p` units of the user, in whole padding blocks for Vision; `Encoding` that
the unpadding of a peer who has read them so far is past the padding exactly when
`uplink.padding` is off, which is what keeps the next write readable (both only
while no block was longer than its length field can say, `overlong`); `Queued`
that the other units are still in the relay's pipe. `CarriesUp` says how the peer
has `X`: as it is, in whole frames that announce what follows them (`Wraps`), or
in posts whose numbers are its parts in order, each under way, there or lost
(`Posted`). Once the connection is broken only what the peer has is kept, for what
is written then may go nowhere; the posts have no such end and keep all of it
(`Live`). `UpControl` relates the ends of the tasks: a task ends on a working
connection only behind the one before it and with an empty pipe. With `DownWhole`
this gives `EndsAreWholeAlways`: neither side is told of an end on a connection
that works before it has got everything.

The constants' assumptions are what the code gives: a length field tells the first
payload's lengths apart (`FirstLimit < Width`), there are lanes and
connections, and the values the model uses for "nobody", "failed" and "without
target" are no call and no target. `PoolsAssumption` has in addition that calls
and plugin keys are finitely many, as at any moment they are, for counters are
compared with the number of calls; and that there are at least as many names for
child processes and for create locks as calls and keys together, for a name is
given again when nobody has it and there must always be one.

Model-checked only:

* liveness under fairness, with `ENABLED` in it, which the prover does not reach;
* the safety of `StreamLayers` (`DownloadIntact`, `AcceptedIsKept`,
  `UploadIntact`), over the instances of section 3: it promises that tokens of
  several kinds, cut anywhere, are put together again by the states of a dozen
  codecs, each of which would need an inductive invariant of its own on sequences,
  as the two codecs of VLESS do.

## 6. Findings

Each is a run that TLC finds violated; `PROJECT.json` quotes the sentence the
code disagrees with.

* **Pooling of AnyTLS sessions** (`anytls_pooling_claim`, `anytls.rs:604`). Nobody
  but a call or a release task holds a client, so a session whose stream ends
  after its call returned finds its client gone, and is dropped with its idle
  deque although it is open. Pooling happens only while calls overlap.
* **A large write closes the session** (`anytls_upload_claim`, `anytls.rs:990`).
  `poll_write` takes a chunk of any length as one frame; above 65,535 bytes the
  write loop fails and closes the session under every stream. The relay copies
  with 128 KiB buffers.
* **Half-close discards the response** (`xhttp_half_close_claim`,
  `transport.rs:997`, also 1128 and 1317). The end of the upload is taken for its
  failure while the download waits for the response.
* **Vision's direct mode is never read** (`vision_claim`, `vless.rs:2232`).
  `result.direct` of the unpadding is ignored; what the server writes below TLS
  after command 2 is lost and the download ends cleanly.
* **simple-obfs tls loses payload** (`obfs_tls_claim`, `obfs.rs:532`). The part
  of a record read before a Pending is in a local variable that is dropped.

Met while modelling, not turned into runs of their own; the models follow the
code, and the properties are stated for what is not affected.

* simple-obfs http: a response head that arrives in two reads leaks into the
  payload (`obfs.rs:31`, 51), and a read that holds only the head looks like an
  end (56). The random head of ShadowsocksR discards one read of at most 8192
  bytes (`obfs.rs:350`): what is left of an answer that comes in two is
  delivered as payload, which `DownloadIntact` admits for that layer only. The
  same layer resends its payload when the write is Pending (`obfs.rs:337`, 420).
  `obfs.rs:374` and `ssr/obfs/tls_ticket.rs:77` return Pending without a waker.
  `obfs.rs:689` and 703 wrap the length of a record at 2^16, which a read into
  the relay's 128 KiB buffer may exceed (`"wrapped"`, excepted from
  `UploadIntact`).
* TLS ticket (`ssr/obfs/tls_ticket.rs`): the held upload is sent twice when the
  write is Pending (45-53); a server handshake that arrives in parts, the first
  of 76 bytes or more, is refused (301); a half-close before the handshake loses
  the held payload; a truncated record ends the download cleanly.
* ShadowTLS (`transport.rs`): a pending write is dropped by `ready!` (2552, 2575,
  2714); bytes that arrive together with the end of the v3 handshake are dropped
  (2636); session tickets of TLS 1.3 are delivered as payload in v2.
* HTTP/2 (`transport.rs:1112`, 1300, 2155; `vless.rs:684`, 1030): the receive
  window is never released, so that a download stalls after 65,535 bytes.
  `transport.rs:2211` takes a capacity of 0 for Pending without a waker.
* XHTTP bridges (`transport.rs`): an answer to a post with neither a length nor
  chunks from a server that does not close stays unread on the kept connection
  (1655), and the next post takes its body for an answer's head and fails
  (`"unannounced"`, excepted from `AnswersDrained`). That the end of a streaming
  request cannot be sent is ignored (611, 744, 976, 1083), so an upload can end
  without a failure while the server has not got all of it: `requestEnd` `"lost"`.
* SIP003 (`transport.rs`): between `drop(listener)` (2034) and the plugin's own
  bind anybody may take the port; a start that fails releases its port (2020)
  before its child is killed, and `start_kill` (1889) does not wait for it. So a
  probe may be answered by another listener than the child, and the process is
  pooled although the stream then connects to somebody else's port.
  `StartsHaveOwnPort` says what the reservations do guarantee.
* Openings without a timeout: `anytls.rs:330`, and `vless.rs:391`, where the
  manager's mutex is held and every other call to the server waits.
* VLESS mux (`vless.rs:1744`): `send_packet` registers before it encodes, so a
  packet that the encoder refuses leaves its waiter in the table, the oldest for
  a packet without a target (`LockFails`). AnyTLS UDP encodes first (401).
* `main.rs:241-244` reports the fallback of `anytls.uot` for packets without a
  source as "fifo"; `anytls.rs:484` discards such packets.
* ShadowsocksR (`ssr.rs`, `ssr/protocol/`): the early codecs write the length of
  a padding of 255 bytes or more in three bytes and count one of them (463, 490),
  so the frame ends two bytes later than it says (`Uncounted`), and they compute
  the checksum of a frame without its own head (497; so do 694 and 993), which
  their decoders include (421): a peer that computes as the decoder does refuses
  them. `pack_auth_sha1_v4_random` (1078) writes a padding's length that is one
  more or three more than its bytes, while the decoders of v4 and aes128 (626,
  900) skip the length field in addition: payload is dropped or the frame refused
  when the peer pads as the encoder does (`PayloadFrom`, `BadPadding`).
  `UploadIntact` excepts the early frames with a long padding and
  `DownloadIntact` states for v4 and aes128 the order of what is delivered. Frames
  decoded before a bad one are lost with it; a partial frame at the end of the
  stream is a clean end; the target is sent with the first payload only.
* VLESS (`vless.rs`): after command 2 the upload stays inside TLS (2088); the
  first payload is never shown to `filter_tls` (2085); a content length wraps at
  2^16 (2268, `overlong`); an unpadded download shorter than 16 bytes is kept
  back for ever (2376); packet posts fail without being noticed (651-665); a
  compressed gRPC message stalls the download (1089); a failure of any bridge
  ends the download cleanly.
* A malformed SOCKS datagram ends its association; the second request on a kept
  HTTP proxy connection goes to the outbound of the first one's host; the DNS
  proxy keeps an answer for the TTL of its last A record.

## 7. Not modelled

* **Bytes**: ciphers, MACs, legacy ciphers, TLS and QUIC, header and frame
  layouts, HTTP and SOCKS parsing, node parameters. Framings are modelled by
  what they cut, hold back and refuse.
* **DNS** (`dns.rs`): caches that are inserted into, looked up and expired under
  one lock by single calls; no step can come between two of another call but a
  duplicate query. **Routing** is a pure first match over rules. **Listeners and
  SOCKS associations** hand over to an adapter from a task per connection or
  datagram and share a semaphore only. **REALITY, HTTP and direct adapters** do
  one handshake per call without shared state. The **buffer pool** is
  thread-local. The **session model**, **TUN packet inspection**, the **control
  plane** and the **native applications** have no state machine yet.
* **Vendored libraries** (hysteria2, quinn-proto, rustls) and the kcp, smux and
  h2 crates are external: modelled, where at all, by what their callers see.
* **Dead code**: `bridge_vision_stream`, `VisionRemote`.
* Left out of modelled components: AnyTLS's padding scheme; the global maps that
  retain Shadowsocks lane pools; arguments and environment of plugins; the rate
  limiter and snappy stream of kcptun; the QUIC transport of Shadowsocks; the
  batch window and pacing timer of XHTTP; the single-call UDP path of VLESS;
  packets of ShadowsocksR, and the length of its paddings but for short or long;
  connection logging of the relay.
