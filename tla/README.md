# rust-modbus in TLA+

TLA+ modules that model `rust-modbus` from its codec to its server, TLC configurations that
check them on small instances, and proofs, checked by TLAPS, that hold for every value of
the constants: of the safety of both clients, both servers, the stream reader and
connecting, of client and server sharing one connection, and of the pipelined client's
refinement of an abstract specification.
`PROJECT.json` maps every definition to the lines it translates.
Requirement numbers (`CL-R-087`, `SV-E-016`, ...) are those of `src/docs/specs/`.

## The system and its parts

`rust-modbus` is an asynchronous Modbus library on Tokio. From the wire upwards:

| part | code | model |
| --- | --- | --- |
| connecting and opening: TCP, TLS, UDP, serial lines with RS-485 | `transport/{tcp,tls,udp,rtu,serial,rs485}.rs`, `SyncClient::{connect,open}` | `Connect`, `Serial`; proofs in `ConnectProofs` |
| cutting a byte stream into ADUs | `transport/mod.rs` (`shared`, `FrameTransport`, its halves, `AduReader`) | `Transport`; proofs in `TransportStream`, `TransportProofs` |
| framings: RTU, RTU over a byte stream, Modbus TCP, ASCII, and Modbus TCP in datagrams | `frame/{framing,rtu,tcp,ascii}.rs`, `transport/udp.rs` | `Extents`, `Rtu`, `Mbap`, `Ascii`, composed in `Framings` |
| PDU codec and its sub-codecs | `frame/{pdu,function,value,exception,diagnostics,file,mei}.rs`, `parse.rs` | `Pdu`, exercised by `Framings` |
| one exchange at a time | `client/mod.rs` (`Client::call`), `client/framing.rs` | `Client`; proofs in `ClientProofs` |
| typed methods, async and blocking | `client/mod.rs`, `client/sync.rs` | `Typed`, called in `Device` |
| many exchanges over one connection | `client/pipeline.rs` (`PipelinedClient`, `run`) | `Pipeline`, implementing `Exchanges`; proofs in `PipelineProofs`, of its permits in `DuplexProofs` |
| serving listeners and links | `server/mod.rs` (`serve`, `serve_framed`, `serve_tls`, `serve_link`), `server/handle.rs` | `Server`; proofs in `ServerProofs` |
| serving a datagram socket | `server/mod.rs` (`serve_udp`), `error.rs` | `UdpServer`, `Errors`; proofs in `UdpServerProofs` |
| the user's service | `server/service.rs` | awaited notifications in `Server`, `UdpServer` |
| the example device | `examples/interop_server.rs` | `Device`, with clients and the server's loop around it |
| a pipelined client and a server on one connection | `client/pipeline.rs`, `server/mod.rs` (`exchange`) | `Duplex`; proofs in `DuplexProofs` |

A client call encodes a request, writes it through a transport and waits, bounded by a
timeout, for a frame whose header answers it. The pipelined client hands requests to one
background task that owns the transport and a table of outstanding requests. A server
reads frames, asks the service and writes answers, one task per connection (or per
datagram), until a peer, a failure or a shutdown ends it. What makes this hard is what
the modules keep: Tokio drops a future at any `await`, a biased `select!` looks at its
branches one after the other while other threads run, responses come late, twice or not
at all, and a failed frame may or may not hide where the next one begins.

Everything the modules model is in memory: nothing is persisted, so there is no crash
recovery to check.

## Modules

### `Pipeline` (`client/pipeline.rs`)

State: for every call its place in `dispatch` (`phase`), its `transaction` id and its
reply channel (`answer`); the semaphore (`permits`, and `waiters` in FIFO order); the
command channel (`commands`); and the background task: the request being written
(`writing`), the table `in_flight`, the `DelayQueue` (`deadlines`), the set `issued` and
the flag `desynchronized`. `written`, `responses`, `answers`, `strays` and `link` are the
wire. `reused` records that an id was handed out a second time while it is of interest.

Actions of a call: `Send`, `TrySend`, `CheckUsable`, `Allocate`, `Enqueue`, `Resolve`,
`Panic` (the `expect` on a closed reply channel) and `Cancel`, which drops the future at
any await point and, with it, its permit. Actions of the task: `RefuseCommand`,
`StartWrite`, `FinishWrite`, `FailWrite` (the command arm of `select!`; the write is
awaited inside the arm, so no other arm runs between start and end), `Deliver`,
`Discard`, `Reject`, `FailReceive` (the receive arm), `Expire` (the timer arm) and `Stop`.
`TimeoutDesyncs` is the one difference between TCP and UDP. The peer answers what was
written, at most `MaxAnswers` times and in any order, sends strays and breaks the link.

### `Client` (`client/mod.rs`)

State: `state` (`ClientState`), `next_transaction`, the transport's `receiving` latch, the
`phase` of the call in progress and whether its deadline has passed. `Call` is everything
up to the await of `send_request`, `FinishSend`/`FailSend` its return, `Receive` one turn
of the receive loop (`Discard`, `Accept` or `Fail`), `TimeOut` the elapsed deadline,
`CancelSending` and `CancelWaiting` a future dropped at either await point. `framing` is
chosen once: it decides whether headers carry an id, whether a failure hides the next
boundary and whether unit 0 is a broadcast; `"Tls"` is Modbus TCP through a stream that
buffers what it was given, so that a dropped write may still arrive whole (`"late"`).
`requests[i].reach` says how much of request `i` came to the peer. What follows a torn ADU may
be read with other boundaries than it was written with (`"garbled"`). The checksum of the serial
framings tells; MBAP has a length only, so the peer may complete a torn ADU with the bytes of the
next request, take the rest for another, and reply to both (`Misread`, `MisreadReply`). `GivenUp`
says that a write on such a stream was abandoned with some of it on its way.

### `Server` (`server/mod.rs`, `server/handle.rs`)

State: the watch channel (`shutdown`, `receivers`), the call of `ServerHandle::shutdown`
(`waiter`), the serving future (`serving`, `result`), `next_connection`, and for every
connection the `stage` of its task. Each look at the signal and each poll of the other
branch of a biased `select!` is a step of its own (`PollAccept`/`Accept`,
`PollReceive`/`ReceiveRequest`, `PollHook`/`HookAnswers`), so a shutdown may come between
them. Every notification of the service is a stage, and the service may give every answer
its types allow, or panic (`HandlerPanics`), which ends its task only. `DropServing` is the
serving future dropped at an await point: its `JoinSet` goes with it and the tasks are
aborted where they stand (`Aborted`). `torn` remembers the connections whose task did not
run to its end. `setup` is chosen once: the kind of server, its framing and its unit.

### `UdpServer` (`server/mod.rs`)

The receive loop and one task per datagram. Only the loop subscribes to the signal; the
tasks are waited for by the drain. The operating system's socket buffer is bounded and
drops what does not fit. `HandlerPanics` ends one task. `DropServing` is the future of
`serve_udp` dropped where it waits, or ended by a panic of a hook that the loop awaits: the only
receiver and the `JoinSet` go with it, and the tasks, which the model keeps as `orphans`, run on
until the runtime aborts them (`Aborted`). Datagrams arrive as long as someone may still read
them. A datagram longer than the receive buffer is cut on Unix and an
error on Windows (`Received`); `target` is chosen once, as is whether the service overrides
`on_receive_error`.

### `Transport` (`transport/mod.rs`)

The reader shared by every stream transport. Code is suspended only inside `stream.read`,
so a step is one read (of any number of waiting bytes up to `ReadChunk`) and everything
the boundary rule does with it (`ByLength`, `ByDelimiter`, `BySilence`), ending in `Take`,
`Fails` or another read. A byte is known by the frame and the place it was sent at, so a
property can say which bytes an ADU is made of; what the byte says (`Says`) is what the
delimiter search reads. `Length` stands for the length in, or derived from, the frame;
`Framings` shows that the derived one is right. `boundary` is chosen once.

### `Pdu` (`frame/pdu.rs` and its sub-codecs)

The codec as operators over sequences of bytes: `WriteRequest` and `WriteResponse` are the
two `write` methods, `DecodeRequest` and `DecodeResponse` the two `decode`s, with one
operator for each helper of the source. A PDU is a record whose `code` is its variant. A
refusal keeps the bytes written before it, as `write` leaves them for `encode_into` to
truncate. Which error is reported is left out.

### `Framings` (`frame/`, `transport/udp.rs`) with `Extents`, `Rtu`, `Mbap`, `Ascii`

`Rtu`, `Mbap` and `Ascii` are `wrap_into`, `split` and the boundary rule of each framing as
operators over bytes: the CRC's place, `derive_extent` with its tables, the MBAP header and
its checks, hexadecimal coding, LRC and delimiters. `Crc16` is a parameter: the `crc` crate
computes it. `Framings` puts an encoder and a decoder at the two ends of a buffer (`wire`):
`Encode` encodes a PDU into the buffer as it stands, or is refused; `OthersSend` is an ADU of
another device; `Change` damages one byte; `Silence` and `Cut` take an ADU off the buffer,
the latter by what the boundary rule says of however many bytes have been read.
`SendDatagram` and `RecvDatagram` are the same over UDP, where any datagram sent may be the
next received, again or never, cut to the receive buffer (`Incoming`). `framing` and
`direction` are chosen once; `sent` and `received` are history.

### `Typed`, `Device` (`client/mod.rs`, `client/sync.rs`, `examples/interop_server.rs`)

`Typed` says of every typed method which request it sends, which response it takes and what
it returns. `Device` is the composition from end to end: a client per connection calls a
typed method, `call`, or a blocking method (`AsyncCall`, `BlockingCall`), which may be
refused before a byte is written (`Refusals`); the PDU travels as bytes; the server's loop
passes it to the device (`Dispatch`), whose handler takes the table's lock, goes from
address to address and leaves at the first it lacks (`Lock`, `Visit`, `Leave`); the answer
goes back (`Answer`, `Receive`), unless the client has given up (`TimeOut`). `seen` is
history: what the addresses of a waiting read have held.

### `Connect`, `Serial` (`transport/{tcp,tls,udp,rtu,serial,rs485}.rs`)

`Serial` has the arithmetic: bits per character, the inter-frame interval, the RS-485 delays
in 32-bit milliseconds. `Connect` has the attempts to connect, each with its `settings`, and
the TLS listener with one task per handshake. A TLS connection goes through the stages 0 to 4
(nothing said, the client's hello, the server's certificate, the client's answer, the answer
read), each end looking when it is its turn (`VerifyServer`, `VerifyClient`); in between the
connection may break, which the server's task finds at whatever stage it waits (`HandshakeEof`),
the timeout expire or the caller give up. `cell` is the task-local that hands the rejected certificate
from the verifier to `handshake_framed`.

### `Errors` (`error.rs`, `on_receive_error`)

The tables of transient codes of both platforms and what the default service makes of a
failed receive. `UdpServer` extends it.

### `Exchanges`

What the pipelined client promises its callers, and nothing of how: calls that begin, are
transmitted, get their own answer once, fail, alone or together, or are dropped; and once
the connection is unusable nothing is transmitted. `Pipeline`'s `Promise` is the refinement
mapping: `Standing` says how a call stands for its caller, with values `Exchanges` does not
have for one that panicked or was given another's answer. `ImplementsExchanges` asks that the
initial states are those of `Exchanges` and that every step, as long as no id was reused, is a
step of it or a stutter.

### `Duplex` (`client/pipeline.rs`, `exchange` of `server/mod.rs`)

`Pipeline` over a wire that holds `RequestRoom` requests and `ResponseRoom` responses, with
the server's loop at the other end: a client's write ends when there is room (`BeginRequest`,
`EndRequest`), the server reads no request while it writes a response (`TakeRequest`,
`BeginResponse`, `EndResponse`). The client's task reads nothing while it writes, so the two
may come to wait for one another.

Definitions named "Mutant of ..." are plausible mistakes in the definition that follows
them. They are used by no specification; each shows that a property notices the mistake.

## Runs

| run | configuration | asks |
| --- | --- | --- |
| `pipeline_tcp` | 3 calls, 2 slots, 2 ids, 2 answers per request, 1 stray | does every call get its own answer, or a failure, whatever is cancelled and however responses come; do timers, permits and the table stay consistent when ids are reused; is desynchronization complete; does each step implement `Exchanges` |
| `pipeline_udp` | 3 calls, 1 slot, 3 ids, fair | does a timeout cost one request only; is no reply sender dropped; does every call return, queued ones included, and the task stop |
| `client` | 4 framings, 2 units, 2 ids, 3 requests, 1 failure of the line or misread request, fair | is a call ever given an earlier request's reply; is a request written while a reply may be outstanding; does a stream of foreign frames extend the wait |
| `server` | a TCP listener with a unit filter, a TLS listener, an RTU and an ASCII link; 2 connections, 2 arrivals, 1 failed accept, 1 panic, fair | is each end announced exactly once; does a shutdown at any moment, with a panicking handler or a dropped serving future, leave nothing running, answer what was dispatched, and complete; is nothing answered that was a broadcast or for another unit |
| `udp_server` | 3 datagrams of 4 kinds, a socket buffer of 2, 1 failed receive of 3 codes for each of both platforms, panics and a dropped serving future, fair | is nothing running after a shutdown or a failure but what a dropped future left; can a peer end a default service; does a shutdown complete; is every datagram taken up |
| `transport` | 4 boundary rules, 2 frames of legal and illegal lengths, 3 receives, 1 byte of noise | are exactly the frames that were sent returned, and what is left in the buffer after success, failure, abandonment |
| `framings` | 5 framings, both directions; each variant at and beyond each of its limits, two encodings in a row; each legal PDU changed in one byte; each byte of short ADUs turned into each of 5 | are decode and encode inverse in both directions; is damage noticed; is each ADU cut where it was put together, from any number of its bytes; does a refused PDU leave anything behind |
| `device` | 2 connections, 2 calls each, tables of 3 addresses, a serial framing | does a read of several addresses return one moment's values; is a write carried out once if it succeeded and never if it was refused |
| `connect` | 3 attempts: two TLS clients with several certificates and a silent TCP one, or three of those that need no peer; 4 listeners, fair | does each side end with the authentication it was configured for; is the certificate reported the connection's own; is a returned serial port controlled, and its silence timed, as asked; does each attempt end |
| `duplex` | 3 calls, 2 slots, room for 1 request and no response, fair | who waits for whom: can client and server come to a standstill other than by futures dropped before their answers, and does every call return otherwise |

Two runs end in a counterexample. Each checks one statement of the repository:

| run | statement | what happens |
| --- | --- | --- |
| `pipeline_panic` | `NoPanic`: "every registered Send is answered before its sender is dropped" (`client/pipeline.rs:327`) | the id counter comes round to an id whose request is still registered; `insert` drops the older sender and the older caller panics |
| `transport_longest` | `LegalLengthAccepted`: FR-R-091 "An RTU ADU is at most 256 bytes" | the bound is tested before the silence, with `>=`: a 256-byte RTU frame is refused |

The type invariants `TypeOK` hold under these configurations, and those of the modules with
proofs are proved. The runs are spent on the properties that
relate more than a variable to its type.

### Bounds

- Pipeline: three calls are the least with one writing, one registered and one queued;
  two ids the least for which an id is reused while both are in the table. The proofs
  make the safety results independent of these numbers. The answers to a request are
  bounded by two (one late duplicate), strays by one: the task keeps nothing of either.
- The safety results that are proved do not depend on the numbers below.
- Client: three requests with two ids make the id of the first come back for the third. TLS has
  every behaviour of TCP, and ASCII every one of RTU. One
  failure, or one reply to a misread request, per behaviour suffices since each ends its exchange, and on all but self-locating
  framings the client.
- Server: connections interact only through the signal and the drain, so two are enough
  for one to be live while another ends; two arrivals are needed for a second request
  after a shutdown. The larger bound of three arrivals (1.1 million states) was also
  checked.
- UDP: three datagrams overflow the buffer of two. A failed receive has one transient code of
  its platform, one of a lost socket and one that the table does not know, besides the datagram
  that is too long.
- Transport: `MaxAduLen` 4, `ReadChunk` 6 and `Known` 2 keep the order of the code's 256,
  513 and the header's length: one read may hold more than one ADU. Frames have length 3, 4
  (the longest) and 11 (longer than an ADU and a read). Three frames and four receives (4
  million states) were also checked.
- Framings: the limits are the code's own (253 bytes, 2000 bits, ...), not scaled down.
  The samples have each variant at its least and greatest size and one past it. Two ADUs in
  a row are the least for which a wrong length, or a byte left behind by a refusal, is
  seen by the next. `SumCheck` stands for the CRC; the model asks of it only that both ends
  compute the same and that one changed byte changes it. A damaged byte becomes 0, a part of
  a delimiter, or a digit in either case.
- Device: two connections are the least that meet at a lock; reads of up to three addresses
  overlap writes of two. The calls include every refusal: in a runtime, a broadcast read, an
  empty and an excessive quantity, addresses past the table's end and past 65535.
- Connect: two handshakes overlap while a third connection says nothing. Delays are at the
  last value that fits 32 bits and at the next one; baud rates at 0 and on both sides of
  19200, with characters of 10 and 11 bits.
- Duplex: one request fits the wire to the server and no response the other, so that two
  permits are just as many as the tasks and the wire hold without a standstill, and one
  abandoned call is one too many.

Deadlock is not checked: each of these systems may stop (no more calls, server shut down),
and the bounds on the environment stop it too.

### Fairness

- `Pipeline`: `TaskFairness` is weak fairness of each call's and of the task's enabled
  steps: Tokio polls what is woken, and timers fire. Weak fairness of each timer is right
  because an arm that is ready stays ready and `select!` there is unbiased. Peers owe nothing.
  `WriteFairness` says that a write ends, with success or failure; `StallingSpec`
  is the same without it.
- `Client`: time passes and a fired timer is polled. Nothing of the peer.
- `Server`: steps of tasks, returns of handlers and writes are weakly fair; so is the TLS
  handshake, except in `StallingSpec`; so is the runtime's abort of a task whose `JoinSet` was
  dropped. Panics and drops are not fair: they need never happen.
- `UdpServer`: as `Server`, and strong fairness of the receive-error hook, which is polled
  again and again, each poll being a step that may find it pending. Nothing is assumed of
  panics, of a dropped future or of the aborts that follow it.
- `Connect`: a timer that is due fires. Nothing of the network, the peer, the listener or a
  handshake.
- `Duplex`: both tasks and all futures are scheduled, timers fire, handlers return. No write is
  fair by itself: it gets room as the other side reads.

## Statements without a run

More statements of the documents do not hold as written. They are definitions of the
modules; TLC shows the counterexample when the definition replaces the properties of the
configuration named.

| definition | configuration | statement and behaviour |
| --- | --- | --- |
| `TableBounded` | `PipelineUdp.cfg` | CL-R-087, CL-R-093: dropping a future "frees its slot in the in-flight table". It frees the permit; the entry stays until the answer or the timeout |
| `UnitMatches` | `PipelineTcp.cfg`, two units | CL-R-020: "both the transaction identifier and the unit identifier are equal". The task compares the id only |
| `WaitIsBounded` | `PipelineTcp.cfg` without SYMMETRY, with `StallingSpec` | CL-R-030: the client "bounds the wait for a response by a configurable response timeout". The write is awaited inside the `select!` arm (`client/pipeline.rs:402`), so while it blocks no timer of an outstanding request is served |
| `AbandonedWriteIsFinal` | `Client.cfg` | CL-R-013: "the write is driven to completion or the client is unusable thereafter". A call dropped during the write (`client/mod.rs:230`) leaves part of an ADU on the wire and the client usable |
| `NoiseCostsOneExchange` | `Client.cfg` | CL-R-098: a failure to decode "costs exactly that frame". On RTU and ASCII the reply to the failed exchange may arrive in the next one and, headers being equal, answers it |
| `LateReplyRefused` | `Client.cfg` | CL-R-024: a late response "is never delivered as the result of a later request". A call dropped during the write hands its id to the next call. The peer may complete the torn request with the bytes of the next one, and TLS may hold all of it in its buffer and send it: its reply comes under the id of the later request |
| `AnsweredMeansAnswered` | `Client.cfg` | `ClientState::Answered` "says the peer replied to the last request". After a dropped call it tells of the one before |
| `SilentMeansElapsed` | `Client.cfg` | `UnusableReason::Silent`: "The response timeout elapsed". The ASCII inter-character timeout gives the same reason at once |
| `SilentPeersLetGo` | `Server.cfg` with `StallingSpec` | SV-E-016: a peer that sends nothing is "Held open, one task idle, until it closes or shutdown". The TLS handshake (`server/mod.rs:283`) neither times out nor looks at the signal, so `shutdown()` waits for it |
| `NoHandlerAfterShutdown` | `Server.cfg` | `ServerHandle::shutdown`: "a caller knows no handler is still running". A `serve_link` that begins later still calls `on_connect` |
| `IdsOnlyForConnections` | `Server.cfg` | SV-R-056: no id for "a connection whose handshake failed". `serve_tls` takes it before the handshake |
| `StaysOnTheBus` | `Server.cfg` | the README: "a server stays on the bus". The ASCII inter-character timeout ends `serve_link` |
| `NoHandlerAfterShutdown` | `UdpServer.cfg` | SV-R-044: a caller of `shutdown()` "knows no handler is still running". The tasks of datagrams hold no receiver of the signal: after the future of `serve_udp` was dropped `shutdown()` returns while they are still to be aborted |
| `UndecodableCostsNothing` | `UdpServer.cfg` with `SlowReportSpec` | `serve_udp`: an undecodable datagram "costs nothing beyond itself". The loop awaits its `on_error` |
| `BufferWithinOneAdu` | `Transport.cfg` | TR-E-008: "never grows past that bound". One more read fits |
| `OneAduPerReceive` | `Transport.cfg` | TR-E-001: "Both are delivered, one per `recv` call". RTU takes the whole buffer |
| `SeveredIsReported` | `Transport.cfg` | TR-R-088: a stream that ends inside an ADU is an error. RTU takes the close for the end of the frame |
| `NothingUndefinedIsCut` | `Framings.cfg` | FR-R-148: any function code "FR-R-147 does not define fails the derivation". `derive_extent` gives two bytes to every code with the high bit set, in requests too |
| `OneBadFrameCostsOne` | `Framings.cfg` | `frame/framing.rs:91`: "one bad frame costs exactly one frame". In ASCII a damaged terminator joins the frame to the next one, and both are lost |
| `BitsAsRequested` | `Device.cfg`, `Imposters = {c1, c2}` | CL-R-062: reading bits "returns exactly the quantity of bits requested". `truncate` drops surplus bits; a response with too few is returned as it is |
| `RefusedMeansUntouched` | `Device.cfg` | `examples/interop_server.rs:70`: `write` is "refusing any address it lacks". The addresses before it are written |
| `RejectedUntouched` | `Connect.cfg` | `transport/rtu.rs:40`: "an unusable configuration is rejected without a side effect". An RS-485 delay that does not fit is found after the port was opened |
| `RoundTrip` | `Framings.cfg`, `Samples <- WithNamedMei` | FR-R-133: "Decode and encode are inverse operations for all valid input". `Other` with MEI type 13 or 14 is encoded, and decodes as the named variant; custom function codes, sub-functions and exception codes are refused in that case |

## Proofs

Each component's proofs are in a module of their own that extends the component's. They hold
for every value of the constants that satisfies the component's assumption. Every property of
safety that a run checks is proved, but for those named at the end of this section.

| module | theorem | property |
| --- | --- | --- |
| `PipelineProofs` | `TypeCorrect` | `TypeOK` |
| | `BookkeepingHolds` | the inductive invariant `IInv` |
| | `NobodyPanics` | `NoPanicBeforeReuse` |
| | `DispatchIsExact` | `OwnResponse` |
| | `TimersAreExact` | `TimersMatchEntries` |
| | `DesyncIsClean` | `DesyncLeavesNothing` |
| | `TaskIsThere` | `TaskOutlivesCalls` |
| | `DesyncIsForever` | the action property `DesyncIsFinal` |
| | `LateResponsesAreHarmless` | the action property `OwnResponseNeverRejected` |
| | `TimeoutsAreContained` | the action property `TimeoutScope` |
| | `PipelineImplementsExchanges` | the refinement `ImplementsExchanges` |
| `DuplexProofs` | `PermitsNeverLeak` | `PermitsConserved` |
| | `ClientIsPipeline` | `Spec` of `Pipeline`, from `DuplexSpec` |
| | `StandstillNeedsMore` | `StandstillTakesMore` |
| `ClientProofs` | `ClientTypeCorrect` | `TypeOK` |
| | `RepliesAreOwn` | `OwnReply` |
| | `StreamIsClear` | `NothingOutstanding` |
| | `UnusableForGood` | the action property `UnusableIsFinal` |
| `ServerProofs` | `ServerTypeCorrect` | `TypeOK` |
| | `EndsAreHeardOf` | `EndsAreAnnounced` |
| | `ShutdownIsQuiet` | `ShutdownMeansQuiet` |
| | `ShutdownKeepsOrder` | `ShutdownIsOrderly` |
| | `OthersAreNotAnswered` | `AnswersOnlyOwnUnit` |
| `UdpServerProofs` | `UdpTypeCorrect` | `TypeOK` |
| | `UdpShutdownIsQuiet` | `ShutdownMeansQuiet` |
| | `UdpServesOn` | `NoPeerStopsServing` |
| `TransportProofs` | `TransportTypeCorrect` | `TypeOK` |
| | `FramesAreExact` | `ExactFrames` |
| | `ReaderStaysAligned` | `Aligned` |
| | `BufferIsBounded` | `BufferBounded` |
| | `NothingIsWithheld` | `NothingWithheld` |
| | `NothingIsLost` | `NothingLost` |
| `ConnectProofs` | `ConnectTypeCorrect` | `TypeOK` |
| | `CertificatesAreOwn` | `OwnCertificate` |
| | `TransportsAreAuthenticated` | `AuthenticatedAsConfigured` |
| | `DirectionIsControlled` | `DirectionControlled` |

Almost none of these properties is inductive. Each module has its inductive invariant `IInv`
near its beginning, one lemma or case for each action that it is preserved, and `Invariance`,
from which the theorems follow. Each `IInv` was an invariant of a TLC run before it was proved.
At the head of each module a `USE` says which prover is asked first for a leaf that names none:
Zenon, which is quick where no arithmetic is involved, then the SMT solver.

### The pipelined client

From `PipelineAssumption`: at least one id, any number of slots, every call has a unit,
`Nobody` is not a call. That a caller never finds its channel closed
needs to know, for each unanswered reply, who holds its sender: the command channel, the
write in progress or the table (`NobodyForgotten`). That the table does not lose a sender
to an `insert` under the same id needs ids to be fresh (`FreshIds`), that entries sit
under their own id (`TableKept`), and that ids exist exactly from `Allocate` on
(`NumbersKept`). That a response reaches its own call needs every response on the wire to
carry the id of what it answers (`WireKept`), and those ids to be recorded as issued
(`RequestsKept`). That the task is there when a command is sent needs futures to hold
handles (`FuturesHoldHandles`), and a semaphore queue without duplicates (`QueueKept`).
`Bookkeeping` is their conjunction, and `IInv` adds `TypeOK` and the properties themselves.

The permits are a matter of counting, which `DuplexProofs` begins with: `PermitsKept` adds to the
property that the set of owners is finite, whatever the set of calls is, and each action changes
that set by one future or hands a permit on.

The refinement needs one thing more: that the sender of a reply is in one place at a time and
leaves it when it is used (`HeldOnce`), so that no call is answered twice and no request
written twice. It is proved inductive with `IInv`; then the proof says what each action does
to a call's `Standing`, and shows each action to be a step of `Exchanges` (`AsBegin`,
`AsTransmit`, `AsAnswer`, `AsFail`, `AsDrop`) or a stutter.

The proof goes variable by variable. `StepCases` and the `...Frame` lemmas say
which actions leave which variables alone; `PhaseFacts`, `CommandFacts`, `TableSteps`, `FailAllFacts`
and `ResponseAnswers` say what a step may do to one variable; the `...Preserved` lemmas derive
each conjunct from those, with one case per action that disturbs it.

### Client and server on one connection

From `DuplexAssumption`: any room in the two directions, and a transport that desynchronizes on a
timeout, which is what a stream is (`client/pipeline.rs:118`). `ClientIsPipeline` comes first:
`BeginRequest` and `EndRequest` are `StartWrite` and `FinishWrite` with a wire that holds only so
much, and a server's step is the peer's, so the whole invariant of `Pipeline` holds here. That a
standstill takes more than the permits bound is a matter of who stands for what is on the way.
Requests on the wire, the one the server has read and the responses not yet read are of different
calls (`Places`), and until an id is reused a task that is not desynchronized waits for each of them
(`Outstanding`): this needs `HeldOnce`, since a request is written once, and that a timeout
desynchronizes, since otherwise an expired request leaves the table while it is still on the way.
So at a standstill `RequestRoom + ResponseRoom + 2` calls are registered or being written, and each
of these owns a permit or was abandoned (`CallsOnTheWay`). `Places` and `Outstanding` were invariants
of TLC runs with two and three ids and with one and two answers to a request. After an id is reused
the bound does not hold: the caller whose entry was replaced panics and returns its permit while
its request is still on the way.

### The client

From `ClientAssumption` and the hypothesis `ForeignStrays`: a frame that replies to no request
of this client bears no id it allocates, under MBAP; one that does is, to any client, the reply.
That a stream never gives a call an earlier request's reply rests on what is *settled*: unless
the latch is set or the client unusable, each earlier request was answered and its answer read,
or wanted none, or did not reach the peer whole (`StreamKept`). For the step from one call to
the next this needs replies to be unique on a stream and to bear their request's header
(`WireKept`). On UDP, where replies may be late or doubled, the ids of the requests that reached
the peer ascend and lie below the next one (`DatagramKept`), until the counter comes round.

Under MBAP on a stream both properties end where a write is given up part-way (`GivenUp`): the
client does not remember it, and from then on they are false (`LateReplyRefused` in *Statements
without a run*). RTU in a byte stream needs no such condition, since the peer notices a torn ADU
by its checksum. RTU and ASCII are excluded by the properties themselves: frames have no ids and
failures do not end the client.

### The servers

From `ServerAssumption`: any kinds of server, any framing, unit and numbers. That a returned
`shutdown()` leaves nothing running rests on receivers: whoever runs holds one (`Subscribed`,
`LoopKept`), `shutdown()` waits until none is left, and whoever begins afterwards looks at the
flag first. That ends are announced exactly once ties the counts of the two notifications to
the stage of the task (`Announced`), with the tasks that were torn down kept apart. That at most
one receive crosses the shutdown needs that a task past it is at no `select!` any more
(`CrossedOnce`). That nothing foreign is answered needs the request in hand to be one that was
dispatched (`InHand`).

From `UdpServerAssumption`, the same without receivers in the tasks: the loop's outlives them
(`ReceiverOutlivesTasks`), unless it was dropped with the serving future, when nothing new is taken
up and what still runs are the `orphans`; and after a completed shutdown a new loop never takes a
datagram up (`ShutdownIsLasting`). `UdpServesOn` has no hypothesis on the codes the socket's
receives fail with. A code that the table of transient ones does not have stops the loop, as
SV-R-074 has it; that none of the codes peers cause, WSAECONNRESET and WSAEMSGSIZE among them, is
such a one is part of what is proved (`StopsAreFatal`).

### The stream reader

From `TransportAssumption`: any lengths from `Known` on, at least three bytes between and with
an ASCII frame's delimiters, noise only on serial lines; the bound, the size of a read and the
number of frames are arbitrary, and each read returns any number of bytes. What was sent and not
yet cut, `Stream`, is always in order (`InOrder`): the bytes of a frame adjacent, frames
ascending, and the next byte to be sent the one that follows. Where the length comes from the
frame the stream begins with a frame (`FromStart`), after failures too, since a failure there
leaves the buffer as it is. Until a receive fails, the first bytes of all frames not yet
delivered are in the stream (`Ahead`), so the next ADU is the next frame. A waiting receive holds
less than a frame and has searched all but the last byte (`Partial`), which makes it sound for
`read_delimited` to go on from there: this is what `NothingWithheld` rests on.

The proof says what each boundary rule does with a buffer that is the front of such a stream
(`ReadAduCuts`: it drops bytes that begin no frame, then waits, takes one whole frame or fails)
and what each of these leaves (`SettleWaits`, `SettleTakes`, `SettleGivesUp`, `SettleLine`).

That nothing is lost speaks of all ADUs returned so far, so its invariant `Kept` is about these and
the stream together: their bytes were sent (`Past`), each before those of the next ADU and of the
stream (`Before`), and until a receive fails each byte sent is among them (`Here`). What an ADU takes
off the stream is added to what was returned and nothing else is dropped but noise (`TakenOff`,
`Shrinks`), which is why a failure, but not a receive that is given up, may lose bytes.
`TransportStream` has both invariants and what each step does to the stream, `TransportProofs` the
boundary rules and the theorems.

### Connecting

From `ConnectAssumption`: any number of attempts with any settings of the four kinds, any
listener. What each side may conclude is carried from stage to stage: the client's answer is the
certificate the server asked for, a task that passed has seen a certificate that verifies and a
signature made with its key (`Passes`), the cell of a task that was rejected holds what was
rejected in it and, before that, nothing (`TaskKept`). The client's side has verified the server
before its call can return a transport, and a serial port was told what was asked for before it is
returned (`ClientKept`, `SerialOpened`). That what it was told is the delay asked for, to the
millisecond and without overflow, and that the interval is three and a half characters of the line,
to the microsecond, is arithmetic (`MillisAreAsAsked`, `IntervalIsSilence`).

### Only model-checked

- Liveness under fairness, everywhere: it is out of the prover's reach.
- The properties of `Framings` and `Device`, whose codecs are defined by recursion over data: the
  provers have no induction for these.

## Not modelled

- What the libraries underneath do: Tokio's scheduler and timers, the CRC's polynomial, rustls's
  cryptography and PEM parsing, the kernel's sockets and ports. They appear as the events and
  errors the code is written against.
- Durations: a timeout is an event that may occur whenever its timer is armed. What is computed
  from the settings is in `Serial`.
- Which error a decoder reports, and its text; in `Client`, `Server` and `Transport` a frame is
  decodable or not.
- `mask_write_result`, which nothing in the crate calls; serde support of the settings; the other
  examples, which use the clients as `Device` does.
- `lib.rs`, and names for display: re-exports and formatting.
- Nothing is persisted, so there is no recovery after a crash.
