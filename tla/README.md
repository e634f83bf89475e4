# TLA+ models of tchannel's argument layer and relay test network

This directory holds TLA+ models of the code under `src/`:

- `src/golang/reqres.go` is the Go request/response argument writer and reader (`reqResWriter`, `reqResReader`).
- `src/test/lib/relay_network.js` is a file that joins three unrelated sources:
  - the JavaScript relay test network (lines 1-272);
  - a hyperbahn benchmark runner (lines 272-375);
  - the Go thrift health handler (lines 376-430).

Each module is checked with TLC. `PROJECT.json` lists:

- the components;
- the runs;
- the mutants, each a plausible bug that its property must catch;
- the map from each definition to the source lines it translates;
- the findings;
- the hazards.

## The system and its parts

### Argument writer (`reqResWriter`, reqres.go 49-142)

A call or call response carries three arguments, arg1 to arg3, cut into frames (fragments).

**State.** `state` runs PreArg1 → PreArg2 → PreArg3 → Complete. `err` is a failure latch.

**Operations:**

- `argWriter(last, in, out)`, reached through `arg1Writer`..`arg3Writer`:
  1. returns the latched error, if there is one;
  2. fails on a state mismatch;
  3. otherwise asks the fragmenting writer to open the argument and moves to `out`.
- `newFragment` takes a frame and writes the initial or the continuation message into it. Writing the initial message can fail with a codec error.
- `flushFragment` is a `select` over three cases:
  - `ctx.Done()`, which fails with cancellation;
  - a send on the buffered `conn.sendCh`;
  - `default`, which fails with `ErrSendBufferFull`.
- `failed` keeps the first error and shuts down the message exchange.

**Fragmenting writer.** The fragmenting writer (`fragmentingWriter`) is not under `src/`. It is modelled from `spec.md` 4.2. Its operations (`BeginArgument`, `Write`, `Flush` and `Close`) are what drive `newFragment` and `flushFragment`.

### Argument reader (`reqResReader`, reqres.go 144-243)

**State.** The reader has the same state machine and latch as the writer.

**Operations:**

- `argReader` fails on a state mismatch. Otherwise it calls the fragmenting reader's `ArgReader` and passes any error through `failed`.
- `recvNextFragment`:
  1. hands out the cached `initialFragment` first;
  2. otherwise waits on `mex.recvPeerFrameOfType` for the expected message type;
  3. then parses the frame with `parseInboundFragment`.
- `failed` behaves as the writer's does.

**Fragmenting reader.** The fragmenting reader is modelled from `spec.md` 4.3. It provides `ArgReader`, `Read`, the receive of the next fragment, and `Close`, with its errors TooFewFragments, TooManyFragments and MoreDataInArgument.

### How the parts interact

The writer's frames enter `sendCh`. The connection's send loop drains `sendCh`. TCP delivers the frames in order to the peer, whose connection forwards them to the call's message exchange. On the server side, the first frame is parsed when it is dispatched and becomes the reader's `initialFragment`.

Both sides can be cancelled by the call's context, which the code checks in a `select`. The models also let one frame arrive truncated: it loses its checksum and possibly some of its argument items, and parsing it fails.

`mex.shutdown()`, called by `failed` on either side, also tears down the peer's side of the call (spec.md 5 and 6). In `Call` this is two actions:

- `PeerTeardown`: the writer's shutdown reaches the reader's exchange, whose wait then ends as on a done context;
- `WriterTeardown`: the reader's shutdown reaches the writer's exchange, whose `ctx.Done()` fires.

### Relay test network (relay_network.js 38-270)

The test network is a set of pure computations over the constructor options:

- the defaults `options.x || d`;
- how `setCluster` hands out channels to relays and to service instances;
- the k-relay topology per service;
- `FakeEgressNodes.isExitFor`;
- the artificial advertisement (`getServicePeer`), which walks the services by index;
- the plans of `connectServices`, which look the channels up by name.

`topology` and `serviceChannelsByName` are keyed by service name, so when a name repeats, the last service of that name overwrites the earlier ones.

## Modules

| Module | Models | Composes |
|---|---|---|
| `Fragments` | items standing for argument bytes, frames, `messageForFragment`, the state enumerations | — |
| `ReqResWriter` | `reqResWriter` plus the fragmenting writer, `sendCh`, cancellation and shutdown | Fragments |
| `ReqResReader` | `reqResReader` plus the fragmenting reader and the exchange's receive | Fragments |
| `ArgStream` | abstract spec (spec.md 8): the reader gets, in order, a prefix of what was written, each item in its own argument | Fragments |
| `Call` | writer → send loop → transport → exchange → reader, for one direction of a call; refines `ArgStream` | ReqResWriter, ReqResReader, ArgStream |
| `RoundTrip` | a whole call: the request and the response, each a `Call`, with each side's writer and reader sharing one context and exchange | Call |
| `RelayNetwork` | the relay test network's options, channels, topology and plans | — |
| `MC*` | constants for TLC | — |

### How the writer's state and actions match the code

The `ReqResWriter` variables correspond to the code's fields:

- `state`, `err` and `shutdowns` are the writer's fields, plus a count of `mex.shutdown()` calls.
- `ctxDone` is the closed `ctx.Done()`.
- `headerFits` says whether the initial message fits a frame. It is chosen in `Init`.
- `fwState`, `fwErr` and `curFragment` belong to the fragmenting writer.
- `sendCh` is `conn.sendCh`.
- `sent` and `written` are history.
- `acquired` counts frames taken from `conn.framePool`. Each frame carries its pool number, so ownership can be checked.

The actions correspond to the code's operations:

- `ArgWriter(n)` is `argN Writer`, with all of `argWriter`.
- `Write` and `Close` are the fragmenting writer's operations, each including the `flushFragment` it makes.
- `Cancel` is the call's context being cancelled.
- `ConnSend` is the send loop taking a frame off `sendCh`.
- `FlushOutcomes` lists the select cases that can be ready at the same time. Go picks among ready cases at random, so all of them are allowed.

### How the reader's state and actions match the code

`ReqResReader` mirrors the writer. `ArgReader(n)` has no latch guard, because the code has none.

`recvNextFragment` is split into three parts:

- `RecvOutcomes` lists the possible results;
- `RecvEffect` is what a result consumes: the cache or an inbound frame;
- `RecvErr` is the error returned after `failed`.

Each action that receives uses all three parts in the same step.

## Runs

| Run | Checks | Result |
|---|---|---|
| `writer_safety` (`MCReqResWriter.cfg`) | TypeOK, FramesWellFormed, StreamIntegrity, FrameOwnership, LatchIsFinal | pass (~1k states) |
| `writer_errors_latched` | ErrorsShutDownExchange | **violation**: an error from `contents.ArgWriter` is returned unlatched (reqres.go 71-72) |
| `writer_no_send_after_cancel` | NoSendAfterCancel | **violation**: the select may send after `ctx.Done()` (reqres.go 123-127) |
| `call_refinement` (`MCCall.cfg`) | CTypeOK, ReaderShutdownOnce, ImplementsArgStream | pass (~118k states) |
| `call_liveness` (`MCCall_live.cfg`) | CompletesWhenUndisturbed | pass |
| `call_deadline` (`MCCall_deadline.cfg`) | DeadlineEndsRead | pass |
| `call_teardown` (`MCCall_teardown.cfg`) | PeerUnblocked | pass |
| `reader_latch` (`MCCall_latch.cfg`) | ReaderLatchIsFinal | **violation**: `argReader` ignores `r.err` (reqres.go 182) |
| `round_trip` (`MCRoundTrip.cfg`) | NobodyLeftWaiting | pass (~121k states) |
| `relay_topology` (`MCRelayNetwork.cfg`) | ChannelsFitCluster, TopologyMatchesReference | pass (4920 option sets) |
| `relay_duplicate_names` (`MCRelayNetwork_names.cfg`) | AdvertisedPeersConnected | **violation**: with serviceNames `['alice', 'alice']`, the first service's instances are advertised to the relays but never connected (relay_network.js 136, 154, 255) |

What the runs added in the second sitting show:

- `FrameOwnership`: a frame handed to `sendCh` is never handed over again or written to afterwards. While the writer has not failed, every frame taken from the pool is either the open fragment or has been sent. Frames leave the pool unsent only on a failed flush or a failed `newFragment`.
- `DeadlineEndsRead`: once the reader exists, the handler eventually reads the whole request or gets an error. This holds even when the writer stops midway, which its caller may do at any time.

What the third sitting added:

- `PeerUnblocked`: once the writer has failed, the peer reader eventually finishes or gets an error. It assumes no deadline; only the shutdown that `failed` sends releases the reader.

What the fifth sitting changed:

- `PeerNotLeftWaiting` was removed. Its only counterexample is the `writer_errors_latched` step at line 72 followed by waiting.
- The relay `TypeOK` and `ExitsAgree` were removed. They held by how the operators are defined.
- `HealthReportsInstalledHandler` was removed, and the health model with it (see "Not modelled").
- Services are now indexes into `serviceNames`, and names may repeat. `relay_duplicate_names` shows that a repeated name leaves the earlier service's instances advertised but never connected.
- A truncated frame now also loses argument items. A reader that skipped the `rbuf.Err()` check would hand them on with a gap, and `ImplementsArgStream` catches that (mutant `ParseErrUnchecked`).

What the fourth sitting added:

- `RoundTrip` composes two instances of `Call`: the request from the client's writer to the server's reader, and the response from the server's writer to the client's reader. Per spec.md 5, the writer and reader of one side share the call's context and exchange. So both instances share `clientCtx` and `serverCtx`. A `mex.shutdown()` by any of the four parties tears down both exchanges (`ClientTeardown`, `ServerTeardown`). The server handler writes its response only after it has read the whole request.
- `NobodyLeftWaiting`: without any deadline, once any of the four has latched an error, the client's reader eventually has the whole response or an error, and so does the server's reader if it exists. The case a direction alone does not show is a server that fails reading the request: it never responds, so the client is released only by the reader's shutdown (reqres.go 225). A mutant of the reader's `failed` that skips the shutdown breaks the property.

### Bounds

**Writer and call runs.** These use the following bounds:

- `MaxWrites = 2` writes per argument;
- a fragment holds 2 items (`FragCap = 2`);
- `sendCh` holds 1 frame (`SendBufferSize = 1`).

With these bounds the interesting cases all occur:

- an argument that spans fragments, so continuation frames are sent;
- several arguments sharing one fragment;
- a full send buffer;
- cancellation before, between and during flushes;
- a truncated first or later frame;
- the server's cached first fragment and the client's received one, since `readerReady` is chosen in `Init`.

**Round-trip run.** One write per argument, one item per fragment and one frame of send buffer in each direction (about 121k states). Each argument then travels in its own frame. Either writer can hit a full buffer, either direction can lose a frame's tail, and a full successful round trip is reachable.

**Relay runs.** The relay runs cover every combination of:

- `numRelays` 0 to 4, where 0 means absent;
- `numInstancesPerService` 0 to 3;
- `serviceNames` absent, or of length 0 to 3 over three names, repeats included;
- `kValue` 0 to 5.

This includes k below, equal to and above the number of relays.

### Fairness

`FairSpec` puts weak fairness on three actions: the transport (`Transmit`), the dispatch of the first frame, and the handler's next step. The send loop and the connection's read loop are goroutines that run while there is work. The handler is a well-behaved reader of its arguments.

The writer's caller and the cancellations get no fairness.

`TeardownSpec` adds weak fairness on `PeerTeardown`. A shutdown is delivered by the connection's goroutines once it is made.

`DeadlineSpec` adds weak fairness on the reader's cancellation. Every tchannel call carries a deadline, so its context is eventually done.

`RoundTrip.Spec` puts weak fairness on both directions' transport, the dispatch, both handlers' reads, and the delivery of a shutdown to each exchange. It gives no fairness to the client's writes, the server's response writes, or the deadlines.

The `CompletesWhenUndisturbed` property is an implication. It assumes no cancellation and no corruption, because either one legitimately stops the call.

## Not modelled

**Not modelled:**

- Checksums and frame sizes in bytes. The frame pool is modelled only as the count of frames taken from it, and the frame each fragment uses.
- The thrift health handler (relay_network.js 396-430). It has one unsynchronised field, `h.handler`, which `Health` loads (line 416) while `setHandler` stores it (line 429). The Go memory model gives this data race no order, so any value stored so far is a legal result of the load. A model can then only restate that whatever is loaded is run. The race is listed as a hazard with no property.
- `exitsFor` and the subchannels' construction. They only read the topology, and no property is about them.
- The message exchange's timeouts and connection teardown.
- `bootstrap`, `connect` and `close` of the relay network. These are asynchronous I/O glue.
- The benchmark runner, which is process spawning.
- Frame loss, duplication or reordering. Frames travel over one TCP connection, and `reqres.go` has no handling for any of them. A broken connection reaches the call as its exchange being torn down, and that is modelled. A damaged frame is modelled as one truncated frame.
- Calls of `Write` and `Close` outside an argument. These are the fragmenting writer's own checks, outside `src/`. The modelled callers use them only inside an open argument.

**Nothing further planned.** What remains outside the models is listed above. It is either code that is not under `src/` and that `spec.md` does not describe (the exchange's timeouts, the frame pool's reuse, connection close), or it is I/O with no protocol state. A model of that code would be invented, not translated.
