# TLA+ models of rdpweb

rdpweb is a gateway that shows a Windows desktop in a browser: it speaks RDP
with the server, passes H.264 video (AVC420) through to the browser without
touching it, decodes the other codecs to RGBA, and sends the browser's input
back. This directory holds TLA+ modules that model its core, TLC configurations
that check them on small instances, and proofs that TLAPS checks for instances
of every size.

## 1. The system

```
 browser (web/app.js)                 gateway (src/*.rs)                    RDP server
 +------------------+  WebSocket  +------------+  input channel  +---------------------+
 | pointer, keys    | ----------> | ws_session | --------------> | RDP thread: run()   |
 | canvas, decoders | <---------- | (main.rs)  | <-------------- |  EgfxPassthrough    | <--> RDP
 +------------------+             +------------+  event channel  |  (egfx.rs)          |
                                        ^------- oneshot --------+---------------------+
```

| Component | State | Operations | Hard behaviour |
|---|---|---|---|
| Graphics channel, `src/egfx.rs` | surfaces with pixels, bitmap cache, frame counters, last time stamp | `start`, `process` (a payload of PDUs), `close`; one handler per PDU | a payload that fails half way, counters at their limits, regions that do not fit, copies that overlap, a clock that stands still |
| Session bridge, `src/main.rs` `ws_session`, `spawn_rdp` | two unbounded channels, a oneshot, `event_channel_open` | a `select!` over browser, events and the thread's result | which branch wins, sends that wait, either side ending first, a panic |
| RDP thread, `src/rdp.rs` `run`, `connect` | phase, outputs of the active stage, last pointer | connect with timeouts, `select!` over frames and inputs, outputs | failing at any await, noticing that the browser left, a server that is silent |
| Capability flag stream, `src/rdp.rs` `GfxFlagStream` | `flag_sent` | `write_all` | patching exactly one packet, whatever comes before it and whichever write fails |
| Input path, `web/app.js` handlers, `translate_input`, `keymap.rs` | pressed keys, pending pointer, last pointer | one handler per DOM event, one case per message | keys and buttons left pressed, positions that wait and come late |
| Browser video, `web/app.js` `SurfaceDecoder` | pending packets, metadata, configuration | `push`, `configureFromPending`, `drain`, `draw`, `close` | an await in the middle, decode queue limit, an exception on the way |
| Page, `web/app.js` `onMessage`, `drawRgba`, `resizeCanvas` | canvas, status line | one case per message and codec, the close handler | frames that are drawn when decoded among tiles drawn at once, resizes in between |
| Packet format, `src/protocol.rs` and `parsePacket` | none | `encode`, `parsePacket` | widths, offsets, byte order and lengths agreeing |
| Access units, `contains_idr` and `avcNals` | none | parsers, `makeAvcConfiguration` | two parsers agreeing on malformed data too |
| Configuration, `src/config.rs`, and `main` up to the listener | none | `Args::parse`, `resolve_target`, `validate` | precedence of file and options, which of several targets, options that are parsed though unused |
| HTTP server, shutdown, fixtures | none of their own | glue around axum and tokio | none |

The components meet in three places: the graphics channel and `run` both send
into the event channel, whose sending half each of them owns; `ws_session`
forwards events to the WebSocket one at a time and awaits each send; and the
end of either side shows at the other only as a closed channel, a oneshot or a
closed WebSocket.

What makes each part correct, in one line: the store shows what was sent; every
ended frame is acknowledged once, in order; time stamps never repeat; events and
inputs pass in order and unharmed until the session ends; the session ends
completely; a failure is told to whoever is still there to read it; each part of
the canvas ends up with its newest packet; keys, buttons and the pointer of the
desktop follow the user's; and what one language writes the other one reads.
`PROJECT.json` lists the hazards line by line with the properties that watch
them, and the ones that none watches yet.

## 2. The modules

| Module | What it is |
|---|---|
| `Egfx` | the graphics channel of `src/egfx.rs`, one action per PDU |
| `EgfxHistory` | history variables over `Egfx`, and its safety properties |
| `EgfxMC` | finite values for the constants of `EgfxHistory` |
| `EgfxProofs` | type correctness of `Egfx`, and every safety property of `EgfxHistory` |
| `Pipe` | the abstract relay: what comes out is what was put in, in order, and in the end all of it |
| `Session` | `ws_session`, the RDP thread, the channels between them and the browser |
| `SessionProofs` | safety of the session, and that it implements `Pipe` for events and for inputs |
| `Decoder` | `SurfaceDecoder` of the browser, one per surface, and WebCodecs as it uses them |
| `DecoderProofs` | safety of the decoders, and that each implements `Pipe` |
| `Page`, `PageMC` | canvas and status line around `Decoder`, which it extends |
| `PageProofs` | what the canvas shows, on top of `DecoderProofs` |
| `Input`, `InputMC` | from the user's events to the events of the desktop |
| `Keymap` | the table of `keymap.rs` |
| `InputProofs` | pointer, buttons and keys of the desktop agree with the user's |
| `Connect` | connecting, and `GfxFlagStream` |
| `ConnectProofs` | the graphics flag reaches the server |
| `AccessUnit` | the parsers of H.264 access units, and the decoder's description |
| `Packet`, `PacketMC` | `encode` and `parsePacket`, around an access unit |
| `PacketProofs` | the two parsers agree, the description reads, packets return as they were |
| `Config`, `ConfigMC` | `Args::parse` and `resolve_target`, from start to start |
| `ConfigProofs` | which changes between two starts leave the desktop what it was |

### Egfx

`surfaces` and `cache` are the two `BTreeMap`s as partial functions; a bitmap is
a function from its area to `Colors`, so that "as many pixels as width x height"
is a matter of its domain. `tx` is the unbounded event channel. `responses` is
the vector that `process` collects, and `acks` what it has returned to the RDP
stack. `phase` tells whether the channel is being processed, has failed, or has
closed.

A call of `process` is the action `Process`, one action for each PDU, and
`Finish`; `ProcessMalformed` is the call that fails before the first PDU, since
the code decodes all PDUs before it handles any, and `Avc420Malformed` is the
one `?` inside a handler. A handler with a loop (`SolidFill`,
`SurfaceToSurface`, `CacheToSurface`, `WireToSurface2`) puts what its loop needs
into `loop`; each iteration is an action of its own and `LoopDone` leaves it.
This keeps the number of iterations open without putting sequences of
rectangles into the state, and shows the intermediate states to the receiver of
the events, which runs in another thread. `Tick` lets the clock advance at any
point, or not at all.

Decoders are external: `ClearCodec` and `DrawTile` take any pixels of the size
that is asked for, and a decoding error is `IgnoredPdu`. The two flags that
limit how often such an error is logged are left out.

`EgfxHistory` adds what an observer of the packets has drawn (`painted`), the
last time stamp taken from the channel, the frames ended, whether frames were
bracketed properly, and the copy under way. Two theorems say that these variables
only observe. `HistoryIsEgfx`: they add no behaviour (`HSpec => Spec`).
`HistoryIsFree`: they take none away, step by step. `HInit` is `Init` with values
for the history; `HNext` is equivalent to `Noting`, which conjoins actions of
`Egfx` with the new values of the history; and every step of `Next`, from any
state and with any history, is one for which there are such values.

### Session

Each of the three parties has a program counter or something like it: `rdpPc`
walks through `run` and the drops after it, `wsPc` through an iteration of
`ws_session` and the drops after it, and the browser is here or gone. The
random choice of `tokio::select!` is the choice between the actions that are
enabled; an `.await` in a branch is a state of its own (`sending`,
`sendingError`), in which the other branches are not taken. Events and inputs
are numbered when they are sent. `done` is the oneshot, with `"panic"` for a
sender that was dropped. Buffers on the way to the browser hold `WireCapacity`
messages; a full wire makes `ws_tx.send` wait.

The order in which locals are dropped matters and is modelled: the event sender
before the input receiver and both before the result is sent, the input sender
before the event receiver. (If not even the runtime can be built, the RDP
thread drops the two ends in the other order; no event was sent by then, and
the model keeps to the one order.)

`TcpConnected`, `Connected` and `ConnectFails` stand for the connect with its
timeouts of 20 and 30 seconds. `ProcessSends` is the graphics channel at work:
`Session` does not look into events, `Egfx` does.

### Decoder

JavaScript runs one task at a time, so that a task is one action: `Push` is
`onMessage` with a video packet up to the end of `push`, including the part of
`configureFromPending` before its `await`; `Configure`, `ConfigureThrows` and
`Unsupported` are what follows the `await`, and `Draw` the output callback. Only
the loop of `drain()` is split into iterations (`Decode`, `DecodeThrows`,
`DrainDone`), because the codec may take chunks from its queue while it runs;
`draining` names the surface, and no other task starts meanwhile.

Packets are numbered per surface. What matters of a packet is whether it is a
key frame, whether it carries parameter sets, and whether its SPS is long enough
for `codecString`, which throws otherwise: after `configuring` was set and before
the `try`, so that such a surface awaits for ever (`Usable`). `metadata` is keyed by time
stamp in the code; time stamps do not repeat (`TimestampsIncrease`), so that the packet's
number stands for its time stamp.

WebCodecs is external and modelled as its specification has it: `decode()`
throws on a closed codec and, after `configure()`, until the first key frame;
chunks leave the queue one by one (`Take`); frames come in decoding order, as
AVC420 streams of RDP are not reordered; a codec that fails or is reclaimed is
closed and delivers nothing more; `close()` on a closed codec throws.
`isConfigSupported` answers the same for the same stream, as it is asked about
the same key frame each time.

### Page

`Page` extends `Decoder`: each of its actions is one of `Decoder`'s with what it
shows, or a message that concerns the canvas only. Packets are numbered in the
order of their arrival over all surfaces, tiles included, and a cell of the
canvas shows such a number, so that "newer" is "greater". A packet covers a set
of cells, and a size of the canvas is the set of cells it has; a part that
lies outside is cut off, as `putImageData` and `drawImage` do. `resized`
remembers which packets came before the last resize. The status line is its dot:
`setStatus` with and without `live`, or `showError`. `Refuse` is a packet that
`parsePacket` refuses, or a tile with more or fewer bytes than its size says: an
error is shown, and nothing is drawn. (For a tile without pixels `new ImageData`
throws, which changes neither canvas nor status.)

### Input and Keymap

`Input` has the user, the page and the desktop at its ends, and one queue in
between: `InputsRelayed` of `Session` says that the WebSocket and the input
channel are one. Each DOM handler is an action. `Button` decides which event the
browser fires: `pointerdown` for the first button held and `pointerup` for the
last one, `pointermove` for those in between, as the pointer events
specification has it, and `Cancel` is the `pointercancel` for which there is no
handler. `Frame` is the animation frame that `pointermove` requests. The cases of
`translate_input` are `ApplyMouseMove` and so on, and what they do to buttons
and keys of the desktop is written down next to `lastPointer`. `made`, `missed`,
`overtaken` and `early` only observe.

`Keymap` is the table of `keymap.rs`, in runs of consecutive scancodes.

### Connect

`stage` follows `run` and `connect` through the TCP connect, the negotiation, TLS
and `connect_finalize`. The connector is external: it generates packets of three
kinds, with any flags in the Connect Initial. `Patch` is what `write_all` makes
of a packet; a write may fail after that, and the packet may fail to be rebuilt.

### AccessUnit, Packet, Config

Modules of operators, with a next-state relation that walks through their
inputs: data that grow by NAL units and stray bytes, and a file and options that
are edited between starts of the gateway. `contains_idr` and `avcNals` are the
loops of two languages, each translated on its own. `Packet` extends `AccessUnit`
with the header around the data. Bytes have ten values, so that the limits of
all widths are in reach: layout, byte order and the walks do not depend on the
base. Integers are made of bytes, and bytes of integers, by repeated shifts
(`Shifted`), as in the code, and not by powers: `Unsigned(n)` are those of which
n shifts leave nothing. Two conversions lose something, and both are kept: `encode`
lets the length of the data saturate at 4 GiB (`DataLength`), and
`makeAvcConfiguration` drops what two bytes cannot hold of the length of a
parameter set. Time stamps are those that a number of the page holds exactly
(`SafeInteger`).

In `Config` a target has all of its fields: protocol, name, host, port, user name,
password, width and height. A text is a member of `Texts` or `Blank`, a host of
white space or an empty user name or password. The options have the same
values, or `None` if they are missing, and the three numbers among them may be
`Malformed`: `Args::parse` (`Parsed`) makes a `u16` of each of them before
`resolve_target` runs, and ends the program if it cannot. `Started` is what `main`
gets from both. Where an option comes from, the command line or the environment,
makes no difference to it.

## 3. The runs

| Run | Question | Bounds |
|---|---|---|
| `egfx_frames` | Are frames acknowledged once, in order, with true depth? | 4 frames, two ids, counters up to 2 so that they saturate and wrap; no bitmaps |
| `egfx_store` | Is the store well formed, and what the packets show? Do time stamps increase strictly? | two surfaces of 3x1, one slot, coordinates up to 2 whose sums overflow, inverted and empty rectangles, tiles of side 2 cropped at the surface; two packets, two microseconds |
| `egfx_copy` | Do copies read the source as it was? | two surfaces of 3x1, three points, three packets: one to make the source uneven and two to smear it |
| `session` | Is anything lost, repeated or reordered? Are failures reported, and only failures? Do both sides end? Is the session a relay, liveness included? | 4 events, 2 inputs, one other message, one output, wire of 1 |
| `decoder_safety` | Is each packet in its place across awaits, callbacks, failures and the close? | two surfaces, 3 packets each, codec queue of 1 |
| `decoder_live` | Is what follows a usable key frame drawn to its end? | one surface, 5 packets, codec queue of 2 |
| `page` | What may cover what on the canvas? Does each cell get its newest packet? What does the page say after the close? | two cells, two sizes, two surfaces, 3 packets, of them 2 of a surface, one control message, codec queue of 1 |
| `input` | Do buttons go down where the user pressed them? Do pointer, buttons and keys agree? Does the pointer arrive? | points inside and outside, 3 buttons of which 2 have the same name, 3 wheel movements, two keys that differ in the E0 flag and an unmapped one, 4 events |
| `connect` | Does the flag reach the server, in one packet, unharmed? Does connecting end? | two flags, 6 packets |
| `packet` | Does the page read what the gateway wrote? Do the parsers agree, and is the description right? | bytes of 10 values, two headers, 6 NAL units, of them one whose length needs two bytes, and 5 bytes, any 5 of them in a row |
| `config` | Which changes between two starts leave the desktop what it was? | a file of two targets out of 11: each protocol with and without a name, and ones with another port, without a host, user name, width or height; options that are missing, blank, malformed, zero, or differ from the file's |
| `config_options` | Are the options without influence when `--config` is given? No: a violation | the same |

Why the bounds are enough: the store's operations touch one or two surfaces and
one slot, and a single row shows the offsets of source and destination; the
second dimension is treated like the first. The counters meet both of their
limits. The first three events are those of connecting, so that the fourth
is sent while serving; with a wire of 1 the loop waits in
`sending` while the queue holds another event. Decoders share nothing but the
`decoders` map, which matters when they are closed, so that two of them show
what one surface does to another; three packets are one dropped before the key
frame, the key frame, and one that must wait for room in the codec's queue.

On the canvas one cell shows every order of two packets; the second one is there
for packets that cover another region and for a canvas that gets smaller. Three
packets are a frame that is late, a tile that is not, and one more of either.
Three events of the pointer make a chord or an overtaken position, and a fourth
shows what comes of it. Keys do nothing to each other but through their
scancodes, and `KeysAgree` asks of the whole table that these differ, which is a theorem, too. Time stamps
are compared with the last one taken, and any two of them by the theorem. Two
writes and more fit before and after the Connect Initial. Five pieces are two units, a malformed one, and two
more behind it. Of more than two targets the search finds its first match in the
same way.

The properties, by what they relate:

* `StoreMatchesPainted`: the store, against all packets ever sent.
* `CopiesReadSnapshot`: every pixel during a copy, against the store before it.
* `AcksInOrder`, `NeverSuspend`, `DepthDoesNotDrift`: answers, against the
  frames ended, across payloads, resets and failures.
* `TimestampsIncrease`: packets in the channel, against each other and the last
  one taken.
* `EventsConserved`, `EventsFormPrefix`, `InputsFormPrefix`: what came out,
  against what was put in.
* `FailureReported`, `ErrorIsReal`: what the browser is told, against how the
  thread ended.
* `LeavingEndsSession`, `RdpEndEndsSession`: one side's end leads to the
  other's.
* `EventsRelayed`, `InputsRelayed`: the refinement of `Pipe`, with fairness.
* `PacketsConserved`: where every packet of a surface is, and the metadata,
  against the stream received.
* `NothingRejected`: the index found before an `await`, against the queue it is
  applied to afterwards.
* `DrainResumes`: waiting packets, against what will wake the loop up.
* `CloseIsFinal`: everything after the close, against tasks that were waiting.
* `PacketsRelayed`: the refinement of `Pipe` by a surface's decoder.
* `OnlyFramesComeLate`, `TilesStay`: a cell of the canvas, against all packets
  that were drawn there.
* `ClosedIsShown`: the status line, against callbacks that come after the close.
* `CanvasSettles`: the canvas in the end, against all packets that arrived.
* `ActionsWhereMade`: what the desktop receives, against what the user did and
  where, although positions are messages of their own.
* `PointerAgrees`, `ButtonsAgree`, `KeysAgree`: the state of the desktop, against
  that of the user and of the page, whenever nothing is under way.
* `PointerFollows`: the pointer of the desktop, against the latest position.
* `FlagReachesServer`: what was written, against what was generated, packet by
  packet.
* `ConnectingEnds`: a server that is silent, against the timeouts.
* `ParsersAgree`, `DescriptionReads`, `RoundTrip`: what one side writes or finds,
  against what the other one reads.
* `SelectionIsStable`: the desktop of a start, to its port and password, against
  that of the start before: the same if targets were added behind the others in the
  file and the start before worked; if with `--config` other options changed and
  all of them can be parsed; and if without it the file or `--target` changed.
* The type invariants: `EgfxTypeOK` makes a bitmap of every surface as many pixels
  as its size says, `SessionTypeOK` keeps the wire within its capacity and one
  message at most in flight, `DecoderTypeOK` and `InputTypeOK` give the ranges of
  what the browser and the desktop hold (a pointer is a u16 position), and
  `PageTypeOK` says that a cell shows nothing but a packet that covers it.

What the runs showed about the code, and which the properties spell out:

* Queued events may be cut off when the result of `run` is read
  (`main.rs:143`): `EventsFormPrefix` holds, but a session may end without its
  last events, and `EventsRelayed` treats the result as the point from which the
  relay need not deliver any more.
* An error is not shown to a browser whose input arrives between the drop of
  the input receiver and the result (`main.rs:98`). `FailureReported` names this
  exception; without it TLC finds the race.

* A video frame may be drawn over a newer tile, since it is drawn when decoded
  (`app.js:49`). `OnlyFramesComeLate` says that nothing else comes late, and
  `CanvasSettles` that such a frame stays until something newer covers it. The
  same goes for a resize: frames of the old desktop may be drawn on the new one.
* A pointer position that waits for its animation frame is sent after those of a
  later click (`app.js:362`): the desktop's pointer goes back to it until the user
  moves again. `PointerAgrees` names the exception (`overtaken`); without it TLC
  finds the case. A wheel event in between is not where the user turned the
  wheel, as it carries no position (`app.js:393`).
* With several buttons held, or if the browser cancels the pointer, the page hears
  no `pointerup` for some of them (`app.js:380`), and they stay down on the
  desktop. `ButtonsAgree` names the exception (`missed`).
* The error that the gateway reports is replaced at once by the message of the
  close handler (`app.js:33`), and a frame may replace an error by "Live"
  (`app.js:238`) as long as the WebSocket is open. `ClosedIsShown` states what is
  left: after the close, the page shows an error.
* A surface whose first key frame has an SPS of less than 4 bytes is never
  configured again, although `finally` seems to see to it (`app.js:162`).
* A surface whose first key frame carries no parameter sets is never shown, as
  that frame stays the first in `pending` and is asked about again with every
  packet (`app.js:155-158`). `Start` makes this the relay's precondition.
* If a codec failed, the close of the WebSocket stops at it: `close()` throws,
  later decoders stay open, and the page does not say that the connection closed
  (`app.js:31-33`, `338-341`). `CloseIsFinal` names the exception; without it
  TLC finds such a state.

* A parameter set of 64 KiB or more is described with the wrong length
  (`app.js:298-305`). `DescriptionReads` names the exception (`Unsigned(2)`);
  without it the invariant could not be proved. The sets of the run are shorter.
* With `--config`, a `RDPWEB_PORT`, `RDPWEB_WIDTH` or `RDPWEB_HEIGHT` that is no
  number still ends the start (`config.rs:28`, `40`, `44`, `main.rs:39`), though the
  comments say that these options are used when `--config` is omitted.
  `SelectionIsStable` names the exception (`Parsed`), and `config_options` shows
  the case.

What the properties allow, and none of them forbids: packets that pile up before
an unusable first key frame (`PacketsConserved` counts them as waiting, and the
relay of `PacketsRelayed` starts behind them), and later decoders that stay open
when an earlier one cannot be closed. Both are hazards of the list without a
property.

Every property has a mutant: a slip in one definition, kept next to the
definition it distorts and marked "Slip", under which TLC finds the property
violated.

### Fairness

`FairSpec` of `Session` assumes

* weak fairness of the RDP thread's own steps: connecting ends by success or by
  one of the two timeouts, a call of the active stage returns, a write to the
  server completes or fails;
* strong fairness of the thread's and of the WebSocket task's `select!`
  branches: `tokio::select!` polls its branches in random order, so that a
  branch that is ready again and again is taken in the end;
* weak fairness of what follows a branch (`ws_tx.send` completing when there is
  room, failing when the browser is gone, and the drops);
* weak fairness of the browser's reading: a page that is there runs its message
  handler.

A browser that leaves (`Leave`) always yields a close message or a failing read in
the end: the gateway has neither timeout nor ping of its own. A connection that is
lost without a trace, on a session with nothing to send, is taken to be noticed by
TCP.

`FairSpec` of `Decoder` assumes weak fairness of the browser's answer, of the
drain loop, which is ordinary code, of the codec's taking up chunks, and of the
delivery of decoded frames.

`FairSpec` of `Page` assumes the same of the browser as `Decoder`. `FairSpec` of
`Input` assumes that animation frames run, that is, that the page is visible,
and that messages are taken in turn, which is `InputsRelayed` of `Session`.
`FairSpec` of `Connect` assumes that timers fire, and nothing of the server.

Nothing is assumed of the server's frames, of the browser's typing or leaving.
A write to a server that neither reads nor closes has no timeout in the code;
its completion or failure is an assumption about TCP.

## 4. The proofs

Every safety property that a run checks is a theorem, for every value of the
constants under the named assumptions of the modules:

| Module | Assumptions |
|---|---|
| `Egfx` | `ColorsAssumption`, `WidthsAssumption`, `PduAssumption`, `BoundsAssumption`: colours with a black, limits of the counters and coordinates |
| `Session`, `Connect` | `BoundsAssumption`, `FlagsAssumption`, `BoundAssumption`: bounds are numbers, the wire holds a message, flags and their absence differ |
| `Decoder`, `Page` | `SurfacesAssumption`, `LimitsAssumption`, `RegionsAssumption`: `drain()` lets at least one chunk in, and regions are sets of cells |
| `Input` | `PointsAssumption`, `LimitsAssumption`: points are pairs of integers, and the middle of the desktop is a u16 position |
| `AccessUnit` | `BytesAssumption`, `UnitsAssumption`, `NumbersAssumption`: a unit is not empty, and its length fits in the bytes in front of it |
| `Packet` | `MagicAssumption`, `HeadersAssumption`: each field fits its width, and time stamps are below 2^53 µs |
| `Config` | `NoneAssumption`, `EntriesAssumption`, `BoundAssumption`: `None` is neither a file nor a text, malformed numbers are none, and entries and settings are targets and options |

The number of surfaces, packets, events, keys, targets and bytes is arbitrary in
the theorems; the bounds that end the runs (`MaxPackets` and the like) are
arbitrary numbers, so that they limit nothing.

**Graphics channel** (`EgfxProofs`)

* `TypeCorrect`. `EgfxTypeOK` is inductive. The work is in
  `BlitAndSend`: a region that `Contains` accepts lies in the surface's area, so
  that the blitted pixels are a bitmap of the same size.
* `HistoryIsEgfx`, and from it the types under the history; `HistoryIsFree`, the
  converse step by step, as unfolded over time it would need a history to be chosen
  for a whole behaviour.
  `AcksAreInOrder`, `AcksNeverSuspend` and `DepthStaysTrue` rest on one
  invariant, which adds to the properties that the last answer's total is the
  value of `totalFrames`. `TimestampsAlwaysIncrease` needs that no stamp in the
  channel, nor the last one received, exceeds `lastTimestamp`. `StoreIsPainted`
  is inductive once every drawing step is shown to add exactly the packet whose
  painting is the blit.
* `CopiesRead`. `CopyInv` adds to `CopiesReadSnapshot` that the bitmap that the
  loop blits is the one that the source had in that area before the PDU: a copy
  onto its own source reads this bitmap, and never pixels that the copy itself
  wrote. The work is in the blits, each of which adds its points to those that show
  the source.

**Session** (`SessionProofs`)

* `SessionTypeCorrect`. `SessionTypeOK` is inductive together with `TypeInv`, which
  adds that the oneshot holds the result exactly when the thread has ended.
  `EventInv` says where each event is: item i of what was
  accepted is event i, the one being sent is the next, and the queue goes on from
  there as long as the loop runs; `EventsAreAPrefix`, `EventsAreConserved` and
  the refinement `EventsAreRelayed` (`Spec` implements the safety part of `Pipe`)
  follow. `EndInv` gives the loop's end one of three reasons and shows that a
  close comes only from a browser that left; `FailuresAreReported` and
  `ErrorsAreReal` follow.
* `InputInv` follows an input from the page to the server: what was applied is 1
  to k, the queue of the input channel goes on from there, and as long as the
  loop runs and the receiver exists, so do the messages on the way to the
  gateway. `InputsAreAPrefix` and `InputsAreRelayed` follow.

**Connecting** (`ConnectProofs`). `FlagReachesServer` is inductive once it is
known that `flag_sent` is not set before the Connect Initial is generated, and
that the stages after it were reached by writing it: with `flag_sent` set early,
as by the mutant `PatchFirst`, the Connect Initial would pass unchanged.

**Decoders** (`DecoderProofs`). The invariant `Inv` has a part for the page,
`PageInv` (nothing was rejected, which decoders there are, what the close leaves
behind), and one for each surface, `SurfaceInv`. Its core is `Placed`: as long as the
codec is not closed, the numbers of the decoding, queued and pending packets are
runs, each of which starts where the one before it ends, up to the last packet
received, and the metadata are those of the first two. Before the configuration
all packets wait; the one that `configureFromPending` found is the same when it is
looked at again, as a key frame stays the first however many packets come behind
it (`FirstKeyStays`), so that the packet that `drain` decodes first is the key
frame: `NeverRejected`. `DrainInv` says with what `drain` returns, and `CloseInv`
what a close leaves behind if no codec had failed: `DrainAlwaysResumes` and
`CloseFinal`. `PacketsAreRelayed` maps each step of a surface to a step of `Pipe` or a
stutter; what was drawn is a run, too, also of a codec that is closed (`DrawnInv`).

**Page** (`PageProofs`). `PageImplementsDecoders`: each step of the page is one of
`Decoder` or leaves it unchanged, so that the invariant above holds of the page.
`CoversInv`, that a cell shows a packet that covers it, is inductive with the packets
in the decoders being among those that arrived.
`Numbered` adds that the packets of a surface arrive in their order, so that a
decoder that draws packet after packet never draws an older one of its surface.
`OnlyFramesComeLate` is then inductive together with `TilesInv`, which speaks of
the cells that only tiles have ever covered: a tile is the newest packet when it
arrives, which is why it may be drawn over everything. `OnlyFramesLate`,
`TilesRemain` and, from `CloseInv`, `CloseIsShown` follow.

**Input** (`InputProofs`). `PointerAgrees`, `ButtonsAgree` and `KeysAgree` speak of
an empty wire, and are not inductive: the steps in between depend on the messages
that are still to be applied. The invariant says instead that the wire *drains*:
there is a run of desktops, from the present one to `e`, each of which follows
from the one before it by the message at its place in the wire (`Drains`), and that
`e`, where the run ends, is the desktop that the user sees (`Arrives`). A message
that the page sends makes the run longer by one step, and one that the desktop
applies takes its first step away. `ActionsWhereMade` is kept by the same run. For
the keys it takes `ScancodesDiffer`, the proof that no two of the keys of the
whole table have the same scancode, block by block, and that `pressedKeys` has no
key twice.

**Configuration** (`ConfigProofs`). `TargetIsStable` is `SelectionIsStable`, with its
conditions, for any texts, numbers, targets and settings. The search of `resolve_target` stops at the
least index that matches; adding targets behind it, whatever their number, leaves
that index where it is.

**Access units** (`PacketProofs`). Neither walk has a bound, and both are
recursive functions of the offset. What such a function returns is had from the
least number principle (`LeastNumber`, from the well-foundedness of < on the
numbers), as an induction downwards from the end of the data (`Downwards`): a
function that satisfies the equations exists for offset k if it does for all
greater ones. `WalksAgree`, for any data, is the same induction. The invariant of
`ParsersAlwaysAgree` says that the units put in stand in the data one behind the
other at offsets `p[0]`, `p[1]`, ... (`Reads`), the last of which is the end of the
data unless a single byte was added. It is stable when data are appended, as a
walk looks at whole units only (`EndsStays`).

**Packets** (`PacketProofs`). Numbers and bytes are recursive functions again:
`RecursionExists` has them from any step function, by induction upwards, and
`RecursionUnique` says that there is no other. `ReadWrite` is the lemma that all
else rests on: reading the first k of n bytes gives what n - k shifts leave of the
integer, so that all n give the integer itself, as 0 is left of one that fits.
`BytesFit` is the converse. `At(bytes, offset, piece)` says where a piece of a
message stands; `PacketStands` and `DescriptionStands` lay a message out from its
end to its front, and `PacketRead` and `DescriptionRead` read each piece at its
offset. `PacketsAlwaysReturn` adds what is refused: the length field is untouched by
what is cut off or appended behind it and then differs from what the page counts,
and it differs from a length that saturated. `DescriptionAlwaysReads` adds that
`LastOf` is the newest set (`LastOfNewest`), and that the page finds the units of
a stream and no others (`InvAgree`). `PacketsCarryUnits` carries both, and
`ParsersAlwaysAgree`, over to packets.

Only model-checked is liveness, which is beyond the prover: `LeavingEndsSession`,
`RdpEndEndsSession`, `CanvasSettles`, `PointerFollows`, `ConnectingEnds`, and the
fairness parts of `EventsRelayed`, `InputsRelayed` and `PacketsRelayed`, whose
safety parts are theorems.

## 5. Not modelled

The RDP protocol stack, TLS, CredSSP and the codecs' decoders are external
libraries, and `build_connector_config` only fills in a record for them. The HTTP
routes and signal handling keep no state that matters: at a signal `main` returns,
and the end of the process cuts sessions off, which at either end looks like a
connection that fails. The fixture server is an example for manual tests, no
part of the gateway. ClearCodec updates with an inverted rectangle are left out,
as the size of such a rectangle is the business of the external crate. The growth
of the unbounded event channel, and of `metadata` after a codec failed, is not
bounded by anything in the code. A surface that is mapped elsewhere is not drawn
again, and video never enters the surface store; both are as designed, and no
document promises more. Time stamps beyond 53 bits, which take 285 years, the
statistics line, the addresses that `host_port` formats, and the wording of
messages are left out.

## 6. Plan

What is left are lemmas that link models with each other: that `InputsRelayed`
justifies the one queue of `Input`, and `TimestampsIncrease` the numbers in
`Decoder`.
