------------------------------- MODULE Decoder -------------------------------
(***************************************************************************)
(* H.264 in the browser (SurfaceDecoder in src/web/app.js): one decoder    *)
(* per surface, which waits for a key frame with parameter sets, asks the  *)
(* browser whether it can decode the stream, and then feeds a WebCodecs    *)
(* VideoDecoder whose frames come back in callbacks.                       *)
(*                                                                         *)
(* JavaScript runs one task at a time.  A task is one action, but for the  *)
(* loop of drain(): the codec may take chunks from its queue while the     *)
(* loop runs, and nothing else happens meanwhile.  Packets are numbered    *)
(* per surface; their time stamps are unique (TimestampsIncrease of        *)
(* EgfxHistory), so that a number stands for a time stamp.                 *)
(***************************************************************************)
EXTENDS Integers, Sequences, FiniteSets, Functions

CONSTANTS
  Surfaces,      \* surface ids
  Nobody,        \* no surface
  Observed,      \* the surface, any of them, whose packets a property follows
  QueueLimit,    \* chunks that drain() lets wait in the codec (8)
  MaxPackets     \* bound: packets per surface

ASSUME SurfacesAssumption == Nobody \notin Surfaces /\ Observed \in Surfaces

ASSUME LimitsAssumption == QueueLimit \in Nat \ {0} /\ MaxPackets \in Nat

VARIABLES
  socket,        \* "open" or "closed"
  decoders,      \* the surfaces in the decoders map, in order of insertion
  stream,        \* the packets received, per surface
  pending,       \* numbers of the packets waiting in the SurfaceDecoder
  metadata,      \* numbers of the packets whose frames are expected
  awaiting,      \* keyIndex of the configuration under way, or 0
  configured,    \* surfaces whose SurfaceDecoder is configured
  support,       \* the browser's answer for the stream of a surface
  codec,         \* state of the VideoDecoder
  queue,         \* chunks it was given and has not taken up
  decoding,      \* chunks it has taken up, whose frames will come
  draining,      \* the surface whose drain() is running
  failed,        \* surfaces whose VideoDecoder reported an error
  rejected,      \* chunks that decode() threw at, though it was not closed
  drawn          \* numbers of the packets drawn, per surface

object == <<pending, metadata, awaiting, configured>>
webcodecs == <<codec, queue, decoding, failed>>
vars == <<socket, decoders, stream, pending, metadata, awaiting, configured, support,
          codec, queue, decoding, draining, failed, rejected, drawn>>

Init ==
  /\ socket = "open"
  /\ decoders = <<>>
  /\ stream = [s \in Surfaces |-> <<>>]
  /\ pending = [s \in Surfaces |-> <<>>]
  /\ metadata = [s \in Surfaces |-> {}]
  /\ awaiting = [s \in Surfaces |-> 0]
  /\ configured = {}
  /\ support = [s \in Surfaces |-> "unknown"]
  /\ codec = [s \in Surfaces |-> "unconfigured"]
  /\ queue = [s \in Surfaces |-> <<>>]
  /\ decoding = [s \in Surfaces |-> <<>>]
  /\ draining = Nobody
  /\ failed = {}
  /\ rejected = {}
  /\ drawn = [s \in Surfaces |-> <<>>]

-----------------------------------------------------------------------------
(* SurfaceDecoder. *)

Idle == draining = Nobody

Without(sequence, n) == SubSeq(sequence, n + 1, Len(sequence))

\* findIndex: position of the first key frame in a list of packets, or 0
FirstKey(packets, numbers) ==
  LET keys == {i \in DOMAIN numbers : packets[numbers[i]].key}
  IN  IF keys = {} THEN 0 ELSE CHOOSE i \in keys : \A j \in keys : i <= j

\* Slip: the index is that of the packet after the key frame.
KeyIndexPastKey(packets, numbers) ==
  LET k == FirstKey(packets, numbers)
  IN  IF k # 0 /\ packets[numbers[k]].sets # "none" THEN k + 1 ELSE 0

\* configureFromPending up to its await: keyIndex, or 0 if it gives up, as it
\* does unless the first key frame carries parameter sets.
KeyIndex(packets, numbers) ==
  LET k == FirstKey(packets, numbers)
  IN  IF k # 0 /\ packets[numbers[k]].sets # "none" THEN k ELSE 0

\* onMessage with an AVC420 packet: decoderFor and push
Push(s, packet) ==
  /\ Idle
  /\ socket = "open"
  /\ Len(stream[s]) < MaxPackets
  /\ decoders' = IF s \in Range(decoders) THEN decoders ELSE Append(decoders, s)
  /\ stream' = [stream EXCEPT ![s] = Append(@, packet)]
  /\ pending' = [pending EXCEPT ![s] = Append(@, Len(stream'[s]))]
  /\ draining' = IF s \in configured THEN s ELSE Nobody
  /\ awaiting' = [awaiting EXCEPT ![s] =
       IF s \notin configured /\ @ = 0 THEN KeyIndex(stream'[s], pending'[s]) ELSE @]
  /\ UNCHANGED <<socket, metadata, configured, support, webcodecs, rejected, drawn>>

\* Key frames whose SPS is long enough for codecString
Usable(s) == {n \in DOMAIN stream[s] : stream[s][n].sets = "full"}

\* isConfigSupported resolves to the same answer for the same stream.  It is not
\* called if codecString throws, with `configuring` set and outside of the try:
\* then the surface awaits for ever.  Nothing is dropped before this, so that
\* keyIndex is the number of the packet.
Answers(s, answer) ==
  /\ Idle
  /\ awaiting[s] \in Usable(s)
  /\ awaiting' = [awaiting EXCEPT ![s] = 0]
  /\ support[s] \in {"unknown", answer}
  /\ support' = [support EXCEPT ![s] = answer]

\* configureFromPending after its await, with support: the codec is configured,
\* the first n packets are dropped, and the drain() of some surface begins.
ConfigureDropping(s, n, next) ==
  /\ Answers(s, "yes")
  /\ codec[s] # "closed"
  /\ codec' = [codec EXCEPT ![s] = "keyRequired"]
  /\ configured' = configured \cup {s}
  /\ pending' = [pending EXCEPT ![s] = Without(@, n)]
  /\ draining' = next
  /\ UNCHANGED <<socket, decoders, stream, metadata, queue, decoding, failed, rejected, drawn>>

\* Slip: the key frame is dropped with the packets before it.
ConfigureDroppingKey(s) == ConfigureDropping(s, awaiting[s], s)

\* Slip: drain() is left to the next packet.
ConfigureNotDraining(s) == ConfigureDropping(s, awaiting[s] - 1, Nobody)

\* What came before the key frame is dropped.
Configure(s) == ConfigureDropping(s, awaiting[s] - 1, s)

\* configure() throws, as the codec was closed meanwhile.
ConfigureThrows(s) ==
  /\ Answers(s, "yes")
  /\ codec[s] = "closed"
  /\ UNCHANGED <<socket, decoders, stream, pending, metadata, configured, webcodecs,
                 draining, rejected, drawn>>

\* The browser cannot decode the stream, or isConfigSupported throws: the
\* packets are kept, and the next one asks again.
Unsupported(s) ==
  /\ Answers(s, "no")
  /\ UNCHANGED <<socket, decoders, stream, pending, metadata, configured, webcodecs,
                 draining, rejected, drawn>>

\* The condition of drain()'s loop
CanDecode(s) == pending[s] # <<>> /\ Len(queue[s]) < QueueLimit

\* An iteration whose decode() succeeds.
Decode(s) ==
  LET n == Head(pending[s])
  IN  /\ draining = s
      /\ CanDecode(s)
      /\ \/ codec[s] = "ready"
         \/ codec[s] = "keyRequired" /\ stream[s][n].key
      /\ pending' = [pending EXCEPT ![s] = Tail(@)]
      /\ metadata' = [metadata EXCEPT ![s] = @ \cup {n}]
      /\ codec' = [codec EXCEPT ![s] = "ready"]
      /\ queue' = [queue EXCEPT ![s] = Append(@, n)]
      /\ UNCHANGED <<socket, decoders, stream, awaiting, configured, support, decoding,
                     draining, failed, rejected, drawn>>

\* An iteration whose decode() throws: the codec is closed, or still requires
\* a key frame.  The packet is lost, its metadata stays, and drain() returns.
DecodeThrows(s) ==
  LET n == Head(pending[s])
  IN  /\ draining = s
      /\ CanDecode(s)
      /\ codec[s] # "ready"
      /\ codec[s] = "keyRequired" => ~stream[s][n].key
      /\ pending' = [pending EXCEPT ![s] = Tail(@)]
      /\ metadata' = [metadata EXCEPT ![s] = @ \cup {n}]
      /\ draining' = Nobody
      /\ rejected' = IF codec[s] = "closed" THEN rejected ELSE rejected \cup {<<s, n>>}
      /\ UNCHANGED <<socket, decoders, stream, awaiting, configured, support, webcodecs, drawn>>

DrainDone(s) ==
  /\ draining = s
  /\ ~CanDecode(s)
  /\ draining' = Nobody
  /\ UNCHANGED <<socket, decoders, stream, object, support, webcodecs, rejected, drawn>>

\* The codec delivers the frame of packet n; its metadata are kept or not, and
\* if there were any, it is drawn, and the drain() of some surface begins.
Deliver(s, n, kept, next) ==
  /\ Idle
  /\ decoding[s] # <<>>
  /\ decoding' = [decoding EXCEPT ![s] = Tail(@)]
  /\ metadata' = [metadata EXCEPT ![s] = @ \ ({n} \ kept)]
  /\ IF n \in metadata[s]
     THEN drawn' = [drawn EXCEPT ![s] = Append(@, n)] /\ draining' = next
     ELSE UNCHANGED <<drawn, draining>>
  /\ UNCHANGED <<socket, decoders, stream, pending, awaiting, configured, support,
                 codec, queue, failed, rejected>>

\* Slip: the frame that was drawn does not resume drain().
DrawNotDraining(s) == Deliver(s, Head(decoding[s]), {}, Nobody)

\* Slip: the metadata stay in the map.
DrawKeepingMetadata(s) == Deliver(s, Head(decoding[s]), {Head(decoding[s])}, s)

\* The output callback: draw()
Draw(s) == Deliver(s, Head(decoding[s]), {}, s)

-----------------------------------------------------------------------------
(* WebCodecs. *)

\* The codec takes a chunk up, also while drain() is running.
Take(s) ==
  /\ queue[s] # <<>>
  /\ queue' = [queue EXCEPT ![s] = Tail(@)]
  /\ decoding' = [decoding EXCEPT ![s] = Append(@, Head(queue[s]))]
  /\ UNCHANGED <<socket, decoders, stream, object, support, codec, draining, failed,
                 rejected, drawn>>

\* The codec fails, or the browser reclaims it: it is reset and closed, and its
\* error callback runs, which shows the error.
Fail(s) ==
  /\ Idle
  /\ codec[s] \in {"keyRequired", "ready"}
  /\ codec' = [codec EXCEPT ![s] = "closed"]
  /\ queue' = [queue EXCEPT ![s] = <<>>]
  /\ decoding' = [decoding EXCEPT ![s] = <<>>]
  /\ failed' = failed \cup {s}
  /\ UNCHANGED <<socket, decoders, stream, object, support, draining, rejected, drawn>>

-----------------------------------------------------------------------------
(* The WebSocket closes: closeDecoders closes one SurfaceDecoder after the   *)
(* other, up to the first whose VideoDecoder is closed already, as close()   *)
(* throws then, and the rest of the handler is not executed.                 *)

\* Slip: the map is cleared before its decoders are closed.
CloseSocketClearingFirst ==
  /\ Idle
  /\ socket = "open"
  /\ socket' = "closed"
  /\ decoders' = <<>>
  /\ UNCHANGED <<stream, object, support, webcodecs, draining, rejected, drawn>>

CloseSocket ==
  LET reached(i) == \A j \in 1 .. i : codec[decoders[j]] # "closed"
      closing == {decoders[i] : i \in {j \in DOMAIN decoders : reached(j)}}
      emptied(f, e) == [s \in Surfaces |-> IF s \in closing THEN e ELSE f[s]]
  IN  /\ Idle
      /\ socket = "open"
      /\ socket' = "closed"
      /\ codec' = emptied(codec, "closed")
      /\ queue' = emptied(queue, <<>>)
      /\ decoding' = emptied(decoding, <<>>)
      /\ pending' = emptied(pending, <<>>)
      /\ metadata' = emptied(metadata, {})
      /\ decoders' = IF Cardinality(closing) = Len(decoders) THEN <<>> ELSE decoders
      /\ UNCHANGED <<stream, awaiting, configured, support, draining, failed, rejected, drawn>>

-----------------------------------------------------------------------------

\* Key frames have no parameter sets, an SPS of less than 4 bytes, or all.
Packets == {[key |-> FALSE, sets |-> "none"]}
             \cup [key : {TRUE}, sets : {"none", "short", "full"}]

Next ==
  \/ CloseSocket
  \/ \E s \in Surfaces :
       \/ \E packet \in Packets : Push(s, packet)
       \/ Configure(s)
       \/ ConfigureThrows(s)
       \/ Unsupported(s)
       \/ Decode(s)
       \/ DecodeThrows(s)
       \/ DrainDone(s)
       \/ Draw(s)
       \/ Take(s)
       \/ Fail(s)

Spec == Init /\ [][Next]_vars

\* The browser answers, its codec decodes, and a loop that runs goes on.
Fairness ==
  \A s \in Surfaces :
    /\ WF_vars(Configure(s) \/ ConfigureThrows(s) \/ Unsupported(s))
    /\ WF_vars(Decode(s) \/ DecodeThrows(s) \/ DrainDone(s))
    /\ WF_vars(Take(s))
    /\ WF_vars(Draw(s))

FairSpec == Spec /\ Fairness

-----------------------------------------------------------------------------
(* Properties. *)

Numbers == 1 .. MaxPackets

\* Every variable has values of its type.
DecoderTypeOK ==
  /\ socket \in {"open", "closed"}
  /\ decoders \in Seq(Surfaces)
  /\ stream \in [Surfaces -> Seq(Packets)]
  /\ pending \in [Surfaces -> Seq(Numbers)]
  /\ metadata \in [Surfaces -> SUBSET Numbers]
  /\ awaiting \in [Surfaces -> 0 .. MaxPackets]
  /\ configured \in SUBSET Surfaces
  /\ support \in [Surfaces -> {"unknown", "yes", "no"}]
  /\ codec \in [Surfaces -> {"unconfigured", "keyRequired", "ready", "closed"}]
  /\ queue \in [Surfaces -> Seq(Numbers)]
  /\ decoding \in [Surfaces -> Seq(Numbers)]
  /\ draining \in Surfaces \cup {Nobody}
  /\ failed \in SUBSET Surfaces
  /\ rejected \in SUBSET (Surfaces \X Numbers)
  /\ drawn \in [Surfaces -> Seq(Numbers)]

\* The key frame from which a surface can be decoded, or 0
Start(s) ==
  LET k == KeyIndex(stream[s], [i \in DOMAIN stream[s] |-> i])
  IN  IF k \in Usable(s) THEN k ELSE 0

\* The packets from number n to the last one received
From(s, n) == [i \in 1 .. Len(stream[s]) - n + 1 |-> n + i - 1]

\* While a decoder works, each packet is in one place and in its turn: those
\* before the key frame are dropped when it is configured and not earlier, and
\* all others are drawn, decoding, queued or pending, in this order.  The
\* metadata, by which draw() finds where a frame belongs, are those of the
\* packets that the codec holds.
PacketsConserved ==
  \A s \in Surfaces :
    codec[s] # "closed" =>
      /\ drawn[s] \o decoding[s] \o queue[s] \o pending[s]
           = From(s, IF s \in configured THEN Start(s) ELSE 1)
      /\ metadata[s] = Range(decoding[s] \o queue[s])

\* decode() never refuses a packet for lack of a key frame: the first one it is
\* given is the key frame that was found before isConfigSupported was awaited.
NothingRejected == rejected = {}

\* decodeQueueSize stays within the limit of drain(), which the callbacks and
\* onMessage both enter; and when it returns although packets wait, then the
\* codec holds chunks whose frames will come and resume it.
DrainResumes ==
  \A s \in configured :
    /\ Len(queue[s]) <= QueueLimit
    /\ Idle /\ codec[s] # "closed" /\ pending[s] # <<>> => queue[s] \o decoding[s] # <<>>

\* After the WebSocket's close handler no codec is open, configured later by a
\* task that was waiting, or has anything left to draw.  Not so if some codec
\* failed before: closing stops there.
CloseIsFinal ==
  socket = "closed" /\ failed = {} =>
    /\ Idle
    /\ decoders = <<>>
    /\ \A s \in Surfaces :
         /\ stream[s] # <<>> => codec[s] = "closed"
         /\ pending[s] \o queue[s] \o decoding[s] = <<>>
         /\ metadata[s] = {}

\* A surface's decoder implements the abstract relay: from the first key frame
\* on, if it has usable parameter sets, all packets are drawn, in order, unless the
\* browser does not support the stream, the codec fails, or the WebSocket closes.
Relay == INSTANCE Pipe WITH
  put <- IF Start(Observed) = 0 THEN 0 ELSE Len(stream[Observed]) - Start(Observed) + 1,
  got <- [i \in DOMAIN drawn[Observed] |-> drawn[Observed][i] - Start(Observed) + 1],
  broken <- support[Observed] = "no" \/ codec[Observed] = "closed" \/ socket = "closed"
PacketsRelayed == Relay!PipeSpec
=============================================================================
