-------------------------------- MODULE Egfx --------------------------------
(***************************************************************************)
(* The EGFX dynamic channel of the gateway (src/src/egfx.rs): the surface  *)
(* store and bitmap cache it keeps on behalf of the server, the video      *)
(* packets and control messages it pushes to the browser side through an   *)
(* unbounded channel, and the frame acknowledgements it returns.           *)
(*                                                                         *)
(* One call of DvcProcessor::process is a run of steps: Process, then one  *)
(* step per PDU (and one per iteration of a PDU's loop), then Finish or a  *)
(* failure.  The PDUs of a call are chosen one at a time, as the server    *)
(* may put any of them in any order into one payload.  A pixel is one of   *)
(* Colors; decoders are external and return any pixels of the right size.  *)
(***************************************************************************)
EXTENDS Integers, Sequences

CONSTANTS
  SurfaceIds,     \* surface ids the server uses
  Slots,          \* bitmap cache slots
  FrameIds,       \* frame ids
  Colors,         \* pixel values
  Black,          \* the colour of a new surface
  MaxU16,         \* largest value of a u16 coordinate
  MaxU32,         \* largest value of a u32 counter
  TileSize,       \* side of a progressive tile (64)
  SurfaceSizes,   \* sizes of created surfaces: records [w, h]
  Rectangles,     \* rectangles in PDUs: records [left, top, right, bottom]
  Points,         \* destination points in PDUs: records [x, y]
  Tiles,          \* tile indices the progressive decoder returns: [x, y]
  Origins,        \* output origins of MapSurfaceToOutput
  NoOrigin,       \* the origin of an unmapped surface (0, 0)
  MaxEvents,      \* bound: events waiting in the channel
  MaxFrames,      \* bound: frames ended in a behaviour
  MaxTime         \* bound: microseconds on the clock and on time stamps

U16 == 0 .. MaxU16

ASSUME ColorsAssumption == Black \in Colors

ASSUME WidthsAssumption ==
  /\ MaxU16 \in Nat
  /\ MaxU32 \in Nat \ {0}
  /\ TileSize \in Nat \ {0}

ASSUME PduAssumption ==
  /\ SurfaceSizes \subseteq [w : U16, h : U16]
  /\ Rectangles \subseteq [left : U16, top : U16, right : U16, bottom : U16]
  /\ Points \subseteq [x : U16, y : U16]
  /\ Tiles \subseteq [x : U16, y : U16]
  /\ NoOrigin \in Origins

ASSUME BoundsAssumption ==
  /\ MaxEvents \in Nat
  /\ MaxFrames \in Nat
  /\ MaxTime \in Nat

VARIABLES
  phase,          \* where the channel is in its life and in process()
  surfaces,       \* surface id -> SurfaceState
  cache,          \* slot -> CachedBitmap
  queuedFrames,   \* queued_frames
  totalFrames,    \* total_frames
  clock,          \* microseconds since the channel object was built
  lastTimestamp,  \* last_timestamp_us
  warned,         \* warned_unsupported_codec
  loop,           \* the for loop of the PDU being handled
  tx,             \* events sent and not yet received by the session
  rxOpen,         \* the receiving end of tx still exists
  responses,      \* responses of the process() call under way
  acks            \* responses of the calls that returned Ok

store == <<surfaces, cache>>
frames == <<queuedFrames, totalFrames, responses>>
stamps == <<clock, lastTimestamp>>
channel == <<tx, rxOpen>>
vars == <<phase, surfaces, cache, queuedFrames, totalFrames, clock,
          lastTimestamp, warned, loop, tx, rxOpen, responses, acks>>

-----------------------------------------------------------------------------
(* Bitmaps. *)

Area(w, h) == (0 .. w - 1) \X (0 .. h - 1)

Bitmaps(w, h) == [Area(w, h) -> Colors]

Regions == [x : U16, y : U16, w : U16, h : U16]

\* repeated_pixel and opaque_black
RepeatedPixel(color, w, h) == [p \in Area(w, h) |-> color]

\* BitmapRegion::from_rectangle returns None for an inverted rectangle.
IsRegion(rect) == rect.left <= rect.right /\ rect.top <= rect.bottom

FromRectangle(rect) ==
  [x |-> rect.left, y |-> rect.top,
   w |-> rect.right - rect.left, h |-> rect.bottom - rect.top]

NewSurface(size) ==
  [w |-> size.w, h |-> size.h, origin |-> NoOrigin,
   pixels |-> RepeatedPixel(Black, size.w, size.h)]

\* checked_add(..).is_some_and(|end| end <= limit)
FitsIn(start, length, limit) ==
  start + length <= MaxU16 /\ start + length <= limit

Contains(s, r) == FitsIn(r.x, r.w, s.w) /\ FitsIn(r.y, r.h, s.h)

Inside(p, r) == /\ r.x <= p[1] /\ p[1] < r.x + r.w
                /\ r.y <= p[2] /\ p[2] < r.y + r.h

\* The row by row copy of SurfaceState::blit
Blit(pixels, r, data) ==
  [p \in DOMAIN pixels |->
     IF Inside(p, r) THEN data[<<p[1] - r.x, p[2] - r.y>>] ELSE pixels[p]]

\* Slip: the offset of the region in its surface is forgotten.
ExtractAtOrigin(s, r) == [p \in Area(r.w, r.h) |-> s.pixels[p]]

Extract(s, r) == [p \in Area(r.w, r.h) |-> s.pixels[<<p[1] + r.x, p[2] + r.y>>]]

\* insert and remove of a BTreeMap
Insert(f, k, v) == [x \in DOMAIN f \cup {k} |-> IF x = k THEN v ELSE f[x]]
Remove(f, k) == [x \in DOMAIN f \ {k} |-> f[x]]
EmptyMap == [x \in {} |-> x]

Smaller(a, b) == IF a < b THEN a ELSE b
SaturatingSub(a, b) == IF a < b THEN 0 ELSE a - b

-----------------------------------------------------------------------------
(* The event channel. *)

Codecs == {"Avc420", "ClearCodec", "Progressive", "SurfaceCommand"}
RgbaCodecs == Codecs \ {"Avc420"}

Control(kind) == [type |-> "control", kind |-> kind]

IsVideo(e) == e.type = "video"

\* "let _ = tx.send(..)": an event sent after the receiver is gone is lost.
Send(e) == tx' = IF rxOpen THEN Append(tx, e) ELSE tx

CanSend == Len(tx) < MaxEvents

SendControl(kind) == CanSend /\ Send(Control(kind)) /\ UNCHANGED rxOpen

\* Slip: "last" for "last + 1"
NextTimestampOfClock == IF clock > lastTimestamp THEN clock ELSE lastTimestamp

\* next_timestamp_us: elapsed().max(last + 1)
NextTimestamp == IF clock > lastTimestamp THEN clock ELSE lastTimestamp + 1

CanSendVideo == CanSend /\ lastTimestamp < MaxTime

SendVideo(codec, sid, r, origin, data) ==
  /\ Send([type |-> "video", codec |-> codec, ts |-> NextTimestamp,
           sid |-> sid, region |-> r, origin |-> origin, data |-> data])
  /\ lastTimestamp' = NextTimestamp
  /\ UNCHANGED <<rxOpen, clock>>

Accepts(sid, r, data) ==
  /\ sid \in DOMAIN surfaces
  /\ Contains(surfaces[sid], r)
  /\ DOMAIN data = Area(r.w, r.h)

\* Slip: the early return after a refused blit is missing.
BlitAndSendAnyway(codec, sid, r, data) ==
  /\ CanSendVideo
  /\ surfaces' = IF Accepts(sid, r, data)
                 THEN [surfaces EXCEPT ![sid].pixels = Blit(@, r, data)]
                 ELSE surfaces
  /\ IF sid \in DOMAIN surfaces
     THEN SendVideo(codec, sid, r, surfaces[sid].origin, data)
     ELSE UNCHANGED <<channel, stamps>>

\* blit_and_send: nothing happens for an unknown surface or a bad region,
\* otherwise the store is updated and the same pixels are sent.
BlitAndSend(codec, sid, r, data) ==
  /\ CanSendVideo
  /\ \/ /\ Accepts(sid, r, data)
        /\ surfaces' = [surfaces EXCEPT ![sid].pixels = Blit(@, r, data)]
        /\ SendVideo(codec, sid, r, surfaces[sid].origin, data)
     \/ /\ ~Accepts(sid, r, data)
        /\ UNCHANGED <<surfaces, channel, stamps>>

-----------------------------------------------------------------------------
(* Life of the channel. *)

NoLoop == [kind |-> "none"]

Init ==
  /\ phase = "closed"
  /\ surfaces = EmptyMap
  /\ cache = EmptyMap
  /\ queuedFrames = 0
  /\ totalFrames = 0
  /\ clock = 0
  /\ lastTimestamp = 0
  /\ warned = FALSE
  /\ loop = NoLoop
  /\ tx = <<>>
  /\ rxOpen = TRUE
  /\ responses = <<>>
  /\ acks = <<>>

\* DvcProcessor::start: the server opened the channel.
Start ==
  /\ phase = "closed"
  /\ phase' = "idle"
  /\ SendControl("status")
  /\ UNCHANGED <<store, frames, stamps, warned, loop, acks>>

\* process(): the payload decompresses and all of its PDUs decode.
Process ==
  /\ phase = "idle"
  /\ phase' = "handling"
  /\ UNCHANGED <<store, frames, stamps, warned, loop, channel, acks>>

\* process(): decompression or the decoding of some PDU fails, so that no
\* PDU of the payload is handled and the session ends.
ProcessMalformed ==
  /\ phase = "idle"
  /\ phase' = "failed"
  /\ UNCHANGED <<store, frames, stamps, warned, loop, channel, acks>>

\* Slip: the responses are kept for the next call.
FinishKeepingResponses ==
  /\ phase = "handling"
  /\ loop = NoLoop
  /\ phase' = "idle"
  /\ acks' = acks \o responses
  /\ UNCHANGED <<store, frames, stamps, warned, loop, channel>>

\* All PDUs of the payload are handled: process() returns their responses.
Finish ==
  /\ phase = "handling"
  /\ loop = NoLoop
  /\ phase' = "idle"
  /\ acks' = acks \o responses
  /\ responses' = <<>>
  /\ UNCHANGED <<store, queuedFrames, totalFrames, stamps, warned, loop, channel>>

\* DvcProcessor::close
Close ==
  /\ phase = "idle"
  /\ phase' = "gone"
  /\ SendControl("warning")
  /\ UNCHANGED <<store, frames, stamps, warned, loop, acks>>

-----------------------------------------------------------------------------
(* handle_pdu, one action per PDU. *)

Handling == phase = "handling" /\ loop = NoLoop /\ UNCHANGED <<phase, acks>>

CapabilitiesConfirm ==
  /\ Handling
  /\ SendControl("egfxNegotiated")
  /\ UNCHANGED <<store, frames, stamps, warned, loop>>

\* Slip: the reset clears the frame counters, too.
ResetGraphicsClearingFrames ==
  /\ Handling
  /\ surfaces' = EmptyMap
  /\ queuedFrames' = 0
  /\ SendControl("resize")
  /\ UNCHANGED <<cache, totalFrames, responses, stamps, warned, loop>>

\* The surfaces go, the cache and the frame counters stay.
ResetGraphics ==
  /\ Handling
  /\ surfaces' = EmptyMap
  /\ SendControl("resize")
  /\ UNCHANGED <<cache, frames, stamps, warned, loop>>

CreateSurface(sid, size) ==
  /\ Handling
  /\ surfaces' = Insert(surfaces, sid, NewSurface(size))
  /\ UNCHANGED <<cache, frames, stamps, warned, loop, channel>>

DeleteSurface(sid) ==
  /\ Handling
  /\ surfaces' = Remove(surfaces, sid)
  /\ UNCHANGED <<cache, frames, stamps, warned, loop, channel>>

MapSurfaceToOutput(sid, origin) ==
  /\ Handling
  /\ surfaces' = IF sid \in DOMAIN surfaces
                 THEN [surfaces EXCEPT ![sid].origin = origin]
                 ELSE surfaces
  /\ UNCHANGED <<cache, frames, stamps, warned, loop, channel>>

\* handle_solid_fill, up to its loop over the rectangles
SolidFill(sid, color) ==
  /\ Handling
  /\ loop' = [kind |-> "fill", sid |-> sid, color |-> color]
  /\ UNCHANGED <<store, frames, stamps, warned, channel>>

\* An iteration of that loop; an inverted rectangle is skipped.
FillRectangle(rect) ==
  /\ loop.kind = "fill"
  /\ IF IsRegion(rect)
     THEN LET r == FromRectangle(rect)
          IN  BlitAndSend("SurfaceCommand", loop.sid, r,
                          RepeatedPixel(loop.color, r.w, r.h))
     ELSE UNCHANGED <<surfaces, channel, stamps>>
  /\ UNCHANGED <<phase, cache, frames, warned, loop, acks>>

\* surfaces.get(..).and_then(extract) has pixels to return
CanExtract(sid, rect) ==
  /\ IsRegion(rect)
  /\ sid \in DOMAIN surfaces
  /\ Contains(surfaces[sid], FromRectangle(rect))

\* A bitmap on its way to the destination points of a copy
CopyLoop(sid, bitmap) ==
  [kind |-> "copy", sid |-> sid, w |-> bitmap.w, h |-> bitmap.h,
   pixels |-> bitmap.pixels]

\* Slip: the right edge is taken for the width.
CapturedBitmapToEdge(sid, rect) ==
  [w |-> rect.right, h |-> rect.bottom - rect.top,
   pixels |-> Extract(surfaces[sid], FromRectangle(rect))]

CapturedBitmap(sid, rect) ==
  LET r == FromRectangle(rect)
  IN  [w |-> r.w, h |-> r.h, pixels |-> Extract(surfaces[sid], r)]

\* handle_surface_to_surface: the source is read before any point is written.
SurfaceToSurface(sid, rect, dest) ==
  /\ Handling
  /\ loop' = IF CanExtract(sid, rect)
             THEN CopyLoop(dest, CapturedBitmap(sid, rect))
             ELSE loop
  /\ UNCHANGED <<store, frames, stamps, warned, channel>>

\* handle_surface_to_cache
SurfaceToCache(sid, rect, slot) ==
  /\ Handling
  /\ cache' = IF CanExtract(sid, rect)
              THEN Insert(cache, slot, CapturedBitmap(sid, rect))
              ELSE cache
  /\ UNCHANGED <<surfaces, frames, stamps, warned, loop, channel>>

\* handle_cache_to_surface, up to its loop over the points
CacheToSurface(slot, dest) ==
  /\ Handling
  /\ loop' = IF slot \in DOMAIN cache THEN CopyLoop(dest, cache[slot]) ELSE loop
  /\ UNCHANGED <<store, frames, stamps, warned, channel>>

\* An iteration of the loop over the destination points of both copies
CopyToPoint(point) ==
  /\ loop.kind = "copy"
  /\ BlitAndSend("SurfaceCommand", loop.sid,
                 [x |-> point.x, y |-> point.y, w |-> loop.w, h |-> loop.h],
                 loop.pixels)
  /\ UNCHANGED <<phase, cache, frames, warned, loop, acks>>

EvictCacheEntry(slot) ==
  /\ Handling
  /\ cache' = Remove(cache, slot)
  /\ UNCHANGED <<surfaces, frames, stamps, warned, loop, channel>>

StartFrame ==
  /\ Handling
  /\ queuedFrames' = Smaller(queuedFrames + 1, MaxU32)
  /\ UNCHANGED <<store, totalFrames, responses, stamps, warned, loop, channel>>

Suspend == MaxU32   \* QueueDepth::from_u32(0xffffffff)

\* Slip: the depth is read before it is decremented.
EndFrameReadingEarly(id) ==
  /\ Handling
  /\ Len(acks) + Len(responses) < MaxFrames
  /\ queuedFrames' = SaturatingSub(queuedFrames, 1)
  /\ totalFrames' = (totalFrames + 1) % (MaxU32 + 1)
  /\ responses' = Append(responses, [depth |-> queuedFrames, frame |-> id,
                                     total |-> totalFrames'])
  /\ UNCHANGED <<store, stamps, warned, loop, channel>>

EndFrame(id) ==
  /\ Handling
  /\ Len(acks) + Len(responses) < MaxFrames
  /\ queuedFrames' = SaturatingSub(queuedFrames, 1)
  /\ totalFrames' = (totalFrames + 1) % (MaxU32 + 1)
  /\ responses' = Append(responses, [depth |-> queuedFrames', frame |-> id,
                                     total |-> totalFrames'])
  /\ UNCHANGED <<store, stamps, warned, loop, channel>>

\* WireToSurface1 with a ClearCodec bitmap that decodes to some pixels.
ClearCodec(sid, rect, pixels) ==
  /\ Handling
  /\ BlitAndSend("ClearCodec", sid, FromRectangle(rect), pixels)
  /\ UNCHANGED <<cache, frames, warned, loop>>

\* WireToSurface1 with any codec but ClearCodec and AVC420: one warning ever.
UnsupportedCodec ==
  /\ Handling
  /\ warned' = TRUE
  /\ IF warned THEN UNCHANGED channel ELSE SendControl("warning")
  /\ UNCHANGED <<store, frames, stamps, loop>>

\* The region of a video packet: sizes are saturating differences.
VideoRegion(rect) ==
  [x |-> rect.left, y |-> rect.top,
   w |-> SaturatingSub(rect.right, rect.left),
   h |-> SaturatingSub(rect.bottom, rect.top)]

\* WireToSurface1 with AVC420: passed on as it is, for a surface the store
\* does not know too, and never drawn into the store.
Avc420(sid, rect) ==
  /\ Handling
  /\ CanSendVideo
  /\ SendVideo("Avc420", sid, VideoRegion(rect),
               IF sid \in DOMAIN surfaces THEN surfaces[sid].origin ELSE NoOrigin,
               EmptyMap)
  /\ UNCHANGED <<store, frames, warned, loop>>

\* AVC420 with a malformed bitmap stream: the "?" abandons the rest of the
\* payload and the responses collected so far, and the session ends.
Avc420Malformed ==
  /\ phase = "handling"
  /\ loop = NoLoop
  /\ phase' = "failed"
  /\ responses' = <<>>
  /\ UNCHANGED <<store, queuedFrames, totalFrames, stamps, warned, loop, channel, acks>>

\* WireToSurface2, up to its loop over the decoded tiles
Progressive(sid) ==
  /\ Handling
  /\ loop' = IF sid \in DOMAIN surfaces
             THEN [kind |-> "tiles", sid |-> sid,
                   w |-> surfaces[sid].w, h |-> surfaces[sid].h]
             ELSE loop
  /\ UNCHANGED <<store, frames, stamps, warned, channel>>

\* The part of a tile that lies on the surface
TileRegion(tile, w, h) ==
  LET x == Smaller(tile.x * TileSize, MaxU16)
      y == Smaller(tile.y * TileSize, MaxU16)
  IN  [x |-> x, y |-> y,
       w |-> Smaller(SaturatingSub(w, x), TileSize),
       h |-> Smaller(SaturatingSub(h, y), TileSize)]

\* An iteration of that loop: the tile's pixels are cropped to the surface.
DrawTile(tile, pixels) ==
  /\ loop.kind = "tiles"
  /\ LET r == TileRegion(tile, loop.w, loop.h)
     IN  BlitAndSend("Progressive", loop.sid, r, [p \in Area(r.w, r.h) |-> pixels[p]])
  /\ UNCHANGED <<phase, cache, frames, warned, loop, acks>>

\* The for loop of the PDU runs out of items.
LoopDone ==
  /\ loop # NoLoop
  /\ loop' = NoLoop
  /\ UNCHANGED <<phase, store, frames, stamps, warned, channel, acks>>

\* A bitmap that does not decode, DeleteEncodingContext, or any other PDU:
\* nothing but a decoder's own state changes.
IgnoredPdu ==
  /\ Handling
  /\ UNCHANGED <<store, frames, stamps, warned, loop, channel>>

HandlePdu ==
  \/ CapabilitiesConfirm
  \/ ResetGraphics
  \/ StartFrame
  \/ UnsupportedCodec
  \/ Avc420Malformed
  \/ IgnoredPdu
  \/ \E id \in FrameIds : EndFrame(id)
  \/ \E sid \in SurfaceIds :
       \/ DeleteSurface(sid)
       \/ Progressive(sid)
       \/ \E size \in SurfaceSizes : CreateSurface(sid, size)
       \/ \E origin \in Origins : MapSurfaceToOutput(sid, origin)
       \/ \E color \in Colors : SolidFill(sid, color)
       \/ \E rect \in Rectangles :
            \/ Avc420(sid, rect)
            \/ \E dest \in SurfaceIds : SurfaceToSurface(sid, rect, dest)
            \/ \E slot \in Slots : SurfaceToCache(sid, rect, slot)
            \/ /\ IsRegion(rect)
               /\ \E pixels \in Bitmaps(rect.right - rect.left, rect.bottom - rect.top) :
                    ClearCodec(sid, rect, pixels)
  \/ \E slot \in Slots :
       \/ EvictCacheEntry(slot)
       \/ \E dest \in SurfaceIds : CacheToSurface(slot, dest)

Iterate ==
  \/ \E rect \in Rectangles : FillRectangle(rect)
  \/ \E point \in Points : CopyToPoint(point)
  \/ \E tile \in Tiles, pixels \in Bitmaps(TileSize, TileSize) : DrawTile(tile, pixels)
  \/ LoopDone

-----------------------------------------------------------------------------
(* The clock, and the session at the other end of the channel. *)

Tick ==
  /\ clock < MaxTime
  /\ clock' = clock + 1
  /\ UNCHANGED <<phase, store, frames, lastTimestamp, warned, loop, channel, acks>>

\* event_rx.recv()
Receive ==
  /\ tx # <<>>
  /\ tx' = Tail(tx)
  /\ UNCHANGED <<phase, store, frames, stamps, warned, loop, rxOpen, acks>>

\* The session ended and dropped event_rx with what was queued.
ReceiverDropped ==
  /\ rxOpen
  /\ rxOpen' = FALSE
  /\ tx' = <<>>
  /\ UNCHANGED <<phase, store, frames, stamps, warned, loop, acks>>

Next ==
  \/ Start
  \/ Process
  \/ ProcessMalformed
  \/ Finish
  \/ Close
  \/ HandlePdu
  \/ Iterate
  \/ Tick
  \/ Receive
  \/ ReceiverDropped

Spec == Init /\ [][Next]_vars

-----------------------------------------------------------------------------
(* Types. *)

HoldsBitmap(b) == b.w \in U16 /\ b.h \in U16 /\ b.pixels \in Bitmaps(b.w, b.h)

IsSurface(s) ==
  /\ s = [w |-> s.w, h |-> s.h, origin |-> s.origin, pixels |-> s.pixels]
  /\ s.origin \in Origins
  /\ HoldsBitmap(s)

IsCachedBitmap(b) ==
  /\ b = [w |-> b.w, h |-> b.h, pixels |-> b.pixels]
  /\ HoldsBitmap(b)

IsCopyLoop(l) ==
  /\ l = [kind |-> "copy", sid |-> l.sid, w |-> l.w, h |-> l.h, pixels |-> l.pixels]
  /\ l.sid \in SurfaceIds
  /\ HoldsBitmap(l)

IsLoop(l) ==
  \/ l = NoLoop
  \/ l \in [kind : {"fill"}, sid : SurfaceIds, color : Colors]
  \/ l \in [kind : {"tiles"}, sid : SurfaceIds, w : U16, h : U16]
  \/ l.kind = "copy" /\ IsCopyLoop(l)

ControlEvents ==
  [type : {"control"}, kind : {"status", "egfxNegotiated", "resize", "warning"}]

IsEvent(e) ==
  \/ e \in ControlEvents
  \/ /\ e.type = "video"
     /\ e = [type |-> "video", codec |-> e.codec, ts |-> e.ts, sid |-> e.sid,
             region |-> e.region, origin |-> e.origin, data |-> e.data]
     /\ e.codec \in Codecs
     /\ e.ts \in 0 .. MaxTime
     /\ e.sid \in SurfaceIds
     /\ e.region \in Regions
     /\ e.origin \in Origins
     /\ e.codec \in RgbaCodecs => e.data \in Bitmaps(e.region.w, e.region.h)

Acks == [depth : 0 .. MaxU32, frame : FrameIds, total : 0 .. MaxU32]

SurfacesOK ==
  /\ surfaces = [sid \in DOMAIN surfaces |-> surfaces[sid]]
  /\ DOMAIN surfaces \subseteq SurfaceIds
  /\ \A sid \in DOMAIN surfaces : IsSurface(surfaces[sid])

CacheOK ==
  /\ cache = [slot \in DOMAIN cache |-> cache[slot]]
  /\ DOMAIN cache \subseteq Slots
  /\ \A slot \in DOMAIN cache : IsCachedBitmap(cache[slot])

ChannelOK ==
  /\ rxOpen \in BOOLEAN
  /\ Len(tx) \in 0 .. MaxEvents
  /\ tx = [i \in 1 .. Len(tx) |-> tx[i]]
  /\ \A i \in 1 .. Len(tx) : IsEvent(tx[i])

CountersOK ==
  /\ queuedFrames \in 0 .. MaxU32
  /\ totalFrames \in 0 .. MaxU32
  /\ clock \in 0 .. MaxTime
  /\ lastTimestamp \in 0 .. MaxTime

ControlOK ==
  /\ phase \in {"closed", "idle", "handling", "failed", "gone"}
  /\ warned \in BOOLEAN
  /\ IsLoop(loop)

\* Every surface and cached bitmap holds exactly width x height pixels, every
\* loop and every packet carries as many pixels as its region has, and the
\* counters stay within their width (SurfaceState, CachedBitmap, VideoPacket
\* and the counters of EgfxPassthrough).
EgfxTypeOK ==
  /\ ControlOK
  /\ SurfacesOK
  /\ CacheOK
  /\ CountersOK
  /\ ChannelOK
  /\ responses \in Seq(Acks)
  /\ acks \in Seq(Acks)
=============================================================================
