----------------------------- MODULE EgfxHistory -----------------------------
(***************************************************************************)
(* History variables over Egfx, and the properties of the channel stated   *)
(* with them.  They record what the server asked for and what the session  *)
(* was handed, and never constrain a step of Egfx.                         *)
(***************************************************************************)
EXTENDS Egfx

VARIABLES
  painted,    \* surface id -> the pixels an observer of the packets has drawn
  received,   \* time stamp of the last video packet received, 0 before one
  ended,      \* ids of the frames ended, in order
  bracket,    \* "out" or "in" a frame while frames do not overlap, then "broken"
  copy        \* the SurfaceToSurface under way, as it was asked for

hvars == <<vars, painted, received, ended, bracket, copy>>

NoCopy == [on |-> FALSE]

HInit ==
  /\ Init
  /\ painted = EmptyMap
  /\ received = 0
  /\ ended = <<>>
  /\ bracket = "out"
  /\ copy = NoCopy

\* An observer draws an RGBA packet at its region of its surface.
Paint(e) ==
  [painted EXCEPT ![e.sid] =
     [p \in DOMAIN @ |->
        IF Inside(p, e.region)
        THEN e.data[<<p[1] - e.region.x, p[2] - e.region.y>>]
        ELSE @[p]]]

SentEvent == Len(tx') > Len(tx)
LastSent == tx'[Len(tx')]

\* The observer also knows when surfaces come and go.
HCreateSurface(sid, size) ==
  /\ CreateSurface(sid, size)
  /\ painted' = Insert(painted, sid, RepeatedPixel(Black, size.w, size.h))
  /\ UNCHANGED <<received, ended, bracket, copy>>

HDeleteSurface(sid) ==
  /\ DeleteSurface(sid)
  /\ painted' = Remove(painted, sid)
  /\ UNCHANGED <<received, ended, bracket, copy>>

HResetGraphics ==
  /\ ResetGraphics
  /\ painted' = EmptyMap
  /\ UNCHANGED <<received, ended, bracket, copy>>

HStartFrame ==
  /\ StartFrame
  /\ bracket' = IF bracket = "out" THEN "in" ELSE "broken"
  /\ UNCHANGED <<painted, received, ended, copy>>

HEndFrame(id) ==
  /\ EndFrame(id)
  /\ ended' = Append(ended, id)
  /\ bracket' = IF bracket = "in" THEN "out" ELSE "broken"
  /\ UNCHANGED <<painted, received, copy>>

HReceive ==
  /\ Receive
  /\ received' = IF IsVideo(Head(tx)) THEN Head(tx).ts ELSE received
  /\ UNCHANGED <<painted, ended, bracket, copy>>

HSurfaceToSurface(sid, rect, dest) ==
  /\ SurfaceToSurface(sid, rect, dest)
  /\ copy' = IF loop' = NoLoop THEN copy
             ELSE [on |-> TRUE, before |-> surfaces, source |-> sid,
                   from |-> [x |-> rect.left, y |-> rect.top],
                   dest |-> dest, placed |-> <<>>]
  /\ UNCHANGED <<painted, received, ended, bracket>>

\* A point counts as placed when its packet is sent.
HCopyToPoint(point) ==
  /\ CopyToPoint(point)
  /\ painted' = IF SentEvent THEN Paint(LastSent) ELSE painted
  /\ copy' = IF copy.on /\ lastTimestamp' # lastTimestamp
             THEN [copy EXCEPT !.placed = Append(@, point)]
             ELSE copy
  /\ UNCHANGED <<received, ended, bracket>>

HLoopDone ==
  /\ LoopDone
  /\ copy' = NoCopy
  /\ UNCHANGED <<painted, received, ended, bracket>>

OtherDraw ==
  \/ \E rect \in Rectangles : FillRectangle(rect)
  \/ \E tile \in Tiles, pixels \in Bitmaps(TileSize, TileSize) : DrawTile(tile, pixels)
  \/ \E sid \in SurfaceIds, rect \in Rectangles :
       /\ IsRegion(rect)
       /\ \E pixels \in Bitmaps(rect.right - rect.left, rect.bottom - rect.top) :
            ClearCodec(sid, rect, pixels)

HOtherDraw ==
  /\ OtherDraw
  /\ painted' = IF SentEvent THEN Paint(LastSent) ELSE painted
  /\ UNCHANGED <<received, ended, bracket, copy>>

\* The steps that the history does not take note of.
Quiet ==
  \/ Start
  \/ Process
  \/ ProcessMalformed
  \/ Finish
  \/ Close
  \/ CapabilitiesConfirm
  \/ UnsupportedCodec
  \/ Avc420Malformed
  \/ IgnoredPdu
  \/ Tick
  \/ ReceiverDropped
  \/ \E sid \in SurfaceIds :
       \/ Progressive(sid)
       \/ \E origin \in Origins : MapSurfaceToOutput(sid, origin)
       \/ \E color \in Colors : SolidFill(sid, color)
       \/ \E rect \in Rectangles : Avc420(sid, rect)
       \/ \E rect \in Rectangles, slot \in Slots : SurfaceToCache(sid, rect, slot)
  \/ \E slot \in Slots :
       \/ EvictCacheEntry(slot)
       \/ \E dest \in SurfaceIds : CacheToSurface(slot, dest)

HQuiet ==
  /\ Quiet
  /\ UNCHANGED <<painted, received, ended, bracket, copy>>

HNext ==
  \/ \E sid \in SurfaceIds, size \in SurfaceSizes : HCreateSurface(sid, size)
  \/ \E sid \in SurfaceIds : HDeleteSurface(sid)
  \/ HResetGraphics
  \/ HStartFrame
  \/ \E id \in FrameIds : HEndFrame(id)
  \/ HReceive
  \/ \E sid, dest \in SurfaceIds, rect \in Rectangles : HSurfaceToSurface(sid, rect, dest)
  \/ \E point \in Points : HCopyToPoint(point)
  \/ HLoopDone
  \/ HOtherDraw
  \/ HQuiet

HSpec == HInit /\ [][HNext]_hvars

-----------------------------------------------------------------------------

\* The store is what an observer of the packets has drawn: as long as the
\* session listens, no pixel of a surface changes (fills, copies, cache
\* restores, decoded bitmaps and tiles: blit_and_send) without a packet that
\* shows it, and no packet shows what the store did not take.
StoreMatchesPainted ==
  rxOpen =>
    /\ DOMAIN painted = DOMAIN surfaces
    /\ \A sid \in DOMAIN surfaces : painted[sid] = surfaces[sid].pixels

\* The video packets the session takes from the channel carry strictly
\* increasing time stamps, whatever their codecs and whatever the clock does
\* (next_timestamp_us); the browser keys decoded frames by them.
TimestampsIncrease ==
  \A i \in DOMAIN tx : IsVideo(tx[i]) =>
    /\ received < tx[i].ts
    /\ \A j \in DOMAIN tx : j < i /\ IsVideo(tx[j]) => tx[j].ts < tx[i].ts

Answers == acks \o responses

\* The frame acknowledgements answer the EndFrame PDUs one for one and in
\* order, with running totals that wrap at 32 bits; only a failure of the
\* session leaves ended frames without an answer.
AcksInOrder ==
  /\ Len(Answers) <= Len(ended)
  /\ phase # "failed" => Len(Answers) = Len(ended)
  /\ phase # "handling" => responses = <<>>
  /\ \A i \in DOMAIN Answers :
       /\ Answers[i].frame = ended[i]
       /\ Answers[i].total =
            ((IF i = 1 THEN 0 ELSE Answers[i - 1].total) + 1) % (MaxU32 + 1)

\* No acknowledgement carries the queue depth 0xffffffff, by which a client
\* tells the server to stop waiting for acknowledgements, even when frames
\* are started without end and the counter saturates.
NeverSuspend == \A i \in DOMAIN Answers : Answers[i].depth # Suspend

\* For a server that does not overlap frames the queue depth does not drift:
\* it is 1 inside a frame and 0 outside, across resets and payloads, and every
\* acknowledgement reports 0.
DepthDoesNotDrift ==
  bracket # "broken" =>
    /\ queuedFrames = IF bracket = "in" THEN 1 ELSE 0
    /\ \A i \in DOMAIN Answers : Answers[i].depth = 0

\* What a point of the destination shows during a copy: the source as it was
\* before the copy, at the last placed point that covers it.
Copied(p) ==
  LET covers(k) == Inside(p, [x |-> copy.placed[k].x, y |-> copy.placed[k].y,
                              w |-> loop.w, h |-> loop.h])
      ks == {k \in DOMAIN copy.placed : covers(k)}
      last == CHOOSE k \in ks : \A j \in ks : j <= k
      at == copy.placed[last]
  IN  IF ks = {} THEN copy.before[copy.dest].pixels[p]
      ELSE copy.before[copy.source].pixels[<<p[1] - at.x + copy.from.x,
                                             p[2] - at.y + copy.from.y>>]

\* SurfaceToSurface copies the source as it was before the PDU to each of its
\* points in turn, also when source and destination are the same surface and
\* overlap, and changes no other pixel of any surface.
CopiesReadSnapshot ==
  copy.on =>
    /\ DOMAIN surfaces = DOMAIN copy.before
    /\ \A sid \in DOMAIN surfaces : \A p \in DOMAIN surfaces[sid].pixels :
         surfaces[sid].pixels[p] =
           IF sid = copy.dest THEN Copied(p) ELSE copy.before[sid].pixels[p]
=============================================================================
