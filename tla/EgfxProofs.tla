----------------------------- MODULE EgfxProofs -----------------------------
(***************************************************************************)
(* Proofs about Egfx and EgfxHistory, for every value of the constants.    *)
(***************************************************************************)
EXTENDS EgfxHistory, SequenceTheorems, WellFoundedInduction, NaturalsInduction, TLAPS

-----------------------------------------------------------------------------
(* Bitmaps. *)

\* A drawn-on bitmap has the same points as before, all of them coloured.
LEMMA BlitType ==
  ASSUME NEW w \in U16, NEW h \in U16, NEW pixels \in Bitmaps(w, h),
         NEW r \in Regions, NEW data \in Bitmaps(r.w, r.h)
  PROVE  Blit(pixels, r, data) \in Bitmaps(w, h)
<1>1. SUFFICES ASSUME NEW p \in Area(w, h), Inside(p, r)
               PROVE  data[<<p[1] - r.x, p[2] - r.y>>] \in Colors
  BY DEF Blit, Bitmaps
<1>2. p[1] \in Int /\ p[2] \in Int
  BY WidthsAssumption DEF Area, U16
<1>3. r.x \in Int /\ r.y \in Int /\ r.w \in Int /\ r.h \in Int
  BY WidthsAssumption DEF Regions, U16
<1>4. <<p[1] - r.x, p[2] - r.y>> \in Area(r.w, r.h)
  BY <1>1, <1>2, <1>3 DEF Area, Inside
<1> QED
  BY <1>4 DEF Bitmaps

\* Extracting a region that a surface contains yields a bitmap of its size.
LEMMA ExtractType ==
  ASSUME NEW s, IsSurface(s), NEW r \in Regions, Contains(s, r)
  PROVE  Extract(s, r) \in Bitmaps(r.w, r.h)
<1>1. PICK w \in U16, h \in U16 : s.w = w /\ s.h = h /\ s.pixels \in Bitmaps(w, h)
  BY DEF IsSurface, HoldsBitmap
<1>2. SUFFICES ASSUME NEW p \in Area(r.w, r.h)
               PROVE  s.pixels[<<p[1] + r.x, p[2] + r.y>>] \in Colors
  BY DEF Extract, Bitmaps
<1>3. p[1] \in 0 .. r.w - 1 /\ p[2] \in 0 .. r.h - 1
  BY DEF Area
<1>4. r.x \in Nat /\ r.y \in Nat /\ r.w \in Nat /\ r.h \in Nat /\ w \in Nat /\ h \in Nat
  BY WidthsAssumption DEF Regions, U16
<1>5. <<p[1] + r.x, p[2] + r.y>> \in Area(w, h)
  BY <1>1, <1>3, <1>4 DEF Area, Contains, FitsIn
<1> QED
  BY <1>1, <1>5 DEF Bitmaps

LEMMA RepeatedPixelType ==
  ASSUME NEW w, NEW h, NEW color \in Colors
  PROVE  RepeatedPixel(color, w, h) \in Bitmaps(w, h)
  BY DEF RepeatedPixel, Bitmaps

LEMMA NewSurfaceType ==
  ASSUME NEW size \in SurfaceSizes
  PROVE  IsSurface(NewSurface(size))
<1>1. size.w \in U16 /\ size.h \in U16
  BY PduAssumption
<1>2. RepeatedPixel(Black, size.w, size.h) \in Bitmaps(size.w, size.h)
  BY RepeatedPixelType, ColorsAssumption
<1> QED
  BY <1>1, <1>2, PduAssumption DEF NewSurface, IsSurface, HoldsBitmap

LEMMA FromRectangleType ==
  ASSUME NEW rect \in Rectangles, IsRegion(rect)
  PROVE  FromRectangle(rect) \in Regions
<1>1. rect \in [left : U16, top : U16, right : U16, bottom : U16]
  BY PduAssumption
<1> QED
  BY <1>1, WidthsAssumption DEF FromRectangle, Regions, IsRegion, U16

LEMMA VideoRegionType ==
  ASSUME NEW rect \in Rectangles
  PROVE  VideoRegion(rect) \in Regions
<1>1. rect \in [left : U16, top : U16, right : U16, bottom : U16]
  BY PduAssumption
<1> QED
  BY <1>1, WidthsAssumption DEF VideoRegion, Regions, SaturatingSub, U16

\* A tile's region has coordinates of the right width and a size of at most
\* TileSize, so that cropping the tile to it is defined.
LEMMA TileRegionType ==
  ASSUME NEW tile \in Tiles, NEW w \in U16, NEW h \in U16
  PROVE  /\ TileRegion(tile, w, h) \in Regions
         /\ TileRegion(tile, w, h).w <= TileSize
         /\ TileRegion(tile, w, h).h <= TileSize
<1>1. tile.x \in Nat /\ tile.y \in Nat
  BY PduAssumption, WidthsAssumption DEF U16
<1>2. tile.x * TileSize \in Nat /\ tile.y * TileSize \in Nat
  BY <1>1, WidthsAssumption
<1>3. w \in Nat /\ h \in Nat /\ MaxU16 \in Nat /\ TileSize \in Nat /\ w <= MaxU16 /\ h <= MaxU16
  BY WidthsAssumption DEF U16
<1> DEFINE x == Smaller(tile.x * TileSize, MaxU16)
           y == Smaller(tile.y * TileSize, MaxU16)
<1>4. x \in U16 /\ y \in U16
  BY <1>2, <1>3 DEF Smaller, U16
<1>5. /\ Smaller(SaturatingSub(w, x), TileSize) \in U16
      /\ Smaller(SaturatingSub(h, y), TileSize) \in U16
      /\ Smaller(SaturatingSub(w, x), TileSize) <= TileSize
      /\ Smaller(SaturatingSub(h, y), TileSize) <= TileSize
  <2> HIDE DEF x, y
  <2> QED
    BY <1>3, <1>4 DEF Smaller, SaturatingSub, U16
<1> QED
  BY <1>4, <1>5 DEF TileRegion, Regions

-----------------------------------------------------------------------------
(* The channel. *)

LEMMA ChannelIsSeq ==
  ASSUME ChannelOK
  PROVE  tx \in Seq({tx[i] : i \in 1 .. Len(tx)})
  BY SeqDef, BoundsAssumption DEF ChannelOK

\* Sending keeps what is queued and puts the event behind it.
LEMMA SendAppends ==
  ASSUME ChannelOK, NEW e, tx' = Append(tx, e)
  PROVE  /\ Len(tx') = Len(tx) + 1
         /\ \A i \in 1 .. Len(tx) : tx'[i] = tx[i]
         /\ tx'[Len(tx) + 1] = e
         /\ tx' = [i \in 1 .. Len(tx') |-> tx'[i]]
<1> DEFINE S == {tx[i] : i \in 1 .. Len(tx)} \cup {e}
<1>1. tx \in Seq(S)
  BY ChannelIsSeq, SeqMonotonic
<1>2. e \in S
  OBVIOUS
<1> HIDE DEF S
<1>3. Append(tx, e) \in Seq(S)
  BY <1>1, <1>2, AppendProperties
<1>4. tx' = [i \in 1 .. Len(tx') |-> tx'[i]]
  BY <1>3, LenProperties
<1>5. /\ Len(Append(tx, e)) = Len(tx) + 1
      /\ \A i \in 1 .. Len(tx) : Append(tx, e)[i] = tx[i]
      /\ Append(tx, e)[Len(tx) + 1] = e
  BY <1>1, <1>2, AppendProperties
<1> QED
  BY <1>4, <1>5

\* Receiving takes the first event and keeps the others in order.
LEMMA ReceiveShifts ==
  ASSUME ChannelOK, tx # <<>>, tx' = Tail(tx)
  PROVE  /\ Len(tx') = Len(tx) - 1
         /\ \A i \in 1 .. Len(tx') : tx'[i] = tx[i + 1]
         /\ tx' = [i \in 1 .. Len(tx') |-> tx'[i]]
         /\ Head(tx) = tx[1]
<1> DEFINE S == {tx[i] : i \in 1 .. Len(tx)}
<1>1. tx \in Seq(S)
  BY ChannelIsSeq
<1> HIDE DEF S
<1>2. /\ Tail(tx) \in Seq(S)
      /\ Len(Tail(tx)) = Len(tx) - 1
      /\ \A i \in 1 .. Len(Tail(tx)) : Tail(tx)[i] = tx[i + 1]
  BY <1>1, HeadTailProperties
<1>3. tx' = [i \in 1 .. Len(tx') |-> tx'[i]]
  BY <1>2, LenProperties
<1> QED
  BY <1>1, <1>2, <1>3

\* Sending an event keeps the channel well typed.
LEMMA SendType ==
  ASSUME ChannelOK, CanSend, NEW e, IsEvent(e), Send(e), UNCHANGED rxOpen
  PROVE  ChannelOK'
<1>1. CASE ~rxOpen
  BY <1>1 DEF ChannelOK, Send
<1>2. CASE rxOpen
  <2>1. tx' = Append(tx, e)
    BY <1>2 DEF Send
  <2>2. /\ Len(tx') = Len(tx) + 1
        /\ \A i \in 1 .. Len(tx) : tx'[i] = tx[i]
        /\ tx'[Len(tx) + 1] = e
        /\ tx' = [i \in 1 .. Len(tx') |-> tx'[i]]
    BY <2>1, SendAppends
  <2>3. \A i \in 1 .. Len(tx') : IsEvent(tx'[i])
    BY <2>2 DEF ChannelOK
  <2> QED
    BY <2>2, <2>3, BoundsAssumption DEF ChannelOK, CanSend
<1> QED
  BY <1>1, <1>2

LEMMA SendControlType ==
  ASSUME ChannelOK,
         NEW kind \in {"status", "egfxNegotiated", "resize", "warning"},
         SendControl(kind)
  PROVE  ChannelOK'
<1>1. IsEvent(Control(kind))
  BY DEF IsEvent, Control, ControlEvents
<1> QED
  BY <1>1, SendType DEF SendControl

\* next_timestamp_us is later than every stamp before it.
LEMMA NextTimestampType ==
  ASSUME CountersOK, lastTimestamp < MaxTime
  PROVE  NextTimestamp \in 0 .. MaxTime /\ lastTimestamp < NextTimestamp
  BY BoundsAssumption DEF CountersOK, NextTimestamp

LEMMA SendVideoType ==
  ASSUME ChannelOK, CountersOK, CanSendVideo,
         NEW codec \in Codecs, NEW sid \in SurfaceIds, NEW r \in Regions,
         NEW origin \in Origins, NEW data,
         codec \in RgbaCodecs => data \in Bitmaps(r.w, r.h),
         SendVideo(codec, sid, r, origin, data)
  PROVE  ChannelOK' /\ clock' = clock /\ lastTimestamp' \in 0 .. MaxTime
<1> DEFINE e == [type |-> "video", codec |-> codec, ts |-> NextTimestamp,
                 sid |-> sid, region |-> r, origin |-> origin, data |-> data]
<1>1. NextTimestamp \in 0 .. MaxTime
  BY NextTimestampType DEF CanSendVideo
<1>2. IsEvent(e)
  BY <1>1 DEF IsEvent
<1>3. Send(e) /\ UNCHANGED rxOpen
  BY DEF SendVideo
<1> HIDE DEF e
<1> QED
  BY <1>1, <1>2, <1>3, SendType DEF CanSendVideo, SendVideo

-----------------------------------------------------------------------------
(* Drawing. *)

\* blit_and_send keeps the store, the channel and the stamps well typed.
LEMMA BlitAndSendType ==
  ASSUME SurfacesOK, ChannelOK, CountersOK,
         NEW codec \in RgbaCodecs, NEW sid \in SurfaceIds, NEW r \in Regions,
         NEW data \in Bitmaps(r.w, r.h),
         BlitAndSend(codec, sid, r, data)
  PROVE  /\ SurfacesOK'
         /\ ChannelOK'
         /\ clock' = clock /\ lastTimestamp' \in 0 .. MaxTime
<1>1. CASE ~Accepts(sid, r, data)
  BY <1>1 DEF BlitAndSend, SurfacesOK, ChannelOK, CountersOK, channel, stamps
<1>2. CASE Accepts(sid, r, data)
  <2>1. /\ surfaces' = [surfaces EXCEPT ![sid].pixels = Blit(@, r, data)]
        /\ SendVideo(codec, sid, r, surfaces[sid].origin, data)
        /\ CanSendVideo
        /\ sid \in DOMAIN surfaces
    BY <1>2 DEF BlitAndSend, Accepts
  <2>2. IsSurface(surfaces[sid])
    BY <2>1 DEF SurfacesOK
  <2>3. Blit(surfaces[sid].pixels, r, data) \in Bitmaps(surfaces[sid].w, surfaces[sid].h)
    BY <2>2, BlitType DEF IsSurface, HoldsBitmap
  <2>4. IsSurface([surfaces[sid] EXCEPT !.pixels = Blit(@, r, data)])
    BY <2>2, <2>3 DEF IsSurface, HoldsBitmap
  <2>5. SurfacesOK'
    BY <2>1, <2>4 DEF SurfacesOK
  <2>6. surfaces[sid].origin \in Origins
    BY <2>2 DEF IsSurface
  <2> QED
    BY <2>1, <2>5, <2>6, SendVideoType DEF RgbaCodecs
<1> QED
  BY <1>1, <1>2

-----------------------------------------------------------------------------
(* Type correctness. *)

LEMMA CapturedType ==
  ASSUME SurfacesOK, NEW sid, NEW rect \in Rectangles, CanExtract(sid, rect)
  PROVE  IsCachedBitmap(CapturedBitmap(sid, rect))
<1> DEFINE r == FromRectangle(rect)
<1>1. r \in Regions /\ IsSurface(surfaces[sid]) /\ Contains(surfaces[sid], r)
  BY FromRectangleType DEF CanExtract, SurfacesOK
<1>2. Extract(surfaces[sid], r) \in Bitmaps(r.w, r.h)
  BY <1>1, ExtractType
<1>3. r.w \in U16 /\ r.h \in U16
  BY <1>1 DEF Regions
<1> HIDE DEF r
<1>4. CapturedBitmap(sid, rect) = [w |-> r.w, h |-> r.h, pixels |-> Extract(surfaces[sid], r)]
  BY DEF CapturedBitmap, r
<1> QED
  BY <1>2, <1>3, <1>4 DEF IsCachedBitmap, HoldsBitmap

LEMMA CopyLoopType ==
  ASSUME NEW sid \in SurfaceIds, NEW b, IsCachedBitmap(b)
  PROVE  IsLoop(CopyLoop(sid, b))
<1>1. IsCopyLoop(CopyLoop(sid, b))
  BY DEF IsCachedBitmap, IsCopyLoop, CopyLoop, HoldsBitmap
<1> QED
  BY <1>1 DEF IsLoop, CopyLoop

THEOREM TypeInit == Init => EgfxTypeOK
<1> SUFFICES ASSUME Init PROVE EgfxTypeOK
  OBVIOUS
<1>1. ChannelOK
  BY BoundsAssumption DEF Init, ChannelOK
<1>2. ControlOK
  BY DEF Init, ControlOK, IsLoop
<1>3. SurfacesOK /\ CacheOK
  BY DEF Init, SurfacesOK, CacheOK, EmptyMap
<1>4. CountersOK
  BY WidthsAssumption, BoundsAssumption DEF Init, CountersOK
<1> QED
  BY <1>1, <1>2, <1>3, <1>4 DEF Init, EgfxTypeOK

\* Drawing steps: every iteration of a loop, and a ClearCodec bitmap.
LEMMA DrawType ==
  ASSUME EgfxTypeOK,
         NEW codec \in RgbaCodecs, NEW sid \in SurfaceIds, NEW r \in Regions,
         NEW data \in Bitmaps(r.w, r.h),
         BlitAndSend(codec, sid, r, data),
         UNCHANGED <<phase, cache, frames, warned, loop, acks>>
  PROVE  EgfxTypeOK'
<1>1. SurfacesOK' /\ ChannelOK' /\ clock' = clock /\ lastTimestamp' \in 0 .. MaxTime
  BY BlitAndSendType DEF EgfxTypeOK
<1>2. ControlOK'
  BY DEF EgfxTypeOK, ControlOK
<1>3. CacheOK'
  BY DEF EgfxTypeOK, CacheOK
<1>4. CountersOK'
  BY <1>1 DEF EgfxTypeOK, CountersOK, frames
<1> QED
  BY <1>1, <1>2, <1>3, <1>4 DEF EgfxTypeOK, frames

LEMMA FillRectangleType ==
  ASSUME EgfxTypeOK, NEW rect \in Rectangles, FillRectangle(rect)
  PROVE  EgfxTypeOK'
<1>1. CASE IsRegion(rect)
  <2> DEFINE r == FromRectangle(rect)
  <2>1. r \in Regions
    BY <1>1, FromRectangleType
  <2>2. loop.sid \in SurfaceIds /\ loop.color \in Colors
    BY DEF FillRectangle, EgfxTypeOK, ControlOK, IsLoop, NoLoop
  <2>3. RepeatedPixel(loop.color, r.w, r.h) \in Bitmaps(r.w, r.h)
    BY <2>2, RepeatedPixelType
  <2>4. BlitAndSend("SurfaceCommand", loop.sid, r, RepeatedPixel(loop.color, r.w, r.h))
    BY <1>1 DEF FillRectangle
  <2>5. "SurfaceCommand" \in RgbaCodecs
    BY DEF RgbaCodecs, Codecs
  <2> HIDE DEF r
  <2> QED
    BY <2>1, <2>2, <2>3, <2>4, <2>5, DrawType DEF FillRectangle
<1>2. CASE ~IsRegion(rect)
  BY <1>2 DEF FillRectangle, EgfxTypeOK, ControlOK, SurfacesOK, CacheOK, CountersOK,
              ChannelOK, channel, stamps, frames
<1> QED
  BY <1>1, <1>2

LEMMA CopyToPointType ==
  ASSUME EgfxTypeOK, NEW point \in Points, CopyToPoint(point)
  PROVE  EgfxTypeOK'
<1> DEFINE r == [x |-> point.x, y |-> point.y, w |-> loop.w, h |-> loop.h]
<1>1. loop.sid \in SurfaceIds /\ HoldsBitmap(loop)
  BY DEF CopyToPoint, EgfxTypeOK, ControlOK, IsLoop, IsCopyLoop, NoLoop
<1>2. r \in Regions /\ loop.pixels \in Bitmaps(r.w, r.h)
  BY <1>1, PduAssumption DEF HoldsBitmap, Regions
<1>3. "SurfaceCommand" \in RgbaCodecs
  BY DEF RgbaCodecs, Codecs
<1>4. /\ BlitAndSend("SurfaceCommand", loop.sid, r, loop.pixels)
      /\ UNCHANGED <<phase, cache, frames, warned, loop, acks>>
  BY DEF CopyToPoint
<1> HIDE DEF r
<1> QED
  BY <1>1, <1>2, <1>3, <1>4, DrawType

LEMMA DrawTileType ==
  ASSUME EgfxTypeOK, NEW tile \in Tiles, NEW pixels \in Bitmaps(TileSize, TileSize),
         DrawTile(tile, pixels)
  PROVE  EgfxTypeOK'
<1> DEFINE r == TileRegion(tile, loop.w, loop.h)
           cropped == [p \in Area(r.w, r.h) |-> pixels[p]]
<1>1. loop.sid \in SurfaceIds /\ loop.w \in U16 /\ loop.h \in U16
  BY DEF DrawTile, EgfxTypeOK, ControlOK, IsLoop, NoLoop
<1>2. r \in Regions /\ r.w <= TileSize /\ r.h <= TileSize
  BY <1>1, TileRegionType
<1>3. /\ BlitAndSend("Progressive", loop.sid, r, cropped)
      /\ UNCHANGED <<phase, cache, frames, warned, loop, acks>>
  BY DEF DrawTile
<1>4. "Progressive" \in RgbaCodecs
  BY DEF RgbaCodecs, Codecs
<1>5. cropped \in Bitmaps(r.w, r.h)
  <2> HIDE DEF r
  <2>1. r.w \in Nat /\ r.h \in Nat
    BY <1>2, WidthsAssumption DEF Regions, U16
  <2>2. Area(r.w, r.h) \subseteq Area(TileSize, TileSize)
    BY <1>2, <2>1, WidthsAssumption DEF Area
  <2> QED
    BY <2>2 DEF Bitmaps
<1> HIDE DEF r, cropped
<1> QED
  BY <1>1, <1>2, <1>3, <1>4, <1>5, DrawType

LEMMA ClearCodecType ==
  ASSUME EgfxTypeOK, NEW sid \in SurfaceIds, NEW rect \in Rectangles, IsRegion(rect),
         NEW pixels \in Bitmaps(rect.right - rect.left, rect.bottom - rect.top),
         ClearCodec(sid, rect, pixels)
  PROVE  EgfxTypeOK'
<1> DEFINE r == FromRectangle(rect)
<1>1. r \in Regions
  BY FromRectangleType
<1>2. pixels \in Bitmaps(r.w, r.h)
  BY DEF FromRectangle
<1>3. "ClearCodec" \in RgbaCodecs
  BY DEF RgbaCodecs, Codecs
<1>4. /\ BlitAndSend("ClearCodec", sid, r, pixels)
      /\ UNCHANGED <<phase, cache, frames, warned, loop, acks>>
  BY DEF ClearCodec, Handling
<1> HIDE DEF r
<1> QED
  BY <1>1, <1>2, <1>3, <1>4, DrawType

\* Every step of the channel keeps it well typed.
LEMMA TypeStep == EgfxTypeOK /\ [Next]_vars => EgfxTypeOK'
<1> SUFFICES ASSUME EgfxTypeOK, [Next]_vars
             PROVE  EgfxTypeOK'
  OBVIOUS
<1> USE DEF store, frames, stamps, channel
<1>1. CASE Start
  <2>1. ChannelOK'
    BY <1>1, SendControlType DEF Start, EgfxTypeOK
  <2> QED
    BY <1>1, <2>1 DEF Start, EgfxTypeOK, ControlOK, SurfacesOK, CacheOK, CountersOK
<1>2. CASE Process
  BY <1>2 DEF Process, EgfxTypeOK, ControlOK, SurfacesOK, CacheOK, CountersOK, ChannelOK
<1>3. CASE ProcessMalformed
  BY <1>3 DEF ProcessMalformed, EgfxTypeOK, ControlOK, SurfacesOK, CacheOK, CountersOK, ChannelOK
<1>4. CASE Finish
  <2>1. acks' \in Seq(Acks) /\ responses' \in Seq(Acks)
    BY <1>4, ConcatProperties DEF Finish, EgfxTypeOK
  <2> QED
    BY <1>4, <2>1 DEF Finish, EgfxTypeOK, ControlOK, SurfacesOK, CacheOK, CountersOK, ChannelOK
<1>5. CASE Close
  <2>1. ChannelOK'
    BY <1>5, SendControlType DEF Close, EgfxTypeOK
  <2> QED
    BY <1>5, <2>1 DEF Close, EgfxTypeOK, ControlOK, SurfacesOK, CacheOK, CountersOK
<1>6. CASE CapabilitiesConfirm
  <2>1. ChannelOK'
    BY <1>6, SendControlType DEF CapabilitiesConfirm, EgfxTypeOK
  <2> QED
    BY <1>6, <2>1 DEF CapabilitiesConfirm, Handling, EgfxTypeOK, ControlOK, SurfacesOK, CacheOK, CountersOK
<1>7. CASE ResetGraphics
  <2>1. ChannelOK'
    BY <1>7, SendControlType DEF ResetGraphics, EgfxTypeOK
  <2>2. SurfacesOK'
    BY <1>7 DEF ResetGraphics, SurfacesOK, EmptyMap
  <2> QED
    BY <1>7, <2>1, <2>2 DEF ResetGraphics, Handling, EgfxTypeOK, ControlOK, CacheOK, CountersOK
<1>8. CASE StartFrame
  <2>1. CountersOK'
    BY <1>8, WidthsAssumption DEF StartFrame, EgfxTypeOK, CountersOK, Smaller
  <2> QED
    BY <1>8, <2>1 DEF StartFrame, Handling, EgfxTypeOK, ControlOK, SurfacesOK, CacheOK, ChannelOK
<1>9. CASE UnsupportedCodec
  <2>1. ChannelOK'
    BY <1>9, SendControlType DEF UnsupportedCodec, EgfxTypeOK, ChannelOK
  <2> QED
    BY <1>9, <2>1 DEF UnsupportedCodec, Handling, EgfxTypeOK, ControlOK, SurfacesOK, CacheOK, CountersOK
<1>10. CASE Avc420Malformed
  BY <1>10 DEF Avc420Malformed, EgfxTypeOK, ControlOK, SurfacesOK, CacheOK, CountersOK, ChannelOK
<1>11. CASE IgnoredPdu
  BY <1>11 DEF IgnoredPdu, Handling, EgfxTypeOK, ControlOK, SurfacesOK, CacheOK, CountersOK, ChannelOK
<1>12. ASSUME NEW id \in FrameIds, EndFrame(id)
       PROVE  EgfxTypeOK'
  <2>1. CountersOK'
    BY <1>12, WidthsAssumption DEF EndFrame, EgfxTypeOK, CountersOK, SaturatingSub
  <2>2. [depth |-> queuedFrames', frame |-> id, total |-> totalFrames'] \in Acks
    BY <2>1 DEF CountersOK, Acks
  <2>3. responses' \in Seq(Acks)
    BY <1>12, <2>2, AppendProperties DEF EndFrame, EgfxTypeOK
  <2> QED
    BY <1>12, <2>1, <2>3 DEF EndFrame, Handling, EgfxTypeOK, ControlOK, SurfacesOK, CacheOK, ChannelOK
<1>13. ASSUME NEW sid \in SurfaceIds, DeleteSurface(sid)
       PROVE  EgfxTypeOK'
  <2>1. SurfacesOK'
    BY <1>13 DEF DeleteSurface, Remove, EgfxTypeOK, SurfacesOK
  <2> QED
    BY <1>13, <2>1 DEF DeleteSurface, Handling, EgfxTypeOK, ControlOK, CacheOK, CountersOK, ChannelOK
<1>14. ASSUME NEW sid \in SurfaceIds, Progressive(sid)
       PROVE  EgfxTypeOK'
  <2>1. sid \in DOMAIN surfaces => surfaces[sid].w \in U16 /\ surfaces[sid].h \in U16
    BY DEF EgfxTypeOK, SurfacesOK, IsSurface, HoldsBitmap
  <2>2. IsLoop(loop')
    BY <1>14, <2>1 DEF Progressive, EgfxTypeOK, ControlOK, IsLoop
  <2> QED
    BY <1>14, <2>2 DEF Progressive, Handling, EgfxTypeOK, ControlOK, SurfacesOK, CacheOK, CountersOK, ChannelOK
<1>15. ASSUME NEW sid \in SurfaceIds, NEW size \in SurfaceSizes, CreateSurface(sid, size)
       PROVE  EgfxTypeOK'
  <2> DEFINE new == NewSurface(size)
  <2>1. surfaces' = Insert(surfaces, sid, new) /\ IsSurface(new)
    BY <1>15, NewSurfaceType DEF CreateSurface
  <2> HIDE DEF new
  <2>2. SurfacesOK'
    <3>1. surfaces' = [x \in DOMAIN surfaces' |-> surfaces'[x]]
      BY <2>1 DEF Insert
    <3>2. /\ DOMAIN surfaces' = DOMAIN surfaces \cup {sid}
          /\ surfaces'[sid] = new
          /\ \A x \in DOMAIN surfaces \ {sid} : surfaces'[x] = surfaces[x]
      BY <2>1 DEF Insert
    <3> QED
      BY <2>1, <3>1, <3>2 DEF EgfxTypeOK, SurfacesOK
  <2> QED
    BY <1>15, <2>2 DEF CreateSurface, Handling, EgfxTypeOK, ControlOK, CacheOK, CountersOK, ChannelOK
<1>16. ASSUME NEW sid \in SurfaceIds, NEW origin \in Origins, MapSurfaceToOutput(sid, origin)
       PROVE  EgfxTypeOK'
  <2>1. ASSUME sid \in DOMAIN surfaces
        PROVE  IsSurface([surfaces[sid] EXCEPT !.origin = origin])
    BY <2>1 DEF EgfxTypeOK, SurfacesOK, IsSurface, HoldsBitmap
  <2>2. SurfacesOK'
    BY <1>16, <2>1 DEF MapSurfaceToOutput, EgfxTypeOK, SurfacesOK
  <2> QED
    BY <1>16, <2>2 DEF MapSurfaceToOutput, Handling, EgfxTypeOK, ControlOK, CacheOK, CountersOK, ChannelOK
<1>17. ASSUME NEW sid \in SurfaceIds, NEW color \in Colors, SolidFill(sid, color)
       PROVE  EgfxTypeOK'
  <2>1. IsLoop(loop')
    BY <1>17 DEF SolidFill, IsLoop
  <2> QED
    BY <1>17, <2>1 DEF SolidFill, Handling, EgfxTypeOK, ControlOK, SurfacesOK, CacheOK, CountersOK, ChannelOK
<1>18. ASSUME NEW sid \in SurfaceIds, NEW rect \in Rectangles, Avc420(sid, rect)
       PROVE  EgfxTypeOK'
  <2> DEFINE origin == IF sid \in DOMAIN surfaces THEN surfaces[sid].origin ELSE NoOrigin
  <2>1. origin \in Origins
    BY PduAssumption DEF EgfxTypeOK, SurfacesOK, IsSurface
  <2>2. CanSendVideo /\ SendVideo("Avc420", sid, VideoRegion(rect), origin, EmptyMap)
    BY <1>18 DEF Avc420
  <2>3. "Avc420" \in Codecs /\ "Avc420" \notin RgbaCodecs
    BY DEF Codecs, RgbaCodecs
  <2> HIDE DEF origin
  <2>4. ChannelOK' /\ clock' = clock /\ lastTimestamp' \in 0 .. MaxTime
    BY <2>1, <2>2, <2>3, VideoRegionType, SendVideoType DEF EgfxTypeOK
  <2> QED
    BY <1>18, <2>4 DEF Avc420, Handling, EgfxTypeOK, ControlOK, SurfacesOK, CacheOK, CountersOK
<1>19. ASSUME NEW sid \in SurfaceIds, NEW rect \in Rectangles, NEW dest \in SurfaceIds,
              SurfaceToSurface(sid, rect, dest)
       PROVE  EgfxTypeOK'
  <2>1. IsLoop(loop')
    BY <1>19, CapturedType, CopyLoopType DEF SurfaceToSurface, EgfxTypeOK, ControlOK
  <2> QED
    BY <1>19, <2>1 DEF SurfaceToSurface, Handling, EgfxTypeOK, ControlOK, SurfacesOK, CacheOK, CountersOK, ChannelOK
<1>20. ASSUME NEW sid \in SurfaceIds, NEW rect \in Rectangles, NEW slot \in Slots,
              SurfaceToCache(sid, rect, slot)
       PROVE  EgfxTypeOK'
  <2>1. CacheOK'
    BY <1>20, CapturedType DEF SurfaceToCache, EgfxTypeOK, CacheOK, Insert
  <2> QED
    BY <1>20, <2>1 DEF SurfaceToCache, Handling, EgfxTypeOK, ControlOK, SurfacesOK, CountersOK, ChannelOK
<1>21. ASSUME NEW slot \in Slots, EvictCacheEntry(slot)
       PROVE  EgfxTypeOK'
  <2>1. CacheOK'
    BY <1>21 DEF EvictCacheEntry, Remove, EgfxTypeOK, CacheOK
  <2> QED
    BY <1>21, <2>1 DEF EvictCacheEntry, Handling, EgfxTypeOK, ControlOK, SurfacesOK, CountersOK, ChannelOK
<1>22. ASSUME NEW slot \in Slots, NEW dest \in SurfaceIds, CacheToSurface(slot, dest)
       PROVE  EgfxTypeOK'
  <2>1. IsLoop(loop')
    BY <1>22, CopyLoopType DEF CacheToSurface, EgfxTypeOK, ControlOK, CacheOK
  <2> QED
    BY <1>22, <2>1 DEF CacheToSurface, Handling, EgfxTypeOK, ControlOK, SurfacesOK, CacheOK, CountersOK, ChannelOK
<1>23. CASE Iterate
  <2>1. CASE LoopDone
    BY <2>1 DEF LoopDone, EgfxTypeOK, ControlOK, IsLoop, SurfacesOK, CacheOK, CountersOK, ChannelOK
  <2> QED
    BY <1>23, <2>1, FillRectangleType, CopyToPointType, DrawTileType DEF Iterate
<1>24. CASE Tick
  BY <1>24, BoundsAssumption DEF Tick, EgfxTypeOK, ControlOK, SurfacesOK, CacheOK, CountersOK, ChannelOK
<1>25. CASE Receive
  <2>1. ChannelOK'
    <3>1. /\ Len(tx') = Len(tx) - 1
          /\ \A i \in 1 .. Len(tx') : tx'[i] = tx[i + 1]
          /\ tx' = [i \in 1 .. Len(tx') |-> tx'[i]]
      BY <1>25, ReceiveShifts DEF Receive, EgfxTypeOK
    <3>2. Len(tx) # 0
      BY <1>25, ChannelIsSeq, EmptySeq DEF Receive, EgfxTypeOK
    <3> QED
      BY <1>25, <3>1, <3>2, BoundsAssumption DEF Receive, EgfxTypeOK, ChannelOK
  <2> QED
    BY <1>25, <2>1 DEF Receive, EgfxTypeOK, ControlOK, SurfacesOK, CacheOK, CountersOK
<1>26. CASE ReceiverDropped
  <2>1. tx' = <<>> /\ rxOpen' = FALSE
    BY <1>26 DEF ReceiverDropped
  <2>2. ChannelOK'
    <3>1. Len(tx') = 0 /\ 1 .. Len(tx') = {}
      BY <2>1
    <3>2. tx' = [i \in 1 .. Len(tx') |-> tx'[i]]
      BY <2>1, <3>1
    <3>3. Len(tx') \in 0 .. MaxEvents
      BY <3>1, BoundsAssumption
    <3>4. \A i \in 1 .. Len(tx') : IsEvent(tx'[i])
      BY <3>1
    <3> QED
      BY <2>1, <3>2, <3>3, <3>4 DEF ChannelOK
  <2> QED
    BY <1>26, <2>2 DEF ReceiverDropped, EgfxTypeOK, ControlOK, SurfacesOK, CacheOK, CountersOK
<1>27. CASE UNCHANGED vars
  BY <1>27 DEF vars, EgfxTypeOK, ControlOK, SurfacesOK, CacheOK, CountersOK, ChannelOK
<1>28. CASE HandlePdu
  BY <1>28, <1>6, <1>7, <1>8, <1>9, <1>10, <1>11, <1>12, <1>13, <1>14, <1>15, <1>16,
     <1>17, <1>18, <1>19, <1>20, <1>21, <1>22, ClearCodecType DEF HandlePdu
<1> QED
  BY <1>1, <1>2, <1>3, <1>4, <1>5, <1>23, <1>24, <1>25, <1>26, <1>27, <1>28 DEF Next

\* The channel is always well typed.
THEOREM TypeCorrect == Spec => []EgfxTypeOK
  BY TypeInit, TypeStep, PTL DEF Spec

-----------------------------------------------------------------------------
(* The history constrains nothing, so that what holds of Egfx holds here. *)

LEMMA HistoryStep == [HNext]_hvars => [Next]_vars
<1> SUFFICES ASSUME HNext PROVE Next
  BY DEF hvars, vars
<1> USE DEF Next, HandlePdu, Iterate
<1>1. CASE \E sid \in SurfaceIds, size \in SurfaceSizes : HCreateSurface(sid, size)
  BY <1>1 DEF HCreateSurface
<1>2. CASE \E sid \in SurfaceIds : HDeleteSurface(sid)
  BY <1>2 DEF HDeleteSurface
<1>3. CASE HResetGraphics
  BY <1>3 DEF HResetGraphics
<1>4. CASE HStartFrame
  BY <1>4 DEF HStartFrame
<1>5. CASE \E id \in FrameIds : HEndFrame(id)
  BY <1>5 DEF HEndFrame
<1>6. CASE HReceive
  BY <1>6 DEF HReceive
<1>7. CASE \E sid, dest \in SurfaceIds, rect \in Rectangles : HSurfaceToSurface(sid, rect, dest)
  BY <1>7 DEF HSurfaceToSurface
<1>8. CASE \E point \in Points : HCopyToPoint(point)
  BY <1>8 DEF HCopyToPoint
<1>9. CASE HLoopDone
  BY <1>9 DEF HLoopDone
<1>10. CASE HOtherDraw
  BY <1>10 DEF OtherDraw, HOtherDraw
<1>11. CASE HQuiet
  BY <1>11 DEF Quiet, HQuiet
<1> QED
  BY <1>1, <1>2, <1>3, <1>4, <1>5, <1>6, <1>7, <1>8, <1>9, <1>10, <1>11 DEF HNext

\* The history adds no behaviour: every behaviour of EgfxHistory is one of Egfx.
THEOREM HistoryIsEgfx == HSpec => Spec
<1>1. HInit => Init
  BY DEF HInit
<1> QED
  BY <1>1, HistoryStep, PTL DEF HSpec, Spec

\* What the history variables become in a step of Egfx: p is for painted, r for
\* received, e for ended, b for bracket and c for copy.
Noting(p, r, e, b, c) ==
  \/ \E sid \in SurfaceIds, size \in SurfaceSizes :
       /\ CreateSurface(sid, size)
       /\ p = Insert(painted, sid, RepeatedPixel(Black, size.w, size.h))
       /\ <<r, e, b, c>> = <<received, ended, bracket, copy>>
  \/ \E sid \in SurfaceIds :
       /\ DeleteSurface(sid)
       /\ p = Remove(painted, sid)
       /\ <<r, e, b, c>> = <<received, ended, bracket, copy>>
  \/ /\ ResetGraphics
     /\ p = EmptyMap
     /\ <<r, e, b, c>> = <<received, ended, bracket, copy>>
  \/ /\ StartFrame
     /\ b = IF bracket = "out" THEN "in" ELSE "broken"
     /\ <<p, r, e, c>> = <<painted, received, ended, copy>>
  \/ \E id \in FrameIds :
       /\ EndFrame(id)
       /\ e = Append(ended, id)
       /\ b = IF bracket = "in" THEN "out" ELSE "broken"
       /\ <<p, r, c>> = <<painted, received, copy>>
  \/ /\ Receive
     /\ r = IF IsVideo(Head(tx)) THEN Head(tx).ts ELSE received
     /\ <<p, e, b, c>> = <<painted, ended, bracket, copy>>
  \/ \E sid, dest \in SurfaceIds, rect \in Rectangles :
       /\ SurfaceToSurface(sid, rect, dest)
       /\ c = IF loop' = NoLoop THEN copy
              ELSE [on |-> TRUE, before |-> surfaces, source |-> sid,
                    from |-> [x |-> rect.left, y |-> rect.top],
                    dest |-> dest, placed |-> <<>>]
       /\ <<p, r, e, b>> = <<painted, received, ended, bracket>>
  \/ \E point \in Points :
       /\ CopyToPoint(point)
       /\ p = IF SentEvent THEN Paint(LastSent) ELSE painted
       /\ c = IF copy.on /\ lastTimestamp' # lastTimestamp
              THEN [copy EXCEPT !.placed = Append(@, point)]
              ELSE copy
       /\ <<r, e, b>> = <<received, ended, bracket>>
  \/ /\ LoopDone
     /\ c = NoCopy
     /\ <<p, r, e, b>> = <<painted, received, ended, bracket>>
  \/ /\ OtherDraw
     /\ p = IF SentEvent THEN Paint(LastSent) ELSE painted
     /\ <<r, e, b, c>> = <<received, ended, bracket, copy>>
  \/ /\ Quiet
     /\ <<p, r, e, b, c>> = <<painted, received, ended, bracket, copy>>

LEMMA NotingIsHNext == HNext <=> Noting(painted', received', ended', bracket', copy')
  BY Zenon DEF HNext, Noting, HCreateSurface, HDeleteSurface, HResetGraphics, HStartFrame,
     HEndFrame, HReceive, HSurfaceToSurface, HCopyToPoint, HLoopDone, HOtherDraw, HQuiet

\* The history takes no behaviour away either: it starts with values that Init does
\* not speak of, HNext gives its variables the values of Noting and leaves the rest
\* to Egfx, and for each step of the channel, from any state and whatever the
\* history is in it, there are such values (one PDU after the other).
THEOREM HistoryIsFree ==
  /\ HInit <=> /\ Init
              /\ <<painted, received, ended, bracket, copy>>
                   = <<EmptyMap, 0, <<>>, "out", NoCopy>>
  /\ HNext <=> Noting(painted', received', ended', bracket', copy')
  /\ Next => \E p, r, e, b, c : Noting(p, r, e, b, c)
<1>1. HInit <=> /\ Init
                /\ <<painted, received, ended, bracket, copy>>
                     = <<EmptyMap, 0, <<>>, "out", NoCopy>>
  BY DEF HInit
<1>2. ASSUME Next PROVE \E p, r, e, b, c : Noting(p, r, e, b, c)
  <2>1. ASSUME NEW sid \in SurfaceIds, NEW size \in SurfaceSizes, CreateSurface(sid, size)
        PROVE  \E p, r, e, b, c : Noting(p, r, e, b, c)
    BY <2>1, Zenon DEF Noting
  <2>2. ASSUME NEW sid \in SurfaceIds, DeleteSurface(sid)
        PROVE  \E p, r, e, b, c : Noting(p, r, e, b, c)
    BY <2>2, Zenon DEF Noting
  <2>3. CASE ResetGraphics
    BY <2>3, Zenon DEF Noting
  <2>4. CASE StartFrame
    BY <2>4, Zenon DEF Noting
  <2>5. ASSUME NEW id \in FrameIds, EndFrame(id)
        PROVE  \E p, r, e, b, c : Noting(p, r, e, b, c)
    BY <2>5, Zenon DEF Noting
  <2>6. CASE Receive
    BY <2>6, Zenon DEF Noting
  <2>7. ASSUME NEW sid \in SurfaceIds, NEW dest \in SurfaceIds, NEW rect \in Rectangles,
               SurfaceToSurface(sid, rect, dest)
        PROVE  \E p, r, e, b, c : Noting(p, r, e, b, c)
    BY <2>7, Zenon DEF Noting
  <2>8. ASSUME NEW point \in Points, CopyToPoint(point)
        PROVE  \E p, r, e, b, c : Noting(p, r, e, b, c)
    BY <2>8, Zenon DEF Noting
  <2>9. CASE LoopDone
    BY <2>9, Zenon DEF Noting
  <2>10. CASE OtherDraw
    BY <2>10, Zenon DEF Noting
  <2>11. CASE Quiet
    BY <2>11, Zenon DEF Noting
  <2>12. \/ \E sid \in SurfaceIds, size \in SurfaceSizes : CreateSurface(sid, size)
         \/ \E sid \in SurfaceIds : DeleteSurface(sid)
         \/ ResetGraphics \/ StartFrame \/ Receive \/ LoopDone \/ OtherDraw \/ Quiet
         \/ \E id \in FrameIds : EndFrame(id)
         \/ \E sid, dest \in SurfaceIds, rect \in Rectangles : SurfaceToSurface(sid, rect, dest)
         \/ \E point \in Points : CopyToPoint(point)
    BY <1>2, Zenon DEF Next, HandlePdu, Iterate, OtherDraw, Quiet
  <2> QED
    BY <2>1, <2>2, <2>3, <2>4, <2>5, <2>6, <2>7, <2>8, <2>9, <2>10, <2>11, <2>12
<1> QED
  BY <1>1, <1>2, NotingIsHNext

THEOREM HistoryTypes == HSpec => []EgfxTypeOK
  BY HistoryIsEgfx, TypeCorrect, PTL

-----------------------------------------------------------------------------
(* Frame acknowledgements. *)

\* The last total acknowledged is the counter; a failed channel ends nothing.
AckInv ==
  /\ AcksInOrder
  /\ ended \in Seq(FrameIds)
  /\ phase # "failed" =>
       totalFrames = IF Answers = <<>> THEN 0 ELSE Answers[Len(Answers)].total
  /\ NeverSuspend
  /\ DepthDoesNotDrift
  /\ bracket \in {"out", "in", "broken"}

\* The variables that the acknowledgements are about
ackVars == <<responses, acks, queuedFrames, totalFrames, ended, bracket>>

LEMMA AnswersAreSeq ==
  ASSUME EgfxTypeOK
  PROVE  Answers \in Seq(Acks)
  BY ConcatProperties DEF EgfxTypeOK, Answers

LEMMA AnswersGrow ==
  ASSUME EgfxTypeOK, NEW a \in Acks, acks' = acks, responses' = Append(responses, a)
  PROVE  Answers' = Append(Answers, a)
<1>1. /\ responses' = responses \o <<a>>
      /\ Append(Answers, a) = Answers \o <<a>>
      /\ <<a>> \in Seq(Acks)
  BY AppendIsConcat, AnswersAreSeq DEF EgfxTypeOK
<1>2. acks \o (responses \o <<a>>) = (acks \o responses) \o <<a>>
  BY <1>1, ConcatAssociative DEF EgfxTypeOK
<1> QED
  BY <1>1, <1>2 DEF Answers

\* Steps that touch no acknowledgement, and leave process() or enter it only
\* when there are no responses.
LEMMA AckQuiet ==
  ASSUME AckInv, UNCHANGED ackVars,
         \/ phase' = phase
         \/ phase # "failed" /\ phase # "handling"
  PROVE  AckInv'
<1>1. Answers' = Answers /\ UNCHANGED <<responses, acks, queuedFrames, totalFrames, ended, bracket>>
  BY DEF ackVars, Answers
<1>2. AcksInOrder'
  BY <1>1 DEF AckInv, AcksInOrder
<1>3. NeverSuspend' /\ DepthDoesNotDrift'
  BY <1>1 DEF AckInv, NeverSuspend, DepthDoesNotDrift
<1> QED
  BY <1>1, <1>2, <1>3 DEF AckInv

LEMMA AckStartFrame ==
  ASSUME EgfxTypeOK, AckInv, HStartFrame
  PROVE  AckInv'
<1>1. queuedFrames = 0 => queuedFrames' = 1
  BY WidthsAssumption DEF HStartFrame, StartFrame, Smaller
<1>2. bracket' # "broken" => bracket = "out" /\ bracket' = "in"
  BY DEF HStartFrame
<1>3. UNCHANGED <<phase, responses, acks, totalFrames, ended>>
  BY DEF HStartFrame, StartFrame, Handling
<1>4. Answers' = Answers
  BY <1>3 DEF Answers
<1>5. DepthDoesNotDrift'
  BY <1>1, <1>2, <1>4 DEF AckInv, DepthDoesNotDrift
<1>6. bracket' \in {"out", "in", "broken"}
  BY DEF HStartFrame
<1> QED
  BY <1>3, <1>4, <1>5, <1>6 DEF AckInv, AcksInOrder, NeverSuspend

LEMMA AckEndFrame ==
  ASSUME EgfxTypeOK, AckInv, NEW id \in FrameIds, HEndFrame(id)
  PROVE  AckInv'
<1> DEFINE a == [depth |-> queuedFrames', frame |-> id, total |-> totalFrames']
<1>1. /\ phase = "handling" /\ phase' = "handling"
      /\ acks' = acks
      /\ responses' = Append(responses, a)
      /\ ended' = Append(ended, id)
      /\ queuedFrames' = SaturatingSub(queuedFrames, 1)
      /\ totalFrames' = (totalFrames + 1) % (MaxU32 + 1)
  BY DEF HEndFrame, EndFrame, Handling
<1>2. /\ queuedFrames' \in 0 .. MaxU32
      /\ queuedFrames' < MaxU32
      /\ totalFrames' \in 0 .. MaxU32
      /\ queuedFrames \in {0, 1} => queuedFrames' = 0
  BY <1>1, WidthsAssumption DEF SaturatingSub, EgfxTypeOK, CountersOK
<1>3. a \in Acks
  BY <1>2 DEF Acks
<1>4. a.depth = queuedFrames' /\ a.frame = id /\ a.total = totalFrames'
  OBVIOUS
<1> HIDE DEF a
<1>5. Answers' = Append(Answers, a) /\ Answers \in Seq(Acks)
  BY <1>1, <1>3, AnswersGrow, AnswersAreSeq
<1>6. /\ Len(Answers') = Len(Answers) + 1
      /\ \A i \in 1 .. Len(Answers) : Answers'[i] = Answers[i]
      /\ Answers'[Len(Answers) + 1] = a
      /\ DOMAIN Answers = 1 .. Len(Answers)
      /\ DOMAIN Answers' = 1 .. Len(Answers) + 1
      /\ Len(Answers) \in Nat
      /\ Answers' # <<>>
      /\ Answers = <<>> <=> Len(Answers) = 0
  BY <1>3, <1>5, AppendProperties, LenProperties, EmptySeq
<1>7. /\ ended' \in Seq(FrameIds)
      /\ Len(ended') = Len(ended) + 1
      /\ \A i \in 1 .. Len(ended) : ended'[i] = ended[i]
      /\ ended'[Len(ended) + 1] = id
  BY <1>1, AppendProperties DEF AckInv
<1>8. Len(Answers) = Len(ended)
  BY <1>1 DEF AckInv, AcksInOrder
<1>9. AcksInOrder'
  <2>1. ASSUME NEW i \in DOMAIN Answers'
        PROVE  /\ Answers'[i].frame = ended'[i]
               /\ Answers'[i].total =
                    ((IF i = 1 THEN 0 ELSE Answers'[i - 1].total) + 1) % (MaxU32 + 1)
    <3>1. CASE i \in DOMAIN Answers
      <4>1. i - 1 \in 1 .. Len(Answers) \/ i = 1
        BY <1>6, <3>1
      <4> QED
        BY <1>6, <1>7, <1>8, <3>1, <4>1 DEF AckInv, AcksInOrder
    <3>2. CASE i = Len(Answers) + 1
      <4>1. totalFrames = IF i = 1 THEN 0 ELSE Answers'[i - 1].total
        BY <1>1, <1>6, <3>2 DEF AckInv
      <4> QED
        BY <1>1, <1>4, <1>6, <1>7, <1>8, <3>2, <4>1
    <3> QED
      BY <1>6, <3>1, <3>2
  <2> QED
    BY <1>1, <1>6, <1>7, <1>8, <2>1 DEF AcksInOrder
<1>10. NeverSuspend'
  BY <1>2, <1>4, <1>6, WidthsAssumption DEF AckInv, NeverSuspend, Suspend
<1>11. bracket' # "broken" => bracket = "in" /\ bracket' = "out"
  BY DEF HEndFrame
<1>12. DepthDoesNotDrift'
  BY <1>2, <1>4, <1>6, <1>11 DEF AckInv, DepthDoesNotDrift
<1>13. totalFrames' = Answers'[Len(Answers')].total
  BY <1>4, <1>6
<1>14. bracket' \in {"out", "in", "broken"}
  BY DEF HEndFrame
<1> QED
  BY <1>6, <1>7, <1>9, <1>10, <1>12, <1>13, <1>14 DEF AckInv

\* The payload is done: its responses become answers given.
LEMMA AckFinish ==
  ASSUME EgfxTypeOK, AckInv, Finish, UNCHANGED <<ended, bracket>>
  PROVE  AckInv'
<1>1. Answers' = Answers
  BY ConcatEmptySeq, AnswersAreSeq DEF Finish, Answers
<1>2. responses' = <<>> /\ phase = "handling" /\ phase' = "idle"
      /\ UNCHANGED <<queuedFrames, totalFrames>>
  BY DEF Finish
<1> QED
  BY <1>1, <1>2 DEF AckInv, AcksInOrder, NeverSuspend, DepthDoesNotDrift

\* A failure takes back the responses of its payload and no others.
LEMMA AckFailure ==
  ASSUME EgfxTypeOK, AckInv, Avc420Malformed, UNCHANGED <<ended, bracket>>
  PROVE  AckInv'
<1>1. responses' = <<>> /\ acks' = acks /\ phase' = "failed" /\ phase = "handling"
      /\ UNCHANGED <<queuedFrames, totalFrames>>
  BY DEF Avc420Malformed
<1>2. Answers' = acks
  BY <1>1, ConcatEmptySeq DEF Answers, EgfxTypeOK
<1>3. /\ Len(acks) <= Len(Answers)
      /\ DOMAIN acks = 1 .. Len(acks)
      /\ DOMAIN Answers = 1 .. Len(Answers)
      /\ Len(acks) \in Nat /\ Len(Answers) \in Nat
      /\ \A i \in 1 .. Len(acks) : Answers[i] = acks[i]
  BY ConcatProperties, LenProperties, AnswersAreSeq DEF Answers, EgfxTypeOK
<1>4. AcksInOrder'
  <2>1. Len(acks) <= Len(ended)
    BY <1>1, <1>3 DEF AckInv, AcksInOrder
  <2>2. ASSUME NEW i \in 1 .. Len(acks)
        PROVE  /\ acks[i].frame = ended[i]
               /\ acks[i].total = ((IF i = 1 THEN 0 ELSE acks[i - 1].total) + 1) % (MaxU32 + 1)
    <3>1. i = 1 \/ i - 1 \in 1 .. Len(acks)
      BY <1>3
    <3> QED
      BY <1>3, <3>1 DEF AckInv, AcksInOrder
  <2> QED
    BY <1>1, <1>2, <1>3, <2>1, <2>2 DEF AcksInOrder
<1>5. NeverSuspend'
  BY <1>2, <1>3 DEF AckInv, NeverSuspend, Suspend
<1>6. DepthDoesNotDrift'
  BY <1>1, <1>2, <1>3 DEF AckInv, DepthDoesNotDrift
<1> QED
  BY <1>1, <1>4, <1>5, <1>6 DEF AckInv

LEMMA AckStep == EgfxTypeOK /\ AckInv /\ [HNext]_hvars => AckInv'
<1> SUFFICES ASSUME EgfxTypeOK, AckInv, [HNext]_hvars
             PROVE  AckInv'
  OBVIOUS
<1> USE DEF ackVars, frames
<1>1. ASSUME NEW sid \in SurfaceIds, NEW size \in SurfaceSizes, HCreateSurface(sid, size)
      PROVE  AckInv'
  BY <1>1, AckQuiet DEF HCreateSurface, CreateSurface, Handling
<1>2. ASSUME NEW sid \in SurfaceIds, HDeleteSurface(sid)
      PROVE  AckInv'
  BY <1>2, AckQuiet DEF HDeleteSurface, DeleteSurface, Handling
<1>3. CASE HResetGraphics
  BY <1>3, AckQuiet DEF HResetGraphics, ResetGraphics, Handling
<1>4. CASE HReceive
  BY <1>4, AckQuiet DEF HReceive, Receive
<1>5. ASSUME NEW sid \in SurfaceIds, NEW dest \in SurfaceIds, NEW rect \in Rectangles,
             HSurfaceToSurface(sid, rect, dest)
      PROVE  AckInv'
  BY <1>5, AckQuiet DEF HSurfaceToSurface, SurfaceToSurface, Handling
<1>6. ASSUME NEW point \in Points, HCopyToPoint(point)
      PROVE  AckInv'
  BY <1>6, AckQuiet DEF HCopyToPoint, CopyToPoint
<1>7. CASE HLoopDone
  BY <1>7, AckQuiet DEF HLoopDone, LoopDone
<1>8. CASE HOtherDraw
  <2>1. UNCHANGED <<phase, frames, acks, ended, bracket>>
    BY <1>8 DEF OtherDraw, HOtherDraw, FillRectangle, DrawTile, ClearCodec, Handling
  <2> QED
    BY <2>1, AckQuiet
<1>9. CASE HQuiet
  <2> USE <1>9 DEF Quiet, HQuiet
  <2>1. CASE Start
    BY <2>1, AckQuiet DEF Start
  <2>2. CASE Process
    BY <2>2, AckQuiet DEF Process
  <2>3. CASE ProcessMalformed
    BY <2>3, AckQuiet DEF ProcessMalformed
  <2>4. CASE Finish
    BY <2>4, AckFinish
  <2>5. CASE Close
    BY <2>5, AckQuiet DEF Close
  <2>6. CASE CapabilitiesConfirm \/ UnsupportedCodec \/ IgnoredPdu
    BY <2>6, AckQuiet DEF CapabilitiesConfirm, UnsupportedCodec, IgnoredPdu, Handling
  <2>7. CASE Avc420Malformed
    BY <2>7, AckFailure
  <2>8. CASE Tick \/ ReceiverDropped
    BY <2>8, AckQuiet DEF Tick, ReceiverDropped
  <2>9. ASSUME NEW sid \in SurfaceIds,
               \/ Progressive(sid)
               \/ \E origin \in Origins : MapSurfaceToOutput(sid, origin)
               \/ \E color \in Colors : SolidFill(sid, color)
               \/ \E rect \in Rectangles : Avc420(sid, rect)
               \/ \E rect \in Rectangles, slot \in Slots : SurfaceToCache(sid, rect, slot)
        PROVE  AckInv'
    <3>1. UNCHANGED <<phase, frames, acks>>
      BY <2>9 DEF Progressive, MapSurfaceToOutput, SolidFill, Avc420, SurfaceToCache, Handling
    <3> QED
      BY <3>1, AckQuiet
  <2>10. ASSUME NEW slot \in Slots,
                \/ EvictCacheEntry(slot)
                \/ \E dest \in SurfaceIds : CacheToSurface(slot, dest)
         PROVE  AckInv'
    <3>1. UNCHANGED <<phase, frames, acks>>
      BY <2>10 DEF EvictCacheEntry, CacheToSurface, Handling
    <3> QED
      BY <3>1, AckQuiet
  <2> QED
    BY <2>1, <2>2, <2>3, <2>4, <2>5, <2>6, <2>7, <2>8, <2>9, <2>10
<1>10. CASE UNCHANGED hvars
  BY <1>10, AckQuiet DEF hvars, vars
<1> QED
  BY <1>1, <1>2, <1>3, <1>4, <1>5, <1>6, <1>7, <1>8, <1>9, <1>10,
     AckStartFrame, AckEndFrame DEF HNext

LEMMA AckInit == HInit => AckInv
<1> SUFFICES ASSUME HInit PROVE AckInv
  OBVIOUS
<1>1. acks = <<>> /\ responses = <<>> /\ ended = <<>> /\ bracket = "out"
      /\ queuedFrames = 0 /\ totalFrames = 0
  BY DEF HInit, Init
<1>2. Answers = <<>> /\ Len(Answers) = 0 /\ DOMAIN Answers = {}
  BY <1>1 DEF Answers
<1> QED
  BY <1>1, <1>2 DEF AckInv, AcksInOrder, NeverSuspend, DepthDoesNotDrift

LEMMA AckInvariant == HSpec => []AckInv
<1>1. EgfxTypeOK /\ AckInv /\ [HNext]_hvars => AckInv'
  BY AckStep
<1> QED
  BY <1>1, AckInit, HistoryTypes, PTL DEF HSpec

\* Every EndFrame is answered once and in order, with running totals, and
\* only a failed session leaves one unanswered.
THEOREM AcksAreInOrder == HSpec => []AcksInOrder
<1>1. AckInv => AcksInOrder
  BY DEF AckInv
<1> QED
  BY <1>1, AckInvariant, PTL

\* No acknowledgement suspends acknowledging.
THEOREM AcksNeverSuspend == HSpec => []NeverSuspend
<1>1. AckInv => NeverSuspend
  BY DEF AckInv
<1> QED
  BY <1>1, AckInvariant, PTL

\* The queue depth of a server with separate frames does not drift.
THEOREM DepthStaysTrue == HSpec => []DepthDoesNotDrift
<1>1. AckInv => DepthDoesNotDrift
  BY DEF AckInv
<1> QED
  BY <1>1, AckInvariant, PTL

-----------------------------------------------------------------------------
(* Time stamps. *)

\* No stamp in the channel or received is later than the last one drawn.
StampInv ==
  /\ received \in 0 .. lastTimestamp
  /\ \A i \in 1 .. Len(tx) : IsVideo(tx[i]) =>
       /\ received < tx[i].ts
       /\ tx[i].ts <= lastTimestamp
       /\ \A j \in 1 .. Len(tx) : j < i /\ IsVideo(tx[j]) => tx[j].ts < tx[i].ts

LEMMA ChannelDomain ==
  ASSUME ChannelOK
  PROVE  DOMAIN tx = 1 .. Len(tx) /\ Len(tx) \in Nat
  BY BoundsAssumption DEF ChannelOK

LEMMA StampQuiet ==
  ASSUME StampInv, UNCHANGED <<tx, received, lastTimestamp>>
  PROVE  StampInv'
  BY DEF StampInv, IsVideo

\* An event sent is stamped later than all before it, or is no video packet.
LEMMA StampSend ==
  ASSUME EgfxTypeOK, StampInv, UNCHANGED received, NEW e, Send(e),
         \/ ~IsVideo(e) /\ lastTimestamp' = lastTimestamp
         \/ e.ts \in Nat /\ lastTimestamp < e.ts /\ lastTimestamp' = e.ts
  PROVE  StampInv'
<1>1. lastTimestamp \in Nat /\ lastTimestamp' \in Nat /\ lastTimestamp <= lastTimestamp'
  BY BoundsAssumption DEF EgfxTypeOK, CountersOK
<1>2. \A i \in 1 .. Len(tx) : IsVideo(tx[i]) => tx[i].ts \in Nat
  BY BoundsAssumption DEF EgfxTypeOK, ChannelOK, IsEvent, ControlEvents, IsVideo
<1>3. CASE ~rxOpen
  <2>1. tx' = tx
    BY <1>3 DEF Send
  <2> QED
    BY <1>1, <1>2, <2>1 DEF StampInv, IsVideo
<1>4. CASE rxOpen
  <2>1. tx' = Append(tx, e)
    BY <1>4 DEF Send
  <2>2. /\ Len(tx') = Len(tx) + 1
        /\ \A i \in 1 .. Len(tx) : tx'[i] = tx[i]
        /\ tx'[Len(tx) + 1] = e
        /\ Len(tx) \in Nat
    BY <2>1, SendAppends, ChannelDomain DEF EgfxTypeOK
  <2>3. ASSUME NEW i \in 1 .. Len(tx'), IsVideo(tx'[i])
        PROVE  /\ received < tx'[i].ts
               /\ tx'[i].ts <= lastTimestamp'
               /\ \A j \in 1 .. Len(tx') : j < i /\ IsVideo(tx'[j]) => tx'[j].ts < tx'[i].ts
    <3>1. CASE i \in 1 .. Len(tx)
      BY <1>1, <1>2, <2>2, <2>3, <3>1 DEF StampInv
    <3>2. CASE i = Len(tx) + 1
      BY <1>1, <1>2, <2>2, <2>3, <3>2 DEF StampInv
    <3> QED
      BY <2>2, <3>1, <3>2
  <2>4. received' \in 0 .. lastTimestamp'
    BY <1>1 DEF StampInv
  <2> QED
    BY <2>3, <2>4 DEF StampInv, IsVideo
<1> QED
  BY <1>3, <1>4

LEMMA StampControl ==
  ASSUME EgfxTypeOK, StampInv, UNCHANGED <<received, lastTimestamp>>, NEW kind, SendControl(kind)
  PROVE  StampInv'
  BY StampSend DEF SendControl, Control, IsVideo

LEMMA StampVideo ==
  ASSUME EgfxTypeOK, StampInv, UNCHANGED received, CanSendVideo,
         NEW codec, NEW sid, NEW r, NEW origin, NEW data,
         SendVideo(codec, sid, r, origin, data)
  PROVE  StampInv'
<1>1. NextTimestamp \in Nat /\ lastTimestamp < NextTimestamp
  BY NextTimestampType, BoundsAssumption DEF EgfxTypeOK, CanSendVideo
<1> QED
  BY <1>1, StampSend DEF SendVideo

LEMMA StampBlit ==
  ASSUME EgfxTypeOK, StampInv, UNCHANGED received,
         NEW codec, NEW sid, NEW r, NEW data, BlitAndSend(codec, sid, r, data)
  PROVE  StampInv'
<1>1. CASE Accepts(sid, r, data)
  BY <1>1, StampVideo DEF BlitAndSend
<1>2. CASE ~Accepts(sid, r, data)
  BY <1>2, StampQuiet DEF BlitAndSend, channel, stamps
<1> QED
  BY <1>1, <1>2

LEMMA StampReceive ==
  ASSUME EgfxTypeOK, StampInv, HReceive
  PROVE  StampInv'
<1>1. /\ tx # <<>> /\ tx' = Tail(tx) /\ lastTimestamp' = lastTimestamp
      /\ received' = IF IsVideo(Head(tx)) THEN Head(tx).ts ELSE received
  BY DEF HReceive, Receive, stamps
<1>2. /\ Len(tx') = Len(tx) - 1
      /\ \A i \in 1 .. Len(tx') : tx'[i] = tx[i + 1]
      /\ Head(tx) = tx[1]
  BY <1>1, ReceiveShifts DEF EgfxTypeOK
<1>3. Len(tx) \in Nat /\ Len(tx) # 0 /\ 1 \in 1 .. Len(tx)
  BY <1>1, ChannelIsSeq, EmptySeq, ChannelDomain DEF EgfxTypeOK
<1>4. \A i \in 1 .. Len(tx) : IsVideo(tx[i]) => tx[i].ts \in Nat
  BY BoundsAssumption DEF EgfxTypeOK, ChannelOK, IsEvent, ControlEvents, IsVideo
<1>5. received' \in 0 .. lastTimestamp'
  BY <1>1, <1>2, <1>3, <1>4, BoundsAssumption DEF StampInv, EgfxTypeOK, CountersOK
<1>6. ASSUME NEW i \in 1 .. Len(tx'), IsVideo(tx'[i])
      PROVE  /\ received' < tx'[i].ts
             /\ tx'[i].ts <= lastTimestamp'
             /\ \A j \in 1 .. Len(tx') : j < i /\ IsVideo(tx'[j]) => tx'[j].ts < tx'[i].ts
  <2>1. i + 1 \in 1 .. Len(tx) /\ 1 < i + 1 /\ tx'[i] = tx[i + 1]
    BY <1>2, <1>3
  <2>2. \A j \in 1 .. Len(tx') : j + 1 \in 1 .. Len(tx) /\ tx'[j] = tx[j + 1] /\ (j < i => j + 1 < i + 1)
    BY <1>2, <1>3
  <2>3. received' < tx'[i].ts
    BY <1>1, <1>2, <1>3, <1>6, <2>1 DEF StampInv
  <2>4. tx'[i].ts <= lastTimestamp'
    BY <1>1, <1>6, <2>1 DEF StampInv
  <2>5. \A j \in 1 .. Len(tx') : j < i /\ IsVideo(tx'[j]) => tx'[j].ts < tx'[i].ts
    BY <1>6, <2>1, <2>2 DEF StampInv
  <2> QED
    BY <2>3, <2>4, <2>5
<1> QED
  BY <1>5, <1>6 DEF StampInv, IsVideo

LEMMA StampStep == EgfxTypeOK /\ StampInv /\ [HNext]_hvars => StampInv'
<1> SUFFICES ASSUME EgfxTypeOK, StampInv, [HNext]_hvars
             PROVE  StampInv'
  OBVIOUS
<1> USE DEF channel, stamps
<1>1. ASSUME NEW sid \in SurfaceIds, NEW size \in SurfaceSizes, HCreateSurface(sid, size)
      PROVE  StampInv'
  BY <1>1, StampQuiet DEF HCreateSurface, CreateSurface
<1>2. ASSUME NEW sid \in SurfaceIds, HDeleteSurface(sid)
      PROVE  StampInv'
  BY <1>2, StampQuiet DEF HDeleteSurface, DeleteSurface
<1>3. CASE HResetGraphics
  BY <1>3, StampControl DEF HResetGraphics, ResetGraphics
<1>4. CASE HStartFrame
  BY <1>4, StampQuiet DEF HStartFrame, StartFrame
<1>5. ASSUME NEW id \in FrameIds, HEndFrame(id)
      PROVE  StampInv'
  BY <1>5, StampQuiet DEF HEndFrame, EndFrame
<1>6. ASSUME NEW sid \in SurfaceIds, NEW dest \in SurfaceIds, NEW rect \in Rectangles,
             HSurfaceToSurface(sid, rect, dest)
      PROVE  StampInv'
  BY <1>6, StampQuiet DEF HSurfaceToSurface, SurfaceToSurface
<1>7. ASSUME NEW point \in Points, HCopyToPoint(point)
      PROVE  StampInv'
  BY <1>7, StampBlit DEF HCopyToPoint, CopyToPoint
<1>8. CASE HLoopDone
  BY <1>8, StampQuiet DEF HLoopDone, LoopDone
<1>9. CASE HOtherDraw
  <2>1. ASSUME NEW rect \in Rectangles, FillRectangle(rect)
        PROVE  StampInv'
    BY <1>9, <2>1, StampBlit, StampQuiet DEF OtherDraw, HOtherDraw, FillRectangle
  <2>2. ASSUME NEW tile \in Tiles, NEW pixels \in Bitmaps(TileSize, TileSize), DrawTile(tile, pixels)
        PROVE  StampInv'
    BY <1>9, <2>2, StampBlit DEF OtherDraw, HOtherDraw, DrawTile
  <2>3. ASSUME NEW sid \in SurfaceIds, NEW rect \in Rectangles, NEW pixels, ClearCodec(sid, rect, pixels)
        PROVE  StampInv'
    BY <1>9, <2>3, StampBlit DEF OtherDraw, HOtherDraw, ClearCodec
  <2> QED
    BY <1>9, <2>1, <2>2, <2>3 DEF OtherDraw, HOtherDraw
<1>10. CASE HQuiet
  <2> USE <1>10 DEF Quiet, HQuiet
  <2>1. CASE Start \/ Close \/ CapabilitiesConfirm
    BY <2>1, StampControl DEF Start, Close, CapabilitiesConfirm
  <2>2. CASE UnsupportedCodec
    BY <2>2, StampControl, StampQuiet DEF UnsupportedCodec
  <2>3. CASE Process \/ ProcessMalformed \/ Finish \/ Avc420Malformed \/ IgnoredPdu \/ Tick
    BY <2>3, StampQuiet DEF Process, ProcessMalformed, Finish, Avc420Malformed, IgnoredPdu, Tick
  <2>4. CASE ReceiverDropped
    <3>1. tx' = <<>> /\ lastTimestamp' = lastTimestamp /\ received' = received
      BY <2>4 DEF ReceiverDropped
    <3>2. 1 .. Len(tx') = {}
      BY <3>1
    <3> QED
      BY <3>1, <3>2 DEF StampInv
  <2>5. ASSUME NEW sid \in SurfaceIds, NEW rect \in Rectangles, Avc420(sid, rect)
        PROVE  StampInv'
    BY <2>5, StampVideo DEF Avc420
  <2>6. ASSUME NEW sid \in SurfaceIds,
               \/ Progressive(sid)
               \/ \E origin \in Origins : MapSurfaceToOutput(sid, origin)
               \/ \E color \in Colors : SolidFill(sid, color)
               \/ \E rect \in Rectangles, slot \in Slots : SurfaceToCache(sid, rect, slot)
        PROVE  StampInv'
    <3>1. UNCHANGED <<tx, lastTimestamp>>
      BY <2>6 DEF Progressive, MapSurfaceToOutput, SolidFill, SurfaceToCache
    <3> QED
      BY <3>1, StampQuiet
  <2>7. ASSUME NEW slot \in Slots,
               \/ EvictCacheEntry(slot)
               \/ \E dest \in SurfaceIds : CacheToSurface(slot, dest)
        PROVE  StampInv'
    <3>1. UNCHANGED <<tx, lastTimestamp>>
      BY <2>7 DEF EvictCacheEntry, CacheToSurface
    <3> QED
      BY <3>1, StampQuiet
  <2> QED
    BY <2>1, <2>2, <2>3, <2>4, <2>5, <2>6, <2>7
<1>11. CASE UNCHANGED hvars
  BY <1>11, StampQuiet DEF hvars, vars
<1> QED
  BY <1>1, <1>2, <1>3, <1>4, <1>5, <1>6, <1>7, <1>8, <1>9, <1>10, <1>11, StampReceive DEF HNext

LEMMA StampInit == HInit => StampInv
<1> SUFFICES ASSUME HInit PROVE StampInv
  OBVIOUS
<1>1. tx = <<>> /\ received = 0 /\ lastTimestamp = 0
  BY DEF HInit, Init
<1>2. 1 .. Len(tx) = {}
  BY <1>1
<1> QED
  BY <1>1, <1>2 DEF StampInv

\* The session receives video packets with strictly increasing time stamps.
THEOREM TimestampsAlwaysIncrease == HSpec => []TimestampsIncrease
<1>1. EgfxTypeOK /\ StampInv /\ [HNext]_hvars => StampInv'
  BY StampStep
<1>2. EgfxTypeOK /\ StampInv => TimestampsIncrease
  BY ChannelDomain DEF EgfxTypeOK, StampInv, TimestampsIncrease
<1> QED
  BY <1>1, <1>2, StampInit, HistoryTypes, PTL DEF HSpec

-----------------------------------------------------------------------------
(* The store and what was painted. *)

PixelsOf(f) == [sid \in DOMAIN f |-> f[sid].pixels]

PaintInv == rxOpen => painted = PixelsOf(surfaces)

LEMMA PaintQuiet ==
  ASSUME PaintInv, UNCHANGED <<painted, surfaces>>, rxOpen' => rxOpen
  PROVE  PaintInv'
  BY DEF PaintInv, PixelsOf

\* A blit shows up in the store and, by its packet, on the observer's copy.
LEMMA PaintBlit ==
  ASSUME EgfxTypeOK, PaintInv,
         NEW codec, NEW sid, NEW r, NEW data, BlitAndSend(codec, sid, r, data),
         painted' = IF SentEvent THEN Paint(LastSent) ELSE painted
  PROVE  PaintInv'
<1>1. CASE ~rxOpen
  BY <1>1 DEF BlitAndSend, SendVideo, channel, PaintInv
<1>2. CASE rxOpen /\ ~Accepts(sid, r, data)
  <2>1. UNCHANGED <<surfaces, tx, rxOpen>>
    BY <1>2 DEF BlitAndSend, channel
  <2>2. ~SentEvent
    BY <2>1, ChannelDomain DEF SentEvent, EgfxTypeOK
  <2> QED
    BY <2>1, <2>2, PaintQuiet
<1>3. CASE rxOpen /\ Accepts(sid, r, data)
  <2> DEFINE e == [type |-> "video", codec |-> codec, ts |-> NextTimestamp, sid |-> sid,
                   region |-> r, origin |-> surfaces[sid].origin, data |-> data]
             pixels == surfaces[sid].pixels
  <2>1. /\ sid \in DOMAIN surfaces
        /\ surfaces' = [surfaces EXCEPT ![sid].pixels = Blit(@, r, data)]
        /\ tx' = Append(tx, e)
        /\ rxOpen'
    BY <1>3 DEF BlitAndSend, Accepts, SendVideo, Send
  <2>2. e.sid = sid /\ e.region = r /\ e.data = data
    OBVIOUS
  <2>3. IsSurface(surfaces[sid])
    BY <2>1 DEF EgfxTypeOK, SurfacesOK
  <2> HIDE DEF e
  <2>4. SentEvent /\ LastSent = e
    BY <2>1, SendAppends, ChannelDomain DEF SentEvent, LastSent, EgfxTypeOK
  <2>5. painted' = Paint(e)
    BY <2>4
  <2>6. painted = PixelsOf(surfaces) /\ painted[sid] = pixels
    BY <1>3, <2>1 DEF PaintInv, PixelsOf
  <2>7. painted' = [painted EXCEPT ![sid] = Blit(pixels, r, data)]
    BY <2>2, <2>5, <2>6 DEF Paint, Blit
  <2>8. /\ DOMAIN surfaces' = DOMAIN surfaces
        /\ surfaces'[sid].pixels = Blit(pixels, r, data)
        /\ \A x \in DOMAIN surfaces \ {sid} : surfaces'[x] = surfaces[x]
    BY <2>1, <2>3 DEF IsSurface
  <2>9. painted' = PixelsOf(surfaces')
    BY <2>1, <2>6, <2>7, <2>8 DEF PixelsOf
  <2> QED
    BY <2>9 DEF PaintInv
<1> QED
  BY <1>1, <1>2, <1>3

LEMMA PaintStep == EgfxTypeOK /\ PaintInv /\ [HNext]_hvars => PaintInv'
<1> SUFFICES ASSUME EgfxTypeOK, PaintInv, [HNext]_hvars
             PROVE  PaintInv'
  OBVIOUS
<1> USE DEF channel, store
<1>1. ASSUME NEW sid \in SurfaceIds, NEW size \in SurfaceSizes, HCreateSurface(sid, size)
      PROVE  PaintInv'
  <2>1. /\ surfaces' = Insert(surfaces, sid, NewSurface(size))
        /\ painted' = Insert(painted, sid, RepeatedPixel(Black, size.w, size.h))
        /\ rxOpen' = rxOpen
    BY <1>1 DEF HCreateSurface, CreateSurface
  <2>2. NewSurface(size).pixels = RepeatedPixel(Black, size.w, size.h)
    BY DEF NewSurface
  <2> QED
    BY <2>1, <2>2 DEF PaintInv, PixelsOf, Insert
<1>2. ASSUME NEW sid \in SurfaceIds, HDeleteSurface(sid)
      PROVE  PaintInv'
  BY <1>2 DEF HDeleteSurface, DeleteSurface, PaintInv, PixelsOf, Remove
<1>3. CASE HResetGraphics
  BY <1>3 DEF HResetGraphics, ResetGraphics, PaintInv, PixelsOf, EmptyMap
<1>4. CASE HStartFrame
  BY <1>4, PaintQuiet DEF HStartFrame, StartFrame
<1>5. ASSUME NEW id \in FrameIds, HEndFrame(id)
      PROVE  PaintInv'
  BY <1>5, PaintQuiet DEF HEndFrame, EndFrame
<1>6. CASE HReceive
  BY <1>6, PaintQuiet DEF HReceive, Receive
<1>7. ASSUME NEW sid \in SurfaceIds, NEW dest \in SurfaceIds, NEW rect \in Rectangles,
             HSurfaceToSurface(sid, rect, dest)
      PROVE  PaintInv'
  BY <1>7, PaintQuiet DEF HSurfaceToSurface, SurfaceToSurface
<1>8. ASSUME NEW point \in Points, HCopyToPoint(point)
      PROVE  PaintInv'
  BY <1>8, PaintBlit DEF HCopyToPoint, CopyToPoint
<1>9. CASE HLoopDone
  BY <1>9, PaintQuiet DEF HLoopDone, LoopDone
<1>10. CASE HOtherDraw
  <2>0. painted' = IF SentEvent THEN Paint(LastSent) ELSE painted
    BY <1>10 DEF OtherDraw, HOtherDraw
  <2>1. ASSUME NEW rect \in Rectangles, FillRectangle(rect)
        PROVE  PaintInv'
    <3>1. CASE IsRegion(rect)
      BY <2>0, <2>1, <3>1, PaintBlit DEF FillRectangle
    <3>2. CASE ~IsRegion(rect)
      <4>1. UNCHANGED <<surfaces, tx, rxOpen>>
        BY <2>1, <3>2 DEF FillRectangle
      <4>2. ~SentEvent
        BY <4>1, ChannelDomain DEF SentEvent, EgfxTypeOK
      <4> QED
        BY <2>0, <4>1, <4>2, PaintQuiet
    <3> QED
      BY <3>1, <3>2
  <2>2. ASSUME NEW tile \in Tiles, NEW pixels \in Bitmaps(TileSize, TileSize), DrawTile(tile, pixels)
        PROVE  PaintInv'
    BY <2>0, <2>2, PaintBlit DEF DrawTile
  <2>3. ASSUME NEW sid \in SurfaceIds, NEW rect \in Rectangles, NEW pixels, ClearCodec(sid, rect, pixels)
        PROVE  PaintInv'
    BY <2>0, <2>3, PaintBlit DEF ClearCodec
  <2> QED
    BY <1>10, <2>1, <2>2, <2>3 DEF OtherDraw, HOtherDraw
<1>11. CASE HQuiet
  <2> USE <1>11 DEF Quiet, HQuiet
  <2>1. CASE Start \/ Close \/ CapabilitiesConfirm
    BY <2>1, PaintQuiet DEF Start, Close, CapabilitiesConfirm, SendControl
  <2>2. CASE UnsupportedCodec
    BY <2>2, PaintQuiet DEF UnsupportedCodec, SendControl
  <2>3. CASE Process \/ ProcessMalformed \/ Finish \/ Avc420Malformed \/ IgnoredPdu \/ Tick
    BY <2>3, PaintQuiet DEF Process, ProcessMalformed, Finish, Avc420Malformed, IgnoredPdu, Tick
  <2>4. CASE ReceiverDropped
    BY <2>4 DEF ReceiverDropped, PaintInv
  <2>5. ASSUME NEW sid \in SurfaceIds, NEW rect \in Rectangles, Avc420(sid, rect)
        PROVE  PaintInv'
    BY <2>5, PaintQuiet DEF Avc420, SendVideo
  <2>6. ASSUME NEW sid \in SurfaceIds, NEW origin \in Origins, MapSurfaceToOutput(sid, origin)
        PROVE  PaintInv'
    <3>1. PixelsOf(surfaces') = PixelsOf(surfaces)
      <4>1. CASE sid \in DOMAIN surfaces
        <5>1. surfaces' = [surfaces EXCEPT ![sid].origin = origin] /\ IsSurface(surfaces[sid])
          BY <2>6, <4>1 DEF MapSurfaceToOutput, EgfxTypeOK, SurfacesOK
        <5> QED
          BY <4>1, <5>1 DEF PixelsOf, IsSurface
      <4>2. CASE sid \notin DOMAIN surfaces
        BY <2>6, <4>2 DEF MapSurfaceToOutput, PixelsOf
      <4> QED
        BY <4>1, <4>2
    <3> QED
      BY <2>6, <3>1 DEF MapSurfaceToOutput, PaintInv
  <2>7. ASSUME NEW sid \in SurfaceIds,
               \/ Progressive(sid)
               \/ \E color \in Colors : SolidFill(sid, color)
               \/ \E rect \in Rectangles, slot \in Slots : SurfaceToCache(sid, rect, slot)
        PROVE  PaintInv'
    <3>1. UNCHANGED <<surfaces, rxOpen>>
      BY <2>7 DEF Progressive, SolidFill, SurfaceToCache
    <3> QED
      BY <3>1, PaintQuiet
  <2>8. ASSUME NEW slot \in Slots,
               \/ EvictCacheEntry(slot)
               \/ \E dest \in SurfaceIds : CacheToSurface(slot, dest)
        PROVE  PaintInv'
    <3>1. UNCHANGED <<surfaces, rxOpen>>
      BY <2>8 DEF EvictCacheEntry, CacheToSurface
    <3> QED
      BY <3>1, PaintQuiet
  <2> QED
    BY <2>1, <2>2, <2>3, <2>4, <2>5, <2>6, <2>7, <2>8
<1>12. CASE UNCHANGED hvars
  BY <1>12, PaintQuiet DEF hvars, vars
<1> QED
  BY <1>1, <1>2, <1>3, <1>4, <1>5, <1>6, <1>7, <1>8, <1>9, <1>10, <1>11, <1>12 DEF HNext

\* As long as the session listens, the store is what the packets painted.
THEOREM StoreIsPainted == HSpec => []StoreMatchesPainted
<1>1. HInit => PaintInv
  BY DEF HInit, Init, PaintInv, PixelsOf, EmptyMap
<1>2. EgfxTypeOK /\ PaintInv /\ [HNext]_hvars => PaintInv'
  BY PaintStep
<1>3. PaintInv => StoreMatchesPainted
  BY DEF PaintInv, PixelsOf, StoreMatchesPainted
<1> QED
  BY <1>1, <1>2, <1>3, HistoryTypes, PTL DEF HSpec
-----------------------------------------------------------------------------
(* Copies from surface to surface. *)

Less == {pair \in Nat \X Nat : pair[1] < pair[2]}

LEMMA LessWellFounded == IsWellFoundedOn(Less, Nat)
  BY NatLessThanWellFounded, Zenon DEF OpToRel, Less

\* Of finitely many positions one is the last: the one nearest to the end.
LEMMA LastPosition ==
  ASSUME NEW n \in Nat, NEW ks \in SUBSET (1 .. n), ks # {}
  PROVE  \E k \in ks : \A j \in ks : j <= k
<1> DEFINE T == {n - k : k \in ks}
<1>1. T \in SUBSET Nat /\ T # {}
  <2>1. \A k \in ks : n - k \in Nat
    OBVIOUS
  <2>2. PICK k \in ks : TRUE
    OBVIOUS
  <2>3. n - k \in T
    BY <2>2
  <2> QED
    BY <2>1, <2>3
<1>2. PICK d \in T : \A e \in T : <<e, d>> \notin Less
  BY <1>1, LessWellFounded, WFMin
<1>3. PICK k \in ks : d = n - k
  BY <1>2
<1>4. ASSUME NEW j \in ks PROVE j <= k
  <2>1. n - j \in T /\ n - j \in Nat /\ n - k \in Nat
    BY <1>1
  <2>2. ~(n - j < n - k)
    BY <1>2, <1>3, <2>1 DEF Less
  <2> QED
    BY <2>2
<1> QED
  BY <1>4

LEMMA LastIsChosen ==
  ASSUME NEW ks \in SUBSET Nat, NEW k \in ks, \A j \in ks : j <= k
  PROVE  (CHOOSE m \in ks : \A j \in ks : j <= m) = k
<1>1. \A m \in ks : (\A j \in ks : j <= m) => m = k
  OBVIOUS
<1> QED
  BY <1>1

\* Copied for any copy c of a bitmap of w by h pixels: the area a point covers,
\* the points that cover p, and the pixel that the k-th point shows at p
Target(point, w, h) == [x |-> point.x, y |-> point.y, w |-> w, h |-> h]

Covering(c, w, h, p) == {k \in DOMAIN c.placed : Inside(p, Target(c.placed[k], w, h))}

Shown(c, p, k) ==
  c.before[c.source].pixels[<<p[1] - c.placed[k].x + c.from.x,
                              p[2] - c.placed[k].y + c.from.y>>]

CopiedOf(c, w, h, p) ==
  LET ks == Covering(c, w, h, p)
  IN  IF ks = {} THEN c.before[c.dest].pixels[p]
      ELSE Shown(c, p, CHOOSE k \in ks : \A j \in ks : j <= k)

LEMMA CopiedOfCopy ==
  ASSUME NEW p
  PROVE  /\ Copied(p) = CopiedOf(copy, loop.w, loop.h, p)
         /\ Copied(p)' = CopiedOf(copy', loop'.w, loop'.h, p)
  BY DEF Copied, CopiedOf, Covering, Shown, Target

LEMMA CopiedNowhere ==
  ASSUME NEW c, NEW w, NEW h, NEW p, Covering(c, w, h, p) = {}
  PROVE  CopiedOf(c, w, h, p) = c.before[c.dest].pixels[p]
  BY DEF CopiedOf

LEMMA CopiedLast ==
  ASSUME NEW c, NEW w, NEW h, NEW p, c.placed \in Seq(Points),
         NEW k \in Covering(c, w, h, p), \A j \in Covering(c, w, h, p) : j <= k
  PROVE  CopiedOf(c, w, h, p) = Shown(c, p, k)
<1>1. Covering(c, w, h, p) \in SUBSET Nat
  BY LenProperties DEF Covering
<1>2. (CHOOSE m \in Covering(c, w, h, p) : \A j \in Covering(c, w, h, p) : j <= m) = k
  BY <1>1, LastIsChosen
<1> QED
  BY <1>2 DEF CopiedOf

\* d is the copy c with one more point placed.
PlacesNext(c, d, point) ==
  /\ c.placed \in Seq(Points)
  /\ d.placed = Append(c.placed, point)
  /\ d.before = c.before
  /\ d.source = c.source
  /\ d.from = c.from
  /\ d.dest = c.dest

\* Another point placed shows the bitmap there, and nothing new elsewhere.
LEMMA CopiedNext ==
  ASSUME NEW c, NEW d, NEW w, NEW h, NEW p, NEW point \in Points,
         PlacesNext(c, d, point)
  PROVE  /\ Inside(p, Target(point, w, h)) =>
              CopiedOf(d, w, h, p) =
                c.before[c.source].pixels[<<p[1] - point.x + c.from.x,
                                            p[2] - point.y + c.from.y>>]
         /\ ~Inside(p, Target(point, w, h)) => CopiedOf(d, w, h, p) = CopiedOf(c, w, h, p)
<1> DEFINE before == Covering(c, w, h, p)
           after == Covering(d, w, h, p)
<1> USE DEF PlacesNext
<1>1. PICK n \in Nat : n = Len(c.placed)
  BY LenProperties
<1>2. /\ d.placed \in Seq(Points)
      /\ Len(d.placed) = n + 1
      /\ DOMAIN c.placed = 1 .. n
      /\ \A k \in 1 .. n : d.placed[k] = c.placed[k]
      /\ d.placed[n + 1] = point
  BY <1>1, AppendProperties, LenProperties
<1>3. DOMAIN d.placed = 1 .. n + 1
  BY <1>2, LenProperties
<1>4. CASE Inside(p, Target(point, w, h))
  <2>1. n + 1 \in after /\ \A j \in after : j <= n + 1
    BY <1>2, <1>3, <1>4 DEF Covering
  <2>2. CopiedOf(d, w, h, p) = Shown(d, p, n + 1)
    BY <1>2, <2>1, CopiedLast
  <2> QED
    BY <1>2, <1>4, <2>2 DEF Shown
<1>5. CASE ~Inside(p, Target(point, w, h))
  <2>1. after = before /\ before \in SUBSET (1 .. n)
    BY <1>2, <1>3, <1>5 DEF Covering
  <2>2. CASE before = {}
    BY <1>5, <2>1, <2>2, CopiedNowhere
  <2>3. CASE before # {}
    <3>1. PICK k \in before : \A j \in before : j <= k
      BY <2>1, <2>3, LastPosition
    <3>2. CopiedOf(c, w, h, p) = Shown(c, p, k)
      BY <3>1, CopiedLast
    <3>3. CopiedOf(d, w, h, p) = Shown(d, p, k)
      BY <1>2, <2>1, <3>1, CopiedLast
    <3>4. d.placed[k] = c.placed[k]
      BY <1>2, <2>1
    <3> QED
      BY <1>5, <3>2, <3>3, <3>4 DEF Shown
  <2> QED
    BY <2>2, <2>3
<1> QED
  BY <1>4, <1>5

\* The bitmap under way is the region of the source as it was before.
CopyInv ==
  copy.on =>
    /\ copy.placed \in Seq(Points)
    /\ loop.kind = "copy"
    /\ loop.sid = copy.dest
    /\ \A q \in Area(loop.w, loop.h) :
         loop.pixels[q] = copy.before[copy.source].pixels[<<q[1] + copy.from.x,
                                                            q[2] + copy.from.y>>]
    /\ copy = [on |-> TRUE, before |-> copy.before, source |-> copy.source,
               from |-> copy.from, dest |-> copy.dest, placed |-> copy.placed]
    /\ CopiesReadSnapshot

\* Steps that neither draw nor touch the loop
LEMMA CopyQuiet ==
  ASSUME CopyInv, UNCHANGED <<surfaces, loop, copy>>
  PROVE  CopyInv'
<1>1. \A p : Copied(p)' = Copied(p)
  BY CopiedOfCopy
<1>2. CASE copy.on
  <2>1. CopiesReadSnapshot'
    BY <1>1, <1>2 DEF CopyInv, CopiesReadSnapshot
  <2> QED
    BY <1>2, <2>1 DEF CopyInv
<1> QED
  BY <1>2 DEF CopyInv

\* No copy is under way while a PDU is taken up, or in the loop of another one.
LEMMA CopyOff ==
  ASSUME CopyInv, loop.kind # "copy", UNCHANGED copy
  PROVE  CopyInv'
  BY DEF CopyInv

\* The capture: nothing is placed yet.
LEMMA CopyStarts ==
  ASSUME EgfxTypeOK, CopyInv, NEW sid \in SurfaceIds, NEW dest \in SurfaceIds,
         NEW rect \in Rectangles, HSurfaceToSurface(sid, rect, dest)
  PROVE  CopyInv'
<1>1. loop = NoLoop /\ UNCHANGED surfaces
  BY DEF HSurfaceToSurface, SurfaceToSurface, Handling, store
<1>2. CASE ~CanExtract(sid, rect)
  <2>1. loop' = NoLoop /\ copy' = copy
    BY <1>1, <1>2 DEF HSurfaceToSurface, SurfaceToSurface
  <2> QED
    BY <1>1, <2>1, CopyOff DEF NoLoop
<1>3. CASE CanExtract(sid, rect)
  <2> DEFINE r == FromRectangle(rect)
             bitmap == Extract(surfaces[sid], r)
  <2>1. loop' = [kind |-> "copy", sid |-> dest, w |-> r.w, h |-> r.h, pixels |-> bitmap]
    BY <1>3 DEF HSurfaceToSurface, SurfaceToSurface, CopyLoop, CapturedBitmap
  <2>2. loop'.kind = "copy" /\ loop'.sid = dest /\ loop'.w = r.w /\ loop'.h = r.h
        /\ loop'.pixels = bitmap /\ loop' # NoLoop
    BY <2>1 DEF NoLoop
  <2>3. copy' = [on |-> TRUE, before |-> surfaces, source |-> sid,
                 from |-> [x |-> rect.left, y |-> rect.top],
                 dest |-> dest, placed |-> <<>>]
    BY <2>2 DEF HSurfaceToSurface
  <2>4. \A q \in Area(r.w, r.h) :
          bitmap[q] = surfaces[sid].pixels[<<q[1] + rect.left, q[2] + rect.top>>]
    BY DEF Extract, FromRectangle
  <2> HIDE DEF r, bitmap
  <2>5. CopiesReadSnapshot'
    <3>1. ASSUME NEW p PROVE Copied(p)' = surfaces[dest].pixels[p]
      <4>1. Covering(copy', loop'.w, loop'.h, p) = {}
        BY <2>3 DEF Covering
      <4> QED
        BY <2>3, <4>1, CopiedOfCopy DEF CopiedOf
    <3> QED
      BY <1>1, <2>3, <3>1 DEF CopiesReadSnapshot
  <2>6. copy'.placed \in Seq(Points)
    BY <2>3
  <2> QED
    BY <2>2, <2>3, <2>4, <2>5, <2>6 DEF CopyInv
<1> QED
  BY <1>2, <1>3

\* A point placed, or refused as the bitmap does not fit there
LEMMA CopyPlaces ==
  ASSUME EgfxTypeOK, CopyInv, NEW point \in Points, HCopyToPoint(point)
  PROVE  CopyInv'
<1> DEFINE r == Target(point, loop.w, loop.h)
           dest == loop.sid
<1>1. /\ loop' = loop
      /\ BlitAndSend("SurfaceCommand", dest, r, loop.pixels)
      /\ copy' = IF copy.on /\ lastTimestamp' # lastTimestamp
                 THEN [copy EXCEPT !.placed = Append(@, point)]
                 ELSE copy
  BY DEF HCopyToPoint, CopyToPoint, Target
<1> HIDE DEF r
<1>2. CASE ~copy.on
  BY <1>1, <1>2 DEF CopyInv
<1>3. CASE copy.on /\ ~Accepts(dest, r, loop.pixels)
  BY <1>1, <1>3, CopyQuiet DEF BlitAndSend, stamps
<1>4. CASE copy.on /\ Accepts(dest, r, loop.pixels)
  <2>1. /\ dest \in DOMAIN surfaces
        /\ DOMAIN loop.pixels = Area(r.w, r.h)
        /\ surfaces' = [surfaces EXCEPT ![dest].pixels = Blit(@, r, loop.pixels)]
        /\ lastTimestamp' = NextTimestamp
    BY <1>1, <1>4 DEF BlitAndSend, Accepts, SendVideo
  <2>2. lastTimestamp' # lastTimestamp
    BY <2>1, BoundsAssumption DEF NextTimestamp, EgfxTypeOK, CountersOK
  <2>3. copy' = [copy EXCEPT !.placed = Append(@, point)]
    BY <1>1, <1>4, <2>2
  <2>4. /\ copy'.on /\ copy'.before = copy.before /\ copy'.source = copy.source
        /\ copy'.from = copy.from /\ copy'.dest = copy.dest
        /\ copy'.placed = Append(copy.placed, point)
        /\ copy' = [on |-> TRUE, before |-> copy'.before, source |-> copy'.source,
                    from |-> copy'.from, dest |-> copy'.dest, placed |-> copy'.placed]
    BY <1>4, <2>3 DEF CopyInv
  <2>5. /\ copy.placed \in Seq(Points)
        /\ copy'.placed \in Seq(Points)
        /\ copy.dest = dest
    BY <1>4, <2>4, AppendProperties DEF CopyInv
  <2>6. IsSurface(surfaces[dest])
    BY <2>1 DEF EgfxTypeOK, SurfacesOK
  <2>7. /\ DOMAIN surfaces' = DOMAIN surfaces
        /\ surfaces'[dest].pixels = Blit(surfaces[dest].pixels, r, loop.pixels)
        /\ \A sid \in DOMAIN surfaces \ {dest} : surfaces'[sid] = surfaces[sid]
    BY <2>1, <2>6 DEF IsSurface
  <2>8. DOMAIN surfaces = DOMAIN copy.before
        /\ \A sid \in DOMAIN surfaces : \A p \in DOMAIN surfaces[sid].pixels :
             surfaces[sid].pixels[p] =
               IF sid = dest THEN Copied(p) ELSE copy.before[sid].pixels[p]
    BY <1>4, <2>5 DEF CopyInv, CopiesReadSnapshot
  <2>9. ASSUME NEW p \in DOMAIN surfaces[dest].pixels
        PROVE  surfaces'[dest].pixels[p] = Copied(p)'
    <3>1. /\ Copied(p) = CopiedOf(copy, loop.w, loop.h, p)
          /\ Copied(p)' = CopiedOf(copy', loop.w, loop.h, p)
      BY <1>1, CopiedOfCopy
    <3>0. /\ Inside(p, Target(point, loop.w, loop.h)) =>
               CopiedOf(copy', loop.w, loop.h, p) =
                 copy.before[copy.source].pixels[<<p[1] - point.x + copy.from.x,
                                                   p[2] - point.y + copy.from.y>>]
          /\ ~Inside(p, Target(point, loop.w, loop.h)) =>
               CopiedOf(copy', loop.w, loop.h, p) = CopiedOf(copy, loop.w, loop.h, p)
      <4>1. PlacesNext(copy, copy', point)
        BY <2>4, <2>5 DEF PlacesNext
      <4> QED
        BY <4>1, CopiedNext
    <3>2. CASE Inside(p, r)
      <4>1. Copied(p)' = copy.before[copy.source].pixels[<<p[1] - point.x + copy.from.x,
                                                           p[2] - point.y + copy.from.y>>]
        BY <3>0, <3>1, <3>2 DEF r
      <4>2. surfaces'[dest].pixels[p] = loop.pixels[<<p[1] - r.x, p[2] - r.y>>]
        BY <2>7, <2>9, <3>2 DEF Blit
      <4>3. r.x = point.x /\ r.y = point.y /\ r.w = loop.w /\ r.h = loop.h
        BY DEF r, Target
      <4>4. <<p[1] - r.x, p[2] - r.y>> \in Area(loop.w, loop.h)
        <5>1. PICK w \in Nat, h \in Nat : p \in Area(w, h)
          BY <2>6, WidthsAssumption DEF IsSurface, HoldsBitmap, Bitmaps, U16
        <5>2. p[1] \in Int /\ p[2] \in Int
          BY <5>1 DEF Area
        <5>3. loop.w \in Int /\ loop.h \in Int /\ point.x \in Int /\ point.y \in Int
          BY <1>4, PduAssumption, WidthsAssumption
             DEF CopyInv, EgfxTypeOK, ControlOK, IsLoop, NoLoop, IsCopyLoop, HoldsBitmap, U16
        <5> QED
          BY <3>2, <4>3, <5>2, <5>3 DEF Inside, Area
      <4>5. loop.pixels[<<p[1] - r.x, p[2] - r.y>>] =
              copy.before[copy.source].pixels[<<p[1] - r.x + copy.from.x,
                                                p[2] - r.y + copy.from.y>>]
        BY <1>4, <4>4 DEF CopyInv
      <4> QED
        BY <4>1, <4>2, <4>3, <4>5
    <3>3. CASE ~Inside(p, r)
      <4>1. Copied(p)' = Copied(p)
        BY <3>0, <3>1, <3>3 DEF r
      <4>2. surfaces'[dest].pixels[p] = surfaces[dest].pixels[p]
        BY <2>7, <2>9, <3>3 DEF Blit
      <4> QED
        BY <2>1, <2>8, <4>1, <4>2
    <3> QED
      BY <3>2, <3>3
  <2>10. DOMAIN surfaces'[dest].pixels = DOMAIN surfaces[dest].pixels
    BY <2>7 DEF Blit
  <2>11. CopiesReadSnapshot'
    BY <2>4, <2>5, <2>7, <2>8, <2>9, <2>10 DEF CopiesReadSnapshot
  <2> QED
    BY <1>1, <1>4, <2>4, <2>5, <2>11 DEF CopyInv
<1> QED
  BY <1>2, <1>3, <1>4

LEMMA CopyStep == EgfxTypeOK /\ CopyInv /\ [HNext]_hvars => CopyInv'
<1> SUFFICES ASSUME EgfxTypeOK, CopyInv, [HNext]_hvars
             PROVE  CopyInv'
  OBVIOUS
<1> USE DEF store
<1>0. NoLoop.kind # "copy"
  BY DEF NoLoop
<1>1. ASSUME NEW sid \in SurfaceIds, NEW size \in SurfaceSizes, HCreateSurface(sid, size)
      PROVE  CopyInv'
  BY <1>0, <1>1, CopyOff DEF HCreateSurface, CreateSurface, Handling
<1>2. ASSUME NEW sid \in SurfaceIds, HDeleteSurface(sid)
      PROVE  CopyInv'
  BY <1>0, <1>2, CopyOff DEF HDeleteSurface, DeleteSurface, Handling
<1>3. CASE HResetGraphics
  BY <1>0, <1>3, CopyOff DEF HResetGraphics, ResetGraphics, Handling
<1>4. CASE HStartFrame
  BY <1>0, <1>4, CopyOff DEF HStartFrame, StartFrame, Handling
<1>5. ASSUME NEW id \in FrameIds, HEndFrame(id)
      PROVE  CopyInv'
  BY <1>0, <1>5, CopyOff DEF HEndFrame, EndFrame, Handling
<1>6. CASE HReceive
  BY <1>6, CopyQuiet DEF HReceive, Receive
<1>7. CASE HLoopDone
  BY <1>7 DEF HLoopDone, NoCopy, CopyInv
<1>8. CASE HOtherDraw
  <2>1. UNCHANGED copy
    BY <1>8 DEF OtherDraw, HOtherDraw
  <2>2. loop.kind # "copy"
    BY <1>0, <1>8 DEF OtherDraw, HOtherDraw, FillRectangle, DrawTile, ClearCodec, Handling
  <2> QED
    BY <2>1, <2>2, CopyOff
<1>9. CASE HQuiet
  <2> USE <1>9 DEF Quiet, HQuiet
  <2>1. CASE Start \/ Process \/ ProcessMalformed \/ Close \/ Tick \/ ReceiverDropped
    BY <2>1, CopyQuiet DEF Start, Process, ProcessMalformed, Close, Tick, ReceiverDropped
  <2>2. CASE Finish \/ Avc420Malformed
    BY <1>0, <2>2, CopyOff DEF Finish, Avc420Malformed
  <2>3. CASE CapabilitiesConfirm \/ UnsupportedCodec \/ IgnoredPdu
    BY <1>0, <2>3, CopyOff DEF CapabilitiesConfirm, UnsupportedCodec, IgnoredPdu, Handling
  <2>4. ASSUME NEW sid \in SurfaceIds,
               \/ Progressive(sid)
               \/ \E origin \in Origins : MapSurfaceToOutput(sid, origin)
               \/ \E color \in Colors : SolidFill(sid, color)
               \/ \E rect \in Rectangles : Avc420(sid, rect)
               \/ \E rect \in Rectangles, slot \in Slots : SurfaceToCache(sid, rect, slot)
        PROVE  CopyInv'
    <3>1. loop = NoLoop
      BY <2>4 DEF Progressive, MapSurfaceToOutput, SolidFill, Avc420, SurfaceToCache, Handling
    <3> QED
      BY <1>0, <3>1, CopyOff
  <2>5. ASSUME NEW slot \in Slots,
               \/ EvictCacheEntry(slot)
               \/ \E dest \in SurfaceIds : CacheToSurface(slot, dest)
        PROVE  CopyInv'
    <3>1. loop = NoLoop
      BY <2>5 DEF EvictCacheEntry, CacheToSurface, Handling
    <3> QED
      BY <1>0, <3>1, CopyOff
  <2> QED
    BY <2>1, <2>2, <2>3, <2>4, <2>5
<1>10. CASE UNCHANGED hvars
  BY <1>10, CopyQuiet DEF hvars, vars
<1> QED
  BY <1>1, <1>2, <1>3, <1>4, <1>5, <1>6, <1>7, <1>8, <1>9, <1>10, CopyStarts, CopyPlaces DEF HNext

\* A copy shows the source as it was before the PDU at each of its points, and
\* changes nothing else, on a surface that overlaps itself, too.
THEOREM CopiesRead == HSpec => []CopiesReadSnapshot
<1>1. HInit => CopyInv
  BY DEF HInit, NoCopy, CopyInv
<1>2. EgfxTypeOK /\ CopyInv /\ [HNext]_hvars => CopyInv'
  BY CopyStep
<1>3. CopyInv => CopiesReadSnapshot
  BY DEF CopyInv, CopiesReadSnapshot
<1> QED
  BY <1>1, <1>2, <1>3, HistoryTypes, PTL DEF HSpec
=============================================================================
