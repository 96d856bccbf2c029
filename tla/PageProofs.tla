----------------------------- MODULE PageProofs -----------------------------
(***************************************************************************)
(* Proofs about Page: what a cell of the canvas shows.  The page makes the *)
(* steps of Decoder and no others, so that the invariant of DecoderProofs  *)
(* holds of it.                                                            *)
(***************************************************************************)
EXTENDS Page, DecoderProofs

PageDecodes == [PNext]_pageVars => [Next]_vars

\* The page makes steps of the decoders.
LEMMA PageSteps == PageDecodes
<1>. SUFFICES ASSUME [PNext]_pageVars PROVE [Next]_vars
  BY DEF PageDecodes
<1>1. CASE UNCHANGED pageVars
  BY <1>1 DEF pageVars
<1>2. CASE Disconnect
  BY <1>2 DEF Disconnect, Next
<1>3. ASSUME NEW kind, Message(kind) PROVE UNCHANGED vars
  BY <1>3 DEF Message, Control
<1>4. ASSUME NEW new, Resize(new) PROVE UNCHANGED vars
  BY <1>4 DEF Resize, Control
<1>5. ASSUME Refuse \/ \E cells \in Regions : Tile(cells) PROVE UNCHANGED vars
  BY <1>5 DEF Refuse, Tile
<1>6. ASSUME NEW s \in Surfaces,
             \/ \E packet \in Packets, cells \in Regions : Video(s, packet, cells)
             \/ DrawFrame(s) \/ Answer(s) \/ Drain(s) \/ TakeUp(s) \/ Failure(s)
      PROVE  Next
  BY <1>6 DEF Video, DrawFrame, Answer, Drain, TakeUp, Failure, Next
<1>. QED  BY <1>1, <1>2, <1>3, <1>4, <1>5, <1>6 DEF PNext

\* The invariant of the decoders holds of the page.
LEMMA PageInvHolds == PSpec => []Inv
<1>1. PInit => Inv
  BY InitInv DEF PInit
<1>2. Inv /\ [PNext]_pageVars => Inv'
  BY PageSteps, NextInv DEF PageDecodes
<1>. QED  BY <1>1, <1>2, PTL DEF PSpec

-----------------------------------------------------------------------------
(* The packets that arrived. *)

ArrivalsType == [surface : Surfaces \cup {Nobody}, number : 0 .. MaxPackets, cells : Regions]

\* The packets of a surface arrive one after the other.
Numbered ==
  /\ arrived \in Seq(ArrivalsType)
  /\ \A k \in 1 .. Len(arrived) :
       arrived[k].surface # Nobody => arrived[k].number \in 1 .. Len(stream[arrived[k].surface])
  /\ \A s \in Surfaces : \A n \in 1 .. Len(stream[s]) :
       \E k \in 1 .. Len(arrived) : arrived[k].surface = s /\ arrived[k].number = n
  /\ \A j, k \in 1 .. Len(arrived) :
       arrived[j].surface = arrived[k].surface /\ arrived[k].surface # Nobody /\ j < k =>
         arrived[j].number < arrived[k].number

\* A cell shows a packet that arrived, and nothing beyond the canvas.
CanvasInv ==
  /\ canvas \in [Cells -> 0 .. Len(arrived)]
  /\ size \in Sizes
  /\ \A c \in Cells \ size : canvas[c] = 0
  /\ status \in {"info", "live", "error"}
  /\ resized \in 0 .. Len(arrived)
  /\ controls \in 0 .. MaxControls

Newest(c, S) == canvas[c] \in S /\ \A j \in S : j <= canvas[c]

TilesInv ==
  \A c \in Cells :
    (\A k \in DOMAIN arrived : c \in arrived[k].cells => IsTile(k)) =>
      \/ Covering(c) = {} /\ canvas[c] = 0
      \/ Newest(c, Covering(c))

\* A packet arrives after the others.
LEMMA ArriveAppends ==
  ASSUME Numbered, NEW s \in Surfaces \cup {Nobody}, NEW n \in 0 .. MaxPackets,
         NEW cells \in Regions, Arrive(s, n, cells)
  PROVE  /\ arrived' \in Seq(ArrivalsType)
         /\ Len(arrived) \in Nat /\ Len(arrived') = Len(arrived) + 1
         /\ DOMAIN arrived = 1 .. Len(arrived) /\ DOMAIN arrived' = 1 .. Len(arrived) + 1
         /\ \A k \in 1 .. Len(arrived) : arrived'[k] = arrived[k]
         /\ arrived'[Len(arrived) + 1].surface = s
         /\ arrived'[Len(arrived) + 1].number = n
         /\ arrived'[Len(arrived) + 1].cells = cells
<1>1. PICK packet : packet = [surface |-> s, number |-> n, cells |-> cells]
  OBVIOUS
<1>2. /\ packet \in ArrivalsType
      /\ packet.surface = s /\ packet.number = n /\ packet.cells = cells
  BY <1>1 DEF ArrivalsType
<1>3. arrived \in Seq(ArrivalsType) /\ arrived' = Append(arrived, packet)
  BY <1>1 DEF Numbered, Arrive
<1>4. /\ Len(arrived) \in Nat /\ DOMAIN arrived = 1 .. Len(arrived)
      /\ arrived' \in Seq(ArrivalsType) /\ Len(arrived') = Len(arrived) + 1
      /\ \A k \in 1 .. Len(arrived) : arrived'[k] = arrived[k]
      /\ arrived'[Len(arrived) + 1] = packet
  BY <1>2, <1>3, AppendProperties, LenProperties
<1>5. DOMAIN arrived' = 1 .. Len(arrived) + 1
  BY <1>4, LenProperties
<1>. QED  BY <1>2, <1>4, <1>5

LEMMA VideoNumbered ==
  ASSUME Inv, Numbered, NEW s \in Surfaces, NEW packet \in Packets, NEW cells \in Regions,
         Video(s, packet, cells)
  PROVE  /\ Numbered'
         /\ Len(stream[s]) + 1 \in 0 .. MaxPackets /\ Arrive(s, Len(stream[s]) + 1, cells)
<1>1. /\ Push(s, packet) /\ Arrive(s, Len(stream'[s]), cells)
      /\ Len(stream'[s]) = Len(stream[s]) + 1
      /\ \A r \in Surfaces : r # s => Len(stream'[r]) = Len(stream[r])
  BY PushAppends DEF Video, Inv, Total
<1>2. Len(stream[s]) + 1 \in 0 .. MaxPackets /\ Arrive(s, Len(stream[s]) + 1, cells)
  <2>1. Len(stream[s]) < MaxPackets /\ Len(stream[s]) \in Nat
    BY <1>1, Types DEF Push, Total, Inv
  <2>. QED  BY <1>1, <2>1, LimitsAssumption
<1>3. /\ arrived' \in Seq(ArrivalsType)
      /\ Len(arrived) \in Nat /\ Len(arrived') = Len(arrived) + 1
      /\ \A k \in 1 .. Len(arrived) : arrived'[k] = arrived[k]
      /\ arrived'[Len(arrived) + 1].surface = s
      /\ arrived'[Len(arrived) + 1].number = Len(stream[s]) + 1
  BY <1>2, ArriveAppends
<1>4. \A r \in Surfaces : Len(stream[r]) \in Nat
  BY Types DEF Inv, Total
<1>5. ASSUME NEW k \in 1 .. Len(arrived) PROVE arrived[k].surface \in Surfaces \cup {Nobody}
  <2>1. arrived[k] \in ArrivalsType
    BY ElementOfSeq DEF Numbered
  <2>. QED  BY <2>1 DEF ArrivalsType
<1>6. ASSUME NEW k \in 1 .. Len(arrived'), arrived'[k].surface # Nobody
      PROVE  arrived'[k].number \in 1 .. Len(stream'[arrived'[k].surface])
  <2>1. CASE k = Len(arrived) + 1
    BY <1>1, <1>3, <1>4, <2>1
  <2>2. CASE k \in 1 .. Len(arrived)
    <3>1. /\ arrived'[k] = arrived[k] /\ arrived[k].surface \in Surfaces
          /\ arrived[k].number \in 1 .. Len(stream[arrived[k].surface])
      BY <1>3, <1>5, <1>6, <2>2 DEF Numbered
    <3>2. PICK r \in Surfaces : r = arrived[k].surface
      BY <3>1
    <3>3. Len(stream'[r]) = Len(stream[r]) \/ Len(stream'[r]) = Len(stream[r]) + 1
      BY <1>1
    <3>. QED  BY <1>4, <3>1, <3>2, <3>3
  <2>. QED  BY <1>3, <2>1, <2>2
<1>7. ASSUME NEW r \in Surfaces, NEW n \in 1 .. Len(stream'[r])
      PROVE  \E k \in 1 .. Len(arrived') : arrived'[k].surface = r /\ arrived'[k].number = n
  <2>1. CASE r = s /\ n = Len(stream[s]) + 1
    <3>1. Len(arrived) + 1 \in 1 .. Len(arrived')
      BY <1>3
    <3>. QED  BY <1>3, <2>1, <3>1
  <2>2. CASE ~(r = s /\ n = Len(stream[s]) + 1)
    <3>1. n \in 1 .. Len(stream[r])
      BY <1>1, <1>4, <1>7, <2>2
    <3>2. PICK k \in 1 .. Len(arrived) : arrived[k].surface = r /\ arrived[k].number = n
      BY <3>1 DEF Numbered
    <3>3. k \in 1 .. Len(arrived')
      BY <1>3
    <3>. QED  BY <1>3, <3>2, <3>3
  <2>. QED  BY <2>1, <2>2
<1>8. ASSUME NEW j \in 1 .. Len(arrived'), NEW k \in 1 .. Len(arrived'), j < k,
             arrived'[j].surface = arrived'[k].surface, arrived'[k].surface # Nobody
      PROVE  arrived'[j].number < arrived'[k].number
  <2>1. j \in 1 .. Len(arrived)
    BY <1>3, <1>8
  <2>2. CASE k = Len(arrived) + 1
    <3>1. arrived[j].surface = s /\ arrived[j].number \in 1 .. Len(stream[s])
      BY <1>3, <1>8, <2>1, <2>2 DEF Numbered
    <3>. QED  BY <1>3, <1>4, <2>1, <2>2, <3>1
  <2>3. CASE k \in 1 .. Len(arrived)
    BY <1>3, <1>8, <2>1, <2>3 DEF Numbered
  <2>. QED  BY <1>3, <2>2, <2>3
<1>. QED  BY <1>2, <1>3, <1>6, <1>7, <1>8 DEF Numbered

LEMMA TileNumbered ==
  ASSUME Numbered, NEW cells \in Regions, Tile(cells)
  PROVE  Numbered' /\ Arrive(Nobody, 0, cells)
<1>1. Arrive(Nobody, 0, cells) /\ UNCHANGED stream
  BY DEF Tile, vars
<1>2. /\ arrived' \in Seq(ArrivalsType)
      /\ Len(arrived) \in Nat /\ Len(arrived') = Len(arrived) + 1
      /\ \A k \in 1 .. Len(arrived) : arrived'[k] = arrived[k]
      /\ arrived'[Len(arrived) + 1].surface = Nobody
  <2>1. 0 \in 0 .. MaxPackets /\ Nobody \in Surfaces \cup {Nobody}
    BY LimitsAssumption
  <2>. QED  BY <1>1, <2>1, ArriveAppends
<1>4. ASSUME NEW k \in 1 .. Len(arrived'), arrived'[k].surface # Nobody
      PROVE  k \in 1 .. Len(arrived) /\ arrived'[k] = arrived[k]
  BY <1>2, <1>4
<1>5. \A k \in 1 .. Len(arrived) : k \in 1 .. Len(arrived')
  BY <1>2
<1>6. ASSUME NEW k \in 1 .. Len(arrived'), arrived'[k].surface # Nobody
      PROVE  arrived'[k].number \in 1 .. Len(stream'[arrived'[k].surface])
  BY <1>1, <1>4, <1>6 DEF Numbered
<1>7. ASSUME NEW s \in Surfaces, NEW n \in 1 .. Len(stream'[s])
      PROVE  \E k \in 1 .. Len(arrived') : arrived'[k].surface = s /\ arrived'[k].number = n
  <2>1. PICK k \in 1 .. Len(arrived) : arrived[k].surface = s /\ arrived[k].number = n
    BY <1>1 DEF Numbered
  <2>. QED  BY <1>2, <1>5, <2>1
<1>8. ASSUME NEW j \in 1 .. Len(arrived'), NEW k \in 1 .. Len(arrived'), j < k,
             arrived'[j].surface = arrived'[k].surface, arrived'[k].surface # Nobody
      PROVE  arrived'[j].number < arrived'[k].number
  BY <1>4, <1>8 DEF Numbered
<1>. QED  BY <1>1, <1>2, <1>6, <1>7, <1>8 DEF Numbered

\* The other steps leave it as it is.
LEMMA NumberedStays ==
  ASSUME Numbered, UNCHANGED <<arrived, stream>>
  PROVE  Numbered'
  BY DEF Numbered

-----------------------------------------------------------------------------
(* What was drawn. *)

LEMMA DrawnRange ==
  ASSUME Inv, NEW s \in Surfaces
  PROVE  \A n \in Range(drawn[s]) : n \in Nat /\ n <= Len(stream[s])
<1>1. /\ drawn[s] \in Seq(Nat) /\ Start(s) \in Nat /\ Len(drawn[s]) \in Nat
      /\ Run(drawn[s], Start(s)) /\ Start(s) + Len(drawn[s]) <= Len(stream[s]) + 1
      /\ Len(stream[s]) \in Nat
  BY Types DEF Inv, SurfaceInv, DrawnInv, Total
<1>2. PICK e \in Nat : Start(s) + Len(drawn[s]) = e
  BY <1>1
<1>3. Range(drawn[s]) = Start(s) .. e - 1
  BY <1>1, <1>2, RunRange
<1>. QED  BY <1>1, <1>2, <1>3

\* A frame is newer than those of its surface that were drawn before.
LEMMA DrawnNext ==
  ASSUME Inv, NEW s \in Surfaces, DrawFrame(s), NEW n, n = Head(decoding[s])
  PROVE  /\ n \in 1 .. Len(stream[s])
         /\ \A m \in Range(drawn'[s]) : m \in Nat /\ m <= n
         /\ \A r \in Surfaces : r # s => drawn'[r] = drawn[r]
         /\ drawn'[s] = Append(drawn[s], n) /\ drawn[s] \in Seq(Nat)
<1>1. /\ drawn'[s] = Append(drawn[s], n) /\ n = Start(s) + Len(drawn[s])
      /\ n <= Total(s) /\ Start(s) # 0
  BY DrawSurface DEF DrawFrame
<1>2. /\ drawn[s] \in Seq(Nat) /\ Start(s) \in Nat /\ Len(drawn[s]) \in Nat
      /\ Total(s) \in Nat /\ Run(drawn[s], Start(s))
  BY Types DEF Inv, SurfaceInv, DrawnInv
<1>3. /\ drawn'[s] \in Seq(Nat) /\ Len(drawn'[s]) = Len(drawn[s]) + 1
      /\ Run(drawn'[s], Start(s))
  BY <1>1, <1>2, RunAppend
<1>4. n \in Nat /\ n + 1 \in Nat /\ Start(s) + Len(drawn'[s]) = n + 1
  BY <1>1, <1>2, <1>3
<1>5. Range(drawn'[s]) = Start(s) .. (n + 1) - 1
  BY <1>2, <1>3, <1>4, RunRange
<1>6. \A m \in Range(drawn'[s]) : m \in Nat /\ m <= n
  BY <1>2, <1>4, <1>5
<1>7. \A r \in Surfaces : r # s => drawn'[r] = drawn[r]
  BY DEF DrawFrame, Draw, Deliver, Inv, DecoderTypeOK
<1>. QED  BY <1>1, <1>2, <1>4, <1>6, <1>7 DEF Total

\* It goes where its packet says.
LEMMA FrameArrival ==
  ASSUME Inv, Numbered, NEW s \in Surfaces, DrawFrame(s)
  PROVE  \E k \in 1 .. Len(arrived) :
           /\ arrived[k].surface = s /\ arrived[k].number = Head(decoding[s])
           /\ DrawOn(arrived[k].cells, k) /\ status' = "live"
           /\ UNCHANGED <<size, history>>
<1>1. PICK n : n = Head(decoding[s])
  OBVIOUS
<1>2. n \in 1 .. Len(stream[s]) /\ n \in metadata[s]
  BY <1>1, DrawnNext, DrawSurface DEF DrawFrame
<1>3. PICK k : k = Arrival(s, n)
  OBVIOUS
<1>4. DOMAIN arrived = 1 .. Len(arrived)
  BY LenProperties DEF Numbered
<1>5. \E j \in DOMAIN arrived : arrived[j].surface = s /\ arrived[j].number = n
  BY <1>2, <1>4 DEF Numbered
<1>6. k \in 1 .. Len(arrived) /\ arrived[k].surface = s /\ arrived[k].number = n
  BY <1>3, <1>4, <1>5 DEF Arrival
<1>. QED  BY <1>1, <1>2, <1>3, <1>6 DEF DrawFrame

-----------------------------------------------------------------------------
(* The canvas. *)

\* What the page shows, apart from the status line and the count of controls
Canvas == Numbered /\ CanvasInv /\ OnlyFramesComeLate /\ TilesInv

LEMMA ArrivedTypes ==
  ASSUME Numbered
  PROVE  /\ DOMAIN arrived = 1 .. Len(arrived) /\ Len(arrived) \in Nat
         /\ \A k \in 1 .. Len(arrived) :
              /\ arrived[k].surface \in Surfaces \cup {Nobody}
              /\ arrived[k].cells \in Regions
              /\ arrived[k].number \in 0 .. MaxPackets
<1>1. ASSUME NEW k \in 1 .. Len(arrived)
      PROVE  /\ arrived[k].surface \in Surfaces \cup {Nobody}
             /\ arrived[k].cells \in Regions /\ arrived[k].number \in 0 .. MaxPackets
  <2>1. arrived[k] \in ArrivalsType
    BY ElementOfSeq DEF Numbered
  <2>. QED  BY <2>1 DEF ArrivalsType
<1>. QED  BY <1>1, LenProperties DEF Numbered

LEMMA ArrivalsAreTyped ==
  ASSUME Numbered
  PROVE  \A k \in 1 .. Len(arrived) :
           arrived[k] \in [surface : Surfaces \cup {Nobody}, number : 0 .. MaxPackets,
                           cells : Regions]
<1>1. \A k \in 1 .. Len(arrived) : arrived[k] \in ArrivalsType
  BY ElementOfSeq DEF Numbered
<1>. QED  BY <1>1 DEF ArrivalsType

\* Steps that draw nothing and change no size
LEMMA CanvasStays ==
  ASSUME Canvas, UNCHANGED <<canvas, size, arrived, resized, drawn, stream>>,
         status' \in {"info", "live", "error"}, controls' \in 0 .. MaxControls
  PROVE  Canvas'
<1>1. Numbered'
  BY NumberedStays DEF Canvas
<1>2. CanvasInv'
  BY DEF Canvas, CanvasInv
<1>3. OnlyFramesComeLate'
  BY DEF Canvas, OnlyFramesComeLate, WasDrawn, IsTile, Covering
<1>4. TilesInv'
  BY DEF Canvas, TilesInv, Newest, IsTile, Covering
<1>. QED  BY <1>1, <1>2, <1>3, <1>4 DEF Canvas

\* A packet that arrives: a tile, which is drawn at once, or a video packet
LEMMA CanvasArrives ==
  ASSUME Canvas, Numbered', NEW s \in Surfaces \cup {Nobody}, NEW n \in 0 .. MaxPackets,
         NEW cells \in Regions, Arrive(s, n, cells), UNCHANGED <<drawn, size>>,
         status' \in {"info", "live", "error"},
         s = Nobody => DrawOn(cells, Len(arrived')),
         s # Nobody => canvas' = canvas /\ n \notin Range(drawn[s])
  PROVE  Canvas'
<1>. PICK L : L = Len(arrived)
  OBVIOUS
<1>1. /\ Len(arrived) = L /\ L \in Nat /\ Len(arrived') = L + 1
      /\ DOMAIN arrived = 1 .. L /\ DOMAIN arrived' = 1 .. L + 1
      /\ \A k \in 1 .. L : arrived'[k] = arrived[k]
      /\ arrived'[L + 1].surface = s /\ arrived'[L + 1].number = n
      /\ arrived'[L + 1].cells = cells
      /\ UNCHANGED <<resized, controls>>
  BY ArriveAppends DEF Canvas, Arrive
<1>2. /\ canvas \in [Cells -> 0 .. L] /\ resized \in 0 .. L
  BY <1>1 DEF Canvas, CanvasInv
<1>3. ASSUME NEW c \in Cells
      PROVE  /\ canvas'[c] = IF s = Nobody /\ c \in cells \cap size THEN L + 1 ELSE canvas[c]
             /\ canvas[c] \in 0 .. L
  BY <1>1, <1>2 DEF DrawOn
<1>4. CanvasInv'
  <2>1. canvas' \in [Cells -> 0 .. L + 1]
    BY <1>1, <1>2 DEF DrawOn
  <2>2. \A c \in Cells \ size : canvas'[c] = 0
    BY <1>3 DEF Canvas, CanvasInv
  <2>. QED  BY <1>1, <1>2, <2>1, <2>2 DEF Canvas, CanvasInv
<1>5. ASSUME NEW c \in Cells
      PROVE  /\ c \in cells \cap size => Covering(c)' = Covering(c) \cup {L + 1}
             /\ c \notin cells \cap size => Covering(c)' = Covering(c)
  BY <1>1, <1>2 DEF Covering
<1>6. \A k \in 1 .. L : WasDrawn(k)' = WasDrawn(k)
  BY <1>1 DEF IsTile, WasDrawn
<1>7. WasDrawn(L + 1)' => s = Nobody
  BY <1>1 DEF IsTile, WasDrawn
<1>8. OnlyFramesComeLate'
  <2>. SUFFICES ASSUME NEW c \in Cells, NEW k \in Covering(c)', WasDrawn(k)', canvas'[c] < k
                PROVE  /\ canvas'[c] # 0 /\ arrived'[canvas'[c]].surface # Nobody
                       /\ arrived'[canvas'[c]].surface # arrived'[k].surface
    BY DEF OnlyFramesComeLate, IsTile
  <2>1. CASE k \in Covering(c)
    <3>1. k \in 1 .. L /\ WasDrawn(k)
      BY <1>1, <1>6, <2>1 DEF Covering
    <3>2. canvas'[c] = canvas[c] /\ canvas[c] \in 0 .. L
      BY <1>3, <3>1
    <3>3. /\ canvas[c] # 0 /\ arrived[canvas[c]].surface # Nobody
          /\ arrived[canvas[c]].surface # arrived[k].surface
      BY <2>1, <3>1, <3>2 DEF Canvas, OnlyFramesComeLate, IsTile
    <3>. QED  BY <1>1, <3>1, <3>2, <3>3
  <2>2. CASE k \notin Covering(c)
    <3>1. k = L + 1 /\ c \in cells \cap size
      BY <1>5, <2>2
    <3>. QED  BY <1>3, <1>7, <3>1
  <2>. QED  BY <2>1, <2>2
<1>9. TilesInv'
  <2>. SUFFICES ASSUME NEW c \in Cells,
                       \A k \in DOMAIN arrived' :
                         c \in arrived'[k].cells => arrived'[k].surface = Nobody
                PROVE  (Covering(c)' = {} /\ canvas'[c] = 0) \/ Newest(c, Covering(c))'
    BY DEF TilesInv, IsTile
  <2>1. (Covering(c) = {} /\ canvas[c] = 0) \/ Newest(c, Covering(c))
    BY <1>1 DEF Canvas, TilesInv, IsTile
  <2>2. CASE c \in cells \cap size
    <3>1. s = Nobody
      BY <1>1, <2>2
    <3>2. canvas'[c] = L + 1 /\ Covering(c)' = Covering(c) \cup {L + 1}
      BY <1>3, <1>5, <2>2, <3>1
    <3>3. \A k \in Covering(c) : k \in 1 .. L
      BY <1>1 DEF Covering
    <3>. QED  BY <1>1, <3>2, <3>3 DEF Newest
  <2>3. CASE c \notin cells \cap size
    BY <1>3, <1>5, <2>1, <2>3 DEF Newest
  <2>. QED  BY <2>2, <2>3
<1>. QED  BY <1>4, <1>8, <1>9 DEF Canvas

\* A resize clears the canvas, or leaves it as it is.
LEMMA CanvasResizes ==
  ASSUME Canvas, NEW new \in Sizes, Resize(new)
  PROVE  Canvas'
<1>1. /\ UNCHANGED <<vars, arrived, status>> /\ controls' = controls + 1
      /\ controls < MaxControls
  BY DEF Resize, Control
<1>2. controls' \in 0 .. MaxControls /\ status' \in {"info", "live", "error"}
  BY <1>1, RegionsAssumption DEF Canvas, CanvasInv
<1>3. CASE new = size
  BY <1>1, <1>2, <1>3, CanvasStays DEF Resize, vars
<1>4. CASE new # size
  <2>1. /\ size' = new /\ canvas' = [c \in Cells |-> 0] /\ resized' = Len(arrived)
        /\ Len(arrived) \in Nat /\ DOMAIN arrived = 1 .. Len(arrived)
    BY <1>4, ArrivedTypes DEF Resize, Canvas
  <2>2. \A c \in Cells : Covering(c)' = {} /\ canvas'[c] = 0
    BY <1>1, <2>1 DEF Covering
  <2>3. Numbered'
    BY <1>1, NumberedStays DEF Canvas, vars
  <2>4. CanvasInv'
    BY <1>1, <1>2, <2>1 DEF CanvasInv
  <2>5. OnlyFramesComeLate' /\ TilesInv'
    BY <2>2 DEF OnlyFramesComeLate, TilesInv
  <2>. QED  BY <2>3, <2>4, <2>5 DEF Canvas
<1>. QED  BY <1>3, <1>4

\* A video frame: it hides nothing but older frames of its surface, or what
\* other surfaces and tiles drew.
LEMMA CanvasFrame ==
  ASSUME Inv, Canvas, NEW s \in Surfaces, DrawFrame(s)
  PROVE  Canvas'
<1>n. PICK n : n = Head(decoding[s])
  OBVIOUS
<1>k. PICK f \in 1 .. Len(arrived) :
         /\ arrived[f].surface = s /\ arrived[f].number = n
         /\ DrawOn(arrived[f].cells, f) /\ status' = "live"
         /\ UNCHANGED <<size, arrived, resized, controls>>
  BY <1>n, FrameArrival DEF Canvas, history
<1>1. /\ DOMAIN arrived = 1 .. Len(arrived) /\ Len(arrived) \in Nat
      /\ s # Nobody /\ UNCHANGED stream
  BY ArrivedTypes, SurfacesAssumption DEF Canvas, DrawFrame, Draw, Deliver
<1>2. /\ n \in Nat /\ \A m \in Range(drawn'[s]) : m \in Nat /\ m <= n
      /\ \A r \in Surfaces : r # s => drawn'[r] = drawn[r]
  BY <1>n, DrawnNext
<1>3. ASSUME NEW c \in Cells
      PROVE  /\ canvas'[c] = IF c \in arrived[f].cells \cap size THEN f ELSE canvas[c]
             /\ canvas[c] \in 0 .. Len(arrived) /\ Covering(c)' = Covering(c)
  BY <1>k DEF DrawOn, Covering, Canvas, CanvasInv
<1>4. Numbered'
  BY <1>k, <1>1, NumberedStays DEF Canvas
<1>5. CanvasInv'
  <2>1. canvas' \in [Cells -> 0 .. Len(arrived)]
    BY <1>k, <1>1 DEF DrawOn, Canvas, CanvasInv
  <2>2. \A c \in Cells \ size : canvas'[c] = 0
    BY <1>3 DEF Canvas, CanvasInv
  <2>. QED  BY <1>k, <2>1, <2>2 DEF Canvas, CanvasInv
<1>6. ASSUME NEW k \in 1 .. Len(arrived), WasDrawn(k)', arrived[k].surface = s
      PROVE  k <= f
  <2>1. arrived[k].number <= n
    BY <1>k, <1>1, <1>2, <1>6 DEF WasDrawn, IsTile
  <2>2. ~(f < k)
    BY <1>k, <1>1, <1>2, <1>6, <2>1, ArrivedTypes DEF Canvas, Numbered
  <2>. QED  BY <1>1, <2>2
<1>7. ASSUME NEW k \in 1 .. Len(arrived), WasDrawn(k)', ~WasDrawn(k)
      PROVE  k = f
  <2>1. arrived[k].surface = s
    BY <1>k, <1>2, <1>7, ArrivedTypes DEF WasDrawn, IsTile, Canvas
  <2>2. arrived[k].number \in Range(drawn'[s]) /\ arrived[k].number \notin Range(drawn[s])
    BY <1>k, <1>1, <1>7, <2>1 DEF WasDrawn, IsTile
  <2>3. drawn[s] \in Seq(Nat) /\ drawn'[s] = drawn[s] \o <<n>> /\ <<n>> \in Seq(Nat)
    <3>1. drawn[s] \in Seq(Nat) /\ drawn'[s] = Append(drawn[s], n)
      BY <1>n, DrawnNext
    <3>2. Append(drawn[s], n) = drawn[s] \o <<n>>
      BY <1>2, <3>1, AppendIsConcat
    <3>. QED  BY <1>2, <3>1, <3>2
  <2>4. Range(drawn'[s]) = Range(drawn[s]) \cup Range(<<n>>)
    BY <2>3, RangeConcatenation
  <2>5. Range(<<n>>) = {n}
    BY DEF Range
  <2>6. arrived[k].number = n
    BY <2>2, <2>4, <2>5
  <2>. QED  BY <1>k, <1>1, <1>2, <2>1, <2>6, ArrivedTypes DEF Canvas, Numbered
<1>8. OnlyFramesComeLate'
  <2>. SUFFICES ASSUME NEW c \in Cells, NEW k \in Covering(c)', WasDrawn(k)', canvas'[c] < k
                PROVE  /\ canvas'[c] # 0 /\ arrived'[canvas'[c]].surface # Nobody
                       /\ arrived'[canvas'[c]].surface # arrived'[k].surface
    BY DEF OnlyFramesComeLate, IsTile
  <2>1. k \in Covering(c) /\ k \in 1 .. Len(arrived)
    BY <1>1, <1>3 DEF Covering
  <2>2. CASE c \in arrived[f].cells \cap size
    <3>1. canvas'[c] = f /\ ~(k <= f)
      BY <1>1, <1>3, <2>1, <2>2
    <3>2. arrived[k].surface # s
      BY <1>6, <2>1, <3>1
    <3>. QED  BY <1>k, <1>1, <3>1, <3>2
  <2>3. CASE c \notin arrived[f].cells \cap size
    <3>1. canvas'[c] = canvas[c] /\ canvas[c] \in 0 .. Len(arrived)
      BY <1>3, <2>3
    <3>2. CASE WasDrawn(k)
      BY <1>k, <2>1, <3>1, <3>2 DEF Canvas, OnlyFramesComeLate, IsTile
    <3>3. CASE ~WasDrawn(k)
      <4>1. k = f
        BY <1>7, <2>1, <3>3
      <4>. QED  BY <2>1, <2>3, <4>1 DEF Covering
    <3>. QED  BY <3>2, <3>3
  <2>. QED  BY <2>2, <2>3
<1>9. TilesInv'
  <2>. SUFFICES ASSUME NEW c \in Cells,
                       \A k \in DOMAIN arrived :
                         c \in arrived[k].cells => arrived[k].surface = Nobody
                PROVE  (Covering(c)' = {} /\ canvas'[c] = 0) \/ Newest(c, Covering(c))'
    BY <1>k DEF TilesInv, IsTile
  <2>1. c \notin arrived[f].cells
    BY <1>k, <1>1
  <2>2. (Covering(c) = {} /\ canvas[c] = 0) \/ Newest(c, Covering(c))
    BY DEF Canvas, TilesInv, IsTile
  <2>. QED  BY <1>3, <2>1, <2>2 DEF Newest
<1>. QED  BY <1>4, <1>5, <1>8, <1>9 DEF Canvas

-----------------------------------------------------------------------------
(* The invariant is inductive. *)

LEMMA PInitInv == PInit => Canvas /\ ClosedIsShown
<1>. SUFFICES ASSUME PInit PROVE Canvas /\ ClosedIsShown
  OBVIOUS
<1>1. /\ arrived = <<>> /\ Len(arrived) = 0 /\ DOMAIN arrived = {}
      /\ canvas = [c \in Cells |-> 0] /\ size = FirstSize /\ status = "info"
      /\ resized = 0 /\ controls = 0 /\ socket = "open"
  BY DEF PInit, Init
<1>2. \A s \in Surfaces : Len(stream[s]) = 0
  BY DEF PInit, Init
<1>3. Numbered
  BY <1>1, <1>2, EmptySeq DEF Numbered
<1>4. CanvasInv
  BY <1>1, RegionsAssumption DEF CanvasInv
<1>5. OnlyFramesComeLate /\ TilesInv
  BY <1>1 DEF OnlyFramesComeLate, TilesInv, Covering
<1>. QED  BY <1>1, <1>3, <1>4, <1>5 DEF Canvas, ClosedIsShown

LEMMA CanvasNext ==
  ASSUME Inv, Canvas, [PNext]_pageVars
  PROVE  Canvas'
<1>1. CASE UNCHANGED pageVars
  BY <1>1, CanvasStays DEF pageVars, vars, Canvas, CanvasInv
<1>2. CASE Disconnect
  BY <1>2, CanvasStays DEF Disconnect, CloseSocket, history, Canvas, CanvasInv
<1>3. ASSUME NEW kind \in {"info", "live", "error"}, Message(kind) PROVE Canvas'
  <2>1. controls' \in 0 .. MaxControls
    BY <1>3, RegionsAssumption DEF Message, Control, Canvas, CanvasInv
  <2>2. /\ UNCHANGED <<canvas, size, arrived, resized, drawn, stream>>
        /\ status' \in {"info", "live", "error"}
    BY <1>3 DEF Message, Control, vars
  <2>. QED  BY <2>1, <2>2, CanvasStays
<1>4. ASSUME NEW new \in Sizes, Resize(new) PROVE Canvas'
  BY <1>4, CanvasResizes
<1>5. ASSUME NEW cells \in Regions, Tile(cells) PROVE Canvas'
  <2>1. Numbered' /\ Arrive(Nobody, 0, cells)
    BY <1>5, TileNumbered DEF Canvas
  <2>2. 0 \in 0 .. MaxPackets /\ Nobody \in Surfaces \cup {Nobody}
    BY LimitsAssumption
  <2>3. UNCHANGED <<drawn, size>> /\ DrawOn(cells, Len(arrived')) /\ status' = "live"
    BY <1>5 DEF Tile, vars
  <2>. QED  BY <2>1, <2>2, <2>3, CanvasArrives
<1>9. ASSUME Refuse PROVE Canvas'
  <2>1. UNCHANGED <<vars, canvas, size, history>> /\ status' = "error"
    BY <1>9 DEF Refuse
  <2>. QED  BY <2>1, CanvasStays DEF vars, history, Canvas, CanvasInv
<1>6. ASSUME NEW s \in Surfaces, NEW packet \in Packets, NEW cells \in Regions,
             Video(s, packet, cells)
      PROVE  Canvas'
  <2>1. Numbered' /\ Total(s) + 1 \in 0 .. MaxPackets /\ Arrive(s, Total(s) + 1, cells)
    BY <1>6, VideoNumbered DEF Canvas, Total
  <2>2. s \in Surfaces \cup {Nobody} /\ s # Nobody
    BY SurfacesAssumption
  <2>3. UNCHANGED <<drawn, size, canvas, status>>
    BY <1>6 DEF Video, Push, shown
  <2>4. Total(s) + 1 \notin Range(drawn[s])
    <3>1. Total(s) \in Nat /\ \A m \in Range(drawn[s]) : m \in Nat /\ m <= Total(s)
      BY DrawnRange, Types DEF Inv, Total
    <3>. QED  BY <3>1
  <2>5. status' \in {"info", "live", "error"}
    BY <2>3 DEF Canvas, CanvasInv
  <2>. QED  BY <2>1, <2>2, <2>3, <2>4, <2>5, CanvasArrives
<1>7. ASSUME NEW s \in Surfaces, DrawFrame(s) PROVE Canvas'
  BY <1>7, CanvasFrame
<1>8. ASSUME NEW s \in Surfaces, Answer(s) \/ Drain(s) \/ TakeUp(s) \/ Failure(s) PROVE Canvas'
  <2>1. UNCHANGED <<drawn, stream>>
    BY <1>8 DEF Answer, Drain, TakeUp, Failure, Configure, ConfigureDropping, ConfigureThrows,
                Unsupported, Decode, DrainDone, DecodeThrows, Take, Fail
  <2>2. /\ UNCHANGED <<canvas, size, arrived, resized, controls>>
        /\ status' \in {status, "error"}
    BY <1>8 DEF Answer, Drain, TakeUp, Failure, Silent, ShowError, shown, history
  <2>3. status' \in {"info", "live", "error"} /\ controls' \in 0 .. MaxControls
    BY <2>2 DEF Canvas, CanvasInv
  <2>. QED  BY <2>1, <2>2, <2>3, CanvasStays
<1>. QED  BY <1>1, <1>2, <1>3, <1>4, <1>5, <1>6, <1>7, <1>8, <1>9 DEF PNext

\* The error of a close stays.
LEMMA ClosedNext ==
  ASSUME Inv, Inv', ClosedIsShown, [PNext]_pageVars
  PROVE  ClosedIsShown'
<1>. SUFFICES ASSUME socket' = "closed", failed' = {} PROVE status' = "error"
  BY DEF ClosedIsShown
<1>1. CASE UNCHANGED pageVars
  BY <1>1 DEF pageVars, vars, ClosedIsShown
<1>2. CASE Disconnect
  BY <1>2 DEF Disconnect, Inv, PageInv
<1>3. ASSUME NEW kind, Message(kind) PROVE FALSE
  BY <1>3 DEF Message, Control, vars
<1>4. ASSUME NEW new, Resize(new) PROVE FALSE
  BY <1>4 DEF Resize, Control, vars
<1>5. ASSUME Refuse \/ \E cells \in Regions : Tile(cells) PROVE FALSE
  BY <1>5 DEF Refuse, Tile, vars
<1>6. ASSUME NEW s \in Surfaces, NEW packet, NEW cells, Video(s, packet, cells) PROVE FALSE
  BY <1>6 DEF Video, Push
<1>7. ASSUME NEW s \in Surfaces, DrawFrame(s) PROVE FALSE
  <2>1. ~(socket = "closed" /\ failed = {}) /\ UNCHANGED <<socket, failed>>
    BY <1>7, DrawSurface DEF DrawFrame, Draw, Deliver
  <2>. QED  BY <2>1
<1>8. ASSUME NEW s \in Surfaces, Answer(s) \/ Drain(s) \/ TakeUp(s) PROVE status' = "error"
  <2>1. UNCHANGED <<socket, failed>>
    BY <1>8 DEF Answer, Drain, TakeUp, Configure, ConfigureDropping, ConfigureThrows,
                Unsupported, Decode, DrainDone, DecodeThrows, Take, webcodecs
  <2>2. status' \in {status, "error"}
    BY <1>8 DEF Answer, Drain, TakeUp, Silent, ShowError, shown
  <2>. QED  BY <2>1, <2>2 DEF ClosedIsShown
<1>9. ASSUME NEW s \in Surfaces, Failure(s) PROVE status' = "error"
  BY <1>9 DEF Failure, ShowError
<1>. QED  BY <1>1, <1>2, <1>3, <1>4, <1>5, <1>6, <1>7, <1>8, <1>9 DEF PNext

\* What a cell shows is a packet that covers it.
CoversInv == \A c \in Cells : canvas[c] # 0 => c \in arrived[canvas[c]].cells

\* Of what is drawn, the parts outside of the packet's cells are what they were.
LEMMA DrawCovers ==
  ASSUME Canvas, CoversInv, NEW k \in Nat, DrawOn(arrived[k].cells, k)
  PROVE  \A c \in Cells : canvas'[c] # 0 => c \in arrived[canvas'[c]].cells
  BY DEF DrawOn, CoversInv

LEMMA CoversNext ==
  ASSUME Inv, Canvas, CoversInv, [PNext]_pageVars
  PROVE  CoversInv'
<1>. PICK L : L = Len(arrived)
  OBVIOUS
<1>1. L \in Nat /\ \A c \in Cells : canvas[c] # 0 => canvas[c] \in 1 .. L
  BY ArrivedTypes DEF Canvas, CanvasInv
<1>2. CASE UNCHANGED <<canvas, arrived>>
  BY <1>2 DEF CoversInv
<1>3. ASSUME NEW new \in Sizes, Resize(new) PROVE CoversInv'
  <2>1. arrived' = arrived /\ (canvas' = canvas \/ canvas' = [c \in Cells |-> 0])
    BY <1>3 DEF Resize, Control
  <2>. QED  BY <2>1 DEF CoversInv
<1>4. ASSUME NEW s \in Surfaces \cup {Nobody}, NEW n \in 0 .. MaxPackets,
             NEW cells \in Regions, Arrive(s, n, cells),
             canvas' = canvas \/ DrawOn(cells, Len(arrived'))
      PROVE  CoversInv'
  <2>1. /\ Len(arrived') = L + 1 /\ arrived'[L + 1].cells = cells
        /\ \A k \in 1 .. L : arrived'[k] = arrived[k]
    BY <1>4, ArriveAppends DEF Canvas
  <2>2. \A c \in Cells : canvas[c] # 0 => c \in arrived'[canvas[c]].cells
    BY <1>1, <2>1 DEF CoversInv
  <2>3. CASE canvas' = canvas
    BY <2>2, <2>3 DEF CoversInv
  <2>4. CASE DrawOn(cells, L + 1)
    BY <1>1, <2>1, <2>2, <2>4 DEF DrawOn, CoversInv
  <2>. QED  BY <1>4, <2>1, <2>3, <2>4
<1>5. ASSUME NEW cells \in Regions, Tile(cells) PROVE CoversInv'
  <2>1. Arrive(Nobody, 0, cells) /\ DrawOn(cells, Len(arrived')) /\ 0 \in 0 .. MaxPackets
    BY <1>5, LimitsAssumption DEF Tile
  <2>. QED  BY <1>4, <2>1
<1>6. ASSUME NEW s \in Surfaces, NEW packet \in Packets, NEW cells \in Regions,
             Video(s, packet, cells)
      PROVE  CoversInv'
  <2>1. Len(stream[s]) + 1 \in 0 .. MaxPackets /\ Arrive(s, Len(stream[s]) + 1, cells)
    BY <1>6, VideoNumbered DEF Canvas
  <2>2. canvas' = canvas
    BY <1>6 DEF Video, shown
  <2>. QED  BY <1>4, <2>1, <2>2
<1>7. ASSUME NEW s \in Surfaces, DrawFrame(s) PROVE CoversInv'
  <2>1. PICK k \in 1 .. Len(arrived) : DrawOn(arrived[k].cells, k) /\ UNCHANGED history
    BY <1>7, FrameArrival DEF Canvas
  <2>2. arrived' = arrived
    BY <2>1 DEF history
  <2>. QED  BY <1>1, <2>1, <2>2, DrawCovers DEF CoversInv
<1>8. ASSUME NEW s \in Surfaces, Answer(s) \/ Drain(s) \/ TakeUp(s) \/ Failure(s)
      PROVE  UNCHANGED <<canvas, arrived>>
  BY <1>8 DEF Answer, Drain, TakeUp, Failure, Silent, ShowError, shown, history
<1>9. ASSUME Disconnect \/ Refuse \/ UNCHANGED pageVars PROVE UNCHANGED <<canvas, arrived>>
  BY <1>9 DEF Disconnect, Refuse, history, pageVars
<1>10. ASSUME NEW kind, Message(kind) PROVE UNCHANGED <<canvas, arrived>>
  BY <1>10 DEF Message, Control
<1>. QED  BY <1>2, <1>3, <1>5, <1>6, <1>7, <1>8, <1>9, <1>10 DEF PNext

LEMMA PInvHolds == PSpec => [](Canvas /\ CoversInv /\ ClosedIsShown)
<1>1. /\ Inv /\ Inv' /\ Canvas /\ CoversInv /\ ClosedIsShown /\ [PNext]_pageVars
      => (Canvas /\ CoversInv /\ ClosedIsShown)'
  BY CanvasNext, CoversNext, ClosedNext
<1>2. PInit => CoversInv
  BY DEF PInit, CoversInv
<1>. QED  BY <1>1, <1>2, PInitInv, PageInvHolds, PTL DEF PSpec

-----------------------------------------------------------------------------
(* The properties. *)

\* Every variable has values of its type, and each frame and tile is drawn where
\* its own packet says (app.js: canvas, status, onMessage, draw, drawRgba).
THEOREM PageTypeCorrect == PSpec => []PageTypeOK
<1>1. Canvas /\ CoversInv => PageTypeOK
  BY ArrivedTypes, ArrivalsAreTyped DEF Canvas, CanvasInv, CoversInv, PageTypeOK
<1>. QED  BY <1>1, PInvHolds, PTL

\* What is not the newest on a cell is a video frame that came late, and not one
\* that is older than another of its surface (draw, drawRgba, resizeCanvas).
THEOREM OnlyFramesLate == PSpec => []OnlyFramesComeLate
<1>1. Canvas => OnlyFramesComeLate
  BY DEF Canvas
<1>. QED  BY <1>1, PInvHolds, PTL

\* A cell that no video covers shows its newest tile (drawRgba, resizeCanvas).
THEOREM TilesRemain == PSpec => []TilesStay
<1>1. ASSUME Canvas PROVE TilesStay
  <2>. SUFFICES ASSUME NEW c \in Cells,
                       \A k \in DOMAIN arrived : c \in arrived[k].cells => IsTile(k)
                PROVE  canvas[c] = IF Covering(c) = {} THEN 0
                       ELSE CHOOSE k \in Covering(c) : \A j \in Covering(c) : j <= k
    BY DEF TilesStay
  <2>1. (Covering(c) = {} /\ canvas[c] = 0) \/ Newest(c, Covering(c))
    BY <1>1 DEF Canvas, TilesInv
  <2>2. \A j \in Covering(c) : j \in Nat
    BY <1>1, ArrivedTypes DEF Canvas, Covering
  <2>3. CASE Covering(c) = {}
    BY <2>1, <2>3 DEF Newest
  <2>4. CASE Covering(c) # {}
    <3>. PICK k : k = CHOOSE m \in Covering(c) : \A j \in Covering(c) : j <= m
      OBVIOUS
    <3>1. canvas[c] \in Covering(c) /\ \A j \in Covering(c) : j <= canvas[c]
      BY <2>1, <2>4 DEF Newest
    <3>2. k \in Covering(c) /\ \A j \in Covering(c) : j <= k
      BY <3>1
    <3>3. k = canvas[c]
      BY <2>2, <3>1, <3>2
    <3>. QED  BY <2>4, <3>3
  <2>. QED  BY <2>3, <2>4
<1>. QED  BY <1>1, PInvHolds, PTL

\* After a close of the WebSocket the error stays shown, if no codec had failed
\* (onclose, showError, draw).
THEOREM CloseIsShown == PSpec => []ClosedIsShown
  BY PInvHolds, PTL

\* The decoders of the page behave as those of Decoder, so that what was proved
\* of them holds on the page.
THEOREM PageImplementsDecoders == PSpec => Spec
<1>1. PInit => Init
  BY DEF PInit
<1>2. [PNext]_pageVars => [Next]_vars
  BY PageSteps DEF PageDecodes
<1>. QED  BY <1>1, <1>2, PTL DEF PSpec, Spec

=============================================================================
