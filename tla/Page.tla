-------------------------------- MODULE Page --------------------------------
(***************************************************************************)
(* What the page shows (src/web/app.js): RGBA tiles are drawn as they      *)
(* arrive, video frames when their decoder of module Decoder delivers      *)
(* them, and all of them on one canvas, which a resize clears; the status  *)
(* line says how things are.  Packets are numbered in order of arrival,    *)
(* over all surfaces, and a cell of the canvas shows such a number.        *)
(***************************************************************************)
EXTENDS Decoder

CONSTANTS
  Cells,        \* parts of the canvas that packets cover or not
  Regions,      \* the sets of cells that packets cover
  Sizes,        \* sizes of the canvas, as the sets of cells that they show
  FirstSize,    \* the one in index.html
  MaxArrivals,  \* bound: packets on all surfaces together
  MaxControls   \* bound: control messages

ASSUME RegionsAssumption ==
  /\ Regions \subseteq SUBSET Cells
  /\ Sizes \subseteq SUBSET Cells /\ FirstSize \in Sizes
  /\ MaxArrivals \in Nat /\ MaxControls \in Nat

VARIABLES
  canvas,    \* number of the packet that a cell shows, or 0
  size,      \* the size of the canvas
  status,    \* the dot of the status line: "info", "live" or "error"
  arrived,   \* the packets that arrived: surface (Nobody for a tile), number, cells
  resized,   \* number of packets that had arrived at the last resize
  controls   \* number of control messages so far

shown == <<canvas, size, status>>
history == <<arrived, resized, controls>>
pageVars == <<vars, canvas, size, status, arrived, resized, controls>>

PInit ==
  /\ Init
  /\ size = FirstSize
  /\ canvas = [c \in Cells |-> 0]
  /\ status = "info"
  /\ arrived = <<>>
  /\ resized = 0
  /\ controls = 0

-----------------------------------------------------------------------------

\* putImageData, drawImage: what lies outside of the canvas is cut off.
DrawOn(cells, k) ==
  canvas' = [c \in Cells |-> IF c \in cells \cap size THEN k ELSE canvas[c]]

Arrive(s, n, cells) ==
  /\ Len(arrived) < MaxArrivals
  /\ arrived' = Append(arrived, [surface |-> s, number |-> n, cells |-> cells])
  /\ UNCHANGED <<resized, controls>>

\* The number, in order of arrival, of packet n of surface s
Arrival(s, n) ==
  CHOOSE k \in DOMAIN arrived : arrived[k].surface = s /\ arrived[k].number = n

\* onMessage with an AVC420 packet
Video(s, packet, cells) ==
  /\ Push(s, packet)
  /\ Arrive(s, Len(stream'[s]), cells)
  /\ UNCHANGED shown

\* Slip: a tile is drawn below what is there.
TileBelow(cells) ==
  /\ Idle
  /\ socket = "open"
  /\ Arrive(Nobody, 0, cells)
  /\ canvas' = [c \in Cells |-> IF c \in cells \cap size /\ canvas[c] = 0
                                THEN Len(arrived') ELSE canvas[c]]
  /\ status' = "live"
  /\ UNCHANGED <<vars, size>>

\* onMessage with another packet, of the length its size says: drawRgba
Tile(cells) ==
  /\ Idle
  /\ socket = "open"
  /\ Arrive(Nobody, 0, cells)
  /\ DrawOn(cells, Len(arrived'))
  /\ status' = "live"
  /\ UNCHANGED <<vars, size>>

\* onMessage with a packet that parsePacket refuses, or a tile of another length
\* than its size says: an error, and nothing else.  (A tile without pixels only
\* makes new ImageData throw, and changes nothing.)
Refuse ==
  /\ Idle
  /\ socket = "open"
  /\ status' = "error"
  /\ UNCHANGED <<vars, canvas, size, history>>

\* onMessage with text: onControl
Control ==
  /\ Idle
  /\ socket = "open"
  /\ controls < MaxControls
  /\ controls' = controls + 1
  /\ UNCHANGED <<vars, arrived>>

\* status, egfxNegotiated, warning and error messages
Message(kind) ==
  /\ Control
  /\ status' = kind
  /\ UNCHANGED <<canvas, size, resized>>

\* Slip: the canvas is cleared though it has the size already.
ResizeAlways(new) ==
  /\ Control
  /\ size' = new
  /\ canvas' = [c \in Cells |-> 0]
  /\ resized' = IF new = size THEN resized ELSE Len(arrived)
  /\ UNCHANGED status

\* resizeCanvas: a canvas that changes its size is cleared.
Resize(new) ==
  /\ Control
  /\ IF new = size
     THEN UNCHANGED <<size, canvas, resized>>
     ELSE size' = new /\ canvas' = [c \in Cells |-> 0] /\ resized' = Len(arrived)
  /\ UNCHANGED status

\* Slip: the frame goes where the packet that came last says.
DrawFrameAtLast(s) ==
  /\ Draw(s)
  /\ IF Head(decoding[s]) \in metadata[s]
     THEN /\ DrawOn(arrived[Len(arrived)].cells, Arrival(s, Head(decoding[s])))
          /\ status' = "live"
     ELSE UNCHANGED <<canvas, status>>
  /\ UNCHANGED <<size, history>>

\* The output callback: the frame goes where its packet says.
DrawFrame(s) ==
  /\ Draw(s)
  /\ IF Head(decoding[s]) \in metadata[s]
     THEN LET k == Arrival(s, Head(decoding[s]))
          IN  DrawOn(arrived[k].cells, k) /\ status' = "live"
     ELSE UNCHANGED <<canvas, status>>
  /\ UNCHANGED <<size, history>>

\* The other steps of Decoder show nothing, or showError an error.
Silent == UNCHANGED <<shown, history>>
ShowError == status' = "error" /\ UNCHANGED <<canvas, size, history>>

Answer(s) == \/ Configure(s) /\ Silent
             \/ (ConfigureThrows(s) \/ Unsupported(s)) /\ ShowError

Drain(s) == \/ (Decode(s) \/ DrainDone(s)) /\ Silent
            \/ DecodeThrows(s) /\ ShowError

TakeUp(s) == Take(s) /\ Silent

Failure(s) == Fail(s) /\ ShowError

\* The close handler of the WebSocket: its message is not shown if
\* closeDecoders throws.
Disconnect ==
  /\ CloseSocket
  /\ status' = IF decoders' = <<>> THEN "error" ELSE status
  /\ UNCHANGED <<canvas, size, history>>

PNext ==
  \/ Disconnect
  \/ \E kind \in {"info", "live", "error"} : Message(kind)
  \/ \E new \in Sizes : Resize(new)
  \/ \E cells \in Regions : Tile(cells)
  \/ Refuse
  \/ \E s \in Surfaces :
       \/ \E packet \in Packets, cells \in Regions : Video(s, packet, cells)
       \/ DrawFrame(s)
       \/ Answer(s)
       \/ Drain(s)
       \/ TakeUp(s)
       \/ Failure(s)

PSpec == PInit /\ [][PNext]_pageVars

PFairness ==
  \A s \in Surfaces :
    /\ WF_pageVars(Answer(s))
    /\ WF_pageVars(Drain(s))
    /\ WF_pageVars(TakeUp(s))
    /\ WF_pageVars(DrawFrame(s))

FairPSpec == PSpec /\ PFairness

-----------------------------------------------------------------------------
(* Properties. *)

IsTile(k) == arrived[k].surface = Nobody

\* Packets that are on the canvas or were: all tiles, and the frames drawn
WasDrawn(k) ==
  IsTile(k) \/ arrived[k].number \in Range(drawn[arrived[k].surface])

\* Packets that concern cell c of the canvas as it is now
Covering(c) ==
  {k \in DOMAIN arrived : k > resized /\ c \in arrived[k].cells \cap size}

\* Every variable has values of its type; cells beyond the canvas are empty, and
\* what another cell shows is a packet that covers it, however late it is drawn.
PageTypeOK ==
  /\ canvas \in [Cells -> 0 .. Len(arrived)]
  /\ size \in Sizes
  /\ \A c \in Cells \ size : canvas[c] = 0
  /\ \A c \in Cells : canvas[c] # 0 => c \in arrived[canvas[c]].cells
  /\ status \in {"info", "live", "error"}
  /\ \A k \in DOMAIN arrived :
       arrived[k] \in [surface : Surfaces \cup {Nobody}, number : 0 .. MaxPackets, cells : Regions]
  /\ resized \in 0 .. Len(arrived)
  /\ controls \in 0 .. MaxControls

\* Where a cell does not show the newest packet drawn there, it shows a video
\* frame: one that was still being decoded when a tile or a frame of another
\* surface was drawn.  Tiles never hide what is newer, and frames of a surface
\* never hide newer frames of it.
OnlyFramesComeLate ==
  \A c \in Cells : \A k \in Covering(c) :
    WasDrawn(k) /\ canvas[c] < k =>
      /\ canvas[c] # 0
      /\ ~IsTile(canvas[c])
      /\ arrived[canvas[c]].surface # arrived[k].surface

\* A cell that no video covers shows the newest tile since the canvas got its
\* size, whatever decoders do, fail to do, or are closed.
TilesStay ==
  \A c \in Cells :
    (\A k \in DOMAIN arrived : c \in arrived[k].cells => IsTile(k)) =>
      canvas[c] = IF Covering(c) = {} THEN 0
                  ELSE CHOOSE k \in Covering(c) : \A j \in Covering(c) : j <= k

\* After the close no late frame and no waiting task puts the page back to
\* "live": the error stays, unless a codec had failed before the close.
ClosedIsShown == socket = "closed" /\ failed = {} => status = "error"

\* In the end each cell shows the newest packet there that can be drawn, or a
\* frame that came late, unless some video breaks.
Drawable(k) ==
  \/ IsTile(k)
  \/ Start(arrived[k].surface) # 0 /\ arrived[k].number >= Start(arrived[k].surface)
Broken ==
  socket = "closed" \/ \E s \in Surfaces : support[s] = "no" \/ codec[s] = "closed"
Settled ==
  \A c \in Cells : \A k \in Covering(c) :
    Drawable(k) => \/ canvas[c] >= k
                   \/ /\ canvas[c] # 0 /\ ~IsTile(canvas[c])
                      /\ arrived[canvas[c]].surface # arrived[k].surface
CanvasSettles == <>[](Settled \/ Broken)
=============================================================================
