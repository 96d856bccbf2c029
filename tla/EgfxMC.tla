------------------------------- MODULE EgfxMC -------------------------------
(* Finite instances of EgfxHistory. *)
EXTENDS EgfxHistory

None == {}

Size(a, b) == [w |-> a, h |-> b]
Rect(l, t, r, b) == [left |-> l, top |-> t, right |-> r, bottom |-> b]
Point(a, b) == [x |-> a, y |-> b]

\* Frames: no bitmaps at all.
NoSizes == {}

\* Store: surfaces of 3x1 and coordinates up to 2, so that a rectangle can be
\* inverted, empty, out of bounds, or overflow, and a tile of side 2 is cropped.
StoreSizes == {Size(3, 1)}
StoreRects == {Rect(0, 0, 2, 1), Rect(1, 0, 1, 1), Rect(2, 0, 1, 1)}
StorePoints == {Point(1, 0), Point(2, 0)}
StoreTiles == {Point(0, 0), Point(1, 0)}

\* Copies: a 3x1 surface copied onto itself.
CopySizes == {Size(3, 1)}
CopyRects == {Rect(0, 0, 2, 1), Rect(1, 0, 3, 1)}
CopyPoints == {Point(0, 0), Point(1, 0), Point(2, 0)}

=============================================================================
