------------------------------- MODULE PageMC -------------------------------
(* Finite instances of Page. *)
EXTENDS Page

\* Two cells, of which a small canvas shows one
MCCells == {1, 2}
MCRegions == {{1}, {1, 2}}
MCSizes == {{1}, {1, 2}}
=============================================================================
