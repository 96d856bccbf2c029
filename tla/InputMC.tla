------------------------------ MODULE InputMC ------------------------------
(* Finite instances of Input. *)
EXTENDS Input

\* One point inside the canvas, and one beyond two of its edges
MCPoints == {<<1, 2>>, <<-1, 5>>}
MCCenter == <<2, 2>>
MCNowhere == <<-9, -9>>

\* Vertical, horizontal, both
MCDeltas == {<<0, 1>>, <<-1, 0>>, <<1, -1>>}

\* Keys that differ in the E0 flag only, and one that is not mapped
TwinCodes == {"Delete", "NumpadDecimal", "Pause"}
=============================================================================
