-------------------------------- MODULE Pipe --------------------------------
(***************************************************************************)
(* What a relay of numbered items promises: item after item comes out, in  *)
(* the order they were put in, none twice and none left out, and every     *)
(* item comes out in the end unless the relay breaks.  A broken relay may  *)
(* keep to itself what it still holds.                                     *)
(***************************************************************************)
EXTENDS Naturals, Sequences

VARIABLES
  put,      \* number of items put in
  got,      \* items that came out
  broken    \* the relay need not deliver any more

pipe == <<put, got, broken>>

PipeInit == put = 0 /\ got = <<>> /\ broken = FALSE

Put == put' = put + 1 /\ UNCHANGED <<got, broken>>

Get ==
  /\ Len(got) < put
  /\ got' = Append(got, Len(got) + 1)
  /\ UNCHANGED <<put, broken>>

Break == broken' = TRUE /\ UNCHANGED <<put, got>>

PipeNext == Put \/ Get \/ Break

PipeSafety == PipeInit /\ [][PipeNext]_pipe

PipeSpec == PipeSafety /\ WF_pipe(Get /\ ~broken)
=============================================================================
