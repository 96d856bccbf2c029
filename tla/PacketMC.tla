------------------------------ MODULE PacketMC ------------------------------
(* A finite instance of Packet, whose bytes have ten values. *)
EXTENDS Packet

MCMagic == <<1, 2, 3, 4>>

\* An IDR slice, a slice whose length needs two bytes, SPSs that can and cannot
\* make a codec string, a PPS, and bytes for lengths and types
MCUnits == {<<5>>, <<1, 3, 5, 7, 8, 0, 0, 0, 1, 5, 5>>, <<7, 6>>, <<7, 6, 0, 3>>, <<7, 9, 0, 4, 1>>, <<8, 2>>}
MCBytes == {0, 1, 2, 5, 7}

\* All fields different, and all of them close to their limits
MCHeaders == {
  [codec |-> 1, timestamp |-> 8, surfaceId |-> 1, x |-> 2, y |-> 3, width |-> 4,
   height |-> 5, outputX |-> 6, outputY |-> 7],
  [codec |-> 4, timestamp |-> 99999998, surfaceId |-> 98, x |-> 97, y |-> 96, width |-> 95,
   height |-> 94, outputX |-> 9998, outputY |-> 9997]}
=============================================================================
