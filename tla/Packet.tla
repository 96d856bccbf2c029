------------------------------- MODULE Packet -------------------------------
(***************************************************************************)
(* The message that carries a piece of video, around the access unit of    *)
(* module AccessUnit: VideoPacket::encode of the gateway                   *)
(* (src/src/protocol.rs) appends its fields one by one, and parsePacket of *)
(* the page (src/web/app.js) reads them at fixed offsets.                  *)
(***************************************************************************)
EXTENDS AccessUnit

CONSTANTS
  Magic,        \* VIDEO_MAGIC, MAGIC
  Null,         \* no packet
  SafeInteger,  \* Number.MAX_SAFE_INTEGER: time stamps reach it after 285 years
  Headers       \* the other fields of packets

ASSUME MagicAssumption == Magic \in [1 .. 4 -> 0 .. Base - 1]

\* VideoPacket without key_frame and data, VideoCodec.  Numbers of the page hold
\* time stamps exactly up to SafeInteger only.
ASSUME HeadersAssumption ==
  Headers \subseteq
    [codec : 1 .. 4, timestamp : {t \in Unsigned(8) : t <= SafeInteger},
     surfaceId : Unsigned(2), x : Unsigned(2), y : Unsigned(2),
     width : Unsigned(2), height : Unsigned(2), outputX : Unsigned(4), outputY : Unsigned(4)]

VARIABLE header

PInit == Init /\ header \in Headers
PNext == Next /\ UNCHANGED header
PSpec == PInit /\ [][PNext]_<<vars, header>>

-----------------------------------------------------------------------------

\* to_le_bytes of an integer of n bytes
LittleEndian(n, value) == Reverse(ToBytes(n, value))

\* u32::MAX
U32Max == BigEndian([i \in 1 .. 4 |-> Base - 1])

\* The length of the data, as u32::try_from and unwrap_or make it
DataLength(p) == IF Len(p.data) \in Unsigned(4) THEN Len(p.data) ELSE U32Max

\* Slip: the getter lacks its argument littleEndian.
GetUintBigEndian(bytes, offset, n) == BigEndian(SubSeq(bytes, offset + 1, offset + n))

\* The getters of DataView, with littleEndian
GetUint(bytes, offset, n) == BigEndian(Reverse(SubSeq(bytes, offset + 1, offset + n)))

\* The packet of an access unit: handle_pdu of the gateway
packet ==
  [codec |-> header.codec, keyFrame |-> contains_idr(data), timestamp |-> header.timestamp,
   surfaceId |-> header.surfaceId, x |-> header.x, y |-> header.y,
   width |-> header.width, height |-> header.height,
   outputX |-> header.outputX, outputY |-> header.outputY, data |-> data]

Encode(p) ==
  Magic \o <<1, p.codec, IF p.keyFrame THEN 1 ELSE 0, 0>>
    \o LittleEndian(8, p.timestamp)
    \o LittleEndian(2, p.surfaceId)
    \o LittleEndian(2, p.x) \o LittleEndian(2, p.y)
    \o LittleEndian(2, p.width) \o LittleEndian(2, p.height)
    \o LittleEndian(4, p.outputX) \o LittleEndian(4, p.outputY)
    \o LittleEndian(4, DataLength(p)) \o p.data

HeaderLength == 38

ParsePacket(bytes) ==
  IF \/ Len(bytes) < HeaderLength
     \/ ~IsPrefix(Magic, bytes)
     \/ bytes[5] # 1
     \/ HeaderLength + GetUint(bytes, 34, 4) # Len(bytes)
     \/ bytes[6] \notin 1 .. 4
  THEN Null
  ELSE [codec |-> bytes[6], keyFrame |-> bytes[7] % 2 # 0,
        timestamp |-> GetUint(bytes, 8, 8), surfaceId |-> GetUint(bytes, 16, 2),
        x |-> GetUint(bytes, 18, 2), y |-> GetUint(bytes, 20, 2),
        width |-> GetUint(bytes, 22, 2), height |-> GetUint(bytes, 24, 2),
        outputX |-> GetUint(bytes, 26, 4), outputY |-> GetUint(bytes, 30, 4),
        data |-> SubSeq(bytes, HeaderLength + 1, Len(bytes))]

-----------------------------------------------------------------------------
(* Properties. *)

\* The page reads each field as the gateway wrote it, at the limits of their
\* widths too, and refuses a message that is cut short or has something behind it,
\* and data too long for their length.
RoundTrip ==
  LET bytes == Encode(packet)
  IN  IF Len(data) \in Unsigned(4)
      THEN /\ ParsePacket(bytes) = packet
           /\ ParsePacket(Append(bytes, 0)) = Null
           /\ \A n \in 0 .. Len(bytes) - 1 : ParsePacket(SubSeq(bytes, 1, n)) = Null
      ELSE ParsePacket(bytes) = Null
=============================================================================
