----------------------------- MODULE AccessUnit -----------------------------
(***************************************************************************)
(* The two parsers of an H.264 access unit, whose NAL units come with a    *)
(* length in front: contains_idr of the gateway (src/src/egfx.rs) tells    *)
(* key frames, and avcNals of the page (src/web/app.js) finds the          *)
(* parameter sets in them, from which the page makes the description       *)
(* that configures its decoder.  The data grow by whole NAL units and by   *)
(* single bytes, so that well-formed and malformed units mix.              *)
(***************************************************************************)
EXTENDS Integers, Sequences, SequencesExt

CONSTANTS
  Base,          \* values of a byte (256)
  PrefixLength,  \* bytes of the length (4)
  Bytes,         \* bytes that may occur
  Units,         \* NAL units that may occur
  MaxPieces      \* bound: bytes and units added to the data

ASSUME BytesAssumption ==
  /\ Base \in Nat /\ Base > 8
  /\ Bytes \subseteq 0 .. Base - 1

ASSUME NumbersAssumption == PrefixLength \in Nat \ {0} /\ MaxPieces \in Nat

VARIABLES
  data,    \* the data of a packet
  units,   \* the NAL units put into it before the first single byte
  junk,    \* whether there are single bytes
  pieces   \* how many pieces were added

vars == <<data, units, junk, pieces>>

Init == data = <<>> /\ units = <<>> /\ junk = FALSE /\ pieces = 0

-----------------------------------------------------------------------------
(* The parsers. *)

Absent == <<>>

\* NAL unit types in this code
Idr == 5
Sps == 7
Pps == 8

Type(nal) == nal[1] % 32

\* u32::from_be_bytes, DataView.getUint32
BigEndian(bytes) ==
  LET value[n \in 0 .. Len(bytes)] == IF n = 0 THEN 0 ELSE value[n - 1] * Base + bytes[n]
  IN  value[Len(bytes)]

\* value >> 8 * n
Shifted(value, n) ==
  LET rest[i \in 0 .. n] == IF i = 0 THEN value ELSE rest[i - 1] \div Base
  IN  rest[n]

\* The integers that n bytes can hold
Unsigned(n) == {value \in Nat : Shifted(value, n) = 0}

\* The last n bytes of an integer, the highest first
ToBytes(n, value) == [i \in 1 .. n |-> Shifted(value, n - i) % Base]

LengthAt(d, offset) == BigEndian(SubSeq(d, offset + 1, offset + PrefixLength))

\* Slip: the walk ends at the first unit.
contains_idrFirst(d) ==
  LET end == PrefixLength + LengthAt(d, 0)
  IN  /\ PrefixLength <= Len(d) /\ PrefixLength < end /\ end <= Len(d)
      /\ d[PrefixLength + 1] % 32 = Idr

\* The gateway's walk ends with TRUE at an IDR unit, and with FALSE where no
\* unit follows.
contains_idr(d) ==
  LET from[offset \in 0 .. Len(d)] ==
        LET start == offset + PrefixLength
            end == start + LengthAt(d, offset)
        IN  /\ start <= Len(d) /\ start < end /\ end <= Len(d)
            /\ d[start + 1] % 32 = Idr \/ from[end]
  IN  from[0]

\* The page's walk yields the units up to where none follows.
avcNals(d) ==
  LET from[offset \in 0 .. Len(d)] ==
        LET start == offset + PrefixLength
            length == LengthAt(d, offset)
        IN  IF start > Len(d) \/ length = 0 \/ start + length > Len(d) THEN <<>>
            ELSE <<SubSeq(d, start + 1, start + length)>> \o from[start + length]
  IN  from[0]

\* Slip: the oldest set is kept.
FirstOf(type, nals) ==
  LET first[n \in 0 .. Len(nals)] ==
        IF n = 0 THEN Absent
        ELSE IF first[n - 1] = Absent /\ Type(nals[n]) = type THEN nals[n] ELSE first[n - 1]
  IN  first[Len(nals)]

LastOf(type, nals) ==
  LET last[n \in 0 .. Len(nals)] ==
        IF n = 0 THEN Absent
        ELSE IF Type(nals[n]) = type THEN nals[n] ELSE last[n - 1]
  IN  last[Len(nals)]

\* findParameterSets; Absent unless there are both
findParameterSets(d) ==
  LET sps == LastOf(Sps, avcNals(d))
      pps == LastOf(Pps, avcNals(d))
  IN  IF sps = Absent \/ pps = Absent THEN Absent ELSE <<sps, pps>>

\* codecString throws for an SPS without the three bytes of the profile.
HasCodecString(sps) == Len(sps) >= 4

\* The lengths lose what is beyond two bytes.
makeAvcConfiguration(sps, pps) ==
  <<1, sps[2], sps[3], sps[4], 255, 225>> \o ToBytes(2, Len(sps)) \o sps
    \o <<1>> \o ToBytes(2, Len(pps)) \o pps

-----------------------------------------------------------------------------
(* What a server may send in one bitmap stream *)

\* A NAL unit has its header at least, and a length that fits in front of it.
ASSUME UnitsAssumption ==
  /\ Units \subseteq Seq(0 .. Base - 1)
  /\ \A nal \in Units : nal # <<>> /\ Len(nal) \in Unsigned(PrefixLength)

\* The length of a unit, as it stands in front of it
Prefix(nal) == ToBytes(PrefixLength, Len(nal))

AddUnit(nal) ==
  /\ pieces < MaxPieces
  /\ pieces' = pieces + 1
  /\ data' = data \o Prefix(nal) \o nal
  /\ units' = IF junk THEN units ELSE Append(units, nal)
  /\ UNCHANGED junk

AddByte(byte) ==
  /\ pieces < MaxPieces
  /\ pieces' = pieces + 1
  /\ data' = Append(data, byte)
  /\ junk' = TRUE
  /\ UNCHANGED units

Next == (\E nal \in Units : AddUnit(nal)) \/ (\E byte \in Bytes : AddByte(byte))

Spec == Init /\ [][Next]_vars

-----------------------------------------------------------------------------
(* Properties. *)

\* The parsers agree for any data, malformed ones too: the gateway marks as key
\* frames exactly those in which the page sees an IDR unit, and the page finds
\* every unit that precedes the first malformed one, nothing else if there is none.
ParsersAgree ==
  /\ contains_idr(data) <=> \E nal \in ToSet(avcNals(data)) : Type(nal) = Idr
  /\ IF junk THEN IsPrefix(units, avcNals(data)) ELSE avcNals(data) = units

\* The fields of an AVCDecoderConfigurationRecord, as a decoder reads them
ReadSets(record) ==
  LET spsLength == BigEndian(SubSeq(record, 7, 8))
      count == 9 + spsLength
      ppsLength == BigEndian(SubSeq(record, count + 1, count + 2))
  IN  [version |-> record[1], profile |-> SubSeq(record, 2, 4),
       prefixLength |-> 1 + (record[5] % 4), counts |-> <<record[6] % 32, record[count]>>,
       sps |-> SubSeq(record, 9, count - 1),
       pps |-> SubSeq(record, count + 3, count + 2 + ppsLength),
       length |-> count + 2 + ppsLength]

\* A decoder reads from the description what the access unit says: the newest
\* SPS and PPS, the profile of that SPS, and prefixes of 4 bytes, as long as the
\* two bytes for the length of a set suffice.
DescriptionReads ==
  LET found == findParameterSets(data)
      record == makeAvcConfiguration(found[1], found[2])
  IN  /\ found # Absent
      /\ HasCodecString(found[1])
      /\ \A k \in 1 .. 2 : Len(found[k]) \in Unsigned(2)
      =>
        /\ ReadSets(record) =
             [version |-> 1, profile |-> SubSeq(found[1], 2, 4), prefixLength |-> 4,
              counts |-> <<1, 1>>, sps |-> found[1], pps |-> found[2],
              length |-> Len(record)]
        /\ \A k \in 1 .. 2 : ~junk =>
             \E i \in DOMAIN units :
               /\ units[i] = found[k]
               /\ \A j \in i + 1 .. Len(units) : Type(units[j]) # Type(found[k])
=============================================================================
