---------------------------- MODULE DecoderProofs ----------------------------
(***************************************************************************)
(* Proofs about Decoder: every packet is in its place as long as a decoder *)
(* works, so that none is lost, repeated or refused, drain() resumes, and  *)
(* the surface's decoder is a relay of its packets.                        *)
(***************************************************************************)
EXTENDS Decoder, FiniteSetTheorems, SequenceTheorems, TLAPS

-----------------------------------------------------------------------------
(* A run counts upwards from a number. *)

Run(q, a) == \A i \in 1 .. Len(q) : q[i] = a + i - 1

LEMMA RunEmpty ==
  ASSUME NEW a \in Nat
  PROVE  Run(<<>>, a) /\ Len(<<>>) = 0
  BY DEF Run

LEMMA RunAppend ==
  ASSUME NEW q \in Seq(Nat), NEW a \in Nat, Run(q, a)
  PROVE  /\ Len(Append(q, a + Len(q))) = Len(q) + 1
         /\ Append(q, a + Len(q)) # <<>>
         /\ Append(q, a + Len(q)) \in Seq(Nat)
         /\ Run(Append(q, a + Len(q)), a)
<1>. DEFINE n == a + Len(q)
<1>1. Len(q) \in Nat /\ n \in Nat
  BY LenProperties
<1>2. /\ Append(q, n) \in Seq(Nat) /\ Append(q, n) # <<>>
      /\ Len(Append(q, n)) = Len(q) + 1
      /\ \A i \in 1 .. Len(q) : Append(q, n)[i] = q[i]
      /\ Append(q, n)[Len(q) + 1] = n
  BY <1>1, AppendProperties
<1>3. ASSUME NEW i \in 1 .. Len(q) + 1 PROVE Append(q, n)[i] = a + i - 1
  BY <1>1, <1>2 DEF Run
<1>. QED  BY <1>1, <1>2, <1>3 DEF Run

LEMMA RunTail ==
  ASSUME NEW q \in Seq(Nat), NEW a \in Nat, Run(q, a), q # <<>>
  PROVE  /\ Len(q) \in Nat \ {0}
         /\ Head(q) = a
         /\ Tail(q) \in Seq(Nat)
         /\ Len(Tail(q)) = Len(q) - 1
         /\ Run(Tail(q), a + 1)
<1>1. /\ Len(q) \in Nat \ {0} /\ Head(q) = q[1]
      /\ Tail(q) \in Seq(Nat) /\ Len(Tail(q)) = Len(q) - 1
      /\ \A i \in 1 .. Len(Tail(q)) : Tail(q)[i] = q[i + 1]
  BY HeadTailProperties, EmptySeq
<1>. HIDE DEF Run
<1>2. Head(q) = a
  BY <1>1 DEF Run
<1>3. ASSUME NEW i \in 1 .. Len(Tail(q)) PROVE Tail(q)[i] = (a + 1) + i - 1
  <2>1. i + 1 \in 1 .. Len(q) /\ Tail(q)[i] = q[i + 1]
    BY <1>1
  <2>. QED  BY <2>1 DEF Run
<1>. QED  BY <1>1, <1>2, <1>3 DEF Run

LEMMA RunWithout ==
  ASSUME NEW q \in Seq(Nat), NEW a \in Nat, Run(q, a), NEW n \in 0 .. Len(q)
  PROVE  /\ Without(q, n) \in Seq(Nat)
         /\ Len(Without(q, n)) = Len(q) - n
         /\ Run(Without(q, n), a + n)
<1>1. Len(q) \in Nat /\ \A i \in n + 1 .. Len(q) : q[i] \in Nat
  BY LenProperties, ElementOfSeq
<1>2. /\ Without(q, n) \in Seq(Nat)
      /\ Len(Without(q, n)) = Len(q) - n
      /\ \A i \in 1 .. Len(q) - n : Without(q, n)[i] = q[n + i]
  BY <1>1, SubSeqProperties DEF Without
<1>3. ASSUME NEW i \in 1 .. Len(q) - n PROVE Without(q, n)[i] = (a + n) + i - 1
  <2>1. n + i \in 1 .. Len(q)
    BY <1>1
  <2>. QED  BY <1>2, <2>1 DEF Run
<1>. QED  BY <1>1, <1>2, <1>3 DEF Run

\* Runs that follow one another are one.
LEMMA RunConcat ==
  ASSUME NEW q \in Seq(Nat), NEW r \in Seq(Nat), NEW a \in Nat,
         Run(q, a), Run(r, a + Len(q))
  PROVE  /\ q \o r \in Seq(Nat)
         /\ Len(q \o r) = Len(q) + Len(r)
         /\ Run(q \o r, a)
<1>1. /\ Len(q) \in Nat /\ Len(r) \in Nat /\ q \o r \in Seq(Nat)
      /\ Len(q \o r) = Len(q) + Len(r)
      /\ \A i \in 1 .. Len(q) + Len(r) :
           (q \o r)[i] = IF i <= Len(q) THEN q[i] ELSE r[i - Len(q)]
  BY ConcatProperties, LenProperties
<1>2. ASSUME NEW i \in 1 .. Len(q) + Len(r) PROVE (q \o r)[i] = a + i - 1
  <2>1. CASE i <= Len(q)
    BY <1>1, <2>1 DEF Run
  <2>2. CASE i > Len(q)
    <3>1. i - Len(q) \in 1 .. Len(r)
      BY <1>1, <2>2
    <3>. QED  BY <1>1, <2>2, <3>1 DEF Run
  <2>. QED  BY <1>1, <2>1, <2>2
<1>. QED  BY <1>1, <1>2 DEF Run

\* The numbers in a run are an interval.
LEMMA RunRange ==
  ASSUME NEW q \in Seq(Nat), NEW a \in Nat, Run(q, a), NEW e \in Nat, a + Len(q) = e
  PROVE  Range(q) = a .. e - 1
<1>1. Len(q) \in Nat /\ DOMAIN q = 1 .. Len(q)
  BY LenProperties
<1>2. ASSUME NEW n \in a .. e - 1 PROVE n \in Range(q)
  <2>1. n - a + 1 \in 1 .. Len(q) /\ q[n - a + 1] = n
    BY <1>1 DEF Run
  <2>. QED  BY <1>1, <2>1 DEF Range
<1>3. ASSUME NEW n \in Range(q) PROVE n \in a .. e - 1
  BY <1>1, <1>3 DEF Run, Range
<1>. QED  BY <1>2, <1>3

\* Two runs of the same length from the same number are the same.
LEMMA RunUnique ==
  ASSUME NEW q \in Seq(Nat), NEW n \in Nat, Len(q) = n, NEW a \in Nat, Run(q, a)
  PROVE  q = [i \in 1 .. n |-> a + i - 1]
  BY LenProperties DEF Run

LEMMA CountingAppend ==
  ASSUME NEW n \in Nat
  PROVE  /\ Len([i \in 1 .. n |-> i]) = n
         /\ [i \in 1 .. n + 1 |-> i] = Append([i \in 1 .. n |-> i], n + 1)
<1>1. PICK q : q = [i \in 1 .. n |-> i]
  OBVIOUS
<1>2. q \in Seq(Nat) /\ Len(q) = n /\ DOMAIN q = 1 .. n
  BY <1>1, SeqDef
<1>3. /\ Append(q, n + 1) \in Seq(Nat) /\ Len(Append(q, n + 1)) = n + 1
      /\ \A i \in 1 .. n : Append(q, n + 1)[i] = i
      /\ Append(q, n + 1)[n + 1] = n + 1
  BY <1>1, <1>2, AppendProperties
<1>4. DOMAIN Append(q, n + 1) = 1 .. n + 1
  BY <1>3, LenProperties
<1>5. Append(q, n + 1) = [i \in 1 .. n + 1 |-> i]
  BY <1>3, <1>4
<1>. QED  BY <1>1, <1>2, <1>5

-----------------------------------------------------------------------------
(* The key frame from which a surface can be decoded. *)

Less == {pair \in Nat \X Nat : pair[1] < pair[2]}

LEMMA LessWellFounded == IsWellFoundedOn(Less, Nat)
  BY NatLessThanWellFounded, Zenon DEF OpToRel, Less

LEMMA LeastNumber ==
  ASSUME NEW S \in SUBSET Nat, S # {}
  PROVE  \E x \in S : \A y \in S : x <= y
<1>1. PICK x \in S : \A y \in S : <<y, x>> \notin Less
  BY LessWellFounded, WFMin
<1>2. ASSUME NEW y \in S PROVE x <= y
  <2>1. ~(y < x)
    BY <1>1 DEF Less
  <2>. QED  BY <2>1
<1>. QED  BY <1>2

Identity(packets) == [i \in DOMAIN packets |-> i]

\* FirstKey finds the first key frame, if there is one.
LEMMA FirstKeyFound ==
  ASSUME NEW packets \in Seq(Packets), NEW k, k = FirstKey(packets, Identity(packets))
  PROVE  /\ k \in 0 .. Len(packets)
         /\ k = 0 => \A j \in 1 .. Len(packets) : ~packets[j].key
         /\ k # 0 => packets[k].key /\ \A j \in 1 .. k - 1 : ~packets[j].key
<1>. DEFINE keys == {i \in DOMAIN Identity(packets) : packets[Identity(packets)[i]].key}
<1>1. Len(packets) \in Nat /\ DOMAIN packets = 1 .. Len(packets)
  BY LenProperties
<1>2. keys = {i \in 1 .. Len(packets) : packets[i].key}
  BY <1>1 DEF Identity
<1>3. k = IF keys = {} THEN 0 ELSE CHOOSE i \in keys : \A j \in keys : i <= j
  BY DEF FirstKey
<1>. HIDE DEF keys
<1>4. CASE keys = {}
  BY <1>1, <1>2, <1>3, <1>4
<1>5. CASE keys # {}
  <2>1. keys \in SUBSET Nat
    BY <1>1, <1>2
  <2>2. \E i \in keys : \A j \in keys : i <= j
    BY <1>5, <2>1, LeastNumber
  <2>3. k \in keys /\ \A j \in keys : k <= j
    BY <1>3, <1>5, <2>2
  <2>. QED  BY <1>1, <1>2, <2>3
<1>. QED  BY <1>4, <1>5

\* It stays the first when another packet is received.
LEMMA FirstKeyStays ==
  ASSUME NEW packets \in Seq(Packets), NEW more \in Seq(Packets),
         Len(more) = Len(packets) + 1, \A i \in 1 .. Len(packets) : more[i] = packets[i],
         NEW k, k = FirstKey(packets, Identity(packets)),
         NEW l, l = FirstKey(more, Identity(more))
  PROVE  /\ k = 0 => l \in {0, Len(packets) + 1}
         /\ k # 0 => l = k
<1>1. Len(packets) \in Nat
  BY LenProperties
<1>2. /\ k \in 0 .. Len(packets)
      /\ k = 0 => \A j \in 1 .. Len(packets) : ~packets[j].key
      /\ k # 0 => packets[k].key /\ \A j \in 1 .. k - 1 : ~packets[j].key
  BY FirstKeyFound
<1>3. /\ l \in 0 .. Len(more)
      /\ l = 0 => \A j \in 1 .. Len(more) : ~more[j].key
      /\ l # 0 => more[l].key /\ \A j \in 1 .. l - 1 : ~more[j].key
  BY <1>1, FirstKeyFound
<1>4. CASE k = 0
  BY <1>1, <1>2, <1>3, <1>4
<1>5. CASE k # 0
  <2>1. l # 0
    BY <1>1, <1>2, <1>3, <1>5
  <2>2. ~(l < k)
    BY <1>1, <1>2, <1>3, <1>5, <2>1
  <2>3. ~(k < l)
    BY <1>1, <1>2, <1>3, <1>5, <2>1
  <2>. QED  BY <1>2, <1>3, <1>5, <2>2, <2>3, <1>1
<1>. QED  BY <1>4, <1>5

KeyOf(packets) == KeyIndex(packets, Identity(packets))
StartOf(packets) ==
  IF KeyOf(packets) \in {n \in DOMAIN packets : packets[n].sets = "full"}
  THEN KeyOf(packets) ELSE 0

LEMMA StartIs ==
  ASSUME NEW s \in Surfaces
  PROVE  Start(s) = StartOf(stream[s])
  BY DEF Start, StartOf, KeyOf, Usable, Identity

LEMMA StartFound ==
  ASSUME NEW packets \in Seq(Packets)
  PROVE  /\ KeyOf(packets) \in 0 .. Len(packets)
         /\ StartOf(packets) \in {0, KeyOf(packets)}
         /\ StartOf(packets) # 0 => packets[StartOf(packets)].key
  BY FirstKeyFound, LenProperties DEF KeyOf, KeyIndex, StartOf

LEMMA StartStays ==
  ASSUME NEW packets \in Seq(Packets), NEW more \in Seq(Packets),
         Len(more) = Len(packets) + 1, \A i \in 1 .. Len(packets) : more[i] = packets[i]
  PROVE  /\ KeyOf(packets) # 0 => KeyOf(more) = KeyOf(packets)
         /\ StartOf(packets) # 0 => StartOf(more) = StartOf(packets)
         /\ StartOf(packets) = 0 => StartOf(more) \in {0, Len(packets) + 1}
<1>1. /\ Len(packets) \in Nat /\ DOMAIN packets = 1 .. Len(packets)
      /\ more \in Seq(Packets) /\ DOMAIN more = 1 .. Len(packets) + 1
      /\ \A i \in 1 .. Len(packets) : more[i] = packets[i]
  BY AppendProperties, LenProperties
<1>k. PICK k : k = FirstKey(packets, Identity(packets))
  OBVIOUS
<1>l. PICK l : l = FirstKey(more, Identity(more))
  OBVIOUS
<1>2. k \in 0 .. Len(packets)
  BY <1>k, FirstKeyFound
<1>3. /\ k = 0 => l \in {0, Len(packets) + 1}
      /\ k # 0 => l = k
  BY <1>k, <1>l, FirstKeyStays
<1>4. /\ \A i \in 1 .. Len(packets) : Identity(packets)[i] = i
      /\ \A i \in 1 .. Len(packets) + 1 : Identity(more)[i] = i
  BY <1>1 DEF Identity
<1>5. /\ KeyOf(packets) = IF k # 0 /\ packets[Identity(packets)[k]].sets # "none" THEN k ELSE 0
      /\ KeyOf(more) = IF l # 0 /\ more[Identity(more)[l]].sets # "none" THEN l ELSE 0
  BY <1>k, <1>l DEF KeyOf, KeyIndex
<1>6. CASE k = 0
  <2>1. KeyOf(packets) = 0 /\ KeyOf(more) \in {0, Len(packets) + 1}
    BY <1>3, <1>5, <1>6
  <2>. QED  BY <1>1, <2>1 DEF StartOf
<1>7. CASE k # 0
  <2>1. /\ k \in 1 .. Len(packets) /\ l = k /\ k \in 1 .. Len(packets) + 1
        /\ more[k] = packets[k]
    BY <1>1, <1>2, <1>3, <1>7
  <2>2. KeyOf(more) = KeyOf(packets) /\ KeyOf(packets) \in {0, k}
    BY <1>4, <1>5, <2>1
  <2>. QED  BY <1>1, <2>1, <2>2 DEF StartOf
<1>. QED  BY <1>6, <1>7

-----------------------------------------------------------------------------
(* The invariant. *)

\* The first packet that a decoder of the surface still has, or had
First(s) == IF s \in configured THEN Start(s) ELSE 1

Total(s) == Len(stream[s])

\* The packets that the codec decodes, that are queued in it, and that wait for
\* it, begin at these numbers.
NextFrame(s) == First(s) + Len(drawn[s])
NextChunk(s) == NextFrame(s) + Len(decoding[s])
NextPacket(s) == NextChunk(s) + Len(queue[s])

\* Until its codec is closed a surface's packets are in their places.
Placed(s) ==
  /\ Run(decoding[s], NextFrame(s))
  /\ Run(queue[s], NextChunk(s))
  /\ Run(pending[s], NextPacket(s))
  /\ NextPacket(s) + Len(pending[s]) = Total(s) + 1
  /\ metadata[s] = NextFrame(s) .. NextPacket(s) - 1

\* What was drawn begins at the key frame, also if the codec is closed now.
DrawnInv(s) ==
  /\ Run(drawn[s], Start(s))
  /\ Start(s) + Len(drawn[s]) <= Total(s) + 1

\* How far the surface's decoder is.
StageInv(s) ==
  /\ Total(s) <= MaxPackets
  /\ awaiting[s] # 0 => s \notin configured /\ awaiting[s] = KeyOf(stream[s])
  /\ s \in configured => Start(s) # 0 /\ codec[s] # "unconfigured"
  /\ s \notin configured =>
       /\ codec[s] = "unconfigured" \/ (codec[s] = "closed" /\ socket = "closed")
       /\ drawn[s] = <<>>
  /\ codec[s] = "closed" => decoding[s] = <<>> /\ queue[s] = <<>>
  /\ codec[s] \in {"unconfigured", "keyRequired"} =>
       drawn[s] = <<>> /\ decoding[s] = <<>> /\ queue[s] = <<>>

\* What drain() leaves behind when it returns.
DrainInv(s) ==
  /\ Len(queue[s]) <= QueueLimit
  /\ codec[s] # "closed" /\ s \in configured /\ draining # s =>
       pending[s] = <<>> \/ queue[s] # <<>> \/ decoding[s] # <<>>

\* What the close of the WebSocket leaves behind.
CloseInv(s) ==
  /\ stream[s] # <<>> /\ socket = "open" => s \in Range(decoders)
  /\ failed = {} =>
       /\ codec[s] = "closed" => socket = "closed"
       /\ socket = "closed" =>
            /\ stream[s] # <<>> => codec[s] = "closed"
            /\ pending[s] = <<>> /\ queue[s] = <<>> /\ decoding[s] = <<>>
            /\ metadata[s] = {}

SurfaceInv(s) ==
  /\ codec[s] # "closed" => Placed(s)
  /\ DrawnInv(s)
  /\ StageInv(s)
  /\ DrainInv(s)
  /\ CloseInv(s)

PageInv ==
  /\ rejected = {}
  /\ draining # Nobody => draining \in configured
  /\ IsInjective(decoders)
  /\ socket = "closed" /\ failed = {} => draining = Nobody /\ decoders = <<>>

Inv == DecoderTypeOK /\ PageInv /\ \A s \in Surfaces : SurfaceInv(s)

LEMMA Types ==
  ASSUME DecoderTypeOK, NEW s \in Surfaces
  PROVE  /\ stream[s] \in Seq(Packets) /\ Total(s) \in Nat
         /\ pending[s] \in Seq(Nat) /\ Len(pending[s]) \in Nat
         /\ queue[s] \in Seq(Nat) /\ Len(queue[s]) \in Nat
         /\ decoding[s] \in Seq(Nat) /\ Len(decoding[s]) \in Nat
         /\ drawn[s] \in Seq(Nat) /\ Len(drawn[s]) \in Nat
         /\ Start(s) \in 0 .. Total(s) /\ First(s) \in Nat
         /\ Start(s) = StartOf(stream[s])
         /\ NextFrame(s) \in Nat /\ NextChunk(s) \in Nat /\ NextPacket(s) \in Nat
<1>1. /\ stream[s] \in Seq(Packets) /\ pending[s] \in Seq(Numbers)
      /\ queue[s] \in Seq(Numbers) /\ decoding[s] \in Seq(Numbers)
      /\ drawn[s] \in Seq(Numbers)
  BY DEF DecoderTypeOK
<1>2. Numbers \subseteq Nat
  BY LimitsAssumption DEF Numbers
<1>3. /\ pending[s] \in Seq(Nat) /\ queue[s] \in Seq(Nat)
      /\ decoding[s] \in Seq(Nat) /\ drawn[s] \in Seq(Nat)
  BY <1>1, <1>2, SeqMonotonic
<1>4. /\ Total(s) \in Nat /\ Len(pending[s]) \in Nat /\ Len(queue[s]) \in Nat
      /\ Len(decoding[s]) \in Nat /\ Len(drawn[s]) \in Nat
  BY <1>1, <1>3, LenProperties DEF Total
<1>5. Start(s) \in 0 .. Total(s) /\ Start(s) = StartOf(stream[s])
  BY <1>1, <1>4, StartIs, StartFound DEF Total
<1>6. First(s) \in Nat
  BY <1>4, <1>5 DEF First
<1>7. NextFrame(s) \in Nat
  BY <1>4, <1>6 DEF NextFrame
<1>8. NextChunk(s) \in Nat
  BY <1>4, <1>7 DEF NextChunk
<1>9. NextPacket(s) \in Nat
  BY <1>4, <1>8 DEF NextPacket
<1>. QED  BY <1>1, <1>3, <1>4, <1>5, <1>6, <1>7, <1>8, <1>9

\* What happens to one surface leaves the others as they are.
LEMMA OtherSurface ==
  ASSUME NEW s, SurfaceInv(s), socket' = socket, failed \subseteq failed',
         Range(decoders) \subseteq Range(decoders'),
         stream'[s] = stream[s], pending'[s] = pending[s], metadata'[s] = metadata[s],
         awaiting'[s] = awaiting[s], codec'[s] = codec[s], queue'[s] = queue[s],
         decoding'[s] = decoding[s], drawn'[s] = drawn[s],
         s \in configured' <=> s \in configured, draining = s => draining' = s
  PROVE  SurfaceInv(s)'
<1>1. Start(s)' = Start(s) /\ Total(s)' = Total(s)
  BY DEF Start, Usable, Total
<1>2. First(s)' = First(s)
  BY <1>1 DEF First
<1>3. /\ NextFrame(s)' = NextFrame(s) /\ NextChunk(s)' = NextChunk(s)
      /\ NextPacket(s)' = NextPacket(s)
  BY <1>2 DEF NextFrame, NextChunk, NextPacket
<1>6. (codec[s] # "closed" => Placed(s))'
  BY <1>1, <1>3 DEF SurfaceInv, Placed
<1>4. DrawnInv(s)' /\ StageInv(s)'
  BY <1>1 DEF SurfaceInv, DrawnInv, StageInv
<1>5. DrainInv(s)' /\ CloseInv(s)'
  BY DEF SurfaceInv, DrainInv, CloseInv
<1>. QED  BY <1>4, <1>5, <1>6 DEF SurfaceInv

-----------------------------------------------------------------------------
(* onMessage: push(). *)

LEMMA PushAppends ==
  ASSUME DecoderTypeOK, NEW s \in Surfaces, NEW packet \in Packets, Push(s, packet)
  PROVE  /\ stream'[s] = Append(stream[s], packet) /\ stream'[s] \in Seq(Packets)
         /\ Total(s)' = Total(s) + 1
         /\ \A i \in 1 .. Total(s) : stream'[s][i] = stream[s][i]
         /\ pending'[s] = Append(pending[s], Total(s) + 1)
         /\ Range(decoders) \subseteq Range(decoders') /\ s \in Range(decoders')
         /\ \A r \in Surfaces : r # s =>
              /\ stream'[r] = stream[r] /\ pending'[r] = pending[r]
              /\ awaiting'[r] = awaiting[r]
<1>1. /\ stream' = [stream EXCEPT ![s] = Append(@, packet)]
      /\ pending' = [pending EXCEPT ![s] = Append(@, Len(stream'[s]))]
      /\ decoders' = IF s \in Range(decoders) THEN decoders ELSE Append(decoders, s)
  BY DEF Push
<1>2. stream \in [Surfaces -> Seq(Packets)] /\ pending \in [Surfaces -> Seq(Numbers)]
  BY DEF DecoderTypeOK
<1>3. stream'[s] = Append(stream[s], packet)
  BY <1>1, <1>2
<1>4. /\ stream'[s] \in Seq(Packets) /\ Len(stream'[s]) = Len(stream[s]) + 1
      /\ \A i \in 1 .. Len(stream[s]) : stream'[s][i] = stream[s][i]
  BY <1>2, <1>3, AppendProperties
<1>5. Range(decoders) \subseteq Range(decoders') /\ s \in Range(decoders')
  <2>1. CASE s \in Range(decoders)
    BY <1>1, <2>1
  <2>2. CASE s \notin Range(decoders)
    <3>1. decoders \in Seq(Surfaces) /\ <<s>> \in Seq(Surfaces)
      BY DEF DecoderTypeOK
    <3>2. decoders' = decoders \o <<s>>
      BY <1>1, <2>2, <3>1, AppendIsConcat
    <3>3. Range(decoders') = Range(decoders) \cup Range(<<s>>)
      BY <3>1, <3>2, RangeConcatenation
    <3>4. s \in Range(<<s>>)
      BY DEF Range
    <3>. QED  BY <3>3, <3>4
  <2>. QED  BY <2>1, <2>2
<1>6. \A r \in Surfaces : r # s => stream'[r] = stream[r] /\ pending'[r] = pending[r]
  BY <1>1, <1>2
<1>7. \A r \in Surfaces : r # s => awaiting'[r] = awaiting[r]
  BY DEF Push, DecoderTypeOK
<1>. QED  BY <1>1, <1>2, <1>3, <1>4, <1>5, <1>6, <1>7 DEF Total

\* Once there is a packet to start from it stays, and else it is the new one.
LEMMA PushStart ==
  ASSUME DecoderTypeOK, NEW s \in Surfaces, NEW packet \in Packets, Push(s, packet)
  PROVE  /\ KeyOf(stream[s]) # 0 => KeyOf(stream'[s]) = KeyOf(stream[s])
         /\ Start(s) # 0 => Start(s)' = Start(s)
         /\ Start(s) = 0 => Start(s)' \in {0, Total(s) + 1}
<1>1. Start(s)' = StartOf(stream'[s])
  BY DEF Start, StartOf, KeyOf, Usable, Identity
<1>. QED  BY <1>1, PushAppends, StartStays, Types DEF Total

\* A surface that is not configured keeps all of its packets, so that its key
\* frame is looked for in all of them.
LEMMA PushKey ==
  ASSUME Inv, NEW s \in Surfaces, NEW packet \in Packets, Push(s, packet),
         s \notin configured
  PROVE  KeyIndex(stream'[s], pending'[s]) = KeyOf(stream'[s])
<1>1. codec[s] = "unconfigured" /\ drawn[s] = <<>> /\ decoding[s] = <<>> /\ queue[s] = <<>>
  BY DEF Push, Inv, SurfaceInv, StageInv
<1>2. Len(drawn[s]) = 0 /\ Len(decoding[s]) = 0 /\ Len(queue[s]) = 0
  BY <1>1
<1>3. Run(pending[s], 1) /\ Len(pending[s]) = Total(s)
  BY <1>1, <1>2, Types DEF Inv, SurfaceInv, Placed, First, NextFrame, NextChunk, NextPacket
<1>4. /\ Len(pending'[s]) = Total(s) + 1 /\ Run(pending'[s], 1)
      /\ pending'[s] \in Seq(Nat) /\ Total(s) + 1 \in Nat
  <2>1. pending'[s] = Append(pending[s], 1 + Len(pending[s]))
    BY <1>3, PushAppends, Types DEF Inv
  <2>. QED  BY <1>3, <2>1, RunAppend, Types DEF Inv
<1>5. pending'[s] = [i \in 1 .. Total(s) + 1 |-> 1 + i - 1]
  BY <1>4, RunUnique
<1>6. DOMAIN stream'[s] = 1 .. Total(s) + 1
  BY PushAppends, LenProperties DEF Inv, Total
<1>7. pending'[s] = Identity(stream'[s])
  BY <1>4, <1>5, <1>6 DEF Identity
<1>. QED  BY <1>7 DEF KeyOf

LEMMA PushSurface ==
  ASSUME Inv, NEW s \in Surfaces, NEW packet \in Packets, Push(s, packet)
  PROVE  SurfaceInv(s)'
<1>. USE DEF Inv
<1>1. /\ socket = "open" /\ socket' = "open" /\ Idle
      /\ draining' = IF s \in configured THEN s ELSE Nobody
      /\ Total(s) + 1 <= MaxPackets
      /\ UNCHANGED <<metadata, configured, codec, queue, decoding, failed, drawn>>
  BY Types, LimitsAssumption DEF Push, Total, webcodecs
<1>2. /\ stream'[s] = Append(stream[s], packet) /\ stream'[s] \in Seq(Packets)
      /\ Total(s)' = Total(s) + 1
      /\ pending'[s] = Append(pending[s], Total(s) + 1)
      /\ s \in Range(decoders')
  BY PushAppends
<1>3. /\ KeyOf(stream[s]) # 0 => KeyOf(stream'[s]) = KeyOf(stream[s])
      /\ Start(s) # 0 => Start(s)' = Start(s)
      /\ Start(s) = 0 => Start(s)' \in {0, Total(s) + 1}
  BY PushStart
<1>4. First(s)' = First(s) /\ First(s) \in Nat
  BY <1>1, <1>3, Types DEF First, SurfaceInv, StageInv
<1>5. ASSUME codec[s] # "closed" PROVE Placed(s)'
  <2>1. Placed(s)
    BY <1>5 DEF SurfaceInv
  <2>2. /\ NextFrame(s)' = NextFrame(s) /\ NextChunk(s)' = NextChunk(s)
        /\ NextPacket(s)' = NextPacket(s)
    BY <1>1, <1>4 DEF NextFrame, NextChunk, NextPacket
  <2>3. pending'[s] = Append(pending[s], NextPacket(s) + Len(pending[s]))
    BY <1>2, <2>1 DEF Placed
  <2>4. Run(pending'[s], NextPacket(s)) /\ Len(pending'[s]) = Len(pending[s]) + 1
    BY <2>1, <2>3, RunAppend, Types DEF Placed
  <2>5. NextPacket(s) + Len(pending'[s]) = Total(s)' + 1
    BY <1>2, <2>1, <2>4, Types DEF Placed
  <2>. QED  BY <1>1, <2>1, <2>2, <2>4, <2>5 DEF Placed
<1>6. DrawnInv(s)'
  <2>1. CASE Start(s) # 0
    BY <1>1, <1>2, <1>3, <2>1, Types DEF SurfaceInv, DrawnInv
  <2>2. CASE Start(s) = 0
    <3>1. drawn[s] = <<>> /\ Len(drawn[s]) = 0
      BY <2>2 DEF SurfaceInv, StageInv
    <3>2. drawn'[s] = <<>> /\ Len(drawn'[s]) = 0
      BY <1>1, <3>1
    <3>3. Run(drawn'[s], Start(s)')
      BY <3>2 DEF Run
    <3>. QED  BY <1>2, <1>3, <2>2, <3>2, <3>3, Types DEF DrawnInv
  <2>. QED  BY <2>1, <2>2
<1>7. StageInv(s)'
  <2>1. awaiting'[s] = IF s \notin configured /\ awaiting[s] = 0
                       THEN KeyIndex(stream'[s], pending'[s]) ELSE awaiting[s]
    BY DEF Push, DecoderTypeOK
  <2>2. awaiting'[s] # 0 => s \notin configured /\ awaiting'[s] = KeyOf(stream'[s])
    BY <1>3, <2>1, PushKey DEF SurfaceInv, StageInv
  <2>3. s \in configured => Start(s)' # 0
    BY <1>3 DEF SurfaceInv, StageInv
  <2>. QED  BY <1>1, <1>2, <2>2, <2>3 DEF SurfaceInv, StageInv
<1>8. DrainInv(s)'
  BY <1>1 DEF SurfaceInv, DrainInv
<1>9. CloseInv(s)'
  BY <1>1, <1>2 DEF SurfaceInv, CloseInv
<1>. QED  BY <1>1, <1>5, <1>6, <1>7, <1>8, <1>9 DEF SurfaceInv

-----------------------------------------------------------------------------
(* configureFromPending after its await. *)

\* What is awaited is the key frame, and the surface is not configured.
LEMMA AwaitedIsStart ==
  ASSUME Inv, NEW s \in Surfaces, awaiting[s] \in Usable(s)
  PROVE  /\ awaiting[s] = Start(s) /\ Start(s) # 0 /\ s \notin configured
         /\ stream[s] # <<>>
         /\ failed = {} /\ codec[s] # "closed" => socket = "open"
<1>1. awaiting[s] \in 1 .. Total(s)
  BY Types, LenProperties DEF Usable, Total, Inv
<1>2. awaiting[s] = KeyOf(stream[s]) /\ s \notin configured
  BY <1>1 DEF Inv, SurfaceInv, StageInv
<1>3. awaiting[s] = Start(s)
  BY <1>2, StartIs DEF StartOf, Usable
<1>4. stream[s] # <<>>
  BY <1>1 DEF Total
<1>. QED  BY <1>1, <1>2, <1>3, <1>4 DEF Inv, SurfaceInv, CloseInv, DecoderTypeOK

LEMMA ConfigureSurface ==
  ASSUME Inv, NEW s \in Surfaces, Configure(s)
  PROVE  SurfaceInv(s)'
<1>. USE DEF Inv
<1>t. /\ Len(drawn[s]) \in Nat /\ Len(decoding[s]) \in Nat /\ Len(queue[s]) \in Nat
      /\ Len(pending[s]) \in Nat /\ pending[s] \in Seq(Nat) /\ Start(s) \in 0 .. Total(s)
      /\ First(s) \in Nat /\ Total(s) \in Nat
  BY Types
<1>1. /\ awaiting[s] \in Usable(s) /\ awaiting'[s] = 0
      /\ codec[s] # "closed" /\ codec'[s] = "keyRequired"
      /\ configured' = configured \cup {s} /\ draining' = s
      /\ pending'[s] = Without(pending[s], awaiting[s] - 1)
      /\ UNCHANGED <<socket, decoders, stream, metadata, queue, decoding, failed, drawn>>
  BY DEF Configure, ConfigureDropping, Answers, DecoderTypeOK
<1>2. /\ awaiting[s] = Start(s) /\ Start(s) # 0 /\ s \notin configured
      /\ stream[s] # <<>> /\ (failed = {} => socket = "open")
  BY <1>1, AwaitedIsStart
<1>3. /\ drawn[s] = <<>> /\ decoding[s] = <<>> /\ queue[s] = <<>>
      /\ Len(drawn[s]) = 0 /\ Len(decoding[s]) = 0 /\ Len(queue[s]) = 0
  BY <1>1, <1>2 DEF SurfaceInv, StageInv
<1>4. Run(pending[s], 1) /\ Len(pending[s]) = Total(s) /\ metadata[s] = {}
  BY <1>1, <1>2, <1>3, Types
     DEF SurfaceInv, Placed, First, NextFrame, NextChunk, NextPacket
<1>5. Start(s)' = Start(s) /\ Total(s)' = Total(s) /\ First(s)' = Start(s)
  BY <1>1 DEF Start, Usable, Total, First
<1>6. Run(pending'[s], Start(s)) /\ Len(pending'[s]) = Total(s) - Start(s) + 1
  <2>. DEFINE n == awaiting[s] - 1
  <2>1. n \in 0 .. Len(pending[s]) /\ 1 + n = Start(s)
    BY <1>2, <1>4, <1>t
  <2>2. pending'[s] = Without(pending[s], n)
    BY <1>1
  <2>. HIDE DEF n
  <2>3. /\ Run(pending'[s], 1 + n)
        /\ Len(pending'[s]) = Len(pending[s]) - n
    BY <1>4, <2>1, <2>2, <1>t, RunWithout
  <2>. QED  BY <1>4, <2>1, <2>3, <1>t
<1>7. Placed(s)'
  <2>1. /\ NextFrame(s)' = Start(s) /\ NextChunk(s)' = Start(s) /\ NextPacket(s)' = Start(s)
    BY <1>1, <1>3, <1>5, <1>t DEF NextFrame, NextChunk, NextPacket
  <2>2. Run(decoding'[s], Start(s)) /\ Run(queue'[s], Start(s))
    BY <1>1, <1>3, <1>t, RunEmpty
  <2>3. metadata'[s] = Start(s) .. Start(s) - 1
    BY <1>1, <1>4, <1>t
  <2>. QED  BY <1>5, <1>6, <1>t, <2>1, <2>2, <2>3 DEF Placed
<1>8. DrawnInv(s)' /\ StageInv(s)'
  BY <1>1, <1>2, <1>3, <1>5 DEF SurfaceInv, DrawnInv, StageInv
<1>9. DrainInv(s)' /\ CloseInv(s)'
  BY <1>1, <1>2 DEF SurfaceInv, DrainInv, CloseInv
<1>. QED  BY <1>7, <1>8, <1>9 DEF SurfaceInv

\* The answer is no, or of no use.
LEMMA AnswerSurface ==
  ASSUME Inv, NEW s \in Surfaces, ConfigureThrows(s) \/ Unsupported(s)
  PROVE  SurfaceInv(s)'
<1>1. /\ awaiting'[s] = 0 /\ UNCHANGED <<stream, pending, metadata, configured, codec, queue>>
      /\ UNCHANGED <<socket, decoders, decoding, draining, failed, drawn>>
  BY DEF ConfigureThrows, Unsupported, Answers, Inv, DecoderTypeOK, webcodecs
<1>2. Start(s)' = Start(s) /\ Total(s)' = Total(s)
  BY <1>1 DEF Start, Usable, Total
<1>3. First(s)' = First(s)
  BY <1>1, <1>2 DEF First
<1>4. /\ NextFrame(s)' = NextFrame(s) /\ NextChunk(s)' = NextChunk(s)
      /\ NextPacket(s)' = NextPacket(s)
  BY <1>1, <1>3 DEF NextFrame, NextChunk, NextPacket
<1>. QED  BY <1>1, <1>2, <1>4
          DEF Inv, SurfaceInv, Placed, DrawnInv, StageInv, DrainInv, CloseInv

-----------------------------------------------------------------------------
(* drain(). *)

\* A surface that drains has a codec, unless it failed.
LEMMA DrainingSurface ==
  ASSUME Inv, NEW s \in Surfaces, draining = s
  PROVE  /\ s \in configured /\ First(s) = Start(s) /\ Start(s) # 0
         /\ codec[s] \in {"keyRequired", "ready", "closed"}
         /\ ~(socket = "closed" /\ failed = {})
         /\ codec[s] = "closed" => failed # {}
<1>1. s \in configured
  BY SurfacesAssumption DEF Inv, PageInv
<1>2. codec[s] \in {"keyRequired", "ready", "closed"} /\ Start(s) # 0
  BY <1>1 DEF Inv, SurfaceInv, StageInv, DecoderTypeOK
<1>. QED  BY <1>1, <1>2, SurfacesAssumption DEF Inv, PageInv, SurfaceInv, CloseInv, First

LEMMA DecodeSurface ==
  ASSUME Inv, NEW s \in Surfaces, Decode(s)
  PROVE  SurfaceInv(s)'
<1>. USE DEF Inv
<1>t. /\ Len(drawn[s]) \in Nat /\ Len(decoding[s]) \in Nat /\ Len(queue[s]) \in Nat
      /\ Len(pending[s]) \in Nat /\ pending[s] \in Seq(Nat) /\ Start(s) \in 0 .. Total(s)
      /\ First(s) \in Nat /\ Total(s) \in Nat
  BY Types
<1>1. /\ draining = s /\ pending[s] # <<>> /\ Len(queue[s]) < QueueLimit
      /\ codec[s] \in {"ready", "keyRequired"} /\ codec'[s] = "ready"
      /\ pending'[s] = Tail(pending[s])
      /\ metadata'[s] = metadata[s] \cup {Head(pending[s])}
      /\ queue'[s] = Append(queue[s], Head(pending[s]))
      /\ UNCHANGED <<socket, decoders, stream, awaiting, configured, decoding, draining, failed>>
      /\ UNCHANGED drawn
  BY DEF Decode, CanDecode, DecoderTypeOK
<1>2. /\ s \in configured /\ First(s) = Start(s) /\ Start(s) # 0
      /\ ~(socket = "closed" /\ failed = {})
  BY <1>1, DrainingSurface
<1>3. Placed(s)
  BY <1>1 DEF SurfaceInv
<1>4. Start(s)' = Start(s) /\ Total(s)' = Total(s) /\ First(s)' = First(s)
  BY <1>1 DEF Start, Usable, Total, First
<1>5. /\ Head(pending[s]) = NextPacket(s) /\ Run(pending'[s], NextPacket(s) + 1)
      /\ Len(pending'[s]) = Len(pending[s]) - 1
  BY <1>1, <1>3, RunTail, Types DEF Placed
<1>6. Run(queue'[s], NextChunk(s)) /\ Len(queue'[s]) = Len(queue[s]) + 1
  <2>1. queue'[s] = Append(queue[s], NextChunk(s) + Len(queue[s]))
    BY <1>1, <1>5 DEF NextPacket
  <2>. QED  BY <1>3, <2>1, RunAppend, Types DEF Placed
<1>7. /\ NextFrame(s)' = NextFrame(s) /\ NextChunk(s)' = NextChunk(s)
      /\ NextPacket(s)' = NextPacket(s) + 1
  <2>1. NextFrame(s)' = NextFrame(s) /\ NextChunk(s)' = NextChunk(s)
    BY <1>1, <1>4 DEF NextFrame, NextChunk
  <2>. QED  BY <1>6, <2>1, <1>t, Types DEF NextPacket
<1>8. Placed(s)'
  <2>1. NextFrame(s) <= NextPacket(s)
    BY <1>t DEF NextFrame, NextChunk, NextPacket
  <2>2. metadata'[s] = NextFrame(s) .. (NextPacket(s) + 1) - 1
    <3>1. metadata[s] = NextFrame(s) .. NextPacket(s) - 1
      BY <1>3 DEF Placed
    <3>2. metadata'[s] = metadata[s] \cup {NextPacket(s)}
      BY <1>1, <1>5
    <3>3. PICK a \in Nat, b \in Nat : a = NextFrame(s) /\ b = NextPacket(s)
      BY Types
    <3>4. (a .. b - 1) \cup {b} = a .. (b + 1) - 1
      BY <2>1, <3>3
    <3>. QED  BY <3>1, <3>2, <3>3, <3>4
  <2>3. (NextPacket(s) + 1) + Len(pending'[s]) = Total(s)' + 1
    BY <1>3, <1>4, <1>5, Types DEF Placed
  <2>. QED  BY <1>1, <1>3, <1>5, <1>6, <1>7, <2>2, <2>3 DEF Placed
<1>9. DrawnInv(s)' /\ StageInv(s)'
  BY <1>1, <1>2, <1>4 DEF SurfaceInv, DrawnInv, StageInv
<1>10. DrainInv(s)' /\ CloseInv(s)'
  BY <1>1, <1>2, <1>6, Types, LimitsAssumption DEF SurfaceInv, DrainInv, CloseInv
<1>. QED  BY <1>8, <1>9, <1>10 DEF SurfaceInv

\* decode() throws at nothing but a closed codec: the first packet that the
\* codec is given is the key frame.
LEMMA OnlyClosedThrows ==
  ASSUME Inv, NEW s \in Surfaces, DecodeThrows(s)
  PROVE  codec[s] = "closed"
<1>1. /\ draining = s /\ pending[s] # <<>> /\ codec[s] # "ready"
      /\ codec[s] = "keyRequired" => ~stream[s][Head(pending[s])].key
  BY DEF DecodeThrows, CanDecode
<1>2. First(s) = Start(s) /\ Start(s) # 0 /\ codec[s] \in {"keyRequired", "ready", "closed"}
  BY <1>1, DrainingSurface
<1>3. ASSUME codec[s] = "keyRequired" PROVE FALSE
  <2>1. Len(drawn[s]) = 0 /\ Len(decoding[s]) = 0 /\ Len(queue[s]) = 0
    BY <1>3 DEF Inv, SurfaceInv, StageInv
  <2>2. Run(pending[s], Start(s))
    BY <1>2, <1>3, <2>1, Types
       DEF Inv, SurfaceInv, Placed, NextFrame, NextChunk, NextPacket
  <2>3. Head(pending[s]) = Start(s)
    BY <1>1, <2>2, RunTail, Types DEF Inv
  <2>4. stream[s][Start(s)].key
    BY <1>2, StartFound, Types DEF Inv
  <2>. QED  BY <1>1, <1>3, <2>3, <2>4
<1>. QED  BY <1>1, <1>2, <1>3

LEMMA DecodeThrowsSurface ==
  ASSUME Inv, NEW s \in Surfaces, DecodeThrows(s)
  PROVE  SurfaceInv(s)'
<1>1. /\ draining = s
      /\ UNCHANGED <<socket, decoders, stream, awaiting, configured, codec, queue, decoding>>
      /\ UNCHANGED <<failed, drawn>>
  BY DEF DecodeThrows, webcodecs
<1>2. codec[s] = "closed" /\ failed # {}
  BY <1>1, OnlyClosedThrows, DrainingSurface
<1>3. Start(s)' = Start(s) /\ Total(s)' = Total(s)
  BY <1>1 DEF Start, Usable, Total
<1>. QED  BY <1>1, <1>2, <1>3 DEF Inv, SurfaceInv, DrawnInv, StageInv, DrainInv, CloseInv

LEMMA DrainDoneSurface ==
  ASSUME Inv, NEW s \in Surfaces, DrainDone(s)
  PROVE  SurfaceInv(s)'
<1>1. /\ draining = s /\ (pending[s] = <<>> \/ Len(queue[s]) >= QueueLimit)
      /\ UNCHANGED <<socket, decoders, stream, pending, metadata, awaiting, configured>>
      /\ UNCHANGED <<codec, queue, decoding, failed, drawn>>
  BY Types, LimitsAssumption DEF DrainDone, CanDecode, object, webcodecs, Inv
<1>2. Start(s)' = Start(s) /\ Total(s)' = Total(s)
  BY <1>1 DEF Start, Usable, Total
<1>3. First(s)' = First(s)
  BY <1>1, <1>2 DEF First
<1>4. /\ NextFrame(s)' = NextFrame(s) /\ NextChunk(s)' = NextChunk(s)
      /\ NextPacket(s)' = NextPacket(s)
  BY <1>1, <1>3 DEF NextFrame, NextChunk, NextPacket
<1>5. pending[s] = <<>> \/ queue[s] # <<>>
  BY <1>1, LimitsAssumption
<1>. QED  BY <1>1, <1>2, <1>4, <1>5
          DEF Inv, SurfaceInv, Placed, DrawnInv, StageInv, DrainInv, CloseInv

-----------------------------------------------------------------------------
(* The output callback: draw(). *)

LEMMA DrawSurface ==
  ASSUME Inv, NEW s \in Surfaces, Draw(s)
  PROVE  /\ SurfaceInv(s)'
         /\ s \in configured /\ ~(socket = "closed" /\ failed = {})
         /\ drawn'[s] = Append(drawn[s], Start(s) + Len(drawn[s]))
         /\ Start(s) # 0 /\ Start(s) + Len(drawn[s]) <= Total(s)
         /\ Head(decoding[s]) = Start(s) + Len(drawn[s])
         /\ Head(decoding[s]) \in metadata[s]
<1>. USE DEF Inv
<1>n. PICK n : n = Head(decoding[s])
  OBVIOUS
<1>1. /\ decoding[s] # <<>> /\ decoding'[s] = Tail(decoding[s])
      /\ metadata'[s] = metadata[s] \ {n}
      /\ n \in metadata[s] => drawn'[s] = Append(drawn[s], n) /\ draining' = s
      /\ UNCHANGED <<socket, decoders, stream, pending, awaiting, configured, codec, queue>>
      /\ UNCHANGED failed
  BY <1>n DEF Draw, Deliver, DecoderTypeOK
<1>2. /\ s \in configured /\ First(s) = Start(s) /\ Start(s) # 0 /\ codec[s] = "ready"
      /\ ~(socket = "closed" /\ failed = {})
  BY <1>1 DEF SurfaceInv, StageInv, CloseInv, DecoderTypeOK, First
<1>3. Placed(s) /\ DrawnInv(s) /\ StageInv(s) /\ DrainInv(s) /\ CloseInv(s)
  BY <1>2 DEF SurfaceInv
<1>4. /\ n = NextFrame(s) /\ Run(decoding'[s], NextFrame(s) + 1)
      /\ Len(decoding'[s]) = Len(decoding[s]) - 1 /\ Len(decoding[s]) \in Nat \ {0}
  BY <1>n, <1>1, <1>3, RunTail, Types DEF Placed
<1>5. NextFrame(s) + 1 <= NextPacket(s)
  <2>1. NextFrame(s) + 1 <= NextChunk(s)
    BY <1>4, Types DEF NextChunk
  <2>2. NextChunk(s) <= NextPacket(s)
    BY Types DEF NextPacket
  <2>. QED  BY <2>1, <2>2, Types
<1>6. n \in metadata[s]
  BY <1>3, <1>4, <1>5, Types DEF Placed
<1>7. Start(s)' = Start(s) /\ Total(s)' = Total(s) /\ First(s)' = First(s)
  BY <1>1 DEF Start, Usable, Total, First
<1>8. drawn'[s] = Append(drawn[s], Start(s) + Len(drawn[s])) /\ draining' = s
  BY <1>1, <1>2, <1>4, <1>6 DEF NextFrame
<1>9. Run(drawn'[s], Start(s)) /\ Len(drawn'[s]) = Len(drawn[s]) + 1
  BY <1>3, <1>8, RunAppend, Types DEF DrawnInv
<1>10. /\ NextFrame(s)' = NextFrame(s) + 1 /\ NextChunk(s)' = NextChunk(s)
       /\ NextPacket(s)' = NextPacket(s)
  <2>1. NextFrame(s)' = NextFrame(s) + 1
    BY <1>7, <1>9, Types DEF NextFrame
  <2>2. NextChunk(s)' = NextChunk(s)
    BY <1>4, <2>1, Types DEF NextChunk
  <2>. QED  BY <1>1, <2>1, <2>2 DEF NextPacket
<1>11. Placed(s)'
  <2>1. metadata'[s] = NextFrame(s) + 1 .. NextPacket(s) - 1
    BY <1>1, <1>3, <1>4, Types DEF Placed
  <2>. QED  BY <1>1, <1>3, <1>4, <1>7, <1>10, <2>1 DEF Placed
<1>12. DrawnInv(s)'
  <2>1. NextPacket(s) <= Total(s) + 1
    BY <1>3, Types DEF Placed
  <2>2. NextFrame(s) + 1 = Start(s) + Len(drawn'[s])
    BY <1>2, <1>9, Types DEF NextFrame
  <2>3. Start(s) + Len(drawn'[s]) <= Total(s) + 1
    BY <1>5, <2>1, <2>2, Types
  <2>. QED  BY <1>7, <1>9, <2>3 DEF DrawnInv
<1>13. StageInv(s)'
  BY <1>1, <1>2, <1>3, <1>7 DEF StageInv
<1>14. DrainInv(s)' /\ CloseInv(s)'
  BY <1>1, <1>2, <1>3, <1>8 DEF DrainInv, CloseInv
<1>15. Start(s) + Len(drawn[s]) <= Total(s)
  BY <1>7, <1>9, <1>12, Types DEF DrawnInv
<1>16. Head(decoding[s]) = Start(s) + Len(drawn[s])
  BY <1>n, <1>2, <1>4 DEF NextFrame
<1>. QED  BY <1>n, <1>2, <1>6, <1>8, <1>11, <1>12, <1>13, <1>14, <1>15, <1>16 DEF SurfaceInv

-----------------------------------------------------------------------------
(* WebCodecs. *)

LEMMA TakeSurface ==
  ASSUME Inv, NEW s \in Surfaces, Take(s)
  PROVE  SurfaceInv(s)'
<1>. USE DEF Inv
<1>1. /\ queue[s] # <<>> /\ queue'[s] = Tail(queue[s])
      /\ decoding'[s] = Append(decoding[s], Head(queue[s]))
      /\ UNCHANGED <<socket, decoders, stream, pending, metadata, awaiting, configured>>
      /\ UNCHANGED <<codec, draining, failed, drawn>>
  BY DEF Take, DecoderTypeOK, object
<1>2. /\ s \in configured /\ codec[s] = "ready"
      /\ ~(socket = "closed" /\ failed = {})
  BY <1>1 DEF SurfaceInv, StageInv, CloseInv, DecoderTypeOK
<1>3. Placed(s) /\ DrawnInv(s) /\ StageInv(s) /\ DrainInv(s) /\ CloseInv(s)
  BY <1>2 DEF SurfaceInv
<1>4. /\ Head(queue[s]) = NextChunk(s) /\ Run(queue'[s], NextChunk(s) + 1)
      /\ Len(queue'[s]) = Len(queue[s]) - 1 /\ Len(queue[s]) \in Nat \ {0}
  <2>1. queue[s] \in Seq(Nat) /\ NextChunk(s) \in Nat
    BY Types
  <2>2. Run(queue[s], NextChunk(s))
    BY <1>3 DEF Placed
  <2>. QED  BY <1>1, <2>1, <2>2, RunTail
<1>5. decoding'[s] = Append(decoding[s], NextFrame(s) + Len(decoding[s]))
  BY <1>1, <1>4 DEF NextChunk
<1>6. /\ Run(decoding'[s], NextFrame(s)) /\ Len(decoding'[s]) = Len(decoding[s]) + 1
      /\ decoding'[s] # <<>>
  BY <1>3, <1>5, RunAppend, Types DEF Placed
<1>7. Start(s)' = Start(s) /\ Total(s)' = Total(s) /\ First(s)' = First(s)
  BY <1>1 DEF Start, Usable, Total, First
<1>8. /\ NextFrame(s)' = NextFrame(s) /\ NextChunk(s)' = NextChunk(s) + 1
      /\ NextPacket(s)' = NextPacket(s)
  <2>1. NextFrame(s)' = NextFrame(s)
    BY <1>1, <1>7 DEF NextFrame
  <2>2. NextChunk(s)' = NextChunk(s) + 1
    BY <1>6, <2>1, Types DEF NextChunk
  <2>3. NextPacket(s)' = NextPacket(s)
    BY <1>4, <2>2, Types DEF NextPacket
  <2>. QED  BY <2>1, <2>2, <2>3
<1>9. Placed(s)'
  BY <1>1, <1>3, <1>4, <1>6, <1>7, <1>8 DEF Placed
<1>10. DrawnInv(s)' /\ StageInv(s)'
  BY <1>1, <1>2, <1>3, <1>7 DEF DrawnInv, StageInv
<1>11. DrainInv(s)'
  <2>1. Len(queue[s]) <= QueueLimit
    BY <1>3 DEF DrainInv
  <2>2. Len(queue'[s]) <= QueueLimit
    BY <1>4, <2>1, LimitsAssumption
  <2>. QED  BY <1>6, <2>2 DEF DrainInv
<1>12. CloseInv(s)'
  BY <1>1, <1>2, <1>3 DEF CloseInv
<1>. QED  BY <1>9, <1>10, <1>11, <1>12 DEF SurfaceInv

LEMMA FailSurface ==
  ASSUME Inv, NEW s \in Surfaces, Fail(s)
  PROVE  SurfaceInv(s)'
<1>. USE DEF Inv
<1>1. /\ codec[s] \in {"keyRequired", "ready"} /\ codec'[s] = "closed"
      /\ queue'[s] = <<>> /\ decoding'[s] = <<>> /\ s \in failed'
      /\ UNCHANGED <<socket, decoders, stream, pending, metadata, awaiting, configured>>
      /\ UNCHANGED <<draining, drawn>>
  BY DEF Fail, DecoderTypeOK, object
<1>2. Start(s)' = Start(s) /\ Total(s)' = Total(s)
  BY <1>1 DEF Start, Usable, Total
<1>3. s \in configured
  BY <1>1 DEF SurfaceInv, StageInv
<1>4. DrawnInv(s)' /\ StageInv(s)'
  BY <1>1, <1>2, <1>3 DEF SurfaceInv, DrawnInv, StageInv
<1>5. Len(queue'[s]) = 0
  BY <1>1
<1>6. DrainInv(s)' /\ CloseInv(s)'
  BY <1>1, <1>5, LimitsAssumption DEF SurfaceInv, DrainInv, CloseInv
<1>. QED  BY <1>1, <1>4, <1>6 DEF SurfaceInv

-----------------------------------------------------------------------------
(* The WebSocket's close handler. *)

\* Nothing has been made of the packets of a surface that has received none.
LEMMA NothingReceived ==
  ASSUME Inv, NEW s \in Surfaces, stream[s] = <<>>, codec[s] # "closed"
  PROVE  /\ pending[s] = <<>> /\ queue[s] = <<>> /\ decoding[s] = <<>>
         /\ metadata[s] = {}
<1>. USE DEF Inv
<1>1. Total(s) = 0
  BY DEF Total
<1>2. s \notin configured
  BY <1>1, Types DEF SurfaceInv, StageInv
<1>3. drawn[s] = <<>> /\ decoding[s] = <<>> /\ queue[s] = <<>>
  BY <1>2 DEF SurfaceInv, StageInv
<1>4. Len(drawn[s]) = 0 /\ Len(decoding[s]) = 0 /\ Len(queue[s]) = 0
  BY <1>3
<1>5. NextFrame(s) = 1 /\ NextChunk(s) = 1 /\ NextPacket(s) = 1
  BY <1>2, <1>4 DEF First, NextFrame, NextChunk, NextPacket
<1>6. Len(pending[s]) = 0 /\ metadata[s] = {}
  BY <1>1, <1>5, Types DEF SurfaceInv, Placed
<1>7. pending[s] = <<>>
  BY <1>6, Types, EmptySeq
<1>. QED  BY <1>3, <1>6, <1>7

\* The decoders that closeDecoders closes
Closing ==
  {decoders[i] : i \in {j \in DOMAIN decoders :
                          \A k \in 1 .. j : codec[decoders[k]] # "closed"}}

LEMMA CloseSocketEmpties ==
  ASSUME DecoderTypeOK, CloseSocket, NEW s \in Surfaces
  PROVE  /\ s \in Closing =>
              /\ codec'[s] = "closed" /\ queue'[s] = <<>> /\ decoding'[s] = <<>>
              /\ pending'[s] = <<>> /\ metadata'[s] = {}
         /\ s \notin Closing =>
              /\ codec'[s] = codec[s] /\ queue'[s] = queue[s] /\ decoding'[s] = decoding[s]
              /\ pending'[s] = pending[s] /\ metadata'[s] = metadata[s]
  BY DEF CloseSocket, Closing

\* If no codec failed then all decoders are closed, each of which is in the map
\* once, so that the map is cleared.
LEMMA AllClosing ==
  ASSUME Inv, CloseSocket, failed = {}
  PROVE  Closing = Range(decoders) /\ decoders' = <<>>
<1>. USE DEF Inv
<1>1. /\ decoders \in Seq(Surfaces) /\ Len(decoders) \in Nat
      /\ DOMAIN decoders = 1 .. Len(decoders)
  BY LenProperties DEF DecoderTypeOK
<1>2. \A i \in DOMAIN decoders : codec[decoders[i]] # "closed"
  BY <1>1, ElementOfSeq DEF CloseSocket, SurfaceInv, CloseInv
<1>3. Closing = Range(decoders)
  BY <1>1, <1>2 DEF Closing, Range
<1>4. decoders \in Bijection(1 .. Len(decoders), Range(decoders))
  <2>1. decoders \in [1 .. Len(decoders) -> Range(decoders)]
    BY <1>1, LenProperties DEF Range
  <2>2. \A r \in Range(decoders) : \E i \in 1 .. Len(decoders) : decoders[i] = r
    BY <1>1 DEF Range
  <2>. QED  BY <2>1, <2>2 DEF Bijection, Injection, Surjection, PageInv
<1>5. Cardinality(Range(decoders)) = Len(decoders)
  BY <1>1, <1>4, FS_CountingElements DEF ExistsBijection
<1>. QED  BY <1>3, <1>5 DEF CloseSocket, Closing

LEMMA CloseSocketSurface ==
  ASSUME Inv, CloseSocket, NEW s \in Surfaces
  PROVE  SurfaceInv(s)'
<1>. USE DEF Inv
<1>1. /\ socket = "open" /\ socket' = "closed" /\ Idle
      /\ UNCHANGED <<stream, awaiting, configured, draining, failed, drawn>>
  BY DEF CloseSocket
<1>2. Start(s)' = Start(s) /\ Total(s)' = Total(s) /\ First(s)' = First(s)
  BY <1>1 DEF Start, Usable, Total, First
<1>3. Len(<<>>) = 0
  OBVIOUS
<1>4. CASE s \in Closing
  <2>1. /\ codec'[s] = "closed" /\ queue'[s] = <<>> /\ decoding'[s] = <<>>
        /\ pending'[s] = <<>> /\ metadata'[s] = {}
    BY <1>4, CloseSocketEmpties
  <2>2. DrawnInv(s)' /\ StageInv(s)'
    BY <1>1, <1>2, <2>1 DEF SurfaceInv, DrawnInv, StageInv
  <2>3. DrainInv(s)' /\ CloseInv(s)'
    BY <1>1, <1>3, <2>1, LimitsAssumption DEF DrainInv, CloseInv
  <2>. QED  BY <2>1, <2>2, <2>3 DEF SurfaceInv
<1>5. CASE s \notin Closing
  <2>1. /\ codec'[s] = codec[s] /\ queue'[s] = queue[s] /\ decoding'[s] = decoding[s]
        /\ pending'[s] = pending[s] /\ metadata'[s] = metadata[s]
    BY <1>5, CloseSocketEmpties
  <2>2. /\ NextFrame(s)' = NextFrame(s) /\ NextChunk(s)' = NextChunk(s)
        /\ NextPacket(s)' = NextPacket(s)
    BY <1>1, <1>2, <2>1 DEF NextFrame, NextChunk, NextPacket
  <2>3. codec'[s] # "closed" => Placed(s)'
    BY <1>1, <1>2, <2>1, <2>2 DEF SurfaceInv, Placed
  <2>4. DrawnInv(s)' /\ StageInv(s)'
    BY <1>1, <1>2, <2>1 DEF SurfaceInv, DrawnInv, StageInv
  <2>5. DrainInv(s)'
    BY <1>1, <2>1 DEF SurfaceInv, DrainInv
  <2>6. CloseInv(s)'
    <3>1. ASSUME failed = {} PROVE stream[s] = <<>> /\ codec[s] # "closed"
      BY <1>1, <1>5, <3>1, AllClosing DEF SurfaceInv, CloseInv
    <3>. QED  BY <1>1, <2>1, <3>1, NothingReceived DEF CloseInv
  <2>. QED  BY <2>3, <2>4, <2>5, <2>6 DEF SurfaceInv
<1>. QED  BY <1>4, <1>5

-----------------------------------------------------------------------------
(* The invariant is inductive. *)

LEMMA PushType ==
  ASSUME Inv, NEW s \in Surfaces, NEW packet \in Packets, Push(s, packet)
  PROVE  DecoderTypeOK'
<1>. USE DEF Inv
<1>1. Total(s) + 1 \in Numbers
  BY Types, LimitsAssumption DEF Push, Total, Numbers
<1>2. stream' \in [Surfaces -> Seq(Packets)]
  BY DEF Push, DecoderTypeOK
<1>3. pending' \in [Surfaces -> Seq(Numbers)]
  <2>1. pending' = [pending EXCEPT ![s] = Append(pending[s], Len(stream'[s]))]
    BY DEF Push
  <2>2. Len(stream'[s]) \in Numbers
    BY <1>1, PushAppends DEF Total
  <2>3. pending[s] \in Seq(Numbers)
    BY DEF DecoderTypeOK
  <2>4. Append(pending[s], Len(stream'[s])) \in Seq(Numbers)
    BY <2>2, <2>3, AppendProperties
  <2>. QED  BY <2>1, <2>4 DEF DecoderTypeOK
<1>4. awaiting' \in [Surfaces -> 0 .. MaxPackets]
  <2>1. CASE s \notin configured
    <3>1. KeyOf(stream'[s]) \in 0 .. Total(s) + 1
      BY PushAppends, StartFound DEF Total
    <3>2. KeyIndex(stream'[s], pending'[s]) \in 0 .. MaxPackets
      BY <1>1, <2>1, <3>1, PushKey, Types, LimitsAssumption DEF Numbers
    <3>. QED  BY <3>2 DEF Push, DecoderTypeOK
  <2>2. CASE s \in configured
    BY <2>2 DEF Push, DecoderTypeOK
  <2>. QED  BY <2>1, <2>2
<1>5. decoders' \in Seq(Surfaces) /\ draining' \in Surfaces \cup {Nobody}
  BY DEF Push, DecoderTypeOK
<1>. QED  BY <1>2, <1>3, <1>4, <1>5 DEF Push, DecoderTypeOK, webcodecs

LEMMA AnswersType ==
  ASSUME DecoderTypeOK, NEW s \in Surfaces, NEW answer \in {"yes", "no"}, Answers(s, answer)
  PROVE  /\ awaiting' \in [Surfaces -> 0 .. MaxPackets]
         /\ support' \in [Surfaces -> {"unknown", "yes", "no"}]
<1>1. /\ awaiting' = [awaiting EXCEPT ![s] = 0]
      /\ support' = [support EXCEPT ![s] = answer]
  BY DEF Answers
<1>2. 0 \in 0 .. MaxPackets
  BY LimitsAssumption
<1>3. awaiting' \in [Surfaces -> 0 .. MaxPackets]
  BY <1>1, <1>2 DEF DecoderTypeOK
<1>. QED  BY <1>1, <1>3 DEF DecoderTypeOK

LEMMA ConfigureType ==
  ASSUME Inv, NEW s \in Surfaces, Configure(s)
  PROVE  DecoderTypeOK'
<1>. USE DEF Inv
<1>n. PICK n : n = awaiting[s] - 1
  OBVIOUS
<1>1. /\ awaiting[s] \in Usable(s) /\ codec[s] # "closed"
      /\ pending' = [pending EXCEPT ![s] = Without(@, n)]
  BY <1>n DEF Configure, ConfigureDropping, Answers
<1>2. n \in 0 .. Total(s)
  BY <1>1, <1>n, AwaitedIsStart, Types
<1>3. \A i \in n + 1 .. Len(pending[s]) : pending[s][i] \in Numbers
  BY <1>2, Types, ElementOfSeq DEF DecoderTypeOK
<1>4. Without(pending[s], n) \in Seq(Numbers)
  BY <1>2, <1>3, Types, SubSeqProperties DEF Without
<1>5. pending' \in [Surfaces -> Seq(Numbers)]
  BY <1>1, <1>4 DEF DecoderTypeOK
<1>6. awaiting' \in [Surfaces -> 0 .. MaxPackets]
      /\ support' \in [Surfaces -> {"unknown", "yes", "no"}]
  BY AnswersType DEF Configure, ConfigureDropping
<1>. QED  BY <1>5, <1>6 DEF Configure, ConfigureDropping, DecoderTypeOK

LEMMA DecodeType ==
  ASSUME Inv, NEW s \in Surfaces, Decode(s) \/ DecodeThrows(s)
  PROVE  DecoderTypeOK'
<1>. USE DEF Inv
<1>1. pending[s] # <<>> /\ pending[s] \in Seq(Numbers)
  BY DEF Decode, DecodeThrows, CanDecode, DecoderTypeOK
<1>2. Head(pending[s]) \in Numbers /\ Tail(pending[s]) \in Seq(Numbers)
  BY <1>1, HeadTailProperties
<1>3. /\ pending' = [pending EXCEPT ![s] = Tail(pending[s])]
      /\ metadata' = [metadata EXCEPT ![s] = metadata[s] \cup {Head(pending[s])}]
  BY DEF Decode, DecodeThrows
<1>6. pending' \in [Surfaces -> Seq(Numbers)]
  BY <1>2, <1>3 DEF DecoderTypeOK
<1>7. metadata' \in [Surfaces -> SUBSET Numbers]
  BY <1>2, <1>3 DEF DecoderTypeOK
<1>4. CASE Decode(s)
  <2>1. Append(queue[s], Head(pending[s])) \in Seq(Numbers)
    BY <1>2, AppendProperties DEF DecoderTypeOK
  <2>2. queue' \in [Surfaces -> Seq(Numbers)]
    BY <1>4, <2>1 DEF Decode, DecoderTypeOK
  <2>. QED  BY <1>4, <1>6, <1>7, <2>2 DEF Decode, DecoderTypeOK
<1>5. CASE DecodeThrows(s)
  <2>1. <<s, Head(pending[s])>> \in Surfaces \X Numbers
    BY <1>2
  <2>2. rejected' \in SUBSET (Surfaces \X Numbers)
    BY <1>5, <2>1 DEF DecodeThrows, DecoderTypeOK
  <2>. QED  BY <1>5, <1>6, <1>7, <2>2 DEF DecodeThrows, DecoderTypeOK, webcodecs
<1>. QED  BY <1>4, <1>5

LEMMA DrawType ==
  ASSUME Inv, NEW s \in Surfaces, Draw(s)
  PROVE  DecoderTypeOK'
<1>. USE DEF Inv
<1>1. decoding[s] # <<>> /\ decoding[s] \in Seq(Numbers)
  BY DEF Draw, Deliver, DecoderTypeOK
<1>2. Head(decoding[s]) \in Numbers /\ Tail(decoding[s]) \in Seq(Numbers)
  BY <1>1, HeadTailProperties
<1>3. decoding' \in [Surfaces -> Seq(Numbers)] /\ metadata' \in [Surfaces -> SUBSET Numbers]
  BY <1>2 DEF Draw, Deliver, DecoderTypeOK
<1>4. Append(drawn[s], Head(decoding[s])) \in Seq(Numbers)
  BY <1>2, AppendProperties DEF DecoderTypeOK
<1>5. drawn' \in [Surfaces -> Seq(Numbers)] /\ draining' \in Surfaces \cup {Nobody}
  BY <1>4 DEF Draw, Deliver, DecoderTypeOK
<1>. QED  BY <1>3, <1>5 DEF Draw, Deliver, DecoderTypeOK

LEMMA TakeType ==
  ASSUME Inv, NEW s \in Surfaces, Take(s)
  PROVE  DecoderTypeOK'
<1>. USE DEF Inv
<1>1. queue[s] # <<>> /\ queue[s] \in Seq(Numbers)
  BY DEF Take, DecoderTypeOK
<1>2. Head(queue[s]) \in Numbers /\ Tail(queue[s]) \in Seq(Numbers)
  BY <1>1, HeadTailProperties
<1>3. Append(decoding[s], Head(queue[s])) \in Seq(Numbers)
  BY <1>2, AppendProperties DEF DecoderTypeOK
<1>4. queue' \in [Surfaces -> Seq(Numbers)] /\ decoding' \in [Surfaces -> Seq(Numbers)]
  BY <1>2, <1>3 DEF Take, DecoderTypeOK
<1>. QED  BY <1>4 DEF Take, DecoderTypeOK, object

LEMMA CloseSocketType ==
  ASSUME Inv, CloseSocket
  PROVE  DecoderTypeOK'
<1>. USE DEF Inv
<1>1. /\ codec' \in [Surfaces -> {"unconfigured", "keyRequired", "ready", "closed"}]
      /\ queue' \in [Surfaces -> Seq(Numbers)] /\ decoding' \in [Surfaces -> Seq(Numbers)]
      /\ pending' \in [Surfaces -> Seq(Numbers)] /\ metadata' \in [Surfaces -> SUBSET Numbers]
  BY EmptySeq DEF CloseSocket, DecoderTypeOK
<1>2. decoders' \in Seq(Surfaces)
  BY EmptySeq DEF CloseSocket, DecoderTypeOK
<1>. QED  BY <1>1, <1>2 DEF CloseSocket, DecoderTypeOK

LEMMA NextType ==
  ASSUME Inv, [Next]_vars
  PROVE  DecoderTypeOK'
<1>1. CASE CloseSocket
  BY <1>1, CloseSocketType
<1>2. ASSUME NEW s \in Surfaces, NEW packet \in Packets, Push(s, packet) PROVE DecoderTypeOK'
  BY <1>2, PushType
<1>3. ASSUME NEW s \in Surfaces, ConfigureThrows(s) \/ Unsupported(s) PROVE DecoderTypeOK'
  <2>1. /\ awaiting' \in [Surfaces -> 0 .. MaxPackets]
        /\ support' \in [Surfaces -> {"unknown", "yes", "no"}]
    BY <1>3, AnswersType DEF Inv, ConfigureThrows, Unsupported
  <2>2. /\ UNCHANGED <<socket, decoders, stream, pending, metadata, configured, webcodecs>>
        /\ UNCHANGED <<draining, rejected, drawn>>
    BY <1>3 DEF ConfigureThrows, Unsupported
  <2>. QED  BY <2>1, <2>2 DEF Inv, DecoderTypeOK, webcodecs
<1>4. ASSUME NEW s \in Surfaces, DrainDone(s) PROVE DecoderTypeOK'
  BY <1>4 DEF Inv, DrainDone, DecoderTypeOK, object, webcodecs
<1>5. ASSUME NEW s \in Surfaces, Fail(s) PROVE DecoderTypeOK'
  BY <1>5, EmptySeq DEF Inv, Fail, DecoderTypeOK, object
<1>6. CASE UNCHANGED vars
  BY <1>6 DEF Inv, vars, DecoderTypeOK
<1>. QED  BY <1>1, <1>2, <1>3, <1>4, <1>5, <1>6, ConfigureType, DecodeType, DrawType, TakeType
          DEF Next

LEMMA PushOnce ==
  ASSUME Inv, NEW s \in Surfaces, NEW packet \in Packets, Push(s, packet)
  PROVE  IsInjective(decoders')
<1>. USE DEF Inv
<1>1. CASE s \in Range(decoders)
  BY <1>1 DEF Push, PageInv
<1>2. CASE s \notin Range(decoders)
  <2>1. /\ decoders \in Seq(Surfaces) /\ Len(decoders) \in Nat
        /\ DOMAIN decoders = 1 .. Len(decoders)
    BY LenProperties DEF DecoderTypeOK
  <2>2. decoders' = Append(decoders, s)
    BY <1>2 DEF Push
  <2>3. /\ decoders' \in Seq(Surfaces)
        /\ Len(decoders') = Len(decoders) + 1 /\ decoders'[Len(decoders) + 1] = s
        /\ \A i \in 1 .. Len(decoders) : decoders'[i] = decoders[i]
    BY <2>1, <2>2, AppendProperties
  <2>4. DOMAIN decoders' = 1 .. Len(decoders) + 1
    BY <2>3, LenProperties
  <2>5. \A i \in 1 .. Len(decoders) : decoders[i] # s
    BY <1>2, <2>1 DEF Range
  <2>6. \A i, j \in 1 .. Len(decoders) : decoders[i] = decoders[j] => i = j
    BY <2>1 DEF PageInv, IsInjective
  <2>7. ASSUME NEW i \in 1 .. Len(decoders) + 1, NEW j \in 1 .. Len(decoders) + 1,
               decoders'[i] = decoders'[j]
        PROVE  i = j
    BY <2>1, <2>3, <2>5, <2>6, <2>7
  <2>. QED  BY <2>4, <2>7 DEF IsInjective
<1>. QED  BY <1>1, <1>2

LEMMA NextPage ==
  ASSUME Inv, [Next]_vars
  PROVE  PageInv'
<1>. USE DEF Inv
<1>1. CASE CloseSocket
  <2>1. /\ UNCHANGED <<rejected, configured, draining, failed>> /\ Idle
        /\ decoders' \in {<<>>, decoders}
    BY <1>1 DEF CloseSocket
  <2>2. IsInjective(<<>>)
    BY DEF IsInjective
  <2>3. IsInjective(decoders')
    BY <2>1, <2>2 DEF PageInv
  <2>. QED  BY <1>1, <2>1, <2>3, AllClosing DEF PageInv, Idle
<1>2. ASSUME NEW s \in Surfaces, NEW packet \in Packets, Push(s, packet) PROVE PageInv'
  BY <1>2, PushOnce DEF Push, PageInv, webcodecs
<1>3. ASSUME NEW s \in Surfaces, ConfigureThrows(s) \/ Unsupported(s) PROVE PageInv'
  BY <1>3 DEF ConfigureThrows, Unsupported, PageInv, webcodecs
<1>4. ASSUME NEW s \in Surfaces, Configure(s) PROVE PageInv'
  <2>1. awaiting[s] \in Usable(s) /\ codec[s] # "closed"
    BY <1>4 DEF Configure, ConfigureDropping, Answers
  <2>2. failed = {} => socket = "open"
    BY <2>1, AwaitedIsStart
  <2>. QED  BY <1>4, <2>2 DEF Configure, ConfigureDropping, PageInv
<1>5. ASSUME NEW s \in Surfaces, Decode(s) PROVE PageInv'
  BY <1>5 DEF Decode, PageInv
<1>6. ASSUME NEW s \in Surfaces, DecodeThrows(s) PROVE PageInv'
  BY <1>6, OnlyClosedThrows DEF DecodeThrows, PageInv, webcodecs
<1>7. ASSUME NEW s \in Surfaces, DrainDone(s) PROVE PageInv'
  BY <1>7 DEF DrainDone, PageInv, object, webcodecs
<1>8. ASSUME NEW s \in Surfaces, Draw(s) PROVE PageInv'
  BY <1>8, DrawSurface DEF Draw, Deliver, PageInv
<1>9. ASSUME NEW s \in Surfaces, Take(s) \/ Fail(s) PROVE PageInv'
  BY <1>9 DEF Take, Fail, PageInv, object
<1>10. CASE UNCHANGED vars
  BY <1>10 DEF vars, PageInv
<1>. QED  BY <1>1, <1>2, <1>3, <1>4, <1>5, <1>6, <1>7, <1>8, <1>9, <1>10 DEF Next

\* A step for one surface leaves the others alone.
LEMMA OthersStay ==
  ASSUME Inv, NEW s \in Surfaces, NEW r \in Surfaces, r # s,
         \/ \E packet \in Packets : Push(s, packet)
         \/ Configure(s) \/ ConfigureThrows(s) \/ Unsupported(s)
         \/ Decode(s) \/ DecodeThrows(s) \/ DrainDone(s) \/ Draw(s) \/ Take(s) \/ Fail(s)
  PROVE  SurfaceInv(r)'
<1>. USE DEF Inv
<1>1. SurfaceInv(r) /\ r # Nobody
  BY SurfacesAssumption
<1>2. ASSUME NEW packet \in Packets, Push(s, packet) PROVE SurfaceInv(r)'
  BY <1>1, <1>2, PushAppends, OtherSurface DEF Push, Idle, webcodecs
<1>3. CASE Configure(s)
  BY <1>1, <1>3, OtherSurface DEF Configure, ConfigureDropping, Answers, Idle, DecoderTypeOK
<1>4. CASE ConfigureThrows(s) \/ Unsupported(s)
  BY <1>1, <1>4, OtherSurface DEF ConfigureThrows, Unsupported, Answers, DecoderTypeOK, webcodecs
<1>5. CASE Decode(s)
  BY <1>1, <1>5, OtherSurface DEF Decode, DecoderTypeOK
<1>6. CASE DecodeThrows(s)
  BY <1>1, <1>6, OtherSurface DEF DecodeThrows, DecoderTypeOK, webcodecs
<1>7. CASE DrainDone(s)
  BY <1>1, <1>7, OtherSurface DEF DrainDone, object, webcodecs
<1>8. CASE Draw(s)
  BY <1>1, <1>8, OtherSurface DEF Draw, Deliver, Idle, DecoderTypeOK
<1>9. CASE Take(s)
  BY <1>1, <1>9, OtherSurface DEF Take, DecoderTypeOK, object
<1>10. CASE Fail(s)
  BY <1>1, <1>10, OtherSurface DEF Fail, DecoderTypeOK, object
<1>. QED  BY <1>2, <1>3, <1>4, <1>5, <1>6, <1>7, <1>8, <1>9, <1>10

LEMMA InitInv == Init => Inv
<1>. SUFFICES ASSUME Init PROVE Inv
  OBVIOUS
<1>1. DecoderTypeOK
  BY EmptySeq, LimitsAssumption DEF Init, DecoderTypeOK
<1>2. PageInv
  BY DEF Init, PageInv, IsInjective
<1>3. ASSUME NEW s \in Surfaces PROVE SurfaceInv(s)
  <2>1. /\ stream[s] = <<>> /\ pending[s] = <<>> /\ metadata[s] = {} /\ awaiting[s] = 0
        /\ configured = {} /\ codec[s] = "unconfigured" /\ queue[s] = <<>>
        /\ decoding[s] = <<>> /\ drawn[s] = <<>> /\ socket = "open"
    BY DEF Init
  <2>2. /\ Len(pending[s]) = 0 /\ Len(queue[s]) = 0 /\ Len(decoding[s]) = 0
        /\ Len(drawn[s]) = 0 /\ Total(s) = 0
    BY <2>1 DEF Total
  <2>3. Start(s) = 0
    BY <1>1, <2>2, Types
  <2>4. NextFrame(s) = 1 /\ NextChunk(s) = 1 /\ NextPacket(s) = 1
    BY <2>1, <2>2 DEF First, NextFrame, NextChunk, NextPacket
  <2>5. Placed(s) /\ DrawnInv(s)
    BY <2>1, <2>2, <2>3, <2>4 DEF Placed, DrawnInv, Run
  <2>. QED  BY <2>1, <2>2, <2>5, LimitsAssumption DEF SurfaceInv, StageInv, DrainInv, CloseInv
<1>. QED  BY <1>1, <1>2, <1>3 DEF Inv

LEMMA NextInv == Inv /\ [Next]_vars => Inv'
<1>. SUFFICES ASSUME Inv, [Next]_vars PROVE Inv'
  OBVIOUS
<1>1. DecoderTypeOK' /\ PageInv'
  BY NextType, NextPage
<1>2. ASSUME NEW r \in Surfaces PROVE SurfaceInv(r)'
  <2>1. CASE CloseSocket
    BY <2>1, CloseSocketSurface
  <2>2. ASSUME NEW s \in Surfaces,
               \/ \E packet \in Packets : Push(s, packet)
               \/ Configure(s) \/ ConfigureThrows(s) \/ Unsupported(s)
               \/ Decode(s) \/ DecodeThrows(s) \/ DrainDone(s) \/ Draw(s) \/ Take(s) \/ Fail(s)
        PROVE  SurfaceInv(r)'
    <3>1. CASE r = s
      BY <2>2, <3>1, PushSurface, ConfigureSurface, AnswerSurface, DecodeSurface,
         DecodeThrowsSurface, DrainDoneSurface, DrawSurface, TakeSurface, FailSurface
    <3>2. CASE r # s
      BY <2>2, <3>2, OthersStay
    <3>. QED  BY <3>1, <3>2
  <2>3. CASE UNCHANGED vars
    <3>1. SurfaceInv(r)
      BY DEF Inv
    <3>. QED  BY <2>3, <3>1, OtherSurface DEF vars
  <2>. QED  BY <2>1, <2>2, <2>3 DEF Next
<1>. QED  BY <1>1, <1>2 DEF Inv

LEMMA InvHolds == Spec => []Inv
  BY InitInv, NextInv, PTL DEF Spec

-----------------------------------------------------------------------------
(* The properties. *)

\* Every variable has values of its type (SurfaceDecoder, VideoDecoder).
THEOREM TypeCorrect == Spec => []DecoderTypeOK
  BY InvHolds, PTL DEF Inv

LEMMA InvConserved ==
  ASSUME Inv, NEW s \in Surfaces, codec[s] # "closed"
  PROVE  /\ drawn[s] \o decoding[s] \o queue[s] \o pending[s] = From(s, First(s))
         /\ metadata[s] = Range(decoding[s] \o queue[s])
<1>. USE DEF Inv
<1>1. Placed(s) /\ First(s) \in Nat
  BY Types DEF SurfaceInv
<1>2. Run(drawn[s], First(s))
  BY Types, RunEmpty DEF SurfaceInv, StageInv, DrawnInv, First
<1>11. PICK d \in Nat, c \in Nat, q \in Nat :
         d = Len(drawn[s]) /\ c = Len(decoding[s]) /\ q = Len(queue[s])
  BY Types
<1>12. /\ NextFrame(s) = First(s) + d /\ NextChunk(s) = NextFrame(s) + c
       /\ NextPacket(s) = NextChunk(s) + q
       /\ NextFrame(s) \in Nat /\ NextChunk(s) \in Nat /\ NextPacket(s) \in Nat
  BY <1>11, Types DEF NextFrame, NextChunk, NextPacket
<1>3. PICK one : one = drawn[s] \o decoding[s]
  OBVIOUS
<1>4. PICK two : two = one \o queue[s]
  OBVIOUS
<1>5. PICK all : all = two \o pending[s]
  OBVIOUS
<1>6. one \in Seq(Nat) /\ First(s) + Len(one) = NextChunk(s) /\ Run(one, First(s))
  <2>1. one \in Seq(Nat) /\ Len(one) = d + c /\ Run(one, First(s))
    BY <1>1, <1>2, <1>3, <1>11, RunConcat, Types DEF Placed, NextFrame
  <2>2. First(s) + (d + c) = NextChunk(s)
    BY <1>1, <1>12
  <2>. QED  BY <2>1, <2>2
<1>7. two \in Seq(Nat) /\ First(s) + Len(two) = NextPacket(s) /\ Run(two, First(s))
  <2>1. two \in Seq(Nat) /\ Len(two) = Len(one) + Len(queue[s]) /\ Run(two, First(s))
    BY <1>1, <1>4, <1>6, RunConcat, Types DEF Placed
  <2>2. Len(one) \in Nat
    BY <1>6, LenProperties
  <2>. QED  BY <2>1, <2>2, <1>1, <1>6, Types DEF NextPacket
<1>8. all \in Seq(Nat) /\ First(s) + Len(all) = Total(s) + 1 /\ Run(all, First(s))
  <2>1. all \in Seq(Nat) /\ Len(all) = Len(two) + Len(pending[s]) /\ Run(all, First(s))
    BY <1>1, <1>5, <1>7, RunConcat, Types DEF Placed
  <2>2. Len(two) \in Nat
    BY <1>7, LenProperties
  <2>. QED  BY <2>1, <2>2, <1>1, <1>7, Types DEF Placed
<1>9. all = From(s, First(s))
  <2>1. Len(all) = Total(s) - First(s) + 1 /\ Len(all) \in Nat
    BY <1>1, <1>8, LenProperties, Types
  <2>2. all = [i \in 1 .. Len(all) |-> First(s) + i - 1]
    BY <1>1, <1>8, <2>1, RunUnique
  <2>. QED  BY <2>1, <2>2 DEF From, Total
<1>10. metadata[s] = Range(decoding[s] \o queue[s])
  <2>1. PICK held : held = decoding[s] \o queue[s]
    OBVIOUS
  <2>2. held \in Seq(Nat) /\ Len(held) = c + q /\ Run(held, NextFrame(s))
    BY <1>1, <1>11, <2>1, RunConcat, Types DEF Placed, NextChunk
  <2>3. NextFrame(s) + Len(held) = NextPacket(s)
    BY <1>12, <2>2
  <2>4. Range(held) = NextFrame(s) .. NextPacket(s) - 1
    BY <1>12, <2>2, <2>3, RunRange
  <2>. QED  BY <1>1, <2>1, <2>4 DEF Placed
<1>. QED  BY <1>3, <1>4, <1>5, <1>9, <1>10

\* While its codec is not closed, every packet of a surface is in one place and
\* in its turn, from push() to draw(), and the metadata are those of the packets
\* in the codec.
THEOREM Conserved == Spec => []PacketsConserved
<1>1. Inv => PacketsConserved
  BY InvConserved DEF PacketsConserved, First
<1>. QED  BY <1>1, InvHolds, PTL

\* decode() is never refused for lack of a key frame (drain).
THEOREM NeverRejected == Spec => []NothingRejected
<1>1. Inv => NothingRejected
  BY DEF Inv, PageInv, NothingRejected
<1>. QED  BY <1>1, InvHolds, PTL

\* drain() never returns for good: the codec holds something if packets wait.
THEOREM DrainAlwaysResumes == Spec => []DrainResumes
<1>1. ASSUME Inv PROVE DrainResumes
  <2>. USE <1>1 DEF Inv
  <2>1. ASSUME NEW s \in configured PROVE Len(queue[s]) <= QueueLimit
    BY <2>1 DEF SurfaceInv, DrainInv, DecoderTypeOK
  <2>2. ASSUME NEW s \in configured, Idle, codec[s] # "closed", pending[s] # <<>>
        PROVE  queue[s] \o decoding[s] # <<>>
    <3>1. s \in Surfaces /\ draining # s
      BY <2>2, SurfacesAssumption DEF DecoderTypeOK, Idle
    <3>2. queue[s] # <<>> \/ decoding[s] # <<>>
      BY <2>2, <3>1 DEF SurfaceInv, DrainInv
    <3>. QED  BY <3>1, <3>2, Types, ConcatEqualIffEmpty
  <2>. QED  BY <2>1, <2>2 DEF DrainResumes
<1>. QED  BY <1>1, InvHolds, PTL

\* After onclose (closeDecoders) no codec is open or configured later, unless
\* one had failed.
THEOREM CloseFinal == Spec => []CloseIsFinal
<1>1. ASSUME Inv PROVE CloseIsFinal
  <2>. USE <1>1 DEF Inv
  <2>1. ASSUME socket = "closed", failed = {}, NEW s \in Surfaces
        PROVE  /\ stream[s] # <<>> => codec[s] = "closed"
               /\ pending[s] \o queue[s] \o decoding[s] = <<>>
               /\ metadata[s] = {}
    <3>1. /\ stream[s] # <<>> => codec[s] = "closed"
          /\ pending[s] = <<>> /\ queue[s] = <<>> /\ decoding[s] = <<>> /\ metadata[s] = {}
      BY <2>1 DEF SurfaceInv, CloseInv
    <3>2. <<>> \o <<>> \o <<>> = <<>>
      OBVIOUS
    <3>. QED  BY <3>1, <3>2
  <2>. QED  BY <2>1 DEF CloseIsFinal, PageInv, Idle
<1>. QED  BY <1>1, InvHolds, PTL

-----------------------------------------------------------------------------
(* The surface's decoder is a relay. *)

PutIn == IF Start(Observed) = 0 THEN 0 ELSE Len(stream[Observed]) - Start(Observed) + 1
CameOut == [i \in DOMAIN drawn[Observed] |-> drawn[Observed][i] - Start(Observed) + 1]
IsBroken == support[Observed] = "no" \/ codec[Observed] = "closed" \/ socket = "closed"

LEMMA SameStreams ==
  ASSUME stream'[Observed] = stream[Observed], drawn'[Observed] = drawn[Observed]
  PROVE  PutIn' = PutIn /\ CameOut' = CameOut
<1>1. Start(Observed)' = Start(Observed)
  BY DEF Start, Usable
<1>. QED  BY <1>1 DEF PutIn, CameOut

\* What came out is numbered from 1.
LEMMA RunCounts ==
  ASSUME NEW q \in Seq(Nat), NEW a \in Nat, Run(q, a)
  PROVE  [i \in DOMAIN q |-> q[i] - a + 1] = [i \in 1 .. Len(q) |-> i]
<1>1. DOMAIN q = 1 .. Len(q)
  BY LenProperties
<1>2. \A i \in 1 .. Len(q) : q[i] - a + 1 = i
  BY DEF Run
<1>. QED  BY <1>1, <1>2

\* A step that is not of the surface
LEMMA OthersQuiet ==
  ASSUME stream'[Observed] = stream[Observed], drawn'[Observed] = drawn[Observed],
         support'[Observed] = support[Observed], codec'[Observed] = codec[Observed],
         socket' = socket
  PROVE  [Relay!PipeNext]_(Relay!pipe)
<1>1. IsBroken' = IsBroken
  BY DEF IsBroken
<1>. QED  BY <1>1, SameStreams DEF PutIn, CameOut, IsBroken, Relay!pipe

\* A step that may only break the relay, or leave it broken
LEMMA Breaks ==
  ASSUME stream'[Observed] = stream[Observed], drawn'[Observed] = drawn[Observed],
         IsBroken'
  PROVE  [Relay!PipeNext]_(Relay!pipe)
<1>1. IsBroken' = TRUE
  BY DEF IsBroken
<1>. QED  BY <1>1, SameStreams DEF PutIn, CameOut, IsBroken, Relay!PipeNext, Relay!Break

\* push() puts a packet in, if a key frame to start from was received.
LEMMA PushRelays ==
  ASSUME Inv, NEW packet \in Packets, Push(Observed, packet)
  PROVE  [Relay!PipeNext]_(Relay!pipe)
<1>. USE SurfacesAssumption DEF Inv
<1>1. /\ Total(Observed)' = Total(Observed) + 1 /\ IsBroken' = IsBroken
      /\ drawn' = drawn /\ Total(Observed) \in Nat /\ Start(Observed) \in 0 .. Total(Observed)
  BY PushAppends, Types DEF Push, IsBroken, webcodecs
<1>2. CASE Start(Observed) # 0
  <2>1. Start(Observed)' = Start(Observed)
    BY <1>2, PushStart
  <2>2. PutIn' = PutIn + 1
    BY <1>1, <1>2, <2>1 DEF PutIn, Total
  <2>3. CameOut' = CameOut
    BY <1>1, <2>1 DEF CameOut
  <2>. QED  BY <1>1, <2>2, <2>3 DEF PutIn, CameOut, IsBroken, Relay!PipeNext, Relay!Put
<1>3. CASE Start(Observed) = 0
  <2>1. Start(Observed)' \in {0, Total(Observed) + 1}
    BY <1>3, PushStart
  <2>2. PutIn = 0 /\ PutIn' \in {0, 1}
    BY <1>1, <1>3, <2>1 DEF PutIn, Total
  <2>3. drawn[Observed] = <<>>
    BY <1>3 DEF SurfaceInv, StageInv
  <2>4. CameOut' = CameOut
    <3>1. drawn'[Observed] = <<>> /\ DOMAIN <<>> = {}
      BY <1>1, <2>3
    <3>2. CameOut = <<>> /\ CameOut' = <<>>
      BY <2>3, <3>1 DEF CameOut
    <3>. QED  BY <3>2
  <2>5. PutIn' = PutIn + 1 \/ PutIn' = PutIn
    BY <2>2
  <2>. QED  BY <1>1, <2>4, <2>5
            DEF PutIn, CameOut, IsBroken, Relay!PipeNext, Relay!Put, Relay!pipe
<1>. QED  BY <1>2, <1>3

\* draw() lets the next packet out.
LEMMA DrawRelays ==
  ASSUME Inv, Draw(Observed)
  PROVE  [Relay!PipeNext]_(Relay!pipe)
<1>. USE SurfacesAssumption DEF Inv
<1>1. /\ drawn'[Observed] = Append(drawn[Observed], Start(Observed) + Len(drawn[Observed]))
      /\ Start(Observed) # 0 /\ Start(Observed) + Len(drawn[Observed]) <= Total(Observed)
  BY DrawSurface
<1>n. PICK n : n = Len(drawn[Observed])
  OBVIOUS
<1>5. IsBroken' = IsBroken /\ PutIn' = PutIn /\ Start(Observed)' = Start(Observed)
  <2>1. UNCHANGED <<stream, support, codec, socket>>
    BY DEF Draw, Deliver
  <2>2. Start(Observed)' = Start(Observed)
    BY <2>1 DEF Start, Usable
  <2>. QED  BY <2>1, <2>2 DEF IsBroken, PutIn
<1>2. /\ n \in Nat /\ Start(Observed) \in Nat /\ Total(Observed) \in Nat
      /\ drawn[Observed] \in Seq(Nat) /\ Run(drawn[Observed], Start(Observed))
      /\ drawn'[Observed] \in Seq(Nat) /\ Run(drawn'[Observed], Start(Observed))
      /\ Len(drawn'[Observed]) = n + 1
  <2>1. /\ n \in Nat /\ Start(Observed) \in Nat /\ Total(Observed) \in Nat
        /\ drawn[Observed] \in Seq(Nat)
    BY <1>n, Types
  <2>2. Run(drawn[Observed], Start(Observed))
    BY DEF SurfaceInv, DrawnInv
  <2>. QED  BY <1>n, <1>1, <2>1, <2>2, RunAppend
<1>3. CameOut = [i \in 1 .. n |-> i] /\ CameOut' = [i \in 1 .. n + 1 |-> i]
  <2>1. CameOut' = [i \in DOMAIN drawn'[Observed] |->
                      drawn'[Observed][i] - Start(Observed) + 1]
    BY <1>5 DEF CameOut
  <2>2. CameOut' = [i \in 1 .. n + 1 |-> i]
    BY <1>2, <2>1, RunCounts
  <2>3. CameOut = [i \in 1 .. n |-> i]
    BY <1>n, <1>2, RunCounts DEF CameOut
  <2>. QED  BY <2>2, <2>3
<1>4. Len(CameOut) = n /\ CameOut' = Append(CameOut, n + 1)
  BY <1>2, <1>3, CountingAppend
<1>6. n < PutIn
  BY <1>n, <1>1, <1>2 DEF PutIn, Total
<1>. QED  BY <1>4, <1>5, <1>6 DEF PutIn, CameOut, IsBroken, Relay!PipeNext, Relay!Get

LEMMA NextRelays ==
  ASSUME Inv, [Next]_vars
  PROVE  [Relay!PipeNext]_(Relay!pipe)
<1>. USE SurfacesAssumption DEF Inv
<1>1. CASE CloseSocket
  BY <1>1, Breaks DEF CloseSocket, IsBroken
<1>2. ASSUME NEW s \in Surfaces, NEW packet \in Packets, Push(s, packet)
      PROVE  [Relay!PipeNext]_(Relay!pipe)
  <2>1. CASE s = Observed
    BY <1>2, <2>1, PushRelays
  <2>2. CASE s # Observed
    BY <1>2, <2>2, PushAppends, OthersQuiet DEF Push, webcodecs
  <2>. QED  BY <2>1, <2>2
<1>3. ASSUME NEW s \in Surfaces, Configure(s)
      PROVE  [Relay!PipeNext]_(Relay!pipe)
  <2>1. CASE s = Observed
    <3>1. IsBroken' = IsBroken
      BY <1>3, <2>1 DEF Configure, ConfigureDropping, Answers, IsBroken, DecoderTypeOK
    <3>2. UNCHANGED <<stream, drawn>>
      BY <1>3 DEF Configure, ConfigureDropping
    <3>. QED  BY <3>1, <3>2, SameStreams DEF PutIn, CameOut, IsBroken, Relay!pipe
  <2>2. CASE s # Observed
    BY <1>3, <2>2, OthersQuiet DEF Configure, ConfigureDropping, Answers, DecoderTypeOK
  <2>. QED  BY <2>1, <2>2
<1>4. ASSUME NEW s \in Surfaces, ConfigureThrows(s) \/ Unsupported(s)
      PROVE  [Relay!PipeNext]_(Relay!pipe)
  <2>1. CASE s = Observed
    <3>1. IsBroken' /\ UNCHANGED <<stream, drawn>>
      BY <1>4, <2>1
         DEF ConfigureThrows, Unsupported, Answers, IsBroken, DecoderTypeOK, webcodecs
    <3>. QED  BY <3>1, Breaks
  <2>2. CASE s # Observed
    BY <1>4, <2>2, OthersQuiet DEF ConfigureThrows, Unsupported, Answers, DecoderTypeOK, webcodecs
  <2>. QED  BY <2>1, <2>2
<1>5. ASSUME NEW s \in Surfaces, Decode(s)
      PROVE  [Relay!PipeNext]_(Relay!pipe)
  <2>1. UNCHANGED <<stream, drawn, support, socket>>
    BY <1>5 DEF Decode
  <2>2. codec[Observed] = "closed" <=> codec'[Observed] = "closed"
    BY <1>5 DEF Decode, DecoderTypeOK
  <2>3. IsBroken' = IsBroken
    BY <2>1, <2>2 DEF IsBroken
  <2>. QED  BY <2>1, <2>3, SameStreams DEF PutIn, CameOut, IsBroken, Relay!pipe
<1>6. ASSUME NEW s \in Surfaces, DecodeThrows(s) \/ DrainDone(s) \/ Take(s)
      PROVE  [Relay!PipeNext]_(Relay!pipe)
  BY <1>6, OthersQuiet DEF DecodeThrows, DrainDone, Take, object, webcodecs
<1>7. ASSUME NEW s \in Surfaces, Draw(s)
      PROVE  [Relay!PipeNext]_(Relay!pipe)
  <2>1. CASE s = Observed
    BY <1>7, <2>1, DrawRelays
  <2>2. CASE s # Observed
    BY <1>7, <2>2, OthersQuiet DEF Draw, Deliver, DecoderTypeOK
  <2>. QED  BY <2>1, <2>2
<1>8. ASSUME NEW s \in Surfaces, Fail(s)
      PROVE  [Relay!PipeNext]_(Relay!pipe)
  <2>1. CASE s = Observed
    <3>1. IsBroken' /\ UNCHANGED <<stream, drawn>>
      BY <1>8, <2>1 DEF Fail, IsBroken, DecoderTypeOK
    <3>. QED  BY <3>1, Breaks
  <2>2. CASE s # Observed
    BY <1>8, <2>2, OthersQuiet DEF Fail, DecoderTypeOK
  <2>. QED  BY <2>1, <2>2
<1>9. CASE UNCHANGED vars
  BY <1>9, OthersQuiet DEF vars
<1>. QED  BY <1>1, <1>2, <1>3, <1>4, <1>5, <1>6, <1>7, <1>8, <1>9 DEF Next

\* A surface's decoder (SurfaceDecoder) implements the safety part of the relay:
\* from the first usable key frame on, all packets are drawn, in order.
THEOREM PacketsAreRelayed == Spec => Relay!PipeSafety
<1>1. Init => Relay!PipeInit
  <2>. SUFFICES ASSUME Init PROVE Relay!PipeInit
    OBVIOUS
  <2>1. Inv
    BY InitInv
  <2>2. Start(Observed) = 0 /\ PutIn = 0
    BY <2>1, SurfacesAssumption, Types DEF Init, Inv, Total, PutIn
  <2>3. CameOut = <<>>
    BY SurfacesAssumption DEF Init, CameOut
  <2>4. IsBroken = FALSE
    BY SurfacesAssumption DEF Init, IsBroken
  <2>. QED  BY <2>2, <2>3, <2>4 DEF PutIn, CameOut, IsBroken, Relay!PipeInit
<1>2. Inv /\ [Next]_vars => [Relay!PipeNext]_(Relay!pipe)
  BY NextRelays
<1>. QED  BY <1>1, <1>2, InvHolds, PTL DEF Spec, Relay!PipeSafety

=============================================================================
