---------------------------- MODULE ConnectProofs ----------------------------
(***************************************************************************)
(* The graphics flag reaches the server, for any number of packets and any *)
(* flags.                                                                  *)
(***************************************************************************)
EXTENDS Connect, SequenceTheorems, TLAPS

BeforeConnectInitial == {"tcp", "negotiation", "tls", "credssp"}
Stages == Connecting \cup {"connected", "failed"}

\* What packet p has become when it is written
Reached(p, w) ==
  IF IsConnectInitial(p)
  THEN /\ Gfx \in w.flags
       /\ p.flags # NoFlags => w.flags = p.flags \cup {Gfx}
  ELSE w = p

\* The inductive invariant: flag_sent is not set before the Connect Initial is
\* generated, and the stages after it know that it was written.
Inv ==
  /\ stage \in Stages
  /\ flagSent \in BOOLEAN
  /\ generated \in Seq(Packets)
  /\ written \in Seq(Packets)
  /\ Len(written) <= Len(generated)
  /\ stage # "failed" => Len(written) = Len(generated)
  /\ \A i \in DOMAIN written : Reached(generated[i], written[i])
  /\ stage \in BeforeConnectInitial => ~flagSent
  /\ stage \in {"activation", "connected"} =>
       \E i \in DOMAIN written : IsConnectInitial(written[i])

\* add_gfx_capability_flag adds the flag and leaves the kind of the packet.
LEMMA AddGfxAdds ==
  ASSUME NEW p \in Packets
  PROVE  /\ AddGfx(p) \in Packets
         /\ AddGfx(p).kind = p.kind
         /\ Gfx \in AddGfx(p).flags
         /\ p.flags # NoFlags => AddGfx(p).flags = p.flags \cup {Gfx}
<1> DEFINE flags == (IF p.flags = NoFlags THEN {} ELSE p.flags) \cup {Gfx}
<1>1. flags \in SUBSET Flags
  BY FlagsAssumption DEF Packets, Optional
<1>2. AddGfx(p) = [kind |-> p.kind, flags |-> flags]
  BY DEF AddGfx, Packets
<1>. QED  BY <1>1, <1>2 DEF Packets, Optional

\* A packet is written as it must be, unless flag_sent was set too early.
LEMMA PatchReaches ==
  ASSUME NEW p \in Packets, flagSent \in BOOLEAN, IsConnectInitial(p) => ~flagSent
  PROVE  /\ Patch(p).packet \in Packets
         /\ Patch(p).sent \in BOOLEAN
         /\ Reached(p, Patch(p).packet)
         /\ IsConnectInitial(Patch(p).packet) <=> IsConnectInitial(p)
         /\ ~IsConnectInitial(p) => Patch(p).sent = flagSent
  BY AddGfxAdds DEF Patch, Reached, IsConnectInitial

\* After write_all the sequences are as long as the invariant says, and each
\* packet is what it was or the one just written.
LEMMA WriteKeeps ==
  ASSUME Inv, stage # "failed", NEW p \in Packets, WriteAll(p),
         IsConnectInitial(p) => ~flagSent
  PROVE  /\ generated' \in Seq(Packets)
         /\ written' \in Seq(Packets)
         /\ flagSent' \in BOOLEAN
         /\ ~IsConnectInitial(p) => flagSent' = flagSent
         /\ Len(written') <= Len(generated')
         /\ stage' # "failed" => Len(written') = Len(generated')
         /\ \A i \in DOMAIN written' : Reached(generated'[i], written'[i])
         /\ \A i \in DOMAIN written : i \in DOMAIN written' /\ written'[i] = written[i]
         /\ stage' # "failed" /\ IsConnectInitial(p) =>
              \E i \in DOMAIN written' : IsConnectInitial(written'[i])
<1>. USE DEF Inv
<1>1. /\ Patch(p).packet \in Packets
      /\ Patch(p).sent \in BOOLEAN
      /\ Reached(p, Patch(p).packet)
      /\ IsConnectInitial(Patch(p).packet) <=> IsConnectInitial(p)
      /\ ~IsConnectInitial(p) => Patch(p).sent = flagSent
  BY PatchReaches
<1>2. /\ generated' = Append(generated, p)
      /\ generated' \in Seq(Packets)
      /\ Len(generated') = Len(generated) + 1
      /\ \A i \in DOMAIN generated : generated'[i] = generated[i]
      /\ generated'[Len(generated) + 1] = p
  BY DEF WriteAll
<1>3. CASE /\ written' = Append(written, Patch(p).packet)
           /\ flagSent' = Patch(p).sent
  <2>1. /\ written' \in Seq(Packets)
        /\ Len(written') = Len(written) + 1
        /\ DOMAIN written' = 1 .. Len(written) + 1
        /\ \A i \in DOMAIN written : i \in DOMAIN written' /\ written'[i] = written[i]
        /\ written'[Len(written) + 1] = Patch(p).packet
    BY <1>1, <1>3
  <2>. QED  BY <1>1, <1>2, <1>3, <2>1
<1>4. CASE written' = written /\ stage' = "failed" /\ flagSent' \in {flagSent, Patch(p).sent}
  BY <1>1, <1>2, <1>4
<1>. QED  BY <1>3, <1>4 DEF WriteAll

LEMMA InitInv == Init => Inv
<1> SUFFICES ASSUME Init PROVE Inv
  OBVIOUS
<1>1. /\ generated = <<>> /\ generated \in Seq(Packets) /\ Len(generated) = 0
      /\ written = <<>> /\ written \in Seq(Packets) /\ Len(written) = 0
      /\ DOMAIN written = {}
  BY DEF Init
<1>2. stage \in Stages /\ stage \notin {"activation", "connected"}
  BY DEF Init, Stages, Connecting
<1>3. flagSent \in BOOLEAN /\ ~flagSent
  BY Zenon DEF Init
<1>4. \A i \in DOMAIN written : Reached(generated[i], written[i])
  BY <1>1
<1>5. Len(written) <= Len(generated) /\ Len(written) = Len(generated)
  BY <1>1
<1>. QED  BY <1>1, <1>2, <1>3, <1>4, <1>5, Zenon DEF Inv

LEMMA NextInv == Inv /\ [Next]_vars => Inv'
<1> SUFFICES ASSUME Inv, [Next]_vars PROVE Inv'
  OBVIOUS
<1>. USE DEF Inv, Stages, Connecting, BeforeConnectInitial
<1>1. CASE Advance
  BY <1>1 DEF Advance
<1>2. CASE Timeout
  BY <1>2 DEF Timeout
<1>3. CASE Fail
  BY <1>3 DEF Fail
<1>4. CASE CredSsp
  <2>. DEFINE p == [kind |-> "credssp", flags |-> NoFlags]
  <2>1. p \in Packets /\ ~IsConnectInitial(p)
    BY DEF Packets, Optional, IsConnectInitial
  <2>2. stage = "credssp" /\ stage' \in {"credssp", "failed"} /\ WriteAll(p)
    BY <1>4 DEF CredSsp
  <2>. HIDE DEF p
  <2>. QED  BY <2>1, <2>2, WriteKeeps
<1>5. CASE \E flags \in Optional : ConnectInitial(flags)
  <2>1. PICK flags \in Optional : ConnectInitial(flags)
    BY <1>5
  <2>. DEFINE p == [kind |-> "connectInitial", flags |-> flags]
  <2>2. p \in Packets /\ IsConnectInitial(p)
    BY DEF Packets, IsConnectInitial
  <2>3. stage = "credssp" /\ stage' \in {"activation", "failed"} /\ WriteAll(p)
    BY <2>1 DEF ConnectInitial
  <2>. HIDE DEF p
  <2>. QED  BY <2>2, <2>3, WriteKeeps
<1>6. CASE Other
  <2>. DEFINE p == [kind |-> "other", flags |-> NoFlags]
  <2>1. p \in Packets /\ ~IsConnectInitial(p)
    BY DEF Packets, Optional, IsConnectInitial
  <2>2. stage \in {"activation", "connected"} /\ stage' \in {stage, "failed"} /\ WriteAll(p)
    BY <1>6 DEF Other
  <2>3. PICK i \in DOMAIN written : IsConnectInitial(written[i])
    BY <2>2
  <2>. HIDE DEF p
  <2>4. i \in DOMAIN written' /\ IsConnectInitial(written'[i])
    BY <2>1, <2>2, <2>3, WriteKeeps
  <2>. QED  BY <2>1, <2>2, <2>4, WriteKeeps
<1>7. CASE Connected
  BY <1>7 DEF Connected
<1>8. CASE UNCHANGED vars
  BY <1>8 DEF vars
<1>. QED  BY <1>1, <1>2, <1>3, <1>4, <1>5, <1>6, <1>7, <1>8 DEF Next

LEMMA InvFlagReaches == Inv => FlagReachesServer
  BY DEF Inv, FlagReachesServer, Reached, IsConnectInitial

\* The server reads what was generated, with the graphics flag in the Connect
\* Initial (GfxFlagStream::write_all), and a connected session has sent that.
THEOREM FlagReaches == Spec => []FlagReachesServer
<1>1. Spec => []Inv
  BY InitInv, NextInv, PTL DEF Spec
<1>. QED  BY <1>1, InvFlagReaches, PTL
=============================================================================
