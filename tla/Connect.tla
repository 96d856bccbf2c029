------------------------------ MODULE Connect ------------------------------
(***************************************************************************)
(* How the RDP thread connects (run and connect in src/src/rdp.rs), and    *)
(* the stream through which everything after the TLS upgrade is written:   *)
(* GfxFlagStream adds the graphics flag to the connector's MCS Connect     *)
(* Initial PDU.  Connector and active stage are external: they generate    *)
(* packets, and the server answers or does not.                            *)
(***************************************************************************)
EXTENDS Integers, Sequences

CONSTANTS
  Flags,       \* early capability flags
  Gfx,         \* SUPPORT_DYN_VC_GFX_PROTOCOL
  NoFlags,     \* a PDU without the optional flags field: no set of flags
  MaxPackets   \* bound: packets written after the TLS upgrade

ASSUME FlagsAssumption == Gfx \in Flags /\ NoFlags \notin SUBSET Flags

ASSUME BoundAssumption == MaxPackets \in Nat

VARIABLES
  stage,       \* how far run() and connect() are
  flagSent,    \* flag_sent of GfxFlagStream
  generated,   \* the packets given to GfxFlagStream
  written      \* the packets written to the TLS stream

vars == <<stage, flagSent, generated, written>>

Connecting == {"tcp", "negotiation", "tls", "credssp", "activation"}
Optional == (SUBSET Flags) \cup {NoFlags}
Packets == [kind : {"credssp", "connectInitial", "other"}, flags : Optional]

Init ==
  /\ stage = "tcp"
  /\ flagSent = FALSE
  /\ generated = <<>>
  /\ written = <<>>

-----------------------------------------------------------------------------

\* TcpStream::connect, connect_begin and the TLS upgrade succeed in turn.
Advance ==
  /\ \/ stage = "tcp" /\ stage' = "negotiation"
     \/ stage = "negotiation" /\ stage' = "tls"
     \/ stage = "tls" /\ stage' = "credssp"
  /\ UNCHANGED <<flagSent, generated, written>>

\* Slip: only the TCP connect has a timeout.
TimeoutOfTcp ==
  /\ stage = "tcp"
  /\ stage' = "failed"
  /\ UNCHANGED <<flagSent, generated, written>>

\* timeout() of 20 s on the TCP connect and of 30 s on the rest
Timeout ==
  /\ stage \in Connecting
  /\ stage' = "failed"
  /\ UNCHANGED <<flagSent, generated, written>>

\* An error of any step, or of a read
Fail ==
  /\ stage \in Connecting \cup {"connected"}
  /\ stage' = "failed"
  /\ UNCHANGED <<flagSent, generated, written>>

\* add_gfx_capability_flag of a Connect Initial that can be rebuilt
AddGfx(p) == [p EXCEPT !.flags = (IF @ = NoFlags THEN {} ELSE @) \cup {Gfx}]

IsConnectInitial(p) == p.kind = "connectInitial"

\* Slip: flag_sent is set by whatever packet comes first.
PatchFirst(p) ==
  [packet |-> IF ~flagSent /\ IsConnectInitial(p) THEN AddGfx(p) ELSE p, sent |-> TRUE]

\* What write_all writes for packet p, and flag_sent after it
Patch(p) ==
  IF ~flagSent /\ IsConnectInitial(p)
  THEN [packet |-> AddGfx(p), sent |-> TRUE]
  ELSE [packet |-> p, sent |-> flagSent]

\* GfxFlagStream::write_all.  If the packet cannot be rebuilt, nothing is
\* written; if the inner stream fails, the server may have seen a part.
WriteAll(p) ==
  /\ Len(generated) < MaxPackets
  /\ generated' = Append(generated, p)
  /\ \/ /\ written' = Append(written, Patch(p).packet)
        /\ flagSent' = Patch(p).sent
     \/ /\ stage' = "failed"
        /\ flagSent' = Patch(p).sent
        /\ UNCHANGED written
     \/ /\ ~flagSent /\ IsConnectInitial(p)
        /\ stage' = "failed"
        /\ UNCHANGED <<flagSent, written>>

\* connect_finalize: CredSSP, ...
CredSsp ==
  /\ stage = "credssp"
  /\ stage' \in {stage, "failed"}
  /\ WriteAll([kind |-> "credssp", flags |-> NoFlags])

\* ... the Connect Initial with flags of the connector's choice, ...
ConnectInitial(flags) ==
  /\ stage = "credssp"
  /\ stage' \in {"activation", "failed"}
  /\ WriteAll([kind |-> "connectInitial", flags |-> flags])

\* ... and the rest of the activation; later the responses of the active stage.
Other ==
  /\ stage \in {"activation", "connected"}
  /\ stage' \in {stage, "failed"}
  /\ WriteAll([kind |-> "other", flags |-> NoFlags])

Connected ==
  /\ stage = "activation"
  /\ stage' = "connected"
  /\ UNCHANGED <<flagSent, generated, written>>

Next ==
  \/ Advance
  \/ Timeout
  \/ Fail
  \/ CredSsp
  \/ \E flags \in Optional : ConnectInitial(flags)
  \/ Other
  \/ Connected

Spec == Init /\ [][Next]_vars

\* Nothing is assumed of the server or of the network: timers fire.
FairSpec == Spec /\ WF_vars(Timeout)

-----------------------------------------------------------------------------
(* Properties. *)

\* What the server reads is what was generated, packet by packet, but for the
\* Connect Initial, which has the graphics flag in addition to those it had;
\* and a connected session has sent that one, whatever was written before.
FlagReachesServer ==
  /\ Len(written) <= Len(generated)
  /\ stage # "failed" => Len(written) = Len(generated)
  /\ \A i \in DOMAIN written :
       LET p == generated[i]
       IN  IF IsConnectInitial(p)
           THEN /\ Gfx \in written[i].flags
                /\ p.flags # NoFlags => written[i].flags = p.flags \cup {Gfx}
           ELSE written[i] = p
  /\ stage = "connected" => \E i \in DOMAIN written : IsConnectInitial(written[i])

\* Connecting ends although a server accepts the connection and then is silent,
\* so that the thread comes to notice that its browser left.
ConnectingEnds == <>(stage \notin Connecting)
=============================================================================
