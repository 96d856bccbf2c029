---------------------------- MODULE SessionProofs ----------------------------
(***************************************************************************)
(* Proofs about Session, for every value of its bounds: types, events, the *)
(* end, and inputs.                                                        *)
(***************************************************************************)
EXTENDS Session, SequenceTheorems, TLAPS

-----------------------------------------------------------------------------
(* Sequences of numbers. *)

LEMMA EmptyNats == <<>> \in Seq(Nat) /\ Len(<<>>) = 0
  BY EmptySeq

LEMMA LenNats ==
  ASSUME NEW s \in Seq(Nat)
  PROVE  Len(s) \in Nat /\ DOMAIN s = 1 .. Len(s) /\ (s # <<>> => Len(s) # 0)
  BY LenProperties, EmptySeq

LEMMA AppendNats ==
  ASSUME NEW s \in Seq(Nat), NEW n \in Nat
  PROVE  /\ Append(s, n) \in Seq(Nat)
         /\ Len(Append(s, n)) = Len(s) + 1
         /\ \A i \in 1 .. Len(s) : Append(s, n)[i] = s[i]
         /\ Append(s, n)[Len(s) + 1] = n
  BY AppendProperties

LEMMA TailNats ==
  ASSUME NEW s \in Seq(Nat), s # <<>>
  PROVE  /\ Tail(s) \in Seq(Nat)
         /\ Head(s) \in Nat
         /\ Head(s) = s[1]
         /\ Len(Tail(s)) = Len(s) - 1
         /\ \A i \in 1 .. Len(s) - 1 : Tail(s)[i] = s[i + 1]
  BY HeadTailProperties, EmptySeq

LEMMA ConcatNats ==
  ASSUME NEW s \in Seq(Nat), NEW t \in Seq(Nat)
  PROVE  /\ s \o t \in Seq(Nat)
         /\ Len(s \o t) = Len(s) + Len(t)
         /\ \A i \in 1 .. Len(s) : (s \o t)[i] = s[i]
         /\ \A i \in 1 .. Len(t) : (s \o t)[Len(s) + i] = t[i]
  BY ConcatProperties, LenProperties

-----------------------------------------------------------------------------
(* Type correctness.  A thread on its way out knows what it returns.       *)

ResultOK ==
  /\ rdpPc \notin Running => result # "none"
  /\ done # "pending" <=> rdpPc = "ended"
  /\ done # "pending" => done = result

TypeInv == RdpOK /\ ChannelsOK /\ WsOK /\ WebOK /\ ResultOK

LEMMA TypeInit == Init => TypeInv
<1>1. <<>> \in Seq(Nat) /\ <<>> \in Seq(Messages)
  BY EmptySeq
<1>2. Init => RdpOK /\ ResultOK
  BY <1>1, BoundsAssumption DEF Init, RdpOK, ResultOK, Running
<1>3. Init => ChannelsOK
  BY <1>1 DEF Init, ChannelsOK
<1>4. Init => WsOK
  BY <1>1 DEF Init, WsOK
<1>5. Init => WebOK
  BY <1>1, BoundsAssumption DEF Init, WebOK
<1> QED
  BY <1>2, <1>3, <1>4, <1>5 DEF TypeInv

LEMMA SendEventType ==
  ASSUME ChannelsOK, SendEvent, UNCHANGED <<inputChannel, done>>
  PROVE  ChannelsOK'
<1>1. eventQ' \in Seq(Nat) /\ produced' \in Nat
  <2>1. produced + 1 \in Nat /\ eventQ \in Seq(Nat) /\ produced \in Nat
    BY DEF ChannelsOK
  <2>2. Append(eventQ, produced + 1) \in Seq(Nat)
    BY <2>1, AppendNats
  <2> QED
    BY <2>1, <2>2 DEF SendEvent
<1> QED
  BY <1>1 DEF ChannelsOK, SendEvent, inputChannel

LEMMA RdpTypeStep == TypeInv /\ RdpNext => TypeInv'
<1> SUFFICES ASSUME TypeInv, RdpNext
             PROVE  TypeInv'
  OBVIOUS
<1> USE DEF TypeInv, ResultOK, Return, Running
<1>1. CASE Connecting \/ Connected \/ ProcessSends
  <2>1. ChannelsOK'
    BY <1>1, SendEventType DEF Connecting, Connected, ProcessSends
  <2>2. RdpOK' /\ WsOK' /\ WebOK' /\ ResultOK'
    BY <1>1 DEF Connecting, Connected, ProcessSends, RdpOK, WsOK, WebOK, rdp, ws, web
  <2> QED
    BY <2>1, <2>2
<1>2. CASE DeactivateAll
  <2>1. ChannelsOK'
    BY <1>2, SendEventType DEF DeactivateAll
  <2>2. RdpOK' /\ WsOK' /\ WebOK' /\ ResultOK'
    BY <1>2, BoundsAssumption DEF DeactivateAll, RdpOK, WsOK, WebOK, ws, web
  <2> QED
    BY <2>1, <2>2
<1>3. CASE TcpConnected \/ ConnectFails \/ ReadFrame \/ ReadFrameFails
           \/ ProcessReturns \/ ProcessFails \/ InputClosed \/ OutputsDone \/ Panic
  BY <1>3 DEF TcpConnected, ConnectFails, ReadFrame, ReadFrameFails, ProcessReturns,
              ProcessFails, InputClosed, OutputsDone, Panic,
              RdpOK, ChannelsOK, WsOK, WebOK, inputChannel, eventChannel, ws, web
<1>4. CASE RecvInput
  <2>1. inputQ' \in Seq(Nat) /\ applied' \in Seq(Nat)
    BY <1>4, TailNats, AppendNats DEF RecvInput, ChannelsOK, RdpOK
  <2> QED
    BY <1>4, <2>1 DEF RecvInput, RdpOK, ChannelsOK, WsOK, WebOK, eventChannel, ws, web
<1>5. CASE HandleOutput \/ Terminate \/ WriteFails
  BY <1>5, BoundsAssumption
  DEF HandleOutput, Terminate, WriteFails, LastOutput,
      RdpOK, ChannelsOK, WsOK, WebOK, inputChannel, eventChannel, ws, web
<1>6. CASE DropEventTx \/ DropInputRx
  <2>1. WsOK' /\ WebOK' /\ RdpOK' /\ ResultOK'
    BY <1>6 DEF DropEventTx, DropInputRx, RdpOK, WsOK, WebOK, ws, web
  <2>2. ChannelsOK'
    BY <1>6, EmptyNats DEF DropEventTx, DropInputRx, ChannelsOK, inputChannel, eventChannel
  <2> QED
    BY <2>1, <2>2
<1>7. CASE SendDone
  BY <1>7 DEF SendDone, RdpOK, ChannelsOK, WsOK, WebOK, inputChannel, eventChannel, ws, web
<1> QED
  BY <1>1, <1>2, <1>3, <1>4, <1>5, <1>6, <1>7 DEF RdpNext

LEMMA WsTypeStep == TypeInv /\ WsNext => TypeInv'
<1> SUFFICES ASSUME TypeInv, WsNext
             PROVE  TypeInv'
  OBVIOUS
<1>1. RdpOK' /\ ResultOK' /\ done' = done
  <2>1. UNCHANGED <<rdp, done>>
    BY DEF WsNext, RecvBrowser, RecvEvent, EventChannelClosed, RecvDone, Sent, SendFails,
           ErrorSent, ErrorSendFails, DropInputTx, DropEventRx
  <2> QED
    BY <2>1 DEF rdp, TypeInv, RdpOK, ResultOK
<1> USE <1>1 DEF TypeInv, LeaveLoop
<1>2. CASE RecvBrowser
  <2>1. toGateway' \in Seq(Messages) /\ Head(toGateway) \in Messages
    BY <1>2, HeadTailProperties DEF RecvBrowser, WebOK
  <2>2. Head(toGateway).n \in Nat
    BY <2>1 DEF Messages
  <2>3. inputQ' \in Seq(Nat)
    BY <1>2, <2>2, AppendNats DEF RecvBrowser, ChannelsOK
  <2>4. WsOK'
    BY <1>2, EmptyNats DEF RecvBrowser, Stay, WsOK
  <2>5. ChannelsOK'
    BY <1>2, <2>3 DEF RecvBrowser, ChannelsOK, eventChannel
  <2> QED
    BY <1>2, <2>1, <2>4, <2>5 DEF RecvBrowser, WebOK
<1>3. CASE RecvEvent
  <2>1. eventQ' \in Seq(Nat) /\ sending' \in Seq(Nat)
    BY <1>3, TailNats DEF RecvEvent, ChannelsOK
  <2> QED
    BY <1>3, <2>1 DEF RecvEvent, ChannelsOK, WsOK, WebOK, inputChannel, web
<1>4. CASE Sent
  <2>1. handed' \in Seq(Nat) /\ sending' \in Seq(Nat)
    BY <1>4, ConcatNats, EmptyNats DEF Sent, WsOK
  <2> QED
    BY <1>4, <2>1 DEF Sent, ChannelsOK, WsOK, WebOK, inputChannel, eventChannel, web
<1>5. CASE EventChannelClosed \/ SendFails \/ RecvDone
  BY <1>5, EmptyNats DEF EventChannelClosed, SendFails, RecvDone,
     ChannelsOK, WsOK, WebOK, inputChannel, eventChannel, web
<1>6. CASE ErrorSent \/ ErrorSendFails
  BY <1>6, EmptyNats DEF ErrorSent, ErrorSendFails,
     ChannelsOK, WsOK, WebOK, inputChannel, eventChannel, web
<1>7. CASE DropInputTx \/ DropEventRx
  BY <1>7, EmptyNats DEF DropInputTx, DropEventRx,
     ChannelsOK, WsOK, WebOK, inputChannel, eventChannel, web
<1> QED
  BY <1>2, <1>3, <1>4, <1>5, <1>6, <1>7 DEF WsNext

LEMMA WebTypeStep == TypeInv /\ WebNext => TypeInv'
<1> SUFFICES ASSUME TypeInv, WebNext
             PROVE  TypeInv'
  OBVIOUS
<1> USE DEF TypeInv
<1>1. /\ UNCHANGED <<rdp, inputChannel, eventChannel, done, ws>>
      /\ RdpOK' /\ ChannelsOK' /\ WsOK' /\ ResultOK'
  <2>1. UNCHANGED <<rdp, inputChannel, eventChannel, done, ws>>
    BY DEF WebNext, Type, SendJunk, Read, Leave
  <2> QED
    BY <2>1 DEF rdp, inputChannel, eventChannel, ws, RdpOK, ChannelsOK, WsOK, ResultOK
<1>2. CASE Type
  <2>1. Input(typed + 1) \in Messages
    BY BoundsAssumption DEF Input, Messages, WebOK
  <2>2. toGateway' \in Seq(Messages)
    BY <1>2, <2>1, AppendProperties DEF Type, WebOK
  <2> QED
    BY <1>1, <1>2, <2>2, BoundsAssumption DEF Type, WebOK
<1>3. CASE SendJunk
  <2>1. Junk \in Messages
    BY DEF Junk, Messages
  <2>2. toGateway' \in Seq(Messages)
    BY <1>3, <2>1, AppendProperties DEF SendJunk, WebOK
  <2> QED
    BY <1>1, <1>3, <2>2, BoundsAssumption DEF SendJunk, WebOK
<1>4. CASE Read
  BY <1>1, <1>4 DEF Read, WebOK
<1>5. CASE Leave
  <2>1. CloseMessage \in Messages
    BY DEF CloseMessage, Messages
  <2>2. PICK n \in 0 .. Len(toGateway) :
          toGateway' = Append(SubSeq(toGateway, 1, n), CloseMessage)
    BY <1>5 DEF Leave
  <2>3. SubSeq(toGateway, 1, n) \in Seq(Messages)
    BY <2>2, SubSeqProperties, LenProperties DEF WebOK
  <2>4. toGateway' \in Seq(Messages)
    BY <2>1, <2>2, <2>3, AppendProperties
  <2> QED
    BY <1>1, <1>5, <2>4 DEF Leave, WebOK
<1> QED
  BY <1>2, <1>3, <1>4, <1>5 DEF WebNext

LEMMA TypeInvariant == Spec => []TypeInv
<1>1. TypeInv /\ UNCHANGED vars => TypeInv'
  BY DEF vars, TypeInv, RdpOK, ChannelsOK, WsOK, WebOK, ResultOK
<1>2. TypeInv /\ [Next]_vars => TypeInv'
  BY <1>1, RdpTypeStep, WsTypeStep, WebTypeStep DEF Next
<1> QED
  BY <1>2, TypeInit, PTL DEF Spec

\* What is sent is awaited, so that the wire never holds more than it can.
LEMMA WireStep == TypeInv /\ WireOK /\ [Next]_vars => WireOK'
<1> SUFFICES ASSUME TypeInv, WireOK, [Next]_vars
             PROVE  WireOK'
  OBVIOUS
<1>1. /\ handed \in Seq(Nat) /\ sending \in Seq(Nat) /\ eventQ \in Seq(Nat)
      /\ received \in Nat /\ reported \in BOOLEAN
  BY DEF TypeInv, WsOK, ChannelsOK, WebOK
<1>2. Len(handed) \in Nat /\ Len(sending) \in Nat /\ Len(<<>>) = 0
  BY <1>1, LenNats, EmptyNats
<1>3. CASE UNCHANGED <<handed, sending, reported, received>>
  BY <1>3 DEF WireOK, InFlight
<1>4. ASSUME NEW reason, LeaveLoop(reason), UNCHANGED <<handed, reported, received>>
      PROVE  WireOK'
  BY <1>2, <1>4 DEF LeaveLoop, WireOK, InFlight
<1>5. CASE RecvEvent
  BY <1>5 DEF RecvEvent, web, WireOK, InFlight
<1>6. CASE Sent
  <2>1. handed' = handed \o sending /\ sending' = <<>> /\ UNCHANGED <<reported, received>>
        /\ InFlight < WireCapacity
    BY <1>6 DEF Sent, web
  <2>2. Len(handed') = Len(handed) + Len(sending)
    BY <1>1, <2>1, ConcatNats
  <2> QED
    BY <1>1, <1>2, <2>1, <2>2, BoundsAssumption DEF WireOK, InFlight
<1>7. CASE ErrorSent
  BY <1>1, <1>2, <1>7, BoundsAssumption DEF ErrorSent, LeaveLoop, web, WireOK, InFlight
<1>8. CASE Read
  BY <1>1, <1>2, <1>8, BoundsAssumption DEF Read, ws, WireOK, InFlight
<1>9. CASE RdpNext
  <2>1. UNCHANGED <<handed, sending, reported, received>>
    BY <1>9 DEF RdpNext, Connecting, TcpConnected, Connected, ConnectFails, ReadFrame,
       ReadFrameFails, ProcessSends, ProcessReturns, ProcessFails, RecvInput, InputClosed,
       HandleOutput, DeactivateAll, Terminate, WriteFails, LastOutput, OutputsDone, Panic,
       DropEventTx, DropInputRx, SendDone, ws, web
  <2> QED
    BY <1>3, <2>1
<1>10. CASE RecvBrowser
  BY <1>3, <1>4, <1>10 DEF RecvBrowser, Stay
<1>11. CASE RecvDone
  BY <1>3, <1>4, <1>11 DEF RecvDone, web
<1>12. CASE SendFails \/ ErrorSendFails
  BY <1>4, <1>12 DEF SendFails, ErrorSendFails, web
<1>13. CASE EventChannelClosed \/ DropInputTx \/ DropEventRx
  BY <1>3, <1>13 DEF EventChannelClosed, DropInputTx, DropEventRx, web
<1>14. CASE Type \/ SendJunk \/ Leave
  BY <1>3, <1>14 DEF Type, SendJunk, Leave, ws
<1>15. CASE UNCHANGED vars
  BY <1>3, <1>15 DEF vars
<1> QED
  BY <1>5, <1>6, <1>7, <1>8, <1>9, <1>10, <1>11, <1>12, <1>13, <1>14, <1>15
  DEF Next, WsNext, WebNext

\* The session is always well typed, and its wire never holds more than it has
\* room for, whatever its capacity.
THEOREM SessionTypeCorrect == Spec => []SessionTypeOK
<1>1. Init => WireOK
  BY EmptyNats, BoundsAssumption DEF Init, WireOK, InFlight
<1>2. TypeInv /\ WireOK => SessionTypeOK
  BY DEF TypeInv, SessionTypeOK
<1> QED
  BY <1>1, <1>2, WireStep, TypeInvariant, PTL DEF Spec

-----------------------------------------------------------------------------
(* Events.  Item i of what the WebSocket accepted is event i, the event      *)
(* being sent is the next one, and the queue goes on from there.             *)

EventInv ==
  /\ \A i \in 1 .. Len(handed) : handed[i] = i
  /\ Len(handed) <= produced
  /\ wsPc # "sending" => sending = <<>>
  /\ wsPc = "sending" => sending = <<Len(handed) + 1>>
  /\ InLoop =>
       /\ eventRxOpen
       /\ Len(handed) + Len(sending) + Len(eventQ) = produced
       /\ \A i \in 1 .. Len(eventQ) : eventQ[i] = Len(handed) + Len(sending) + i

eventVars == <<handed, produced, wsPc, sending, eventRxOpen, eventQ>>

LEMMA EventQuiet ==
  ASSUME EventInv, UNCHANGED eventVars
  PROVE  EventInv'
  BY DEF EventInv, eventVars, InLoop

\* A sent event goes behind the queue, or is lost after the loop.
LEMMA EventSend ==
  ASSUME TypeInv, EventInv, SendEvent, UNCHANGED <<handed, wsPc, sending>>
  PROVE  EventInv'
<1>1. handed \in Seq(Nat) /\ sending \in Seq(Nat) /\ eventQ \in Seq(Nat) /\ produced \in Nat
  BY DEF TypeInv, WsOK, ChannelsOK
<1>2. Len(handed) \in Nat /\ Len(sending) \in Nat /\ Len(eventQ) \in Nat
  BY <1>1, LenNats
<1>3. CASE ~eventRxOpen
  BY <1>3, EventQuiet DEF SendEvent, eventVars
<1>4. CASE eventRxOpen
  <2>1. produced' = produced + 1 /\ eventQ' = Append(eventQ, produced + 1) /\ eventRxOpen'
    BY <1>4 DEF SendEvent
  <2>2. /\ Len(eventQ') = Len(eventQ) + 1
        /\ \A i \in 1 .. Len(eventQ) : eventQ'[i] = eventQ[i]
        /\ eventQ'[Len(eventQ) + 1] = produced + 1
    BY <1>1, <2>1, AppendNats
  <2>3. ASSUME InLoop
        PROVE  /\ Len(handed) + Len(sending) + Len(eventQ') = produced'
               /\ \A i \in 1 .. Len(eventQ') : eventQ'[i] = Len(handed) + Len(sending) + i
    <3>1. /\ Len(handed) + Len(sending) + Len(eventQ) = produced
          /\ \A i \in 1 .. Len(eventQ) : eventQ[i] = Len(handed) + Len(sending) + i
      BY <2>3 DEF EventInv
    <3>2. ASSUME NEW i \in 1 .. Len(eventQ') PROVE eventQ'[i] = Len(handed) + Len(sending) + i
      <4>1. i \in 1 .. Len(eventQ) \/ i = Len(eventQ) + 1
        BY <1>2, <2>2, <3>2
      <4>2. CASE i \in 1 .. Len(eventQ)
        <5>1. eventQ'[i] = eventQ[i]
          BY <2>2, <4>2
        <5> QED
          BY <3>1, <4>2, <5>1
      <4>3. CASE i = Len(eventQ) + 1
        <5>1. eventQ'[i] = produced + 1
          BY <2>2, <4>3
        <5>2. Len(handed) + Len(sending) + Len(eventQ) = produced
          BY <3>1
        <5>3. Len(handed) + Len(sending) + (Len(eventQ) + 1) = produced + 1
          BY <1>2, <5>2
        <5> QED
          BY <4>3, <5>1, <5>3
      <4> QED
        BY <4>1, <4>2, <4>3
    <3> QED
      BY <1>1, <1>2, <2>1, <2>2, <3>1, <3>2
  <2>4. Len(handed) <= produced'
    BY <1>1, <1>2, <2>1 DEF EventInv
  <2> QED
    BY <2>1, <2>3, <2>4 DEF EventInv, InLoop
<1> QED
  BY <1>3, <1>4

\* Leaving the loop forgets the event being sent.
LEMMA EventLeave ==
  ASSUME EventInv, NEW reason, LeaveLoop(reason), UNCHANGED <<handed, produced>>
  PROVE  EventInv'
  BY DEF EventInv, LeaveLoop, InLoop

LEMMA RdpEventStep ==
  ASSUME TypeInv, EventInv, RdpNext
  PROVE  EventInv'
<1> USE DEF ws
<1>1. CASE Connecting \/ Connected \/ ProcessSends \/ DeactivateAll
  BY <1>1, EventSend DEF Connecting, Connected, ProcessSends, DeactivateAll
<1>2. CASE ~(Connecting \/ Connected \/ ProcessSends \/ DeactivateAll)
  <2>1. UNCHANGED eventVars
    BY <1>2 DEF RdpNext, TcpConnected, ConnectFails, ReadFrame, ReadFrameFails, ProcessReturns,
       ProcessFails, RecvInput, InputClosed, HandleOutput, Terminate, WriteFails, LastOutput,
       OutputsDone, Panic, DropEventTx, DropInputRx, SendDone, eventVars, eventChannel
  <2> QED
    BY <2>1, EventQuiet
<1> QED
  BY <1>1, <1>2

LEMMA RecvEventStep ==
  ASSUME TypeInv, EventInv, RecvEvent
  PROVE  EventInv'
<1>1. handed \in Seq(Nat) /\ eventQ \in Seq(Nat) /\ produced \in Nat
  BY DEF TypeInv, WsOK, ChannelsOK
<1>2. /\ wsPc = "select" /\ wsPc' = "sending"
      /\ eventQ # <<>> /\ eventQ' = Tail(eventQ)
      /\ sending' = <<Head(eventQ)>>
      /\ UNCHANGED <<handed, produced, eventRxOpen>>
  BY DEF RecvEvent
<1>3. Len(handed) \in Nat /\ Len(eventQ) \in Nat /\ Len(eventQ) # 0
  BY <1>1, <1>2, LenNats
<1>4. /\ Head(eventQ) = eventQ[1]
      /\ Len(eventQ') = Len(eventQ) - 1
      /\ \A i \in 1 .. Len(eventQ) - 1 : eventQ'[i] = eventQ[i + 1]
  BY <1>1, <1>2, TailNats
<1>5. InLoop /\ Len(sending) = 0
  BY <1>2, EmptyNats DEF EventInv, InLoop
<1>6. eventQ[1] = Len(handed) + 1
  BY <1>3, <1>5 DEF EventInv
<1>7. sending' = <<Len(handed) + 1>> /\ Len(sending') = 1
  BY <1>2, <1>4, <1>6
<1>8. \A i \in 1 .. Len(eventQ') : eventQ'[i] = Len(handed) + 1 + i
  BY <1>3, <1>4, <1>5 DEF EventInv
<1>9. Len(handed) + Len(sending') + Len(eventQ') = produced
  <2>1. Len(handed) + Len(sending) + Len(eventQ) = produced
    BY <1>5 DEF EventInv
  <2>2. Len(sending') = 1 /\ Len(eventQ') = Len(eventQ) - 1 /\ Len(sending) = 0
    BY <1>4, <1>5, <1>7
  <2> QED
    BY <1>1, <1>3, <2>1, <2>2
<1>10. /\ eventRxOpen
       /\ \A i \in 1 .. Len(handed) : handed[i] = i
       /\ Len(handed) <= produced
  BY <1>5 DEF EventInv
<1>11. \A i \in 1 .. Len(eventQ') : eventQ'[i] = Len(handed) + Len(sending') + i
  BY <1>7, <1>8
<1>12. /\ handed' = handed /\ produced' = produced /\ eventRxOpen' = eventRxOpen
       /\ wsPc' = "sending"
  BY <1>2
<1> HIDE DEF InLoop
<1> QED
  BY <1>7, <1>9, <1>10, <1>11, <1>12 DEF EventInv

LEMMA SentStep ==
  ASSUME TypeInv, EventInv, Sent
  PROVE  /\ EventInv'
         /\ handed' = Append(handed, Len(handed) + 1)
         /\ Len(handed) < produced
<1>1. handed \in Seq(Nat) /\ eventQ \in Seq(Nat) /\ produced \in Nat
  BY DEF TypeInv, WsOK, ChannelsOK
<1>2. /\ wsPc = "sending" /\ wsPc' = "select"
      /\ handed' = handed \o sending
      /\ sending' = <<>>
      /\ UNCHANGED <<eventQ, produced, eventRxOpen>>
  BY DEF Sent, eventChannel
<1>3. Len(handed) \in Nat /\ Len(eventQ) \in Nat
  BY <1>1, LenNats
<1>4. InLoop /\ sending = <<Len(handed) + 1>> /\ Len(sending) = 1
  BY <1>2 DEF EventInv, InLoop
<1>5. handed' = Append(handed, Len(handed) + 1)
  BY <1>1, <1>2, <1>3, <1>4, AppendIsConcat
<1>6. /\ Len(handed') = Len(handed) + 1
      /\ \A i \in 1 .. Len(handed) : handed'[i] = handed[i]
      /\ handed'[Len(handed) + 1] = Len(handed) + 1
  BY <1>1, <1>3, <1>5, AppendNats
<1>7. Len(sending') = 0
  BY <1>2
<1>8. \A i \in 1 .. Len(handed') : handed'[i] = i
  BY <1>3, <1>6 DEF EventInv
<1>9. /\ Len(handed) < produced
      /\ Len(handed') + Len(sending') + Len(eventQ') = produced'
  BY <1>1, <1>2, <1>3, <1>4, <1>6, <1>7 DEF EventInv
<1>10. \A i \in 1 .. Len(eventQ') : eventQ'[i] = Len(handed') + Len(sending') + i
  BY <1>2, <1>3, <1>4, <1>6, <1>7 DEF EventInv
<1> QED
  BY <1>1, <1>2, <1>3, <1>4, <1>5, <1>6, <1>8, <1>9, <1>10 DEF EventInv, InLoop

LEMMA WsEventStep ==
  ASSUME TypeInv, EventInv, WsNext
  PROVE  EventInv'
<1>1. CASE RecvBrowser
  <2>1. UNCHANGED <<handed, produced, eventRxOpen, eventQ>>
    BY <1>1 DEF RecvBrowser, eventChannel
  <2>2. Stay \/ \E reason : LeaveLoop(reason)
    BY <1>1 DEF RecvBrowser
  <2> QED
    BY <2>1, <2>2, EventQuiet, EventLeave DEF Stay, eventVars
<1>2. CASE EventChannelClosed
  BY <1>2, EventQuiet DEF EventChannelClosed, eventChannel, eventVars
<1>3. CASE RecvDone
  <2>1. CASE done = "err"
    BY <1>3, <2>1 DEF RecvDone, eventChannel, EventInv, InLoop
  <2>2. CASE done # "err"
    BY <1>3, <2>2, EventLeave DEF RecvDone, eventChannel
  <2> QED
    BY <2>1, <2>2
<1>4. CASE SendFails \/ ErrorSent \/ ErrorSendFails
  BY <1>4, EventLeave DEF SendFails, ErrorSent, ErrorSendFails, eventChannel
<1>5. CASE DropInputTx \/ DropEventRx
  BY <1>5 DEF DropInputTx, DropEventRx, eventChannel, EventInv, InLoop
<1> QED
  BY <1>1, <1>2, <1>3, <1>4, <1>5, RecvEventStep, SentStep DEF WsNext

LEMMA EventStep == TypeInv /\ EventInv /\ [Next]_vars => EventInv'
<1>1. ASSUME EventInv, WebNext \/ UNCHANGED vars
      PROVE  EventInv'
  <2>1. UNCHANGED eventVars
    BY <1>1 DEF WebNext, Type, SendJunk, Read, Leave, ws, eventChannel, vars, eventVars
  <2> QED
    BY <1>1, <2>1, EventQuiet
<1> QED
  BY <1>1, RdpEventStep, WsEventStep DEF Next

LEMMA EventInit == Init => EventInv
<1> SUFFICES ASSUME Init PROVE EventInv
  OBVIOUS
<1>1. handed = <<>> /\ sending = <<>> /\ eventQ = <<>> /\ produced = 0 /\ eventRxOpen /\ wsPc = "select"
  BY DEF Init
<1>2. Len(handed) = 0 /\ Len(sending) = 0 /\ Len(eventQ) = 0
  BY <1>1
<1> QED
  BY <1>1, <1>2 DEF EventInv

LEMMA EventInvariant == Spec => []EventInv
  BY EventInit, EventStep, TypeInvariant, PTL DEF Spec

\* What the WebSocket accepted is a gapless prefix of the events.
THEOREM EventsAreAPrefix == Spec => []EventsFormPrefix
<1>1. TypeInv /\ EventInv => EventsFormPrefix
  <2> SUFFICES ASSUME TypeInv, EventInv PROVE EventsFormPrefix
    OBVIOUS
  <2>1. handed \in [1 .. Len(handed) -> Nat]
    BY LenProperties DEF TypeInv, WsOK
  <2> QED
    BY <2>1 DEF EventInv, EventsFormPrefix, Count
<1> QED
  BY <1>1, EventInvariant, TypeInvariant, PTL

\* In the loop, nothing is lost between the RDP thread and the WebSocket.
THEOREM EventsAreConserved == Spec => []EventsConserved
<1>1. TypeInv /\ EventInv => EventsConserved
  <2> SUFFICES ASSUME TypeInv, EventInv, InLoop
               PROVE  handed \o sending \o eventQ = Count(produced)
    BY DEF EventsConserved
  <2>1. handed \in Seq(Nat) /\ sending \in Seq(Nat) /\ eventQ \in Seq(Nat) /\ produced \in Nat
    BY DEF TypeInv, WsOK, ChannelsOK
  <2>2. Len(handed) \in Nat /\ Len(sending) \in Nat /\ Len(eventQ) \in Nat
    BY <2>1, LenNats
  <2>3. \A i \in 1 .. Len(sending) : sending[i] = Len(handed) + i
    <3>1. CASE wsPc = "sending"
      <4>1. sending = <<Len(handed) + 1>>
        BY <3>1 DEF EventInv
      <4>2. Len(sending) = 1 /\ sending[1] = Len(handed) + 1
        BY <4>1
      <4> QED
        BY <4>2
    <3>2. CASE wsPc # "sending"
      BY <3>2 DEF EventInv
    <3> QED
      BY <3>1, <3>2
  <2> DEFINE s == handed \o sending
             all == s \o eventQ
  <2>4. /\ s \in Seq(Nat)
        /\ Len(s) = Len(handed) + Len(sending)
        /\ \A i \in 1 .. Len(handed) : s[i] = handed[i]
        /\ \A i \in 1 .. Len(sending) : s[Len(handed) + i] = sending[i]
    BY <2>1, ConcatNats
  <2> HIDE DEF s
  <2>5. \A i \in 1 .. Len(s) : s[i] = i
    <3>1. ASSUME NEW i \in 1 .. Len(s) PROVE s[i] = i
      <4>1. CASE i <= Len(handed)
        BY <2>2, <2>4, <3>1, <4>1 DEF EventInv
      <4>2. CASE i > Len(handed)
        <5>1. i - Len(handed) \in 1 .. Len(sending) /\ i = Len(handed) + (i - Len(handed))
          BY <2>2, <2>4, <3>1, <4>2
        <5> QED
          BY <2>2, <2>3, <2>4, <5>1
      <4> QED
        BY <2>2, <2>4, <3>1, <4>1, <4>2
    <3> QED
      BY <3>1
  <2>6. /\ all \in Seq(Nat)
        /\ Len(all) = Len(s) + Len(eventQ)
        /\ \A i \in 1 .. Len(s) : all[i] = s[i]
        /\ \A i \in 1 .. Len(eventQ) : all[Len(s) + i] = eventQ[i]
    BY <2>1, <2>4, ConcatNats
  <2>7. Len(all) = produced
    BY <2>4, <2>6 DEF EventInv
  <2> HIDE DEF all
  <2>8. ASSUME NEW i \in 1 .. Len(all) PROVE all[i] = i
    <3>1. CASE i <= Len(s)
      BY <2>2, <2>4, <2>5, <2>6, <2>8, <3>1
    <3>2. CASE i > Len(s)
      <4>1. i - Len(s) \in 1 .. Len(eventQ) /\ i = Len(s) + (i - Len(s))
        BY <2>2, <2>4, <2>6, <2>8, <3>2
      <4> QED
        BY <2>2, <2>4, <2>6, <4>1 DEF EventInv
    <3> QED
      BY <2>2, <2>4, <2>6, <2>8, <3>1, <3>2
  <2>9. all \in [1 .. Len(all) -> Nat]
    BY <2>6, LenProperties
  <2>10. all = Count(produced)
    BY <2>7, <2>8, <2>9 DEF Count
  <2> QED
    BY <2>10 DEF all, s
<1> QED
  BY <1>1, EventInvariant, TypeInvariant, PTL

-----------------------------------------------------------------------------
(* The relay of events.                                                      *)

Broken == ~InLoop \/ done # "pending"

\* A step that neither sends nor accepts an event is a stutter or a Break.
LEMMA RelayQuiet ==
  ASSUME UNCHANGED <<handed, produced>>, Broken => Broken'
  PROVE  [Events!PipeNext]_(Events!pipe)
  BY DEF Broken, InLoop, Events!PipeNext, Events!Break, Events!pipe

\* Sending is a Put, or a stutter after the loop.
LEMMA RelaySend ==
  ASSUME SendEvent, UNCHANGED <<handed, wsPc, done>>
  PROVE  [Events!PipeNext]_(Events!pipe)
<1>1. (~InLoop \/ done # "pending")' = (~InLoop \/ done # "pending")
  BY DEF InLoop
<1>2. CASE eventRxOpen
  BY <1>1, <1>2 DEF SendEvent, Events!PipeNext, Events!Put, Events!pipe
<1>3. CASE ~eventRxOpen
  BY <1>1, <1>3 DEF SendEvent, Events!pipe
<1> QED
  BY <1>2, <1>3

LEMMA RdpRelayStep ==
  ASSUME TypeInv, RdpNext
  PROVE  [Events!PipeNext]_(Events!pipe)
<1> USE DEF ws
<1>1. CASE Connecting \/ Connected \/ ProcessSends \/ DeactivateAll
  BY <1>1, RelaySend DEF Connecting, Connected, ProcessSends, DeactivateAll
<1>2. CASE SendDone
  <2>1. done' # "pending" /\ UNCHANGED <<handed, produced>>
    BY <1>2 DEF SendDone, TypeInv, RdpOK, eventChannel
  <2> QED
    BY <2>1, RelayQuiet DEF Broken
<1>3. CASE ~(Connecting \/ Connected \/ ProcessSends \/ DeactivateAll \/ SendDone)
  <2>1. UNCHANGED <<handed, produced, wsPc, done>>
    BY <1>3 DEF RdpNext, TcpConnected, ConnectFails, ReadFrame, ReadFrameFails, ProcessReturns,
       ProcessFails, RecvInput, InputClosed, HandleOutput, Terminate, WriteFails, LastOutput,
       OutputsDone, Panic, DropEventTx, DropInputRx, eventChannel
  <2> QED
    BY <2>1, RelayQuiet DEF Broken, InLoop
<1> QED
  BY <1>1, <1>2, <1>3

LEMMA WsRelayStep ==
  ASSUME TypeInv, EventInv, WsNext
  PROVE  [Events!PipeNext]_(Events!pipe)
<1>1. CASE Sent
  <2>1. (~InLoop \/ done # "pending")' = (~InLoop \/ done # "pending")
    BY <1>1 DEF Sent, InLoop
  <2>2. produced' = produced
    BY <1>1 DEF Sent, eventChannel
  <2> QED
    BY <1>1, <2>1, <2>2, SentStep DEF Events!PipeNext, Events!Get, Events!pipe
<1>2. CASE ~Sent
  <2>1. UNCHANGED <<handed, produced, done>>
    BY <1>2 DEF WsNext, RecvBrowser, RecvEvent, EventChannelClosed, RecvDone, SendFails,
       ErrorSent, ErrorSendFails, DropInputTx, DropEventRx, eventChannel
  <2>2. ~InLoop => ~InLoop'
    BY <1>2 DEF WsNext, RecvBrowser, RecvEvent, EventChannelClosed, RecvDone, SendFails,
       ErrorSent, ErrorSendFails, DropInputTx, DropEventRx, InLoop
  <2> QED
    BY <2>1, <2>2, RelayQuiet DEF Broken
<1> QED
  BY <1>1, <1>2

\* The safety of the relay of events: the session puts the events of the RDP
\* thread through one by one, each once, in order, until its loop ends.
THEOREM EventsAreRelayed == Spec => Events!PipeSafety
<1>1. Init => Events!PipeInit
  BY DEF Init, InLoop, Events!PipeInit
<1>2. TypeInv /\ EventInv /\ [Next]_vars => [Events!PipeNext]_(Events!pipe)
  <2>1. ASSUME WebNext \/ UNCHANGED vars
        PROVE  [Events!PipeNext]_(Events!pipe)
    <3>1. UNCHANGED <<handed, produced, wsPc, done>>
      BY <2>1 DEF WebNext, Type, SendJunk, Read, Leave, ws, eventChannel, vars
    <3> QED
      BY <3>1, RelayQuiet DEF Broken, InLoop
  <2> QED
    BY <2>1, RdpRelayStep, WsRelayStep DEF Next
<1> QED
  BY <1>1, <1>2, TypeInvariant, EventInvariant, PTL DEF Spec, Events!PipeSafety

-----------------------------------------------------------------------------
(* How the session ends. *)

\* The reasons for which the loop may be over
Excused ==
  \/ browser = "gone"
  \/ why = "inputRefused"
  \/ why = "rdpDone" /\ done # "pending" /\ (done = "err" => reported)

\* No close without a browser that left; the Error message carries an error of
\* run(), and the loop's end has one of the reasons.
EndInv ==
  /\ \A i \in 1 .. Len(toGateway) : toGateway[i].type = "close" => browser = "gone"
  /\ wsPc = "sendingError" => done = "err"
  /\ reported => done = "err"
  /\ ~InLoop => Excused

LEMMA EndQuiet ==
  ASSUME TypeInv, EndInv, UNCHANGED <<toGateway, browser, wsPc, reported, why>>,
         done # "pending" => done' = done
  PROVE  EndInv'
  BY DEF EndInv, Excused, InLoop

LEMMA RdpEndStep ==
  ASSUME TypeInv, EndInv, RdpNext
  PROVE  EndInv'
<1>1. UNCHANGED <<ws, web>>
  BY DEF RdpNext, Connecting, TcpConnected, Connected, ConnectFails, ReadFrame, ReadFrameFails,
     ProcessSends, ProcessReturns, ProcessFails, RecvInput, InputClosed, HandleOutput,
     DeactivateAll, Terminate, WriteFails, LastOutput, OutputsDone, Panic, DropEventTx,
     DropInputRx, SendDone
<1>2. done # "pending" => done' = done
  <2>1. CASE SendDone
    BY <2>1 DEF SendDone, TypeInv, ResultOK
  <2>2. CASE ~SendDone
    BY <2>2 DEF RdpNext, Connecting, TcpConnected, Connected, ConnectFails, ReadFrame,
       ReadFrameFails, ProcessSends, ProcessReturns, ProcessFails, RecvInput, InputClosed,
       HandleOutput, DeactivateAll, Terminate, WriteFails, LastOutput, OutputsDone, Panic,
       DropEventTx, DropInputRx
  <2> QED
    BY <2>1, <2>2
<1> QED
  BY <1>1, <1>2, EndQuiet DEF ws, web

LEMMA WsEndStep ==
  ASSUME TypeInv, EndInv, WsNext
  PROVE  EndInv'
<1>1. CASE RecvBrowser
  <2>1. /\ toGateway \in Seq(Messages)
        /\ wsPc = "select"
        /\ toGateway # <<>>
        /\ toGateway' = Tail(toGateway)
        /\ UNCHANGED <<browser, done, reported>>
    BY <1>1 DEF RecvBrowser, TypeInv, WebOK
  <2>2. /\ Head(toGateway) = toGateway[1]
        /\ Len(toGateway) \in Nat /\ Len(toGateway) # 0
        /\ Len(toGateway') = Len(toGateway) - 1
        /\ \A i \in 1 .. Len(toGateway) - 1 : toGateway'[i] = toGateway[i + 1]
    BY <2>1, HeadTailProperties, LenProperties, EmptySeq
  <2>3. \A i \in 1 .. Len(toGateway') : toGateway'[i].type = "close" => browser' = "gone"
    BY <2>1, <2>2 DEF EndInv
  <2>4. Head(toGateway).type = "close" => browser = "gone"
    BY <2>2 DEF EndInv
  <2>5. \/ wsPc' = "select"
        \/ wsPc' = "dropInput" /\ why' = "inputRefused"
        \/ wsPc' = "dropInput" /\ browser' = "gone"
    BY <1>1, <2>1, <2>4 DEF RecvBrowser, Stay, LeaveLoop
  <2>6. ~InLoop' => Excused'
    BY <2>5 DEF InLoop, Excused
  <2> QED
    BY <2>1, <2>3, <2>5, <2>6 DEF EndInv
<1>2. CASE RecvEvent \/ EventChannelClosed \/ Sent
  <2>1. UNCHANGED <<toGateway, browser, done, reported, why>> /\ InLoop' /\ wsPc' # "sendingError"
    BY <1>2 DEF RecvEvent, EventChannelClosed, Sent, InLoop, web
  <2> QED
    BY <2>1 DEF EndInv
<1>3. CASE RecvDone \/ SendFails \/ ErrorSent \/ ErrorSendFails
  <2>1. UNCHANGED <<toGateway, browser, done>>
    BY <1>3 DEF RecvDone, SendFails, ErrorSent, ErrorSendFails, web
  <2>2. wsPc' = "sendingError" => done' = "err"
    BY <1>3 DEF RecvDone, SendFails, ErrorSent, ErrorSendFails, LeaveLoop
  <2>3. reported' => done' = "err"
    BY <1>3 DEF RecvDone, SendFails, ErrorSent, ErrorSendFails, EndInv
  <2>4. ~InLoop' => Excused'
    BY <1>3 DEF RecvDone, SendFails, ErrorSent, ErrorSendFails, LeaveLoop, InLoop, Excused,
                EndInv, web
  <2> QED
    BY <2>1, <2>2, <2>3, <2>4 DEF EndInv
<1>4. CASE DropInputTx \/ DropEventRx
  BY <1>4 DEF DropInputTx, DropEventRx, web, EndInv, InLoop, Excused
<1> QED
  BY <1>1, <1>2, <1>3, <1>4 DEF WsNext

LEMMA WebEndStep ==
  ASSUME TypeInv, EndInv, WebNext
  PROVE  EndInv'
<1>1. UNCHANGED <<ws, done>> /\ (browser = "gone" => browser' = "gone")
  BY DEF WebNext, Type, SendJunk, Read, Leave
<1>2. \A i \in 1 .. Len(toGateway') : toGateway'[i].type = "close" => browser' = "gone"
  <2>1. toGateway \in Seq(Messages)
    BY DEF TypeInv, WebOK
  <2>2. CASE Leave
    BY <2>2 DEF Leave
  <2>3. CASE Read
    BY <2>3 DEF Read, EndInv
  <2>4. ASSUME NEW m \in Messages, m.type # "close", UNCHANGED browser,
               toGateway' = Append(toGateway, m)
        PROVE  \A i \in 1 .. Len(toGateway') : toGateway'[i].type = "close" => browser' = "gone"
    <3>1. /\ Len(toGateway) \in Nat
          /\ Len(toGateway') = Len(toGateway) + 1
          /\ \A i \in 1 .. Len(toGateway) : toGateway'[i] = toGateway[i]
          /\ toGateway'[Len(toGateway) + 1] = m
      BY <2>1, <2>4, AppendProperties, LenProperties
    <3>2. ASSUME NEW i \in 1 .. Len(toGateway')
          PROVE  toGateway'[i].type = "close" => browser' = "gone"
      <4>1. i \in 1 .. Len(toGateway) \/ i = Len(toGateway) + 1
        BY <3>1, <3>2
      <4> QED
        BY <2>4, <3>1, <4>1 DEF EndInv
    <3> QED
      BY <3>2
  <2>5. CASE Type
    <3>1. Input(typed + 1) \in Messages /\ Input(typed + 1).type # "close"
      BY BoundsAssumption DEF Input, Messages, TypeInv, WebOK
    <3> QED
      BY <2>4, <2>5, <3>1 DEF Type
  <2>6. CASE SendJunk
    <3>1. Junk \in Messages /\ Junk.type # "close"
      BY DEF Junk, Messages
    <3> QED
      BY <2>4, <2>6, <3>1 DEF SendJunk
  <2> QED
    BY <2>2, <2>3, <2>5, <2>6 DEF WebNext
<1> QED
  BY <1>1, <1>2 DEF EndInv, Excused, InLoop, ws

LEMMA EndInvariant == Spec => []EndInv
<1>1. Init => EndInv
  <2>1. Init => Len(toGateway) = 0
    BY DEF Init
  <2> QED
    BY <2>1 DEF Init, EndInv, InLoop
<1>2. TypeInv /\ EndInv /\ UNCHANGED vars => EndInv'
  BY EndQuiet DEF vars
<1>3. TypeInv /\ EndInv /\ [Next]_vars => EndInv'
  BY <1>2, RdpEndStep, WsEndStep, WebEndStep DEF Next
<1> QED
  BY <1>1, <1>3, TypeInvariant, PTL DEF Spec

\* A failure of the RDP thread is told to a browser that is still there, but
\* for the one race that FailureReported names.
THEOREM FailuresAreReported == Spec => []FailureReported
<1>1. EndInv => FailureReported
  BY DEF EndInv, Excused, FailureReported, InLoop
<1> QED
  BY <1>1, EndInvariant, PTL

\* Only a run() that failed is reported as an error.
THEOREM ErrorsAreReal == Spec => []ErrorIsReal
<1>1. TypeInv /\ EndInv => ErrorIsReal
  BY DEF TypeInv, ResultOK, EndInv, ErrorIsReal
<1> QED
  BY <1>1, TypeInvariant, EndInvariant, PTL

-----------------------------------------------------------------------------
(* The inputs reach the active stage in order, and their way there is a relay. *)

\* The messages on their way to the gateway carry, between others, the inputs
\* after number k up to number t at most, in order and without a gap; all of
\* them as long as none was lost with the browser.

IsInput(m) == m.type = "input"

Orderly(s, k, t) ==
  /\ \A i \in 1 .. Len(s) : IsInput(s[i]) => k < s[i].n /\ s[i].n <= t
  /\ \A i, j \in 1 .. Len(s) : i < j /\ IsInput(s[i]) /\ IsInput(s[j]) => s[i].n < s[j].n
  /\ \A i \in 1 .. Len(s) : IsInput(s[i]) /\ s[i].n # k + 1 =>
       \E j \in 1 .. Len(s) : j < i /\ IsInput(s[j]) /\ s[j].n = s[i].n - 1

Complete(s, k, t) ==
  k < t => \E i \in 1 .. Len(s) : IsInput(s[i]) /\ s[i].n = t

LEMMA MessageFacts ==
  ASSUME NEW s \in Seq(Messages)
  PROVE  Len(s) \in Nat /\ \A i \in 1 .. Len(s) : s[i] \in Messages /\ s[i].n \in Nat
<1>1. Len(s) \in Nat /\ \A i \in 1 .. Len(s) : s[i] \in Messages
  BY LenProperties, ElementOfSeq
<1> QED
  BY <1>1 DEF Messages

LEMMA TailMessages ==
  ASSUME NEW s \in Seq(Messages), s # <<>>
  PROVE  /\ Head(s) = s[1] /\ Len(s) # 0
         /\ Tail(s) \in Seq(Messages)
         /\ Len(Tail(s)) = Len(s) - 1
         /\ \A i \in 1 .. Len(s) - 1 : Tail(s)[i] = s[i + 1]
  BY HeadTailProperties, LenProperties, EmptySeq

\* Taking a message that is no input
LEMMA OrderlySkip ==
  ASSUME NEW s \in Seq(Messages), s # <<>>, NEW k \in Nat, NEW t \in Nat,
         Orderly(s, k, t), ~IsInput(Head(s))
  PROVE  Orderly(Tail(s), k, t) /\ (Complete(s, k, t) => Complete(Tail(s), k, t))
<1> DEFINE u == Tail(s)
<1>1. /\ Len(s) \in Nat /\ Len(s) # 0 /\ ~IsInput(s[1])
      /\ \A i \in 1 .. Len(s) : s[i].n \in Nat
      /\ Len(u) = Len(s) - 1
      /\ \A i \in 1 .. Len(u) : u[i] = s[i + 1] /\ i + 1 \in 1 .. Len(s)
  BY MessageFacts, TailMessages
<1> HIDE DEF u
<1>2. \A i \in 1 .. Len(u) : IsInput(u[i]) => k < u[i].n /\ u[i].n <= t
  BY <1>1 DEF Orderly
<1>3. \A i, j \in 1 .. Len(u) : i < j /\ IsInput(u[i]) /\ IsInput(u[j]) => u[i].n < u[j].n
  <2>1. ASSUME NEW i \in 1 .. Len(u), NEW j \in 1 .. Len(u), i < j, IsInput(u[i]), IsInput(u[j])
        PROVE  u[i].n < u[j].n
    <3>1. i + 1 < j + 1 /\ i + 1 \in 1 .. Len(s) /\ j + 1 \in 1 .. Len(s)
      BY <1>1, <2>1
    <3> QED
      BY <1>1, <2>1, <3>1 DEF Orderly
  <2> QED
    BY <2>1
<1>4. ASSUME NEW i \in 1 .. Len(u), IsInput(u[i]), u[i].n # k + 1
      PROVE  \E j \in 1 .. Len(u) : j < i /\ IsInput(u[j]) /\ u[j].n = u[i].n - 1
  <2>1. PICK j \in 1 .. Len(s) : j < i + 1 /\ IsInput(s[j]) /\ s[j].n = s[i + 1].n - 1
    BY <1>1, <1>4 DEF Orderly
  <2>2. j # 1 /\ j - 1 \in 1 .. Len(u) /\ j = (j - 1) + 1 /\ j - 1 < i
    BY <1>1, <2>1
  <2>3. u[j - 1] = s[j] /\ u[i] = s[i + 1]
    BY <1>1, <2>2
  <2> QED
    BY <2>1, <2>2, <2>3
<1>5. ASSUME Complete(s, k, t), k < t
      PROVE  \E i \in 1 .. Len(u) : IsInput(u[i]) /\ u[i].n = t
  <2>1. PICK i \in 1 .. Len(s) : IsInput(s[i]) /\ s[i].n = t
    BY <1>5 DEF Complete
  <2>2. i # 1 /\ i - 1 \in 1 .. Len(u) /\ i = (i - 1) + 1
    BY <1>1, <2>1
  <2>3. u[i - 1] = s[i]
    BY <1>1, <2>2
  <2> QED
    BY <2>1, <2>2, <2>3
<1> QED
  BY <1>2, <1>3, <1>4, <1>5 DEF Orderly, Complete, u

\* Taking an input: it is the next one.
LEMMA OrderlyTake ==
  ASSUME NEW s \in Seq(Messages), s # <<>>, NEW k \in Nat, NEW t \in Nat,
         Orderly(s, k, t), IsInput(Head(s))
  PROVE  /\ Head(s).n = k + 1 /\ k + 1 <= t
         /\ Orderly(Tail(s), k + 1, t)
         /\ Complete(s, k, t) => Complete(Tail(s), k + 1, t)
<1> DEFINE u == Tail(s)
<1>1. /\ Len(s) \in Nat /\ Len(s) # 0 /\ IsInput(s[1]) /\ Head(s) = s[1] /\ 1 \in 1 .. Len(s)
      /\ \A i \in 1 .. Len(s) : s[i].n \in Nat
      /\ Len(u) = Len(s) - 1
      /\ \A i \in 1 .. Len(u) : u[i] = s[i + 1] /\ i + 1 \in 1 .. Len(s) /\ 1 < i + 1
  BY MessageFacts, TailMessages
<1> HIDE DEF u
<1>2. s[1].n = k + 1 /\ k + 1 <= t
  <2>1. k < s[1].n /\ s[1].n <= t
    BY <1>1 DEF Orderly
  <2>2. s[1].n = k + 1
    BY <1>1 DEF Orderly
  <2> QED
    BY <2>1, <2>2
<1>3. \A i \in 1 .. Len(u) : IsInput(u[i]) => k + 1 < u[i].n /\ u[i].n <= t
  <2>1. ASSUME NEW i \in 1 .. Len(u), IsInput(u[i])
        PROVE  k + 1 < u[i].n /\ u[i].n <= t
    <3>1. u[i] = s[i + 1] /\ i + 1 \in 1 .. Len(s) /\ 1 < i + 1
      BY <1>1, <2>1
    <3> QED
      BY <1>1, <1>2, <2>1, <3>1 DEF Orderly
  <2> QED
    BY <2>1
<1>4. \A i, j \in 1 .. Len(u) : i < j /\ IsInput(u[i]) /\ IsInput(u[j]) => u[i].n < u[j].n
  <2>1. ASSUME NEW i \in 1 .. Len(u), NEW j \in 1 .. Len(u), i < j, IsInput(u[i]), IsInput(u[j])
        PROVE  u[i].n < u[j].n
    <3>1. i + 1 < j + 1 /\ i + 1 \in 1 .. Len(s) /\ j + 1 \in 1 .. Len(s)
      BY <1>1, <2>1
    <3> QED
      BY <1>1, <2>1, <3>1 DEF Orderly
  <2> QED
    BY <2>1
<1>5. ASSUME NEW i \in 1 .. Len(u), IsInput(u[i]), u[i].n # (k + 1) + 1
      PROVE  \E j \in 1 .. Len(u) : j < i /\ IsInput(u[j]) /\ u[j].n = u[i].n - 1
  <2>1. u[i] = s[i + 1] /\ i + 1 \in 1 .. Len(s) /\ u[i].n \in Nat /\ k + 1 < u[i].n
    BY <1>1, <1>3, <1>5
  <2>2. s[i + 1].n # k + 1
    BY <2>1
  <2>3. PICK j \in 1 .. Len(s) : j < i + 1 /\ IsInput(s[j]) /\ s[j].n = s[i + 1].n - 1
    BY <1>5, <2>1, <2>2 DEF Orderly
  <2>4. j # 1
    BY <1>2, <1>5, <2>1, <2>3
  <2>5. j - 1 \in 1 .. Len(u) /\ j = (j - 1) + 1 /\ j - 1 < i
    BY <1>1, <2>3, <2>4
  <2>6. u[j - 1] = s[j]
    BY <1>1, <2>5
  <2> QED
    BY <2>1, <2>3, <2>5, <2>6
<1>6. ASSUME Complete(s, k, t), k + 1 < t
      PROVE  \E i \in 1 .. Len(u) : IsInput(u[i]) /\ u[i].n = t
  <2>1. PICK i \in 1 .. Len(s) : IsInput(s[i]) /\ s[i].n = t
    BY <1>6 DEF Complete
  <2>2. i # 1
    BY <1>2, <1>6, <2>1
  <2>3. i - 1 \in 1 .. Len(u) /\ i = (i - 1) + 1
    BY <1>1, <2>1, <2>2
  <2>4. u[i - 1] = s[i]
    BY <1>1, <2>3
  <2> QED
    BY <2>1, <2>3, <2>4
<1> QED
  BY <1>1, <1>2, <1>3, <1>4, <1>5, <1>6 DEF Orderly, Complete, u

\* Losing the tail of what is on its way
LEMMA OrderlyPrefix ==
  ASSUME NEW s \in Seq(Messages), NEW k \in Nat, NEW t \in Nat, Orderly(s, k, t),
         NEW m \in 0 .. Len(s)
  PROVE  SubSeq(s, 1, m) \in Seq(Messages) /\ Orderly(SubSeq(s, 1, m), k, t)
<1> DEFINE u == SubSeq(s, 1, m)
<1>1. /\ Len(s) \in Nat /\ u \in Seq(Messages)
      /\ Len(u) = m
      /\ \A i \in 1 .. m : u[i] = s[i] /\ i \in 1 .. Len(s)
  <2>1. Len(s) \in Nat
    BY LenProperties
  <2>2. CASE m = 0
    BY <2>1, <2>2, SubSeqProperties, EmptySeq
  <2>3. CASE m # 0
    BY <2>1, <2>3, SubSeqProperties
  <2> QED
    BY <2>2, <2>3
<1> HIDE DEF u
<1>2. ASSUME NEW i \in 1 .. m, IsInput(u[i]), u[i].n # k + 1
      PROVE  \E j \in 1 .. m : j < i /\ IsInput(u[j]) /\ u[j].n = u[i].n - 1
  <2>1. PICK j \in 1 .. Len(s) : j < i /\ IsInput(s[j]) /\ s[j].n = s[i].n - 1
    BY <1>1, <1>2 DEF Orderly
  <2>2. j \in 1 .. m
    BY <1>1, <2>1
  <2> QED
    BY <1>1, <2>1, <2>2
<1>3. \A i \in 1 .. m : IsInput(u[i]) => k < u[i].n /\ u[i].n <= t
  BY <1>1 DEF Orderly
<1>4. \A i, j \in 1 .. m : i < j /\ IsInput(u[i]) /\ IsInput(u[j]) => u[i].n < u[j].n
  BY <1>1 DEF Orderly
<1>5. Orderly(u, k, t)
  BY <1>1, <1>2, <1>3, <1>4 DEF Orderly
<1> QED
  BY <1>1, <1>5 DEF u

LEMMA AppendMessages ==
  ASSUME NEW s \in Seq(Messages), NEW m \in Messages
  PROVE  /\ Append(s, m) \in Seq(Messages)
         /\ Len(Append(s, m)) = Len(s) + 1
         /\ \A i \in 1 .. Len(s) : Append(s, m)[i] = s[i]
         /\ Append(s, m)[Len(s) + 1] = m
  BY AppendProperties

\* Another message that is no input
LEMMA OrderlyOther ==
  ASSUME NEW s \in Seq(Messages), NEW m \in Messages, ~IsInput(m),
         NEW k \in Nat, NEW t \in Nat, Orderly(s, k, t)
  PROVE  /\ Orderly(Append(s, m), k, t)
         /\ Complete(s, k, t) => Complete(Append(s, m), k, t)
<1> DEFINE u == Append(s, m)
<1>1. /\ Len(s) \in Nat /\ Len(u) = Len(s) + 1
      /\ \A i \in 1 .. Len(s) : u[i] = s[i]
      /\ ~IsInput(u[Len(s) + 1])
  BY MessageFacts, AppendMessages
<1> HIDE DEF u
<1>2. \A i \in 1 .. Len(u) : IsInput(u[i]) => i \in 1 .. Len(s) /\ u[i] = s[i]
  BY <1>1
<1>3. \A i \in 1 .. Len(s) : i \in 1 .. Len(u)
  BY <1>1
<1>4. ASSUME NEW i \in 1 .. Len(u), IsInput(u[i]), u[i].n # k + 1
      PROVE  \E j \in 1 .. Len(u) : j < i /\ IsInput(u[j]) /\ u[j].n = u[i].n - 1
  <2>1. PICK j \in 1 .. Len(s) : j < i /\ IsInput(s[j]) /\ s[j].n = s[i].n - 1
    BY <1>2, <1>4 DEF Orderly
  <2> QED
    BY <1>1, <1>2, <1>3, <1>4, <2>1
<1>5. \A i \in 1 .. Len(u) : IsInput(u[i]) => k < u[i].n /\ u[i].n <= t
  BY <1>2 DEF Orderly
<1>6. \A i, j \in 1 .. Len(u) : i < j /\ IsInput(u[i]) /\ IsInput(u[j]) => u[i].n < u[j].n
  BY <1>2 DEF Orderly
<1>7. Complete(s, k, t) => Complete(u, k, t)
  BY <1>1, <1>3 DEF Complete
<1> QED
  BY <1>4, <1>5, <1>6, <1>7 DEF Orderly, u

\* Another input, as long as none was lost
LEMMA OrderlyInput ==
  ASSUME NEW s \in Seq(Messages), NEW k \in Nat, NEW t \in Nat, k <= t,
         Orderly(s, k, t), Complete(s, k, t)
  PROVE  /\ Orderly(Append(s, Input(t + 1)), k, t + 1)
         /\ Complete(Append(s, Input(t + 1)), k, t + 1)
<1> DEFINE u == Append(s, Input(t + 1))
<1>0. Input(t + 1) \in Messages /\ Input(t + 1).n = t + 1 /\ IsInput(Input(t + 1))
  BY DEF Input, Messages, IsInput
<1>1. /\ Len(s) \in Nat /\ Len(u) = Len(s) + 1
      /\ \A i \in 1 .. Len(s) : u[i] = s[i] /\ s[i].n \in Nat
      /\ IsInput(u[Len(s) + 1]) /\ u[Len(s) + 1].n = t + 1
  BY <1>0, MessageFacts, AppendMessages
<1> HIDE DEF u
<1>2. \A i \in 1 .. Len(u) : i \in 1 .. Len(s) \/ i = Len(s) + 1
  BY <1>1
<1>3. \A i \in 1 .. Len(s) : i \in 1 .. Len(u) /\ i < Len(s) + 1
  BY <1>1
<1>4. ASSUME NEW i \in 1 .. Len(u), IsInput(u[i])
      PROVE  k < u[i].n /\ u[i].n <= t + 1
  <2>1. CASE i \in 1 .. Len(s)
    BY <1>1, <1>4, <2>1 DEF Orderly
  <2>2. CASE i = Len(s) + 1
    BY <1>1, <2>2
  <2> QED
    BY <1>2, <2>1, <2>2
<1>5. ASSUME NEW i \in 1 .. Len(u), NEW j \in 1 .. Len(u), i < j, IsInput(u[i]), IsInput(u[j])
      PROVE  u[i].n < u[j].n
  <2>1. i \in 1 .. Len(s)
    BY <1>1, <1>5
  <2>2. CASE j \in 1 .. Len(s)
    BY <1>1, <1>5, <2>1, <2>2 DEF Orderly
  <2>3. CASE j = Len(s) + 1
    <3>1. u[i].n <= t /\ u[i].n \in Nat
      BY <1>1, <1>5, <2>1 DEF Orderly
    <3> QED
      BY <1>1, <2>3, <3>1
  <2> QED
    BY <1>2, <2>2, <2>3
<1>6. ASSUME NEW i \in 1 .. Len(u), IsInput(u[i]), u[i].n # k + 1
      PROVE  \E j \in 1 .. Len(u) : j < i /\ IsInput(u[j]) /\ u[j].n = u[i].n - 1
  <2>1. CASE i \in 1 .. Len(s)
    <3>1. PICK j \in 1 .. Len(s) : j < i /\ IsInput(s[j]) /\ s[j].n = s[i].n - 1
      BY <1>1, <1>6, <2>1 DEF Orderly
    <3> QED
      BY <1>1, <1>3, <2>1, <3>1
  <2>2. CASE i = Len(s) + 1
    <3>1. u[i].n = t + 1 /\ k < t
      BY <1>1, <1>6, <2>2
    <3>2. PICK j \in 1 .. Len(s) : IsInput(s[j]) /\ s[j].n = t
      BY <3>1 DEF Complete
    <3>3. j \in 1 .. Len(u) /\ j < i /\ u[j] = s[j] /\ u[i].n - 1 = t
      BY <1>1, <1>3, <2>2, <3>1
    <3> QED
      BY <3>2, <3>3
  <2> QED
    BY <1>2, <2>1, <2>2
<1>7. Complete(u, k, t + 1)
  <2>1. Len(s) + 1 \in 1 .. Len(u)
    BY <1>1
  <2> QED
    BY <1>1, <2>1 DEF Complete
<1> QED
  BY <1>4, <1>5, <1>6, <1>7 DEF Orderly, u

-----------------------------------------------------------------------------
(* Item i of what was applied is input i, the queue goes on from there, and  *)
(* the messages after the queue, as long as they can get there.              *)

Taken == Len(applied) + Len(inputQ)

InputInv ==
  /\ \A i \in 1 .. Len(applied) : applied[i] = i
  /\ \A i \in 1 .. Len(inputQ) : inputQ[i] = Len(applied) + i
  /\ Taken <= typed
  /\ InLoop /\ inputRxOpen =>
       /\ Orderly(toGateway, Taken, typed)
       /\ browser = "here" => Complete(toGateway, Taken, typed)

inputVars == <<applied, inputQ, inputRxOpen, wsPc, toGateway, typed, browser>>

LEMMA InputQuiet ==
  ASSUME InputInv, UNCHANGED <<applied, inputQ, toGateway, typed, browser>>,
         InLoop' => InLoop, inputRxOpen' => inputRxOpen
  PROVE  InputInv'
<1>1. Taken' = Taken
  BY DEF Taken
<1> HIDE DEF Taken
<1> QED
  BY <1>1 DEF InputInv

LEMMA InputTypes ==
  ASSUME TypeInv
  PROVE  /\ applied \in Seq(Nat) /\ inputQ \in Seq(Nat)
         /\ toGateway \in Seq(Messages) /\ typed \in Nat
         /\ Len(applied) \in Nat /\ Len(inputQ) \in Nat /\ Taken \in Nat
         /\ inputRxOpen \in BOOLEAN
<1>1. /\ applied \in Seq(Nat) /\ inputQ \in Seq(Nat)
      /\ toGateway \in Seq(Messages) /\ typed \in Nat /\ inputRxOpen \in BOOLEAN
  BY BoundsAssumption DEF TypeInv, RdpOK, ChannelsOK, WebOK
<1> QED
  BY <1>1, LenNats DEF Taken

LEMMA RecvInputStep ==
  ASSUME TypeInv, InputInv, RecvInput
  PROVE  /\ InputInv'
         /\ applied' = Append(applied, Len(applied) + 1)
         /\ Len(applied) < typed
         /\ UNCHANGED <<typed, browser, wsPc, inputRxOpen>>
<1>1. /\ inputQ # <<>> /\ inputQ' = Tail(inputQ)
      /\ applied' = Append(applied, Head(inputQ))
      /\ UNCHANGED <<toGateway, typed, browser, wsPc, inputRxOpen>>
  BY DEF RecvInput, ws, web
<1>2. /\ Len(inputQ) # 0 /\ Head(inputQ) = inputQ[1]
      /\ Len(inputQ') = Len(inputQ) - 1
      /\ \A i \in 1 .. Len(inputQ) - 1 : inputQ'[i] = inputQ[i + 1]
  BY <1>1, InputTypes, TailNats, LenNats
<1>3. inputQ[1] = Len(applied) + 1
  BY <1>2, InputTypes DEF InputInv
<1>4. applied' = Append(applied, Len(applied) + 1)
  BY <1>1, <1>2, <1>3
<1>5. /\ Len(applied') = Len(applied) + 1
      /\ \A i \in 1 .. Len(applied) : applied'[i] = applied[i]
      /\ applied'[Len(applied) + 1] = Len(applied) + 1
  BY <1>4, InputTypes, AppendNats
<1>6. Taken' = Taken
  BY <1>2, <1>5, InputTypes DEF Taken
<1>7. Len(applied) < typed
  BY <1>2, InputTypes DEF Taken, InputInv
<1>8. \A i \in 1 .. Len(applied') : applied'[i] = i
  BY <1>5, InputTypes DEF InputInv
<1>9. ASSUME NEW i \in 1 .. Len(inputQ') PROVE inputQ'[i] = Len(applied') + i
  <2>1. i + 1 \in 1 .. Len(inputQ) /\ i \in 1 .. Len(inputQ) - 1
    BY <1>2, <1>9, InputTypes
  <2>2. inputQ'[i] = Len(applied) + (i + 1)
    BY <1>2, <2>1 DEF InputInv
  <2> QED
    BY <1>5, <2>1, <2>2, InputTypes
<1> HIDE DEF Taken
<1>10. InputInv'
  BY <1>1, <1>6, <1>8, <1>9 DEF InputInv, InLoop
<1> QED
  BY <1>1, <1>4, <1>7, <1>10

LEMMA RdpInputStep ==
  ASSUME TypeInv, InputInv, RdpNext
  PROVE  InputInv'
<1> USE DEF ws, web
<1>1. CASE DropInputRx
  <2>1. /\ inputQ' = <<>> /\ ~inputRxOpen'
        /\ UNCHANGED <<applied, typed>>
    BY <1>1 DEF DropInputRx
  <2>2. Len(inputQ') = 0
    BY <2>1
  <2>3. Taken' <= typed'
    BY <2>1, <2>2, InputTypes DEF Taken, InputInv
  <2> HIDE DEF Taken
  <2> QED
    BY <2>1, <2>2, <2>3 DEF InputInv
<1>2. CASE ~(DropInputRx \/ RecvInput)
  <2>1. UNCHANGED inputVars
    BY <1>2 DEF RdpNext, Connecting, TcpConnected, Connected, ConnectFails, ReadFrame,
       ReadFrameFails, ProcessSends, ProcessReturns, ProcessFails, InputClosed, HandleOutput,
       DeactivateAll, Terminate, WriteFails, LastOutput, OutputsDone, Panic, DropEventTx,
       SendDone, inputVars, inputChannel, rdp
  <2> QED
    BY <2>1, InputQuiet DEF inputVars, InLoop
<1> QED
  BY <1>1, <1>2, RecvInputStep

LEMMA RecvBrowserStep ==
  ASSUME TypeInv, InputInv, RecvBrowser
  PROVE  InputInv'
<1>1. /\ InLoop /\ toGateway # <<>> /\ toGateway' = Tail(toGateway)
      /\ UNCHANGED <<applied, typed, browser, inputRxOpen>>
  BY DEF RecvBrowser, InLoop, rdp
<1>2. CASE UNCHANGED inputQ /\ ~InLoop'
  <2>1. Taken' = Taken
    BY <1>1, <1>2 DEF Taken
  <2> HIDE DEF Taken, InLoop
  <2> QED
    BY <1>1, <1>2, <2>1 DEF InputInv
<1>3. CASE UNCHANGED inputQ /\ ~IsInput(Head(toGateway))
  <2>1. Taken' = Taken
    BY <1>1, <1>3 DEF Taken
  <2> HIDE DEF Taken, InLoop
  <2>2. ASSUME inputRxOpen
        PROVE  /\ Orderly(toGateway', Taken, typed)
               /\ browser = "here" => Complete(toGateway', Taken, typed)
    BY <1>1, <1>3, <2>2, OrderlySkip, InputTypes DEF InputInv
  <2> QED
    BY <1>1, <1>3, <2>1, <2>2 DEF InputInv
<1>4. CASE /\ inputRxOpen /\ IsInput(Head(toGateway))
           /\ inputQ' = Append(inputQ, Head(toGateway).n)
  <2>1. /\ Orderly(toGateway, Taken, typed)
        /\ browser = "here" => Complete(toGateway, Taken, typed)
    BY <1>1, <1>4 DEF InputInv
  <2>2. /\ Head(toGateway).n = Taken + 1 /\ Taken + 1 <= typed
        /\ Orderly(toGateway', Taken + 1, typed)
        /\ browser = "here" => Complete(toGateway', Taken + 1, typed)
    BY <1>1, <1>4, <2>1, OrderlyTake, InputTypes
  <2>3. Taken + 1 \in Nat
    BY InputTypes
  <2>4. inputQ' = Append(inputQ, Taken + 1)
    BY <1>4, <2>2
  <2>5. /\ Len(inputQ') = Len(inputQ) + 1
        /\ \A i \in 1 .. Len(inputQ) : inputQ'[i] = inputQ[i]
        /\ inputQ'[Len(inputQ) + 1] = Taken + 1
    BY <2>3, <2>4, InputTypes, AppendNats
  <2>6. Taken' = Taken + 1
    BY <1>1, <2>5, InputTypes DEF Taken
  <2>7. ASSUME NEW i \in 1 .. Len(inputQ') PROVE inputQ'[i] = Len(applied) + i
    <3>1. CASE i \in 1 .. Len(inputQ)
      BY <2>5, <3>1 DEF InputInv
    <3>2. CASE i = Len(inputQ) + 1
      BY <2>5, <3>2, InputTypes DEF Taken
    <3>3. i \in 1 .. Len(inputQ) \/ i = Len(inputQ) + 1
      BY <2>5, <2>7, InputTypes
    <3> QED
      BY <3>1, <3>2, <3>3
  <2> HIDE DEF Taken, InLoop
  <2> QED
    BY <1>1, <2>2, <2>6, <2>7 DEF InputInv
<1>5. \/ UNCHANGED inputQ /\ ~InLoop'
      \/ UNCHANGED inputQ /\ ~IsInput(Head(toGateway))
      \/ /\ inputRxOpen /\ IsInput(Head(toGateway))
         /\ inputQ' = Append(inputQ, Head(toGateway).n)
  BY DEF RecvBrowser, LeaveLoop, InLoop, IsInput
<1> QED
  BY <1>2, <1>3, <1>4, <1>5

LEMMA WsInputStep ==
  ASSUME TypeInv, InputInv, WsNext
  PROVE  InputInv'
<1>1. CASE ~RecvBrowser
  <2>1. /\ UNCHANGED <<applied, inputQ, inputRxOpen, toGateway, typed, browser>>
        /\ InLoop' => InLoop
    BY <1>1 DEF WsNext, RecvEvent, EventChannelClosed, RecvDone, Sent, SendFails, ErrorSent,
       ErrorSendFails, DropInputTx, DropEventRx, LeaveLoop, InLoop, rdp, inputChannel, web
  <2> QED
    BY <2>1, InputQuiet
<1> QED
  BY <1>1, RecvBrowserStep

LEMMA WebInputStep ==
  ASSUME TypeInv, InputInv, WebNext
  PROVE  InputInv'
<1>1. /\ UNCHANGED <<applied, inputQ, inputRxOpen, wsPc>>
      /\ Taken' = Taken /\ InLoop' = InLoop
  <2>1. UNCHANGED <<applied, inputQ, inputRxOpen, wsPc>>
    BY DEF WebNext, Type, SendJunk, Read, Leave, rdp, inputChannel, ws
  <2> QED
    BY <2>1 DEF Taken, InLoop
<1> HIDE DEF Taken, InLoop
<1>2. CASE Type
  <2>1. typed' = typed + 1 /\ UNCHANGED browser /\ browser = "here"
        /\ toGateway' = Append(toGateway, Input(typed + 1))
    BY <1>2 DEF Type
  <2>2. ASSUME InLoop, inputRxOpen
        PROVE  Orderly(toGateway', Taken, typed') /\ Complete(toGateway', Taken, typed')
    <3>1. Orderly(toGateway, Taken, typed) /\ Complete(toGateway, Taken, typed) /\ Taken <= typed
      BY <2>1, <2>2 DEF InputInv
    <3> QED
      BY <2>1, <3>1, OrderlyInput, InputTypes
  <2>3. Taken <= typed'
    BY <2>1, InputTypes DEF InputInv
  <2> QED
    BY <1>1, <2>1, <2>2, <2>3 DEF InputInv
<1>3. CASE SendJunk
  <2>1. UNCHANGED <<typed, browser>> /\ toGateway' = Append(toGateway, Junk)
    BY <1>3 DEF SendJunk
  <2>2. Junk \in Messages /\ ~IsInput(Junk)
    BY DEF Junk, Messages, IsInput
  <2>3. ASSUME InLoop, inputRxOpen
        PROVE  /\ Orderly(toGateway', Taken, typed)
               /\ browser = "here" => Complete(toGateway', Taken, typed)
    BY <2>1, <2>2, <2>3, OrderlyOther, InputTypes DEF InputInv
  <2> QED
    BY <1>1, <2>1, <2>3 DEF InputInv
<1>4. CASE Read
  BY <1>1, <1>4 DEF Read, InputInv
<1>5. CASE Leave
  <2>1. UNCHANGED typed /\ browser' = "gone"
    BY <1>5 DEF Leave
  <2>2. PICK m \in 0 .. Len(toGateway) :
          toGateway' = Append(SubSeq(toGateway, 1, m), CloseMessage)
    BY <1>5 DEF Leave
  <2>3. CloseMessage \in Messages /\ ~IsInput(CloseMessage)
    BY DEF CloseMessage, Messages, IsInput
  <2>4. ASSUME InLoop, inputRxOpen
        PROVE  Orderly(toGateway', Taken, typed)
    <3>1. SubSeq(toGateway, 1, m) \in Seq(Messages) /\ Orderly(SubSeq(toGateway, 1, m), Taken, typed)
      BY <2>4, OrderlyPrefix, InputTypes DEF InputInv
    <3> QED
      BY <2>2, <2>3, <3>1, OrderlyOther, InputTypes
  <2> QED
    BY <1>1, <2>1, <2>4 DEF InputInv
<1> QED
  BY <1>2, <1>3, <1>4, <1>5 DEF WebNext

LEMMA InputInit == Init => InputInv
<1> SUFFICES ASSUME Init PROVE InputInv
  OBVIOUS
<1>1. /\ applied = <<>> /\ inputQ = <<>> /\ toGateway = <<>>
      /\ typed = 0 /\ wsPc = "select" /\ inputRxOpen
  BY DEF Init
<1>2. Len(applied) = 0 /\ Len(inputQ) = 0 /\ Len(toGateway) = 0
  BY <1>1
<1> QED
  BY <1>1, <1>2 DEF InputInv, Taken, Orderly, Complete

LEMMA InputInvariant == Spec => []InputInv
<1>1. InputInv /\ UNCHANGED vars => InputInv'
  BY InputQuiet DEF vars, InLoop
<1>2. TypeInv /\ InputInv /\ [Next]_vars => InputInv'
  BY <1>1, RdpInputStep, WsInputStep, WebInputStep DEF Next
<1> QED
  BY <1>2, InputInit, TypeInvariant, PTL DEF Spec

\* What the active stage was given is a gapless prefix of what was typed.
THEOREM InputsAreAPrefix == Spec => []InputsFormPrefix
<1>1. TypeInv /\ InputInv => InputsFormPrefix
  <2> SUFFICES ASSUME TypeInv, InputInv PROVE InputsFormPrefix
    OBVIOUS
  <2>1. applied \in [1 .. Len(applied) -> Nat]
    BY InputTypes, LenProperties
  <2>2. Len(applied) <= typed
    BY InputTypes DEF InputInv, Taken
  <2> QED
    BY <2>1, <2>2 DEF InputInv, InputsFormPrefix, Count
<1> QED
  BY <1>1, InputInvariant, TypeInvariant, PTL

-----------------------------------------------------------------------------
(* The relay of inputs. *)

Cut == browser = "gone" \/ ~InLoop \/ ~inputRxOpen

LEMMA InputRelayQuiet ==
  ASSUME UNCHANGED <<applied, typed>>, Cut => Cut'
  PROVE  [Inputs!PipeNext]_(Inputs!pipe)
  BY DEF Cut, InLoop, Inputs!PipeNext, Inputs!Break, Inputs!pipe

\* The safety of the relay of inputs: the session hands the browser's inputs
\* to the active stage one by one, each once, in order, until one end is cut.
THEOREM InputsAreRelayed == Spec => Inputs!PipeSafety
<1>1. Init => Inputs!PipeInit
  BY DEF Init, InLoop, Inputs!PipeInit
<1>2. TypeInv /\ InputInv /\ [Next]_vars => [Inputs!PipeNext]_(Inputs!pipe)
  <2> SUFFICES ASSUME TypeInv, InputInv, [Next]_vars
               PROVE  [Inputs!PipeNext]_(Inputs!pipe)
    OBVIOUS
  <2> USE DEF rdp, inputChannel, ws, web
  <2>1. CASE RecvInput
    <3>1. /\ applied' = Append(applied, Len(applied) + 1) /\ Len(applied) < typed
          /\ UNCHANGED <<typed, browser, wsPc, inputRxOpen>>
      BY <2>1, RecvInputStep
    <3> QED
      BY <3>1 DEF InLoop, Inputs!PipeNext, Inputs!Get, Inputs!pipe
  <2>2. CASE Type
    BY <2>2 DEF Type, InLoop, Inputs!PipeNext, Inputs!Put, Inputs!pipe
  <2>3. CASE RdpNext /\ ~RecvInput
    <3>1. UNCHANGED <<applied, typed, browser, wsPc>> /\ (~inputRxOpen => ~inputRxOpen')
      BY <2>3 DEF RdpNext, Connecting, TcpConnected, Connected, ConnectFails, ReadFrame,
         ReadFrameFails, ProcessSends, ProcessReturns, ProcessFails, InputClosed, HandleOutput,
         DeactivateAll, Terminate, WriteFails, LastOutput, OutputsDone, Panic, DropEventTx,
         DropInputRx, SendDone
    <3> QED
      BY <3>1, InputRelayQuiet DEF Cut, InLoop
  <2>4. CASE WsNext
    <3>1. UNCHANGED <<applied, typed, browser, inputRxOpen>> /\ (~InLoop => ~InLoop')
      BY <2>4 DEF WsNext, RecvBrowser, RecvEvent, EventChannelClosed, RecvDone, Sent, SendFails,
         ErrorSent, ErrorSendFails, DropInputTx, DropEventRx, InLoop
    <3> QED
      BY <3>1, InputRelayQuiet DEF Cut
  <2>5. CASE SendJunk \/ Read \/ Leave
    <3>1. UNCHANGED <<applied, typed, wsPc, inputRxOpen>> /\ (browser = "gone" => browser' = "gone")
      BY <2>5 DEF SendJunk, Read, Leave
    <3> QED
      BY <3>1, InputRelayQuiet DEF Cut, InLoop
  <2>6. CASE UNCHANGED vars
    BY <2>6, InputRelayQuiet DEF vars, Cut, InLoop
  <2> QED
    BY <2>1, <2>2, <2>3, <2>4, <2>5, <2>6 DEF Next, WebNext
<1> QED
  BY <1>1, <1>2, TypeInvariant, InputInvariant, PTL DEF Spec, Inputs!PipeSafety
=============================================================================
