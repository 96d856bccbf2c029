------------------------------- MODULE Session -------------------------------
(***************************************************************************)
(* One browser session of the gateway: the WebSocket task (ws_session in   *)
(* src/src/main.rs), the RDP thread (spawn_rdp and rdp::run), the input    *)
(* and event channels and the oneshot between them, and the browser and    *)
(* the RDP server around them.                                             *)
(*                                                                         *)
(* Events and inputs are numbered in the order they are sent.  A Close     *)
(* frame, the end of the stream and a read error of the WebSocket are all  *)
(* "close": the loop ends at each.  The random choice of tokio::select!    *)
(* between ready branches is the choice between actions.                   *)
(***************************************************************************)
EXTENDS Integers, Sequences

CONSTANTS
  MaxEvents,     \* bound: events sent after the session is connected
  MaxInputs,     \* bound: inputs the browser sends
  MaxJunk,       \* bound: messages of the browser that are no input
  MaxOutputs,    \* bound: outputs of one call of the active stage
  WireCapacity   \* messages the way to the browser holds

ASSUME BoundsAssumption ==
  /\ MaxEvents \in Nat
  /\ MaxInputs \in Nat
  /\ MaxJunk \in Nat
  /\ MaxOutputs \in Nat
  /\ WireCapacity \in Nat \ {0}

VARIABLES
  \* RDP thread
  rdpPc,             \* where the thread is
  result,            \* what run() returned, or "panic"
  outputs,           \* outputs of the active stage still to be handled
  applied,           \* inputs taken from the channel, in order
  \* channels
  inputQ, inputTxOpen, inputRxOpen,
  eventQ, eventTxOpen, eventRxOpen,
  produced,          \* events accepted by the event channel
  done,              \* the oneshot
  \* WebSocket task
  wsPc,              \* where the task is
  sending,           \* the event in ws_tx.send(..).await, if any
  eventChannelOpen,  \* event_channel_open
  why,               \* why the loop was left
  handed,            \* events the WebSocket accepted, in order
  reported,          \* the WebSocket accepted the Error message
  \* browser
  browser,           \* "here" or "gone"
  received,          \* messages the browser read
  toGateway,         \* messages on their way to the gateway
  typed,             \* inputs sent
  junk               \* other messages sent

rdp == <<rdpPc, result, outputs, applied>>
inputChannel == <<inputQ, inputTxOpen, inputRxOpen>>
eventChannel == <<eventQ, eventTxOpen, eventRxOpen, produced>>
ws == <<wsPc, sending, eventChannelOpen, why, handed, reported>>
web == <<browser, received, toGateway, typed, junk>>
vars == <<rdpPc, result, outputs, applied, inputQ, inputTxOpen, inputRxOpen,
          eventQ, eventTxOpen, eventRxOpen, produced, done, wsPc, sending,
          eventChannelOpen, why, handed, reported, browser, received,
          toGateway, typed, junk>>

Init ==
  /\ rdpPc = "spawned" /\ result = "none" /\ outputs = 0 /\ applied = <<>>
  /\ inputQ = <<>> /\ inputTxOpen = TRUE /\ inputRxOpen = TRUE
  /\ eventQ = <<>> /\ eventTxOpen = TRUE /\ eventRxOpen = TRUE
  /\ produced = 0
  /\ done = "pending"
  /\ wsPc = "select" /\ sending = <<>> /\ eventChannelOpen = TRUE
  /\ why = "none" /\ handed = <<>> /\ reported = FALSE
  /\ browser = "here" /\ received = 0 /\ toGateway = <<>>
  /\ typed = 0 /\ junk = 0

-----------------------------------------------------------------------------
(* RDP thread. *)

\* Slip: a bounded channel that drops what it has no room for
SendEventIfRoom ==
  /\ produced' = produced + 1
  /\ eventQ' = IF eventRxOpen /\ eventQ = <<>> THEN Append(eventQ, produced + 1) ELSE eventQ
  /\ UNCHANGED <<eventTxOpen, eventRxOpen>>

\* event_tx.send: the event is lost when the session dropped event_rx.
SendEvent ==
  /\ IF eventRxOpen
     THEN eventQ' = Append(eventQ, produced + 1) /\ produced' = produced + 1
     ELSE UNCHANGED <<eventQ, produced>>
  /\ UNCHANGED <<eventTxOpen, eventRxOpen>>

\* run() returns, or unwinds: its locals and arguments are dropped next.
Return(res) == rdpPc' = "dropEvent" /\ result' = res

\* The runtime is built and run() sends its first status event.
Connecting ==
  /\ rdpPc = "spawned"
  /\ rdpPc' = "tcp"
  /\ SendEvent
  /\ UNCHANGED <<result, outputs, applied, inputChannel, done, ws, web>>

TcpConnected ==
  /\ rdpPc = "tcp"
  /\ rdpPc' = "handshake"
  /\ UNCHANGED <<result, outputs, applied, inputChannel, eventChannel, done, ws, web>>

\* Slip: what the browser typed during the handshake is discarded.
ConnectedDiscarding ==
  /\ \/ rdpPc = "handshake" /\ rdpPc' = "connected"
     \/ rdpPc = "connected" /\ rdpPc' = "select"
  /\ SendEvent
  /\ inputQ' = <<>>
  /\ UNCHANGED <<result, outputs, applied, inputTxOpen, inputRxOpen, done, ws, web>>

\* The handshake is over: a "connected" status, then the desktop size.
Connected ==
  /\ \/ rdpPc = "handshake" /\ rdpPc' = "connected"
     \/ rdpPc = "connected" /\ rdpPc' = "select"
  /\ SendEvent
  /\ UNCHANGED <<result, outputs, applied, inputChannel, done, ws, web>>

\* Runtime error, refused or failed connect, or one of the two timeouts.
ConnectFails ==
  /\ rdpPc \in {"spawned", "tcp", "handshake"}
  /\ Return("err")
  /\ UNCHANGED <<outputs, applied, inputChannel, eventChannel, done, ws, web>>

\* select!: a frame of the server arrives.
ReadFrame ==
  /\ rdpPc = "select"
  /\ rdpPc' = "processing"
  /\ UNCHANGED <<result, outputs, applied, inputChannel, eventChannel, done, ws, web>>

ReadFrameFails ==
  /\ rdpPc = "select"
  /\ Return("err")
  /\ UNCHANGED <<outputs, applied, inputChannel, eventChannel, done, ws, web>>

\* The active stage handles the frame: the graphics channel sends events ...
ProcessSends ==
  /\ rdpPc = "processing"
  /\ produced < MaxEvents
  /\ SendEvent
  /\ UNCHANGED <<rdp, inputChannel, done, ws, web>>

\* ... and the call returns outputs ...
ProcessReturns ==
  /\ rdpPc = "processing"
  /\ rdpPc' = "outputs"
  /\ outputs' \in 0 .. MaxOutputs
  /\ UNCHANGED <<result, applied, inputChannel, eventChannel, done, ws, web>>

\* ... or an error.
ProcessFails ==
  /\ rdpPc = "processing"
  /\ Return("err")
  /\ UNCHANGED <<outputs, applied, inputChannel, eventChannel, done, ws, web>>

\* select!: an input arrives.  It translates to nothing, or is encoded to
\* outputs, or its encoding fails.
RecvInput ==
  /\ rdpPc = "select"
  /\ inputQ # <<>>
  /\ inputQ' = Tail(inputQ)
  /\ applied' = Append(applied, Head(inputQ))
  /\ \/ UNCHANGED <<rdpPc, result, outputs>>
     \/ rdpPc' = "outputs" /\ outputs' \in 0 .. MaxOutputs /\ UNCHANGED result
     \/ Return("err") /\ UNCHANGED outputs
  /\ UNCHANGED <<inputTxOpen, inputRxOpen, eventChannel, done, ws, web>>

\* Slip: the None of recv() is ignored.
InputClosedIgnored ==
  /\ rdpPc = "select"
  /\ inputQ = <<>>
  /\ ~inputTxOpen
  /\ UNCHANGED vars

\* select!: recv() returns None once the queue is empty and its sender gone.
InputClosed ==
  /\ rdpPc = "select"
  /\ inputQ = <<>>
  /\ ~inputTxOpen
  /\ Return("ok")
  /\ UNCHANGED <<outputs, applied, inputChannel, eventChannel, done, ws, web>>

\* for output in outputs: a response is written to the server, or the output
\* is one that the loop ignores ...
HandleOutput ==
  /\ rdpPc = "outputs"
  /\ outputs > 0
  /\ outputs' = outputs - 1
  /\ UNCHANGED <<rdpPc, result, applied, inputChannel, eventChannel, done, ws, web>>

\* ... or the server deactivated the session ...
DeactivateAll ==
  /\ rdpPc = "outputs"
  /\ outputs > 0
  /\ outputs' = outputs - 1
  /\ produced < MaxEvents
  /\ SendEvent
  /\ UNCHANGED <<rdpPc, result, applied, inputChannel, done, ws, web>>

\* ... or it terminated the session, or writing the response fails.
LastOutput(res) ==
  /\ rdpPc = "outputs"
  /\ outputs > 0
  /\ outputs' = 0
  /\ Return(res)
  /\ UNCHANGED <<applied, inputChannel, eventChannel, done, ws, web>>

Terminate == LastOutput("ok")
WriteFails == LastOutput("err")

OutputsDone ==
  /\ rdpPc = "outputs"
  /\ outputs = 0
  /\ rdpPc' = "select"
  /\ UNCHANGED <<result, outputs, applied, inputChannel, eventChannel, done, ws, web>>

Running == {"spawned", "tcp", "handshake", "connected", "select", "processing", "outputs"}

\* A panic anywhere unwinds the thread.
Panic ==
  /\ rdpPc \in Running
  /\ Return("panic")
  /\ UNCHANGED <<outputs, applied, inputChannel, eventChannel, done, ws, web>>

\* The drops at the end of run(): the event sender before the input receiver.
DropEventTx ==
  /\ rdpPc = "dropEvent"
  /\ rdpPc' = "dropInput"
  /\ eventTxOpen' = FALSE
  /\ UNCHANGED <<result, outputs, applied, inputChannel, eventQ, eventRxOpen,
                 produced, done, ws, web>>

DropInputRx ==
  /\ rdpPc = "dropInput"
  /\ rdpPc' = "sendDone"
  /\ inputRxOpen' = FALSE
  /\ inputQ' = <<>>
  /\ UNCHANGED <<result, outputs, applied, inputTxOpen, eventChannel, done, ws, web>>

\* done_tx.send(result), or done_tx dropped by the panic
SendDone ==
  /\ rdpPc = "sendDone"
  /\ rdpPc' = "ended"
  /\ done' = result
  /\ UNCHANGED <<result, outputs, applied, inputChannel, eventChannel, ws, web>>

RdpNext ==
  \/ Connecting \/ TcpConnected \/ Connected \/ ConnectFails
  \/ ReadFrame \/ ReadFrameFails
  \/ ProcessSends \/ ProcessReturns \/ ProcessFails
  \/ RecvInput \/ InputClosed
  \/ HandleOutput \/ DeactivateAll \/ Terminate \/ WriteFails \/ OutputsDone
  \/ Panic
  \/ DropEventTx \/ DropInputRx \/ SendDone

-----------------------------------------------------------------------------
(* WebSocket task. *)

Input(n) == [type |-> "input", n |-> n]
Junk == [type |-> "junk", n |-> 0]
CloseMessage == [type |-> "close", n |-> 0]

\* What the WebSocket still holds back on its way to the browser
InFlight == Len(handed) + (IF reported THEN 1 ELSE 0) - received

LeaveLoop(reason) ==
  /\ wsPc' = "dropInput"
  /\ why' = reason
  /\ sending' = <<>>
  /\ UNCHANGED eventChannelOpen

Stay == UNCHANGED <<wsPc, sending, eventChannelOpen, why>>

\* select!: ws_rx.next().  An input goes to the RDP thread, and the loop ends
\* when that dropped its receiver; anything that is no input is ignored.
RecvBrowser ==
  /\ wsPc = "select"
  /\ toGateway # <<>>
  /\ toGateway' = Tail(toGateway)
  /\ LET message == Head(toGateway)
     IN  \/ /\ message.type = "input" /\ inputRxOpen
            /\ inputQ' = Append(inputQ, message.n)
            /\ Stay
         \/ /\ message.type = "input" /\ ~inputRxOpen
            /\ LeaveLoop("inputRefused")
            /\ UNCHANGED inputQ
         \/ /\ message.type = "junk"
            /\ Stay
            /\ UNCHANGED inputQ
         \/ /\ message.type = "close"
            /\ LeaveLoop("browserClosed")
            /\ UNCHANGED inputQ
  /\ UNCHANGED <<rdp, inputTxOpen, inputRxOpen, eventChannel, done, handed,
                 reported, browser, received, typed, junk>>

\* select!: event_rx.recv(), if event_channel_open; the send starts.
RecvEvent ==
  /\ wsPc = "select"
  /\ eventChannelOpen
  /\ eventQ # <<>>
  /\ wsPc' = "sending"
  /\ sending' = <<Head(eventQ)>>
  /\ eventQ' = Tail(eventQ)
  /\ UNCHANGED <<rdp, inputChannel, eventTxOpen, eventRxOpen, produced, done,
                 eventChannelOpen, why, handed, reported, web>>

\* Slip: the loop ends with its event channel.
EventChannelClosedLeaving ==
  /\ wsPc = "select"
  /\ eventChannelOpen
  /\ eventQ = <<>>
  /\ ~eventTxOpen
  /\ LeaveLoop("none")
  /\ UNCHANGED <<rdp, inputChannel, eventChannel, done, handed, reported, web>>

\* recv() returns None: the branch is switched off and the loop goes on.
EventChannelClosed ==
  /\ wsPc = "select"
  /\ eventChannelOpen
  /\ eventQ = <<>>
  /\ ~eventTxOpen
  /\ eventChannelOpen' = FALSE
  /\ UNCHANGED <<rdp, inputChannel, eventChannel, done, wsPc, sending, why,
                 handed, reported, web>>

\* Slip: the message is handed over without waiting for room, as start_send does.
SentAtOnce ==
  /\ wsPc = "sending"
  /\ wsPc' = "select"
  /\ handed' = handed \o sending
  /\ sending' = <<>>
  /\ UNCHANGED <<rdp, inputChannel, eventChannel, done, eventChannelOpen, why,
                 reported, web>>

\* ws_tx.send(message).await completes when there is room for the message.
Sent ==
  /\ wsPc = "sending"
  /\ InFlight < WireCapacity
  /\ wsPc' = "select"
  /\ handed' = handed \o sending
  /\ sending' = <<>>
  /\ UNCHANGED <<rdp, inputChannel, eventChannel, done, eventChannelOpen, why,
                 reported, web>>

\* Slip: the loop goes on after a failed write.
SendFailsGoingOn ==
  /\ wsPc = "sending"
  /\ browser = "gone"
  /\ wsPc' = "select"
  /\ sending' = <<>>
  /\ UNCHANGED <<rdp, inputChannel, eventChannel, done, eventChannelOpen, why,
                 handed, reported, web>>

SendFails ==
  /\ wsPc = "sending"
  /\ browser = "gone"
  /\ LeaveLoop("writeFailed")
  /\ UNCHANGED <<rdp, inputChannel, eventChannel, done, handed, reported, web>>

\* Slip: the thread that ended without a result is reported as a failure.
RecvDoneTakingPanic ==
  /\ wsPc = "select"
  /\ done # "pending"
  /\ IF done # "ok"
     THEN wsPc' = "sendingError" /\ UNCHANGED <<sending, eventChannelOpen, why>>
     ELSE LeaveLoop("rdpDone")
  /\ UNCHANGED <<rdp, inputChannel, eventChannel, done, handed, reported, web>>

\* Slip: the branch matches Ok(..) only, and is off after a panic.
RecvDoneOfResult ==
  /\ wsPc = "select"
  /\ done \in {"ok", "err"}
  /\ IF done = "err"
     THEN wsPc' = "sendingError" /\ UNCHANGED <<sending, eventChannelOpen, why>>
     ELSE LeaveLoop("rdpDone")
  /\ UNCHANGED <<rdp, inputChannel, eventChannel, done, handed, reported, web>>

\* select!: &mut rdp_done.  An error of run() is sent to the browser first.
RecvDone ==
  /\ wsPc = "select"
  /\ done # "pending"
  /\ IF done = "err"
     THEN wsPc' = "sendingError" /\ UNCHANGED <<sending, eventChannelOpen, why>>
     ELSE LeaveLoop("rdpDone")
  /\ UNCHANGED <<rdp, inputChannel, eventChannel, done, handed, reported, web>>

ErrorSent ==
  /\ wsPc = "sendingError"
  /\ InFlight < WireCapacity
  /\ reported' = TRUE
  /\ LeaveLoop("rdpDone")
  /\ UNCHANGED <<rdp, inputChannel, eventChannel, done, handed, web>>

ErrorSendFails ==
  /\ wsPc = "sendingError"
  /\ browser = "gone"
  /\ LeaveLoop("rdpDone")
  /\ UNCHANGED <<rdp, inputChannel, eventChannel, done, handed, reported, web>>

\* The drops at the end of ws_session: input_tx, then event_rx and the rest.
DropInputTx ==
  /\ wsPc = "dropInput"
  /\ wsPc' = "dropEvent"
  /\ inputTxOpen' = FALSE
  /\ UNCHANGED <<rdp, inputQ, inputRxOpen, eventChannel, done, sending,
                 eventChannelOpen, why, handed, reported, web>>

DropEventRx ==
  /\ wsPc = "dropEvent"
  /\ wsPc' = "ended"
  /\ eventRxOpen' = FALSE
  /\ eventQ' = <<>>
  /\ UNCHANGED <<rdp, inputChannel, eventTxOpen, produced, done, sending,
                 eventChannelOpen, why, handed, reported, web>>

WsNext ==
  \/ RecvBrowser \/ RecvEvent \/ EventChannelClosed \/ RecvDone
  \/ Sent \/ SendFails \/ ErrorSent \/ ErrorSendFails
  \/ DropInputTx \/ DropEventRx

-----------------------------------------------------------------------------
(* Browser. *)

Type ==
  /\ browser = "here"
  /\ typed < MaxInputs
  /\ typed' = typed + 1
  /\ toGateway' = Append(toGateway, Input(typed + 1))
  /\ UNCHANGED <<rdp, inputChannel, eventChannel, done, ws, browser, received, junk>>

SendJunk ==
  /\ browser = "here"
  /\ junk < MaxJunk
  /\ junk' = junk + 1
  /\ toGateway' = Append(toGateway, Junk)
  /\ UNCHANGED <<rdp, inputChannel, eventChannel, done, ws, browser, received, typed>>

Read ==
  /\ browser = "here"
  /\ InFlight > 0
  /\ received' = received + 1
  /\ UNCHANGED <<rdp, inputChannel, eventChannel, done, ws, browser, toGateway, typed, junk>>

\* The browser closes the WebSocket, or is lost with the messages that are
\* on their way.
Leave ==
  /\ browser = "here"
  /\ browser' = "gone"
  /\ \E n \in 0 .. Len(toGateway) :
       toGateway' = Append(SubSeq(toGateway, 1, n), CloseMessage)
  /\ UNCHANGED <<rdp, inputChannel, eventChannel, done, ws, received, typed, junk>>

WebNext == Type \/ SendJunk \/ Read \/ Leave

Ended == rdpPc = "ended" /\ wsPc = "ended"

Next == RdpNext \/ WsNext \/ WebNext

Spec == Init /\ [][Next]_vars

-----------------------------------------------------------------------------
(* Fairness.  The RDP thread runs; connecting is bounded by the timeouts of  *)
(* run(), and a write to the server completes or fails.  A branch of a       *)
(* select! that is ready again and again is taken, as its choice is random.  *)
(* The browser reads what it is sent, or leaves.                             *)

RdpProgress ==
  \/ Connecting \/ TcpConnected \/ Connected \/ ConnectFails
  \/ ProcessReturns \/ ProcessFails
  \/ HandleOutput \/ Terminate \/ WriteFails \/ OutputsDone
  \/ DropEventTx \/ DropInputRx \/ SendDone

WsProgress ==
  Sent \/ SendFails \/ ErrorSent \/ ErrorSendFails \/ DropInputTx \/ DropEventRx

Fairness ==
  /\ WF_vars(RdpProgress)
  /\ SF_vars(RecvInput)
  /\ SF_vars(InputClosed)
  /\ WF_vars(WsProgress)
  /\ SF_vars(RecvBrowser)
  /\ SF_vars(RecvEvent)
  /\ SF_vars(RecvDone)
  /\ WF_vars(Read)

FairSpec == Spec /\ Fairness

-----------------------------------------------------------------------------
(* Properties. *)

Count(n) == [i \in 1 .. n |-> i]

InLoop == wsPc \in {"select", "sending", "sendingError"}

RdpOK ==
  /\ rdpPc \in Running \cup {"dropEvent", "dropInput", "sendDone", "ended"}
  /\ result \in {"none", "ok", "err", "panic"}
  /\ outputs \in 0 .. MaxOutputs
  /\ applied \in Seq(Nat)

ChannelsOK ==
  /\ inputQ \in Seq(Nat)
  /\ inputTxOpen \in BOOLEAN /\ inputRxOpen \in BOOLEAN
  /\ eventQ \in Seq(Nat)
  /\ eventTxOpen \in BOOLEAN /\ eventRxOpen \in BOOLEAN
  /\ produced \in Nat
  /\ done \in {"pending", "ok", "err", "panic"}

WsOK ==
  /\ wsPc \in {"select", "sending", "sendingError", "dropInput", "dropEvent", "ended"}
  /\ sending \in Seq(Nat)
  /\ eventChannelOpen \in BOOLEAN
  /\ why \in {"none", "inputRefused", "browserClosed", "writeFailed", "rdpDone"}
  /\ handed \in Seq(Nat)
  /\ reported \in BOOLEAN

Messages == [type : {"input", "junk", "close"}, n : Nat]

WebOK ==
  /\ browser \in {"here", "gone"}
  /\ received \in Nat
  /\ toGateway \in Seq(Messages)
  /\ typed \in 0 .. MaxInputs
  /\ junk \in 0 .. MaxJunk

\* One message at most is being sent, and the wire holds no more than it has
\* room for.
WireOK == Len(sending) <= 1 /\ InFlight \in 0 .. WireCapacity

\* Every variable has a value its code counterpart can have, and what a slow
\* browser does not read waits in the event channel, as each send is awaited.
SessionTypeOK == RdpOK /\ ChannelsOK /\ WsOK /\ WebOK /\ WireOK

\* No event is lost, repeated or overtaken while the session's loop runs:
\* what the WebSocket accepted, the event being sent and the queue are all
\* the events the RDP thread sent, in the order of sending.
EventsConserved == InLoop => handed \o sending \o eventQ = Count(produced)

\* After the loop, too, the WebSocket has accepted the first so many events,
\* without a gap: the end of a session cuts its tail off and nothing else.
EventsFormPrefix ==
  handed = Count(Len(handed)) /\ Len(handed) <= produced

\* The session fails silently only to a browser that left, and to one whose
\* input met the dropped input channel before the result was read.
FailureReported ==
  wsPc = "ended" /\ done = "err" /\ browser = "here" =>
    reported \/ why = "inputRefused"

\* The browser is told of an error only when run() failed.
ErrorIsReal == reported => result = "err" /\ rdpPc = "ended"

\* Inputs reach the active stage in the order the browser sent them.
InputsFormPrefix ==
  applied = Count(Len(applied)) /\ Len(applied) <= typed

\* When the browser leaves, the session ends on both sides, in whatever phase
\* of connecting, serving or sending it finds them.
LeavingEndsSession == browser = "gone" ~> Ended

\* When the RDP thread ends, so does the WebSocket task.
RdpEndEndsSession == rdpPc = "ended" ~> wsPc = "ended"

\* The session is a relay of events: in order, without loss, and in the end
\* all of them, until its loop ends or the result of run() is there to be read.
Events == INSTANCE Pipe WITH
  put <- produced, got <- handed, broken <- ~InLoop \/ done # "pending"
EventsRelayed == Events!PipeSpec

\* And a relay of inputs, from the browser to the active stage, until one of
\* browser, loop and RDP thread is at its end.
Inputs == INSTANCE Pipe WITH
  put <- typed, got <- applied,
  broken <- browser = "gone" \/ ~InLoop \/ ~inputRxOpen
InputsRelayed == Inputs!PipeSpec
=============================================================================
