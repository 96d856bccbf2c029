------------------------------- MODULE Input -------------------------------
(***************************************************************************)
(* The way of an input: the page's event handlers (src/web/app.js), the    *)
(* messages they send, and translate_input with its last_pointer           *)
(* (src/src/rdp.rs), which turns messages into fast-path events for the    *)
(* desktop.  The messages pass in order (InputsRelayed of Session), so     *)
(* that one queue stands for WebSocket and input channel together.         *)
(*                                                                         *)
(* The browser fires pointerdown for the first button of a chord and       *)
(* pointerup for the last one; the buttons between fire pointermove.  It   *)
(* may also cancel a pointer, for which the page has no handler.           *)
(***************************************************************************)
EXTENDS Integers, Sequences, SequencesExt, Keymap

CONSTANTS
  Codes,        \* key codes that the keyboard sends
  Buttons,      \* mouse buttons as event.button numbers them
  Points,       \* positions that remotePoint returns, also outside the canvas
  WheelDeltas,  \* pairs <<deltaX, deltaY>>
  Nowhere,      \* no position
  Center,       \* the middle of the desktop, where last_pointer begins
  MaxU16,       \* largest value of a u16 coordinate
  MaxEvents     \* bound: events of the page

ASSUME PointsAssumption == Points \subseteq Int \X Int /\ Nowhere \notin Points

ASSUME LimitsAssumption ==
  MaxU16 \in Nat /\ MaxEvents \in Nat /\ Center \in (0 .. MaxU16) \X (0 .. MaxU16)

VARIABLES
  open,              \* the WebSocket is open
  pendingPointer,    \* the position to send in the next animation frame
  pointerAnimation,  \* whether an animation frame is requested
  pressedKeys,       \* codes of the keys pressed, a JavaScript Set in its order
  wire,              \* messages sent and not yet taken by the RDP thread
  lastPointer,       \* last_pointer
  desktopButtons,    \* buttons that are down on the desktop
  desktopKeys,       \* scancodes that are down on the desktop
  received,          \* button and wheel events that the desktop received
  at,                \* where the user's pointer is
  held,              \* mouse buttons the user holds
  events,            \* number of events so far
  made,              \* button and wheel events of the user that the page hears of
  early,             \* an input was dropped as the WebSocket was not open yet
  missed,            \* a button went up or down without pointerup or pointerdown
  overtaken          \* the pending position is older than the last one sent

page == <<open, pendingPointer, pointerAnimation, pressedKeys>>
pointer == <<pendingPointer, pointerAnimation>>
gateway == <<lastPointer, desktopButtons, desktopKeys, received>>
user == <<at, held>>
ghosts == <<made, missed, overtaken>>
vars == <<open, pendingPointer, pointerAnimation, pressedKeys, wire, lastPointer,
          desktopButtons, desktopKeys, received, at, held, events, made, early,
          missed, overtaken>>

Init ==
  /\ open \in BOOLEAN
  /\ pendingPointer = Nowhere
  /\ pointerAnimation = FALSE
  /\ pressedKeys = <<>>
  /\ wire = <<>>
  /\ lastPointer = Center
  /\ desktopButtons = {}
  /\ desktopKeys = {}
  /\ received = <<>>
  /\ at = Nowhere
  /\ held = {}
  /\ events = 0
  /\ made = <<>>
  /\ early = FALSE
  /\ missed = FALSE
  /\ overtaken = FALSE

-----------------------------------------------------------------------------
(* The page. *)

Open == ~open /\ open' = TRUE
        /\ UNCHANGED <<pointer, pressedKeys, wire, gateway, user, events, ghosts, early>>

\* send(): a message is dropped unless the WebSocket is open.
Send(messages) ==
  /\ wire' = IF open THEN wire \o messages ELSE wire
  /\ early' = (early \/ ~open)

MouseMove(p) == [type |-> "mouseMove", at |-> p]
ButtonName(b) == IF b \in 0 .. 2 THEN <<"left", "middle", "right">>[b + 1] ELSE "left"
MouseButton(b, pressed) ==
  [type |-> "mouseButton", button |-> ButtonName(b), pressed |-> pressed]
Key(code, pressed) == [type |-> "key", code |-> code, pressed |-> pressed]
Wheel(d) == [type |-> "wheel", dx |-> d[1], dy |-> d[2]]

Event == events < MaxEvents /\ events' = events + 1

\* What the user did reaches the desktop only if it was sent.
Make(what) == made' = IF open THEN made \o what ELSE made

\* remotePoint, for a user who points at p
PointAt(p) == p \in Points /\ at' = p

\* Slip: the frame sends the position of the event that requested it.
PointerMoveKeepingFirst ==
  /\ pendingPointer' = IF pointerAnimation THEN pendingPointer ELSE at'
  /\ pointerAnimation' = TRUE
  /\ overtaken' = FALSE

\* pointermove
PointerMove ==
  /\ pendingPointer' = at'
  /\ pointerAnimation' = TRUE
  /\ overtaken' = FALSE

Move(p) ==
  /\ Event
  /\ PointAt(p)
  /\ PointerMove
  /\ UNCHANGED <<open, pressedKeys, wire, gateway, held, made, early, missed>>

\* Slip: the position is left to the next animation frame.
PointerButtonAlone(b, pressed) ==
  /\ Send(<<MouseButton(b, pressed)>>)
  /\ pendingPointer' = at'
  /\ pointerAnimation' = TRUE

\* Slip: without setPointerCapture a release left of the canvas is not heard.
PointerButtonUncaptured(b, pressed) ==
  /\ IF at'[1] < 0 /\ ~pressed THEN UNCHANGED <<wire, early>>
     ELSE Send(<<MouseMove(at'), MouseButton(b, pressed)>>)
  /\ UNCHANGED pointer

\* pointerdown, pointerup: the position first, then the button
PointerButton(b, pressed) ==
  /\ Send(<<MouseMove(at'), MouseButton(b, pressed)>>)
  /\ UNCHANGED pointer

\* Slip: only the lower limit
ClampBelow(p) == LET clamp(v) == IF v < 0 THEN 0 ELSE v IN <<clamp(p[1]), clamp(p[2])>>

\* clamp_u16 of both coordinates
Clamp(p) == LET clamp(v) == IF v < 0 THEN 0 ELSE IF v > MaxU16 THEN MaxU16 ELSE v
            IN  <<clamp(p[1]), clamp(p[2])>>

ButtonEvent(name, pressed, p) ==
  [type |-> "button", button |-> name, pressed |-> pressed, at |-> p]

\* Button b goes down or up while the pointer is at p.
Button(b, p, pressed) ==
  /\ Event
  /\ PointAt(p)
  /\ (b \in held) = ~pressed
  /\ held' = IF pressed THEN held \cup {b} ELSE held \ {b}
  /\ \/ /\ held \ {b} = {}
        /\ PointerButton(b, pressed)
        /\ overtaken' = pointerAnimation'
        /\ Make(<<ButtonEvent(ButtonName(b), pressed, Clamp(p))>>)
        /\ UNCHANGED missed
     \/ /\ held \ {b} # {}
        /\ PointerMove
        /\ missed' = TRUE
        /\ UNCHANGED <<wire, early, made>>
  /\ UNCHANGED <<open, pressedKeys, gateway>>

\* pointercancel: the browser takes the pointer away.
Cancel ==
  /\ Event
  /\ held # {}
  /\ held' = {}
  /\ missed' = TRUE
  /\ UNCHANGED <<page, wire, gateway, at, made, early, overtaken>>

\* The animation frame that pointermove requested
Frame ==
  /\ pointerAnimation
  /\ pointerAnimation' = FALSE
  /\ Send(<<MouseMove(pendingPointer)>>)
  /\ UNCHANGED <<open, pendingPointer, pressedKeys, gateway, user, events, ghosts>>

\* translate_input of a wheel message: a notch per axis that moved, the
\* vertical one first
WheelEvents(m, p) ==
  LET notch(axis, units) == [type |-> "wheel", axis |-> axis, units |-> units, at |-> p]
  IN  (IF m.dy = 0 THEN <<>> ELSE <<notch("vertical", IF m.dy > 0 THEN -120 ELSE 120)>>)
      \o (IF m.dx = 0 THEN <<>> ELSE <<notch("horizontal", IF m.dx > 0 THEN 120 ELSE -120)>>)

\* wheel: sent without a position.  Where the user turns the wheel is known to
\* the desktop if every position before was sent and is the last one sent.
TurnWheel(d) ==
  /\ Event
  /\ Send(<<Wheel(d)>>)
  /\ Make(WheelEvents(Wheel(d), IF at = Nowhere \/ pointerAnimation \/ overtaken \/ early
                                THEN Nowhere ELSE Clamp(at)))
  /\ UNCHANGED <<page, gateway, user, missed, overtaken>>

\* keydown, but for repetitions, which are not sent
KeyDown(code) ==
  /\ Event
  /\ pressedKeys' = IF Contains(pressedKeys, code) THEN pressedKeys
                    ELSE Append(pressedKeys, code)
  /\ Send(<<Key(code, TRUE)>>)
  /\ UNCHANGED <<open, pointer, gateway, user, ghosts>>

\* keyup, also of a key that went down elsewhere
KeyUp(code) ==
  /\ Event
  /\ pressedKeys' = RemoveFirst(pressedKeys, code)
  /\ Send(<<Key(code, FALSE)>>)
  /\ UNCHANGED <<open, pointer, gateway, user, ghosts>>

\* Slip: the keys are forgotten but not released.
BlurForgetting ==
  /\ Event
  /\ pressedKeys' = <<>>
  /\ UNCHANGED <<open, pointer, wire, gateway, user, ghosts, early>>

\* blur: all keys that are down are released.
Blur ==
  /\ Event
  /\ pressedKeys' = <<>>
  /\ IF pressedKeys = <<>>
     THEN UNCHANGED <<wire, early>>
     ELSE Send([i \in DOMAIN pressedKeys |-> Key(pressedKeys[i], FALSE)])
  /\ UNCHANGED <<open, pointer, gateway, user, ghosts>>

-----------------------------------------------------------------------------
(* The RDP thread: translate_input, and what its events do to the desktop. *)

Take(type) ==
  /\ wire # <<>>
  /\ Head(wire).type = type
  /\ wire' = Tail(wire)
  /\ UNCHANGED <<page, user, events, ghosts, early>>

ApplyMouseMove ==
  /\ Take("mouseMove")
  /\ lastPointer' = Clamp(Head(wire).at)
  /\ UNCHANGED <<desktopButtons, desktopKeys, received>>

ApplyMouseButton ==
  LET m == Head(wire)
  IN  /\ Take("mouseButton")
      /\ desktopButtons' = IF m.pressed THEN desktopButtons \cup {m.button}
                                        ELSE desktopButtons \ {m.button}
      /\ received' = Append(received, ButtonEvent(m.button, m.pressed, lastPointer))
      /\ UNCHANGED <<lastPointer, desktopKeys>>

ApplyWheel ==
  /\ Take("wheel")
  /\ received' = received \o WheelEvents(Head(wire), lastPointer)
  /\ UNCHANGED <<lastPointer, desktopButtons, desktopKeys>>

\* An unmapped key yields no event.
ApplyKey ==
  LET m == Head(wire)
      keys == IF m.code \in MappedCodes THEN {scancode[m.code]} ELSE {}
  IN  /\ Take("key")
      /\ desktopKeys' = IF m.pressed THEN desktopKeys \cup keys ELSE desktopKeys \ keys
      /\ UNCHANGED <<lastPointer, desktopButtons, received>>

Apply == ApplyMouseMove \/ ApplyMouseButton \/ ApplyWheel \/ ApplyKey

Next ==
  \/ Open
  \/ \E p \in Points :
       \/ Move(p)
       \/ \E b \in Buttons, pressed \in BOOLEAN : Button(b, p, pressed)
  \/ Cancel
  \/ Frame
  \/ \E d \in WheelDeltas : TurnWheel(d)
  \/ \E code \in Codes : KeyDown(code) \/ KeyUp(code)
  \/ Blur
  \/ Apply

Spec == Init /\ [][Next]_vars

\* The page is visible, so that animation frames run, and the relay delivers.
Fairness == WF_vars(Frame) /\ WF_vars(Apply)

FairSpec == Spec /\ Fairness

-----------------------------------------------------------------------------
(* Properties. *)

Positions == Points \cup {Nowhere}
U16 == 0 .. MaxU16

\* Every variable has values of its type; in particular no coordinate that the
\* desktop is told exceeds the u16 of a mouse PDU.
InputTypeOK ==
  /\ open \in BOOLEAN /\ pointerAnimation \in BOOLEAN
  /\ pendingPointer \in Positions /\ at \in Positions
  /\ pointerAnimation => pendingPointer \in Points
  /\ pressedKeys \in Seq(Codes) /\ held \in SUBSET Buttons
  /\ lastPointer \in U16 \X U16
  /\ desktopButtons \in SUBSET {"left", "middle", "right"}
  /\ desktopKeys \in SUBSET Range(scancode)
  /\ events \in 0 .. MaxEvents
  /\ early \in BOOLEAN /\ missed \in BOOLEAN /\ overtaken \in BOOLEAN

\* The desktop gets the button and wheel events that the user made after the
\* WebSocket opened, in order, and each at the place where the user's pointer
\* was, although positions travel in messages of their own and some of them
\* wait for an animation frame.  A wheel event carries no position: its place
\* is exact only if no position waits or was overtaken.  Buttons pressed or
\* released in a chord and cancelled pointers are not in `made', as the page
\* hears nothing of them.
ActionsWhereMade ==
  /\ Len(received) <= Len(made)
  /\ \A i \in DOMAIN received :
       \/ received[i] = made[i]
       \/ made[i].at = Nowhere /\ received[i] = [made[i] EXCEPT !.at = received[i].at]

\* Once all messages are applied the desktop's pointer is where the user's is,
\* unless a position still waits for its frame, or was sent after a newer one
\* of a button event: pointerdown and pointerup leave an older position pending.
PointerAgrees ==
  wire = <<>> /\ ~pointerAnimation /\ ~overtaken /\ ~early /\ at # Nowhere =>
    lastPointer = Clamp(at)

\* Once all messages are applied the desktop's buttons are the user's, unless
\* one of them went up or down in a chord or was cancelled: the page hears
\* nothing of it, and a button may stay down on the desktop for ever.
ButtonsAgree ==
  wire = <<>> /\ ~missed /\ ~early => desktopButtons = {ButtonName(b) : b \in held}

\* Once all messages are applied the keys that are down on the desktop are
\* those that the page would release on blur, one for one, so that no key is
\* stuck; and releasing a key never releases another one, as no two keys of the
\* whole table share a scancode.
KeysAgree ==
  LET pressed == {scancode[c] : c \in Range(pressedKeys) \cap MappedCodes}
  IN  wire = <<>> =>
        /\ IsInjective(scancode)
        /\ desktopKeys \subseteq pressed
        /\ ~early => desktopKeys = pressed

\* The position of the latest pointermove reaches the desktop, unless the
\* pointer goes elsewhere.
MovedTo(p) == open /\ pointerAnimation /\ ~overtaken /\ at = p
PointerFollows == \A p \in Points : MovedTo(p) ~> (lastPointer = Clamp(p) \/ at # p)
=============================================================================
