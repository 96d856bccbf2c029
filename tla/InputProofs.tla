----------------------------- MODULE InputProofs -----------------------------
(***************************************************************************)
(* Proofs about Input: what the desktop is told agrees with what the user  *)
(* did, for any number of events, keys, buttons and positions.             *)
(***************************************************************************)
EXTENDS Input, SequenceTheorems, TLAPS

-----------------------------------------------------------------------------
(* The key map: runs of consecutive scancodes that do not overlap. *)

\* A key of a run of n codes: its scancode says which of them it is.
InRun(e, first, extended, n, codes) ==
  \E v \in first .. first + n - 1 :
    e.scancode = <<v, extended>> /\ e.code = codes[v - first + 1]

LEMMA KeysInRun ==
  ASSUME NEW first \in Nat, NEW extended, NEW n \in Nat, NEW codes, DOMAIN codes = 1 .. n,
         NEW e \in Keys(first, extended, codes)
  PROVE  InRun(e, first, extended, n, codes)
<1>1. PICK i \in 1 .. n : e = [code |-> codes[i], scancode |-> <<first + i - 1, extended>>]
  BY DEF Keys
<1>2. /\ first + i - 1 \in first .. first + n - 1
      /\ (first + i - 1) - first + 1 = i
  OBVIOUS
<1>3. e.scancode = <<first + i - 1, extended>> /\ e.code = codes[i]
  BY <1>1
<1> QED
  BY <1>2, <1>3 DEF InRun

Zone(v, x, first, extended, n) == v \in first .. first + n - 1 /\ x = extended

At(e, v, x) == e.scancode[1] = v /\ e.scancode[2] = x

SameCode(e, f) == e.scancode = f.scancode => e.code = f.code

\* The scancode of a key tells its run, and its place in it.
LEMMA ScancodeInRun ==
  ASSUME NEW first \in Nat, NEW extended, NEW n \in Nat, NEW codes, NEW e,
         InRun(e, first, extended, n, codes)
  PROVE  Zone(e.scancode[1], e.scancode[2], first, extended, n)
  BY DEF InRun, Zone

LEMMA CodeInRun ==
  ASSUME NEW first \in Nat, NEW extended, NEW n \in Nat, NEW codes, NEW e, NEW f,
         InRun(e, first, extended, n, codes), InRun(f, first, extended, n, codes)
  PROVE  SameCode(e, f)
  BY DEF InRun, SameCode

Run0(e) == InRun(e, 1, FALSE, 83, MainKeys)

Run1(e) == InRun(e, 87, FALSE, 2, <<"F11", "F12">>)

Run2(e) == InRun(e, 28, TRUE, 2, <<"NumpadEnter", "ControlRight">>)

Run3(e) == InRun(e, 53, TRUE, 1, <<"NumpadDivide">>)

Run4(e) == InRun(e, 56, TRUE, 1, <<"AltRight">>)

Run5(e) == InRun(e, 71, TRUE, 3, <<"Home", "ArrowUp", "PageUp">>)

Run6(e) == InRun(e, 75, TRUE, 1, <<"ArrowLeft">>)

Run7(e) == InRun(e, 77, TRUE, 1, <<"ArrowRight">>)

Run8(e) == InRun(e, 79, TRUE, 5, <<"End", "ArrowDown", "PageDown", "Insert", "Delete">>)

Run9(e) == InRun(e, 91, TRUE, 3, <<"MetaLeft", "MetaRight", "ContextMenu">>)

LEMMA EntryInRun ==
  ASSUME NEW e \in Entries
  PROVE  Run0(e) \/ Run1(e) \/ Run2(e) \/ Run3(e) \/ Run4(e) \/ Run5(e) \/ Run6(e) \/ Run7(e) \/ Run8(e) \/ Run9(e)
<1>1. CASE e \in Keys(1, FALSE, MainKeys)
  <2>1. DOMAIN MainKeys = 1 .. 83
    BY DEF MainKeys
  <2> QED
    BY <1>1, <2>1, KeysInRun DEF Run0
<1>2. CASE e \in Keys(87, FALSE, <<"F11", "F12">>)
  <2>1. DOMAIN <<"F11", "F12">> = 1 .. 2
    BY DEF MainKeys
  <2> QED
    BY <1>2, <2>1, KeysInRun DEF Run1
<1>3. CASE e \in Keys(28, TRUE, <<"NumpadEnter", "ControlRight">>)
  <2>1. DOMAIN <<"NumpadEnter", "ControlRight">> = 1 .. 2
    BY DEF MainKeys
  <2> QED
    BY <1>3, <2>1, KeysInRun DEF Run2
<1>4. CASE e \in Keys(53, TRUE, <<"NumpadDivide">>)
  <2>1. DOMAIN <<"NumpadDivide">> = 1 .. 1
    BY DEF MainKeys
  <2> QED
    BY <1>4, <2>1, KeysInRun DEF Run3
<1>5. CASE e \in Keys(56, TRUE, <<"AltRight">>)
  <2>1. DOMAIN <<"AltRight">> = 1 .. 1
    BY DEF MainKeys
  <2> QED
    BY <1>5, <2>1, KeysInRun DEF Run4
<1>6. CASE e \in Keys(71, TRUE, <<"Home", "ArrowUp", "PageUp">>)
  <2>1. DOMAIN <<"Home", "ArrowUp", "PageUp">> = 1 .. 3
    BY DEF MainKeys
  <2> QED
    BY <1>6, <2>1, KeysInRun DEF Run5
<1>7. CASE e \in Keys(75, TRUE, <<"ArrowLeft">>)
  <2>1. DOMAIN <<"ArrowLeft">> = 1 .. 1
    BY DEF MainKeys
  <2> QED
    BY <1>7, <2>1, KeysInRun DEF Run6
<1>8. CASE e \in Keys(77, TRUE, <<"ArrowRight">>)
  <2>1. DOMAIN <<"ArrowRight">> = 1 .. 1
    BY DEF MainKeys
  <2> QED
    BY <1>8, <2>1, KeysInRun DEF Run7
<1>9. CASE e \in Keys(79, TRUE, <<"End", "ArrowDown", "PageDown", "Insert", "Delete">>)
  <2>1. DOMAIN <<"End", "ArrowDown", "PageDown", "Insert", "Delete">> = 1 .. 5
    BY DEF MainKeys
  <2> QED
    BY <1>9, <2>1, KeysInRun DEF Run8
<1>10. CASE e \in Keys(91, TRUE, <<"MetaLeft", "MetaRight", "ContextMenu">>)
  <2>1. DOMAIN <<"MetaLeft", "MetaRight", "ContextMenu">> = 1 .. 3
    BY DEF MainKeys
  <2> QED
    BY <1>10, <2>1, KeysInRun DEF Run9
<1> QED
  BY <1>1, <1>2, <1>3, <1>4, <1>5, <1>6, <1>7, <1>8, <1>9, <1>10 DEF Entries

RunZones(e, v, x) ==
  /\ Run0(e) => Zone(v, x, 1, FALSE, 83)
  /\ Run1(e) => Zone(v, x, 87, FALSE, 2)
  /\ Run2(e) => Zone(v, x, 28, TRUE, 2)
  /\ Run3(e) => Zone(v, x, 53, TRUE, 1)
  /\ Run4(e) => Zone(v, x, 56, TRUE, 1)
  /\ Run5(e) => Zone(v, x, 71, TRUE, 3)
  /\ Run6(e) => Zone(v, x, 75, TRUE, 1)
  /\ Run7(e) => Zone(v, x, 77, TRUE, 1)
  /\ Run8(e) => Zone(v, x, 79, TRUE, 5)
  /\ Run9(e) => Zone(v, x, 91, TRUE, 3)

LEMMA KeyInZone ==
  ASSUME NEW e, NEW v, NEW x, At(e, v, x)
  PROVE  RunZones(e, v, x)
<1>0. Run0(e) => Zone(v, x, 1, FALSE, 83)
  BY ScancodeInRun DEF At, Run0
<1>1. Run1(e) => Zone(v, x, 87, FALSE, 2)
  BY ScancodeInRun DEF At, Run1
<1>2. Run2(e) => Zone(v, x, 28, TRUE, 2)
  BY ScancodeInRun DEF At, Run2
<1>3. Run3(e) => Zone(v, x, 53, TRUE, 1)
  BY ScancodeInRun DEF At, Run3
<1>4. Run4(e) => Zone(v, x, 56, TRUE, 1)
  BY ScancodeInRun DEF At, Run4
<1>5. Run5(e) => Zone(v, x, 71, TRUE, 3)
  BY ScancodeInRun DEF At, Run5
<1>6. Run6(e) => Zone(v, x, 75, TRUE, 1)
  BY ScancodeInRun DEF At, Run6
<1>7. Run7(e) => Zone(v, x, 77, TRUE, 1)
  BY ScancodeInRun DEF At, Run7
<1>8. Run8(e) => Zone(v, x, 79, TRUE, 5)
  BY ScancodeInRun DEF At, Run8
<1>9. Run9(e) => Zone(v, x, 91, TRUE, 3)
  BY ScancodeInRun DEF At, Run9
<1> QED
  BY <1>0, <1>1, <1>2, <1>3, <1>4, <1>5, <1>6, <1>7, <1>8, <1>9 DEF RunZones

LEMMA SameRun ==
  ASSUME NEW e, NEW f
  PROVE  /\ Run0(e) /\ Run0(f) => SameCode(e, f)
         /\ Run1(e) /\ Run1(f) => SameCode(e, f)
         /\ Run2(e) /\ Run2(f) => SameCode(e, f)
         /\ Run3(e) /\ Run3(f) => SameCode(e, f)
         /\ Run4(e) /\ Run4(f) => SameCode(e, f)
         /\ Run5(e) /\ Run5(f) => SameCode(e, f)
         /\ Run6(e) /\ Run6(f) => SameCode(e, f)
         /\ Run7(e) /\ Run7(f) => SameCode(e, f)
         /\ Run8(e) /\ Run8(f) => SameCode(e, f)
         /\ Run9(e) /\ Run9(f) => SameCode(e, f)
<1>0. Run0(e) /\ Run0(f) => SameCode(e, f)
  BY CodeInRun DEF Run0
<1>1. Run1(e) /\ Run1(f) => SameCode(e, f)
  BY CodeInRun DEF Run1
<1>2. Run2(e) /\ Run2(f) => SameCode(e, f)
  BY CodeInRun DEF Run2
<1>3. Run3(e) /\ Run3(f) => SameCode(e, f)
  BY CodeInRun DEF Run3
<1>4. Run4(e) /\ Run4(f) => SameCode(e, f)
  BY CodeInRun DEF Run4
<1>5. Run5(e) /\ Run5(f) => SameCode(e, f)
  BY CodeInRun DEF Run5
<1>6. Run6(e) /\ Run6(f) => SameCode(e, f)
  BY CodeInRun DEF Run6
<1>7. Run7(e) /\ Run7(f) => SameCode(e, f)
  BY CodeInRun DEF Run7
<1>8. Run8(e) /\ Run8(f) => SameCode(e, f)
  BY CodeInRun DEF Run8
<1>9. Run9(e) /\ Run9(f) => SameCode(e, f)
  BY CodeInRun DEF Run9
<1> QED
  BY <1>0, <1>1, <1>2, <1>3, <1>4, <1>5, <1>6, <1>7, <1>8, <1>9

\* No two keys of the table share a scancode.
LEMMA ScancodesDiffer == IsInjective(scancode)
<1>1. ASSUME NEW e \in Entries, NEW f \in Entries, e.scancode = f.scancode
      PROVE  e.code = f.code
  <2>1. PICK v, x : At(e, v, x)
    BY DEF At
  <2>2. At(f, v, x)
    BY <1>1, <2>1 DEF At
  <2>3. RunZones(e, v, x) /\ RunZones(f, v, x)
    BY <2>1, <2>2, KeyInZone
  <2>4. Run0(f) \/ Run1(f) \/ Run2(f) \/ Run3(f) \/ Run4(f)
        \/ Run5(f) \/ Run6(f) \/ Run7(f) \/ Run8(f) \/ Run9(f)
    BY EntryInRun
  <2>5. Run0(e) => Run0(f)
    BY <2>3, <2>4 DEF RunZones, Zone
  <2>6. Run1(e) => Run1(f)
    BY <2>3, <2>4 DEF RunZones, Zone
  <2>7. Run2(e) => Run2(f)
    BY <2>3, <2>4 DEF RunZones, Zone
  <2>8. Run3(e) => Run3(f)
    BY <2>3, <2>4 DEF RunZones, Zone
  <2>9. Run4(e) => Run4(f)
    BY <2>3, <2>4 DEF RunZones, Zone
  <2>10. Run5(e) => Run5(f)
    BY <2>3, <2>4 DEF RunZones, Zone
  <2>11. Run6(e) => Run6(f)
    BY <2>3, <2>4 DEF RunZones, Zone
  <2>12. Run7(e) => Run7(f)
    BY <2>3, <2>4 DEF RunZones, Zone
  <2>13. Run8(e) => Run8(f)
    BY <2>3, <2>4 DEF RunZones, Zone
  <2>14. Run9(e) => Run9(f)
    BY <2>3, <2>4 DEF RunZones, Zone
  <2> QED
    BY <1>1, <2>5, <2>6, <2>7, <2>8, <2>9, <2>10, <2>11, <2>12, <2>13, <2>14,
       SameRun, EntryInRun DEF SameCode
<1>2. ASSUME NEW c \in MappedCodes
      PROVE  \E e \in Entries : e.code = c /\ e.scancode = scancode[c]
  BY DEF MappedCodes, scancode
<1>3. DOMAIN scancode = MappedCodes
  BY DEF scancode
<1> QED
  BY <1>1, <1>2, <1>3 DEF IsInjective

-----------------------------------------------------------------------------
(* The desktop as the messages on the wire will leave it. *)

Names == {"left", "middle", "right"}
Places == (U16 \X U16) \cup {Nowhere}

Deltas == {d[1] : d \in WheelDeltas} \cup {d[2] : d \in WheelDeltas}

Messages ==
  [type : {"mouseMove"}, at : Points]
  \cup [type : {"mouseButton"}, button : Names, pressed : BOOLEAN]
  \cup [type : {"key"}, code : Codes, pressed : BOOLEAN]
  \cup [type : {"wheel"}, dx : Deltas, dy : Deltas]

DesktopEvents ==
  [type : {"button"}, button : Names, pressed : BOOLEAN, at : Places]
  \cup [type : {"wheel"}, axis : {"vertical", "horizontal"}, units : {-120, 120}, at : Places]

Desktops == [pointer : U16 \X U16, buttons : SUBSET Names,
             keys : SUBSET Range(scancode), received : Seq(DesktopEvents)]

Desktop == [pointer |-> lastPointer, buttons |-> desktopButtons,
            keys |-> desktopKeys, received |-> received]

KeysOf(code) == IF code \in MappedCodes THEN {scancode[code]} ELSE {}

\* The desktop g after a message
After(g, m) ==
  [pointer |-> IF m.type = "mouseMove" THEN Clamp(m.at) ELSE g.pointer,
   buttons |-> IF m.type # "mouseButton" THEN g.buttons
               ELSE IF m.pressed THEN g.buttons \cup {m.button} ELSE g.buttons \ {m.button},
   keys |-> IF m.type # "key" THEN g.keys
            ELSE IF m.pressed THEN g.keys \cup KeysOf(m.code) ELSE g.keys \ KeysOf(m.code),
   received |-> IF m.type = "mouseButton"
                THEN Append(g.received, ButtonEvent(m.button, m.pressed, g.pointer))
                ELSE IF m.type = "wheel" THEN g.received \o WheelEvents(m, g.pointer)
                ELSE g.received]

Begins(s, t) == Len(s) <= Len(t) /\ \A i \in 1 .. Len(s) : s[i] = t[i]

\* f lists the desktops that the messages of w lead through, from g on.
Leads(f, w, g) ==
  /\ f \in [0 .. Len(w) -> Desktops]
  /\ f[0] = g
  /\ \A i \in 1 .. Len(w) : f[i] = After(f[i - 1], w[i])
  /\ \A i \in 0 .. Len(w) : Begins(f[i].received, f[Len(w)].received)

\* The messages of w lead the desktop from g to e.
Drains(w, g, e) == \E f : Leads(f, w, g) /\ f[Len(w)] = e

\* u is s with t behind it, n and k their lengths.
Joins(u, s, t, n, k) ==
  /\ n = Len(s) /\ k = Len(t) /\ Len(u) = n + k
  /\ \A i \in 1 .. n + k : u[i] = IF i <= n THEN s[i] ELSE t[i - n]

LEMMA ConcatJoins ==
  ASSUME NEW S, NEW s \in Seq(S), NEW t \in Seq(S)
  PROVE  s \o t \in Seq(S) /\ \E n, k \in Nat : Joins(s \o t, s, t, n, k)
<1>1. PICK n \in Nat, k \in Nat : n = Len(s) /\ k = Len(t)
  BY LenProperties
<1>2. /\ s \o t \in Seq(S)
      /\ Len(s \o t) = n + k
      /\ \A i \in 1 .. n + k : (s \o t)[i] = IF i <= n THEN s[i] ELSE t[i - n]
  BY <1>1, ConcatProperties
<1>3. Joins(s \o t, s, t, n, k)
  BY <1>1, <1>2 DEF Joins
<1> QED
  BY <1>2, <1>3

LEMMA BeginsConcat ==
  ASSUME NEW S, NEW s \in Seq(S), NEW t \in Seq(S)
  PROVE  s \o t \in Seq(S) /\ Begins(s, s \o t)
<1>1. PICK n \in Nat, k \in Nat : Joins(s \o t, s, t, n, k)
  BY ConcatJoins
<1> QED
  BY <1>1, ConcatJoins DEF Begins, Joins

LEMMA BeginsTransitive ==
  ASSUME NEW S, NEW s \in Seq(S), NEW t \in Seq(S), NEW u \in Seq(S),
         Begins(s, t), Begins(t, u)
  PROVE  Begins(s, u)
<1>1. PICK n \in Nat, k \in Nat, l \in Nat : n = Len(s) /\ k = Len(t) /\ l = Len(u)
  BY LenProperties
<1> QED
  BY <1>1 DEF Begins

LEMMA ClampType ==
  ASSUME NEW p \in Points
  PROVE  Clamp(p) \in U16 \X U16
  BY PointsAssumption, LimitsAssumption DEF Clamp, U16

LEMMA WheelEventsType ==
  ASSUME NEW m, NEW p \in Places
  PROVE  /\ WheelEvents(m, p) \in Seq(DesktopEvents)
         /\ Len(WheelEvents(m, p)) \in 0 .. 2
         /\ DOMAIN WheelEvents(m, p) = 1 .. Len(WheelEvents(m, p))
<1>1. ASSUME NEW axis \in {"vertical", "horizontal"}, NEW units \in {-120, 120}
      PROVE  [type |-> "wheel", axis |-> axis, units |-> units, at |-> p] \in DesktopEvents
  BY DEF DesktopEvents
<1> DEFINE vertical ==
             IF m.dy = 0 THEN <<>>
             ELSE <<[type |-> "wheel", axis |-> "vertical",
                     units |-> IF m.dy > 0 THEN -120 ELSE 120, at |-> p]>>
           horizontal ==
             IF m.dx = 0 THEN <<>>
             ELSE <<[type |-> "wheel", axis |-> "horizontal",
                     units |-> IF m.dx > 0 THEN 120 ELSE -120, at |-> p]>>
<1>2. vertical \in Seq(DesktopEvents) /\ Len(vertical) \in 0 .. 1
  BY <1>1
<1>3. horizontal \in Seq(DesktopEvents) /\ Len(horizontal) \in 0 .. 1
  BY <1>1
<1>4. WheelEvents(m, p) = vertical \o horizontal
  BY DEF WheelEvents
<1> HIDE DEF vertical, horizontal
<1> QED
  BY <1>2, <1>3, <1>4, ConcatProperties, LenProperties

LEMMA AfterType ==
  ASSUME NEW g \in Desktops, NEW m \in Messages
  PROVE  After(g, m) \in Desktops /\ Begins(g.received, After(g, m).received)
<1> DEFINE spot == After(g, m).pointer
           buttons == After(g, m).buttons
           keys == After(g, m).keys
           events2 == After(g, m).received
<1>0. g.pointer \in U16 \X U16 /\ g.pointer \in Places /\ g.buttons \in SUBSET Names
      /\ g.keys \in SUBSET Range(scancode) /\ g.received \in Seq(DesktopEvents)
  BY DEF Desktops, Places
<1>1. spot \in U16 \X U16
  BY <1>0, ClampType DEF After, Messages
<1>2. buttons \in SUBSET Names
  BY <1>0 DEF After, Messages
<1>3. keys \in SUBSET Range(scancode)
  <2>1. \A c : KeysOf(c) \in SUBSET Range(scancode)
    BY DEF KeysOf, Range, scancode
  <2> QED
    BY <1>0, <2>1 DEF After
<1>4. events2 \in Seq(DesktopEvents) /\ Begins(g.received, events2)
  <2>1. CASE m.type = "mouseButton"
    <3>1. ButtonEvent(m.button, m.pressed, g.pointer) \in DesktopEvents
      BY <1>0, <2>1 DEF ButtonEvent, DesktopEvents, Messages
    <3>2. events2 = Append(g.received, ButtonEvent(m.button, m.pressed, g.pointer))
      BY <2>1 DEF After
    <3> QED
      BY <1>0, <3>1, <3>2, AppendProperties, LenProperties DEF Begins
  <2>2. CASE m.type = "wheel"
    <3>1. events2 = g.received \o WheelEvents(m, g.pointer)
      BY <2>2 DEF After
    <3> QED
      BY <1>0, <3>1, WheelEventsType, BeginsConcat
  <2>3. CASE m.type # "mouseButton" /\ m.type # "wheel"
    BY <1>0, <2>3, LenProperties DEF After, Begins
  <2> QED
    BY <2>1, <2>2, <2>3
<1>5. After(g, m) = [pointer |-> spot, buttons |-> buttons, keys |-> keys, received |-> events2]
  BY DEF After
<1> HIDE DEF spot, buttons, keys, events2
<1> QED
  BY <1>1, <1>2, <1>3, <1>4, <1>5 DEF Desktops

LEMMA DrainsEmpty ==
  ASSUME NEW g \in Desktops
  PROVE  Drains(<<>>, g, g)
<1> DEFINE f == [i \in 0 .. 0 |-> g]
<1>1. f \in [0 .. 0 -> Desktops] /\ f[0] = g
  OBVIOUS
<1>2. Len(<<>>) = 0 /\ g.received \in Seq(DesktopEvents)
  BY DEF Desktops
<1>3. Begins(g.received, g.received)
  BY <1>2, LenProperties DEF Begins
<1>4. Leads(f, <<>>, g)
  BY <1>1, <1>2, <1>3 DEF Leads
<1> QED
  BY <1>1, <1>2, <1>4 DEF Drains

LEMMA DrainsNothing ==
  ASSUME NEW g, NEW e, Drains(<<>>, g, e)
  PROVE  e = g
  BY DEF Drains, Leads

LEMMA DrainsGrows ==
  ASSUME NEW w \in Seq(Messages), NEW g, NEW e, Drains(w, g, e)
  PROVE  g \in Desktops /\ e \in Desktops /\ Begins(g.received, e.received)
<1>1. PICK n \in Nat : n = Len(w)
  BY LenProperties
<1>2. PICK f : Leads(f, w, g) /\ f[n] = e
  BY <1>1 DEF Drains
<1>3. 0 \in 0 .. n /\ n \in 0 .. n
  OBVIOUS
<1> QED
  BY <1>1, <1>2, <1>3 DEF Leads

\* One message after the other
LEMMA DrainsConcat ==
  ASSUME NEW v \in Seq(Messages), NEW w \in Seq(Messages), NEW g, NEW e, NEW z,
         Drains(v, g, e), Drains(w, e, z)
  PROVE  Drains(v \o w, g, z)
<1>1. PICK n \in Nat, k \in Nat : n = Len(v) /\ k = Len(w)
  BY LenProperties
<1>2. PICK f : Leads(f, v, g) /\ f[n] = e
  BY <1>1 DEF Drains
<1>3. PICK h : Leads(h, w, e) /\ h[k] = z
  BY <1>1 DEF Drains
<1>4. /\ f \in [0 .. n -> Desktops] /\ f[0] = g /\ f[n] = e
      /\ \A i \in 1 .. n : f[i] = After(f[i - 1], v[i])
      /\ \A i \in 0 .. n : Begins(f[i].received, e.received)
  BY <1>1, <1>2 DEF Leads
<1>5. /\ h \in [0 .. k -> Desktops] /\ h[0] = e /\ h[k] = z
      /\ \A i \in 1 .. k : h[i] = After(h[i - 1], w[i])
      /\ \A i \in 0 .. k : Begins(h[i].received, z.received)
  BY <1>1, <1>3 DEF Leads
<1>6. /\ Len(v \o w) = n + k
      /\ \A i \in 1 .. n + k : (v \o w)[i] = IF i <= n THEN v[i] ELSE w[i - n]
  BY <1>1, ConcatProperties
<1> DEFINE both == [i \in 0 .. n + k |-> IF i <= n THEN f[i] ELSE h[i - n]]
<1>7. \A i \in 0 .. n + k : both[i] \in Desktops
  BY <1>4, <1>5
<1>8. /\ DOMAIN both = 0 .. n + k
      /\ \A i \in 0 .. n : both[i] = f[i]
      /\ \A i \in n + 1 .. n + k : both[i] = h[i - n]
  OBVIOUS
<1>9. both \in [0 .. n + k -> Desktops]
  BY <1>7
<1> HIDE DEF both
<1>10. both[0] = g /\ both[n + k] = z
  <2>1. both[0] = g
    BY <1>4, <1>8
  <2>2. CASE k = 0
    BY <1>4, <1>5, <1>8, <2>2
  <2>3. CASE k # 0
    <3>1. n + k \in n + 1 .. n + k /\ (n + k) - n = k
      BY <2>3
    <3>2. both[n + k] = h[(n + k) - n]
      BY <1>8, <3>1, Zenon
    <3> QED
      BY <1>5, <2>1, <3>1, <3>2
  <2> QED
    BY <2>1, <2>2, <2>3
<1>11. ASSUME NEW i \in 1 .. n + k
      PROVE  both[i] = After(both[i - 1], (v \o w)[i])
  <2>1. CASE i <= n
    <3>1. i \in 1 .. n /\ i \in 0 .. n /\ i - 1 \in 0 .. n
      BY <2>1
    <3> QED
      BY <1>4, <1>6, <1>8, <2>1, <3>1
  <2>2. CASE i = n + 1
    <3>1. i - n = 1 /\ 1 \in 1 .. k /\ i \in n + 1 .. n + k /\ n \in 0 .. n /\ i - 1 = n
          /\ ~(i <= n)
      BY <2>2
    <3>2. both[i] = h[1] /\ both[i - 1] = h[0] /\ (v \o w)[i] = w[1]
      BY <1>4, <1>5, <1>6, <1>8, <3>1
    <3> QED
      BY <1>5, <3>1, <3>2
  <2>3. CASE i > n + 1
    <3>1. i - n \in 1 .. k /\ (i - 1) - n = (i - n) - 1 /\ ~(i <= n)
          /\ i \in n + 1 .. n + k /\ i - 1 \in n + 1 .. n + k
      BY <2>3
    <3>2. both[i] = h[i - n] /\ both[i - 1] = h[(i - n) - 1] /\ (v \o w)[i] = w[i - n]
      BY <1>6, <1>8, <3>1
    <3> QED
      BY <1>5, <3>1, <3>2
  <2>4. i <= n \/ i = n + 1 \/ i > n + 1
    OBVIOUS
  <2> QED
    BY <2>1, <2>2, <2>3, <2>4
<1>12. \A d \in Desktops : d.received \in Seq(DesktopEvents)
  BY DEF Desktops
<1>13. ASSUME NEW i \in 0 .. n + k
       PROVE  Begins(both[i].received, z.received)
  <2>1. Begins(e.received, z.received)
    BY <1>5
  <2>2. CASE i <= n
    <3>1. Begins(f[i].received, e.received) /\ f[i] \in Desktops /\ e \in Desktops /\ z \in Desktops
      BY <1>4, <1>5, <2>2
    <3>2. both[i] = f[i]
      BY <1>8, <2>2
    <3> QED
      BY <1>12, <2>1, <3>1, <3>2, BeginsTransitive
  <2>3. CASE i > n
    <3>1. i \in n + 1 .. n + k /\ i - n \in 0 .. k
      BY <2>3
    <3> QED
      BY <1>5, <1>8, <3>1
  <2> QED
    BY <2>2, <2>3
<1>14. Leads(both, v \o w, g) /\ both[Len(v \o w)] = z
  BY <1>6, <1>11, <1>13, <1>9, <1>10 DEF Leads
<1> QED
  BY <1>14 DEF Drains

LEMMA DrainsOne ==
  ASSUME NEW m \in Messages, NEW g \in Desktops
  PROVE  Drains(<<m>>, g, After(g, m))
<1>1. PICK e : e = After(g, m)
  OBVIOUS
<1>2. e \in Desktops /\ Begins(g.received, e.received) /\ Begins(e.received, e.received)
  <2>1. e.received \in Seq(DesktopEvents)
    BY <1>1, AfterType DEF Desktops
  <2> QED
    BY <1>1, <2>1, AfterType, LenProperties DEF Begins
<1> DEFINE f == [i \in 0 .. 1 |-> IF i = 0 THEN g ELSE e]
<1>3. f \in [0 .. 1 -> Desktops] /\ f[0] = g /\ f[1] = e
  BY <1>2
<1>4. Len(<<m>>) = 1 /\ <<m>>[1] = m
  OBVIOUS
<1> HIDE DEF f
<1>5. \A i \in 0 .. 1 : Begins(f[i].received, f[1].received)
  <2>1. \A i \in 0 .. 1 : i = 0 \/ i = 1
    OBVIOUS
  <2> QED
    BY <1>2, <1>3, <2>1
<1>6. \A i \in 1 .. 1 : f[i] = After(f[i - 1], <<m>>[i])
  BY <1>1, <1>3, <1>4
<1>7. Leads(f, <<m>>, g)
  BY <1>3, <1>4, <1>5, <1>6 DEF Leads
<1> QED
  BY <1>1, <1>3, <1>4, <1>7 DEF Drains

\* The message that the desktop takes leads on along the same way.
LEMMA DrainsHead ==
  ASSUME NEW w \in Seq(Messages), w # <<>>, NEW g, NEW e, Drains(w, g, e)
  PROVE  Drains(Tail(w), After(g, Head(w)), e)
<1>1. PICK n \in Nat : n + 1 = Len(w)
  BY LenProperties, EmptySeq
<1>2. PICK f : Leads(f, w, g) /\ f[n + 1] = e
  BY <1>1 DEF Drains
<1>3. /\ f \in [0 .. n + 1 -> Desktops] /\ f[0] = g
      /\ \A i \in 1 .. n + 1 : f[i] = After(f[i - 1], w[i])
      /\ \A i \in 0 .. n + 1 : Begins(f[i].received, f[n + 1].received)
  BY <1>1, <1>2 DEF Leads
<1>4. Len(Tail(w)) = n /\ \A i \in 1 .. n : Tail(w)[i] = w[i + 1]
  BY <1>1, HeadTailProperties
<1>5. Head(w) = w[1]
  OBVIOUS
<1> DEFINE h == [i \in 0 .. n |-> f[i + 1]]
<1>6. h \in [0 .. n -> Desktops]
  BY <1>3
<1>7. h[0] = After(g, Head(w)) /\ h[n] = e
  <2>1. f[1] = After(f[0], w[1])
    BY <1>3
  <2> QED
    BY <1>2, <1>3, <1>5, <2>1
<1>8. ASSUME NEW i \in 1 .. n PROVE h[i] = After(h[i - 1], Tail(w)[i])
  <2>1. i + 1 \in 1 .. n + 1 /\ (i + 1) - 1 = i /\ (i - 1) + 1 = i
    OBVIOUS
  <2>2. h[i] = f[i + 1] /\ h[i - 1] = f[i]
    BY <2>1
  <2> QED
    BY <1>3, <1>4, <2>1, <2>2
<1>9. \A i \in 0 .. n : Begins(h[i].received, h[n].received)
  BY <1>3
<1> HIDE DEF h
<1>10. Leads(h, Tail(w), After(g, Head(w)))
  BY <1>4, <1>6, <1>7, <1>8, <1>9 DEF Leads
<1> QED
  BY <1>4, <1>7, <1>10 DEF Drains

-----------------------------------------------------------------------------
(* The keys that the page holds to be down. *)

Distinct(s) == \A i, j \in 1 .. Len(s) : s[i] = s[j] => i = j

\* The scancodes of the keys in s
Scancodes(s) == {scancode[c] : c \in Range(s) \cap MappedCodes}

LEMMA RangeOfKeys ==
  ASSUME NEW s \in Seq(Codes)
  PROVE  Range(s) = {s[i] : i \in 1 .. Len(s)}
  BY LenProperties DEF Range

\* Deleting a key takes out that key and no other.
LEMMA Deleted ==
  ASSUME NEW s \in Seq(Codes), NEW c, Distinct(s)
  PROVE  /\ RemoveFirst(s, c) \in Seq(Codes)
         /\ Distinct(RemoveFirst(s, c))
         /\ Range(RemoveFirst(s, c)) = Range(s) \ {c}
<1>1. PICK n \in Nat : n = Len(s)
  BY LenProperties
<1>2. \A i \in 1 .. n : s[i] \in Codes
  BY <1>1, ElementOfSeq
<1>3. CASE ~\E i \in 1 .. n : s[i] = c
  BY <1>1, <1>3, RangeOfKeys DEF RemoveFirst
<1>4. CASE \E i \in 1 .. n : s[i] = c
  <2>1. PICK k \in 1 .. n : s[k] = c
    BY <1>4
  <2>2. {i \in 1 .. n : s[i] = c} = {k}
    BY <1>1, <2>1 DEF Distinct
  <2>3. Min({k}) = k
    BY DEF Min
  <2>4. SelectInSeq(s, LAMBDA v : v = c) = k
    BY <1>1, <2>2, <2>3 DEF SelectInSeq
  <2>5. RemoveFirst(s, c) = SubSeq(s, 1, k - 1) \o SubSeq(s, k + 1, n)
    BY <1>1, <2>1, <2>4 DEF RemoveFirst, RemoveAt
  <2>6. PICK a, b : a = SubSeq(s, 1, k - 1) /\ b = SubSeq(s, k + 1, n)
    OBVIOUS
  <2>7. /\ a \in Seq(Codes) /\ Len(a) = k - 1
        /\ \A i \in 1 .. k - 1 : a[i] = s[i]
    BY <1>2, <2>6, SubSeqProperties
  <2>8. /\ b \in Seq(Codes) /\ Len(b) = n - k
        /\ \A i \in 1 .. n - k : b[i] = s[k + i]
    BY <1>2, <2>6, SubSeqProperties
  <2>9. PICK r : r = RemoveFirst(s, c)
    OBVIOUS
  <2>10. /\ r \in Seq(Codes) /\ Len(r) = n - 1
         /\ \A i \in 1 .. n - 1 : r[i] = IF i < k THEN s[i] ELSE s[i + 1]
    <3>1. r = a \o b
      BY <2>5, <2>6, <2>9
    <3>2. a \in Seq(Codes) /\ b \in Seq(Codes)
      BY <2>7, <2>8
    <3>3. PICK x \in Nat, y \in Nat : Joins(r, a, b, x, y)
      BY <3>1, <3>2, ConcatJoins
    <3>4. x = k - 1 /\ y = n - k /\ x + y = n - 1 /\ r \in Seq(Codes)
      BY <2>7, <2>8, <3>1, <3>2, <3>3, ConcatJoins DEF Joins
    <3>5. ASSUME NEW i \in 1 .. n - 1
          PROVE  r[i] = IF i < k THEN s[i] ELSE s[i + 1]
      <4>1. CASE i < k
        BY <2>7, <3>3, <3>4, <4>1 DEF Joins
      <4>2. CASE ~(i < k)
        <5>1. i - x \in 1 .. n - k /\ k + (i - x) = i + 1 /\ ~(i <= x) /\ i \in 1 .. x + y
          BY <3>4, <4>2
        <5>2. r[i] = b[i - x]
          BY <3>3, <5>1 DEF Joins
        <5> QED
          BY <2>8, <4>2, <5>1, <5>2
      <4> QED
        BY <4>1, <4>2
    <3> QED
      BY <3>3, <3>4, <3>5 DEF Joins
  <2>11. Distinct(r)
    BY <1>1, <2>10 DEF Distinct
  <2>12. Range(r) = Range(s) \ {c}
    <3>1. Range(r) = {r[i] : i \in 1 .. n - 1} /\ Range(s) = {s[i] : i \in 1 .. n}
      BY <1>1, <2>10, RangeOfKeys
    <3>2. ASSUME NEW i \in 1 .. n - 1 PROVE r[i] \in {s[j] : j \in 1 .. n} \ {c}
      BY <1>1, <2>1, <2>10 DEF Distinct
    <3>3. ASSUME NEW j \in 1 .. n, s[j] # c PROVE \E i \in 1 .. n - 1 : r[i] = s[j]
      <4>1. CASE j < k
        <5>1. j \in 1 .. n - 1 /\ r[j] = s[j]
          BY <2>10, <4>1
        <5> QED
          BY <5>1
      <4>2. CASE j > k
        <5>1. j - 1 \in 1 .. n - 1 /\ ~(j - 1 < k) /\ (j - 1) + 1 = j
          BY <4>2
        <5>2. r[j - 1] = s[j]
          BY <2>10, <5>1
        <5> QED
          BY <5>1, <5>2
      <4>3. j # k
        BY <2>1, <3>3
      <4> QED
        BY <4>1, <4>2, <4>3
    <3> QED
      BY <3>1, <3>2, <3>3
  <2> QED
    BY <2>9, <2>10, <2>11, <2>12
<1> QED
  BY <1>1, <1>3, <1>4

LEMMA ScancodesDeleted ==
  ASSUME NEW s \in Seq(Codes), NEW c, Distinct(s)
  PROVE  Scancodes(RemoveFirst(s, c)) = Scancodes(s) \ KeysOf(c)
<1>1. Range(RemoveFirst(s, c)) = Range(s) \ {c}
  BY Deleted
<1>2. \A d \in MappedCodes : scancode[d] \in KeysOf(c) <=> d = c
  BY ScancodesDiffer DEF KeysOf, IsInjective, scancode
<1> QED
  BY <1>1, <1>2 DEF Scancodes

LEMMA Added ==
  ASSUME NEW s \in Seq(Codes), NEW c \in Codes, Distinct(s),
         NEW t, t = IF Contains(s, c) THEN s ELSE Append(s, c)
  PROVE  /\ t \in Seq(Codes)
         /\ Distinct(t)
         /\ Scancodes(t) = Scancodes(s) \cup KeysOf(c)
<1>1. PICK n \in Nat : n = Len(s)
  BY LenProperties
<1>2. t \in Seq(Codes) /\ Distinct(t) /\ Range(t) = Range(s) \cup {c}
  <2>1. CASE Contains(s, c)
    BY <1>1, <2>1, RangeOfKeys DEF Contains
  <2>2. CASE ~Contains(s, c)
    <3>1. /\ t \in Seq(Codes) /\ Len(t) = n + 1 /\ t[n + 1] = c
          /\ \A i \in 1 .. n : t[i] = s[i]
      BY <1>1, <2>2, AppendProperties
    <3>2. Distinct(t)
      BY <1>1, <2>2, <3>1 DEF Distinct, Contains
    <3>3. Range(t) = {t[i] : i \in 1 .. n + 1} /\ Range(s) = {s[i] : i \in 1 .. n}
      BY <1>1, <3>1, RangeOfKeys
    <3>4. {t[i] : i \in 1 .. n + 1} = {s[i] : i \in 1 .. n} \cup {c}
      BY <3>1
    <3> QED
      BY <3>1, <3>2, <3>3, <3>4
  <2> QED
    BY <2>1, <2>2
<1> QED
  BY <1>2 DEF Scancodes, KeysOf

-----------------------------------------------------------------------------
(* Types. *)

\* What is on the wire, what was received and what was made have their types.
TypeInv ==
  /\ InputTypeOK
  /\ wire \in Seq(Messages)
  /\ received \in Seq(DesktopEvents)
  /\ made \in Seq(DesktopEvents)

LEMMA ButtonNameType ==
  ASSUME NEW b
  PROVE  ButtonName(b) \in Names
<1>1. CASE b \in 0 .. 2
  <2>1. b = 0 \/ b = 1 \/ b = 2
    BY <1>1
  <2> QED
    BY <2>1 DEF ButtonName, Names
<1>2. CASE b \notin 0 .. 2
  BY <1>2 DEF ButtonName, Names
<1> QED
  BY <1>1, <1>2

LEMMA MessageTypes ==
  /\ \A p \in Points : MouseMove(p) \in Messages
  /\ \A b : \A pressed \in BOOLEAN : MouseButton(b, pressed) \in Messages
  /\ \A code \in Codes, pressed \in BOOLEAN : Key(code, pressed) \in Messages
  /\ \A d \in WheelDeltas : Wheel(d) \in Messages
<1>1. ASSUME NEW d \in WheelDeltas PROVE Wheel(d) \in Messages
  <2>1. d[1] \in Deltas /\ d[2] \in Deltas
    BY DEF Deltas
  <2> QED
    BY <2>1 DEF Wheel, Messages
<1> QED
  BY <1>1, ButtonNameType DEF MouseMove, MouseButton, Key, Messages

\* The messages a button sends, and those of blur
ButtonMessages(p, b, pressed) == <<MouseMove(p), MouseButton(b, pressed)>>
Releases(s) == [i \in DOMAIN s |-> Key(s[i], FALSE)]

LEMMA BatchTypes ==
  /\ \A p \in Points : \A b : \A pressed \in BOOLEAN : ButtonMessages(p, b, pressed) \in Seq(Messages)
  /\ \A s \in Seq(Codes) : Releases(s) \in Seq(Messages)
  /\ \A m \in Messages : <<m>> \in Seq(Messages)
<1>1. ASSUME NEW s \in Seq(Codes) PROVE Releases(s) \in Seq(Messages)
  <2>1. PICK n \in Nat : n = Len(s) /\ DOMAIN s = 1 .. n
    BY LenProperties
  <2>2. \A i \in 1 .. n : Key(s[i], FALSE) \in Messages
    BY <2>1, MessageTypes, ElementOfSeq
  <2>3. Releases(s) \in [1 .. n -> Messages]
    BY <2>1, <2>2 DEF Releases
  <2> QED
    BY <2>3, SeqDef
<1>2. ASSUME NEW p \in Points, NEW b, NEW pressed \in BOOLEAN
      PROVE  ButtonMessages(p, b, pressed) \in Seq(Messages)
  <2>1. MouseMove(p) \in Messages /\ MouseButton(b, pressed) \in Messages
    BY MessageTypes
  <2> QED
    BY <2>1 DEF ButtonMessages
<1> QED
  BY <1>1, <1>2

LEMMA SendType ==
  ASSUME NEW ms \in Seq(Messages), wire \in Seq(Messages), Send(ms),
         open \in BOOLEAN, early \in BOOLEAN
  PROVE  wire' \in Seq(Messages) /\ early' \in BOOLEAN
  BY ConcatProperties DEF Send

LEMMA MakeType ==
  ASSUME NEW what \in Seq(DesktopEvents), made \in Seq(DesktopEvents), Make(what)
  PROVE  made' \in Seq(DesktopEvents)
  BY ConcatProperties DEF Make

LEMMA ButtonEventType ==
  ASSUME NEW name \in Names, NEW pressed \in BOOLEAN, NEW p \in Places
  PROVE  ButtonEvent(name, pressed, p) \in DesktopEvents
         /\ <<ButtonEvent(name, pressed, p)>> \in Seq(DesktopEvents)
<1>1. ButtonEvent(name, pressed, p) \in DesktopEvents
  BY DEF ButtonEvent, DesktopEvents
<1> QED
  BY <1>1

LEMMA EventType ==
  ASSUME InputTypeOK, Event
  PROVE  events' \in 0 .. MaxEvents
  BY LimitsAssumption DEF Event, InputTypeOK

\* The types of what the gateway and the desktop hold
GatewayTypes ==
  /\ lastPointer \in U16 \X U16
  /\ desktopButtons \in SUBSET Names
  /\ desktopKeys \in SUBSET Range(scancode)
  /\ received \in Seq(DesktopEvents)

PageTypes ==
  /\ open \in BOOLEAN /\ pointerAnimation \in BOOLEAN
  /\ pendingPointer \in Positions /\ at \in Positions
  /\ pointerAnimation => pendingPointer \in Points
  /\ pressedKeys \in Seq(Codes) /\ held \in SUBSET Buttons
  /\ events \in 0 .. MaxEvents
  /\ early \in BOOLEAN /\ missed \in BOOLEAN /\ overtaken \in BOOLEAN
  /\ wire \in Seq(Messages)
  /\ made \in Seq(DesktopEvents)

LEMMA TypeParts ==
  /\ TypeInv <=> PageTypes /\ GatewayTypes
  /\ TypeInv' <=> PageTypes' /\ GatewayTypes'
  BY DEF TypeInv, InputTypeOK, PageTypes, GatewayTypes, Names

LEMMA TypeInit == Init => TypeInv
<1> SUFFICES ASSUME Init PROVE TypeInv
  OBVIOUS
<1>1. GatewayTypes
  BY LimitsAssumption DEF Init, GatewayTypes, U16
<1>2. /\ pressedKeys = <<>> /\ wire = <<>> /\ made = <<>>
      /\ pendingPointer = Nowhere /\ at = Nowhere /\ held = {} /\ events = 0
      /\ open \in BOOLEAN /\ ~pointerAnimation /\ pointerAnimation \in BOOLEAN
      /\ early \in BOOLEAN /\ missed \in BOOLEAN /\ overtaken \in BOOLEAN
  BY DEF Init
<1>3. PageTypes
  BY <1>2, LimitsAssumption DEF PageTypes, Positions
<1> QED
  BY <1>1, <1>3, TypeParts

LEMMA GatewayKeeps ==
  ASSUME GatewayTypes, UNCHANGED gateway
  PROVE  GatewayTypes'
  BY DEF GatewayTypes, gateway

LEMMA ApplyType ==
  ASSUME TypeInv, Apply
  PROVE  TypeInv'
<1>1. /\ wire # <<>> /\ wire' = Tail(wire)
      /\ UNCHANGED <<page, user, events, ghosts, early>>
  BY DEF Apply, ApplyMouseMove, ApplyMouseButton, ApplyWheel, ApplyKey, Take
<1>2. wire' \in Seq(Messages) /\ Head(wire) \in Messages
  BY <1>1, HeadTailProperties DEF TypeInv
<1>3. PageTypes'
  BY <1>1, <1>2, TypeParts DEF PageTypes, page, user, ghosts
<1>4. GatewayTypes'
  <2> USE DEF GatewayTypes
  <2>0. GatewayTypes /\ lastPointer \in Places
    BY TypeParts DEF Places
  <2>1. CASE ApplyMouseMove
    <3>1. Head(wire).at \in Points
      BY <1>2, <2>1 DEF ApplyMouseMove, Take, Messages
    <3> QED
      BY <2>0, <2>1, <3>1, ClampType DEF ApplyMouseMove
  <2>2. CASE ApplyMouseButton
    <3>1. Head(wire).button \in Names /\ Head(wire).pressed \in BOOLEAN
      BY <1>2, <2>2 DEF ApplyMouseButton, Take, Messages
    <3>2. received' \in Seq(DesktopEvents)
      BY <2>0, <2>2, <3>1, ButtonEventType, AppendProperties DEF ApplyMouseButton
    <3> QED
      BY <2>0, <2>2, <3>1, <3>2 DEF ApplyMouseButton
  <2>3. CASE ApplyWheel
    <3>1. received' \in Seq(DesktopEvents)
      BY <2>0, <2>3, WheelEventsType, ConcatProperties DEF ApplyWheel
    <3> QED
      BY <2>0, <2>3, <3>1 DEF ApplyWheel
  <2>4. CASE ApplyKey
    <3>1. desktopKeys' \in SUBSET Range(scancode)
      BY <2>0, <2>4 DEF ApplyKey, Range, scancode
    <3> QED
      BY <2>0, <2>4, <3>1 DEF ApplyKey
  <2> QED
    BY <2>1, <2>2, <2>3, <2>4 DEF Apply
<1> QED
  BY <1>3, <1>4, TypeParts

-----------------------------------------------------------------------------
(* The desktop agrees with the user as soon as the wire is drained. *)

\* An event as it was received, for one that was made
Match(r, m) == r = m \/ (m.at = Nowhere /\ r = [m EXCEPT !.at = r.at])

Matches(s, t) == Len(s) = Len(t) /\ \A i \in 1 .. Len(s) : Match(s[i], t[i])

\* The last position that was sent is where the user's pointer is.
PointerKnown == ~pointerAnimation /\ ~overtaken /\ ~early /\ at # Nowhere

\* What the desktop e agrees with the user and the page on
Arrives(e) ==
  /\ PointerKnown => e.pointer = Clamp(at)
  /\ ~missed /\ ~early => e.buttons = {ButtonName(b) : b \in held}
  /\ e.keys \subseteq Scancodes(pressedKeys)
  /\ ~early => e.keys = Scancodes(pressedKeys)
  /\ Matches(e.received, made)

PendingIsAt == pointerAnimation /\ ~overtaken => pendingPointer = at

Unopened == ~open => wire = <<>> /\ desktopKeys = {}

Inv ==
  /\ TypeInv
  /\ \E e : Drains(wire, Desktop, e) /\ Arrives(e)
  /\ PendingIsAt
  /\ Unopened
  /\ Distinct(pressedKeys)

LEMMA MatchesConcat ==
  ASSUME NEW s \in Seq(DesktopEvents), NEW t \in Seq(DesktopEvents),
         NEW u \in Seq(DesktopEvents), NEW v \in Seq(DesktopEvents),
         Matches(s, t), Matches(u, v)
  PROVE  Matches(s \o u, t \o v)
<1>1. PICK n \in Nat, k \in Nat : Joins(s \o u, s, u, n, k)
  BY ConcatJoins
<1>2. PICK a \in Nat, b \in Nat : Joins(t \o v, t, v, a, b)
  BY ConcatJoins
<1>3. a = n /\ b = k /\ Len(s \o u) = n + k /\ Len(t \o v) = n + k
  BY <1>1, <1>2 DEF Joins, Matches
<1>4. /\ \A i \in 1 .. n : Match(s[i], t[i])
      /\ \A i \in 1 .. k : Match(u[i], v[i])
  BY <1>1 DEF Joins, Matches
<1>5. ASSUME NEW i \in 1 .. n + k PROVE Match((s \o u)[i], (t \o v)[i])
  <2>1. CASE i <= n
    <3>1. (s \o u)[i] = s[i] /\ (t \o v)[i] = t[i] /\ i \in 1 .. n
      BY <1>1, <1>2, <1>3, <2>1 DEF Joins
    <3> QED
      BY <1>4, <3>1
  <2>2. CASE ~(i <= n)
    <3>1. (s \o u)[i] = u[i - n] /\ (t \o v)[i] = v[i - n] /\ i - n \in 1 .. k
      BY <1>1, <1>2, <1>3, <2>2 DEF Joins
    <3> QED
      BY <1>4, <3>1
  <2> QED
    BY <2>1, <2>2
<1> QED
  BY <1>3, <1>5 DEF Matches

\* A wheel event matches wherever it was made, if that is not known.
LEMMA MatchesWheel ==
  ASSUME NEW m, NEW p \in Places, NEW q \in Places, q = p \/ q = Nowhere
  PROVE  Matches(WheelEvents(m, p), WheelEvents(m, q))
<1> DEFINE vertical(x) == [type |-> "wheel", axis |-> "vertical",
                           units |-> IF m.dy > 0 THEN -120 ELSE 120, at |-> x]
           horizontal(x) == [type |-> "wheel", axis |-> "horizontal",
                             units |-> IF m.dx > 0 THEN 120 ELSE -120, at |-> x]
<1>1. Match(vertical(p), vertical(q)) /\ Match(horizontal(p), horizontal(q))
  BY DEF Match
<1>2. \A x : WheelEvents(m, x) = (IF m.dy = 0 THEN <<>> ELSE <<vertical(x)>>)
                                 \o (IF m.dx = 0 THEN <<>> ELSE <<horizontal(x)>>)
  BY DEF WheelEvents
<1> HIDE DEF vertical, horizontal
<1> DEFINE ups(x) == IF m.dy = 0 THEN <<>> ELSE <<vertical(x)>>
           sides(x) == IF m.dx = 0 THEN <<>> ELSE <<horizontal(x)>>
<1>3. Matches(ups(p), ups(q)) /\ Matches(sides(p), sides(q))
  <2>1. Matches(<<>>, <<>>)
    BY DEF Matches
  <2>2. ASSUME NEW x, NEW y, Match(x, y) PROVE Matches(<<x>>, <<y>>)
    <3>1. Len(<<x>>) = 1 /\ Len(<<y>>) = 1 /\ <<x>>[1] = x /\ <<y>>[1] = y
      OBVIOUS
    <3> QED
      BY <2>2, <3>1 DEF Matches
  <2>3. Matches(<<vertical(p)>>, <<vertical(q)>>) /\ Matches(<<horizontal(p)>>, <<horizontal(q)>>)
    BY <1>1, <2>2
  <2> QED
    BY <2>1, <2>3
<1>4. \A x \in {p, q} : vertical(x) \in DesktopEvents /\ horizontal(x) \in DesktopEvents
  BY DEF vertical, horizontal, DesktopEvents
<1>5. \A x \in {p, q} : ups(x) \in Seq(DesktopEvents) /\ sides(x) \in Seq(DesktopEvents)
  BY <1>4
<1>6. \A x : WheelEvents(m, x) = ups(x) \o sides(x)
  BY <1>2
<1> HIDE DEF ups, sides
<1> QED
  BY <1>3, <1>5, <1>6, MatchesConcat

LEMMA AfterIs ==
  ASSUME NEW g
  PROVE  /\ \A p : After(g, MouseMove(p)) =
              [pointer |-> Clamp(p), buttons |-> g.buttons, keys |-> g.keys,
               received |-> g.received]
         /\ \A b, pressed : After(g, MouseButton(b, pressed)) =
              [pointer |-> g.pointer,
               buttons |-> IF pressed THEN g.buttons \cup {ButtonName(b)}
                                      ELSE g.buttons \ {ButtonName(b)},
               keys |-> g.keys,
               received |-> Append(g.received, ButtonEvent(ButtonName(b), pressed, g.pointer))]
         /\ \A code, pressed : After(g, Key(code, pressed)) =
              [pointer |-> g.pointer, buttons |-> g.buttons,
               keys |-> IF pressed THEN g.keys \cup KeysOf(code) ELSE g.keys \ KeysOf(code),
               received |-> g.received]
         /\ \A d : After(g, Wheel(d)) =
              [pointer |-> g.pointer, buttons |-> g.buttons, keys |-> g.keys,
               received |-> g.received \o WheelEvents(Wheel(d), g.pointer)]
<1>1. \A p : After(g, MouseMove(p)) =
        [pointer |-> Clamp(p), buttons |-> g.buttons, keys |-> g.keys, received |-> g.received]
  BY DEF After, MouseMove
<1>2. \A b, pressed : After(g, MouseButton(b, pressed)) =
        [pointer |-> g.pointer,
         buttons |-> IF pressed THEN g.buttons \cup {ButtonName(b)}
                                ELSE g.buttons \ {ButtonName(b)},
         keys |-> g.keys,
         received |-> Append(g.received, ButtonEvent(ButtonName(b), pressed, g.pointer))]
  BY DEF After, MouseButton
<1>3. \A code, pressed : After(g, Key(code, pressed)) =
        [pointer |-> g.pointer, buttons |-> g.buttons,
         keys |-> IF pressed THEN g.keys \cup KeysOf(code) ELSE g.keys \ KeysOf(code),
         received |-> g.received]
  BY DEF After, Key
<1>4. ASSUME NEW d
      PROVE  After(g, Wheel(d)) =
               [pointer |-> g.pointer, buttons |-> g.buttons, keys |-> g.keys,
                received |-> g.received \o WheelEvents(Wheel(d), g.pointer)]
  <2>1. Wheel(d).type = "wheel"
    BY DEF Wheel
  <2> QED
    BY <2>1 DEF After
<1> QED
  BY <1>1, <1>2, <1>3, <1>4

\* What is sent leads on from where the wire before it leads.
LEMMA Sends ==
  ASSUME TypeInv, UNCHANGED gateway, NEW e, Drains(wire, Desktop, e),
         NEW ms \in Seq(Messages), wire' = wire \o ms,
         NEW z, Drains(ms, e, z)
  PROVE  Drains(wire', Desktop', z)
<1>1. Desktop' = Desktop
  BY DEF Desktop, gateway
<1> QED
  BY <1>1, DrainsConcat DEF TypeInv

LEMMA Keeps ==
  ASSUME UNCHANGED <<wire, gateway>>, NEW e, Drains(wire, Desktop, e)
  PROVE  Drains(wire', Desktop', e)
<1>1. Desktop' = Desktop
  BY DEF Desktop, gateway
<1> QED
  BY <1>1

\* Before the WebSocket is open the desktop holds no key.
LEMMA NothingYet ==
  ASSUME Unopened, ~open, NEW e, Drains(wire, Desktop, e)
  PROVE  e.keys = {}
<1>1. e = Desktop
  BY DrainsNothing DEF Unopened
<1> QED
  BY <1>1 DEF Desktop, Unopened

\* The desktop e without a key
Released(e) == [pointer |-> e.pointer, buttons |-> e.buttons, keys |-> {},
                received |-> e.received]

\* Releasing the keys one after the other leaves no key.
LEMMA DrainsReleases ==
  ASSUME NEW s \in Seq(Codes), NEW e \in Desktops, e.keys \subseteq Scancodes(s)
  PROVE  Drains(Releases(s), e, Released(e))
<1>1. PICK n \in Nat : n = Len(s) /\ DOMAIN s = 1 .. n
  BY LenProperties
<1>2. PICK w : w = Releases(s)
  OBVIOUS
<1>3. Len(w) = n /\ \A i \in 1 .. n : w[i] = Key(s[i], FALSE)
  <2>1. w \in Seq(Messages) /\ DOMAIN w = 1 .. n
    BY <1>1, <1>2, BatchTypes DEF Releases
  <2>2. Len(w) = n
    BY <1>1, <2>1, LenProperties
  <2> QED
    BY <1>1, <1>2, <2>2 DEF Releases
<1>4. /\ e.pointer \in U16 \X U16 /\ e.buttons \in SUBSET Names
      /\ e.keys \in SUBSET Range(scancode) /\ e.received \in Seq(DesktopEvents)
  BY DEF Desktops
<1> DEFINE left(i) == e.keys \ UNION {KeysOf(s[j]) : j \in 1 .. i}
           desktop(i) == [pointer |-> e.pointer, buttons |-> e.buttons,
                          keys |-> left(i), received |-> e.received]
           f == [i \in 0 .. n |-> desktop(i)]
<1>5. ASSUME NEW i \in 0 .. n PROVE desktop(i) \in Desktops
  <2>1. left(i) \in SUBSET Range(scancode)
    BY <1>4
  <2> HIDE DEF left
  <2> QED
    BY <1>4, <2>1 DEF Desktops
<1>6. left(0) = e.keys
  OBVIOUS
<1>7. ASSUME NEW i \in 1 .. n PROVE left(i) = left(i - 1) \ KeysOf(s[i])
  <2>1. \A j : j \in 1 .. i <=> j \in 1 .. (i - 1) \/ j = i
    OBVIOUS
  <2> QED
    BY <2>1
<1>8. left(n) = {}
  <2>1. Range(s) = {s[j] : j \in 1 .. n}
    BY <1>1, RangeOfKeys
  <2>2. ASSUME NEW k \in e.keys PROVE \E j \in 1 .. n : k \in KeysOf(s[j])
    BY <2>1 DEF Scancodes, KeysOf
  <2> QED
    BY <2>2
<1> HIDE DEF left
<1>9. desktop(0) = e /\ desktop(n) = Released(e)
  <2>1. e = [pointer |-> e.pointer, buttons |-> e.buttons, keys |-> e.keys,
             received |-> e.received]
    BY DEF Desktops
  <2>2. desktop(0) = e
    BY <1>6, <2>1
  <2>3. desktop(n) = Released(e)
    BY <1>8 DEF Released
  <2> QED
    BY <2>2, <2>3
<1>10. ASSUME NEW i \in 1 .. n PROVE desktop(i) = After(desktop(i - 1), Key(s[i], FALSE))
  <2>1. PICK g : g = desktop(i - 1)
    OBVIOUS
  <2>2. g.pointer = e.pointer /\ g.buttons = e.buttons /\ g.keys = left(i - 1)
        /\ g.received = e.received
    BY <2>1
  <2>3. After(g, Key(s[i], FALSE)) =
          [pointer |-> g.pointer, buttons |-> g.buttons,
           keys |-> g.keys \ KeysOf(s[i]), received |-> g.received]
    BY AfterIs
  <2>4. desktop(i) = [pointer |-> e.pointer, buttons |-> e.buttons,
                      keys |-> left(i - 1) \ KeysOf(s[i]), received |-> e.received]
    BY <1>7
  <2> QED
    BY <2>1, <2>2, <2>3, <2>4
<1>11. \A i \in 0 .. n : desktop(i).received = e.received
  OBVIOUS
<1>12. Begins(e.received, e.received)
  BY <1>4, LenProperties DEF Begins
<1>13. /\ f \in [0 .. n -> Desktops]
       /\ \A i \in 0 .. n : f[i] = desktop(i)
  BY <1>5
<1> HIDE DEF f, desktop
<1>14. 0 \in 0 .. n /\ n \in 0 .. n /\ \A i \in 1 .. n : i \in 0 .. n /\ i - 1 \in 0 .. n
  OBVIOUS
<1>15. Leads(f, w, e)
  BY <1>3, <1>9, <1>10, <1>11, <1>12, <1>13, <1>14 DEF Leads
<1> QED
  BY <1>2, <1>3, <1>9, <1>13, <1>14, <1>15 DEF Drains

-----------------------------------------------------------------------------
(* Every event of the page keeps the invariant. *)

\* What an event of the page leaves as types, if it leaves the gateway alone
LEMMA PageStep ==
  ASSUME TypeInv, UNCHANGED gateway, PageTypes'
  PROVE  TypeInv'
  BY TypeParts, GatewayKeeps

LEMMA OpenStep == Inv /\ Open => Inv'
<1> SUFFICES ASSUME Inv, Open PROVE Inv'
  OBVIOUS
<1>1. PICK e : Drains(wire, Desktop, e) /\ Arrives(e)
  BY DEF Inv
<1> USE DEF Open, pointer, user, ghosts
<1>2. UNCHANGED <<wire, gateway>>
  OBVIOUS
<1>3. TypeInv'
  <2>1. PageTypes'
    BY TypeParts DEF Inv, PageTypes
  <2> QED
    BY <1>2, <2>1, PageStep DEF Inv
<1>4. Drains(wire', Desktop', e)
  BY <1>1, <1>2, Keeps
<1>5. Arrives(e)'
  BY <1>1 DEF Arrives, PointerKnown
<1>6. PendingIsAt' /\ Unopened' /\ Distinct(pressedKeys)'
  BY DEF Inv, PendingIsAt, Unopened
<1> QED
  BY <1>3, <1>4, <1>5, <1>6 DEF Inv

LEMMA MoveStep ==
  ASSUME Inv, NEW p \in Points, Move(p)
  PROVE  Inv'
<1>1. PICK e : Drains(wire, Desktop, e) /\ Arrives(e)
  BY DEF Inv
<1>2. /\ at' = p /\ pendingPointer' = p /\ pointerAnimation' = TRUE /\ overtaken' = FALSE
      /\ UNCHANGED <<open, pressedKeys, held, made, early, missed>>
      /\ UNCHANGED wire /\ UNCHANGED gateway
  BY DEF Move, PointAt, PointerMove
<1>3. TypeInv'
  <2>1. events' \in 0 .. MaxEvents
    BY EventType DEF Inv, TypeInv, Move
  <2>2. PageTypes'
    BY <1>2, <2>1, TypeParts DEF Inv, PageTypes, Positions
  <2> QED
    BY <1>2, <2>2, PageStep DEF Inv
<1>4. Drains(wire', Desktop', e)
  BY <1>1, <1>2, Keeps
<1>5. Arrives(e)'
  BY <1>1, <1>2 DEF Arrives, PointerKnown
<1>6. PendingIsAt' /\ Unopened' /\ Distinct(pressedKeys)'
  BY <1>2 DEF Inv, PendingIsAt, Unopened, gateway
<1> QED
  BY <1>3, <1>4, <1>5, <1>6 DEF Inv

LEMMA CancelStep == Inv /\ Cancel => Inv'
<1> SUFFICES ASSUME Inv, Cancel PROVE Inv'
  OBVIOUS
<1>1. PICK e : Drains(wire, Desktop, e) /\ Arrives(e)
  BY DEF Inv
<1>2. /\ held' = {} /\ missed' = TRUE
      /\ UNCHANGED <<open, pendingPointer, pointerAnimation, pressedKeys, at, made,
                     early, overtaken>>
      /\ UNCHANGED wire /\ UNCHANGED gateway
  BY DEF Cancel, page
<1>3. TypeInv'
  <2>1. events' \in 0 .. MaxEvents
    BY EventType DEF Inv, TypeInv, Cancel
  <2>2. PageTypes'
    BY <1>2, <2>1, TypeParts DEF Inv, PageTypes
  <2> QED
    BY <1>2, <2>2, PageStep DEF Inv
<1>4. Drains(wire', Desktop', e)
  BY <1>1, <1>2, Keeps
<1>5. Arrives(e)'
  BY <1>1, <1>2 DEF Arrives, PointerKnown
<1>6. PendingIsAt' /\ Unopened' /\ Distinct(pressedKeys)'
  BY <1>2 DEF Inv, PendingIsAt, Unopened, gateway
<1> QED
  BY <1>3, <1>4, <1>5, <1>6 DEF Inv

LEMMA FrameStep == Inv /\ Frame => Inv'
<1> SUFFICES ASSUME Inv, Frame PROVE Inv'
  OBVIOUS
<1>1. PICK e : Drains(wire, Desktop, e) /\ Arrives(e)
  BY DEF Inv
<1> DEFINE m == MouseMove(pendingPointer)
<1>2. /\ pointerAnimation /\ pointerAnimation' = FALSE /\ Send(<<m>>)
      /\ UNCHANGED <<open, pendingPointer, pressedKeys, at, held, events, made, missed,
                     overtaken>>
      /\ UNCHANGED gateway
  BY DEF Frame, user, ghosts
<1>3. m \in Messages /\ <<m>> \in Seq(Messages) /\ pendingPointer \in Points
  BY <1>2, MessageTypes, BatchTypes, TypeParts DEF Inv, PageTypes
<1>4. TypeInv'
  <2>1. wire' \in Seq(Messages) /\ early' \in BOOLEAN
    BY <1>2, <1>3, SendType, TypeParts DEF Inv, PageTypes
  <2>2. PageTypes'
    BY <1>2, <2>1, TypeParts DEF Inv, PageTypes
  <2> QED
    BY <1>2, <2>2, PageStep DEF Inv
<1>5. PendingIsAt' /\ Distinct(pressedKeys)'
  BY <1>2 DEF Inv, PendingIsAt
<1>6. Unopened'
  BY <1>2 DEF Inv, Unopened, Send, gateway
<1>7. CASE ~open
  <2>1. wire' = wire /\ early' = TRUE
    BY <1>2, <1>7 DEF Send
  <2>2. Drains(wire', Desktop', e)
    BY <1>1, <1>2, <2>1, Keeps
  <2>3. e.keys = {}
    BY <1>1, <1>7, NothingYet DEF Inv
  <2>4. Arrives(e)'
    BY <1>1, <1>2, <2>1, <2>3 DEF Arrives, PointerKnown
  <2> QED
    BY <1>4, <1>5, <1>6, <2>2, <2>4 DEF Inv
<1>8. CASE open
  <2>1. wire' = wire \o <<m>> /\ early' = early
    BY <1>2, <1>8, TypeParts DEF Send, Inv, PageTypes
  <2>2. PICK z : z = After(e, m)
    OBVIOUS
  <2>3. e \in Desktops
    BY <1>1, DrainsGrows DEF Inv, TypeInv
  <2>4. Drains(<<m>>, e, z)
    BY <1>3, <2>2, <2>3, DrainsOne
  <2>5. Drains(wire', Desktop', z)
    BY <1>1, <1>2, <1>3, <2>1, <2>4, Sends DEF Inv
  <2>6. z.pointer = Clamp(pendingPointer) /\ z.buttons = e.buttons /\ z.keys = e.keys
        /\ z.received = e.received
    <3>1. After(e, m) = [pointer |-> Clamp(pendingPointer), buttons |-> e.buttons,
                         keys |-> e.keys, received |-> e.received]
      BY AfterIs
    <3> QED
      BY <2>2, <3>1
  <2>7. Arrives(z)'
    BY <1>1, <1>2, <2>1, <2>6 DEF Inv, Arrives, PointerKnown, PendingIsAt
  <2> QED
    BY <1>4, <1>5, <1>6, <2>5, <2>7 DEF Inv
<1> QED
  BY <1>7, <1>8

LEMMA WheelStep ==
  ASSUME Inv, NEW d \in WheelDeltas, TurnWheel(d)
  PROVE  Inv'
<1>1. PICK e : Drains(wire, Desktop, e) /\ Arrives(e)
  BY DEF Inv
<1>2. PICK q : q = IF at = Nowhere \/ pointerAnimation \/ overtaken \/ early
                   THEN Nowhere ELSE Clamp(at)
  OBVIOUS
<1>3. /\ Send(<<Wheel(d)>>) /\ Make(WheelEvents(Wheel(d), q))
      /\ UNCHANGED <<open, pendingPointer, pointerAnimation, pressedKeys, at, held,
                     missed, overtaken>>
      /\ UNCHANGED gateway
  BY <1>2 DEF TurnWheel, page, user
<1>4. q \in Places
  BY <1>2, ClampType, TypeParts DEF Inv, PageTypes, Positions, Places
<1>5. Wheel(d) \in Messages /\ <<Wheel(d)>> \in Seq(Messages)
  BY MessageTypes, BatchTypes
<1>6. TypeInv'
  <2>1. wire' \in Seq(Messages) /\ early' \in BOOLEAN
    BY <1>3, <1>5, SendType, TypeParts DEF Inv, PageTypes
  <2>2. made' \in Seq(DesktopEvents)
    BY <1>3, <1>4, WheelEventsType, MakeType DEF Inv, TypeInv
  <2>3. events' \in 0 .. MaxEvents
    BY EventType DEF Inv, TypeInv, TurnWheel
  <2>4. PageTypes'
    BY <1>3, <2>1, <2>2, <2>3, TypeParts DEF Inv, PageTypes
  <2> QED
    BY <1>3, <2>4, PageStep DEF Inv
<1>7. PendingIsAt' /\ Distinct(pressedKeys)'
  BY <1>3 DEF Inv, PendingIsAt
<1>8. Unopened'
  BY <1>3 DEF Inv, Unopened, Send, gateway
<1>9. CASE ~open
  <2>1. wire' = wire /\ early' = TRUE /\ made' = made
    BY <1>3, <1>9 DEF Send, Make
  <2>2. Drains(wire', Desktop', e)
    BY <1>1, <1>3, <2>1, Keeps
  <2>3. e.keys = {}
    BY <1>1, <1>9, NothingYet DEF Inv
  <2>4. Arrives(e)'
    BY <1>1, <1>3, <2>1, <2>3 DEF Arrives, PointerKnown
  <2> QED
    BY <1>6, <1>7, <1>8, <2>2, <2>4 DEF Inv
<1>10. CASE open
  <2>1. wire' = wire \o <<Wheel(d)>> /\ early' = early
        /\ made' = made \o WheelEvents(Wheel(d), q)
    BY <1>3, <1>10, TypeParts DEF Send, Make, Inv, PageTypes
  <2>2. PICK z : z = After(e, Wheel(d))
    OBVIOUS
  <2>3. e \in Desktops
    BY <1>1, DrainsGrows DEF Inv, TypeInv
  <2>4. Drains(<<Wheel(d)>>, e, z)
    BY <1>5, <2>2, <2>3, DrainsOne
  <2>5. Drains(wire', Desktop', z)
    BY <1>1, <1>3, <1>5, <2>1, <2>4, Sends DEF Inv
  <2>6. z.pointer = e.pointer /\ z.buttons = e.buttons /\ z.keys = e.keys
        /\ z.received = e.received \o WheelEvents(Wheel(d), e.pointer)
    <3>1. PICK s : s = e.received \o WheelEvents(Wheel(d), e.pointer)
      OBVIOUS
    <3>2. After(e, Wheel(d)) = [pointer |-> e.pointer, buttons |-> e.buttons,
                                keys |-> e.keys, received |-> s]
      BY <3>1, AfterIs
    <3>3. z = [pointer |-> e.pointer, buttons |-> e.buttons,
               keys |-> e.keys, received |-> s]
      BY <2>2, <3>2
    <3> QED
      BY <3>1, <3>3
  <2>7. e.pointer \in Places /\ e.received \in Seq(DesktopEvents)
    BY <2>3 DEF Desktops, Places
  <2>8. q = e.pointer \/ q = Nowhere
    BY <1>1, <1>2 DEF Arrives, PointerKnown
  <2>9. Matches(e.received, made)
    BY <1>1 DEF Arrives
  <2>10. Matches(WheelEvents(Wheel(d), e.pointer), WheelEvents(Wheel(d), q))
    BY <1>4, <2>7, <2>8, MatchesWheel
  <2>11. Matches(z.received, made')
    <3>1. PICK a, b : a = WheelEvents(Wheel(d), e.pointer) /\ b = WheelEvents(Wheel(d), q)
      OBVIOUS
    <3>2. a \in Seq(DesktopEvents) /\ b \in Seq(DesktopEvents)
      BY <1>4, <2>7, <3>1, WheelEventsType
    <3>3. Matches(e.received \o a, made \o b)
      BY <2>7, <2>9, <2>10, <3>1, <3>2, MatchesConcat DEF Inv, TypeInv
    <3> QED
      BY <2>1, <2>6, <3>1, <3>3
  <2>12. Arrives(z)'
    BY <1>1, <1>3, <2>1, <2>6, <2>11 DEF Arrives, PointerKnown
  <2> QED
    BY <1>6, <1>7, <1>8, <2>5, <2>12 DEF Inv
<1> QED
  BY <1>9, <1>10

LEMMA KeyDownStep ==
  ASSUME Inv, NEW code \in Codes, KeyDown(code)
  PROVE  Inv'
<1>1. PICK e : Drains(wire, Desktop, e) /\ Arrives(e)
  BY DEF Inv
<1> DEFINE m == Key(code, TRUE)
<1>2. /\ Send(<<m>>)
      /\ UNCHANGED <<open, pendingPointer, pointerAnimation, at, held, made, missed, overtaken>>
      /\ UNCHANGED gateway
  BY DEF KeyDown, pointer, user, ghosts
<1>3. /\ pressedKeys' \in Seq(Codes) /\ Distinct(pressedKeys)'
      /\ Scancodes(pressedKeys)' = Scancodes(pressedKeys) \cup KeysOf(code)
  <2>1. PICK t : t = pressedKeys'
    OBVIOUS
  <2>2. t = IF Contains(pressedKeys, code) THEN pressedKeys ELSE Append(pressedKeys, code)
    BY <2>1 DEF KeyDown
  <2>3. t \in Seq(Codes) /\ Distinct(t) /\ Scancodes(t) = Scancodes(pressedKeys) \cup KeysOf(code)
    BY <2>2, Added, TypeParts DEF Inv, PageTypes
  <2> QED
    BY <2>1, <2>3
<1>4. m \in Messages /\ <<m>> \in Seq(Messages)
  BY MessageTypes, BatchTypes
<1>5. TypeInv'
  <2>1. wire' \in Seq(Messages) /\ early' \in BOOLEAN
    BY <1>2, <1>4, SendType, TypeParts DEF Inv, PageTypes
  <2>2. events' \in 0 .. MaxEvents
    BY EventType DEF Inv, TypeInv, KeyDown
  <2>3. PageTypes'
    BY <1>2, <1>3, <2>1, <2>2, TypeParts DEF Inv, PageTypes
  <2> QED
    BY <1>2, <2>3, PageStep DEF Inv
<1>6. PendingIsAt'
  BY <1>2 DEF Inv, PendingIsAt
<1>7. Unopened'
  BY <1>2 DEF Inv, Unopened, Send, gateway
<1>8. CASE ~open
  <2>1. wire' = wire /\ early' = TRUE
    BY <1>2, <1>8 DEF Send
  <2>2. Drains(wire', Desktop', e)
    BY <1>1, <1>2, <2>1, Keeps
  <2>3. e.keys = {}
    BY <1>1, <1>8, NothingYet DEF Inv
  <2>4. Arrives(e)'
    BY <1>1, <1>2, <2>1, <2>3 DEF Arrives, PointerKnown
  <2> QED
    BY <1>3, <1>5, <1>6, <1>7, <2>2, <2>4 DEF Inv
<1>9. CASE open
  <2>1. wire' = wire \o <<m>> /\ early' = early
    BY <1>2, <1>9, TypeParts DEF Send, Inv, PageTypes
  <2>2. PICK z : z = After(e, m)
    OBVIOUS
  <2>3. e \in Desktops
    BY <1>1, DrainsGrows DEF Inv, TypeInv
  <2>4. Drains(<<m>>, e, z)
    BY <1>4, <2>2, <2>3, DrainsOne
  <2>5. Drains(wire', Desktop', z)
    BY <1>1, <1>2, <1>4, <2>1, <2>4, Sends DEF Inv
  <2>6. z.pointer = e.pointer /\ z.buttons = e.buttons /\ z.keys = e.keys \cup KeysOf(code)
        /\ z.received = e.received
    <3>1. PICK k : k = e.keys \cup KeysOf(code)
      OBVIOUS
    <3>2. After(e, m) = [pointer |-> e.pointer, buttons |-> e.buttons,
                         keys |-> k, received |-> e.received]
      BY <3>1, AfterIs
    <3>3. z = [pointer |-> e.pointer, buttons |-> e.buttons,
               keys |-> k, received |-> e.received]
      BY <2>2, <3>2
    <3> QED
      BY <3>1, <3>3
  <2>7. Arrives(z)'
    BY <1>1, <1>2, <1>3, <2>1, <2>6 DEF Arrives, PointerKnown
  <2> QED
    BY <1>3, <1>5, <1>6, <1>7, <2>5, <2>7 DEF Inv
<1> QED
  BY <1>8, <1>9

LEMMA KeyUpStep ==
  ASSUME Inv, NEW code \in Codes, KeyUp(code)
  PROVE  Inv'
<1>1. PICK e : Drains(wire, Desktop, e) /\ Arrives(e)
  BY DEF Inv
<1> DEFINE m == Key(code, FALSE)
<1>2. /\ Send(<<m>>)
      /\ UNCHANGED <<open, pendingPointer, pointerAnimation, at, held, made, missed, overtaken>>
      /\ UNCHANGED gateway
  BY DEF KeyUp, pointer, user, ghosts
<1>3. /\ pressedKeys' \in Seq(Codes) /\ Distinct(pressedKeys)'
      /\ Scancodes(pressedKeys)' = Scancodes(pressedKeys) \ KeysOf(code)
  <2>1. pressedKeys' = RemoveFirst(pressedKeys, code)
    BY DEF KeyUp
  <2>2. pressedKeys \in Seq(Codes) /\ Distinct(pressedKeys)
    BY TypeParts DEF Inv, PageTypes
  <2> QED
    BY <2>1, <2>2, Deleted, ScancodesDeleted
<1>4. m \in Messages /\ <<m>> \in Seq(Messages)
  BY MessageTypes, BatchTypes
<1>5. TypeInv'
  <2>1. wire' \in Seq(Messages) /\ early' \in BOOLEAN
    BY <1>2, <1>4, SendType, TypeParts DEF Inv, PageTypes
  <2>2. events' \in 0 .. MaxEvents
    BY EventType DEF Inv, TypeInv, KeyUp
  <2>3. PageTypes'
    BY <1>2, <1>3, <2>1, <2>2, TypeParts DEF Inv, PageTypes
  <2> QED
    BY <1>2, <2>3, PageStep DEF Inv
<1>6. PendingIsAt'
  BY <1>2 DEF Inv, PendingIsAt
<1>7. Unopened'
  BY <1>2 DEF Inv, Unopened, Send, gateway
<1>8. CASE ~open
  <2>1. wire' = wire /\ early' = TRUE
    BY <1>2, <1>8 DEF Send
  <2>2. Drains(wire', Desktop', e)
    BY <1>1, <1>2, <2>1, Keeps
  <2>3. e.keys = {}
    BY <1>1, <1>8, NothingYet DEF Inv
  <2>4. Arrives(e)'
    BY <1>1, <1>2, <2>1, <2>3 DEF Arrives, PointerKnown
  <2> QED
    BY <1>3, <1>5, <1>6, <1>7, <2>2, <2>4 DEF Inv
<1>9. CASE open
  <2>1. wire' = wire \o <<m>> /\ early' = early
    BY <1>2, <1>9, TypeParts DEF Send, Inv, PageTypes
  <2>2. PICK z : z = After(e, m)
    OBVIOUS
  <2>3. e \in Desktops
    BY <1>1, DrainsGrows DEF Inv, TypeInv
  <2>4. Drains(<<m>>, e, z)
    BY <1>4, <2>2, <2>3, DrainsOne
  <2>5. Drains(wire', Desktop', z)
    BY <1>1, <1>2, <1>4, <2>1, <2>4, Sends DEF Inv
  <2>6. z.pointer = e.pointer /\ z.buttons = e.buttons /\ z.keys = e.keys \ KeysOf(code)
        /\ z.received = e.received
    <3>1. PICK k : k = e.keys \ KeysOf(code)
      OBVIOUS
    <3>2. After(e, m) = [pointer |-> e.pointer, buttons |-> e.buttons,
                         keys |-> k, received |-> e.received]
      BY <3>1, AfterIs
    <3>3. z = [pointer |-> e.pointer, buttons |-> e.buttons,
               keys |-> k, received |-> e.received]
      BY <2>2, <3>2
    <3> QED
      BY <3>1, <3>3
  <2>7. Arrives(z)'
    BY <1>1, <1>2, <1>3, <2>1, <2>6 DEF Arrives, PointerKnown
  <2> QED
    BY <1>3, <1>5, <1>6, <1>7, <2>5, <2>7 DEF Inv
<1> QED
  BY <1>8, <1>9

LEMMA BlurStep == Inv /\ Blur => Inv'
<1> SUFFICES ASSUME Inv, Blur PROVE Inv'
  OBVIOUS
<1>1. PICK e : Drains(wire, Desktop, e) /\ Arrives(e)
  BY DEF Inv
<1>2. /\ pressedKeys' = <<>>
      /\ UNCHANGED <<open, pendingPointer, pointerAnimation, at, held, made, missed, overtaken>>
      /\ UNCHANGED gateway
      /\ \/ pressedKeys = <<>> /\ UNCHANGED <<wire, early>>
         \/ Send(Releases(pressedKeys))
  BY DEF Blur, pointer, user, ghosts, Releases
<1>3. Scancodes(pressedKeys') = {} /\ Scancodes(<<>>) = {} /\ Distinct(pressedKeys)'
  BY <1>2 DEF Scancodes, Range, Distinct
<1>4. pressedKeys \in Seq(Codes) /\ Releases(pressedKeys) \in Seq(Messages)
  BY BatchTypes, TypeParts DEF Inv, PageTypes
<1>5. TypeInv'
  <2>1. wire' \in Seq(Messages) /\ early' \in BOOLEAN
    BY <1>2, <1>4, SendType, TypeParts DEF Inv, PageTypes
  <2>2. events' \in 0 .. MaxEvents
    BY EventType DEF Inv, TypeInv, Blur
  <2>3. PageTypes'
    BY <1>2, <2>1, <2>2, TypeParts DEF Inv, PageTypes
  <2> QED
    BY <1>2, <2>3, PageStep DEF Inv
<1>6. PendingIsAt'
  BY <1>2 DEF Inv, PendingIsAt
<1>7. Unopened'
  BY <1>2 DEF Inv, Unopened, Send, gateway
<1>8. CASE pressedKeys = <<>> /\ UNCHANGED <<wire, early>>
  <2>1. Drains(wire', Desktop', e)
    BY <1>1, <1>2, <1>8, Keeps
  <2>2. Arrives(e)'
    BY <1>1, <1>2, <1>3, <1>8 DEF Arrives, PointerKnown
  <2> QED
    BY <1>3, <1>5, <1>6, <1>7, <2>1, <2>2 DEF Inv
<1>9. CASE Send(Releases(pressedKeys)) /\ ~open
  <2>1. wire' = wire /\ early' = TRUE
    BY <1>9 DEF Send
  <2>2. Drains(wire', Desktop', e)
    BY <1>1, <1>2, <2>1, Keeps
  <2>3. e.keys = {}
    BY <1>1, <1>9, NothingYet DEF Inv
  <2>4. Arrives(e)'
    BY <1>1, <1>2, <1>3, <2>1, <2>3 DEF Arrives, PointerKnown
  <2> QED
    BY <1>3, <1>5, <1>6, <1>7, <2>2, <2>4 DEF Inv
<1>10. CASE Send(Releases(pressedKeys)) /\ open
  <2>1. wire' = wire \o Releases(pressedKeys) /\ early' = early
    BY <1>10, TypeParts DEF Send, Inv, PageTypes
  <2>2. PICK z : z = Released(e)
    OBVIOUS
  <2>3. e \in Desktops
    BY <1>1, DrainsGrows DEF Inv, TypeInv
  <2>4. Drains(Releases(pressedKeys), e, z)
    BY <1>1, <1>4, <2>2, <2>3, DrainsReleases DEF Arrives
  <2>5. Drains(wire', Desktop', z)
    BY <1>1, <1>2, <1>4, <2>1, <2>4, Sends DEF Inv
  <2>6. z.pointer = e.pointer /\ z.buttons = e.buttons /\ z.keys = {}
        /\ z.received = e.received
    BY <2>2 DEF Released
  <2>7. Arrives(z)'
    BY <1>1, <1>2, <1>3, <2>1, <2>6 DEF Arrives, PointerKnown
  <2> QED
    BY <1>3, <1>5, <1>6, <1>7, <2>5, <2>7 DEF Inv
<1> QED
  BY <1>2, <1>8, <1>9, <1>10

\* A button of its own: the desktop gets the position and then the button.
ButtonAlone(b, p, pressed) ==
  /\ held \ {b} = {}
  /\ Send(ButtonMessages(p, b, pressed))
  /\ Make(<<ButtonEvent(ButtonName(b), pressed, Clamp(p))>>)
  /\ UNCHANGED <<pendingPointer, pointerAnimation, missed>>
  /\ overtaken' = pointerAnimation

\* A button of a chord: the page hears a move.
ButtonOfChord(p) ==
  /\ pendingPointer' = p /\ pointerAnimation' = TRUE /\ overtaken' = FALSE
  /\ missed' = TRUE
  /\ UNCHANGED <<wire, early, made>>

LEMMA ButtonCases ==
  ASSUME NEW b, NEW p, NEW pressed, Button(b, p, pressed)
  PROVE  /\ Event /\ p \in Points /\ at' = p
         /\ (b \in held) = ~pressed
         /\ held' = IF pressed THEN held \cup {b} ELSE held \ {b}
         /\ UNCHANGED <<open, pressedKeys>> /\ UNCHANGED gateway
         /\ ButtonAlone(b, p, pressed) \/ ButtonOfChord(p)
  BY DEF Button, PointAt, PointerButton, PointerMove, ButtonAlone, ButtonOfChord,
         ButtonMessages, pointer

\* The buttons that the desktop has if it takes one more event
LEMMA NamesOfHeld ==
  ASSUME NEW b, NEW pressed \in BOOLEAN, held \ {b} = {}, (b \in held) = ~pressed,
         held' = IF pressed THEN held \cup {b} ELSE held \ {b}
  PROVE  LET names == {ButtonName(c) : c \in held}
         IN  {ButtonName(c) : c \in held'} =
               IF pressed THEN names \cup {ButtonName(b)} ELSE names \ {ButtonName(b)}
<1>1. CASE pressed
  <2>1. held = {} /\ held' = {b}
    BY <1>1
  <2> QED
    BY <1>1, <2>1
<1>2. CASE ~pressed
  <2>1. held = {b} /\ held' = {}
    BY <1>2
  <2> QED
    BY <1>2, <2>1
<1> QED
  BY <1>1, <1>2

\* Where the two messages of a button lead the desktop
Clicked(e, b, p, pressed) ==
  [pointer |-> Clamp(p),
   buttons |-> IF pressed THEN e.buttons \cup {ButtonName(b)} ELSE e.buttons \ {ButtonName(b)},
   keys |-> e.keys,
   received |-> Append(e.received, ButtonEvent(ButtonName(b), pressed, Clamp(p)))]

LEMMA DrainsButton ==
  ASSUME NEW e \in Desktops, NEW b, NEW p \in Points, NEW pressed \in BOOLEAN
  PROVE  Drains(ButtonMessages(p, b, pressed), e, Clicked(e, b, p, pressed))
<1>1. PICK m, c : m = MouseMove(p) /\ c = MouseButton(b, pressed)
  OBVIOUS
<1>2. m \in Messages /\ c \in Messages /\ <<m>> \in Seq(Messages) /\ <<c>> \in Seq(Messages)
  BY <1>1, MessageTypes, BatchTypes
<1>3. PICK x : x = After(e, m)
  OBVIOUS
<1>4. x \in Desktops /\ Drains(<<m>>, e, x)
  BY <1>2, <1>3, AfterType, DrainsOne
<1>5. Drains(<<c>>, x, After(x, c))
  BY <1>2, <1>4, DrainsOne
<1>6. Drains(<<m>> \o <<c>>, e, After(x, c))
  BY <1>2, <1>4, <1>5, DrainsConcat
<1>7. <<m>> \o <<c>> = ButtonMessages(p, b, pressed)
  <2>1. Append(<<m>>, c) = <<m>> \o <<c>>
    BY <1>2, AppendIsConcat
  <2>2. Append(<<m>>, c) = <<m, c>>
    <3>1. PICK s : s = Append(<<m>>, c)
      OBVIOUS
    <3>2. s \in Seq(Messages) /\ Len(s) = 2 /\ s[1] = m /\ s[2] = c
      <4>1. <<m>> \in Seq(Messages) /\ Len(<<m>>) = 1 /\ <<m>>[1] = m
        BY <1>2
      <4> QED
        BY <1>2, <3>1, <4>1, AppendProperties
    <3>3. <<m, c>> \in Seq(Messages) /\ Len(<<m, c>>) = 2 /\ <<m, c>>[1] = m /\ <<m, c>>[2] = c
      BY <1>2
    <3>4. \A i \in 1 .. 2 : s[i] = <<m, c>>[i]
      <4>1. \A i \in 1 .. 2 : i = 1 \/ i = 2
        OBVIOUS
      <4> QED
        BY <3>2, <3>3, <4>1
    <3> QED
      BY <3>1, <3>2, <3>3, <3>4, SeqEqual
  <2> QED
    BY <1>1, <2>1, <2>2 DEF ButtonMessages
<1>8. After(x, c) = Clicked(e, b, p, pressed)
  <2>1. x = [pointer |-> Clamp(p), buttons |-> e.buttons, keys |-> e.keys,
             received |-> e.received]
    BY <1>1, <1>3, AfterIs
  <2>2. x.pointer = Clamp(p) /\ x.buttons = e.buttons /\ x.keys = e.keys
        /\ x.received = e.received
    BY <2>1
  <2>3. After(x, c) =
          [pointer |-> x.pointer,
           buttons |-> IF pressed THEN x.buttons \cup {ButtonName(b)}
                                  ELSE x.buttons \ {ButtonName(b)},
           keys |-> x.keys,
           received |-> Append(x.received, ButtonEvent(ButtonName(b), pressed, x.pointer))]
    BY <1>1, AfterIs
  <2> QED
    BY <2>2, <2>3 DEF Clicked
<1> QED
  BY <1>6, <1>7, <1>8

LEMMA ButtonStep ==
  ASSUME Inv, NEW b \in Buttons, NEW p \in Points, NEW pressed \in BOOLEAN,
         Button(b, p, pressed)
  PROVE  Inv'
<1>1. PICK e : Drains(wire, Desktop, e) /\ Arrives(e)
  BY DEF Inv
<1> DEFINE ms == ButtonMessages(p, b, pressed)
<1>2. /\ Event /\ at' = p /\ (b \in held) = ~pressed
      /\ held' = IF pressed THEN held \cup {b} ELSE held \ {b}
      /\ UNCHANGED <<open, pressedKeys>> /\ UNCHANGED gateway
      /\ ButtonAlone(b, p, pressed) \/ ButtonOfChord(p)
  BY ButtonCases
<1>3. ms \in Seq(Messages)
  BY BatchTypes
<1>4. events' \in 0 .. MaxEvents /\ held' \in SUBSET Buttons
  BY <1>2, EventType DEF Inv, TypeInv, InputTypeOK
<1>5. Distinct(pressedKeys)'
  BY <1>2 DEF Inv
<1>6. CASE ButtonOfChord(p)
  <2>1. PageTypes'
    BY <1>2, <1>4, <1>6, TypeParts DEF Inv, PageTypes, Positions, ButtonOfChord
  <2>2. TypeInv'
    BY <1>2, <2>1, PageStep DEF Inv
  <2>3. Drains(wire', Desktop', e)
    BY <1>1, <1>2, <1>6, Keeps DEF ButtonOfChord
  <2>4. Arrives(e)'
    BY <1>1, <1>2, <1>6 DEF ButtonOfChord, Arrives, PointerKnown
  <2>5. PendingIsAt' /\ Unopened'
    BY <1>2, <1>6 DEF Inv, PendingIsAt, Unopened, gateway, ButtonOfChord
  <2> QED
    BY <1>5, <2>2, <2>3, <2>4, <2>5 DEF Inv
<1>7. CASE ButtonAlone(b, p, pressed)
  <2>1. PICK a : a = ButtonEvent(ButtonName(b), pressed, Clamp(p))
    OBVIOUS
  <2>2. /\ held \ {b} = {} /\ Send(ms) /\ Make(<<a>>)
        /\ UNCHANGED <<pendingPointer, pointerAnimation, missed>>
        /\ overtaken' = pointerAnimation
    BY <1>7, <2>1 DEF ButtonAlone
  <2>3. a \in DesktopEvents /\ <<a>> \in Seq(DesktopEvents)
    <3>1. Clamp(p) \in Places
      BY ClampType DEF Places
    <3> QED
      BY <2>1, <3>1, ButtonNameType, ButtonEventType
  <2>4. TypeInv'
    <3>1. wire' \in Seq(Messages) /\ early' \in BOOLEAN
      BY <1>3, <2>2, SendType, TypeParts DEF Inv, PageTypes
    <3>2. made' \in Seq(DesktopEvents)
      BY <2>2, <2>3, MakeType DEF Inv, TypeInv
    <3>3. PageTypes'
      BY <1>2, <1>4, <2>2, <3>1, <3>2, TypeParts DEF Inv, PageTypes, Positions
    <3> QED
      BY <1>2, <3>3, PageStep DEF Inv
  <2>5. PendingIsAt'
    BY <2>2 DEF Inv, PendingIsAt
  <2>6. Unopened'
    BY <1>2, <2>2 DEF Inv, Unopened, Send, gateway
  <2>7. CASE ~open
    <3>1. wire' = wire /\ early' = TRUE /\ made' = made
      BY <2>2, <2>7 DEF Send, Make
    <3>2. Drains(wire', Desktop', e)
      BY <1>1, <1>2, <3>1, Keeps
    <3>3. e.keys = {}
      BY <1>1, <2>7, NothingYet DEF Inv
    <3>4. Arrives(e)'
      BY <1>1, <1>2, <3>1, <3>3 DEF Arrives, PointerKnown
    <3> QED
      BY <1>5, <2>4, <2>5, <2>6, <3>2, <3>4 DEF Inv
  <2>8. CASE open
    <3>1. wire' = wire \o ms /\ early' = early /\ made' = made \o <<a>>
      BY <2>2, <2>8, TypeParts DEF Send, Make, Inv, PageTypes
    <3>2. PICK z : z = Clicked(e, b, p, pressed)
      OBVIOUS
    <3>3. e \in Desktops /\ e.received \in Seq(DesktopEvents)
      BY <1>1, DrainsGrows DEF Inv, TypeInv, Desktops
    <3>4. Drains(ms, e, z)
      BY <3>2, <3>3, DrainsButton
    <3>5. Drains(wire', Desktop', z)
      BY <1>1, <1>2, <1>3, <3>1, <3>4, Sends DEF Inv
    <3>6. /\ z.pointer = Clamp(p) /\ z.keys = e.keys
          /\ z.buttons = IF pressed THEN e.buttons \cup {ButtonName(b)}
                                    ELSE e.buttons \ {ButtonName(b)}
          /\ z.received = Append(e.received, a)
      BY <2>1, <3>2 DEF Clicked
    <3>7. ~missed' /\ ~early' => z.buttons = {ButtonName(c) : c \in held'}
      <4>1. ~missed /\ ~early => e.buttons = {ButtonName(c) : c \in held}
        BY <1>1 DEF Arrives
      <4> QED
        BY <1>2, <2>2, <3>1, <3>6, <4>1, NamesOfHeld
    <3>8. Matches(z.received, made')
      <4>1. Match(a, a) /\ Len(<<a>>) = 1 /\ <<a>>[1] = a
        BY DEF Match
      <4>2. Matches(<<a>>, <<a>>)
        BY <4>1 DEF Matches
      <4>3. Matches(e.received, made)
        BY <1>1 DEF Arrives
      <4>4. Matches(e.received \o <<a>>, made \o <<a>>)
        BY <2>3, <3>3, <4>2, <4>3, MatchesConcat DEF Inv, TypeInv
      <4>5. Append(e.received, a) = e.received \o <<a>>
        BY <2>3, <3>3, AppendIsConcat
      <4> QED
        BY <3>1, <3>6, <4>4, <4>5
    <3>9. Arrives(z)'
      BY <1>1, <1>2, <3>1, <3>6, <3>7, <3>8 DEF Arrives, PointerKnown
    <3> QED
      BY <1>5, <2>4, <2>5, <2>6, <3>5, <3>9 DEF Inv
  <2> QED
    BY <2>7, <2>8
<1> QED
  BY <1>2, <1>6, <1>7

-----------------------------------------------------------------------------
(* What the RDP thread takes brings the desktop one step along its way. *)

LEMMA ApplyAfter ==
  ASSUME TypeInv, Apply
  PROVE  Desktop' = After(Desktop, Head(wire))
<1>1. PICK m : m = Head(wire)
  OBVIOUS
<1>2. PICK g : g = Desktop
  OBVIOUS
<1>3. g.pointer = lastPointer /\ g.buttons = desktopButtons /\ g.keys = desktopKeys
      /\ g.received = received
  BY <1>2 DEF Desktop
<1>4. CASE ApplyMouseMove
  <2>1. m.type = "mouseMove" /\ lastPointer' = Clamp(m.at)
        /\ UNCHANGED <<desktopButtons, desktopKeys, received>>
    BY <1>1, <1>4 DEF ApplyMouseMove, Take
  <2>2. After(g, m) = [pointer |-> Clamp(m.at), buttons |-> g.buttons, keys |-> g.keys,
                       received |-> g.received]
    BY <2>1 DEF After
  <2>3. Desktop' = [pointer |-> Clamp(m.at), buttons |-> g.buttons, keys |-> g.keys,
                    received |-> g.received]
    BY <1>3, <2>1 DEF Desktop
  <2> QED
    BY <1>1, <1>2, <2>2, <2>3
<1>5. CASE ApplyMouseButton
  <2>1. PICK bs, s : /\ bs = IF m.pressed THEN desktopButtons \cup {m.button}
                                          ELSE desktopButtons \ {m.button}
                     /\ s = Append(received, ButtonEvent(m.button, m.pressed, lastPointer))
    OBVIOUS
  <2>2. m.type = "mouseButton" /\ desktopButtons' = bs /\ received' = s
        /\ UNCHANGED <<lastPointer, desktopKeys>>
    BY <1>1, <1>5, <2>1 DEF ApplyMouseButton, Take
  <2>3. After(g, m) = [pointer |-> g.pointer, buttons |-> bs, keys |-> g.keys, received |-> s]
    BY <1>3, <2>1, <2>2 DEF After
  <2>4. Desktop' = [pointer |-> g.pointer, buttons |-> bs, keys |-> g.keys, received |-> s]
    BY <1>3, <2>2 DEF Desktop
  <2> QED
    BY <1>1, <1>2, <2>3, <2>4
<1>6. CASE ApplyWheel
  <2>1. PICK s : s = received \o WheelEvents(m, lastPointer)
    OBVIOUS
  <2>2. m.type = "wheel" /\ received' = s
        /\ UNCHANGED <<lastPointer, desktopButtons, desktopKeys>>
    BY <1>1, <1>6, <2>1 DEF ApplyWheel, Take
  <2>3. After(g, m) = [pointer |-> g.pointer, buttons |-> g.buttons, keys |-> g.keys,
                       received |-> s]
    BY <1>3, <2>1, <2>2 DEF After
  <2>4. Desktop' = [pointer |-> g.pointer, buttons |-> g.buttons, keys |-> g.keys,
                    received |-> s]
    BY <1>3, <2>2 DEF Desktop
  <2> QED
    BY <1>1, <1>2, <2>3, <2>4
<1>7. CASE ApplyKey
  <2>1. PICK ks : ks = IF m.pressed THEN desktopKeys \cup KeysOf(m.code)
                                    ELSE desktopKeys \ KeysOf(m.code)
    OBVIOUS
  <2>2. m.type = "key" /\ desktopKeys' = ks
        /\ UNCHANGED <<lastPointer, desktopButtons, received>>
    BY <1>1, <1>7, <2>1 DEF ApplyKey, Take, KeysOf
  <2>3. After(g, m) = [pointer |-> g.pointer, buttons |-> g.buttons, keys |-> ks,
                       received |-> g.received]
    BY <1>3, <2>1, <2>2 DEF After
  <2>4. Desktop' = [pointer |-> g.pointer, buttons |-> g.buttons, keys |-> ks,
                    received |-> g.received]
    BY <1>3, <2>2 DEF Desktop
  <2> QED
    BY <1>1, <1>2, <2>3, <2>4
<1> QED
  BY <1>4, <1>5, <1>6, <1>7 DEF Apply

LEMMA ApplyStep == Inv /\ Apply => Inv'
<1> SUFFICES ASSUME Inv, Apply PROVE Inv'
  OBVIOUS
<1>1. PICK e : Drains(wire, Desktop, e) /\ Arrives(e)
  BY DEF Inv
<1>2. /\ wire # <<>> /\ wire' = Tail(wire)
      /\ UNCHANGED <<open, pendingPointer, pointerAnimation, pressedKeys, at, held, made,
                     early, missed, overtaken>>
  BY DEF Apply, ApplyMouseMove, ApplyMouseButton, ApplyWheel, ApplyKey, Take, page, user, ghosts
<1>3. TypeInv'
  BY ApplyType DEF Inv
<1>4. Drains(wire', Desktop', e)
  <2>1. wire \in Seq(Messages)
    BY DEF Inv, TypeInv
  <2>2. Drains(Tail(wire), After(Desktop, Head(wire)), e)
    BY <1>1, <1>2, <2>1, DrainsHead
  <2>3. Desktop' = After(Desktop, Head(wire))
    BY ApplyAfter DEF Inv
  <2> QED
    BY <1>2, <2>2, <2>3
<1>5. Arrives(e)'
  BY <1>1, <1>2 DEF Arrives, PointerKnown
<1>6. PendingIsAt' /\ Unopened' /\ Distinct(pressedKeys)'
  BY <1>2 DEF Inv, PendingIsAt, Unopened
<1> QED
  BY <1>3, <1>4, <1>5, <1>6 DEF Inv

-----------------------------------------------------------------------------
(* The invariant, and what follows from it. *)

LEMMA InvInit == Init => Inv
<1> SUFFICES ASSUME Init PROVE Inv
  OBVIOUS
<1>1. TypeInv
  BY TypeInit
<1>2. /\ wire = <<>> /\ pressedKeys = <<>> /\ made = <<>> /\ held = {}
      /\ desktopButtons = {} /\ desktopKeys = {} /\ received = <<>>
      /\ at = Nowhere /\ ~pointerAnimation
  BY DEF Init
<1>3. Desktop \in Desktops
  BY <1>1 DEF TypeInv, InputTypeOK, Desktop, Desktops, Names
<1>4. Drains(wire, Desktop, Desktop)
  BY <1>2, <1>3, DrainsEmpty
<1>5. Scancodes(pressedKeys) = {}
  BY <1>2 DEF Scancodes, Range
<1>6. Matches(received, made)
  BY <1>2 DEF Matches
<1>7. Arrives(Desktop)
  <2>1. ~PointerKnown
    BY <1>2 DEF PointerKnown
  <2>2. {ButtonName(b) : b \in held} = {}
    BY <1>2
  <2>3. Desktop.buttons = {} /\ Desktop.keys = {} /\ Desktop.received = received
    BY <1>2 DEF Desktop
  <2> QED
    BY <1>5, <1>6, <2>1, <2>2, <2>3 DEF Arrives
<1>8. PendingIsAt /\ Unopened /\ Distinct(pressedKeys)
  BY <1>2 DEF PendingIsAt, Unopened, Distinct
<1> QED
  BY <1>1, <1>4, <1>7, <1>8 DEF Inv

LEMMA InvNext == Inv /\ [Next]_vars => Inv'
<1> SUFFICES ASSUME Inv, [Next]_vars PROVE Inv'
  OBVIOUS
<1>1. CASE Open
  BY <1>1, OpenStep
<1>2. ASSUME NEW p \in Points, Move(p) PROVE Inv'
  BY <1>2, MoveStep
<1>3. ASSUME NEW p \in Points, NEW b \in Buttons, NEW pressed \in BOOLEAN,
             Button(b, p, pressed)
      PROVE  Inv'
  BY <1>3, ButtonStep
<1>4. CASE Cancel
  BY <1>4, CancelStep
<1>5. CASE Frame
  BY <1>5, FrameStep
<1>6. ASSUME NEW d \in WheelDeltas, TurnWheel(d) PROVE Inv'
  BY <1>6, WheelStep
<1>7. ASSUME NEW code \in Codes, KeyDown(code) PROVE Inv'
  BY <1>7, KeyDownStep
<1>8. ASSUME NEW code \in Codes, KeyUp(code) PROVE Inv'
  BY <1>8, KeyUpStep
<1>9. CASE Blur
  BY <1>9, BlurStep
<1>10. CASE Apply
  BY <1>10, ApplyStep
<1>11. CASE UNCHANGED vars
  <2>1. PICK e : Drains(wire, Desktop, e) /\ Arrives(e)
    BY DEF Inv
  <2>2. PageTypes' /\ UNCHANGED <<wire, gateway>>
    BY <1>11, TypeParts DEF vars, gateway, Inv, PageTypes
  <2>3. TypeInv'
    BY <2>2, PageStep DEF Inv
  <2>4. Drains(wire', Desktop', e)
    BY <2>1, <2>2, Keeps
  <2>5. Arrives(e)'
    BY <1>11, <2>1 DEF vars, Arrives, PointerKnown
  <2>6. PendingIsAt' /\ Unopened' /\ Distinct(pressedKeys)'
    BY <1>11 DEF vars, Inv, PendingIsAt, Unopened
  <2> QED
    BY <2>3, <2>4, <2>5, <2>6 DEF Inv
<1> QED
  BY <1>1, <1>2, <1>3, <1>4, <1>5, <1>6, <1>7, <1>8, <1>9, <1>10, <1>11 DEF Next

\* The invariant holds in every state.
LEMMA Invariance == Spec => []Inv
  BY InvInit, InvNext, PTL DEF Spec

\* Every variable of Input keeps its type, with any points, buttons and keys;
\* no coordinate that the desktop is told exceeds the u16 of a mouse PDU
\* (clamp_u16).
THEOREM InputTypeCorrect == Spec => []InputTypeOK
<1>1. Inv => InputTypeOK
  BY DEF Inv, TypeInv
<1> QED
  BY <1>1, Invariance, PTL

\* Buttons and wheel act on the desktop in the user's order and at the place
\* where the user's pointer was, however many events wait in the channels and
\* whichever positions wait for their animation frame (pointerdown, pointerup
\* and wheel of app.js, translate_input of rdp.rs).
THEOREM ActsWhereMade == Spec => []ActionsWhereMade
<1>1. Inv => ActionsWhereMade
  <2> SUFFICES ASSUME Inv PROVE ActionsWhereMade
    OBVIOUS
  <2>1. PICK e : Drains(wire, Desktop, e) /\ Arrives(e)
    BY DEF Inv
  <2>2. PICK s : s = e.received
    OBVIOUS
  <2>3. s \in Seq(DesktopEvents) /\ Begins(received, s)
    BY <2>1, <2>2, DrainsGrows DEF Inv, TypeInv, Desktops, Desktop
  <2>4. Matches(s, made)
    BY <2>1, <2>2 DEF Arrives
  <2>5. received \in Seq(DesktopEvents) /\ made \in Seq(DesktopEvents)
    BY DEF Inv, TypeInv
  <2>6. PICK n \in Nat, k \in Nat :
          n = Len(received) /\ DOMAIN received = 1 .. n /\ k = Len(s) /\ k = Len(made)
    BY <2>3, <2>4, <2>5, LenProperties DEF Matches
  <2>7. n <= k /\ \A i \in 1 .. n : received[i] = s[i] /\ Match(s[i], made[i])
    BY <2>3, <2>4, <2>6 DEF Begins, Matches
  <2>8. ASSUME NEW i \in 1 .. n
        PROVE  \/ received[i] = made[i]
               \/ made[i].at = Nowhere /\ received[i] = [made[i] EXCEPT !.at = received[i].at]
    BY <2>7 DEF Match
  <2> QED
    BY <2>6, <2>7, <2>8 DEF ActionsWhereMade
<1> QED
  BY <1>1, Invariance, PTL

\* When all messages are applied, the desktop's pointer is where the user's is,
\* unless a position still waits or an older one overtook it (last_pointer
\* against pendingPointer).
THEOREM PointersAgree == Spec => []PointerAgrees
<1>1. Inv => PointerAgrees
  <2> SUFFICES ASSUME Inv, wire = <<>> PROVE PointerKnown => lastPointer = Clamp(at)
    BY DEF PointerAgrees, PointerKnown
  <2>1. PICK e : Drains(wire, Desktop, e) /\ Arrives(e)
    BY DEF Inv
  <2>2. e = Desktop
    BY <2>1, DrainsNothing
  <2>3. Desktop.pointer = lastPointer
    BY DEF Desktop
  <2> QED
    BY <2>1, <2>2, <2>3 DEF Arrives
<1> QED
  BY <1>1, Invariance, PTL

\* When all messages are applied, the desktop holds the buttons that the user
\* holds, unless the page missed one that went up or down.
THEOREM ButtonsAreHeld == Spec => []ButtonsAgree
<1>1. Inv => ButtonsAgree
  <2> SUFFICES ASSUME Inv, wire = <<>>, ~missed, ~early
               PROVE  desktopButtons = {ButtonName(b) : b \in held}
    BY DEF ButtonsAgree
  <2>1. PICK e : Drains(wire, Desktop, e) /\ Arrives(e)
    BY DEF Inv
  <2>2. e = Desktop
    BY <2>1, DrainsNothing
  <2>3. Desktop.buttons = desktopButtons
    BY DEF Desktop
  <2> QED
    BY <2>1, <2>2, <2>3 DEF Arrives
<1> QED
  BY <1>1, Invariance, PTL

\* When all messages are applied, no key is down on the desktop that blur would
\* not release, whatever keys of the whole table are pressed, as no two of them
\* share a scancode (keymap.rs, pressedKeys of app.js).
THEOREM NoKeyIsStuck == Spec => []KeysAgree
<1>1. Inv => KeysAgree
  <2> SUFFICES ASSUME Inv, wire = <<>>
               PROVE  /\ desktopKeys \subseteq Scancodes(pressedKeys)
                      /\ ~early => desktopKeys = Scancodes(pressedKeys)
    BY ScancodesDiffer DEF KeysAgree, Scancodes
  <2>1. PICK e : Drains(wire, Desktop, e) /\ Arrives(e)
    BY DEF Inv
  <2>2. e = Desktop
    BY <2>1, DrainsNothing
  <2>3. Desktop.keys = desktopKeys
    BY DEF Desktop
  <2> QED
    BY <2>1, <2>2, <2>3 DEF Arrives
<1> QED
  BY <1>1, Invariance, PTL
=============================================================================
