---------------------------- MODULE ConfigProofs ----------------------------
(***************************************************************************)
(* Proof about Config: what the desktop of a start does not depend on, for *)
(* files of any number of targets.                                         *)
(***************************************************************************)
EXTENDS Config, SequenceTheorems, NaturalsInduction, WellFoundedInduction, TLAPS

FileType == file = None \/ file \in Seq(Entries)

LEMMA FileTyped == Spec => []FileType
<1>1. Init => FileType
  BY DEF Init, FileType
<1>2. FileType /\ [Next]_vars => FileType'
  <2> SUFFICES ASSUME FileType, [Next]_vars PROVE FileType'
    OBVIOUS
  <2>1. ASSUME NEW t \in Entries, AppendTarget(t) PROVE FileType'
    BY <2>1, AppendProperties DEF AppendTarget, FileType
  <2>2. CASE BreakFile
    BY <2>2 DEF BreakFile, FileType
  <2>3. CASE UNCHANGED file
    BY <2>3 DEF FileType
  <2> QED
    BY <2>1, <2>2, <2>3 DEF Next, vars, SetTarget, SetConfig, SetOption
<1> QED
  BY <1>1, <1>2, PTL DEF Spec

\* The places of the targets that a start looks for, in the file f and by name
Found(f, name) ==
  {i \in DOMAIN f : IF name = None THEN IsRdp(f[i]) ELSE f[i].name = name}

First(i, found) == i \in found /\ \A j \in found : i <= j

Less == {x \in Nat \X Nat : x[1] < x[2]}

LEMMA LessWellFounded == IsWellFoundedOn(Less, Nat)
  BY NatLessThanWellFounded, Zenon DEF OpToRel, Less

LEMMA FirstExists ==
  ASSUME NEW found \in SUBSET Nat, found # {}
  PROVE  \E i \in Nat : First(i, found)
<1>1. PICK i \in found : \A j \in found : <<j, i>> \notin Less
  BY LessWellFounded, WFMin
<1>2. ASSUME NEW j \in found PROVE i <= j
  <2>1. ~(j < i)
    BY <1>1 DEF Less
  <2> QED
    BY <2>1
<1> QED
  BY <1>2 DEF First

\* Where the search ends
Place(f, name) == CHOOSE i \in Found(f, name) : \A j \in Found(f, name) : i <= j

LEMMA PlaceIsFirst ==
  ASSUME NEW f \in Seq(Entries), NEW name, Found(f, name) # {}
  PROVE  First(Place(f, name), Found(f, name))
<1>1. Found(f, name) \in SUBSET Nat
  BY LenProperties DEF Found
<1>2. PICK i : First(i, Found(f, name))
  BY <1>1, FirstExists
<1> QED
  BY <1>2 DEF Place, First

Chosen(f, name) == IF Found(f, name) = {} THEN None ELSE f[Place(f, name)]

LEMMA SelectedIs ==
  /\ file # None => Selected = Chosen(file, target)
  /\ file' # None => Selected' = Chosen(file', target')
<1>1. file # None => Selected = Chosen(file, target)
  BY Zenon DEF Selected, Find, Found, Chosen, Place
<1>2. file' # None => Selected' = Chosen(file', target')
  BY Zenon DEF Selected, Find, Found, Chosen, Place
<1> QED
  BY <1>1, <1>2

\* A target at the end of a file changes nothing for a search that ends before
\* it.
LEMMA ChosenStays ==
  ASSUME NEW f \in Seq(Entries), NEW t \in Entries, NEW name, Found(f, name) # {}
  PROVE  Chosen(Append(f, t), name) = Chosen(f, name)
<1>1. PICK n \in Nat : n = Len(f) /\ DOMAIN f = 1 .. n
  BY LenProperties
<1>2. PICK g : g = Append(f, t)
  OBVIOUS
<1>3. g \in Seq(Entries) /\ DOMAIN g = 1 .. n + 1 /\ \A i \in 1 .. n : g[i] = f[i]
  BY <1>1, <1>2, AppendProperties, LenProperties
<1>4. PICK old, new : old = Found(f, name) /\ new = Found(g, name)
  OBVIOUS
<1>5. \A i \in 1 .. n : i \in old <=> i \in new
  BY <1>1, <1>3, <1>4 DEF Found
<1>6. old \subseteq 1 .. n /\ new \subseteq 1 .. n + 1
  BY <1>1, <1>3, <1>4 DEF Found
<1>7. old \subseteq new /\ new # {}
  BY <1>4, <1>5, <1>6
<1>8. PICK p, q : p = Place(f, name) /\ q = Place(g, name)
  OBVIOUS
<1>9. First(p, old) /\ First(q, new)
  BY <1>3, <1>4, <1>7, <1>8, PlaceIsFirst
<1>10. q <= p /\ p \in 1 .. n /\ q \in 1 .. n + 1
  BY <1>6, <1>7, <1>9 DEF First
<1>11. q \in old
  BY <1>5, <1>9, <1>10 DEF First
<1>12. q = p
  BY <1>9, <1>10, <1>11 DEF First
<1> QED
  BY <1>2, <1>3, <1>4, <1>7, <1>8, <1>10, <1>12 DEF Chosen

\* A start that worked, with --config or without, gives the same target after
\* one is added to the end of the file.
LEMMA AppendKeeps ==
  ASSUME FileType, NEW t \in Entries, AppendTarget(t), Started # None
  PROVE  Started' = Started
<1>1. /\ file # None /\ file' = Append(file, t) /\ UNCHANGED <<config, target, options>>
      /\ ResolveTarget # None
  BY DEF AppendTarget, Started
<1>2. CASE ~config
  BY <1>1, <1>2 DEF Started, Parsed, ResolveTarget, OfOptions, Validate
<1>3. CASE config
  <2>1. Selected # None
    BY <1>1, <1>3 DEF ResolveTarget, Validate
  <2>2. file \in Seq(Entries)
    BY <1>1 DEF FileType
  <2>3. file' # None
    BY <1>1, <2>2, AppendProperties, NoneAssumption
  <2>4. Found(file, target) # {}
    BY <1>1, <2>1, SelectedIs DEF Chosen
  <2>5. Chosen(file', target') = Chosen(file, target)
    BY <1>1, <2>2, <2>4, ChosenStays
  <2>6. Selected' = Selected
    BY <1>1, <2>3, <2>5, SelectedIs
  <2> QED
    BY <1>1, <1>3, <2>6 DEF Started, Parsed, ResolveTarget, Validate, IsRdp
<1> QED
  BY <1>2, <1>3

\* With --config, the values of other options make no difference.
LEMMA OptionsKeep ==
  ASSUME [Next]_vars, config, options' # options, Parsed, Parsed'
  PROVE  Started' = Started
<1>1. UNCHANGED <<config, file, target>>
  BY DEF Next, vars, AppendTarget, BreakFile, SetTarget, SetConfig, SetOption
<1>2. Selected' = Selected
  <2>1. CASE file = None
    BY <1>1, <2>1 DEF Selected
  <2>2. CASE file # None
    BY <1>1, <2>2, SelectedIs
  <2> QED
    BY <2>1, <2>2
<1> QED
  BY <1>1, <1>2 DEF Started, ResolveTarget, Validate, IsRdp

\* Without --config, the file and --target make no difference.
LEMMA FileUnused ==
  ASSUME ~config, UNCHANGED <<config, options>>
  PROVE  Started' = Started
  BY DEF Started, Parsed, ResolveTarget, OfOptions, Validate

\* With a file of any number of targets, each of any kind, a start that works
\* connects to the same host and port, as the same user and with the same size,
\* after a target is added to the end of the file; with --config, after any
\* change of the other options, of the command line or the environment, that
\* clap can parse; and without --config, after any change of file and --target
\* (resolve_target).
THEOREM TargetIsStable == Spec => SelectionIsStable
<1> DEFINE Stable ==
             /\ (\E t \in Entries : AppendTarget(t)) /\ Started # None => Started' = Started
             /\ config /\ options' # options /\ Parsed /\ Parsed' => Started' = Started
             /\ ~config /\ UNCHANGED <<config, options>> => Started' = Started
<1>1. FileType /\ [Next]_vars => [Stable]_vars
  BY AppendKeeps, OptionsKeep, FileUnused
<1> QED
  BY <1>1, FileTyped, PTL DEF Spec, SelectionIsStable
=============================================================================
