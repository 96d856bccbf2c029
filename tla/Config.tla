------------------------------- MODULE Config -------------------------------
(***************************************************************************)
(* Which desktop the gateway connects to (src/src/config.rs): one of the   *)
(* targets in the file of --config, or else one given by options, whose    *)
(* defaults come from the environment.  The file and the options change    *)
(* between two starts of the gateway; resolve_target runs once per start.  *)
(***************************************************************************)
EXTENDS Sequences, Integers

CONSTANTS
  Texts,       \* texts that are not blank
  Blank,       \* a host of white space, an empty user name or password
  MaxU16,      \* the largest port, width and height
  DefaultPort, DefaultWidth, DefaultHeight,
  Malformed,   \* a text from which clap makes no u16
  None,        \* an Option that is None, and no result
  Entries,     \* targets that may be written into the file
  Settings,    \* options and their values, as <<option, value>>
  MaxTargets   \* bound: targets in the file

U16 == 0 .. MaxU16

\* In the file host, user name and password are required, and what else is
\* missing has its default.
Targets ==
  [protocol : {None, "rdp", "other"}, name : Texts \cup {None}, host : Texts \cup {Blank},
   port : U16, username : Texts \cup {Blank}, password : Texts \cup {Blank},
   width : U16, height : U16]

\* The options that stand for a target, each from the command line, or else from
\* the environment, or else with its default.
Options ==
  [host : Texts \cup {Blank, None}, port : U16 \cup {Malformed},
   username : Texts \cup {Blank, None}, password : Texts \cup {Blank, None},
   width : U16 \cup {Malformed}, height : U16 \cup {Malformed}]

ASSUME NoneAssumption ==
  /\ None \notin Texts \cup {Blank} \cup Seq(Entries)
  /\ Malformed \notin U16

ASSUME EntriesAssumption ==
  /\ Entries \subseteq Targets
  /\ {DefaultPort, DefaultWidth, DefaultHeight} \subseteq U16
  /\ \A s \in Settings : \E o \in Options : s[1] \in DOMAIN o /\ o[s[1]] = s[2]

ASSUME BoundAssumption == MaxTargets \in Nat /\ MaxU16 \in Nat

VARIABLES
  config,    \* whether --config is given
  file,      \* the targets in the file, or None if it cannot be read and parsed
  target,    \* --target
  options    \* the other options

vars == <<config, file, target, options>>

Init ==
  /\ config = FALSE
  /\ file = <<>>
  /\ target = None
  /\ options = [host |-> None, port |-> DefaultPort, username |-> None, password |-> None,
                width |-> DefaultWidth, height |-> DefaultHeight]

-----------------------------------------------------------------------------

IsRdp(t) == t.protocol \in {None, "rdp"}

\* Slip: the last one is taken.
FindLast(found) == IF found = {} THEN None ELSE file[CHOOSE i \in found : \A j \in found : i >= j]

\* Iterator::find, of those at the given places
Find(found) == IF found = {} THEN None ELSE file[CHOOSE i \in found : \A j \in found : i <= j]

Selected ==
  IF file = None THEN None
  ELSE Find({i \in DOMAIN file : IF target = None THEN IsRdp(file[i]) ELSE file[i].name = target})

Validate(t) ==
  IF t = None \/ t.host = Blank \/ t.username = Blank \/ 0 \in {t.width, t.height} THEN None
  ELSE t

OfOptions ==
  IF None \in {options.host, options.username, options.password} THEN None
  ELSE [protocol |-> "rdp", name |-> None, host |-> options.host, port |-> options.port,
        username |-> options.username, password |-> options.password,
        width |-> options.width, height |-> options.height]

\* Slip: the port of the options overrides the one in the file.
ResolveTargetOnPort ==
  IF ~config THEN Validate(OfOptions)
  ELSE IF Selected = None \/ ~IsRdp(Selected) THEN None
  ELSE Validate([Selected EXCEPT !.port = options.port])

\* resolve_target: a target, or None where it returns an error
ResolveTarget ==
  IF ~config THEN Validate(OfOptions)
  ELSE IF Selected # None /\ ~IsRdp(Selected) THEN None
  ELSE Validate(Selected)

\* Args::parse ends the program if one of the numbers is none, with --config too.
Parsed == Malformed \notin {options.port, options.width, options.height}

\* main: the desktop that a start gives, or None where it fails
Started == IF Parsed THEN ResolveTarget ELSE None

-----------------------------------------------------------------------------
(* What changes between two starts *)

AppendTarget(t) ==
  /\ file # None
  /\ Len(file) < MaxTargets
  /\ file' = Append(file, t)
  /\ UNCHANGED <<config, target, options>>

BreakFile == file' = None /\ UNCHANGED <<config, target, options>>

SetTarget(name) == target' = name /\ UNCHANGED <<config, file, options>>

SetConfig(given) == config' = given /\ UNCHANGED <<file, target, options>>

SetOption(option, value) ==
  options' = [options EXCEPT ![option] = value] /\ UNCHANGED <<config, file, target>>

Next ==
  \/ \E t \in Entries : AppendTarget(t)
  \/ BreakFile
  \/ \E name \in Texts \cup {None} : SetTarget(name)
  \/ \E given \in BOOLEAN : SetConfig(given)
  \/ \E setting \in Settings : SetOption(setting[1], setting[2])

Spec == Init /\ [][Next]_vars

-----------------------------------------------------------------------------
(* Properties. *)

\* What a start does not depend on (resolve_target): one that works gives the
\* same desktop, to the last field, after a target is added to the end of the
\* file; with --config the values of the other options make no difference, as
\* long as all of them can be parsed; and without it file and --target make
\* none.
SelectionIsStable ==
  [][/\ (\E t \in Entries : AppendTarget(t)) /\ Started # None => Started' = Started
     /\ config /\ options' # options /\ Parsed /\ Parsed' => Started' = Started
     /\ ~config /\ UNCHANGED <<config, options>> => Started' = Started]_vars

\* "RDP port. Used when --config is omitted." (src/src/config.rs:27, and the like
\* at 23, 31, 39 and 43): with --config no other option decides whether or where
\* the gateway connects.
OptionsUnused == [][config /\ options' # options => Started' = Started]_vars
=============================================================================
