------------------------------ MODULE ConfigMC ------------------------------
(* Finite instances of Config. *)
EXTENDS Config

CONSTANTS a, b   \* texts: a in the file, b in the options

Entry ==
  [protocol |-> "rdp", name |-> a, host |-> a, port |-> 1, username |-> a, password |-> a,
   width |-> 1, height |-> 1]

\* Targets of each protocol with and without a name, and ones that differ from
\* Entry in the port or are refused
MCEntries ==
  {[Entry EXCEPT !.protocol = p, !.name = n] : p \in {None, "rdp", "other"}, n \in {None, a}}
  \cup {[Entry EXCEPT !.port = 0], [Entry EXCEPT !.host = Blank],
        [Entry EXCEPT !.username = Blank], [Entry EXCEPT !.width = 0],
        [Entry EXCEPT !.height = 0]}

MCSettings ==
  ({"host", "username", "password"} \X {None, Blank, b})
  \cup ({"port", "width"} \X {1, Malformed})
  \cup ({"height"} \X {0, 2})
=============================================================================
