------------------------------ MODULE MCPreflight ------------------------------
(***************************************************************************)
(* Workflows of four tasks for TLC.  Each part of the preflight is given    *)
(* all the inputs of a small kind, and plain ones elsewhere.                *)
(***************************************************************************)
EXTENDS Preflight

Names == 1..N

Nothing == [t \in Names |-> {}]

InNameOrder == [i \in Names |-> i]

\* Every graph of the first three tasks, those with loops and with a name that
\* nobody declared included, listed in any order.
References ==
  [declared  : {d \in [Names -> Names] : d[4] = 4 /\ {d[1], d[2], d[3]} = 1..3},
   depends   : {g \in [Names -> SUBSET (0..3)] : g[4] = {}},
   malformed : {{}}, outputs : {Nothing}, inputs : {Nothing}, writes : {Nothing}]

\* The same with an entry that is malformed, in one order.
Malformed ==
  {[w EXCEPT !.malformed = {2}] : w \in {v \in References : v.declared = InNameOrder}}

\* Every graph of four tasks in which none waits for itself directly.
Graphs ==
  [declared : {InNameOrder},
   depends  : {g \in [Names -> SUBSET Names] : \A t \in Names : t \notin g[t]},
   malformed : {{}}, outputs : {Nothing}, inputs : {Nothing}, writes : {Nothing}]

\* Two artifacts, each of three tasks with any of them; the fourth needs some,
\* and has any prerequisites.
Contracts ==
  [declared : {InNameOrder},
   depends  : {g \in [Names -> SUBSET (1..3)] :
                 g[1] = {} /\ g[2] \in {{}, {1}} /\ g[3] \in {{}, {2}}},
   malformed : {{}},
   outputs  : {o \in [Names -> SUBSET {"x", "y"}] : o[4] = {}},
   inputs   : {[Nothing EXCEPT ![4] = i] : i \in {{"x"}, {"x", "y"}}},
   writes   : {Nothing}]

File(p) == [kind |-> "file", path |-> p]
Dir(p) == [kind |-> "dir", path |-> p]
Glob(p) == [kind |-> "glob", path |-> p]

\* Two files of a directory, the directory, a directory in it, and globs.
Overlaps ==
  [declared : {InNameOrder}, depends : {Nothing}, malformed : {{}},
   outputs : {Nothing}, inputs : {Nothing},
   writes : [Names -> {{}, {Dir(<<"a">>)}, {File(<<"a", "a">>)}, {File(<<"a", "b">>)},
                       {Dir(<<"a", "b">>), File(<<"b">>)}, {Glob(<<"b">>)},
                       {File(<<"b">>), File(<<"a", "a">>)}}]]

Workflows == References \cup Malformed \cup Graphs \cup Contracts \cup Overlaps
=============================================================================
