------------------------------- MODULE Preflight -------------------------------
(***************************************************************************)
(* How Harbor admits a workflow: compile_preflight_plan validates the task  *)
(* specs and derives the order, the critical path and the groups of         *)
(* overlapping writers, one node at a time; then run_instruction inserts    *)
(* the tasks in the order of their declaration.                             *)
(*                                                                         *)
(* A task is known by the rank of its name among the sorted names, because  *)
(* the compiler breaks ties by name.  What is wrong with a node by itself   *)
(* (a missing brief, a bad path, a malformed schema) is one flag.           *)
(***************************************************************************)
EXTENDS Integers, FiniteSets, Sequences

CONSTANTS
  N,      \* the tasks are 1..N, in the order of their names
  Specs   \* the workflows that may be handed in, the values of task_specs

Tasks == 1..N

\* A write scope is a file, the files below a directory, or the files that a
\* glob matches; its path ends before the first wildcard.
Scope == [kind : {"file", "dir", "glob"}, path : Seq({"a", "b"})]

\* The order in which the tasks are listed, depends_on (0 is a name that no
\* spec has), the nodes that are malformed in themselves, output_artifacts,
\* input_contract and write_scopes.
ASSUME PreflightAssumption ==
  /\ N \in Nat \ {0}
  /\ \A s \in Specs :
       /\ s.declared \in [Tasks -> Tasks]
       /\ \A t \in Tasks : \E i \in Tasks : s.declared[i] = t
       /\ s.depends \in [Tasks -> SUBSET (Tasks \cup {0})]
       /\ s.malformed \subseteq Tasks
       /\ \A t \in Tasks : \A w \in s.writes[t] : w \in Scope

VARIABLES
  spec,       \* task_specs
  pc, next,   \* the stage of the compiler, and how far it has come in it
  remaining,  \* the prerequisites that _topological_order still waits for
  order,      \* task_order
  depths, parents, path,  \* depths, parents, critical_path
  group,      \* the parent links of the union-find forest of _conflicts
  tasks       \* the rows that create_task has committed

vars == <<spec, pc, next, remaining, order, depths, parents, path, group, tasks>>

Init ==
  /\ spec \in Specs
  /\ pc = "read" /\ next = 1
  /\ remaining = spec.depends
  /\ order = <<>>
  /\ depths = [t \in Tasks |-> 0] /\ parents = [t \in Tasks |-> 0] /\ path = <<>>
  /\ group = [t \in Tasks |-> t]
  /\ tasks = {}

Stage(name) == pc' = name /\ next' = 1

Reject == pc' = "rejected" /\ UNCHANGED next

-----------------------------------------------------------------------------
(* Validation of the nodes and of their references. *)

\* Mutant: nodes are taken as they come.
ReadTrusting ==
  /\ pc = "read"
  /\ IF spec.declared[next] \in spec.depends[spec.declared[next]] THEN Reject
     ELSE IF next < N THEN next' = next + 1 /\ UNCHANGED pc
     ELSE Stage("link")
  /\ UNCHANGED <<spec, remaining, order, depths, parents, path, group, tasks>>

\* The specs are read in the order of their declaration.
Read ==
  /\ pc = "read"
  /\ LET t == spec.declared[next] IN
     IF t \in spec.malformed \/ t \in spec.depends[t] THEN Reject
     ELSE IF next < N THEN next' = next + 1 /\ UNCHANGED pc
     ELSE Stage("link")
  /\ UNCHANGED <<spec, remaining, order, depths, parents, path, group, tasks>>

Link ==
  /\ pc = "link"
  /\ IF \E t \in Tasks : 0 \in spec.depends[t] THEN Reject ELSE Stage("sort")
  /\ UNCHANGED <<spec, remaining, order, depths, parents, path, group, tasks>>

\* The members of a sequence.
Members(s) == {s[i] : i \in DOMAIN s}

\* Mutant: a node is ready when it waits for one prerequisite at most.
ReadyEarly == {t \in Tasks \ Members(order) : Cardinality(remaining[t]) <= 1}

Ready == {t \in Tasks \ Members(order) : remaining[t] = {}}

\* Kahn's algorithm takes the ready node with the least name.
Sort ==
  /\ pc = "sort"
  /\ \E t \in Ready :
       /\ \A u \in Ready : t <= u
       /\ order' = Append(order, t)
       /\ remaining' = [u \in Tasks |-> remaining[u] \ {t}]
  /\ UNCHANGED <<spec, pc, next, depths, parents, path, group, tasks>>

\* Nodes that never became ready wait for a cycle.
SortEnds ==
  /\ pc = "sort" /\ Ready = {}
  /\ IF Len(order) = N THEN Stage("measure") ELSE Reject
  /\ UNCHANGED <<spec, remaining, order, depths, parents, path, group, tasks>>

-----------------------------------------------------------------------------
(* Depths, inputs and the critical path. *)

\* The direct prerequisites of t that declare the artifact.
Producers(t, a) == {d \in spec.depends[t] : a \in spec.outputs[d]}

InputsServed(t) == \A a \in spec.inputs[t] : Cardinality(Producers(t, a)) = 1

\* Mutant: the prerequisite with the least name, whatever its depth.
DeepestFirstNamed(S, d) == d \in S /\ \A u \in S : d <= u

\* The deepest node of a set, the first by name among equals.
Deepest(S, d) ==
  /\ d \in S
  /\ \A u \in S : depths[u] < depths[d] \/ (depths[u] = depths[d] /\ d <= u)

Measure ==
  /\ pc = "measure"
  /\ LET t == order[next] IN
       /\ IF spec.depends[t] = {}
          THEN depths' = [depths EXCEPT ![t] = 1] /\ UNCHANGED parents
          ELSE \E d \in spec.depends[t] :
                 /\ Deepest(spec.depends[t], d)
                 /\ depths' = [depths EXCEPT ![t] = depths[d] + 1]
                 /\ parents' = [parents EXCEPT ![t] = d]
       /\ IF ~InputsServed(t) THEN Reject
          ELSE IF next < N THEN next' = next + 1 /\ UNCHANGED pc
          ELSE Stage("trace")
  /\ UNCHANGED <<spec, remaining, order, path, group, tasks>>

\* The leaf is the deepest node, the first of the order among equals; the path
\* follows the parents up to a root.
Trace ==
  /\ pc = "trace"
  /\ LET Leaf(i) == \A j \in Tasks :
           \/ depths[order[j]] < depths[order[i]]
           \/ depths[order[j]] = depths[order[i]] /\ i <= j
         Prepend(t) == path' = <<t>> \o path
     IN \/ path = <<>> /\ (\E i \in Tasks : Leaf(i) /\ Prepend(order[i])) /\ UNCHANGED <<pc, next>>
        \/ /\ path # <<>>
           /\ IF parents[Head(path)] # 0
              THEN Prepend(parents[Head(path)]) /\ UNCHANGED <<pc, next>>
              ELSE Stage("union") /\ UNCHANGED path
  /\ UNCHANGED <<spec, remaining, order, depths, parents, group, tasks>>

-----------------------------------------------------------------------------
(* Groups of overlapping writers. *)

Extends(s, t) == Len(t) <= Len(s) /\ SubSeq(s, 1, Len(t)) = t

\* _scope_overlaps: a directory overlaps itself and what is below it, and a
\* glob whatever its literal prefix can be continued to.
Overlap(l, r) ==
  \/ l = r
  \/ l.kind = "dir" /\ Extends(r.path, l.path)
  \/ r.kind = "dir" /\ Extends(l.path, r.path)
  \/ "glob" \in {l.kind, r.kind} /\ (Extends(l.path, r.path) \/ Extends(r.path, l.path))

Conflicting(t, u) == \E l \in spec.writes[t] : \E r \in spec.writes[u] : Overlap(l, r)

\* find(): path halving changes no root.
Root(t) ==
  LET up[n \in 0..N] == IF n = 0 THEN t ELSE group[up[n - 1]] IN up[N]

\* The pairs of tasks come in the order of the tasks.
Left == order[1 + ((next - 1) \div N)]
Right == order[1 + ((next - 1) % N)]

\* Mutant: the second task is linked instead of its root.
LinkLeafOnly == [group EXCEPT ![Right] = Root(Left)]

LinkRoots == [group EXCEPT ![Root(Right)] = Root(Left)]

Union ==
  /\ pc = "union"
  /\ group' = IF /\ (next - 1) \div N < (next - 1) % N
                  /\ Conflicting(Left, Right) /\ Root(Left) # Root(Right)
               THEN LinkRoots ELSE group
  /\ IF next < N * N THEN next' = next + 1 /\ UNCHANGED pc ELSE Stage("insert")
  /\ UNCHANGED <<spec, remaining, order, depths, parents, path, tasks>>

ConflictGroups ==
  {g \in {{u \in Tasks : Root(u) = Root(t)} : t \in Tasks} : Cardinality(g) >= 2}

-----------------------------------------------------------------------------
(* Insertion. *)

\* Mutant: the tasks are inserted in the order of their names.
InsertByName ==
  /\ pc = "insert"
  /\ IF spec.depends[next] \subseteq tasks
     THEN /\ tasks' = tasks \cup {next}
          /\ IF next < N THEN next' = next + 1 /\ UNCHANGED pc ELSE Stage("admitted")
     ELSE pc' = "broken" /\ UNCHANGED <<next, tasks>>
  /\ UNCHANGED <<spec, remaining, order, depths, parents, path, group>>

\* Each create_task is a transaction of its own; a dependency on a task that
\* is not there yet violates the foreign key of task_deps.
Insert ==
  /\ pc = "insert"
  /\ LET t == spec.declared[next] IN
     IF spec.depends[t] \subseteq tasks
     THEN /\ tasks' = tasks \cup {t}
          /\ IF next < N THEN next' = next + 1 /\ UNCHANGED pc ELSE Stage("admitted")
     ELSE pc' = "broken" /\ UNCHANGED <<next, tasks>>
  /\ UNCHANGED <<spec, remaining, order, depths, parents, path, group>>

Next ==
  Read \/ Link \/ Sort \/ SortEnds \/ Measure \/ Trace \/ Union \/ Insert

Spec == Init /\ [][Next]_vars

-----------------------------------------------------------------------------
(* Properties. *)

\* What a task waits for, directly or not.
Upstream(t) ==
  {u \in Tasks : \A S \in SUBSET Tasks :
     (spec.depends[t] \subseteq S \cup {0}
        /\ \A v \in S : spec.depends[v] \subseteq S \cup {0}) => u \in S}

Sound ==
  /\ spec.malformed = {}
  /\ \A t \in Tasks : 0 \notin spec.depends[t] /\ t \notin Upstream(t)
  /\ \A t \in Tasks : \A a \in spec.inputs[t] :
       \E d \in spec.depends[t] : \A e \in spec.depends[t] : a \in spec.outputs[e] <=> e = d

\* A workflow passes the preflight exactly when its references exist, no task
\* waits for itself by any path, and every input has one direct producer.
CompilesExactlySound ==
  /\ pc \in {"trace", "union", "insert", "admitted", "broken"} => Sound
  /\ pc = "rejected" => ~Sound

\* task_order has every task after all it waits for, and it is the first such
\* order by name: two compilations of the same workflow agree.
OrderIsFirst ==
  Len(order) = N =>
    /\ \A i \in Tasks : \A j \in Tasks : order[i] \in Upstream(order[j]) => i < j
    /\ \A i \in Tasks : \A j \in Tasks : i < j /\ order[j] < order[i] =>
         \E k \in i..(j - 1) : order[k] \in Upstream(order[j])

\* The critical path is a chain of prerequisites from a root, and no chain of
\* tasks that wait for each other is longer.
CriticalPathLongest ==
  pc \in {"union", "insert"} =>
    /\ spec.depends[path[1]] = {}
    /\ \A i \in 2..Len(path) : path[i - 1] \in spec.depends[path[i]]
    /\ \A S \in SUBSET Tasks :
         (\A t, u \in S : t = u \/ t \in Upstream(u) \/ u \in Upstream(t))
           => Cardinality(S) <= Len(path)

\* The files below the scopes' paths, enough to tell the scopes apart.
Files == UNION {[1..n -> {"a", "b"}] : n \in 1..3}

\* What a task with the scope may write.
Covers(s, f) ==
  CASE s.kind = "file" -> f = s.path
    [] s.kind = "dir" -> Extends(f, s.path) /\ f # s.path
    [] s.kind = "glob" -> Extends(f, s.path)

\* Two tasks that may write the same file are in one conflict group, and the
\* groups are no larger than chains of overlaps make them.
GroupsCoverWriters ==
  pc \in {"insert", "admitted"} =>
    /\ \A t, u \in Tasks :
         t # u /\ (\E f \in Files : (\E s \in spec.writes[t] : Covers(s, f))
                                 /\ (\E s \in spec.writes[u] : Covers(s, f)))
           => \E g \in ConflictGroups : {t, u} \subseteq g
    /\ \A g \in ConflictGroups : \A S \in SUBSET g :
         S # {} /\ S # g => \E t \in S : \E u \in g \ S : Conflicting(t, u)

\* A sound workflow that lists every task after its prerequisites is never
\* turned away, neither by the compiler nor halfway by the database.
BackwardIsAdmitted ==
  pc \in {"rejected", "broken"} =>
    \/ ~Sound
    \/ \E i \in Tasks : \E j \in i..N : spec.declared[j] \in spec.depends[spec.declared[i]]

\* harbor.py:123: "A malformed graph or contract must not leave durable tasks
\* behind", here for a graph whose declaration the database refuses.
NoTasksLeftBehind == pc \in {"rejected", "broken"} => tasks = {}
=============================================================================
