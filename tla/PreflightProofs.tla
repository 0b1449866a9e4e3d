---------------------------- MODULE PreflightProofs ----------------------------
(***************************************************************************)
(* Theorems about Preflight, for any number of tasks and any workflows.     *)
(***************************************************************************)
EXTENDS Preflight, FiniteSetTheorems, WellFoundedInduction, TLAPS

-----------------------------------------------------------------------------
(* The inductive invariant, stage by stage. *)

Compiled == {"trace", "union", "insert", "admitted", "broken"}

TypeOK ==
  /\ spec \in Specs
  /\ pc \in {"read", "link", "sort", "measure", "rejected"} \cup Compiled
  /\ next \in Nat \ {0}
  /\ pc \in {"read", "measure", "insert"} => next <= N
  /\ pc = "union" => next <= N * N
  /\ remaining \in [Tasks -> SUBSET (Tasks \cup {0})]
  /\ order \in Seq(Tasks)
  /\ depths \in [Tasks -> Nat]
  /\ parents \in [Tasks -> Tasks \cup {0}]
  /\ path \in Seq(Tasks)
  /\ group \in [Tasks -> Tasks]
  /\ tasks \in SUBSET Tasks

(* What has been read is well formed in itself. *)
Formed(t) == t \notin spec.malformed /\ t \notin spec.depends[t]

ReadInv ==
  /\ pc = "read" => \A i \in 1..(next - 1) : Formed(spec.declared[i])
  /\ pc \notin {"read", "rejected"} => \A t \in Tasks : Formed(t)
  /\ pc \in {"sort", "measure"} \cup Compiled => \A t \in Tasks : 0 \notin spec.depends[t]

(* The tasks that are ordered before position i. *)
Before(i) == {order[j] : j \in 1..(i - 1)}

(* At its position a task is new, has what it waits for before it, and is the *)
(* first by name of all that do.                                             *)
Placed(i) ==
  /\ order[i] \notin Before(i)
  /\ spec.depends[order[i]] \subseteq Before(i)
  /\ \A u \in Tasks \ Before(i) : spec.depends[u] \subseteq Before(i) => order[i] <= u

SortInv ==
  /\ \A i \in DOMAIN order : Placed(i)
  /\ remaining = [u \in Tasks |-> spec.depends[u] \ Members(order)]
  /\ Cardinality(Tasks \ Members(order)) = N - Len(order)
  /\ pc \in {"measure"} \cup Compiled => Len(order) = N

(* The depth of a task is one more than that of its deepest prerequisite,    *)
(* which is its parent.                                                      *)
Measured(t) ==
  /\ spec.depends[t] = {} => depths[t] = 1 /\ parents[t] = 0
  /\ spec.depends[t] # {} =>
       /\ parents[t] \in spec.depends[t]
       /\ depths[t] = depths[parents[t]] + 1
       /\ \A u \in spec.depends[t] : depths[u] <= depths[parents[t]]

MeasureInv ==
  /\ pc \in {"read", "link", "sort"} => \A t \in Tasks : parents[t] = 0
  /\ pc = "measure" =>
       /\ \A i \in 1..(next - 1) : Measured(order[i]) /\ InputsServed(order[i])
       /\ \A i \in next..N : parents[order[i]] = 0
  /\ pc \in Compiled => \A t \in Tasks : Measured(t) /\ InputsServed(t)

(* The path so far: it ends in a deepest task and goes down by prerequisites. *)
Descends ==
  /\ \A t \in Tasks : depths[t] <= depths[path[Len(path)]]
  /\ \A i \in 2..Len(path) : path[i - 1] \in spec.depends[path[i]]
  /\ depths[path[Len(path)]] = depths[path[1]] + Len(path) - 1

TraceInv ==
  /\ pc \notin Compiled => path = <<>>
  /\ path # <<>> => Descends
  /\ pc \in Compiled \ {"trace"} => path # <<>> /\ spec.depends[path[1]] = {}

(* The rows inserted so far, and why a row cannot be. *)
InsertInv ==
  /\ pc = "insert" => \A j \in 1..(next - 1) : spec.declared[j] \in tasks
  /\ pc = "broken" =>
       \E i \in Tasks : \E j \in i..N : spec.declared[j] \in spec.depends[spec.declared[i]]

CompileInv ==
  /\ TypeOK /\ ReadInv /\ SortInv /\ MeasureInv /\ TraceInv /\ InsertInv
  /\ pc = "rejected" => ~Sound

-----------------------------------------------------------------------------
(* The constants, the workflow that is handed in, and induction.            *)

LEMMA TasksFinite ==
  /\ N \in Nat \ {0}
  /\ Tasks = 1..N
  /\ Tasks \subseteq Nat \ {0}
  /\ IsFiniteSet(Tasks)
  /\ Cardinality(Tasks) = N
<1>1. N \in Nat \ {0} /\ Tasks = 1..N
  BY PreflightAssumption DEF Tasks
<1>2. QED
  BY <1>1, FS_Interval

(* What is assumed of a workflow. *)
LEMMA Workflow ==
  ASSUME spec \in Specs
  PROVE  /\ spec.declared \in [Tasks -> Tasks]
         /\ \A t \in Tasks : \E i \in Tasks : spec.declared[i] = t
         /\ spec.depends \in [Tasks -> SUBSET (Tasks \cup {0})]
         /\ spec.malformed \subseteq Tasks
BY PreflightAssumption

(* A set of natural numbers that is not empty has a least one. *)
LEMMA LeastNat ==
  ASSUME NEW T \in SUBSET Nat, T # {}
  PROVE  \E m \in T : \A k \in T : m <= k
<1> DEFINE R == {ss \in Nat \X Nat : ss[1] < ss[2]}
<1>1. IsWellFoundedOn(R, Nat)
  BY NatLessThanWellFounded DEF OpToRel
<1> HIDE DEF R
<1>2. PICK m \in T : \A k \in T : <<k, m>> \notin R
  BY <1>1, WFMin
<1>3. \A k \in T : ~(k < m)
  BY <1>2 DEF R
<1>4. QED
  BY <1>3

-----------------------------------------------------------------------------
(* What a task waits for. *)

(* A set that has what t waits for directly, and what its members wait for,   *)
(* has everything that t waits for.                                         *)
LEMMA UpstreamWithin ==
  ASSUME NEW t, NEW S \in SUBSET Tasks,
         spec.depends[t] \subseteq S \cup {0},
         \A v \in S : spec.depends[v] \subseteq S \cup {0}
  PROVE  Upstream(t) \subseteq S
BY DEF Upstream

(* What a prerequisite waits for, its dependents wait for. *)
LEMMA UpstreamOfPrerequisite ==
  ASSUME NEW t, NEW d \in spec.depends[t], d \in Tasks
  PROVE  Upstream(d) \cup {d} \subseteq Upstream(t)
<1>1. d # 0
  BY TasksFinite
<1>2. ASSUME NEW u \in Upstream(d) \cup {d}, NEW S \in SUBSET Tasks,
             spec.depends[t] \subseteq S \cup {0},
             \A v \in S : spec.depends[v] \subseteq S \cup {0}
      PROVE  u \in S
  <2>1. d \in S /\ spec.depends[d] \subseteq S \cup {0}
    BY <1>1, <1>2
  <2>2. QED
    BY <1>2, <2>1 DEF Upstream
<1>3. \A u \in Upstream(d) \cup {d} : u \in Tasks
  BY DEF Upstream
<1>4. QED
  BY <1>2, <1>3 DEF Upstream

(* Tasks of which each waits for another of them are not all sound. *)
LEMMA NoSoundCircle ==
  ASSUME NEW U \in SUBSET Tasks, U # {},
         \A t \in U : \E d \in spec.depends[t] : d \in U
  PROVE  ~Sound
<1> SUFFICES ASSUME Sound PROVE FALSE
  OBVIOUS
<1> DEFINE F == {Upstream(t) : t \in U}
<1>1. F \subseteq FiniteSubsetsOf(Tasks) /\ F # {}
  <2>1. \A t \in U : Upstream(t) \in SUBSET Tasks
    BY DEF Upstream
  <2>2. FiniteSubsetsOf(Tasks) = SUBSET Tasks
    BY TasksFinite, FS_FiniteSubsetsOfFinite
  <2>3. QED
    BY <2>1, <2>2
<1> HIDE DEF F
<1>2. PICK X \in F : \A Y \in F : ~(<<Y, X>> \in StrictSubsetOrdering(Tasks))
  BY <1>1, FS_StrictSubsetOrderingWellFounded, WFMin
<1>3. PICK t \in U : X = Upstream(t)
  BY DEF F
<1>4. PICK d \in spec.depends[t] : d \in U
  OBVIOUS
<1>5. t \in Tasks /\ d \in Tasks /\ d \notin Upstream(d)
  BY <1>4 DEF Sound
<1>6. Upstream(d) \subseteq Upstream(t) /\ d \in Upstream(t)
  BY <1>4, <1>5, UpstreamOfPrerequisite
<1>7. Upstream(d) \in F
  BY <1>4 DEF F
<1>8. Upstream(d) \in SUBSET Tasks /\ Upstream(t) \in SUBSET Tasks
  BY DEF Upstream
<1>9. <<Upstream(d), Upstream(t)>> \in StrictSubsetOrdering(Tasks)
  BY <1>5, <1>6, <1>8 DEF StrictSubsetOrdering
<1>10. QED
  BY <1>2, <1>3, <1>7, <1>9

(* A direct loop is a circle. *)
LEMMA LoopIsUnsound ==
  ASSUME NEW t \in Tasks, t \in spec.depends[t]
  PROVE  ~Sound
BY UpstreamOfPrerequisite DEF Sound

(* Nothing but the workflow decides whether it is sound. *)
LEMMA SoundStays ==
  ASSUME UNCHANGED spec
  PROVE  /\ Sound' <=> Sound
         /\ \A t : Upstream(t)' = Upstream(t)
BY DEF Sound, Upstream

-----------------------------------------------------------------------------
(* The order. *)

LEMMA OrderTyped ==
  ASSUME TypeOK
  PROVE  /\ Len(order) \in Nat
         /\ DOMAIN order = 1..Len(order)
         /\ \A i \in 1..Len(order) : order[i] \in Tasks
BY DEF TypeOK

(* Of a complete order: it has every task once, and what is before a task is  *)
(* all it waits for and more.                                               *)
LEMMA OrderIsOnto ==
  ASSUME TypeOK, SortInv, Len(order) = N
  PROVE  /\ DOMAIN order = Tasks
         /\ \A t \in Tasks : \E i \in Tasks : order[i] = t
<1>1. DOMAIN order = Tasks
  BY TasksFinite DEF TypeOK
<1>2. IsFiniteSet(Tasks \ Members(order))
  BY TasksFinite, FS_Difference
<1>3. Cardinality(Tasks \ Members(order)) = 0
  BY TasksFinite DEF SortInv
<1>4. Tasks \ Members(order) = {}
  BY <1>2, <1>3, FS_EmptySet
<1>5. QED
  BY <1>1, <1>4 DEF Members

LEMMA BeforeIsClosed ==
  ASSUME TypeOK, SortInv, NEW i \in DOMAIN order
  PROVE  /\ Before(i) \in SUBSET Tasks
         /\ \A v \in Before(i) : spec.depends[v] \subseteq Before(i)
         /\ Upstream(order[i]) \subseteq Before(i)
         /\ order[i] \notin Before(i)
<1>1. DOMAIN order = 1..Len(order) /\ Len(order) \in Nat /\ \A j \in DOMAIN order : order[j] \in Tasks
  BY DEF TypeOK
<1>2. \A j \in 1..(i - 1) : j \in DOMAIN order /\ 1..(j - 1) \subseteq 1..(i - 1)
  BY <1>1
<1>3. Before(i) \in SUBSET Tasks
  BY <1>1, <1>2 DEF Before
<1>4. ASSUME NEW v \in Before(i) PROVE spec.depends[v] \subseteq Before(i)
  <2>1. PICK j \in 1..(i - 1) : v = order[j]
    BY DEF Before
  <2>2. spec.depends[v] \subseteq Before(j)
    BY <1>2, <2>1 DEF SortInv, Placed
  <2>3. Before(j) \subseteq Before(i)
    BY <1>2 DEF Before
  <2>4. QED
    BY <2>2, <2>3
<1>5. spec.depends[order[i]] \subseteq Before(i) /\ order[i] \notin Before(i)
  BY DEF SortInv, Placed
<1>6. Upstream(order[i]) \subseteq Before(i)
  BY <1>3, <1>4, <1>5, UpstreamWithin
<1>7. QED
  BY <1>3, <1>4, <1>5, <1>6

(* A complete order shows that no task waits for itself. *)
LEMMA OrderedIsAcyclic ==
  ASSUME TypeOK, SortInv, Len(order) = N, NEW t \in Tasks
  PROVE  t \notin Upstream(t)
BY OrderIsOnto, BeforeIsClosed

(* Positions of a complete order are told apart by their tasks. *)
LEMMA OrderIsOneToOne ==
  ASSUME TypeOK, SortInv, NEW i \in DOMAIN order, NEW j \in DOMAIN order,
         order[i] \in Before(j) \cup {order[j]}
  PROVE  /\ order[i] \in Before(j) => i < j
         /\ order[i] = order[j] => i = j
<1>1. DOMAIN order = 1..Len(order) /\ Len(order) \in Nat
  BY DEF TypeOK
<1>2. ASSUME NEW k \in DOMAIN order, NEW m \in DOMAIN order, k < m
      PROVE  order[k] # order[m]
  <2>1. order[k] \in Before(m)
    BY <1>1, <1>2 DEF Before
  <2>2. QED
    BY <2>1 DEF SortInv, Placed
<1>3. order[i] = order[j] => i = j
  BY <1>1, <1>2
<1>4. ASSUME order[i] \in Before(j) PROVE i < j
  <2>1. PICK k \in 1..(j - 1) : order[k] = order[i]
    BY <1>4 DEF Before
  <2>2. k \in DOMAIN order /\ k < j
    BY <1>1
  <2>3. k = i
    BY <1>1, <1>2, <2>1, <2>2
  <2>4. QED
    BY <2>2, <2>3
<1>5. QED
  BY <1>3, <1>4

-----------------------------------------------------------------------------
(* Each part of the invariant is kept by a step that leaves its variables    *)
(* alone.                                                                   *)

LEMMA SortKept ==
  ASSUME SortInv, UNCHANGED <<spec, order, remaining>>,
         pc' \in {"measure"} \cup Compiled => Len(order) = N
  PROVE  SortInv'
BY DEF SortInv, Placed, Before, Members

LEMMA MeasuresStay ==
  ASSUME UNCHANGED <<spec, order, depths, parents>>
  PROVE  /\ \A t : Measured(t)' <=> Measured(t)
         /\ \A t : InputsServed(t)' <=> InputsServed(t)
BY DEF Measured, InputsServed, Producers

(* Up to the order, nothing has been measured, traced or inserted. *)
LEMMA EarlyKept ==
  ASSUME SortInv, MeasureInv, TraceInv,
         pc \in {"read", "link"}, pc' \in {"read", "link", "sort", "rejected"},
         UNCHANGED <<spec, remaining, order, depths, parents, path>>
  PROVE  SortInv' /\ MeasureInv' /\ TraceInv' /\ InsertInv'
<1>1. pc' \notin {"measure"} \cup Compiled /\ pc \notin Compiled
  BY DEF Compiled
<1>2. SortInv'
  BY <1>1, SortKept
<1>3. MeasureInv'
  BY <1>1 DEF MeasureInv
<1>4. TraceInv'
  BY <1>1 DEF TraceInv, Compiled
<1>5. InsertInv'
  BY DEF InsertInv
<1>6. QED
  BY <1>2, <1>3, <1>4, <1>5

LEMMA InitCompileInv == Init => CompileInv
<1> SUFFICES ASSUME Init PROVE CompileInv
  OBVIOUS
<1>1. /\ spec \in Specs /\ pc = "read" /\ next = 1 /\ order = <<>> /\ path = <<>>
      /\ remaining = spec.depends /\ tasks = {}
      /\ depths = [t \in Tasks |-> 0] /\ parents = [t \in Tasks |-> 0]
      /\ group = [t \in Tasks |-> t]
  BY DEF Init
<1>2. spec.depends \in [Tasks -> SUBSET (Tasks \cup {0})]
  BY <1>1, Workflow
<1>3. TypeOK
  BY <1>1, <1>2, TasksFinite DEF TypeOK
<1>4. ReadInv
  BY <1>1 DEF ReadInv, Compiled
<1>5. SortInv
  <2>1. DOMAIN order = {} /\ Len(order) = 0 /\ Members(order) = {}
    BY <1>1 DEF Members
  <2>2. Tasks \ {} = Tasks
    OBVIOUS
  <2>3. Cardinality(Tasks \ Members(order)) = N - Len(order)
    BY <2>1, <2>2, TasksFinite
  <2>4. remaining = [u \in Tasks |-> spec.depends[u] \ Members(order)]
    BY <1>1, <1>2, <2>1
  <2>5. pc \notin {"measure"} \cup Compiled
    BY <1>1 DEF Compiled
  <2>6. QED
    BY <2>1, <2>3, <2>4, <2>5 DEF SortInv
<1>6. MeasureInv /\ TraceInv /\ InsertInv
  BY <1>1 DEF MeasureInv, TraceInv, InsertInv, Compiled
<1>7. QED
  BY <1>1, <1>3, <1>4, <1>5, <1>6 DEF CompileInv

LEMMA ReadStep == CompileInv /\ Read => CompileInv'
<1> SUFFICES ASSUME CompileInv, Read PROVE CompileInv'
  OBVIOUS
<1> DEFINE t == spec.declared[next]
<1>1. /\ TypeOK /\ ReadInv /\ SortInv /\ MeasureInv /\ TraceInv /\ InsertInv
  BY DEF CompileInv
<1>2. /\ pc = "read" /\ next \in 1..N
      /\ UNCHANGED <<spec, remaining, order, depths, parents, path, group, tasks>>
      /\ \/ ~Formed(t) /\ pc' = "rejected" /\ next' = next
         \/ Formed(t) /\ next < N /\ next' = next + 1 /\ pc' = "read"
         \/ Formed(t) /\ next = N /\ next' = 1 /\ pc' = "link"
  <2>1. pc = "read" /\ next \in 1..N
    BY <1>1, TasksFinite DEF Read, TypeOK
  <2>2. N \in Nat /\ (~(next < N) => next = N)
    BY <2>1, TasksFinite
  <2>3. QED
    BY <2>1, <2>2 DEF Read, Reject, Stage, Formed
<1>3. t \in Tasks
  BY <1>1, <1>2, Workflow, TasksFinite DEF TypeOK
<1>4. TypeOK'
  <2>1. /\ pc' \in {"read", "link", "sort", "measure", "rejected"} \cup Compiled
        /\ pc' \notin {"measure", "union", "insert"}
    BY <1>2 DEF Compiled
  <2>2. next' \in Nat \ {0} /\ (pc' = "read" => next' <= N)
    BY <1>2, TasksFinite
  <2>3. QED
    BY <1>1, <1>2, <2>1, <2>2 DEF TypeOK
<1>5. ReadInv'
  <2>1. \A u : Formed(u)' <=> Formed(u)
    BY <1>2 DEF Formed
  <2>2. ASSUME Formed(t) PROVE \A i \in 1..next : Formed(spec.declared[i])
    <3>1. \A i \in 1..next : i = next \/ i \in 1..(next - 1)
      BY <1>2
    <3>2. \A i \in 1..(next - 1) : Formed(spec.declared[i])
      BY <1>1, <1>2 DEF ReadInv
    <3>3. QED
      BY <2>2, <3>1, <3>2
  <2>3. CASE pc' = "rejected"
    BY <2>3 DEF ReadInv, Compiled
  <2>4. CASE Formed(t) /\ next < N /\ next' = next + 1 /\ pc' = "read"
    BY <1>1, <1>2, <2>1, <2>2, <2>4 DEF ReadInv, Compiled, TypeOK
  <2>5. CASE Formed(t) /\ next = N /\ pc' = "link"
    <3>1. \A u \in Tasks : \E i \in 1..N : spec.declared[i] = u
      BY <1>1, Workflow, TasksFinite DEF TypeOK
    <3>2. \A u \in Tasks : Formed(u)
      BY <2>2, <2>5, <3>1
    <3>3. QED
      BY <1>2, <2>1, <2>5, <3>2 DEF ReadInv, Compiled
  <2>6. QED
    BY <1>2, <2>3, <2>4, <2>5
<1>6. SortInv' /\ MeasureInv' /\ TraceInv' /\ InsertInv'
  BY <1>1, <1>2, EarlyKept
<1>7. pc' = "rejected" => ~Sound'
  <2>1. ASSUME ~Formed(t) PROVE ~Sound
    BY <1>3, <2>1, LoopIsUnsound DEF Formed, Sound
  <2>2. QED
    BY <1>2, <2>1, SoundStays
<1>8. QED
  BY <1>4, <1>5, <1>6, <1>7 DEF CompileInv

LEMMA LinkStep == CompileInv /\ Link => CompileInv'
<1> SUFFICES ASSUME CompileInv, Link PROVE CompileInv'
  OBVIOUS
<1>1. /\ TypeOK /\ ReadInv /\ SortInv /\ MeasureInv /\ TraceInv /\ InsertInv
  BY DEF CompileInv
<1>2. /\ pc = "link"
      /\ UNCHANGED <<spec, remaining, order, depths, parents, path, group, tasks>>
      /\ \/ (\E t \in Tasks : 0 \in spec.depends[t]) /\ pc' = "rejected" /\ next' = next
         \/ (\A t \in Tasks : 0 \notin spec.depends[t]) /\ pc' = "sort" /\ next' = 1
  BY DEF Link, Reject, Stage
<1>3. TypeOK'
  BY <1>1, <1>2 DEF TypeOK, Compiled
<1>4. ReadInv'
  BY <1>1, <1>2 DEF ReadInv, Formed, Compiled
<1>5. SortInv' /\ MeasureInv' /\ TraceInv' /\ InsertInv'
  BY <1>1, <1>2, EarlyKept
<1>6. pc' = "rejected" => ~Sound'
  BY <1>2, SoundStays DEF Sound
<1>7. QED
  BY <1>3, <1>4, <1>5, <1>6 DEF CompileInv

LEMMA SortStep == CompileInv /\ Sort => CompileInv'
<1> SUFFICES ASSUME CompileInv, Sort PROVE CompileInv'
  OBVIOUS
<1>1. /\ TypeOK /\ ReadInv /\ SortInv /\ MeasureInv /\ TraceInv /\ InsertInv
  BY DEF CompileInv
<1>2. PICK t \in Ready :
        /\ \A u \in Ready : t <= u
        /\ order' = Append(order, t)
        /\ remaining' = [u \in Tasks |-> remaining[u] \ {t}]
  BY DEF Sort
<1>3. /\ pc = "sort" /\ pc' = "sort"
      /\ UNCHANGED <<spec, pc, next, depths, parents, path, group, tasks>>
  BY DEF Sort
<1>4. /\ \A u : u \in Ready <=> u \in Tasks /\ u \notin Members(order) /\ remaining[u] = {}
      /\ \A u \in Tasks : remaining[u] = spec.depends[u] \ Members(order)
  BY <1>1 DEF Ready, SortInv
<1>5. /\ order \in Seq(Tasks) /\ Len(order) \in Nat /\ DOMAIN order = 1..Len(order)
      /\ t \in Tasks /\ t \notin Members(order) /\ spec.depends[t] \subseteq Members(order)
  <2>1. order \in Seq(Tasks)
    BY <1>1 DEF TypeOK
  <2>2. t \in Tasks /\ t \notin Members(order) /\ spec.depends[t] \subseteq Members(order)
    BY <1>4
  <2>3. QED
    BY <2>1, <2>2
<1>n. PICK n \in Nat : n = Len(order)
  BY <1>5
<1>6. /\ order' \in Seq(Tasks) /\ Len(order') = n + 1 /\ DOMAIN order' = 1..(n + 1)
      /\ order'[n + 1] = t
      /\ \A i \in 1..n : order'[i] = order[i]
  BY <1>2, <1>5, <1>n
<1>7. TypeOK'
  <2>1. remaining' \in [Tasks -> SUBSET (Tasks \cup {0})]
    BY <1>1, <1>2 DEF TypeOK
  <2>2. QED
    BY <1>1, <1>3, <1>6, <2>1 DEF TypeOK
<1>8. ReadInv'
  BY <1>1, <1>3 DEF ReadInv, Formed
<1>9. n \in Nat /\ DOMAIN order = 1..n /\ Len(order) = n
  BY <1>5, <1>n
<1>10. Members(order') = Members(order) \cup {t}
  BY <1>6, <1>9 DEF Members
<1>11. SortInv'
  <2>1. ASSUME NEW i \in 1..n PROVE Placed(i)'
    <3>1. Before(i)' = Before(i)
      BY <1>6, <1>9 DEF Before
    <3>2. Placed(i) /\ order'[i] = order[i]
      BY <1>1, <1>6, <1>9 DEF SortInv
    <3>3. QED
      BY <1>3, <3>1, <3>2 DEF Placed
  <2>2. Placed(n + 1)'
    <3>1. Before(n + 1)' = Members(order)
      <4>1. 1..((n + 1) - 1) = 1..n
        BY <1>9
      <4>2. Before(n + 1)' = {order'[j] : j \in 1..n}
        BY <4>1 DEF Before
      <4>3. QED
        BY <1>6, <1>9, <4>2 DEF Members
    <3>2. ASSUME NEW u \in Tasks \ Members(order), spec.depends[u] \subseteq Members(order)
          PROVE  t <= u
      <4>1. remaining[u] = {}
        BY <1>4, <3>2
      <4>2. u \in Ready
        BY <1>4, <4>1
      <4>3. QED
        BY <1>2, <4>2
    <3>3. QED
      BY <1>3, <1>5, <1>6, <3>1, <3>2 DEF Placed
  <2>3. \A i \in DOMAIN order' : Placed(i)'
    <3>1. \A i \in 1..(n + 1) : i \in 1..n \/ i = n + 1
      BY <1>9
    <3>2. QED
      BY <1>6, <2>1, <2>2, <3>1
  <2>4. remaining' = [u \in Tasks |-> spec'.depends[u] \ Members(order')]
    BY <1>2, <1>3, <1>4, <1>10
  <2>5. Cardinality(Tasks \ Members(order')) = N - Len(order')
    <3>1. IsFiniteSet(Tasks \ Members(order))
      BY TasksFinite, FS_Difference
    <3>2. Tasks \ Members(order') = (Tasks \ Members(order)) \ {t}
      BY <1>10
    <3>3. Cardinality(Tasks \ Members(order')) = Cardinality(Tasks \ Members(order)) - 1
      BY <1>5, <3>1, <3>2, FS_RemoveElement
    <3>4. Cardinality(Tasks \ Members(order)) = N - n
      BY <1>1, <1>9 DEF SortInv
    <3>5. QED
      BY <1>6, <1>9, <3>3, <3>4, TasksFinite
  <2>6. pc' \notin {"measure"} \cup Compiled
    BY <1>3 DEF Compiled
  <2>7. QED
    BY <2>3, <2>4, <2>5, <2>6 DEF SortInv
<1>12. MeasureInv' /\ TraceInv' /\ InsertInv' /\ pc' # "rejected"
  BY <1>1, <1>3 DEF MeasureInv, TraceInv, InsertInv, Compiled
<1>13. QED
  BY <1>7, <1>8, <1>11, <1>12 DEF CompileInv

(* When no task is ready, the order is complete or what is left waits for    *)
(* itself.                                                                  *)
LEMMA SortEndsStep == CompileInv /\ SortEnds => CompileInv'
<1> SUFFICES ASSUME CompileInv, SortEnds PROVE CompileInv'
  OBVIOUS
<1>1. /\ TypeOK /\ ReadInv /\ SortInv /\ MeasureInv /\ TraceInv /\ InsertInv
  BY DEF CompileInv
<1>2. /\ pc = "sort" /\ Ready = {}
      /\ UNCHANGED <<spec, remaining, order, depths, parents, path, group, tasks>>
      /\ \/ Len(order) = N /\ pc' = "measure" /\ next' = 1
         \/ Len(order) # N /\ pc' = "rejected" /\ next' = next
  BY DEF SortEnds, Stage, Reject
<1>3. TypeOK'
  <2>1. pc' \in {"measure", "rejected"} /\ next' \in Nat \ {0} /\ (pc' = "measure" => next' <= N)
    <3>1. next \in Nat \ {0} /\ N \in Nat \ {0}
      BY <1>1, TasksFinite DEF TypeOK
    <3>2. 1 \in Nat \ {0} /\ 1 <= N
      BY <3>1
    <3>3. QED
      BY <1>2, <3>1, <3>2
  <2>2. QED
    BY <1>1, <1>2, <2>1 DEF TypeOK, Compiled
<1>4. ReadInv'
  BY <1>1, <1>2 DEF ReadInv, Formed, Compiled
<1>5. SortInv'
  BY <1>1, <1>2, SortKept DEF Compiled
<1>6. MeasureInv'
  <2>1. CASE pc' = "measure"
    <3>1. \A i \in 1..N : order[i] \in Tasks
      BY <1>1, <1>2, <2>1, OrderTyped
    <3>2. \A i \in 1..N : parents[order[i]] = 0
      BY <1>1, <1>2, <3>1 DEF MeasureInv
    <3>3. QED
      BY <1>2, <2>1, <3>2 DEF MeasureInv, Compiled
  <2>2. CASE pc' = "rejected"
    BY <2>2 DEF MeasureInv, Compiled
  <2>3. QED
    BY <1>2, <2>1, <2>2
<1>7. TraceInv' /\ InsertInv'
  BY <1>1, <1>2 DEF TraceInv, InsertInv, Compiled
<1>8. pc' = "rejected" => ~Sound'
  <2>1. ASSUME pc' = "rejected" PROVE ~Sound
    <3> DEFINE U == Tasks \ Members(order)
    <3>1. Cardinality(U) # 0
      BY <1>1, <1>2, <2>1, TasksFinite DEF SortInv, TypeOK
    <3>2. U # {}
      BY <3>1, FS_EmptySet
    <3>3. ASSUME NEW t \in U PROVE \E d \in spec.depends[t] : d \in U
      <4>1. spec.depends[t] \ Members(order) # {}
        BY <1>1, <1>2, <3>3 DEF Ready, SortInv
      <4>2. spec.depends[t] \subseteq Tasks
        BY <1>1, <1>2, <3>3, Workflow DEF ReadInv, TypeOK
      <4>3. QED
        BY <4>1, <4>2
    <3> HIDE DEF U
    <3>4. U \in SUBSET Tasks
      BY DEF U
    <3>5. QED
      BY <3>2, <3>3, <3>4, NoSoundCircle
  <2>2. QED
    BY <1>2, <2>1, SoundStays
<1>9. QED
  BY <1>3, <1>4, <1>5, <1>6, <1>7, <1>8 DEF CompileInv

-----------------------------------------------------------------------------
(* The depths and the path. *)

(* The check of the inputs is what soundness says of them. *)
LEMMA ServedIsSound ==
  ASSUME TypeOK, NEW t \in Tasks
  PROVE  InputsServed(t) <=>
           \A a \in spec.inputs[t] : \E d \in spec.depends[t] :
              \A e \in spec.depends[t] : a \in spec.outputs[e] <=> e = d
<1> SUFFICES ASSUME NEW a
             PROVE  Cardinality(Producers(t, a)) = 1 <=>
                      \E d \in spec.depends[t] :
                         \A e \in spec.depends[t] : a \in spec.outputs[e] <=> e = d
  BY DEF InputsServed
<1>1. IsFiniteSet(Producers(t, a))
  <2>1. IsFiniteSet(Tasks \cup {0})
    BY TasksFinite, FS_AddElement
  <2>2. Producers(t, a) \in SUBSET (Tasks \cup {0})
    BY Workflow DEF TypeOK, Producers
  <2>3. QED
    BY <2>1, <2>2, FS_Subset
<1>2. Cardinality(Producers(t, a)) = 1 <=> \E d : Producers(t, a) = {d}
  BY <1>1, FS_Singleton
<1>3. QED
  BY <1>2 DEF Producers

LEMMA MeasureStep == CompileInv /\ Measure => CompileInv'
<1> SUFFICES ASSUME CompileInv, Measure PROVE CompileInv'
  OBVIOUS
<1>1. /\ TypeOK /\ ReadInv /\ SortInv /\ MeasureInv /\ TraceInv /\ InsertInv
  BY DEF CompileInv
<1>2. /\ pc = "measure" /\ UNCHANGED <<spec, remaining, order, path, group, tasks>>
      /\ next \in 1..N /\ Len(order) = N /\ N \in Nat \ {0}
  BY <1>1, TasksFinite DEF Measure, TypeOK, SortInv
<1>3. /\ DOMAIN order = 1..N /\ Tasks = 1..N
      /\ \A i \in 1..N : order[i] \in Tasks
      /\ \A u \in Tasks : \E i \in 1..N : order[i] = u
  BY <1>1, <1>2, OrderIsOnto, OrderTyped, TasksFinite
<1>t. PICK t \in Tasks : t = order[next]
  BY <1>2, <1>3
<1>4. /\ \/ spec.depends[t] = {} /\ depths' = [depths EXCEPT ![t] = 1] /\ parents' = parents
         \/ \E d \in spec.depends[t] :
              /\ Deepest(spec.depends[t], d)
              /\ depths' = [depths EXCEPT ![t] = depths[d] + 1]
              /\ parents' = [parents EXCEPT ![t] = d]
      /\ \/ ~InputsServed(t) /\ pc' = "rejected" /\ next' = next
         \/ InputsServed(t) /\ next < N /\ pc' = "measure" /\ next' = next + 1
         \/ InputsServed(t) /\ next = N /\ pc' = "trace" /\ next' = 1
  BY <1>2, <1>t DEF Measure, Reject, Stage
<1>5. \A u \in Tasks : spec.depends[u] \subseteq Tasks /\ u \notin spec.depends[u]
  <2>1. spec.depends \in [Tasks -> SUBSET (Tasks \cup {0})]
    BY <1>1, Workflow DEF TypeOK
  <2>2. \A u \in Tasks : 0 \notin spec.depends[u] /\ u \notin spec.depends[u]
    BY <1>1, <1>2 DEF ReadInv, Formed
  <2>3. QED
    BY <2>1, <2>2
<1>6. \A i \in 1..N, j \in 1..N : order[i] = order[j] => i = j
  BY <1>1, <1>3, OrderIsOneToOne
<1>7. /\ depths' \in [Tasks -> Nat] /\ parents' \in [Tasks -> Tasks \cup {0}]
      /\ \A u \in Tasks : u # t => depths'[u] = depths[u] /\ parents'[u] = parents[u]
      /\ spec.depends[t] = {} => depths'[t] = 1 /\ parents'[t] = parents[t]
      /\ spec.depends[t] # {} =>
           /\ parents'[t] \in spec.depends[t]
           /\ depths'[t] = depths[parents'[t]] + 1
           /\ \A u \in spec.depends[t] : depths[u] <= depths[parents'[t]]
  <2>1. depths \in [Tasks -> Nat] /\ parents \in [Tasks -> Tasks \cup {0}]
    BY <1>1 DEF TypeOK
  <2>2. CASE spec.depends[t] = {} /\ depths' = [depths EXCEPT ![t] = 1] /\ parents' = parents
    BY <2>1, <2>2
  <2>3. CASE \E d \in spec.depends[t] :
               /\ Deepest(spec.depends[t], d)
               /\ depths' = [depths EXCEPT ![t] = depths[d] + 1]
               /\ parents' = [parents EXCEPT ![t] = d]
    <3>1. PICK d \in spec.depends[t] :
            /\ Deepest(spec.depends[t], d)
            /\ depths' = [depths EXCEPT ![t] = depths[d] + 1]
            /\ parents' = [parents EXCEPT ![t] = d]
      BY <2>3
    <3>2. d \in Tasks /\ depths[d] \in Nat
      BY <1>5, <2>1, <3>1
    <3>3. \A u \in spec.depends[t] : depths[u] <= depths[d]
      BY <1>5, <2>1, <3>1, <3>2 DEF Deepest
    <3>4. /\ depths'[t] = depths[d] + 1 /\ parents'[t] = d
          /\ \A u \in Tasks : u # t => depths'[u] = depths[u] /\ parents'[u] = parents[u]
      BY <2>1, <3>1
    <3>5. depths' \in [Tasks -> Nat] /\ parents' \in [Tasks -> Tasks \cup {0}]
      BY <2>1, <3>1, <3>2
    <3>6. QED
      BY <3>1, <3>3, <3>4, <3>5
  <2>4. QED
    BY <1>4, <2>2, <2>3
<1>8. Measured(t)'
  <2>1. spec' = spec /\ \A u \in spec.depends[t] : depths'[u] = depths[u]
    BY <1>2, <1>5, <1>7
  <2>2. CASE spec.depends[t] = {}
    <3>1. parents[t] = 0
      BY <1>1, <1>2, <1>t DEF MeasureInv
    <3>2. QED
      BY <1>7, <2>1, <2>2, <3>1 DEF Measured
  <2>3. CASE spec.depends[t] # {}
    BY <1>7, <2>1, <2>3 DEF Measured
  <2>4. QED
    BY <2>2, <2>3
<1>9. ASSUME NEW i \in 1..(next - 1), NEW u \in Tasks, u = order[i]
      PROVE  Measured(u)'
  <2>1. i \in 1..N /\ i < next /\ next \in 1..N
    BY <1>2
  <2>2. spec.depends[u] \subseteq Before(i)
    <3>1. i \in DOMAIN order
      BY <1>3, <2>1
    <3>2. Placed(i)
      BY <1>1, <3>1 DEF SortInv
    <3>3. QED
      BY <1>9, <3>2 DEF Placed
  <2>3. t \notin Before(i)
    <3>1. ASSUME NEW j \in 1..(i - 1) PROVE order[j] # t
      <4>1. j \in 1..N /\ j # next
        BY <1>2, <2>1
      <4>2. QED
        BY <1>6, <1>t, <2>1, <4>1
    <3>2. QED
      BY <3>1 DEF Before
  <2>4. u # t /\ t \notin spec.depends[u]
    <3>1. i # next
      BY <2>1
    <3>2. QED
      BY <1>6, <1>9, <1>t, <2>1, <2>2, <2>3, <3>1
  <2>5. Measured(u)
    BY <1>1, <1>2, <1>9 DEF MeasureInv
  <2>6. \A v \in spec.depends[u] : depths'[v] = depths[v]
    BY <1>5, <1>7, <2>4
  <2>7. depths'[u] = depths[u] /\ parents'[u] = parents[u]
    BY <1>7, <2>4
  <2>8. QED
    BY <1>2, <2>5, <2>6, <2>7 DEF Measured
<1>10. \A u : InputsServed(u)' <=> InputsServed(u)
  BY <1>2 DEF InputsServed, Producers
<1>11. TypeOK'
  <2>1. pc' \in {"measure", "trace", "rejected"} /\ next' \in Nat \ {0} /\ (pc' = "measure" => next' <= N)
    BY <1>2, <1>4
  <2>2. QED
    BY <1>1, <1>2, <1>7, <2>1 DEF TypeOK, Compiled
<1>12. ReadInv'
  BY <1>1, <1>2, <1>4 DEF ReadInv, Formed, Compiled
<1>13. SortInv'
  BY <1>1, <1>2, SortKept
<1>14. TraceInv' /\ InsertInv'
  BY <1>1, <1>2, <1>4 DEF TraceInv, InsertInv, Compiled
<1>15. ASSUME InputsServed(t), NEW i \in 1..next, NEW u \in Tasks, u = order[i]
       PROVE  Measured(u)' /\ InputsServed(u)'
  <2>1. i = next \/ i \in 1..(next - 1)
    BY <1>2
  <2>2. CASE i = next
    BY <1>8, <1>10, <1>15, <1>t, <2>2
  <2>3. CASE i \in 1..(next - 1)
    <3>1. InputsServed(u)
      BY <1>1, <1>2, <1>15, <2>3 DEF MeasureInv
    <3>2. QED
      BY <1>9, <1>10, <1>15, <2>3, <3>1
  <2>4. QED
    BY <2>1, <2>2, <2>3
<1>16. MeasureInv' /\ (pc' = "rejected" => ~Sound')
  <2>1. CASE ~InputsServed(t) /\ pc' = "rejected"
    <3>1. ~Sound
      BY <1>1, <2>1, ServedIsSound DEF Sound
    <3>2. QED
      BY <1>2, <2>1, <3>1, SoundStays DEF MeasureInv, Compiled
  <2>2. CASE InputsServed(t) /\ next < N /\ pc' = "measure" /\ next' = next + 1
    <3>1. ASSUME NEW i \in 1..(next' - 1)
          PROVE  Measured(order[i])' /\ InputsServed(order[i])'
      <4>1. i \in 1..next /\ i \in 1..N
        BY <1>2, <2>2
      <4>2. PICK u \in Tasks : u = order[i]
        BY <1>3, <4>1
      <4>3. u = order'[i]
        BY <1>2, <4>2
      <4>4. Measured(u)' /\ InputsServed(u)'
        BY <1>15, <2>2, <4>1, <4>2
      <4>5. QED
        BY <4>3, <4>4
    <3>2. ASSUME NEW i \in next'..N PROVE parents'[order'[i]] = 0
      <4>1. i \in next..N /\ i \in 1..N /\ i # next /\ next \in 1..N
        BY <1>2, <2>2
      <4>2. order[i] \in Tasks /\ order[i] # t
        BY <1>3, <1>6, <1>t, <4>1
      <4>3. parents[order[i]] = 0
        BY <1>1, <1>2, <4>1 DEF MeasureInv
      <4>4. QED
        BY <1>2, <1>7, <4>2, <4>3
    <3>3. QED
      BY <2>2, <3>1, <3>2 DEF MeasureInv, Compiled
  <2>3. CASE InputsServed(t) /\ next = N /\ pc' = "trace"
    <3>1. ASSUME NEW u \in Tasks PROVE Measured(u)' /\ InputsServed(u)'
      <4>1. PICK i \in 1..next : order[i] = u
        BY <1>3, <2>3
      <4>2. QED
        BY <1>15, <2>3, <4>1
    <3>2. QED
      BY <2>3, <3>1 DEF MeasureInv, Compiled
  <2>4. QED
    BY <1>4, <2>1, <2>2, <2>3
<1>17. QED
  BY <1>11, <1>12, <1>13, <1>14, <1>16 DEF CompileInv

(* Once compiled, a step of a later stage keeps what the earlier ones left.  *)
LEMMA CompiledKept ==
  ASSUME CompileInv, pc \in Compiled, pc' \in Compiled,
         UNCHANGED <<spec, remaining, order, depths, parents>>
  PROVE  ReadInv' /\ SortInv' /\ MeasureInv'
<1>1. ReadInv /\ SortInv /\ MeasureInv
  BY DEF CompileInv
<1>2. ReadInv'
  BY <1>1 DEF ReadInv, Formed, Compiled
<1>3. SortInv'
  BY <1>1, SortKept DEF SortInv
<1>4. MeasureInv'
  BY <1>1, MeasuresStay DEF MeasureInv, Compiled
<1>5. QED
  BY <1>2, <1>3, <1>4

LEMMA TraceStep == CompileInv /\ Trace => CompileInv'
<1> SUFFICES ASSUME CompileInv, Trace PROVE CompileInv'
  OBVIOUS
<1>1. /\ TypeOK /\ ReadInv /\ SortInv /\ MeasureInv /\ TraceInv /\ InsertInv
  BY DEF CompileInv
<1>2. /\ pc = "trace" /\ UNCHANGED <<spec, remaining, order, depths, parents, group, tasks>>
      /\ pc' \in {"trace", "union"} /\ next' \in Nat \ {0}
      /\ pc' = "union" => next' = 1
  BY <1>1 DEF Trace, Stage, TypeOK
<1>3. Len(order) = N /\ \A t \in Tasks : Measured(t)
  BY <1>1, <1>2 DEF SortInv, MeasureInv, Compiled
<1>4. /\ path \in Seq(Tasks) /\ depths \in [Tasks -> Nat]
      /\ \A t \in Tasks : spec.depends[t] \subseteq Tasks
  <2>1. spec.depends \in [Tasks -> SUBSET (Tasks \cup {0})]
    BY <1>1, Workflow DEF TypeOK
  <2>2. \A t \in Tasks : 0 \notin spec.depends[t]
    BY <1>1, <1>2 DEF ReadInv, Compiled
  <2>3. QED
    BY <1>1, <2>1, <2>2 DEF TypeOK
<1>5. /\ path' \in Seq(Tasks) /\ path' # <<>> /\ Descends'
      /\ pc' = "union" => spec.depends[path'[1]] = {}
  <2>1. CASE path = <<>>
    <3>1. PICK i \in Tasks :
            /\ \A j \in Tasks : \/ depths[order[j]] < depths[order[i]]
                                \/ depths[order[j]] = depths[order[i]] /\ i <= j
            /\ path' = <<order[i]>> \o path
            /\ pc' = pc
      BY <2>1 DEF Trace
    <3>2. PICK x \in Tasks : x = order[i]
      BY <1>1, <1>3, OrderTyped, TasksFinite
    <3>3. path' = <<x>>
      BY <2>1, <3>1, <3>2
    <3>4. ASSUME NEW t \in Tasks PROVE depths[t] <= depths[x]
      <4>1. PICK j \in Tasks : order[j] = t
        BY <1>1, <1>3, OrderIsOnto
      <4>2. depths[t] \in Nat /\ depths[x] \in Nat
        BY <1>4
      <4>3. QED
        BY <3>1, <3>2, <4>1, <4>2
    <3>5. /\ Len(path') = 1 /\ path'[1] = x /\ path' \in Seq(Tasks) /\ path' # <<>>
          /\ depths[x] \in Nat
      BY <1>4, <3>3
    <3>6. depths[x] = depths[x] + 1 - 1 /\ 2..1 = {}
      BY <3>5
    <3>7. Descends'
      BY <1>2, <3>4, <3>5, <3>6 DEF Descends
    <3>8. QED
      BY <1>2, <3>1, <3>5, <3>7
  <2>2. CASE path # <<>> /\ parents[Head(path)] # 0
    <3>1. PICK n \in Nat \ {0} : n = Len(path)
      BY <1>4, <2>2
    <3>2. PICK h \in Tasks : h = Head(path) /\ h = path[1]
      BY <1>4, <2>2
    <3>3. PICK p \in spec.depends[h] : p = parents[h]
      BY <1>3, <2>2, <3>2 DEF Measured
    <3>4. p \in Tasks /\ depths[p] \in Nat /\ depths[h] = depths[p] + 1
      BY <1>3, <1>4, <3>3 DEF Measured
    <3>5. path' = <<p>> \o path /\ pc' = pc
      BY <2>2, <3>2, <3>3 DEF Trace
    <3>6. /\ path' \in Seq(Tasks) /\ Len(path') = n + 1 /\ path'[1] = p
          /\ \A i \in 2..(n + 1) : path'[i] = path[i - 1]
          /\ path' # <<>>
      BY <1>4, <3>1, <3>4, <3>5
    <3>7. /\ \A t \in Tasks : depths[t] <= depths[path[n]]
          /\ \A i \in 2..n : path[i - 1] \in spec.depends[path[i]]
          /\ depths[path[n]] = depths[h] + n - 1
      BY <1>1, <2>2, <3>1, <3>2 DEF TraceInv, Descends
    <3>8. path'[n + 1] = path[n]
      BY <3>1, <3>6
    <3>9. depths[path[n]] = depths[p] + (n + 1) - 1
      BY <3>4, <3>7
    <3>10. ASSUME NEW i \in 2..(n + 1) PROVE path'[i - 1] \in spec.depends[path'[i]]
      <4>1. CASE i = 2
        BY <3>1, <3>2, <3>3, <3>6, <4>1
      <4>2. CASE i # 2
        <5>1. i - 1 \in 2..n /\ i - 1 \in 2..(n + 1)
          BY <4>2
        <5>2. path'[i - 1] = path[(i - 1) - 1] /\ path'[i] = path[i - 1]
          BY <3>6, <5>1
        <5>3. QED
          BY <3>7, <5>1, <5>2
      <4>3. QED
        BY <4>1, <4>2
    <3>11. Descends'
      BY <1>2, <3>6, <3>7, <3>8, <3>9, <3>10 DEF Descends
    <3>12. QED
      BY <1>2, <3>5, <3>6, <3>11
  <2>3. CASE path # <<>> /\ parents[Head(path)] = 0
    <3>1. PICK h \in Tasks : h = Head(path) /\ h = path[1]
      BY <1>4, <2>3
    <3>2. spec.depends[h] = {}
      BY <1>3, <1>4, <2>3, <3>1, TasksFinite DEF Measured
    <3>3. path' = path
      BY <2>3 DEF Trace
    <3>4. Descends'
      BY <1>1, <1>2, <2>3, <3>3 DEF TraceInv, Descends
    <3>5. QED
      BY <1>4, <2>3, <3>1, <3>2, <3>3, <3>4
  <2>4. QED
    BY <2>1, <2>2, <2>3
<1>6. TypeOK'
  <2>1. 1 <= N * N
    BY TasksFinite
  <2>2. QED
    BY <1>1, <1>2, <1>5, <2>1 DEF TypeOK, Compiled
<1>7. ReadInv' /\ SortInv' /\ MeasureInv'
  BY <1>2, CompiledKept DEF Compiled
<1>8. TraceInv'
  BY <1>2, <1>5 DEF TraceInv, Compiled
<1>9. InsertInv' /\ pc' # "rejected"
  BY <1>2 DEF InsertInv
<1>10. QED
  BY <1>6, <1>7, <1>8, <1>9 DEF CompileInv

-----------------------------------------------------------------------------
(* The pairs of positions, counted row by row. *)

LEMMA PairsCounted ==
  ASSUME NEW n \in Nat \ {0}
  PROVE  /\ \A m \in 0..(n * n - 1) : m \div n \in 0..(n - 1) /\ m % n \in 0..(n - 1)
         /\ \A i \in 0..(n - 1), j \in 0..(n - 1) :
              /\ i * n + j \in 0..(n * n - 1)
              /\ (i * n + j) \div n = i
              /\ (i * n + j) % n = j
<1>1. ASSUME NEW m \in 0..(n * n - 1) PROVE m \div n \in 0..(n - 1) /\ m % n \in 0..(n - 1)
  <2>1. m \in Nat /\ m < n * n
    OBVIOUS
  <2>2. QED
    BY <2>1
<1>2. ASSUME NEW i \in 0..(n - 1), NEW j \in 0..(n - 1)
      PROVE  /\ i * n + j \in 0..(n * n - 1)
             /\ (i * n + j) \div n = i
             /\ (i * n + j) % n = j
  <2>1. i * n + j \in Nat /\ i * n + j < n * n
    OBVIOUS
  <2>2. (i * n + j) \div n = i /\ (i * n + j) % n = j
    OBVIOUS
  <2>3. n * n \in Nat
    OBVIOUS
  <2>4. QED
    BY <2>1, <2>2, <2>3
<1>3. QED
  BY <1>1, <1>2

LEMMA PairTyped ==
  ASSUME TypeOK, Len(order) = N, pc = "union"
  PROVE  Left \in Tasks /\ Right \in Tasks
<1>1. /\ N \in Nat \ {0} /\ Tasks = 1..N /\ next \in Nat \ {0} /\ next <= N * N
      /\ \A i \in 1..N : order[i] \in Tasks
  BY OrderTyped, TasksFinite DEF TypeOK
<1>2. N * N \in Nat /\ next - 1 \in 0..(N * N - 1)
  BY <1>1
<1>3. (next - 1) \div N \in 0..(N - 1) /\ (next - 1) % N \in 0..(N - 1)
  BY <1>1, <1>2, PairsCounted
<1>4. 1 + ((next - 1) \div N) \in 1..N /\ 1 + ((next - 1) % N) \in 1..N
  BY <1>1, <1>3
<1>5. QED
  BY <1>1, <1>4 DEF Left, Right

-----------------------------------------------------------------------------
(* The walk up the parent links. *)

Walk(g, t) ==
  CHOOSE up : up = [n \in 0..N |-> IF n = 0 THEN t ELSE g[up[n - 1]]]

(* The recursion that defines the walk has a solution. *)
LEMMA WalkDefined ==
  ASSUME NEW g, NEW t
  PROVE  Walk(g, t) = [n \in 0..N |-> IF n = 0 THEN t ELSE g[Walk(g, t)[n - 1]]]
<1> DEFINE Solves(f, m) == f = [n \in 0..m |-> IF n = 0 THEN t ELSE g[f[n - 1]]]
           Bad == {m \in Nat : ~ \E f : Solves(f, m)}
<1>1. Bad = {}
  <2>1. SUFFICES ASSUME Bad # {} PROVE FALSE
    OBVIOUS
  <2>2. PICK m \in Bad : \A k \in Bad : m <= k
    BY <2>1, LeastNat
  <2>3. m # 0
    <3> DEFINE f == [n \in 0..0 |-> t]
    <3>1. \A n \in 0..0 : f[n] = IF n = 0 THEN t ELSE g[f[n - 1]]
      OBVIOUS
    <3>2. f = [n \in 0..0 |-> f[n]]
      OBVIOUS
    <3>3. Solves(f, 0)
      <4> HIDE DEF f
      <4>1. QED
        BY <3>1, <3>2
    <3> HIDE DEF f
    <3>4. \E e : Solves(e, 0)
      BY <3>3
    <3>5. 0 \notin Bad
      BY <3>4
    <3>6. QED
      BY <2>2, <3>5
  <2>4. m - 1 \in Nat /\ m - 1 \notin Bad
    <3>1. Bad \subseteq Nat
      OBVIOUS
    <3> HIDE DEF Bad
    <3>2. QED
      BY <2>2, <2>3, <3>1
  <2>5. PICK f : Solves(f, m - 1)
    BY <2>4
  <2> DEFINE e == [n \in 0..m |-> IF n < m THEN f[n] ELSE g[f[m - 1]]]
  <2>6. ASSUME NEW n \in 0..m PROVE e[n] = IF n = 0 THEN t ELSE g[e[n - 1]]
    <3>1. CASE n = m
      <4>1. m - 1 \in 0..m /\ m - 1 < m
        BY <2>4
      <4>2. QED
        BY <2>3, <2>4, <3>1, <4>1
    <3>2. CASE n # m
      <4>1. n < m /\ n \in 0..(m - 1)
        BY <2>4, <3>2
      <4>2. f[n] = IF n = 0 THEN t ELSE g[f[n - 1]]
        BY <2>5, <4>1
      <4>3. n # 0 => n - 1 \in 0..m /\ n - 1 < m
        BY <4>1
      <4>4. QED
        BY <4>1, <4>2, <4>3
    <3>3. QED
      BY <3>1, <3>2
  <2>7. e = [n \in 0..m |-> e[n]]
    OBVIOUS
  <2>8. Solves(e, m)
    <3> HIDE DEF e
    <3>1. QED
      BY <2>6, <2>7
  <2>9. QED
    BY <2>2, <2>8
<1>2. \E f : Solves(f, N)
  BY <1>1, TasksFinite
<1>3. QED
  BY <1>2 DEF Walk

LEMMA WalkTyped ==
  ASSUME NEW g \in [Tasks -> Tasks], NEW t \in Tasks
  PROVE  /\ Walk(g, t) \in [0..N -> Tasks]
         /\ Walk(g, t)[0] = t
         /\ \A n \in 1..N : Walk(g, t)[n] = g[Walk(g, t)[n - 1]]
<1>1. PICK up : up = Walk(g, t)
  OBVIOUS
<1>2. /\ up = [n \in 0..N |-> up[n]]
      /\ \A n \in 0..N : up[n] = IF n = 0 THEN t ELSE g[up[n - 1]]
  <2>1. up = [n \in 0..N |-> IF n = 0 THEN t ELSE g[up[n - 1]]]
    BY <1>1, WalkDefined
  <2>2. QED
    BY <2>1
<1>3. N \in Nat
  BY TasksFinite
<1>4. up[0] = t /\ \A n \in 1..N : up[n] = g[up[n - 1]]
  <2>1. 0 \in 0..N /\ \A n \in 1..N : n \in 0..N /\ n # 0
    BY <1>3
  <2>2. QED
    BY <1>2, <2>1
<1> DEFINE Bad == {n \in 0..N : up[n] \notin Tasks}
<1>5. Bad = {}
  <2>1. SUFFICES ASSUME Bad # {} PROVE FALSE
    OBVIOUS
  <2>2. Bad \in SUBSET Nat
    BY <1>3
  <2>3. PICK n \in Bad : \A k \in Bad : n <= k
    BY <2>1, <2>2, LeastNat
  <2>4. n # 0
    BY <1>4, <2>3
  <2>5. n \in 1..N /\ n - 1 \in 0..N /\ n - 1 < n
    BY <1>3, <2>3, <2>4
  <2>6. n - 1 \notin Bad
    BY <2>3, <2>5
  <2>7. up[n - 1] \in Tasks
    BY <2>5, <2>6
  <2>8. QED
    BY <1>4, <2>3, <2>5, <2>7
<1>6. \A n \in 0..N : up[n] \in Tasks
  BY <1>5
<1>7. QED
  BY <1>1, <1>2, <1>4, <1>6

LEMMA RootIsWalked ==
  /\ \A t : Root(t) = Walk(group, t)[N]
  /\ \A t : Root(t)' = Walk(group', t)[N]
BY DEF Root, Walk

LEMMA RootTyped ==
  ASSUME group \in [Tasks -> Tasks], NEW t \in Tasks
  PROVE  Root(t) \in Tasks
<1>1. Walk(group, t) \in [0..N -> Tasks]
  BY WalkTyped
<1>2. N \in 0..N
  BY TasksFinite
<1>3. QED
  BY <1>1, <1>2, RootIsWalked

-----------------------------------------------------------------------------
(* The groups and the insertion. *)

LEMMA UnionStep == CompileInv /\ Union => CompileInv'
<1> SUFFICES ASSUME CompileInv, Union PROVE CompileInv'
  OBVIOUS
<1>1. /\ TypeOK /\ ReadInv /\ SortInv /\ MeasureInv /\ TraceInv /\ InsertInv
  BY DEF CompileInv
<1>2. /\ pc = "union"
      /\ UNCHANGED <<spec, remaining, order, depths, parents, path, tasks>>
      /\ group' = group \/ group' = LinkRoots
      /\ \/ next < N * N /\ pc' = "union" /\ next' = next + 1
         \/ pc' = "insert" /\ next' = 1
  BY DEF Union, Stage
<1>3. group' \in [Tasks -> Tasks]
  <2>1. CASE group' = group
    BY <1>1, <2>1 DEF TypeOK
  <2>2. CASE group' = LinkRoots
    <3>1. Left \in Tasks /\ Right \in Tasks
      BY <1>1, <1>2, PairTyped DEF SortInv, Compiled
    <3>2. group \in [Tasks -> Tasks] /\ Root(Left) \in Tasks
      BY <1>1, <3>1, RootTyped DEF TypeOK
    <3>3. QED
      BY <2>2, <3>2 DEF LinkRoots
  <2>3. QED
    BY <1>2, <2>1, <2>2
<1>4. TypeOK'
  <2>1. next \in Nat \ {0} /\ N \in Nat \ {0}
    BY <1>1, TasksFinite DEF TypeOK
  <2>2. N * N \in Nat
    BY <2>1
  <2>3. /\ pc' \in {"union", "insert"} /\ next' \in Nat \ {0}
        /\ pc' = "insert" => next' <= N
        /\ pc' = "union" => next' <= N * N
    BY <1>2, <2>1, <2>2
  <2>4. QED
    BY <1>1, <1>2, <1>3, <2>3 DEF TypeOK, Compiled
<1>5. ReadInv' /\ SortInv' /\ MeasureInv'
  BY <1>2, CompiledKept DEF Compiled
<1>6. TraceInv'
  BY <1>1, <1>2 DEF TraceInv, Descends, Compiled
<1>7. InsertInv' /\ pc' # "rejected"
  <2>1. CASE pc' = "union"
    BY <2>1 DEF InsertInv
  <2>2. CASE pc' = "insert" /\ next' = 1
    BY <2>2 DEF InsertInv
  <2>3. QED
    BY <1>2, <2>1, <2>2
<1>8. QED
  BY <1>4, <1>5, <1>6, <1>7 DEF CompileInv

LEMMA InsertStep == CompileInv /\ Insert => CompileInv'
<1> SUFFICES ASSUME CompileInv, Insert PROVE CompileInv'
  OBVIOUS
<1>1. /\ TypeOK /\ ReadInv /\ SortInv /\ MeasureInv /\ TraceInv /\ InsertInv
  BY DEF CompileInv
<1>2. /\ pc = "insert" /\ next \in 1..N /\ N \in Nat \ {0} /\ Tasks = 1..N
      /\ UNCHANGED <<spec, remaining, order, depths, parents, path, group>>
  BY <1>1, TasksFinite DEF Insert, TypeOK
<1>3. /\ spec.declared \in [Tasks -> Tasks]
      /\ \A t \in Tasks : \E i \in Tasks : spec.declared[i] = t
      /\ spec.depends \in [Tasks -> SUBSET (Tasks \cup {0})]
      /\ \A t \in Tasks : 0 \notin spec.depends[t]
      /\ tasks \in SUBSET Tasks
      /\ \A j \in 1..(next - 1) : spec.declared[j] \in tasks
  BY <1>1, <1>2, Workflow DEF TypeOK, ReadInv, InsertInv, Compiled
<1>t. PICK t \in Tasks : t = spec.declared[next]
  BY <1>2, <1>3
<1>4. \/ /\ tasks' = tasks \cup {t}
         /\ \/ next < N /\ pc' = "insert" /\ next' = next + 1
            \/ next = N /\ pc' = "admitted" /\ next' = 1
      \/ ~(spec.depends[t] \subseteq tasks) /\ pc' = "broken" /\ next' = next /\ tasks' = tasks
  BY <1>2, <1>t DEF Insert, Stage
<1>5. TypeOK'
  <2>1. /\ pc' \in {"insert", "admitted", "broken"} /\ next' \in Nat \ {0}
        /\ pc' = "insert" => next' <= N
    BY <1>2, <1>4
  <2>2. tasks' \in SUBSET Tasks
    BY <1>3, <1>4
  <2>3. QED
    BY <1>1, <1>2, <2>1, <2>2 DEF TypeOK, Compiled
<1>6. ReadInv' /\ SortInv' /\ MeasureInv' /\ TraceInv'
  <2>1. pc \in Compiled /\ pc' \in Compiled /\ pc' \in Compiled \ {"trace"}
    BY <1>2, <1>4 DEF Compiled
  <2>2. ReadInv' /\ SortInv' /\ MeasureInv'
    BY <1>2, <2>1, CompiledKept
  <2>3. TraceInv'
    BY <1>1, <1>2, <2>1 DEF TraceInv, Descends, Compiled
  <2>4. QED
    BY <2>2, <2>3
<1>7. InsertInv'
  <2>1. CASE tasks' = tasks \cup {t} /\ next < N /\ pc' = "insert" /\ next' = next + 1
    <3>1. ASSUME NEW j \in 1..next PROVE spec.declared[j] \in tasks'
      <4>1. j = next \/ j \in 1..(next - 1)
        BY <1>2
      <4>2. QED
        BY <1>3, <1>t, <2>1, <4>1
    <3>2. next' - 1 = next
      BY <1>2, <2>1
    <3>3. QED
      BY <1>2, <2>1, <3>1, <3>2 DEF InsertInv
  <2>2. CASE pc' = "admitted"
    BY <2>2 DEF InsertInv
  <2>3. CASE ~(spec.depends[t] \subseteq tasks) /\ pc' = "broken"
    <3>1. PICK d \in spec.depends[t] : d \in Tasks /\ d \notin tasks
      BY <1>3, <2>3
    <3>2. PICK j \in Tasks : spec.declared[j] = d
      BY <1>3, <3>1
    <3>3. j \notin 1..(next - 1)
      BY <1>3, <3>1, <3>2
    <3>4. j \in next..N /\ next \in Tasks
      BY <1>2, <3>2, <3>3
    <3>5. spec.declared[j] \in spec.depends[spec.declared[next]]
      BY <1>t, <3>1, <3>2
    <3>6. QED
      BY <1>2, <2>3, <3>4, <3>5 DEF InsertInv
  <2>4. QED
    BY <1>4, <2>1, <2>2, <2>3
<1>8. pc' # "rejected"
  BY <1>4
<1>9. QED
  BY <1>5, <1>6, <1>7, <1>8 DEF CompileInv

(* Every step of the compiler and of the insertion keeps the invariant. *)
LEMMA NextCompileInv == CompileInv /\ [Next]_vars => CompileInv'
<1> SUFFICES ASSUME CompileInv, [Next]_vars PROVE CompileInv'
  OBVIOUS
<1>1. CASE Next
  BY <1>1, ReadStep, LinkStep, SortStep, SortEndsStep, MeasureStep, TraceStep, UnionStep, InsertStep
     DEF Next
<1>2. CASE UNCHANGED vars
  <2>1. /\ UNCHANGED <<spec, pc, next>> /\ UNCHANGED <<remaining, order, depths, parents, path>>
        /\ UNCHANGED <<group, tasks>>
    BY <1>2 DEF vars
  <2>2. TypeOK /\ ReadInv /\ SortInv /\ MeasureInv /\ TraceInv /\ InsertInv
    BY DEF CompileInv
  <2>3. TypeOK' /\ ReadInv'
    BY <2>1, <2>2 DEF TypeOK, ReadInv, Formed
  <2>4. SortInv'
    BY <2>1, <2>2, SortKept DEF SortInv
  <2>5. MeasureInv'
    BY <2>1, <2>2, MeasuresStay DEF MeasureInv
  <2>6. TraceInv' /\ InsertInv'
    BY <2>1, <2>2 DEF TraceInv, InsertInv, Descends
  <2>7. pc' = "rejected" => ~Sound'
    BY <2>1, SoundStays DEF CompileInv
  <2>8. QED
    BY <2>3, <2>4, <2>5, <2>6, <2>7 DEF CompileInv
<1>3. QED
  BY <1>1, <1>2

(* The invariant of the compilation holds of every run. *)
LEMMA CompileInvariance == Spec => []CompileInv
BY InitCompileInv, NextCompileInv, PTL DEF Spec

-----------------------------------------------------------------------------
(* What the compiler promises. *)

LEMMA CompiledIsSound ==
  ASSUME CompileInv, pc \in Compiled
  PROVE  Sound
<1>1. TypeOK /\ ReadInv /\ SortInv /\ MeasureInv
  BY DEF CompileInv
<1>2. Len(order) = N
  BY <1>1 DEF SortInv
<1>3. /\ \A t \in Tasks : t \notin spec.malformed /\ 0 \notin spec.depends[t]
      /\ \A t \in Tasks : InputsServed(t)
  BY <1>1 DEF ReadInv, MeasureInv, Formed, Compiled
<1>4. spec.malformed = {}
  BY <1>1, <1>3, Workflow DEF TypeOK
<1>5. \A t \in Tasks : t \notin Upstream(t)
  BY <1>1, <1>2, OrderedIsAcyclic
<1>6. \A t \in Tasks : \A a \in spec.inputs[t] : \E d \in spec.depends[t] :
         \A e \in spec.depends[t] : a \in spec.outputs[e] <=> e = d
  BY <1>1, <1>3, ServedIsSound
<1>7. QED
  BY <1>3, <1>4, <1>5, <1>6 DEF Sound

(* A workflow passes the preflight exactly when its references exist, no      *)
(* task waits for itself by any path, and every input has one direct          *)
(* producer, whatever the tasks and the order in which they are listed        *)
(* (compile_preflight_plan).                                                *)
THEOREM PreflightCompilesExactlySound == Spec => []CompilesExactlySound
<1>1. CompileInv => CompilesExactlySound
  <2> SUFFICES ASSUME CompileInv PROVE CompilesExactlySound
    OBVIOUS
  <2>1. pc \in {"trace", "union", "insert", "admitted", "broken"} => Sound
    BY CompiledIsSound DEF Compiled
  <2>2. QED
    BY <2>1 DEF CompilesExactlySound, CompileInv
<1>2. QED
  BY <1>1, CompileInvariance, PTL

(* task_order has every task after all it waits for, and no other order that  *)
(* does is earlier by name: the order is a function of the workflow           *)
(* (_topological_order).                                                    *)
THEOREM PreflightOrderIsFirst == Spec => []OrderIsFirst
<1>1. CompileInv => OrderIsFirst
  <2> SUFFICES ASSUME CompileInv, Len(order) = N PROVE OrderIsFirst
    BY DEF OrderIsFirst
  <2>1. TypeOK /\ SortInv /\ Tasks = 1..N /\ N \in Nat
    BY TasksFinite DEF CompileInv
  <2>2. DOMAIN order = Tasks /\ \A i \in Tasks : order[i] \in Tasks
    BY <2>1, OrderIsOnto, OrderTyped
  <2>3. ASSUME NEW i \in Tasks, NEW j \in Tasks, order[i] \in Upstream(order[j])
        PROVE  i < j
    BY <2>1, <2>2, <2>3, BeforeIsClosed, OrderIsOneToOne
  <2>4. ASSUME NEW i \in Tasks, NEW j \in Tasks, i < j, order[j] < order[i]
        PROVE  \E k \in i..(j - 1) : order[k] \in Upstream(order[j])
    <3>1. PICK u \in Tasks : u = order[j]
      BY <2>2
    <3>2. Placed(i) /\ Placed(j)
      BY <2>1, <2>2 DEF SortInv
    <3>3. u \notin Before(i)
      <4>1. u \in Before(i) => j < i
        BY <2>1, <2>2, <3>1, OrderIsOneToOne
      <4>2. QED
        BY <2>1, <2>4, <4>1
    <3>4. order[i] \in Nat /\ u \in Nat /\ ~(order[i] <= u)
      <4>1. order[i] \in Tasks /\ u \in Tasks /\ u < order[i]
        BY <2>2, <2>4, <3>1
      <4>2. \A v \in Tasks : v \in Nat
        BY TasksFinite
      <4>3. order[i] \in Nat /\ u \in Nat
        BY <4>1, <4>2
      <4>4. QED
        BY <4>1, <4>3
    <3>5. PICK d \in spec.depends[u] : d \notin Before(i)
      BY <3>2, <3>3, <3>4 DEF Placed
    <3>6. d \in Before(j)
      BY <3>1, <3>2, <3>5 DEF Placed
    <3>7. PICK k \in 1..(j - 1) : d = order[k]
      BY <3>6 DEF Before
    <3>8. k \notin 1..(i - 1)
      BY <3>5, <3>7 DEF Before
    <3>9. k \in i..(j - 1) /\ k \in Tasks
      BY <2>1, <2>4, <3>7, <3>8
    <3>10. order[k] \in Upstream(u)
      BY <2>2, <3>5, <3>7, <3>9, UpstreamOfPrerequisite
    <3>11. QED
      BY <3>1, <3>9, <3>10
  <2>5. QED
    BY <2>3, <2>4 DEF OrderIsFirst
<1>2. QED
  BY <1>1, CompileInvariance, PTL

(* What a task waits for is less deep than it. *)
LEMMA UpstreamIsShallower ==
  ASSUME CompileInv, pc \in Compiled, NEW t \in Tasks
  PROVE  \A v \in Upstream(t) : depths[v] < depths[t]
<1>1. /\ depths \in [Tasks -> Nat]
      /\ \A u \in Tasks : Measured(u) /\ spec.depends[u] \subseteq Tasks
  <2>1. TypeOK /\ ReadInv /\ MeasureInv
    BY DEF CompileInv
  <2>2. spec.depends \in [Tasks -> SUBSET (Tasks \cup {0})]
    BY <2>1, Workflow DEF TypeOK
  <2>3. \A u \in Tasks : 0 \notin spec.depends[u] /\ Measured(u)
    BY <2>1 DEF ReadInv, MeasureInv
  <2>4. QED
    BY <2>1, <2>2, <2>3 DEF TypeOK
<1>2. \A u \in Tasks : \A d \in spec.depends[u] : depths[d] < depths[u]
  <2>1. ASSUME NEW u \in Tasks, NEW d \in spec.depends[u] PROVE depths[d] < depths[u]
    <3>1. parents[u] \in Tasks /\ d \in Tasks
      BY <1>1 DEF Measured
    <3>2. depths[d] \in Nat /\ depths[parents[u]] \in Nat
      BY <1>1, <3>1
    <3>3. depths[u] = depths[parents[u]] + 1 /\ depths[d] <= depths[parents[u]]
      BY <1>1 DEF Measured
    <3>4. QED
      BY <3>2, <3>3
  <2>2. QED
    BY <2>1
<1> DEFINE S == {v \in Tasks : depths[v] < depths[t]}
<1>3. spec.depends[t] \subseteq S
  BY <1>1, <1>2
<1>4. \A v \in S : spec.depends[v] \subseteq S
  <2>1. ASSUME NEW v \in S, NEW d \in spec.depends[v] PROVE d \in S
    <3>1. d \in Tasks /\ depths[d] < depths[v] /\ depths[v] < depths[t]
      BY <1>1, <1>2
    <3>2. depths[d] \in Nat /\ depths[v] \in Nat /\ depths[t] \in Nat
      BY <1>1, <3>1
    <3>3. QED
      BY <3>1, <3>2
  <2>2. QED
    BY <2>1
<1>5. Upstream(t) \subseteq S
  <2> HIDE DEF S
  <2>1. S \in SUBSET Tasks
    BY DEF S
  <2>2. QED
    BY <1>3, <1>4, <2>1, UpstreamWithin
<1>6. QED
  BY <1>5

(* The critical path is a chain of prerequisites from a root, and no set of   *)
(* tasks each two of which wait for each other has more members, whatever the *)
(* graph (depths, parents, critical_path).                                  *)
THEOREM PreflightCriticalPathLongest == Spec => []CriticalPathLongest
<1>1. CompileInv => CriticalPathLongest
  <2> SUFFICES ASSUME CompileInv, pc \in {"union", "insert"} PROVE CriticalPathLongest
    BY DEF CriticalPathLongest
  <2>1. TypeOK /\ MeasureInv /\ TraceInv /\ pc \in Compiled /\ pc \in Compiled \ {"trace"}
    BY DEF CompileInv, Compiled
  <2>2. /\ path \in Seq(Tasks) /\ path # <<>> /\ Descends /\ spec.depends[path[1]] = {}
        /\ depths \in [Tasks -> Nat]
        /\ \A t \in Tasks : Measured(t)
    BY <2>1 DEF TraceInv, TypeOK, MeasureInv
  <2>3. PICK n \in Nat \ {0} : n = Len(path)
    BY <2>2
  <2>4. path[1] \in Tasks /\ path[n] \in Tasks
    BY <2>2, <2>3
  <2>5. depths[path[1]] = 1
    BY <2>2, <2>4 DEF Measured
  <2>6. depths[path[n]] = n
    BY <2>2, <2>3, <2>5 DEF Descends
  <2>7. ASSUME NEW t \in Tasks PROVE depths[t] \in 1..n
    <3>1. depths[t] \in Nat /\ depths[t] <= n
      BY <2>2, <2>3, <2>6 DEF Descends
    <3>2. CASE spec.depends[t] = {}
      <4>1. depths[t] = 1
        BY <2>2, <3>2 DEF Measured
      <4>2. QED
        BY <2>3, <4>1
    <3>3. CASE spec.depends[t] # {}
      <4>1. PICK d \in spec.depends[t] : TRUE
        BY <3>3
      <4>2. d \in Tasks
        <5>1. ReadInv
          BY DEF CompileInv
        <5>2. 0 \notin spec.depends[t]
          BY <2>1, <5>1 DEF ReadInv
        <5>3. QED
          BY <2>1, <4>1, <5>2, Workflow DEF TypeOK
      <4>3. d \in Upstream(t)
        BY <4>1, <4>2, UpstreamOfPrerequisite
      <4>4. depths[d] < depths[t] /\ depths[d] \in Nat
        BY <2>1, <2>2, <4>2, <4>3, UpstreamIsShallower
      <4>5. QED
        BY <3>1, <4>4
    <3>4. QED
      BY <3>2, <3>3
  <2>8. ASSUME NEW S \in SUBSET Tasks,
               \A t, u \in S : t = u \/ t \in Upstream(u) \/ u \in Upstream(t)
        PROVE  Cardinality(S) <= n
    <3> DEFINE f == [t \in S |-> depths[t]]
    <3>1. f \in [S -> 1..n]
      BY <2>7
    <3>2. ASSUME NEW t \in S, NEW u \in S, t # u PROVE f[t] # f[u]
      <4>1. depths[t] < depths[u] \/ depths[u] < depths[t]
        BY <2>1, <2>8, <3>2, UpstreamIsShallower
      <4>2. depths[t] \in 1..n /\ depths[u] \in 1..n
        BY <2>7
      <4>3. QED
        BY <4>1, <4>2
    <3> HIDE DEF f
    <3>3. f \in Injection(S, 1..n)
      BY <3>1, <3>2 DEF Injection, IsInjective
    <3>4. IsFiniteSet(1..n) /\ Cardinality(1..n) = n
      <4>1. 1 \in Int /\ n \in Int /\ ~(1 > n) /\ n - 1 + 1 = n
        OBVIOUS
      <4>2. QED
        BY <4>1, FS_Interval
    <3>5. Cardinality(S) <= Cardinality(1..n)
      BY <3>3, <3>4, FS_Injection DEF ExistsInjection
    <3>6. QED
      BY <3>4, <3>5
  <2>9. QED
    BY <2>2, <2>3, <2>8 DEF CriticalPathLongest, Descends
<1>2. QED
  BY <1>1, CompileInvariance, PTL

(* A sound workflow that lists every task after its prerequisites is turned   *)
(* away neither by the compiler nor halfway by the database, whatever its     *)
(* size (run_instruction).                                                  *)
THEOREM PreflightAdmitsBackward == Spec => []BackwardIsAdmitted
<1>1. CompileInv => BackwardIsAdmitted
  BY DEF CompileInv, InsertInv, BackwardIsAdmitted
<1>2. QED
  BY <1>1, CompileInvariance, PTL

-----------------------------------------------------------------------------
(* The forest of the parent links. *)

(* No tasks but roots follow each other in a circle. *)
Forest(g) ==
  \A A \in SUBSET Tasks : A # {} /\ (\A x \in A : g[x] \in A) => \E x \in A : g[x] = x

(* A walk of N steps ends at a root: it has more positions than there are     *)
(* tasks, so it meets one twice, and what lies between is a circle.           *)
LEMMA WalkEndsAtRoot ==
  ASSUME NEW g \in [Tasks -> Tasks], Forest(g), NEW t \in Tasks
  PROVE  g[Walk(g, t)[N]] = Walk(g, t)[N]
<1>1. PICK up : up = Walk(g, t)
  OBVIOUS
<1>2. /\ up \in [0..N -> Tasks] /\ \A n \in 1..N : up[n] = g[up[n - 1]]
      /\ N \in Nat /\ IsFiniteSet(Tasks) /\ Cardinality(Tasks) = N
  <2>1. up \in [0..N -> Tasks] /\ \A n \in 1..N : up[n] = g[up[n - 1]]
    BY <1>1, WalkTyped
  <2>2. QED
    BY <2>1, TasksFinite
<1>3. PICK i \in 0..N, j \in 0..N : i < j /\ up[i] = up[j]
  <2>1. IsFiniteSet(0..N) /\ Cardinality(0..N) = N + 1
    <3>1. 0 \in Int /\ N \in Int /\ ~(0 > N) /\ N - 0 + 1 = N + 1
      BY <1>2
    <3>2. QED
      BY <3>1, FS_Interval
  <2>2. N < N + 1
    BY <1>2
  <2>3. \E x, y \in 0..N : x # y /\ up[x] = up[y]
    BY <1>2, <2>1, <2>2, FS_PigeonHole
  <2>4. PICK x \in 0..N, y \in 0..N : x # y /\ up[x] = up[y]
    BY <2>3
  <2>5. x < y \/ y < x
    BY <1>2, <2>4
  <2>6. QED
    BY <2>4, <2>5
<1> DEFINE A == {up[n] : n \in i..(j - 1)}
<1>4. A \in SUBSET Tasks /\ A # {}
  <2>1. \A n \in i..(j - 1) : n \in 0..N
    BY <1>2
  <2>2. i \in i..(j - 1)
    BY <1>3
  <2>3. QED
    BY <1>2, <2>1, <2>2
<1>5. ASSUME NEW x \in A PROVE g[x] \in A
  <2>1. PICK n \in i..(j - 1) : x = up[n]
    OBVIOUS
  <2>2. n + 1 \in 1..N /\ (n + 1) - 1 = n
    BY <1>2
  <2>3. g[x] = up[n + 1]
    BY <1>2, <2>1, <2>2
  <2>4. CASE n + 1 = j
    BY <1>3, <2>3, <2>4
  <2>5. CASE n + 1 # j
    <3>1. n + 1 \in i..(j - 1)
      BY <2>5
    <3>2. QED
      BY <2>3, <3>1
  <2>6. QED
    BY <2>4, <2>5
<1>6. PICK m \in i..(j - 1) : g[up[m]] = up[m]
  <2>1. \E x \in A : g[x] = x
    <3> HIDE DEF A
    <3>1. QED
      BY <1>4, <1>5 DEF Forest
  <2>2. QED
    BY <2>1
<1> DEFINE Bad == {n \in m..N : up[n] # up[m]}
<1>7. m \in Nat /\ N \in m..N
  BY <1>2
<1>8. Bad = {}
  <2>1. SUFFICES ASSUME Bad # {} PROVE FALSE
    OBVIOUS
  <2>2. Bad \in SUBSET Nat
    BY <1>7
  <2>3. PICK n \in Bad : \A k \in Bad : n <= k
    BY <2>1, <2>2, LeastNat
  <2>4. n # m
    BY <2>3
  <2>5. n \in 1..N /\ n - 1 \in m..N /\ n - 1 < n
    BY <1>7, <2>3, <2>4
  <2>6. n - 1 \notin Bad
    BY <2>3, <2>5
  <2>7. up[n - 1] = up[m]
    BY <2>5, <2>6
  <2>8. QED
    BY <1>2, <1>6, <2>3, <2>5, <2>7
<1>9. up[N] = up[m]
  BY <1>7, <1>8
<1>10. QED
  BY <1>1, <1>6, <1>9

(* What every link keeps, a walk keeps. *)
LEMMA WalkKeeps ==
  ASSUME NEW g \in [Tasks -> Tasks], NEW t \in Tasks, NEW F,
         \A x \in Tasks : F[g[x]] = F[x]
  PROVE  F[Walk(g, t)[N]] = F[t]
<1>1. PICK up : up = Walk(g, t)
  OBVIOUS
<1>2. /\ up \in [0..N -> Tasks] /\ up[0] = t /\ \A n \in 1..N : up[n] = g[up[n - 1]]
      /\ N \in Nat
  <2>1. up \in [0..N -> Tasks] /\ up[0] = t /\ \A n \in 1..N : up[n] = g[up[n - 1]]
    BY <1>1, WalkTyped
  <2>2. QED
    BY <2>1, TasksFinite
<1> DEFINE Bad == {n \in 0..N : F[up[n]] # F[t]}
<1>3. Bad = {}
  <2>1. SUFFICES ASSUME Bad # {} PROVE FALSE
    OBVIOUS
  <2>2. Bad \in SUBSET Nat
    BY <1>2
  <2>3. PICK n \in Bad : \A k \in Bad : n <= k
    BY <2>1, <2>2, LeastNat
  <2>4. n # 0
    BY <1>2, <2>3
  <2>5. n \in 1..N /\ n - 1 \in 0..N /\ n - 1 < n
    BY <1>2, <2>3, <2>4
  <2>6. n - 1 \notin Bad
    BY <2>3, <2>5
  <2>7. F[up[n - 1]] = F[t] /\ up[n - 1] \in Tasks
    BY <1>2, <2>5, <2>6
  <2>8. F[up[n]] = F[t]
    BY <1>2, <2>5, <2>7
  <2>9. QED
    BY <2>3, <2>8
<1>4. N \in 0..N
  BY <1>2
<1>5. QED
  BY <1>1, <1>3, <1>4

(* The roots are what every link keeps and every root has as its own. *)
RootsOf(g, F) == \A x \in Tasks : F[g[x]] = F[x] /\ (g[x] = x => F[x] = x)

LEMMA WalkIsRoot ==
  ASSUME NEW g \in [Tasks -> Tasks], Forest(g), NEW F, RootsOf(g, F)
  PROVE  \A t \in Tasks : Walk(g, t)[N] = F[t]
<1>0. \A x \in Tasks : F[g[x]] = F[x] /\ (g[x] = x => F[x] = x)
  BY DEF RootsOf
<1>1. ASSUME NEW t \in Tasks PROVE Walk(g, t)[N] = F[t]
  <2>1. Walk(g, t)[N] \in Tasks
    BY WalkTyped, TasksFinite
  <2>2. F[Walk(g, t)[N]] = Walk(g, t)[N]
    BY <1>0, <2>1, WalkEndsAtRoot
  <2>3. QED
    BY <1>0, <2>2, WalkKeeps
<1>2. QED
  BY <1>1

-----------------------------------------------------------------------------
(* The groups. *)

RootsFollow == \A x \in Tasks : Root(group[x]) = Root(x) /\ (group[x] = x => Root(x) = x)

Group(t) == {u \in Tasks : Root(u) = Root(t)}

(* Some conflict crosses every way to split the tasks. *)
Cohesive(g) ==
  \A S \in SUBSET g : S # {} /\ S # g => \E t \in S : \E u \in g \ S : Conflicting(t, u)

(* The links are a forest whose trees are held together by conflicts, and the *)
(* pairs of positions seen so far are in one tree if they conflict.           *)
GroupInv ==
  /\ Forest(group)
  /\ RootsFollow
  /\ \A t \in Tasks : Cohesive(Group(t))
  /\ pc = "union" =>
       \A i, j \in Tasks :
         i < j /\ (i - 1) * N + (j - 1) < next - 1 /\ Conflicting(order[i], order[j])
           => Root(order[i]) = Root(order[j])
  /\ pc \in {"insert", "admitted"} =>
       \A i, j \in Tasks :
         i < j /\ Conflicting(order[i], order[j]) => Root(order[i]) = Root(order[j])

LEMMA OverlapIsMutual ==
  \A t, u : Conflicting(t, u) <=> Conflicting(u, t)
<1>1. \A l, r : Overlap(l, r) <=> Overlap(r, l)
  BY DEF Overlap
<1>2. QED
  BY <1>1 DEF Conflicting

(* Two groups that a conflict joins are held together as one. *)
LEMMA CohesiveUnion ==
  ASSUME NEW A, NEW B, Cohesive(A), Cohesive(B),
         NEW a \in A, NEW b \in B, Conflicting(a, b)
  PROVE  Cohesive(A \cup B)
<1> SUFFICES ASSUME NEW S \in SUBSET (A \cup B), S # {}, S # A \cup B
             PROVE  \E t \in S : \E u \in (A \cup B) \ S : Conflicting(t, u)
  BY DEF Cohesive
<1>1. CASE S \cap A # {} /\ S \cap A # A
  <2>1. \E t \in S \cap A : \E u \in A \ (S \cap A) : Conflicting(t, u)
    BY <1>1 DEF Cohesive
  <2>2. QED
    BY <2>1
<1>2. CASE S \cap B # {} /\ S \cap B # B
  <2>1. \E t \in S \cap B : \E u \in B \ (S \cap B) : Conflicting(t, u)
    BY <1>2 DEF Cohesive
  <2>2. QED
    BY <2>1
<1>3. CASE S \cap A \in {{}, A} /\ S \cap B \in {{}, B}
  <2>1. CASE a \in S
    <3>1. A \subseteq S
      BY <1>3, <2>1
    <3>2. b \notin S
      BY <1>3, <3>1
    <3>3. QED
      BY <2>1, <3>2
  <2>2. CASE a \notin S
    <3>1. S \cap A = {}
      BY <1>3, <2>2
    <3>2. b \in S
      BY <1>3, <3>1
    <3>3. QED
      BY <2>2, <3>2, OverlapIsMutual
  <2>3. QED
    BY <2>1, <2>2
<1>4. QED
  BY <1>1, <1>2, <1>3

(* Linking a root to another moves the tasks below it, and no others. *)
LEMMA LinkMovesRoots ==
  ASSUME group \in [Tasks -> Tasks], Forest(group), RootsFollow,
         NEW l \in Tasks, NEW r \in Tasks, group[l] = l, group[r] = r, l # r,
         group' = [group EXCEPT ![r] = l]
  PROVE  /\ Forest(group')
         /\ \A x \in Tasks : Root(x)' = IF Root(x) = r THEN l ELSE Root(x)
         /\ RootsFollow'
<1>0. \A x \in Tasks : Root(group[x]) = Root(x) /\ (group[x] = x => Root(x) = x)
  BY DEF RootsFollow
<1>1. /\ group' \in [Tasks -> Tasks] /\ group'[r] = l /\ group'[l] = l
      /\ \A x \in Tasks : x # r => group'[x] = group[x]
  OBVIOUS
<1>2. Forest(group')
  <2> SUFFICES ASSUME NEW A \in SUBSET Tasks, A # {}, \A x \in A : group'[x] \in A
               PROVE  \E x \in A : group'[x] = x
    BY DEF Forest
  <2>1. CASE r \in A
    BY <1>1, <2>1
  <2>2. CASE r \notin A
    <3>1. \A x \in A : group[x] \in A
      BY <1>1, <2>2
    <3>2. PICK x \in A : group[x] = x
      BY <3>1 DEF Forest
    <3>3. QED
      BY <1>1, <2>2, <3>2
  <2>3. QED
    BY <2>1, <2>2
<1>3. Root(l) = l /\ Root(r) = r
  BY <1>0
<1> DEFINE F == [x \in Tasks |-> IF Root(x) = r THEN l ELSE Root(x)]
<1>4. ASSUME NEW x \in Tasks PROVE F[group'[x]] = F[x]
  <2>1. CASE x = r
    BY <1>1, <1>3, <2>1
  <2>2. CASE x # r
    <3>1. group'[x] = group[x] /\ group[x] \in Tasks /\ Root(group[x]) = Root(x)
      BY <1>0, <1>1, <2>2
    <3>2. QED
      BY <3>1
  <2>3. QED
    BY <2>1, <2>2
<1>5. ASSUME NEW x \in Tasks, group'[x] = x PROVE F[x] = x
  <2>1. x # r
    BY <1>1, <1>5
  <2>2. Root(x) = x
    BY <1>0, <1>1, <1>5, <2>1
  <2>3. QED
    BY <2>1, <2>2
<1>6. \A x \in Tasks : F[x] = IF Root(x) = r THEN l ELSE Root(x)
  OBVIOUS
<1> HIDE DEF F
<1>7. \A x \in Tasks : Walk(group', x)[N] = F[x]
  <2>0. PICK h \in [Tasks -> Tasks] : h = group'
    BY <1>1
  <2>1. PICK f : h = group' /\ f = F
    BY <2>0
  <2>2. Forest(h) /\ RootsOf(h, f)
    BY <1>2, <1>4, <1>5, <2>1 DEF RootsOf
  <2>3. \A x \in Tasks : Walk(h, x)[N] = f[x]
    BY <2>2, WalkIsRoot
  <2>4. QED
    BY <2>1, <2>3
<1>8. \A x \in Tasks : Root(x)' = F[x]
  BY <1>7, RootIsWalked
<1>9. ASSUME NEW x \in Tasks PROVE Root(group[x])' = Root(x)' /\ (group'[x] = x => Root(x)' = x)
  <2>1. PICK y \in Tasks : y = group'[x]
    BY <1>1
  <2>2. Root(y)' = Root(x)'
    BY <1>4, <1>8, <2>1
  <2>3. Root(group[x])' = Root(y)'
    BY <2>1
  <2>4. QED
    BY <1>5, <1>8, <2>2, <2>3
<1>10. QED
  BY <1>2, <1>6, <1>8, <1>9 DEF RootsFollow

(* A step that leaves the links alone leaves the groups alone. *)
LEMMA GroupsStay ==
  ASSUME GroupInv, UNCHANGED <<spec, group>>
  PROVE  /\ \A x : Root(x)' = Root(x)
         /\ \A t, u : Conflicting(t, u)' <=> Conflicting(t, u)
         /\ Forest(group')
         /\ RootsFollow'
         /\ \A t \in Tasks : Cohesive(Group(t))'
<1>1. \A x : Root(x)' = Root(x)
  BY RootIsWalked
<1>2. \A t, u : Conflicting(t, u)' <=> Conflicting(t, u)
  BY DEF Conflicting
<1>3. Forest(group')
  BY DEF GroupInv
<1>4. ASSUME NEW x \in Tasks PROVE Root(group[x])' = Root(x)' /\ (group'[x] = x => Root(x)' = x)
  <2>1. PICK y : y = group'[x]
    OBVIOUS
  <2>2. Root(group[x])' = Root(y)'
    BY <2>1
  <2>3. Root(y) = Root(x) /\ (y = x => Root(x) = x)
    BY <2>1 DEF GroupInv, RootsFollow
  <2>4. QED
    BY <1>1, <2>1, <2>2, <2>3
<1>5. ASSUME NEW t \in Tasks PROVE Cohesive(Group(t))'
  <2>1. Group(t)' = Group(t)
    BY <1>1 DEF Group
  <2>2. Cohesive(Group(t))
    BY DEF GroupInv
  <2>3. QED
    BY <1>2, <2>1, <2>2 DEF Cohesive
<1>6. QED
  BY <1>1, <1>2, <1>3, <1>4, <1>5 DEF RootsFollow

LEMMA InitGroupInv == Init => GroupInv
<1> SUFFICES ASSUME Init PROVE GroupInv
  OBVIOUS
<1>1. group = [t \in Tasks |-> t] /\ pc = "read"
  BY DEF Init
<1>2. group \in [Tasks -> Tasks] /\ \A x \in Tasks : group[x] = x
  BY <1>1
<1>3. Forest(group)
  BY <1>2 DEF Forest
<1>4. \A x \in Tasks : Root(x) = x
  <2>1. PICK g \in [Tasks -> Tasks] : g = group
    BY <1>2
  <2>2. RootsOf(g, g)
    BY <1>2, <2>1 DEF RootsOf
  <2>3. \A x \in Tasks : Walk(g, x)[N] = g[x]
    BY <1>3, <2>1, <2>2, WalkIsRoot
  <2>4. QED
    BY <1>2, <2>1, <2>3, RootIsWalked
<1>5. ASSUME NEW t \in Tasks PROVE Cohesive(Group(t))
  <2>1. Group(t) = {t}
    BY <1>4 DEF Group
  <2>2. QED
    BY <2>1 DEF Cohesive
<1>6. QED
  BY <1>1, <1>2, <1>3, <1>4, <1>5 DEF GroupInv, RootsFollow

(* A step that looks at a pair of positions joins what it should, and no more. *)
LEMMA UnionGroupInv == CompileInv /\ GroupInv /\ Union => GroupInv'
<1> SUFFICES ASSUME CompileInv, GroupInv, Union PROVE GroupInv'
  OBVIOUS
<1>1. /\ pc = "union" /\ UNCHANGED <<spec, order>>
      /\ \/ next < N * N /\ pc' = "union" /\ next' = next + 1
         \/ ~(next < N * N) /\ pc' = "insert"
  BY DEF Union, Stage
<1>2. /\ TypeOK /\ Len(order) = N /\ group \in [Tasks -> Tasks]
      /\ next \in Nat \ {0} /\ next <= N * N
      /\ N \in Nat \ {0} /\ Tasks = 1..N /\ N * N \in Nat
  <2>1. TypeOK /\ SortInv
    BY DEF CompileInv
  <2>2. Len(order) = N
    BY <1>1, <2>1 DEF SortInv, Compiled
  <2>3. group \in [Tasks -> Tasks] /\ next \in Nat \ {0} /\ next <= N * N
    BY <1>1, <2>1 DEF TypeOK
  <2>4. N \in Nat \ {0} /\ Tasks = 1..N
    BY TasksFinite
  <2>5. N * N \in Nat
    BY <2>4
  <2>6. QED
    BY <2>1, <2>2, <2>3, <2>4, <2>5
<1>3. PICK L \in Tasks, R \in Tasks : L = Left /\ R = Right
  BY <1>1, <1>2, PairTyped
<1>4. PICK l \in Tasks, r \in Tasks : l = Root(L) /\ r = Root(R)
  BY <1>2, RootTyped
<1> DEFINE Joins == /\ (next - 1) \div N < (next - 1) % N
                    /\ Conflicting(L, R) /\ l # r
<1>5. /\ ~Joins => group' = group
      /\ Joins => group' = [group EXCEPT ![r] = l]
  BY <1>3, <1>4 DEF Union, LinkRoots
<1>6. /\ Forest(group) /\ RootsFollow
      /\ \A t \in Tasks : Cohesive(Group(t))
  BY DEF GroupInv
<1>7. group[l] = l /\ group[r] = r
  BY <1>2, <1>4, <1>6, WalkEndsAtRoot, RootIsWalked
<1>8. /\ Forest(group') /\ RootsFollow'
      /\ \A x \in Tasks : Root(x)' = IF Joins /\ Root(x) = r THEN l ELSE Root(x)
  <2>1. CASE Joins
    <3>1. l # r /\ group' = [group EXCEPT ![r] = l]
      BY <1>5, <2>1
    <3>2. group \in [Tasks -> Tasks] /\ Forest(group) /\ RootsFollow
      BY <1>2, <1>6
    <3>3. /\ Forest(group') /\ RootsFollow'
          /\ \A x \in Tasks : Root(x)' = IF Root(x) = r THEN l ELSE Root(x)
      BY <1>7, <3>1, <3>2, LinkMovesRoots
    <3> HIDE DEF Joins
    <3>4. QED
      BY <2>1, <3>3
  <2>2. CASE ~Joins
    BY <1>1, <1>5, <2>2, GroupsStay
  <2>3. QED
    BY <2>1, <2>2
<1>9. \A t, u : Conflicting(t, u)' <=> Conflicting(t, u)
  BY <1>1 DEF Conflicting
<1>10. ASSUME NEW t \in Tasks PROVE Cohesive(Group(t))'
  <2>1. PICK G : G = Group(t)'
    OBVIOUS
  <2>2. Cohesive(G)
    <3>1. CASE Joins /\ Root(t) \in {l, r}
      <4>1. G = Group(L) \cup Group(R)
        BY <1>4, <1>8, <2>1, <3>1 DEF Group
      <4>2. L \in Group(L) /\ R \in Group(R) /\ Conflicting(L, R)
        BY <3>1 DEF Group
      <4>3. QED
        BY <1>6, <4>1, <4>2, CohesiveUnion
    <3>2. CASE ~(Joins /\ Root(t) \in {l, r})
      <4>1. G = Group(t)
        BY <1>8, <2>1, <3>2 DEF Group
      <4>2. QED
        BY <1>6, <4>1
    <3>3. QED
      BY <3>1, <3>2
  <2>3. Cohesive(G)'
    BY <1>9, <2>2 DEF Cohesive
  <2>4. QED
    BY <2>1, <2>3
<1>11. ASSUME NEW i \in Tasks, NEW j \in Tasks, i < j, (i - 1) * N + (j - 1) < next,
              Conflicting(order[i], order[j])
       PROVE  Root(order[i])' = Root(order[j])'
  <2>1. PICK x \in Tasks, y \in Tasks : x = order[i] /\ y = order[j]
    BY <1>2, OrderTyped
  <2>2. i - 1 \in 0..(N - 1) /\ j - 1 \in 0..(N - 1) /\ i - 1 < j - 1
    BY <1>2, <1>11
  <2>3. /\ (i - 1) * N + (j - 1) \in Nat
        /\ ((i - 1) * N + (j - 1)) \div N = i - 1
        /\ ((i - 1) * N + (j - 1)) % N = j - 1
    <3>1. N \in Nat \ {0}
      BY <1>2
    <3>2. PICK a \in 0..(N - 1), b \in 0..(N - 1) : a = i - 1 /\ b = j - 1
      BY <2>2
    <3>3. a * N + b \in Nat /\ (a * N + b) \div N = a /\ (a * N + b) % N = b
      BY <3>1
    <3>4. QED
      BY <3>2, <3>3
  <2>4. Root(x)' = Root(y)'
    <3>1. CASE (i - 1) * N + (j - 1) < next - 1
      <4>1. Root(x) = Root(y)
        BY <1>1, <1>11, <2>1, <3>1 DEF GroupInv
      <4>2. QED
        BY <1>8, <4>1
    <3>2. CASE (i - 1) * N + (j - 1) = next - 1
      <4>1. (next - 1) \div N = i - 1 /\ (next - 1) % N = j - 1
        BY <2>3, <3>2
      <4>2. x = L /\ y = R
        <5>1. 1 + (i - 1) = i /\ 1 + (j - 1) = j
          BY <1>2
        <5>2. QED
          BY <1>3, <2>1, <4>1, <5>1 DEF Left, Right
      <4>3. (next - 1) \div N < (next - 1) % N /\ Conflicting(L, R)
        BY <1>11, <2>1, <2>2, <4>1, <4>2
      <4>4. QED
        BY <1>4, <1>8, <4>2, <4>3
    <3>3. QED
      BY <1>2, <1>11, <2>3, <3>1, <3>2
  <2>5. QED
    BY <1>1, <2>1, <2>4
<1>12. ASSUME NEW i \in Tasks, NEW j \in Tasks PROVE (i - 1) * N + (j - 1) < N * N
  <2>1. i - 1 \in 0..(N - 1) /\ j - 1 \in 0..(N - 1)
    BY <1>2
  <2>2. (i - 1) * N + (j - 1) \in 0..(N * N - 1)
    BY <1>2, <2>1, PairsCounted
  <2>3. QED
    BY <1>2, <2>2
<1>13. pc' = "union" =>
         \A i, j \in Tasks :
           i < j /\ (i - 1) * N + (j - 1) < next' - 1 /\ Conflicting(order[i], order[j])'
             => Root(order[i])' = Root(order[j])'
  <2>1. SUFFICES ASSUME pc' = "union", NEW i \in Tasks, NEW j \in Tasks,
                        i < j, (i - 1) * N + (j - 1) < next' - 1, Conflicting(order[i], order[j])'
                 PROVE  Root(order[i])' = Root(order[j])'
    OBVIOUS
  <2>2. next' - 1 = next
    BY <1>1, <1>2, <2>1
  <2>3. Conflicting(order[i], order[j])
    BY <1>1, <2>1 DEF Conflicting
  <2>4. QED
    BY <1>11, <2>1, <2>2, <2>3
<1>14. pc' \in {"insert", "admitted"} =>
         \A i, j \in Tasks :
           i < j /\ Conflicting(order[i], order[j])' => Root(order[i])' = Root(order[j])'
  <2>1. SUFFICES ASSUME pc' \in {"insert", "admitted"}, NEW i \in Tasks, NEW j \in Tasks,
                        i < j, Conflicting(order[i], order[j])'
                 PROVE  Root(order[i])' = Root(order[j])'
    OBVIOUS
  <2>2. next = N * N
    BY <1>1, <1>2, <2>1
  <2>3. Conflicting(order[i], order[j])
    BY <1>1, <2>1 DEF Conflicting
  <2>4. QED
    BY <1>11, <1>12, <2>1, <2>2, <2>3
<1>15. QED
  BY <1>8, <1>10, <1>13, <1>14 DEF GroupInv

LEMMA NextGroupInv == CompileInv /\ GroupInv /\ [Next]_vars => GroupInv'
<1> SUFFICES ASSUME CompileInv, GroupInv, [Next]_vars, ~Union PROVE GroupInv'
  BY UnionGroupInv
<1>1. UNCHANGED <<spec, group>>
  BY DEF Next, vars, Read, Link, Sort, SortEnds, Measure, Trace, Insert
<1>2. \/ pc' \notin {"union", "insert", "admitted"}
      \/ pc' = "union" /\ next' = 1
      \/ pc' = "union" /\ pc = "union" /\ next' = next /\ order' = order
      \/ {pc, pc'} \subseteq {"insert", "admitted"} /\ order' = order
  <2>1. CASE Read \/ Link \/ Sort \/ SortEnds \/ Measure
    BY <2>1 DEF Read, Link, Sort, SortEnds, Measure, Stage, Reject
  <2>2. CASE Trace
    BY <2>2 DEF Trace, Stage
  <2>3. CASE Insert
    BY <2>3 DEF Insert, Stage
  <2>4. CASE UNCHANGED vars
    BY <2>4 DEF vars
  <2>5. QED
    BY <2>1, <2>2, <2>3, <2>4 DEF Next
<1>3. /\ Forest(group') /\ RootsFollow' /\ \A t \in Tasks : Cohesive(Group(t))'
      /\ \A x : Root(x)' = Root(x)
      /\ \A t, u : Conflicting(t, u)' <=> Conflicting(t, u)
  BY <1>1, GroupsStay
<1>4. ASSUME pc' = "union", NEW i \in Tasks, NEW j \in Tasks,
             i < j, (i - 1) * N + (j - 1) < next' - 1, Conflicting(order[i], order[j])'
      PROVE  Root(order[i])' = Root(order[j])'
  <2>1. N \in Nat \ {0} /\ i \in Nat \ {0} /\ j \in Nat \ {0}
    BY TasksFinite
  <2>2. (i - 1) * N + (j - 1) \in Nat
    BY <2>1
  <2>3. pc = "union" /\ next' = next /\ order' = order
    BY <1>2, <1>4, <2>2
  <2>4. PICK x, y : x = order[i] /\ y = order[j]
    OBVIOUS
  <2>5. Conflicting(x, y)
    BY <1>3, <1>4, <2>3, <2>4
  <2>6. Root(x) = Root(y)
    BY <1>4, <2>3, <2>4, <2>5 DEF GroupInv
  <2>7. QED
    BY <1>3, <2>3, <2>4, <2>6
<1>5. ASSUME pc' \in {"insert", "admitted"}, NEW i \in Tasks, NEW j \in Tasks,
             i < j, Conflicting(order[i], order[j])'
      PROVE  Root(order[i])' = Root(order[j])'
  <2>1. pc \in {"insert", "admitted"} /\ order' = order
    BY <1>2, <1>5
  <2>2. PICK x, y : x = order[i] /\ y = order[j]
    OBVIOUS
  <2>3. Conflicting(x, y)
    BY <1>3, <1>5, <2>1, <2>2
  <2>4. Root(x) = Root(y)
    BY <1>5, <2>1, <2>2, <2>3 DEF GroupInv
  <2>5. QED
    BY <1>3, <2>1, <2>2, <2>4
<1>6. QED
  BY <1>3, <1>4, <1>5 DEF GroupInv

(* Two beginnings of a path: one is the beginning of the other. *)
LEMMA BeginningsCompare ==
  ASSUME NEW C, NEW f \in Seq(C), NEW p \in Seq(C), NEW q \in Seq(C),
         Extends(f, p), Extends(f, q)
  PROVE  Extends(p, q) \/ Extends(q, p)
<1>1. ASSUME NEW x \in Seq(C), NEW y \in Seq(C), Extends(f, x), Extends(f, y), Len(x) <= Len(y)
      PROVE  Extends(y, x)
  <2>1. /\ Len(x) \in Nat /\ Len(y) \in Nat /\ Len(y) <= Len(f) /\ Len(f) \in Nat
        /\ SubSeq(f, 1, Len(x)) = x /\ SubSeq(f, 1, Len(y)) = y
    BY <1>1 DEF Extends
  <2>2. \A i \in 1..Len(y) : y[i] = f[i]
    BY <2>1
  <2>3. \A i \in 1..Len(x) : x[i] = f[i] /\ i \in 1..Len(y)
    BY <1>1, <2>1
  <2>4. SubSeq(y, 1, Len(x)) = x
    <3>1. SubSeq(y, 1, Len(x)) \in Seq(C) /\ Len(SubSeq(y, 1, Len(x))) = Len(x)
      BY <1>1, <2>1
    <3>2. \A i \in 1..Len(x) : SubSeq(y, 1, Len(x))[i] = x[i]
      BY <1>1, <2>1, <2>2, <2>3
    <3>3. QED
      BY <3>1, <3>2
  <2>5. QED
    BY <1>1, <2>4 DEF Extends
<1>2. Len(p) <= Len(q) \/ Len(q) <= Len(p)
  OBVIOUS
<1>3. QED
  BY <1>1, <1>2

(* Scopes that cover the same file overlap. *)
LEMMA CoversOverlap ==
  ASSUME NEW s \in Scope, NEW t \in Scope, NEW f \in Seq({"a", "b"}), Covers(s, f), Covers(t, f)
  PROVE  Overlap(s, t)
<1>1. /\ s.path \in Seq({"a", "b"}) /\ t.path \in Seq({"a", "b"})
      /\ s.kind \in {"file", "dir", "glob"} /\ t.kind \in {"file", "dir", "glob"}
  BY DEF Scope
<1>2. /\ s.kind = "file" => f = s.path
      /\ s.kind # "file" => Extends(f, s.path)
      /\ t.kind = "file" => f = t.path
      /\ t.kind # "file" => Extends(f, t.path)
  BY <1>1 DEF Covers
<1>3. CASE s.kind = "file" /\ t.kind = "file"
  BY <1>2, <1>3 DEF Scope, Overlap
<1>4. CASE s.kind = "file" /\ t.kind # "file"
  BY <1>1, <1>2, <1>4 DEF Overlap
<1>5. CASE s.kind # "file" /\ t.kind = "file"
  BY <1>1, <1>2, <1>5 DEF Overlap
<1>6. CASE s.kind # "file" /\ t.kind # "file"
  <2>1. Extends(s.path, t.path) \/ Extends(t.path, s.path)
    BY <1>1, <1>2, <1>6, BeginningsCompare
  <2>2. QED
    BY <1>1, <1>6, <2>1 DEF Overlap
<1>7. QED
  BY <1>3, <1>4, <1>5, <1>6

(* Two tasks that may write the same file are in one conflict group, and the *)
(* groups are no larger than chains of overlaps make them, for any number of *)
(* tasks, order and scopes (_conflicts, with the union-find of find/union).  *)
THEOREM PreflightGroupsCoverWriters == Spec => []GroupsCoverWriters
<1>1. CompileInv /\ GroupInv => GroupsCoverWriters
  <2> SUFFICES ASSUME CompileInv, GroupInv, pc \in {"insert", "admitted"}
               PROVE  GroupsCoverWriters
    BY DEF GroupsCoverWriters
  <2>1. TypeOK /\ SortInv /\ Len(order) = N
    BY DEF CompileInv, SortInv, Compiled
  <2>2. \A t \in Tasks : \A w \in spec.writes[t] : w \in Scope
    BY <2>1, PreflightAssumption DEF TypeOK
  <2>3. ASSUME NEW t \in Tasks, NEW u \in Tasks, t # u, Conflicting(t, u)
        PROVE  Root(t) = Root(u)
    <3>1. PICK i \in Tasks, j \in Tasks : t = order[i] /\ u = order[j]
      BY <2>1, OrderIsOnto
    <3>2. i < j \/ j < i
      BY <2>3, <3>1, TasksFinite
    <3>3. Conflicting(u, t)
      BY <2>3, OverlapIsMutual
    <3>4. QED
      BY <2>3, <3>1, <3>2, <3>3 DEF GroupInv
  <2>4. ASSUME NEW t \in Tasks, NEW u \in Tasks, t # u, NEW f \in Files,
               NEW s \in spec.writes[t], Covers(s, f), NEW w \in spec.writes[u], Covers(w, f)
        PROVE  \E g \in ConflictGroups : {t, u} \subseteq g
    <3>1. f \in Seq({"a", "b"})
      <4>1. PICK n \in 1..3 : f \in [1..n -> {"a", "b"}]
        BY DEF Files
      <4>2. n \in Nat
        OBVIOUS
      <4>3. QED
        BY <4>1, <4>2
    <3>2. Conflicting(t, u)
      BY <2>2, <2>4, <3>1, CoversOverlap DEF Conflicting
    <3>3. Root(t) = Root(u)
      BY <2>3, <2>4, <3>2
    <3> DEFINE g == {x \in Tasks : Root(x) = Root(t)}
    <3>4. {t, u} \subseteq g /\ g \in SUBSET Tasks
      BY <3>3
    <3>5. Cardinality(g) >= 2
      <4> HIDE DEF g
      <4>1. IsFiniteSet(g)
        BY <3>4, TasksFinite, FS_Subset
      <4>2. IsFiniteSet({t}) /\ Cardinality({t}) = 1
        BY FS_Singleton
      <4>3. {t} \cup {u} \subseteq g /\ u \notin {t}
        BY <2>4, <3>4
      <4>4. Cardinality({t} \cup {u}) = 2
        <5>1. Cardinality({t} \cup {u}) = Cardinality({t}) + 1
          BY <4>2, <4>3, FS_AddElement
        <5>2. QED
          BY <4>2, <5>1
      <4>5. Cardinality({t} \cup {u}) <= Cardinality(g)
        BY <4>1, <4>3, FS_Subset
      <4>6. Cardinality(g) \in Nat
        BY <4>1, FS_CardinalityType
      <4>7. QED
        BY <4>4, <4>5, <4>6
    <3>6. g \in ConflictGroups
      BY <3>5 DEF ConflictGroups
    <3>7. QED
      BY <3>4, <3>6
  <2>5. ASSUME NEW g \in ConflictGroups, NEW S \in SUBSET g, S # {}, S # g
        PROVE  \E t \in S : \E u \in g \ S : Conflicting(t, u)
    <3>1. PICK t \in Tasks : g = Group(t)
      BY DEF ConflictGroups, Group
    <3>2. Cohesive(g)
      BY <3>1 DEF GroupInv
    <3>3. QED
      BY <2>5, <3>2 DEF Cohesive
  <2>6. QED
    BY <2>4, <2>5 DEF GroupsCoverWriters
<1>2. Spec => []GroupInv
  <2>1. Init => CompileInv /\ GroupInv
    BY InitCompileInv, InitGroupInv
  <2>2. (CompileInv /\ GroupInv) /\ [Next]_vars => (CompileInv /\ GroupInv)'
    BY NextCompileInv, NextGroupInv
  <2>3. QED
    BY <2>1, <2>2, PTL DEF Spec
<1>3. QED
  BY <1>1, <1>2, CompileInvariance, PTL
=============================================================================
