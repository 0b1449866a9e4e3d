---------------------------- MODULE TeamRunProofs ----------------------------
(***************************************************************************)
(* Theorems about TeamRun, for every number of tasks and slots, every       *)
(* dependency graph, and every mode of the scheduler.                       *)
(***************************************************************************)
EXTENDS TeamRun, FiniteSetTheorems, WellFoundedInduction, TLAPS

At == {"off", "watch", "broken", "late", "exit", "torn", "slot", "spawn"}

PC == {"start", "edges", "check", "judge", "settle", "launch", "spawn",
       "sleep", "ended", "failed", "refused"}

(* What the start or a pass has read of the tasks are rows of the database. *)
TodoPresent == loop.todo \subseteq Present

(* Between the look at a row and its transition, what the pass saw of the   *)
(* prerequisites stays true: a delivered one is delivered for good.         *)
SettleArg ==
  loop.pc = "settle" =>
    /\ loop.arg \in Tasks /\ state[loop.arg] # "absent"
    /\ loop.to = "queued" => \A d \in deps[loop.arg] : state[d] = "delivered"

(* A coroutine that waits for a slot, or for its worker, has budget left. *)
RetryAffordable ==
  \A t \in Tasks : at[t] \in {"slot", "spawn"} => retries[t] < MaxRetries

Inv ==
  /\ TypeOK
  /\ TodoPresent
  /\ SettleArg
  /\ RetryAffordable
  /\ GateHolds
  /\ WithinCapacity

-----------------------------------------------------------------------------
(* The task state machine. *)

(* Only a live task moves, and no edge leads back to the absence of a row. *)
LEMMA LegalEdges ==
  ASSUME NEW a, NEW b, Legal(a, b)
  PROVE  /\ a \notin TERMINAL
         /\ b \in STATES
         /\ a = "blocked" => b \in {"queued", "dependency_blocked", "cancelled"}
         /\ a \in STATES
            \/ b = "cancelled"
BY DEF Legal, Transitions, STATES, TERMINAL

(* What one step may do to the rows: a move along an edge or an insertion. *)
RowsMove ==
  \A t \in Tasks :
    state'[t] # state[t] =>
      Legal(state[t], state'[t]) \/ (state[t] = "absent" /\ state'[t] = "blocked")

(* Only the pass lets a blocked task out. *)
OnlyPassReleases ==
  \A t \in Tasks :
    state[t] = "blocked" /\ state'[t] = "queued" =>
      loop.pc = "settle" /\ loop.arg = t /\ loop.to = "queued"

(* Dependencies are written with their task. *)
DepsWrittenOnce ==
  \A t \in Tasks : deps'[t] = deps[t] \/ (state[t] = "absent" /\ state'[t] = "blocked")

RowStep == RowsMove /\ OnlyPassReleases /\ DepsWrittenOnce

LEMMA LegalMoves ==
  /\ Legal("running", "verifying") /\ Legal("running", "triage")
  /\ Legal("verifying", "delivering") /\ Legal("verifying", "triage")
  /\ Legal("delivering", "triage") /\ Legal("delivering", "delivered")
  /\ Legal("triage", "needs_human") /\ Legal("triage", "failed")
  /\ Legal("needs_human", "queued")
BY DEF Legal, Transitions, TERMINAL

LEMMA MainLoopRows ==
  ASSUME TypeOK, MainLoop
  PROVE  RowStep
<1> USE DEF RowStep, RowsMove, OnlyPassReleases, DepsWrittenOnce
<1>1. CASE state' = state /\ deps' = deps
  BY <1>1
<1>2. CASE Settle
  BY <1>2 DEF Settle, TypeOK
<1>3. CASE MainSpawned
  <2>1. state' = state \/ (Legal(state[loop.arg], "running")
                           /\ state' = [state EXCEPT ![loop.arg] = "running"])
    BY <1>3 DEF MainSpawned
  <2>2. deps' = deps
    BY <1>3 DEF MainSpawned
  <2>3. QED
    BY <2>1, <2>2 DEF TypeOK
<1>4. CASE ReadTasks \/ Start \/ Check \/ Judge \/ JudgeRaises \/ PassEnds \/ Launch \/ Sleep
  BY <1>1, <1>4 DEF ReadTasks, Start, Check, Judge, JudgeRaises, PassEnds, Launch, Sleep
<1>5. QED
  BY <1>2, <1>3, <1>4 DEF MainLoop

LEMMA LiveRows ==
  ASSUME TypeOK, NEW t \in Tasks, Live(t)
  PROVE  RowStep
<1>1. deps' = deps
  BY DEF Live
<1>2. \/ state' = state
      \/ \E b \in STATES : /\ state' = [state EXCEPT ![t] = b]
                           /\ Legal(state[t], b)
                           /\ state[t] # "blocked"
  <2>1. CASE WorkerEnds(t)
    BY <2>1, LegalMoves DEF WorkerEnds, Move, STATES
  <2>2. CASE VerifyAndDeliver(t)
    BY <2>2, LegalMoves DEF VerifyAndDeliver, Move, STATES
  <2>3. CASE GiveUp(t)
    BY <2>3, LegalMoves DEF GiveUp, Move, STATES
  <2>4. CASE Spawned(t)
    BY <2>4 DEF Spawned, Move, Legal, Transitions, STATES
  <2>5. CASE ExitSeen(t)
    BY <2>5, LegalMoves DEF ExitSeen, Move, STATES
  <2>6. CASE \/ WorkerBreaks(t) \/ TearDown(t) \/ CleanupFails(t) \/ GoneCancelled(t)
             \/ Retry(t) \/ GetSlot(t)
    BY <2>6 DEF WorkerBreaks, TearDown, CleanupFails, GoneCancelled, Retry, GetSlot
  <2>7. QED
    BY <2>1, <2>2, <2>3, <2>4, <2>5, <2>6 DEF Live
<1>3. QED
  BY <1>1, <1>2 DEF TypeOK, RowStep, RowsMove, OnlyPassReleases, DepsWrittenOnce

LEMMA PeopleRows ==
  ASSUME TypeOK, NEW t \in Tasks, AddTask(t) \/ Answer(t) \/ Cancel(t)
  PROVE  RowStep
<1> USE DEF RowStep, RowsMove, OnlyPassReleases, DepsWrittenOnce, TypeOK
<1>1. CASE AddTask(t)
  <2>1. state[t] = "absent" /\ state' = [state EXCEPT ![t] = "blocked"]
    BY <1>1 DEF AddTask, Present
  <2>2. PICK prerequisites \in SUBSET Present : deps' = [deps EXCEPT ![t] = prerequisites]
    BY <1>1 DEF AddTask
  <2>3. QED
    BY <2>1, <2>2
<1>2. CASE Answer(t)
  BY <1>2, LegalMoves DEF Answer
<1>3. CASE Cancel(t)
  BY <1>3 DEF Cancel, Legal
<1>4. QED
  BY <1>1, <1>2, <1>3

LEMMA EveryStepRows ==
  ASSUME TypeOK, [Next]_vars
  PROVE  RowStep
<1>1. CASE UNCHANGED vars
  BY <1>1 DEF vars, RowStep, RowsMove, OnlyPassReleases, DepsWrittenOnce
<1>2. CASE Next
  BY <1>2, MainLoopRows, LiveRows, PeopleRows DEF Next
<1>3. QED
  BY <1>1, <1>2

(* What is delivered, and what is in the database, stays. *)
LEMMA Stable ==
  ASSUME TypeOK, RowStep
  PROVE  /\ \A t \in Tasks : state[t] = "delivered" => state'[t] = "delivered"
         /\ \A t \in Tasks : state[t] # "absent" => state'[t] # "absent"
         /\ Present \subseteq Present'
<1>1. \A t \in Tasks : state[t] = "delivered" => state'[t] = "delivered"
  BY DEF RowStep, RowsMove, Legal, TERMINAL
<1>2. \A t \in Tasks : state[t] # "absent" => state'[t] # "absent"
  BY LegalEdges DEF RowStep, RowsMove, STATES
<1>3. QED
  BY <1>1, <1>2 DEF Present

-----------------------------------------------------------------------------
(* The gate. *)

Out(s) == s \notin {"absent", "blocked", "dependency_blocked", "cancelled"}

LEMMA GateStep ==
  ASSUME TypeOK, SettleArg, GateHolds, RowStep
  PROVE  GateHolds'
<1> SUFFICES ASSUME NEW t \in Tasks, Out(state'[t]), NEW d \in deps'[t]
             PROVE  state'[d] = "delivered"
  BY DEF GateHolds, Out
<1>1. state[t] # "absent"
  BY LegalEdges DEF RowStep, RowsMove, Out, Legal, Transitions
<1>2. deps'[t] = deps[t] /\ d \in Tasks
  BY <1>1 DEF RowStep, DepsWrittenOnce, TypeOK
<1>3. CASE Out(state[t])
  <2>1. state[d] = "delivered"
    BY <1>2, <1>3 DEF GateHolds, Out
  <2>2. QED
    BY <1>2, <2>1, Stable
<1>4. CASE ~Out(state[t])
  <2>1. state[t] = "blocked" /\ state'[t] = "queued"
    BY <1>1, <1>4 DEF RowStep, RowsMove, Out, Legal, Transitions, TERMINAL
  <2>2. loop.pc = "settle" /\ loop.arg = t /\ loop.to = "queued"
    BY <2>1 DEF RowStep, OnlyPassReleases
  <2>3. state[d] = "delivered"
    BY <1>2, <2>2 DEF SettleArg
  <2>4. QED
    BY <1>2, <2>3, Stable
<1>5. QED
  BY <1>3, <1>4

-----------------------------------------------------------------------------
(* What the pass remembers of the rows. *)

Noted ==
  /\ loop'.todo \subseteq Present
  /\ loop'.pc = "settle" =>
       /\ loop'.arg \in Tasks /\ state[loop'.arg] # "absent"
       /\ loop'.to = "queued" => \A d \in deps[loop'.arg] : state[d] = "delivered"

(* Whatever a step makes the pass remember was true when it was noted. *)
LEMMA NotedStep ==
  ASSUME TypeOK, TodoPresent, SettleArg, [Next]_vars
  PROVE  Noted
<1> USE DEF Noted
<1>1. CASE UNCHANGED loop
  BY <1>1 DEF TodoPresent, SettleArg
<1>2. CASE Judge
  <2>0. PICK t \in loop.todo :
          \E v \in Verdicts(t) :
            loop' = [loop EXCEPT !.todo = @ \ {t}, !.arg = t, !.to = v,
                                 !.pc = IF v = "blocked" THEN "judge" ELSE "settle"]
    BY <1>2 DEF Judge
  <2>1. PICK v \in Verdicts(t) :
          loop' = [loop EXCEPT !.todo = @ \ {t}, !.arg = t, !.to = v,
                               !.pc = IF v = "blocked" THEN "judge" ELSE "settle"]
    BY <2>0
  <2>2. t \in Tasks /\ state[t] # "absent"
    BY DEF TodoPresent, Present
  <2>3. v = "queued" => \A d \in deps[t] : state[d] = "delivered"
    BY DEF Verdicts, Satisfied
  <2>4. /\ loop'.todo = loop.todo \ {t} /\ loop'.arg = t /\ loop'.to = v
    BY <2>1 DEF TypeOK
  <2>5. QED
    BY <2>2, <2>3, <2>4 DEF TodoPresent
<1>3. CASE Check \/ PassEnds
  <2>1. loop'.pc # "settle" /\ loop'.todo \in {loop.todo, BlockedTasks}
    BY <1>3 DEF Check, PassEnds, TypeOK
  <2>2. QED
    BY <2>1 DEF TodoPresent, BlockedTasks, Present
<1>4. CASE ReadTasks \/ Start \/ JudgeRaises \/ Settle \/ Launch \/ MainSpawned \/ Sleep
  <2>1. loop'.pc # "settle" /\ loop'.todo \in {loop.todo, Present}
    BY <1>4 DEF ReadTasks, Start, JudgeRaises, Settle, Launch, MainSpawned, Sleep, TypeOK
  <2>2. QED
    BY <2>1 DEF TodoPresent
<1>5. CASE \E t \in Tasks : Live(t) \/ AddTask(t) \/ Answer(t) \/ Cancel(t)
  BY <1>1, <1>5 DEF Live, AddTask, Answer, Cancel
<1>6. QED
  BY <1>1, <1>2, <1>3, <1>4, <1>5 DEF Next, MainLoop, vars

(* What the pass noted stays true until the row is written. *)
LEMMA PassStep ==
  ASSUME TypeOK, RowStep, Noted
  PROVE  TodoPresent' /\ SettleArg'
<1>1. TodoPresent'
  BY Stable DEF Noted, TodoPresent
<1>2. ASSUME loop'.pc = "settle"
      PROVE  /\ loop'.arg \in Tasks /\ state'[loop'.arg] # "absent"
             /\ loop'.to = "queued" => \A d \in deps'[loop'.arg] : state'[d] = "delivered"
  <2> DEFINE t == loop'.arg
  <2>1. /\ t \in Tasks /\ state[t] # "absent"
        /\ loop'.to = "queued" => \A d \in deps[t] : state[d] = "delivered"
    BY <1>2 DEF Noted
  <2> HIDE DEF t
  <2>2. deps'[t] = deps[t] /\ deps[t] \subseteq Tasks
    BY <2>1 DEF RowStep, DepsWrittenOnce, TypeOK
  <2>3. t \in Tasks /\ state'[t] # "absent"
    BY <2>1, Stable
  <2>4. loop'.to = "queued" => \A d \in deps'[t] : state'[d] = "delivered"
    BY <2>1, <2>2, Stable
  <2>5. QED
    BY <2>3, <2>4 DEF t
<1>3. QED
  BY <1>1, <1>2 DEF SettleArg

-----------------------------------------------------------------------------
(* The slots. *)

LEMMA SlotsFinite ==
  ASSUME TypeOK
  PROVE  IsFiniteSet(slots) /\ Cardinality(slots) \in Nat
<1>1. IsFiniteSet(Tasks)
  BY FS_Interval, TeamAssumption DEF Tasks
<1>2. IsFiniteSet(slots)
  BY <1>1, FS_Subset DEF TypeOK
<1>3. QED
  BY <1>2, FS_CardinalityType

(* Below the limit there is room for one more. *)
LEMMA RoomForOne ==
  ASSUME TypeOK, Cardinality(slots) < Slots, NEW t
  PROVE  Cardinality(slots \cup {t}) <= Slots
<1>1. /\ IsFiniteSet(slots) /\ Cardinality(slots) \in Nat
      /\ Slots \in Nat
  BY SlotsFinite, TeamAssumption
<1>2. Cardinality(slots \cup {t}) \in {Cardinality(slots), Cardinality(slots) + 1}
  BY <1>1, FS_AddElement
<1>3. QED
  BY <1>1, <1>2

(* The limit of a launch never exceeds the pool. *)
LEMMA LimitsBounded ==
  ASSUME NEW limit \in Limits
  PROVE  limit \in Nat /\ limit <= Slots
BY TeamAssumption DEF Limits

LEMMA CapacityStep ==
  ASSUME TypeOK, WithinCapacity, [Next]_vars
  PROVE  WithinCapacity'
<1> USE DEF WithinCapacity
<1>1. CASE slots' = slots
  BY <1>1
<1>2. ASSUME NEW t, Cardinality(slots) < Slots, slots' = slots \cup {t}
      PROVE  WithinCapacity'
  BY <1>2, RoomForOne
<1>3. ASSUME NEW t \in Tasks, slots' = slots \ {t}
      PROVE  WithinCapacity'
  <2>1. /\ Cardinality(slots \ {t}) <= Cardinality(slots)
        /\ Cardinality(slots \ {t}) \in Nat
        /\ Cardinality(slots) \in Nat /\ Slots \in Nat
    BY SlotsFinite, FS_RemoveElement, FS_CardinalityType, FS_Subset, TeamAssumption
  <2>2. QED
    BY <1>3, <2>1
<1>4. CASE Launch
  <2>1. PICK limit \in Limits :
          \/ slots' = slots
          \/ Cardinality(slots) < limit /\ \E t \in Candidates : slots' = slots \cup {t}
    BY <1>4 DEF Launch
  <2>2. Cardinality(slots) < limit => Cardinality(slots) < Slots
    BY LimitsBounded, SlotsFinite, TeamAssumption
  <2>3. QED
    BY <1>1, <1>2, <2>1, <2>2
<1>5. ASSUME NEW t \in Tasks, Live(t)
      PROVE  WithinCapacity'
  <2>1. \/ slots' = slots
        \/ slots' = slots \ {t}
        \/ Cardinality(slots) < Slots /\ slots' = slots \cup {t}
    BY <1>5 DEF Live, WorkerEnds, WorkerBreaks, TearDown, CleanupFails, ExitSeen,
                VerifyAndDeliver, GiveUp, GoneCancelled, Retry, GetSlot, Spawned
  <2>2. QED
    BY <1>1, <1>2, <1>3, <2>1
<1>6. CASE \/ ReadTasks \/ Start \/ Check \/ Judge \/ JudgeRaises \/ Settle \/ PassEnds
           \/ MainSpawned \/ Sleep
           \/ \E t \in Tasks : AddTask(t) \/ Answer(t) \/ Cancel(t)
           \/ UNCHANGED vars
  BY <1>1, <1>6 DEF ReadTasks, Start, Check, Judge, JudgeRaises, Settle, PassEnds,
                    MainSpawned, Sleep, AddTask, Answer, Cancel, vars
<1>7. QED
  BY <1>4, <1>5, <1>6 DEF Next, MainLoop

-----------------------------------------------------------------------------
(* Types. *)

LEMMA InitInv == Init => Inv
<1> SUFFICES ASSUME Init PROVE Inv
  OBVIOUS
<1>1. TypeOK
  BY TeamAssumption DEF Init, TypeOK, Tasks, STATES
<1>2. TodoPresent /\ SettleArg /\ RetryAffordable
  BY DEF Init, TodoPresent, SettleArg, RetryAffordable
<1>3. GateHolds
  BY DEF Init, GateHolds
<1>4. WithinCapacity
  <2>1. Cardinality(slots) = 0 /\ 0 <= Slots
    BY FS_EmptySet, TeamAssumption DEF Init
  <2>2. QED
    BY <2>1 DEF WithinCapacity
<1>5. QED
  BY <1>1, <1>2, <1>3, <1>4 DEF Inv

(* The causes of a dep.blocked event are prerequisites with their states. *)
LEMMA WhyType ==
  ASSUME TypeOK, NEW t \in Tasks
  PROVE  Why(t) \in SUBSET (Tasks \X (STATES \cup {"interface_failed"}))
<1>1. deps[t] \subseteq Tasks
  BY DEF TypeOK
<1>2. \A c \in Blocking(t) : c \in Tasks \X STATES
  BY <1>1 DEF Blocking, STATES
<1>3. QED
  BY <1>1, <1>2 DEF Why

RowsType ==
  /\ state \in [Tasks -> STATES \cup {"absent"}]
  /\ deps \in [Tasks -> SUBSET Tasks]

LEMMA RowsTypeStep ==
  ASSUME TypeOK,
         [Next]_vars
  PROVE  RowsType'
<1> USE DEF RowsType
<1>1. ASSUME NEW t, NEW b \in STATES, state' = [state EXCEPT ![t] = b]
      PROVE  state' \in [Tasks -> STATES \cup {"absent"}]
  BY <1>1 DEF TypeOK
<1>2. CASE UNCHANGED <<state, deps>>
  BY <1>2 DEF TypeOK
<1>3. CASE MainLoop
  <2>1. deps' = deps /\ (state' = state \/ \E b \in STATES : state' = [state EXCEPT ![loop.arg] = b])
    BY <1>3 DEF MainLoop, ReadTasks, Start, Check, Judge, JudgeRaises, Settle, PassEnds,
                Launch, MainSpawned, Sleep, TypeOK, STATES
  <2>2. QED
    BY <1>1, <2>1 DEF TypeOK
<1>4. ASSUME NEW t \in Tasks, Live(t)
      PROVE  RowsType'
  <2>1. deps' = deps /\ (state' = state \/ \E b \in STATES : state' = [state EXCEPT ![t] = b])
    BY <1>4 DEF Live, WorkerEnds, WorkerBreaks, TearDown, CleanupFails, ExitSeen,
                VerifyAndDeliver, GiveUp, GoneCancelled, Retry, GetSlot, Spawned, Move, STATES
  <2>2. QED
    BY <1>1, <2>1 DEF TypeOK
<1>5. ASSUME NEW t \in Tasks, AddTask(t)
      PROVE  RowsType'
  <2>1. state' = [state EXCEPT ![t] = "blocked"] /\ "blocked" \in STATES
    BY <1>5 DEF AddTask, STATES
  <2>2. PICK prerequisites \in SUBSET Present : deps' = [deps EXCEPT ![t] = prerequisites]
    BY <1>5 DEF AddTask
  <2>3. prerequisites \in SUBSET Tasks
    BY DEF Present
  <2>4. QED
    BY <1>1, <2>1, <2>2, <2>3 DEF TypeOK
<1>6. ASSUME NEW t \in Tasks, Answer(t) \/ Cancel(t)
      PROVE  RowsType'
  <2>1. deps' = deps /\ (\E b \in STATES : state' = [state EXCEPT ![t] = b])
    BY <1>6 DEF Answer, Cancel, STATES
  <2>2. QED
    BY <1>1, <2>1 DEF TypeOK
<1>7. QED
  BY <1>2, <1>3, <1>4, <1>5, <1>6 DEF Next, vars

LoopType ==
  loop \in [pc : PC, todo : SUBSET Tasks, arg : Tasks \cup {0},
            to : {"blocked", "queued", "dependency_blocked"}, moved : BOOLEAN]

LEMMA LoopTypeStep ==
  ASSUME TypeOK, [Next]_vars
  PROVE  LoopType'
<1> USE DEF LoopType, PC
<1>1. CASE UNCHANGED loop
  BY <1>1 DEF TypeOK
<1>2. CASE Judge
  <2>1. PICK t \in loop.todo :
          \E v \in Verdicts(t) :
            loop' = [loop EXCEPT !.todo = @ \ {t}, !.arg = t, !.to = v,
                                 !.pc = IF v = "blocked" THEN "judge" ELSE "settle"]
    BY <1>2 DEF Judge
  <2>2. PICK v \in Verdicts(t) :
          loop' = [loop EXCEPT !.todo = @ \ {t}, !.arg = t, !.to = v,
                               !.pc = IF v = "blocked" THEN "judge" ELSE "settle"]
    BY <2>1
  <2>3. v \in {"blocked", "queued", "dependency_blocked"}
    BY DEF Verdicts
  <2>4. QED
    BY <2>2, <2>3 DEF TypeOK
<1>3. CASE Launch
  <2>1. PICK limit \in Limits :
          \/ \E p \in PC : loop' = [loop EXCEPT !.pc = p]
          \/ \E t \in Candidates : loop' = [loop EXCEPT !.pc = "spawn", !.arg = t]
    BY <1>3 DEF Launch
  <2>2. Candidates \subseteq Tasks
    BY DEF Candidates
  <2>3. QED
    BY <2>1, <2>2 DEF TypeOK
<1>4. CASE Check \/ PassEnds
  <2>1. BlockedTasks \in SUBSET Tasks
    BY DEF BlockedTasks
  <2>2. \/ \E p \in PC : loop' = [loop EXCEPT !.pc = p]
        \/ loop' = [loop EXCEPT !.pc = "judge", !.todo = BlockedTasks, !.moved = FALSE]
        \/ loop' = [loop EXCEPT !.todo = BlockedTasks, !.moved = FALSE]
    BY <1>4 DEF Check, PassEnds
  <2>3. QED
    BY <2>1, <2>2 DEF TypeOK
<1>5. CASE Start \/ Settle \/ MainSpawned \/ Sleep
  BY <1>5 DEF Start, Settle, MainSpawned, Sleep, TypeOK
<1>a. CASE ReadTasks
  <2>1. Present \in SUBSET Tasks /\ loop' = [loop EXCEPT !.pc = "edges", !.todo = Present]
    BY <1>a DEF ReadTasks, Present
  <2>2. QED
    BY <2>1 DEF TypeOK
<1>b. CASE JudgeRaises
  <2>1. loop' = [loop EXCEPT !.pc = "failed"]
    BY <1>b DEF JudgeRaises
  <2>2. QED
    BY <2>1 DEF TypeOK
<1>6. CASE \E t \in Tasks : Live(t) \/ AddTask(t) \/ Answer(t) \/ Cancel(t)
  BY <1>1, <1>6 DEF Live, AddTask, Answer, Cancel
<1>7. QED
  BY <1>1, <1>2, <1>3, <1>4, <1>5, <1>6, <1>a, <1>b DEF Next, MainLoop, vars

(* The coroutines: where they are, the slots they hold, what they have left. *)
DriversType ==
  /\ at \in [Tasks -> At]
  /\ retries \in [Tasks -> 0..MaxRetries]
  /\ slots \subseteq Tasks

LEMMA DriversStep ==
  ASSUME TypeOK, RetryAffordable, [Next]_vars
  PROVE  DriversType' /\ RetryAffordable'
<1> DEFINE Goal == DriversType' /\ RetryAffordable'
<1> USE DEF DriversType, RetryAffordable, At, TypeOK
<1>1. CASE UNCHANGED <<at, retries>> /\ slots' \subseteq Tasks
  BY <1>1
<1>2. ASSUME NEW t \in Tasks, NEW a \in {"off", "watch", "broken", "late", "exit", "torn"},
             at' = [at EXCEPT ![t] = a], retries' = retries, slots' \subseteq Tasks
      PROVE  Goal
  BY <1>2
<1>3. CASE Launch
  <2>1. slots' \subseteq Tasks /\ UNCHANGED <<at, retries>>
    BY <1>3 DEF Launch, Candidates
  <2>2. QED
    BY <1>1, <2>1
<1>4. CASE MainSpawned
  <2>1. UNCHANGED <<slots, retries>> /\ (at' = at \/ at' = [at EXCEPT ![loop.arg] = "watch"])
    BY <1>4 DEF MainSpawned
  <2>2. QED
    BY <2>1
<1>5. ASSUME NEW t \in Tasks, Live(t)
      PROVE  Goal
  <2>1. CASE \/ WorkerEnds(t) \/ WorkerBreaks(t) \/ VerifyAndDeliver(t) \/ GiveUp(t)
             \/ GoneCancelled(t) \/ TearDown(t) \/ CleanupFails(t) \/ ExitSeen(t)
    <3>1. /\ retries' = retries /\ slots' \subseteq Tasks
          /\ \/ at' = at
             \/ \E a \in {"off", "watch", "broken", "late", "exit", "torn"} :
                  at' = [at EXCEPT ![t] = a]
      BY <2>1 DEF WorkerEnds, WorkerBreaks, VerifyAndDeliver, GiveUp, GoneCancelled, TearDown,
                  CleanupFails, ExitSeen, Goto
    <3>2. QED
      BY <1>1, <1>2, <3>1
  <2>2. CASE Retry(t)
    BY <2>2 DEF Retry, Goto
  <2>3. CASE GetSlot(t)
    BY <2>3 DEF GetSlot, Goto, Lives
  <2>4. CASE Spawned(t)
    <3>1. slots' = slots /\ at[t] = "spawn" /\ retries[t] < MaxRetries
      BY <2>4 DEF Spawned, Lives
    <3>2. CASE at' = [at EXCEPT ![t] = "off"] /\ retries' = retries
      BY <1>2, <3>1, <3>2
    <3>3. CASE at' = [at EXCEPT ![t] = "watch"] /\ retries' = [retries EXCEPT ![t] = @ + 1]
      <4>1. retries[t] + 1 \in 0..MaxRetries
        BY <3>1, TeamAssumption
      <4>2. QED
        BY <3>1, <3>3, <4>1
    <3>4. QED
      BY <2>4, <3>2, <3>3 DEF Spawned, Goto
  <2>5. QED
    BY <1>5, <2>1, <2>2, <2>3, <2>4 DEF Live
<1>6. CASE \/ ReadTasks \/ Start \/ Check \/ Judge \/ JudgeRaises \/ Settle \/ PassEnds \/ Sleep
           \/ \E t \in Tasks : AddTask(t) \/ Answer(t) \/ Cancel(t)
           \/ UNCHANGED vars
  BY <1>1, <1>6 DEF ReadTasks, Start, Check, Judge, JudgeRaises, Settle, PassEnds, Sleep,
                    AddTask, Answer, Cancel, vars
<1>7. QED
  BY <1>3, <1>4, <1>5, <1>6 DEF Next, MainLoop

NotesType ==
  /\ cause \in [Tasks -> SUBSET (Tasks \X (STATES \cup {"interface_failed"}))]
  /\ people \in [adds : 0..MaxAdds, answers : 0..MaxAnswers, cancels : 0..MaxCancels]
  /\ faults \subseteq Faults

LEMMA NotesTypeStep ==
  ASSUME TypeOK, [Next]_vars
  PROVE  NotesType'
<1> USE DEF NotesType, TypeOK
<1>1. CASE UNCHANGED <<cause, people, faults>>
  BY <1>1
<1>2. CASE Judge
  <2>1. PICK t \in loop.todo : cause' \in {cause, [cause EXCEPT ![t] = Why(t)]}
    BY <1>2 DEF Judge
  <2>2. t \in Tasks /\ people' = people /\ faults' = faults
    BY <1>2 DEF Judge
  <2>3. Why(t) \in SUBSET (Tasks \X (STATES \cup {"interface_failed"}))
    BY <2>2, WhyType
  <2>4. cause' \in [Tasks -> SUBSET (Tasks \X (STATES \cup {"interface_failed"}))]
    BY <2>1, <2>2, <2>3
  <2>5. QED
    BY <2>2, <2>4
<1>3. CASE \E t \in Tasks : AddTask(t)
  BY <1>3, TeamAssumption DEF AddTask
<1>4. CASE \E t \in Tasks : Answer(t)
  BY <1>4, TeamAssumption DEF Answer
<1>5. CASE \E t \in Tasks : Cancel(t)
  BY <1>5, TeamAssumption DEF Cancel
<1>6. CASE \/ ReadTasks \/ Start \/ Check \/ JudgeRaises \/ Settle \/ PassEnds \/ Launch
           \/ MainSpawned \/ Sleep \/ UNCHANGED vars
  BY <1>1, <1>6 DEF ReadTasks, Start, Check, JudgeRaises, Settle, PassEnds, Launch,
                    MainSpawned, Sleep, vars
<1>7. ASSUME NEW t \in Tasks, Live(t)
      PROVE  NotesType'
  <2>1. cause' = cause /\ people' = people
    BY <1>7 DEF Live
  <2>2. faults' \subseteq Faults
    BY <1>7 DEF Live, WorkerEnds, WorkerBreaks, TearDown, CleanupFails, ExitSeen,
                VerifyAndDeliver, GiveUp, GoneCancelled, Retry, GetSlot, Spawned
  <2>3. QED
    BY <2>1, <2>2
<1>8. QED
  BY <1>2, <1>3, <1>4, <1>5, <1>6, <1>7 DEF Next, MainLoop

-----------------------------------------------------------------------------
(* The theorems. *)

LEMMA InvStep == Inv /\ [Next]_vars => Inv'
<1> SUFFICES ASSUME Inv, [Next]_vars PROVE Inv'
  OBVIOUS
<1> USE DEF Inv
<1>1. RowStep
  BY EveryStepRows
<1>2. TypeOK'
  <2>1. RowsType' /\ LoopType' /\ DriversType' /\ NotesType'
    BY <1>1, RowsTypeStep, LoopTypeStep, DriversStep, NotesTypeStep
  <2>2. QED
    BY <2>1 DEF TypeOK, RowsType, LoopType, DriversType, NotesType, At, PC
<1>3. TodoPresent' /\ SettleArg'
  BY <1>1, NotedStep, PassStep
<1>4. RetryAffordable'
  BY DriversStep
<1>5. GateHolds'
  BY <1>1, GateStep
<1>6. WithinCapacity'
  BY CapacityStep
<1>7. QED
  BY <1>2, <1>3, <1>4, <1>5, <1>6

THEOREM TeamInvariant == Spec => []Inv
<1>1. Init => Inv
  BY InitInv
<1>2. Inv /\ [Next]_vars => Inv'
  BY InvStep
<1>3. QED
  BY <1>1, <1>2, PTL DEF Spec

(* Every variable of the run keeps its type: in particular no task is ever *)
(* retried beyond its budget. *)
THEOREM TeamTyped == Spec => []TypeOK
<1>1. Inv => TypeOK
  BY DEF Inv
<1>2. QED
  BY <1>1, TeamInvariant, PTL

(* README: "A task remains blocked until all dependencies are delivered", *)
(* whatever the graph and whoever adds, answers and cancels meanwhile. *)
THEOREM TeamGateHolds == Spec => []GateHolds
<1>1. Inv => GateHolds
  BY DEF Inv
<1>2. QED
  BY <1>1, TeamInvariant, PTL

(* First launches and retries together never hold more slots than the pool *)
(* has: max_concurrency bounds the workers. *)
THEOREM TeamWithinCapacity == Spec => []WithinCapacity
<1>1. Inv => WithinCapacity
  BY DEF Inv
<1>2. QED
  BY <1>1, TeamInvariant, PTL

(* Whoever writes a row, and whatever happened since it was looked at, a *)
(* task moves along the edges of the state machine only. *)
THEOREM TeamOnlyLegalMoves == Spec => OnlyLegalMoves
<1> DEFINE Moves == \A t \in Tasks : state'[t] # state[t] =>
              Legal(state[t], state'[t]) \/ <<state[t], state'[t]>> = <<"absent", "blocked">>
<1>1. Inv /\ [Next]_vars => [Moves]_vars
  <2> SUFFICES ASSUME Inv, [Next]_vars PROVE Moves
    OBVIOUS
  <2>1. RowsMove
    BY EveryStepRows DEF Inv, RowStep
  <2>2. QED
    BY <2>1 DEF RowsMove
<1>2. QED
  BY <1>1, TeamInvariant, PTL DEF Spec, OnlyLegalMoves
-----------------------------------------------------------------------------

(***************************************************************************)
(* Why a task is blocked for good.                                          *)
(***************************************************************************)

(* A row that a pass has yet to judge is still blocked, or was cancelled;   *)
(* the row that is about to be written has been judged.                     *)
TodoWaits ==
  /\ loop.pc \in {"judge", "settle"} => \A t \in loop.todo : state[t] \in {"blocked", "cancelled"}
  /\ loop.pc = "settle" => loop.arg \notin loop.todo

(* A task that is not in the database has no prerequisites. *)
AbsentBare == \A t \in Tasks : state[t] = "absent" => deps[t] = {}

(* The cause of t, or that of a task which t waits for and which is blocked *)
(* for good itself, names more than another blocked task.                   *)
Rooted(t) ==
  \E u \in Upstream(t) \cup {t} :
    /\ u = t \/ state[u] = "dependency_blocked"
    /\ \E c \in cause[u] : c[2] # "dependency_blocked"

(* What the cause of t says of final states is true. *)
Truthful(t) ==
  \A c \in cause[t] :
    /\ c[1] \in deps[t]
    /\ c[2] \in TERMINAL => state[c[1]] = c[2]
    /\ c[2] = "interface_failed" => Satisfied(t)

(* The tasks that are blocked for good, and the one that is about to be. *)
Condemned(t) ==
  \/ state[t] = "dependency_blocked"
  \/ loop.pc = "settle" /\ loop.to = "dependency_blocked" /\ loop.arg = t

CauseInv ==
  /\ TodoWaits
  /\ AbsentBare
  /\ \A t \in Tasks : Condemned(t) => Rooted(t) /\ Truthful(t)

LEMMA UpstreamGrows ==
  ASSUME TypeOK, deps' \in [Tasks -> SUBSET Tasks],
         \A v \in Tasks : deps[v] \subseteq deps'[v], NEW t \in Tasks
  PROVE  Upstream(t) \subseteq Upstream(t)'
<1> SUFFICES ASSUME NEW u \in Upstream(t), NEW S \in SUBSET Tasks,
                    deps'[t] \subseteq S, \A v \in S : deps'[v] \subseteq S
             PROVE  u \in S
  BY DEF Upstream
<1>1. deps[t] \subseteq S /\ \A v \in S : deps[v] \subseteq S
  OBVIOUS
<1>2. QED
  BY <1>1 DEF Upstream

(* What a prerequisite waits for, its dependents wait for. *)
LEMMA UpstreamOfPrerequisite ==
  ASSUME TypeOK, NEW t \in Tasks, NEW d \in deps[t]
  PROVE  Upstream(d) \cup {d} \subseteq Upstream(t)
<1>1. d \in Tasks
  BY DEF TypeOK
<1>2. ASSUME NEW u \in Upstream(d) \cup {d}, NEW S \in SUBSET Tasks,
             deps[t] \subseteq S, \A v \in S : deps[v] \subseteq S
      PROVE  u \in S
  <2>1. d \in S /\ deps[d] \subseteq S
    BY <1>2
  <2>2. QED
    BY <1>2, <2>1 DEF Upstream
<1>3. \A u \in Upstream(d) \cup {d} : u \in Tasks
  BY <1>1 DEF Upstream
<1>4. QED
  BY <1>2, <1>3 DEF Upstream

(* Choosing what to launch writes nothing but slots and a target. *)
LEMMA LaunchWrites ==
  ASSUME TypeOK, Launch
  PROVE  /\ state' = state /\ cause' = cause
         /\ loop'.todo = loop.todo /\ loop'.pc \in {"sleep", "failed", "spawn"}
<1>1. state' = state /\ cause' = cause
  BY Zenon DEF Launch
<1>2. PICK limit \in Limits :
        \/ \E p \in {"sleep", "failed"} : loop' = [loop EXCEPT !.pc = p]
        \/ \E t \in Candidates : loop' = [loop EXCEPT !.pc = "spawn", !.arg = t]
  BY Zenon DEF Launch
<1>3. LoopType
  BY Zenon DEF TypeOK, LoopType, PC
<1>4. QED
  BY <1>1, <1>2, <1>3 DEF LoopType

(* Only the pass condemns a task. *)
LEMMA OnlyPassCondemns ==
  ASSUME TypeOK, [Next]_vars, NEW t \in Tasks,
         state'[t] = "dependency_blocked", state[t] # "dependency_blocked"
  PROVE  Condemned(t)
<1>1. CASE Settle
  BY <1>1 DEF Settle, TypeOK, Condemned
<1>2. CASE state' = state
  BY <1>2
<1>3. CASE MainSpawned
  BY <1>3 DEF MainSpawned, TypeOK
<1>4. CASE ReadTasks \/ Start \/ Check \/ Judge \/ JudgeRaises \/ PassEnds \/ Launch \/ Sleep
  <2>1. state' = state
    BY <1>4, LaunchWrites, Zenon DEF ReadTasks, Start, Check, Judge, JudgeRaises, PassEnds, Sleep
  <2>2. QED
    BY <1>2, <2>1
<1>5. ASSUME NEW u \in Tasks, Live(u) \/ AddTask(u) \/ Answer(u) \/ Cancel(u)
      PROVE  FALSE
  BY <1>5 DEF Live, WorkerEnds, WorkerBreaks, TearDown, CleanupFails, ExitSeen,
              VerifyAndDeliver, GiveUp, GoneCancelled, Retry, GetSlot, Spawned, Move,
              AddTask, Answer, Cancel, TypeOK
<1>6. QED
  BY <1>1, <1>2, <1>3, <1>4, <1>5 DEF Next, MainLoop, vars

(* A reason stays one while its rows move on. *)
LEMMA ReasonStays ==
  ASSUME TypeOK, TypeOK', RowStep, AbsentBare, cause' = cause,
         NEW t \in Tasks, state[t] # "absent", Rooted(t), Truthful(t)
  PROVE  Rooted(t)' /\ Truthful(t)'
<1>1. \A v \in Tasks : deps[v] \subseteq deps'[v]
  BY DEF AbsentBare, RowStep, DepsWrittenOnce, TypeOK
<1>2. Upstream(t) \subseteq Upstream(t)'
  BY <1>1, UpstreamGrows DEF TypeOK
<1>3. deps'[t] = deps[t] /\ deps[t] \subseteq Tasks
  BY DEF RowStep, DepsWrittenOnce, TypeOK
<1>4. \A v \in Tasks : state[v] \in TERMINAL => state'[v] = state[v]
  BY LegalEdges DEF RowStep, RowsMove, TERMINAL
<1>5. Rooted(t)'
  <2>1. PICK u \in Upstream(t) \cup {t} :
          /\ u = t \/ state[u] = "dependency_blocked"
          /\ \E c \in cause[u] : c[2] # "dependency_blocked"
    BY DEF Rooted
  <2>2. u \in Tasks
    BY DEF Upstream
  <2>3. u = t \/ state'[u] = "dependency_blocked"
    BY <1>4, <2>1, <2>2 DEF TERMINAL
  <2>4. QED
    BY <1>2, <2>1, <2>3 DEF Rooted
<1>6. Truthful(t)'
  <2> SUFFICES ASSUME NEW c \in cause[t]
               PROVE  /\ c[1] \in deps'[t]
                      /\ c[2] \in TERMINAL => state'[c[1]] = c[2]
                      /\ c[2] = "interface_failed" => \A d \in deps'[t] : state'[d] = "delivered"
    BY DEF Truthful, Satisfied
  <2>1. /\ c[1] \in deps[t]
        /\ c[2] \in TERMINAL => state[c[1]] = c[2]
        /\ c[2] = "interface_failed" => \A d \in deps[t] : state[d] = "delivered"
    BY DEF Truthful, Satisfied
  <2>2. \A d \in deps[t] : state[d] = "delivered" => state'[d] = "delivered"
    BY <1>3, <1>4 DEF TERMINAL
  <2>3. QED
    BY <1>3, <1>4, <2>1, <2>2
<1>7. QED
  BY <1>5, <1>6

(* The reason that the pass finds is one. *)
LEMMA ReasonFound ==
  ASSUME TypeOK, CauseInv, NEW t \in Tasks, NEW v \in Verdicts(t), v = "dependency_blocked"
  PROVE  /\ \A c \in Why(t) : /\ c[1] \in deps[t]
                              /\ c[2] \in TERMINAL => state[c[1]] = c[2]
                              /\ c[2] = "interface_failed" => Satisfied(t)
         /\ \/ \E c \in Why(t) : c[2] # "dependency_blocked"
            \/ \E d \in deps[t] : state[d] = "dependency_blocked"
<1>1. CASE Blocking(t) # {}
  <2>1. Why(t) = Blocking(t)
    BY <1>1 DEF Why
  <2>2. \A c \in Blocking(t) :
          c[1] \in deps[t] /\ c[2] = state[c[1]] /\ c[2] # "interface_failed"
    BY DEF Blocking
  <2>3. PICK c \in Blocking(t) : TRUE
    BY <1>1
  <2>4. c[2] = "dependency_blocked" => \E d \in deps[t] : state[d] = "dependency_blocked"
    BY <2>2
  <2>5. QED
    BY <2>1, <2>2, <2>4
<1>2. CASE Blocking(t) = {}
  <2>1. Satisfied(t) /\ deps[t] # {}
    BY <1>2 DEF Verdicts
  <2>2. Why(t) = {<<d, "interface_failed">> : d \in deps[t]}
    BY <1>2 DEF Why
  <2>3. \A c \in Why(t) : c[1] \in deps[t] /\ c[2] = "interface_failed"
    BY <2>2
  <2>4. \E c \in Why(t) : TRUE
    BY <2>1, <2>2
  <2>5. "interface_failed" \notin TERMINAL
    BY DEF TERMINAL
  <2>6. QED
    BY <2>1, <2>3, <2>4, <2>5
<1>3. QED
  BY <1>1, <1>2

LEMMA JudgeKeepsReasons ==
  ASSUME TypeOK, CauseInv, Judge
  PROVE  CauseInv'
<1> DEFINE Noting(t, v) ==
             loop' = [loop EXCEPT !.todo = @ \ {t}, !.arg = t, !.to = v,
                                  !.pc = IF v = "blocked" THEN "judge" ELSE "settle"]
           Explaining(t, v) ==
             cause' = IF v = "dependency_blocked" THEN [cause EXCEPT ![t] = Why(t)] ELSE cause
<1> HIDE DEF Noting, Explaining
<1>0. \E t \in loop.todo : \E v \in Verdicts(t) : Noting(t, v) /\ Explaining(t, v)
  BY Zenon DEF Judge, Noting, Explaining
<1>1. PICK t \in loop.todo : \E v \in Verdicts(t) : Noting(t, v) /\ Explaining(t, v)
  BY <1>0
<1>2. PICK v \in Verdicts(t) : Noting(t, v) /\ Explaining(t, v)
  BY <1>1
<1> USE DEF Noting, Explaining
<1>3. /\ loop'.todo = loop.todo \ {t} /\ loop'.arg = t /\ loop'.to = v
      /\ state' = state /\ deps' = deps /\ t \in Tasks
      /\ state[t] # "dependency_blocked" /\ loop.pc = "judge"
  BY <1>2 DEF Judge, TypeOK, CauseInv, TodoWaits
<1>4. \A x \in Tasks : x # t => cause'[x] = cause[x]
  BY <1>2 DEF TypeOK
<1>5. \A x \in Tasks : Upstream(x)' = Upstream(x) /\ (Satisfied(x)' <=> Satisfied(x))
  BY <1>3 DEF Upstream, Satisfied
<1>6. TodoWaits' /\ AbsentBare'
  BY <1>3 DEF CauseInv, TodoWaits, AbsentBare
<1>7. ASSUME NEW x \in Tasks, state[x] = "dependency_blocked"
      PROVE  Rooted(x)' /\ Truthful(x)'
  <2>1. x # t /\ Rooted(x) /\ Truthful(x)
    BY <1>3, <1>7 DEF CauseInv, Condemned
  <2>2. PICK u \in Upstream(x) \cup {x} :
          /\ u = x \/ state[u] = "dependency_blocked"
          /\ \E c \in cause[u] : c[2] # "dependency_blocked"
    BY <2>1 DEF Rooted
  <2>3. u \in Tasks /\ u # t
    BY <1>3, <2>1, <2>2 DEF Upstream
  <2>4. Rooted(x)'
    BY <1>3, <1>4, <1>5, <2>2, <2>3 DEF Rooted
  <2>5. Truthful(x)'
    BY <1>3, <1>4, <1>5, <2>1 DEF Truthful
  <2>6. QED
    BY <2>4, <2>5
<1>8. ASSUME v = "dependency_blocked"
      PROVE  Rooted(t)' /\ Truthful(t)'
  <2>1. cause'[t] = Why(t)
    BY <1>2, <1>3, <1>8 DEF TypeOK
  <2>2. Truthful(t)'
    BY <1>3, <1>5, <1>8, <2>1, ReasonFound DEF Truthful
  <2>3. CASE \E c \in Why(t) : c[2] # "dependency_blocked"
    <3>1. \E c \in cause'[t] : c[2] # "dependency_blocked"
      BY <2>1, <2>3
    <3>2. t \in (Upstream(t) \cup {t})'
      BY <1>3, <1>5
    <3>3. QED
      BY <2>2, <3>1, <3>2 DEF Rooted
  <2>4. CASE \E d \in deps[t] : state[d] = "dependency_blocked"
    <3>1. PICK d \in deps[t] : state[d] = "dependency_blocked"
      BY <2>4
    <3>2. d \in Tasks /\ Rooted(d)'
      BY <1>3, <1>7, <3>1 DEF TypeOK
    <3>3. PICK u \in Upstream(d) \cup {d} :
            /\ u = d \/ state[u] = "dependency_blocked"
            /\ \E c \in cause'[u] : c[2] # "dependency_blocked"
      BY <1>3, <1>5, <3>2 DEF Rooted
    <3>4. u \in Upstream(t) /\ state[u] = "dependency_blocked"
      BY <1>3, <3>1, <3>3, UpstreamOfPrerequisite
    <3>5. u \in (Upstream(t) \cup {t})' /\ state'[u] = "dependency_blocked"
      BY <1>3, <1>5, <3>4
    <3>6. QED
      BY <2>2, <3>3, <3>5 DEF Rooted
  <2>5. QED
    BY <1>3, <1>8, <2>2, <2>3, <2>4, ReasonFound
<1>9. \A x \in Tasks : Condemned(x)' => Rooted(x)' /\ Truthful(x)'
  BY <1>3, <1>7, <1>8 DEF Condemned
<1>10. QED
  BY <1>6, <1>9 DEF CauseInv

(* The rows left to a pass still wait after any step. *)
LEMMA TodoStep ==
  ASSUME TypeOK, TodoWaits, RowStep, [Next]_vars, ~Judge
  PROVE  TodoWaits'
<1>1. \A t \in Tasks : state[t] = "cancelled" => state'[t] = "cancelled"
  BY LegalEdges DEF RowStep, RowsMove, TERMINAL
<1>2. ASSUME NEW t \in loop.todo, loop.pc \in {"judge", "settle"}
      PROVE  state'[t] \in {"blocked", "cancelled"}
  <2>1. t \in Tasks /\ state[t] \in {"blocked", "cancelled"}
    BY <1>2 DEF TypeOK, TodoWaits
  <2>2. ~(loop.pc = "settle" /\ loop.arg = t)
    BY DEF TodoWaits
  <2>3. state'[t] # "dependency_blocked"
    BY <2>1, <2>2, OnlyPassCondemns DEF Condemned
  <2>4. state[t] = "blocked" /\ state'[t] # state[t]
          => state'[t] \in {"queued", "dependency_blocked", "cancelled"}
    BY <2>1, LegalEdges DEF RowStep, RowsMove
  <2>5. ~(state[t] = "blocked" /\ state'[t] = "queued")
    BY <2>1, <2>2 DEF RowStep, OnlyPassReleases
  <2>6. QED
    BY <1>1, <2>1, <2>3, <2>4, <2>5
<1>3. CASE UNCHANGED loop
  BY <1>2, <1>3 DEF TodoWaits
<1>4. CASE Check \/ PassEnds
  <2>1. /\ loop'.pc = "judge" => loop'.todo = BlockedTasks
        /\ loop'.pc # "settle" /\ state' = state
    BY <1>4 DEF Check, PassEnds, TypeOK
  <2>2. QED
    BY <2>1 DEF TodoWaits, BlockedTasks
<1>5. CASE Settle
  <2>1. loop'.todo = loop.todo /\ loop'.pc # "settle" /\ loop.pc = "settle"
    BY <1>5 DEF Settle, TypeOK
  <2>2. QED
    BY <1>2, <2>1 DEF TodoWaits
<1>6. CASE ReadTasks \/ Start \/ JudgeRaises \/ Launch \/ MainSpawned \/ Sleep
  <2>1. loop'.pc \notin {"judge", "settle"}
    <3>1. CASE Launch
      BY <3>1, LaunchWrites
    <3>2. CASE ReadTasks \/ Start \/ JudgeRaises \/ MainSpawned \/ Sleep
      BY <3>2 DEF ReadTasks, Start, JudgeRaises, MainSpawned, Sleep, TypeOK
    <3>3. QED
      BY <1>6, <3>1, <3>2
  <2>2. QED
    BY <2>1 DEF TodoWaits
<1>7. CASE \E t \in Tasks : Live(t) \/ AddTask(t) \/ Answer(t) \/ Cancel(t)
  BY <1>3, <1>7 DEF Live, AddTask, Answer, Cancel
<1>8. QED
  BY <1>3, <1>4, <1>5, <1>6, <1>7 DEF Next, MainLoop, vars

LEMMA ReasonStep ==
  ASSUME Inv, Inv', CauseInv, [Next]_vars, ~Judge
  PROVE  CauseInv'
<1>1. TypeOK /\ TypeOK' /\ RowStep /\ TodoWaits /\ AbsentBare
  BY EveryStepRows DEF Inv, CauseInv
<1>2. cause' = cause /\ (loop'.pc = "settle" => loop' = loop)
  <2>1. CASE Launch
    BY <1>1, <2>1, LaunchWrites
  <2>2. CASE \/ ReadTasks \/ Start \/ Check \/ JudgeRaises \/ Settle \/ PassEnds
             \/ MainSpawned \/ Sleep
    <3>1. CASE ReadTasks \/ Start \/ JudgeRaises \/ Settle \/ MainSpawned \/ Sleep
      BY <1>1, <3>1 DEF ReadTasks, Start, JudgeRaises, Settle, MainSpawned, Sleep, TypeOK
    <3>2. CASE Check \/ PassEnds
      <4>1. \/ \E p \in {"ended", "failed"} : loop' = [loop EXCEPT !.pc = p]
            \/ loop' = [loop EXCEPT !.pc = "judge", !.todo = BlockedTasks, !.moved = FALSE]
            \/ loop' = [loop EXCEPT !.todo = BlockedTasks, !.moved = FALSE] /\ loop.pc = "judge"
            \/ loop' = [loop EXCEPT !.pc = "launch"]
        BY <3>2 DEF Check, PassEnds
      <4>2. cause' = cause
        BY <3>2, Zenon DEF Check, PassEnds
      <4>3. LoopType
        BY <1>1, Zenon DEF TypeOK, LoopType, PC
      <4>4. QED
        BY <4>1, <4>2, <4>3 DEF LoopType
    <3>3. QED
      BY <2>2, <3>1, <3>2
  <2>3. CASE (\E t \in Tasks : Live(t) \/ AddTask(t) \/ Answer(t) \/ Cancel(t))
             \/ UNCHANGED vars
    BY <2>3 DEF Live, AddTask, Answer, Cancel, vars
  <2>4. QED
    BY <2>1, <2>2, <2>3 DEF Next, MainLoop
<1>3. \A t \in Tasks : state'[t] = "absent" => state[t] = "absent"
  BY <1>1, Stable
<1>4. AbsentBare'
  BY <1>1, <1>3 DEF AbsentBare, RowStep, DepsWrittenOnce
<1>5. ASSUME NEW t \in Tasks, Condemned(t)'
      PROVE  Condemned(t) /\ state[t] # "absent"
  <2>1. CASE state'[t] = "dependency_blocked"
    <3>1. Condemned(t)
      BY <1>1, <2>1, OnlyPassCondemns DEF Condemned
    <3>2. state[t] # "absent"
      BY <1>1, <2>1 DEF RowStep, RowsMove, Legal, Transitions
    <3>3. QED
      BY <3>1, <3>2
  <2>2. CASE loop'.pc = "settle" /\ loop'.to = "dependency_blocked" /\ loop'.arg = t
    BY <1>2, <2>2 DEF Condemned, Inv, SettleArg
  <2>3. QED
    BY <1>5, <2>1, <2>2 DEF Condemned
<1>6. \A t \in Tasks : Condemned(t)' => Rooted(t)' /\ Truthful(t)'
  BY <1>1, <1>2, <1>5, ReasonStays DEF CauseInv
<1>7. TodoWaits'
  BY <1>1, TodoStep
<1>8. QED
  BY <1>4, <1>6, <1>7 DEF CauseInv

(* The reasons are there in every state of every run. *)
LEMMA TeamCauses == Spec => []CauseInv
<1>1. Init => CauseInv
  <2> SUFFICES ASSUME Init PROVE CauseInv
    OBVIOUS
  <2>1. loop.pc = "start" /\ loop.todo = {}
    BY DEF Init
  <2>2. \A t \in Tasks : state[t] \in {"blocked", "absent"} /\ (t > Given => deps[t] = {})
                         /\ (t <= Given => state[t] = "blocked")
    BY DEF Init
  <2>3. \A t \in Tasks : t > Given \/ t <= Given
    BY TeamAssumption DEF Tasks
  <2>4. QED
    BY <2>1, <2>2, <2>3 DEF CauseInv, TodoWaits, AbsentBare, Condemned
<1>2. Inv /\ Inv' /\ CauseInv /\ [Next]_vars => CauseInv'
  BY JudgeKeepsReasons, ReasonStep DEF Inv
<1>3. QED
  BY <1>1, <1>2, TeamInvariant, PTL DEF Spec

(* However long the chain of blocked tasks, its causes lead back to a task   *)
(* that failed, was cancelled or awaited a person, or to refused inputs of   *)
(* delivered prerequisites, and what they say of final states stays true.    *)
THEOREM TeamBlocksForCause == Spec => []BlockedForCause
<1>1. CauseInv => BlockedForCause
  BY DEF CauseInv, Condemned, Rooted, Truthful, BlockedForCause
<1>2. QED
  BY <1>1, TeamCauses, PTL

-----------------------------------------------------------------------------
(* Which graphs a run takes on.                                             *)

Sound == \A t \in Present : deps[t] \subseteq Present /\ t \notin Upstream(t)

(* A task has come between the two reads that has an edge. *)
Grew ==
  \E t \in Present \ loop.todo : deps[t] # {} \/ \E u \in Present : t \in deps[u]

(* The rounds of Kahn's algorithm. *)
Round(S) == {t \in loop.todo : deps[t] \subseteq S}

After[n \in 0..N] ==
  IF n = 0 THEN {} ELSE {t \in loop.todo : deps[t] \subseteq After[n - 1]}

AdmitInv ==
  /\ loop.pc \notin {"start", "edges", "refused"} => Sound
  /\ loop.pc = "refused" => ~Sound \/ Grew

-----------------------------------------------------------------------------
(* Induction: a set of natural numbers that is not empty has a least one.   *)

LEMMA LessThanWellFounded ==
  IsWellFoundedOn({ss \in Nat \X Nat : ss[1] < ss[2]}, Nat)
BY NatLessThanWellFounded DEF OpToRel

LEMMA LeastNat ==
  ASSUME NEW T \in SUBSET Nat, T # {}
  PROVE  \E m \in T : \A k \in T : m <= k
<1> DEFINE R == {ss \in Nat \X Nat : ss[1] < ss[2]}
<1>1. IsWellFoundedOn(R, Nat)
  BY LessThanWellFounded
<1> HIDE DEF R
<1>2. PICK m \in T : \A k \in T : <<k, m>> \notin R
  BY <1>1, WFMin
<1>3. \A k \in T : ~(k < m)
  BY <1>2 DEF R
<1>4. QED
  BY <1>3

-----------------------------------------------------------------------------
(* The rounds of Kahn's algorithm.                                          *)

(* The first n rounds exist as a function. *)
RoundsTo(n) ==
  \E g : g = [k \in 0..n |-> IF k = 0 THEN {} ELSE Round(g[k - 1])]

LEMMA RoundsExist == RoundsTo(N)
<1> DEFINE T == {k \in Nat : ~RoundsTo(k)}
<1> SUFFICES ASSUME T # {} PROVE FALSE
  BY TeamAssumption
<1>1. PICK m \in T : \A k \in T : m <= k
  <2>1. T \in SUBSET Nat
    OBVIOUS
  <2> HIDE DEF T
  <2>2. QED
    BY <2>1, LeastNat
<1>2. m \in Nat /\ ~RoundsTo(m)
  OBVIOUS
<1>3. CASE m = 0
  <2> DEFINE g == [k \in 0..0 |-> {}]
  <2>1. g = [k \in 0..0 |-> IF k = 0 THEN {} ELSE Round(g[k - 1])]
    OBVIOUS
  <2> HIDE DEF g
  <2>2. QED
    BY <1>2, <1>3, <2>1, Zenon DEF RoundsTo
<1>4. CASE m # 0
  <2>1. m - 1 \in Nat /\ m - 1 \notin T
    BY <1>1, <1>2, <1>4
  <2>2. PICK g : g = [k \in 0..(m - 1) |-> IF k = 0 THEN {} ELSE Round(g[k - 1])]
    BY <2>1 DEF RoundsTo
  <2> DEFINE h == [k \in 0..m |-> IF k = 0 THEN {} ELSE Round(g[k - 1])]
  <2>3. \A k \in 0..(m - 1) : h[k] = g[k]
    <3>1. \A k \in 0..(m - 1) : k \in 0..m
      BY <1>2
    <3> DEFINE body(k) == IF k = 0 THEN {} ELSE Round(g[k - 1])
    <3>2. \A k \in 0..(m - 1) : h[k] = body(k)
      BY <3>1
    <3>3. \A k \in 0..(m - 1) : g[k] = body(k)
      BY <2>2
    <3>4. QED
      BY <3>2, <3>3
  <2>4. h = [k \in 0..m |-> IF k = 0 THEN {} ELSE Round(h[k - 1])]
    <3>1. \A k \in 0..m : k # 0 => k - 1 \in 0..(m - 1)
      BY <1>2
    <3> HIDE DEF h
    <3>2. \A k \in 0..m : (IF k = 0 THEN {} ELSE Round(g[k - 1]))
                          = (IF k = 0 THEN {} ELSE Round(h[k - 1]))
      BY <2>3, <3>1
    <3>3. h = [k \in 0..m |-> IF k = 0 THEN {} ELSE Round(g[k - 1])]
      BY DEF h
    <3>4. QED
      BY <3>2, <3>3
  <2> HIDE DEF h
  <2>5. QED
    BY <1>2, <2>4, Zenon DEF RoundsTo
<1>5. QED
  BY <1>3, <1>4

LEMMA AfterIsRounds ==
  /\ Visited = After[N]
  /\ After = [k \in 0..N |-> IF k = 0 THEN {} ELSE Round(After[k - 1])]
<1>1. Visited = After[N]
  BY DEF Visited, After
<1>2. \E g : g = [k \in 0..N |-> IF k = 0 THEN {} ELSE {t \in loop.todo : deps[t] \subseteq g[k - 1]}]
  BY RoundsExist DEF RoundsTo, Round
<1>3. After = [k \in 0..N |->
                 IF k = 0 THEN {} ELSE {t \in loop.todo : deps[t] \subseteq After[k - 1]}]
  BY <1>2, Zenon DEF After
<1>4. QED
  BY <1>1, <1>3, Zenon DEF Round

LEMMA Rounds ==
  /\ After[0] = {}
  /\ \A n \in 1..N : n - 1 \in 0..N /\ n \in 0..N /\ After[n] = Round(After[n - 1])
  /\ N \in 0..N
<1> DEFINE body(f, n) == IF n = 0 THEN {} ELSE Round(f[n - 1])
<1>1. ASSUME NEW f, NEW g, g = [k \in 0..N |-> body(f, k)]
      PROVE  \A n \in 0..N : g[n] = body(f, n)
  BY <1>1
<1>2. After = [k \in 0..N |-> body(After, k)]
  BY AfterIsRounds
<1>3. \A n \in 0..N : After[n] = body(After, n)
  BY <1>1, <1>2, Zenon
<1>4. 0 \in 0..N /\ N \in 0..N /\ (\A n \in 1..N : n - 1 \in 0..N /\ n \in 0..N /\ n # 0)
  BY TeamAssumption
<1>5. QED
  BY <1>3, <1>4

LEMMA RoundsAreRead == \A n \in 0..N : After[n] \subseteq loop.todo
<1> SUFFICES ASSUME NEW n \in 0..N PROVE After[n] \subseteq loop.todo
  OBVIOUS
<1>1. n = 0 \/ n \in 1..N
  BY TeamAssumption
<1>2. QED
  BY <1>1, Rounds DEF Round

(* A task that has been visited stays visited. *)
LEMMA RoundsGrow == \A n \in 1..N : After[n - 1] \subseteq After[n]
<1> DEFINE T == {n \in 1..N : ~(After[n - 1] \subseteq After[n])}
<1> SUFFICES ASSUME T # {} PROVE FALSE
  OBVIOUS
<1>1. PICK m \in T : \A k \in T : m <= k
  <2>1. T \in SUBSET Nat
    BY TeamAssumption
  <2> HIDE DEF T
  <2>2. QED
    BY <2>1, LeastNat
<1>2. m \in 1..N /\ ~(After[m - 1] \subseteq After[m])
  OBVIOUS
<1>3. m # 1
  BY <1>2, Rounds
<1>4. m - 1 \in 1..N /\ m - 1 \notin T /\ (m - 1) - 1 = m - 2
  BY <1>1, <1>2, <1>3, TeamAssumption
<1>5. After[m - 2] \subseteq After[m - 1]
  BY <1>4
<1>6. After[m - 1] = Round(After[m - 2]) /\ After[m] = Round(After[m - 1])
  BY <1>2, <1>4, Rounds
<1>7. QED
  BY <1>2, <1>5, <1>6 DEF Round

(* What a round visits is all that its tasks wait for. *)
LEMMA UpstreamWithin ==
  ASSUME NEW t \in Tasks, NEW S \in SUBSET Tasks,
         deps[t] \subseteq S, \A v \in S : deps[v] \subseteq S
  PROVE  Upstream(t) \subseteq S
BY DEF Upstream

(* No task of a cycle is ever visited, and one that the first read did not    *)
(* find has no edge.                                                         *)
LEMMA VisitedIsSound ==
  ASSUME TypeOK, TodoPresent, ~UnknownTask, Visited = loop.todo
  PROVE  Sound
<1>a. ASSUME NEW t \in Present PROVE deps[t] \subseteq Present /\ (t \notin loop.todo => deps[t] = {})
  BY <1>a DEF UnknownTask, TodoPresent
<1> SUFFICES ASSUME NEW t \in Present PROVE t \notin Upstream(t)
  BY <1>a DEF Sound
<1>b. CASE t \notin loop.todo
  <2>1. deps[t] = {} /\ t \in Tasks
    BY <1>a, <1>b DEF Present
  <2>2. Upstream(t) \subseteq {}
    BY <2>1, UpstreamWithin
  <2>3. QED
    BY <2>2
<1> SUFFICES ASSUME t \in loop.todo PROVE t \notin Upstream(t)
  BY <1>b
<1> DEFINE T == {n \in 0..N : t \in After[n]}
<1>1. N \in T
  BY AfterIsRounds, Rounds
<1>2. PICK m \in T : \A k \in T : m <= k
  <2>1. T \in SUBSET Nat /\ T # {}
    BY <1>1, TeamAssumption
  <2> HIDE DEF T
  <2>2. QED
    BY <2>1, LeastNat
<1>3. m \in 0..N /\ t \in After[m] /\ m # 0
  BY Rounds
<1>4. m \in 1..N /\ m - 1 \in 0..N /\ m - 1 \notin T
  BY <1>2, <1>3, TeamAssumption
<1>5. t \notin After[m - 1] /\ deps[t] \subseteq After[m - 1]
  BY <1>3, <1>4, Rounds DEF Round
<1>6. \A v \in After[m - 1] : deps[v] \subseteq After[m - 1]
  <2>1. CASE m - 1 = 0
    BY <2>1, Rounds
  <2>2. CASE m - 1 # 0
    <3>1. m - 1 \in 1..N
      BY <1>4, <2>2, TeamAssumption
    <3>2. After[m - 1] = Round(After[(m - 1) - 1]) /\ After[(m - 1) - 1] \subseteq After[m - 1]
      BY <3>1, Rounds, RoundsGrow
    <3>3. QED
      BY <3>2 DEF Round
  <2>3. QED
    BY <2>1, <2>2
<1>7. After[m - 1] \in SUBSET Tasks /\ t \in Tasks
  BY <1>4, RoundsAreRead DEF Present, TypeOK
<1>8. QED
  BY <1>5, <1>6, <1>7, UpstreamWithin

(* N rounds are enough: by then one of them has visited nothing new. *)
LEMMA RoundsSettle ==
  ASSUME TypeOK
  PROVE  Round(After[N]) = After[N]
<1> DEFINE Done(n) == Round(After[n]) = After[n]
           T == {n \in 0..N : ~Done(n) /\ ~(Cardinality(After[n]) >= n)}
<1>1. IsFiniteSet(Tasks) /\ Cardinality(Tasks) = N
  BY FS_Interval, TeamAssumption DEF Tasks
<1>2. \A n \in 0..N : IsFiniteSet(After[n]) /\ Cardinality(After[n]) \in Nat
                      /\ After[n] \subseteq Tasks
  BY <1>1, RoundsAreRead, FS_Subset, FS_CardinalityType DEF TypeOK
<1>3. T = {}
  <2> SUFFICES ASSUME T # {} PROVE FALSE
    OBVIOUS
  <2>1. PICK m \in T : \A k \in T : m <= k
    <3>1. T \in SUBSET Nat
      BY TeamAssumption
    <3> HIDE DEF T
    <3>2. QED
      BY <3>1, LeastNat
  <2>2. m \in 0..N /\ ~Done(m) /\ ~(Cardinality(After[m]) >= m)
    OBVIOUS
  <2>3. m # 0
    BY <1>2, <2>2
  <2>4. m \in 1..N /\ m - 1 \in 0..N /\ m - 1 \notin T
    BY <2>1, <2>2, <2>3, TeamAssumption
  <2>5. After[m] = Round(After[m - 1]) /\ After[m - 1] \subseteq After[m]
    BY <2>4, Rounds, RoundsGrow
  <2>6. ~Done(m - 1)
    BY <2>2, <2>5
  <2>7. Cardinality(After[m - 1]) >= m - 1 /\ After[m - 1] # After[m]
    BY <2>4, <2>5, <2>6
  <2>8. Cardinality(After[m - 1]) < Cardinality(After[m])
    <3> DEFINE A == After[m - 1]
               B == After[m]
    <3>1. IsFiniteSet(B) /\ A \in SUBSET B /\ A # B
          /\ Cardinality(A) \in Nat /\ Cardinality(B) \in Nat
      BY <1>2, <2>4, <2>5, <2>7, Rounds
    <3> HIDE DEF A, B
    <3>2. Cardinality(A) <= Cardinality(B) /\ Cardinality(A) # Cardinality(B)
      BY <3>1, FS_Subset
    <3>3. QED
      BY <3>1, <3>2 DEF A, B
  <2>9. QED
    BY <1>2, <2>2, <2>4, <2>7, <2>8
<1>4. Done(N) \/ Cardinality(After[N]) >= N
  BY <1>3, Rounds
<1>5. CASE Cardinality(After[N]) >= N
  <2>1. After[N] \in SUBSET Tasks /\ Cardinality(After[N]) = Cardinality(Tasks)
    <3> DEFINE A == After[N]
    <3>1. A \in SUBSET Tasks /\ Cardinality(A) \in Nat /\ Cardinality(A) >= N /\ N \in Nat
      BY <1>2, <1>5, Rounds, TeamAssumption
    <3> HIDE DEF A
    <3>2. Cardinality(A) <= N
      BY <1>1, <3>1, FS_Subset
    <3>3. QED
      BY <1>1, <3>1, <3>2 DEF A
  <2>2. After[N] = Tasks
    BY <1>1, <2>1, FS_Subset
  <2>3. loop.todo = Tasks
    BY <2>2, RoundsAreRead, Rounds DEF TypeOK
  <2>4. Round(After[N]) = Tasks
    BY <2>2, <2>3 DEF Round, TypeOK
  <2>5. QED
    BY <2>2, <2>4
<1>6. QED
  BY <1>4, <1>5

(* A set of tasks in which each waits for another has a cycle: of the tasks  *)
(* in it, take one that waits for as few as can be.                          *)
LEMMA SoundIsVisited ==
  ASSUME TypeOK, TodoPresent, ~UnknownTask, Sound
  PROVE  Visited = loop.todo
<1> DEFINE U == loop.todo \ After[N]
           F == {Upstream(t) : t \in U}
<1>1. ASSUME NEW t \in U PROVE \E d \in deps[t] : d \in U
  <2>1. t \in Present /\ t \notin Round(After[N])
    BY RoundsSettle DEF TodoPresent
  <2>2. PICK d \in deps[t] : d \notin After[N]
    BY <2>1 DEF Round
  <2>3. d \in loop.todo
    BY <2>1 DEF UnknownTask
  <2>4. QED
    BY <2>2, <2>3
<1>2. U \subseteq Present
  BY DEF TodoPresent
<1>3. U = {}
  <2> SUFFICES ASSUME U # {} PROVE FALSE
    OBVIOUS
  <2>1. IsFiniteSet(Tasks)
    BY FS_Interval, TeamAssumption DEF Tasks
  <2>2. F \subseteq FiniteSubsetsOf(Tasks) /\ F # {}
    <3>1. \A t \in U : Upstream(t) \in SUBSET Tasks
      BY DEF Upstream
    <3>2. FiniteSubsetsOf(Tasks) = SUBSET Tasks
      BY <2>1, FS_FiniteSubsetsOfFinite
    <3>3. QED
      BY <3>1, <3>2
  <2> HIDE DEF F
  <2>3. PICK X \in F : \A Y \in F : ~(<<Y, X>> \in StrictSubsetOrdering(Tasks))
    BY <2>2, FS_StrictSubsetOrderingWellFounded, WFMin
  <2>4. PICK t \in U : X = Upstream(t)
    BY DEF F
  <2>5. PICK d \in deps[t] : d \in U
    BY <1>1
  <2>6. t \in Tasks /\ d \in Tasks /\ d \notin Upstream(d)
    BY <1>2, <2>4, <2>5 DEF Present, Sound
  <2>7. Upstream(d) \subseteq Upstream(t) /\ d \in Upstream(t)
    BY <2>5, <2>6, UpstreamOfPrerequisite
  <2>8. Upstream(d) \in F
    BY <2>5 DEF F
  <2>9. Upstream(d) \in SUBSET Tasks /\ Upstream(t) \in SUBSET Tasks
    BY DEF Upstream
  <2>10. <<Upstream(d), Upstream(t)>> \in StrictSubsetOrdering(Tasks)
    BY <2>6, <2>7, <2>9 DEF StrictSubsetOrdering
  <2>11. QED
    BY <2>3, <2>4, <2>8, <2>10
<1>4. QED
  BY <1>3, AfterIsRounds, RoundsAreRead, Rounds

(* An edge with an unknown end is missing an end, or has come late. *)
LEMMA UnknownIsMissingOrLate ==
  ASSUME TypeOK, UnknownTask, Sound
  PROVE  Grew
<1>1. PICK t \in Present : \E d \in deps[t] : ~({t, d} \subseteq loop.todo)
  BY DEF UnknownTask
<1>2. PICK d \in deps[t] : ~({t, d} \subseteq loop.todo)
  BY <1>1
<1>3. d \in Present
  BY <1>2 DEF Sound
<1>4. CASE t \notin loop.todo
  BY <1>2, <1>4 DEF Grew
<1>5. CASE d \notin loop.todo
  BY <1>2, <1>3, <1>5 DEF Grew
<1>6. QED
  BY <1>2, <1>4, <1>5

(* The start of a run lets go on the graphs it should, and refuses no other   *)
(* unless it has grown meanwhile.                                            *)
LEMMA StartDecides ==
  ASSUME TypeOK, TodoPresent
  PROVE  IF UnknownTask \/ Visited # loop.todo THEN ~Sound \/ Grew ELSE Sound
BY VisitedIsSound, SoundIsVisited, UnknownIsMissingOrLate

(* A new task closes no cycle: nothing waits for it yet, and it waits only   *)
(* for tasks that are there.                                                 *)
LEMMA AddKeepsSound ==
  ASSUME TypeOK, TypeOK', Sound, NEW t \in Tasks, AddTask(t)
  PROVE  Sound'
<1>1. /\ state[t] = "absent" /\ state' = [state EXCEPT ![t] = "blocked"]
      /\ t \notin Present /\ Present \subseteq Tasks
  BY DEF AddTask, Present
<1>2. PICK prerequisites \in SUBSET Present : deps' = [deps EXCEPT ![t] = prerequisites]
  BY DEF AddTask
<1>3. Present' = Present \cup {t}
  BY <1>1 DEF Present, TypeOK
<1>4. deps'[t] \subseteq Present /\ \A v \in Present : v # t /\ deps'[v] = deps[v]
  BY <1>1, <1>2 DEF TypeOK
<1>5. \A v \in Present : deps'[v] \subseteq Present
  BY <1>4 DEF Sound
<1>6. ASSUME NEW v \in Tasks, NEW S \in SUBSET Tasks,
             deps'[v] \subseteq S, \A w \in S : deps'[w] \subseteq S
      PROVE  Upstream(v)' \subseteq S
  BY <1>6 DEF Upstream
<1>7. t \notin Upstream(t)'
  BY <1>1, <1>4, <1>5, <1>6
<1>8. ASSUME NEW v \in Present PROVE v \notin Upstream(v)'
  <2> DEFINE S == Upstream(v)
  <2>1. v \in Tasks /\ v \notin S /\ S \in SUBSET Tasks
    BY <1>1, <1>8 DEF Sound, Upstream
  <2>2. S \subseteq Present
    BY <1>1, <2>1, UpstreamWithin DEF Sound
  <2>3. \A w \in S : deps[w] \subseteq S
    BY <2>1 DEF Upstream, TypeOK
  <2>4. deps[v] \subseteq S
    BY <2>1 DEF Upstream, TypeOK
  <2> HIDE DEF S
  <2>5. deps'[v] \subseteq S /\ \A w \in S : deps'[w] \subseteq S
    BY <1>4, <2>2, <2>3, <2>4
  <2>6. Upstream(v)' \subseteq S
    BY <1>6, <2>1, <2>5
  <2>7. QED
    BY <2>1, <2>6
<1>9. QED
  BY <1>3, <1>4, <1>5, <1>7, <1>8 DEF Sound

(* Every other step leaves the graph alone. *)
LEMMA GraphStays ==
  ASSUME TypeOK, deps' = deps,
         state' = state \/ \E t \in Tasks : \E b \in STATES :
                             state[t] # "absent" /\ state' = [state EXCEPT ![t] = b]
  PROVE  Sound' <=> Sound
<1>1. "absent" \notin STATES
  BY DEF STATES
<1>2. Present' = Present
  BY <1>1 DEF Present, TypeOK
<1>3. \A t : Upstream(t)' = Upstream(t)
  BY DEF Upstream
<1>4. QED
  BY <1>2, <1>3 DEF Sound

(* A coroutine writes only the row of a task that is there. *)
LEMMA LiveMoves ==
  ASSUME TypeOK, NEW t \in Tasks, Live(t)
  PROVE  /\ deps' = deps /\ loop' = loop
         /\ \/ state' = state
            \/ \E b \in STATES : state[t] # "absent" /\ state' = [state EXCEPT ![t] = b]
<1>1. deps' = deps /\ loop' = loop
  BY DEF Live
<1>2. CASE Spawned(t)
  <2>1. Legal(state[t], "running") => state[t] # "absent"
    BY LegalEdges DEF STATES
  <2>2. QED
    BY <1>1, <1>2, <2>1 DEF Spawned, Move, STATES
<1>3. CASE \/ WorkerEnds(t) \/ ExitSeen(t) \/ VerifyAndDeliver(t) \/ GiveUp(t)
  BY <1>1, <1>3 DEF WorkerEnds, ExitSeen, VerifyAndDeliver, GiveUp, Move, STATES
<1>4. CASE \/ WorkerBreaks(t) \/ TearDown(t) \/ CleanupFails(t) \/ GoneCancelled(t)
           \/ Retry(t) \/ GetSlot(t)
  BY <1>1, <1>4 DEF WorkerBreaks, TearDown, CleanupFails, GoneCancelled, Retry, GetSlot
<1>5. QED
  BY <1>2, <1>3, <1>4 DEF Live

LEMMA LiveAdmits ==
  ASSUME TypeOK, AdmitInv, NEW t \in Tasks, Live(t)
  PROVE  AdmitInv'
<1>1. Sound' <=> Sound
  BY LiveMoves, GraphStays
<1>2. loop' = loop /\ loop.pc # "refused"
  BY LiveMoves DEF Live, WorkerEnds, WorkerBreaks, TearDown, BeingTornDown, CleanupFails,
                   ExitSeen, VerifyAndDeliver, GiveUp, GoneCancelled, Retry, GetSlot, Spawned,
                   Lives, Yielded
<1>3. QED
  BY <1>1, <1>2 DEF AdmitInv

LEMMA PeopleAdmit ==
  ASSUME TypeOK, TypeOK', AdmitInv, NEW t \in Tasks, AddTask(t) \/ Answer(t) \/ Cancel(t)
  PROVE  AdmitInv'
<1>1. loop' = loop /\ loop.pc # "refused"
  BY DEF AddTask, Answer, Cancel, Running
<1>2. loop.pc \notin {"start", "edges"} => Sound'
  <2>1. CASE AddTask(t)
    BY <1>1, <2>1, AddKeepsSound DEF AdmitInv
  <2>2. CASE Answer(t) \/ Cancel(t)
    <3>1. /\ deps' = deps /\ state[t] # "absent"
          /\ \E b \in STATES : state' = [state EXCEPT ![t] = b]
      BY <2>2 DEF Answer, Cancel, Present, STATES
    <3>2. QED
      BY <1>1, <3>1, GraphStays DEF AdmitInv
  <2>3. QED
    BY <2>1, <2>2
<1>3. QED
  BY <1>1, <1>2 DEF AdmitInv

(* The main loop: the verdict is right when it is given, and nothing that the *)
(* loop writes later touches the graph.                                      *)
LEMMA LoopAdmits ==
  ASSUME TypeOK, TodoPresent, AdmitInv, MainLoop
  PROVE  AdmitInv'
<1>1. CASE ReadTasks
  BY <1>1 DEF ReadTasks, AdmitInv, TypeOK
<1>2. CASE Start
  <2>1. /\ state' = state /\ deps' = deps /\ loop'.todo = loop.todo
        /\ loop'.pc = IF UnknownTask \/ Visited # loop.todo THEN "refused" ELSE "check"
    BY <1>2 DEF Start, TypeOK
  <2>2. (Sound' <=> Sound) /\ (Grew' <=> Grew)
    BY <2>1, GraphStays DEF Grew, Present
  <2>3. QED
    BY <2>1, <2>2, StartDecides DEF AdmitInv
<1>3. ASSUME loop.pc \notin {"start", "edges", "refused"}, loop'.pc # "refused",
             deps' = deps,
             state' = state \/ \E t \in Tasks : \E b \in STATES :
                                 state[t] # "absent" /\ state' = [state EXCEPT ![t] = b]
      PROVE  AdmitInv'
  BY <1>3, GraphStays DEF AdmitInv
<1>4. CASE Launch
  <2>1. loop.pc = "launch" /\ deps' = deps
    BY <1>4, Zenon DEF Launch
  <2>2. QED
    BY <1>3, <1>4, <2>1, LaunchWrites
<1>5. CASE Settle
  <2>1. /\ loop.pc = "settle" /\ loop'.pc # "refused" /\ deps' = deps
        /\ state' = state
           \/ (Legal(state[loop.arg], loop.to) /\ state' = [state EXCEPT ![loop.arg] = loop.to])
    BY <1>5 DEF Settle, TypeOK
  <2>2. CASE Legal(state[loop.arg], loop.to) /\ state' = [state EXCEPT ![loop.arg] = loop.to]
    <3>1. loop.to \in STATES /\ state[loop.arg] # "absent"
      BY <2>2, LegalEdges DEF STATES, TypeOK
    <3>2. CASE loop.arg \in Tasks
      BY <1>3, <2>1, <2>2, <3>1, <3>2
    <3>3. CASE loop.arg \notin Tasks
      <4>1. state' = state
        BY <2>2, <3>3 DEF TypeOK
      <4>2. QED
        BY <1>3, <2>1, <4>1
    <3>4. QED
      BY <3>2, <3>3
  <2>3. QED
    BY <1>3, <2>1, <2>2
<1>6. CASE MainSpawned
  <2> DEFINE t == loop.arg
  <2>1. /\ loop.pc = "spawn" /\ loop'.pc # "refused" /\ deps' = deps
        /\ state' = state
           \/ (Legal(state[t], "running") /\ state' = [state EXCEPT ![t] = "running"])
    BY <1>6 DEF MainSpawned, TypeOK
  <2>2. CASE Legal(state[t], "running") /\ state' = [state EXCEPT ![t] = "running"]
    <3>1. "running" \in STATES /\ state[t] # "absent"
      BY <2>2, LegalEdges DEF STATES
    <3>2. CASE t \in Tasks
      BY <1>3, <2>1, <2>2, <3>1, <3>2
    <3>3. CASE t \notin Tasks
      <4>1. state' = state
        BY <2>2, <3>3 DEF TypeOK
      <4>2. QED
        BY <1>3, <2>1, <4>1
    <3>4. QED
      BY <3>2, <3>3
  <2>3. QED
    BY <1>3, <2>1, <2>2
<1>7. CASE Check \/ Judge \/ JudgeRaises \/ PassEnds \/ Sleep
  <2>1. /\ loop.pc \in {"check", "judge", "sleep"} /\ state' = state /\ deps' = deps
    BY <1>7, Zenon DEF Check, Judge, JudgeRaises, PassEnds, Sleep
  <2>2. loop'.pc # "refused"
    <3>1. CASE Check
      BY <3>1 DEF Check, TypeOK
    <3>2. CASE JudgeRaises \/ PassEnds \/ Sleep
      BY <3>2 DEF JudgeRaises, PassEnds, Sleep, TypeOK
    <3>3. CASE Judge
      <4>1. PICK t \in loop.todo : \E v \in Verdicts(t) :
              loop' = [loop EXCEPT !.todo = @ \ {t}, !.arg = t, !.to = v,
                                   !.pc = IF v = "blocked" THEN "judge" ELSE "settle"]
        BY <3>3 DEF Judge
      <4>2. QED
        BY <4>1 DEF TypeOK
    <3>4. QED
      BY <1>7, <3>1, <3>2, <3>3
  <2>3. QED
    BY <1>3, <2>1, <2>2
<1>8. QED
  BY <1>1, <1>2, <1>4, <1>5, <1>6, <1>7 DEF MainLoop

LEMMA AdmitStep ==
  ASSUME Inv, Inv', AdmitInv, [Next]_vars
  PROVE  AdmitInv'
<1>1. TypeOK /\ TypeOK' /\ TodoPresent
  BY DEF Inv
<1>2. CASE UNCHANGED vars
  BY <1>2 DEF vars, AdmitInv, Sound, Grew, Present, Upstream
<1>3. CASE Next
  BY <1>1, <1>3, LoopAdmits, LiveAdmits, PeopleAdmit DEF Next
<1>4. QED
  BY <1>2, <1>3

(* validate_dependency_graph is exact, for every number of tasks and every   *)
(* graph that people or create_task have written: a run goes on only with a  *)
(* graph without cycles and missing tasks, whatever is added to it meanwhile, *)
(* and it refuses no other, except one to which a task with edges was added  *)
(* between the two reads.  How the run ends later (a cancel, a failed spawn,  *)
(* a broken worker or cleanup) does not enter.                               *)
THEOREM TeamAdmitsExactlyDags == Spec => []AdmitsExactlyDags
<1>1. Init => AdmitInv
  BY DEF Init, AdmitInv
<1>2. Inv /\ Inv' /\ AdmitInv /\ [Next]_vars => AdmitInv'
  BY AdmitStep
<1>3. AdmitInv => AdmitsExactlyDags
  BY DEF AdmitInv, AdmitsExactlyDags, Sound, Grew
<1>4. QED
  BY <1>1, <1>2, <1>3, TeamInvariant, PTL DEF Spec
=============================================================================
