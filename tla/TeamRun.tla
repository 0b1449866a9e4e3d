-------------------------------- MODULE TeamRun --------------------------------
(***************************************************************************)
(* A run of a whole team of tasks: Scheduler.run_until_settled, the passes  *)
(* of advance_dependency_states over the blocked tasks, the launches of     *)
(* _launch_ready within the slots of the worktree pool, and the people who  *)
(* add, answer and cancel tasks from other processes while the run goes on. *)
(*                                                                         *)
(* The life of a launched task is that of TaskRuntime, reduced to what the  *)
(* other tasks can see of it: its state and whether it holds a slot.  A     *)
(* nudged worker is a running worker here, and a task that awaits a person  *)
(* is answered only once its worker is gone (TaskRuntime has the rest).     *)
(***************************************************************************)
EXTENDS Integers, FiniteSets, TaskStates

CONSTANTS
  N,                 \* the tasks are 1..N, in the order of created_at
  Given,             \* 1..Given are in the database when the run starts
  HandMade,          \* the dependency rows were not written by create_task
  Forever,           \* daemon mode: the run never ends on its own
  Slots,             \* max_concurrency, the size of the worktree pool
  Adaptive,          \* adaptive_scheduling
  Conflicts,         \* the groups of overlapping writers in the preflight plan
  PlanKey,           \* the key of the plan that has them: compile_preflight_plan
                     \* writes "conflict_groups", the scheduler reads "conflicts"
  MaxRetries,        \* the retry budget of every task
  SpawnMayFail,      \* spawn_worker may raise
  InterfacesMayFail, \* artifacts of a delivered task may be missing, stale or unreadable
  Faults,            \* the failures that end the run of all tasks: "worker", an SDK
                     \* or startup failure, and "cleanup", a teardown that fails
  MaxAdds, MaxAnswers, MaxCancels \* how often people intervene, a bound

ASSUME TeamAssumption ==
  /\ N \in Nat \ {0} /\ Given \in 0..N /\ Slots \in Nat \ {0}
  /\ MaxRetries \in Nat /\ MaxAdds \in Nat /\ MaxAnswers \in Nat /\ MaxCancels \in Nat
  /\ {HandMade, Forever, Adaptive, SpawnMayFail, InterfacesMayFail} \subseteq BOOLEAN
  /\ Conflicts \subseteq SUBSET (1..N)
  /\ PlanKey \in {"conflict_groups", "conflicts"}
  /\ Faults \subseteq {"worker", "cleanup"}

Tasks == 1..N

VARIABLES
  state,    \* tasks.state, "absent" before the task is created
  deps,     \* task_deps
  cause,    \* the prerequisites named by the task's dep.blocked event
  retries,  \* tasks.retries
  at,       \* where the coroutine that drives the task is
  slots,    \* the keys of _worker_slots; the pool's queue has the other checkouts
  faults,   \* _infrastructure_failure and _teardown_failures: what was recorded
  loop,     \* the main loop: its position and locals
  people    \* how often people have intervened

vars == <<state, deps, cause, retries, at, slots, faults, loop, people>>

SETTLED == TERMINAL \cup {"needs_human"}

Present == {t \in Tasks : state[t] # "absent"}

Init ==
  /\ state = [t \in Tasks |-> IF t <= Given THEN "blocked" ELSE "absent"]
  /\ deps \in [Tasks -> SUBSET Tasks]
  /\ \A t \in Tasks :
       /\ t > Given => deps[t] = {}
       /\ HandMade \/ \A d \in deps[t] : d < t
  /\ cause = [t \in Tasks |-> {}]
  /\ retries = [t \in Tasks |-> 0]
  /\ at = [t \in Tasks |-> "off"]
  /\ slots = {}
  /\ faults = {}
  /\ loop = [pc |-> "start", todo |-> {}, arg |-> 0, to |-> "blocked", moved |-> FALSE]
  /\ people = [adds |-> 0, answers |-> 0, cancels |-> 0]

-----------------------------------------------------------------------------
(* The start of a run: validate_dependency_graph reads the tasks, then the   *)
(* edges, outside of any transaction: people may add tasks in between.       *)

ReadTasks ==
  /\ loop.pc = "start"
  /\ loop' = [loop EXCEPT !.pc = "edges", !.todo = Present]
  /\ UNCHANGED <<state, deps, cause, retries, at, slots, faults, people>>

\* Mutant: a graph that has a root is taken to have no cycle.
VisitedRootOnly ==
  IF \E t \in loop.todo : deps[t] = {} THEN loop.todo ELSE {}

\* Kahn's algorithm: a task is visited once all its prerequisites are.
Visited ==
  LET after[n \in 0..N] ==
        IF n = 0 THEN {} ELSE {t \in loop.todo : deps[t] \subseteq after[n - 1]}
  IN after[N]

\* An edge has an end that the first read did not find: "missing" for the
\* prerequisite, a KeyError for the dependent.
UnknownTask == \E t \in Present : \E d \in deps[t] : ~({t, d} \subseteq loop.todo)

Start ==
  /\ loop.pc = "edges"
  /\ loop' = [loop EXCEPT !.pc = IF UnknownTask \/ Visited # loop.todo
                                 THEN "refused" ELSE "check"]
  /\ UNCHANGED <<state, deps, cause, retries, at, slots, faults, people>>

-----------------------------------------------------------------------------
(* The main loop: blocked tasks first, then launches, then sleep. *)

BlockedTasks == {t \in Tasks : state[t] = "blocked"}

\* _team_settled: a finite run ends when every task is at rest, with an error
\* when a teardown had failed.  A recorded failure ends any other run here.
Check ==
  /\ loop.pc = "check"
  /\ LET settled == ~Forever /\ \A t \in Present : state[t] \in SETTLED
     IN loop' = IF settled /\ "cleanup" \notin faults
                THEN [loop EXCEPT !.pc = "ended"]
                ELSE IF settled \/ faults # {}
                THEN [loop EXCEPT !.pc = "failed"]
                ELSE [loop EXCEPT !.pc = "judge", !.todo = BlockedTasks, !.moved = FALSE]
  /\ UNCHANGED <<state, deps, cause, retries, at, slots, faults, people>>

\* Mutant: a prerequisite that awaits a person is waited for by every run.
BlockingPatient(t) ==
  {<<d, state[d]>> : d \in {d \in deps[t] :
      state[d] \in {"failed", "cancelled", "dependency_blocked"}}}

\* The prerequisites that cannot succeed in this run, with their states.
Blocking(t) ==
  {<<d, state[d]>> : d \in {d \in deps[t] :
      \/ state[d] \in {"failed", "cancelled", "dependency_blocked"}
      \/ ~Forever /\ state[d] = "needs_human"}}

Satisfied(t) == \A d \in deps[t] : state[d] = "delivered"

\* Mutant: a task that is refused for its inputs leaves no cause.
WhyForgetsInterfaces(t) == Blocking(t)

\* The payload of dep.blocked.
Why(t) ==
  IF Blocking(t) # {} THEN Blocking(t) ELSE {<<d, "interface_failed">> : d \in deps[t]}

\* What the pass decides for a blocked task.  A satisfied task still needs
\* the artifacts it declared as inputs.
Verdicts(t) ==
  IF Blocking(t) # {} THEN {"dependency_blocked"}
  ELSE IF ~Satisfied(t) THEN {"blocked"}
  ELSE IF InterfacesMayFail /\ deps[t] # {} THEN {"queued", "dependency_blocked"}
  ELSE {"queued"}

\* The artifacts cannot be read, or the command that verifies a prerequisite
\* cannot be started: nothing catches the exception below run_until_settled.
JudgeRaises ==
  /\ loop.pc = "judge" /\ InterfacesMayFail
  /\ \E t \in loop.todo :
       /\ \A u \in loop.todo : t <= u
       /\ deps[t] # {} /\ Satisfied(t)
  /\ loop' = [loop EXCEPT !.pc = "failed"]
  /\ UNCHANGED <<state, deps, cause, retries, at, slots, faults, people>>

\* The next row of the pass is judged by the states its prerequisites have now.
Judge ==
  /\ loop.pc = "judge"
  /\ \E t \in loop.todo : \E v \in Verdicts(t) :
       /\ \A u \in loop.todo : t <= u
       /\ loop' = [loop EXCEPT !.todo = @ \ {t}, !.arg = t, !.to = v,
                               !.pc = IF v = "blocked" THEN "judge" ELSE "settle"]
       /\ cause' = IF v = "dependency_blocked" THEN [cause EXCEPT ![t] = Why(t)] ELSE cause
  /\ UNCHANGED <<state, deps, retries, at, slots, faults, people>>

\* transition() reads the row again: a cancel in between is a ValueError that
\* nothing catches below run_until_settled.
Settle ==
  /\ loop.pc = "settle"
  /\ IF Legal(state[loop.arg], loop.to)
     THEN /\ state' = [state EXCEPT ![loop.arg] = loop.to]
          /\ loop' = [loop EXCEPT !.pc = "judge", !.moved = TRUE]
     ELSE loop' = [loop EXCEPT !.pc = "failed"] /\ UNCHANGED state
  /\ UNCHANGED <<deps, cause, retries, at, slots, faults, people>>

\* A pass that moved a task is followed by another one.
PassEnds ==
  /\ loop.pc = "judge" /\ loop.todo = {}
  /\ loop' = IF loop.moved THEN [loop EXCEPT !.todo = BlockedTasks, !.moved = FALSE]
             ELSE [loop EXCEPT !.pc = "launch"]
  /\ UNCHANGED <<state, deps, cause, retries, at, slots, faults, people>>

-----------------------------------------------------------------------------
(* Launching queued tasks: _launch_ready, choose_task, effective_limit. *)

\* The groups that the scheduler finds in its plan.
KnownConflicts == IF PlanKey = "conflicts" THEN Conflicts ELSE {}

\* A task of the same group holds a slot.
ConflictBlocked(t) ==
  \E group \in KnownConflicts : t \in group /\ (group \ {t}) \cap slots # {}

Dependents(t) == {u \in Tasks : t \in deps[u]}

\* The longest chain of dependents, the task included.
Depth ==
  LET depth[t \in Tasks] ==
        LET below == {depth[u] : u \in Dependents(t)} \cup {0}
        IN 1 + (CHOOSE k \in below : \A j \in below : j <= k)
  IN depth

Score(t) == Depth[t] * 100 + Cardinality(Dependents(t)) * 10

\* The oldest task goes first; an adaptive scheduler prefers the best score.
Precedes(t, u) ==
  IF Adaptive /\ Score(t) # Score(u) THEN Score(t) > Score(u) ELSE t <= u

\* Mutant: the adaptive limit has no floor.
LimitsWithoutFloor == IF Adaptive THEN {Slots, Slots - 1} ELSE {Slots}

\* Slow recent workers take one slot off the adaptive limit.
Limits == IF Adaptive /\ Slots > 1 THEN {Slots, Slots - 1} ELSE {Slots}

Candidates == {t \in Tasks : state[t] = "queued" /\ ~ConflictBlocked(t)}

Launch ==
  /\ loop.pc = "launch"
  /\ \E limit \in Limits :
       \/ /\ Cardinality(slots) >= limit \/ Candidates = {}
          /\ loop' = [loop EXCEPT !.pc = IF faults = {} THEN "sleep" ELSE "failed"]
          /\ UNCHANGED slots
       \/ /\ Cardinality(slots) < limit
          /\ \E t \in Candidates :
               /\ \A u \in Candidates : Precedes(t, u)
               /\ loop' = [loop EXCEPT !.pc = "spawn", !.arg = t]
               /\ slots' = slots \cup {t}
  /\ UNCHANGED <<state, deps, cause, retries, at, faults, people>>

\* The worker has started: its task runs, or the run fails because the task
\* was cancelled meanwhile or the worker could not be spawned.
MainSpawned ==
  /\ loop.pc = "spawn"
  /\ LET t == loop.arg IN
     \/ /\ Legal(state[t], "running")
        /\ state' = [state EXCEPT ![t] = "running"]
        /\ at' = [at EXCEPT ![t] = "watch"]
        /\ loop' = [loop EXCEPT !.pc = "launch"]
     \/ /\ ~Legal(state[t], "running") \/ SpawnMayFail
        /\ loop' = [loop EXCEPT !.pc = "failed"]
        /\ UNCHANGED <<state, at>>
  /\ UNCHANGED <<deps, cause, retries, slots, faults, people>>

Sleep ==
  /\ loop.pc = "sleep"
  /\ loop' = [loop EXCEPT !.pc = "check"]
  /\ UNCHANGED <<state, deps, cause, retries, at, slots, faults, people>>

-----------------------------------------------------------------------------
(* The life of a launched task.  Its coroutine moves only while the main    *)
(* loop has given up the event loop: the passes and the choice of the next  *)
(* task to launch do not await.                                             *)

Yielded == loop.pc \in {"sleep", "spawn"}

Lives(t, where) == Yielded /\ at[t] = where

Move(t, to) == state' = [state EXCEPT ![t] = to]
Goto(t, where) == at' = [at EXCEPT ![t] = where]

\* The worker claims to be done, or fails, asks or falls silent.
WorkerEnds(t) ==
  /\ Lives(t, "watch") /\ state[t] = "running"
  /\ Move(t, "verifying") \/ Move(t, "triage")
  /\ UNCHANGED <<retries, at, slots, faults>>

\* The worker cannot start, or its SDK session fails or times out: a failure of
\* the infrastructure, recorded for the main loop.  The row stays as it is;
\* after a time-out ("late") the watcher goes on to the worker's exit.
WorkerBreaks(t) ==
  /\ Lives(t, "watch") /\ state[t] \in {"running", "cancelled"} /\ "worker" \in Faults
  /\ faults' = faults \cup {"worker"}
  /\ Goto(t, "broken") \/ Goto(t, "late")
  /\ UNCHANGED <<state, retries, slots>>

BeingTornDown(t) ==
  Lives(t, "broken") \/ Lives(t, "late") \/ (Lives(t, "watch") /\ state[t] # "running")

\* The cleanup gives the slot back: before verification, before a retry and
\* after a task has come to rest or its worker has broken.
TearDown(t) ==
  /\ BeingTornDown(t)
  /\ slots' = slots \ {t}
  /\ Goto(t, IF at[t] = "late" THEN "exit"
             ELSE IF at[t] = "broken" \/ state[t] \in SETTLED THEN "off" ELSE "torn")
  /\ UNCHANGED <<state, retries, faults>>

\* A part of the cleanup fails: the slot is free, the failure is recorded for
\* the main loop, and the coroutine ends with the row as it is.
CleanupFails(t) ==
  /\ BeingTornDown(t) /\ "cleanup" \in Faults
  /\ slots' = slots \ {t}
  /\ faults' = faults \cup {"cleanup"}
  /\ Goto(t, "off")
  /\ UNCHANGED <<state, retries>>

\* _mark_running_failure, once the worker that had timed out is reaped.
ExitSeen(t) ==
  /\ Lives(t, "exit")
  /\ IF state[t] = "running" THEN Move(t, "triage") /\ Goto(t, "torn")
                             ELSE Goto(t, "off") /\ UNCHANGED state
  /\ UNCHANGED <<retries, slots, faults>>

VerifyAndDeliver(t) ==
  /\ Lives(t, "torn")
  /\ \/ state[t] = "verifying" /\ (Move(t, "delivering") \/ Move(t, "triage")) /\ UNCHANGED at
     \/ state[t] = "delivering" /\ Move(t, "triage") /\ UNCHANGED at
     \/ state[t] = "delivering" /\ Move(t, "delivered") /\ Goto(t, "off")
  /\ UNCHANGED <<retries, slots, faults>>

\* Triage gives up on the task: a person, or yolo mode's abandon, has it.
GiveUp(t) ==
  /\ Lives(t, "watch") \/ Lives(t, "torn")
  /\ state[t] = "triage"
  /\ Move(t, "needs_human") \/ Move(t, "failed")
  /\ Goto(t, IF at[t] = "torn" THEN "off" ELSE "watch")
  /\ UNCHANGED <<retries, slots, faults>>

\* The coroutine finds its task cancelled.
GoneCancelled(t) ==
  /\ Lives(t, "torn") /\ state[t] = "cancelled"
  /\ Goto(t, "off")
  /\ UNCHANGED <<state, retries, slots, faults>>

\* A retry waits for a checkout of the pool: neither the limit nor the
\* conflict groups are looked at.
Retry(t) ==
  /\ Lives(t, "torn") /\ state[t] = "triage" /\ retries[t] < MaxRetries
  /\ Goto(t, "slot")
  /\ UNCHANGED <<state, retries, slots, faults>>

\* Mutant: a retry does not wait for a free checkout.
GetSlotAtOnce(t) ==
  /\ Lives(t, "slot")
  /\ slots' = slots \cup {t}
  /\ Goto(t, "spawn")
  /\ UNCHANGED <<state, retries, faults>>

GetSlot(t) ==
  /\ Lives(t, "slot") /\ Cardinality(slots) < Slots
  /\ slots' = slots \cup {t}
  /\ Goto(t, "spawn")
  /\ UNCHANGED <<state, retries, faults>>

\* The retried worker has started.  When its task was cancelled meanwhile, or
\* the spawn fails, the coroutine ends with an exception that nobody awaits.
Spawned(t) ==
  /\ Lives(t, "spawn")
  /\ \/ /\ Legal(state[t], "running")
        /\ Move(t, "running") /\ retries' = [retries EXCEPT ![t] = @ + 1]
        /\ Goto(t, "watch")
     \/ /\ ~Legal(state[t], "running") \/ SpawnMayFail
        /\ Goto(t, "off") /\ UNCHANGED <<state, retries>>
  /\ UNCHANGED <<slots, faults>>

Live(t) ==
  /\ \/ WorkerEnds(t) \/ WorkerBreaks(t) \/ TearDown(t) \/ CleanupFails(t) \/ ExitSeen(t)
     \/ VerifyAndDeliver(t) \/ GiveUp(t) \/ GoneCancelled(t)
     \/ Retry(t) \/ GetSlot(t) \/ Spawned(t)
  /\ UNCHANGED <<deps, cause, loop, people>>

-----------------------------------------------------------------------------
(* People, in processes of their own, while the run goes on. *)

Running == loop.pc \notin {"ended", "failed", "refused"}

\* create_task: the row and its dependencies in one transaction.
AddTask(t) ==
  /\ Running /\ people.adds < MaxAdds
  /\ t \notin Present /\ \A u \in Tasks : u < t => u \in Present
  /\ state' = [state EXCEPT ![t] = "blocked"]
  /\ \E prerequisites \in SUBSET Present : deps' = [deps EXCEPT ![t] = prerequisites]
  /\ people' = [people EXCEPT !.adds = @ + 1]
  /\ UNCHANGED <<cause, retries, at, slots, faults, loop>>

\* Mutant: any state that may become queued is answered.
AnswerUnchecked(t) ==
  /\ Running /\ people.answers < MaxAnswers
  /\ t \in Present /\ Legal(state[t], "queued") /\ at[t] = "off"
  /\ state' = [state EXCEPT ![t] = "queued"]
  /\ people' = [people EXCEPT !.answers = @ + 1]
  /\ UNCHANGED <<deps, cause, retries, at, slots, faults, loop>>

Answer(t) ==
  /\ Running /\ people.answers < MaxAnswers
  /\ state[t] = "needs_human" /\ at[t] = "off"
  /\ state' = [state EXCEPT ![t] = "queued"]
  /\ people' = [people EXCEPT !.answers = @ + 1]
  /\ UNCHANGED <<deps, cause, retries, at, slots, faults, loop>>

Cancel(t) ==
  /\ Running /\ people.cancels < MaxCancels
  /\ t \in Present /\ state[t] \notin TERMINAL
  /\ state' = [state EXCEPT ![t] = "cancelled"]
  /\ people' = [people EXCEPT !.cancels = @ + 1]
  /\ UNCHANGED <<deps, cause, retries, at, slots, faults, loop>>

-----------------------------------------------------------------------------
MainLoop ==
  \/ ReadTasks \/ Start \/ Check \/ Judge \/ JudgeRaises \/ Settle \/ PassEnds
  \/ Launch \/ MainSpawned \/ Sleep

Next ==
  \/ MainLoop
  \/ \E t \in Tasks : Live(t) \/ AddTask(t) \/ Answer(t) \/ Cancel(t)

Spec == Init /\ [][Next]_vars

\* The event loop runs every coroutine that can move, and a worker, a
\* supervisor call and a verification all end (each has a timeout).
Fairness == WF_vars(MainLoop) /\ \A t \in Tasks : SF_vars(Live(t))

LiveSpec == Spec /\ Fairness
-----------------------------------------------------------------------------
(* Properties. *)

TypeOK ==
  /\ state \in [Tasks -> STATES \cup {"absent"}]
  /\ deps \in [Tasks -> SUBSET Tasks]
  /\ cause \in [Tasks -> SUBSET (Tasks \X (STATES \cup {"interface_failed"}))]
  /\ retries \in [Tasks -> 0..MaxRetries]
  /\ at \in [Tasks -> {"off", "watch", "broken", "late", "exit", "torn", "slot", "spawn"}]
  /\ slots \subseteq Tasks /\ faults \subseteq Faults
  /\ loop \in [pc : {"start", "edges", "check", "judge", "settle", "launch", "spawn",
                     "sleep", "ended", "failed", "refused"},
               todo : SUBSET Tasks, arg : Tasks \cup {0},
               to : {"blocked", "queued", "dependency_blocked"}, moved : BOOLEAN]
  /\ people \in [adds : 0..MaxAdds, answers : 0..MaxAnswers, cancels : 0..MaxCancels]

\* README: "A task remains blocked until all dependencies are delivered."  No
\* cancel, answer or task added between a look at the rows and the state
\* change lets a task out before its prerequisites.
GateHolds ==
  \A t \in Tasks :
    state[t] \notin {"absent", "blocked", "dependency_blocked", "cancelled"}
      => \A d \in deps[t] : state[d] = "delivered"

\* The tasks that t waits for, directly or not: the least set that has the
\* prerequisites of t and of its members.
Upstream(t) ==
  {u \in Tasks : \A S \in SUBSET Tasks :
     (deps[t] \subseteq S /\ \A v \in S : deps[v] \subseteq S) => u \in S}

\* First launches check the limit and retries wait for the pool, at moments of
\* their own: together they never hold more than max_concurrency slots.
WithinCapacity == Cardinality(slots) <= Slots

\* A task moves along the edges of the state machine only, whoever changes its
\* row while a pass or a launch is between its look and its write.
OnlyLegalMoves ==
  [][\A t \in Tasks : state'[t] # state[t] =>
       Legal(state[t], state'[t]) \/ <<state[t], state'[t]>> = <<"absent", "blocked">>]_vars

\* validate_dependency_graph lets a run go on only when every prerequisite
\* exists and no task waits for itself, by any path.  It refuses no other
\* graph, but for one that grew between its two reads: by a task with
\* prerequisites, or that something waits for.  What people add later, and how
\* a run that was let go ends, does not change the verdict.
AdmitsExactlyDags ==
  LET sound == \A t \in Present : deps[t] \subseteq Present /\ t \notin Upstream(t)
      grew == \E t \in Present \ loop.todo :
                deps[t] # {} \/ \E u \in Present : t \in deps[u]
  IN /\ loop.pc \notin {"start", "edges", "refused"} => sound
     /\ loop.pc = "refused" => ~sound \/ grew

\* "If a dependency cannot succeed, downstream tasks settle as
\* dependency_blocked": however long the chain, its dep.blocked events lead
\* back to a task that failed, was cancelled or awaited a person, or to a
\* refused interface of delivered prerequisites; and what they say of final
\* states is still true.
BlockedForCause ==
  \A t \in Tasks : state[t] = "dependency_blocked" =>
    /\ \E u \in Upstream(t) \cup {t} :
         \E c \in cause[u] : c[2] # "dependency_blocked"
    /\ \A c \in cause[t] :
         /\ c[1] \in deps[t]
         /\ c[2] \in TERMINAL => state[c[1]] = c[2]
         /\ c[2] = "interface_failed" => Satisfied(t)

\* README: "`dagent run` exits after all tasks reach a resting or terminal
\* state", here with a worker that may fail to start.
RunExits == <>~Running

\* A daemon takes up every task that people add: it leaves the blocked state
\* unless something it waits for awaits a person, or the daemon is gone.
AddedIsTakenUp ==
  \A t \in Tasks :
    state[t] = "blocked" ~>
      \/ state[t] # "blocked"
      \/ \E u \in Upstream(t) : state[u] = "needs_human"
      \/ ~Running

\* core.py:496, _conflict_blocked: "Keep preflight-detected overlapping writers
\* out of the same slot."
ConflictsApart ==
  \A group \in Conflicts : Cardinality(group \cap slots) <= 1

\* core.py:358, run_until_settled: "With forever=True this never returns on
\* its own".
DaemonKeepsRunning == loop.pc # "failed"

\* core.py:192, the reason given in dep.blocked: "required prerequisite cannot
\* succeed in this run".
BlockedIsHopeless ==
  \A t \in Tasks :
    state[t] = "dependency_blocked" /\ (\A c \in cause[t] : c[2] # "interface_failed")
      => ~Satisfied(t)

\* core.py:322, _worker_slots: "keeping the lease explicit closes the
\* spawn/teardown boundary": every registered slot has a coroutine that will
\* give it back.
SlotsHaveOwners ==
  \A t \in slots :
    \/ at[t] \in {"watch", "broken", "late", "spawn"}
    \/ loop.pc = "spawn" /\ loop.arg = t
    \/ ~Running
=============================================================================
