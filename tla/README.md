# TLA+ models of DAGent

DAGent runs coding tasks: it reads a directed graph of tasks from SQLite, launches one
worker process per task in a pooled git worktree, verifies and delivers what the worker
committed, and asks a supervisor model what to do when something goes wrong. This directory
models the part of that program whose correctness depends on order: the state machine and
its event log, the execution leases, the asyncio scheduler that drives a task, the run of a
whole team of tasks, the end of a run and the restart after a crash, the verdict of the
verification gates, the protocol between the scheduler and its workers, and the admission of
a workflow.
All line numbers refer to `src/dagent/` of the repository.

## 1. Inventory

| Part | Files | State it keeps | Operations | What is hard |
|---|---|---|---|---|
| Event log and task table | `store/events.py`, `store/db.py` | `tasks`, `events` | `create_task`, `append_event`, `transition`, `replay` | several processes write; the legality check is outside the transaction |
| Execution leases | `execution_lease.py` | `execution_leases` and its events | `acquire`, `validate`, `renew`, `release`, `recover`, `replay_leases` | calls that were delayed after they read the time; expiry at the boundary |
| Scheduler of a task | `scheduler/core.py` | registries keyed by task: process, watcher, slot, checkout, lease, silence window, teardown task, triage lock | `_launch`, `_watch`, `_handle_triage`, `_run_verify`, `_deliver`, `_watchdog_loop`, `_teardown`, `_drain_teardowns` | watcher, watchdog, cleanup and main loop interleave at every await; workers die and people type at any time; the end of a run cancels them wherever they are |
| Dependency gating and launching | `scheduler/core.py` 104-243, 478-533, `scheduler/adaptive.py` | `task_deps`, `tasks.state`, `_worker_slots` | `validate_dependency_graph`, `advance_dependency_states`, `_team_settled`, `_launch_ready`, `_conflict_blocked`, `choose_task` | propagation to a fixpoint, finite run against daemon, cancels between passes |
| Crash recovery | `scheduler/reconcile.py`, `core.py` 366-384, 1375-1387, 1633-1682 | the durable rows and events only | `reconcile`, `_resume_verifying`, `_resume_delivering` | a crash between any two writes, twice in a row |
| Recovery policy, supervisor menu | `recovery.py`, `supervisor/actions.py`, `supervisor/packet.py` | none | `choose_recovery`, `classify_failure`, `compute_allowed_actions` | bounds on retries, nudges and repairs; order of the policies |
| Worktree pool | `worker/worktree_pool.py` | free queue of slots | `open`, `acquire`, `release`, `close` | given back exactly once; a relaunch competes for the slot it gave back |
| Human commands | `cli.py` 162-201 | none | `answer`, `cancel` | another process, at any moment |
| Workflow preflight | `workflow_preflight.py`, `harbor.py` 100-145 | a plan, then rows | `compile_preflight_plan`, `run_instruction` | deterministic order, paths that overlap, insertion in several transactions |
| Verification gates | `verify/gate.py`, `verify/evidence.py` | a checkout of the candidate, the report of the stages | `run_verify`, `run_evidence_ladder` | two implementations of one verdict; the slot they look at has been given back; what is cleaned up on which way out |
| Worker processes | `worker/sdk_worker.py`, `worker/cli_worker.py` | an agent's session, stdin and stdout | turns, questions and replies, a last word | two pipes and an agent that may be silent, die or fail at any time; who waits for whom |
| Delivery, interfaces | `delivery/`, `interfaces.py` | files and git refs | one verdict per call | what is repeated after a crash |
| Supervisor transport | `supervisor/llm.py` | none | one answer per call | outside the program |
| Policies, metrics, experiments, Harbor | the remaining files | none shared with the loop | static checks and reports | nothing concurrent |

The main loop (`run_until_settled`) launches queued tasks. Each launched attempt has a
watcher coroutine that reads the worker's lines; the watchdog looks at silence and wall
clock; both enter triage, under a lock per task, and triage ends by relaunching, resuming
or settling the task. Every way out goes through `_teardown`, which runs a shared cleanup
task: it reaps the process, cancels the attempt's watcher, and gives back lease, checkout and
slot. Everything that must survive is written with `transition()` or `append_event()`, and
the `dagent answer` / `dagent cancel` commands write the same database. A run ends by cancelling
the watchdog, tearing down every task that still owns something, and closing the pool;
`asyncio.run` then cancels whatever coroutine is left.

What makes each part correct: the log rebuilds the table and terminal rows stay (store); only the
newest lease is valid (leases); one worker at a time, reaped before its work is judged, within the
budget, and nothing held at rest (scheduler); no launch before its prerequisites, no more than the
slots, an end (team); nothing recorded is lost or repeated (restart); a passing verdict was earned
in the candidate (gates); questions and replies alternate and turns end (workers).

## 2. Modules

| Module | Models | Proofs |
|---|---|---|
| `TaskStates` | the states, terminal states and legal edges (`events.py` 37-84) | |
| `TaskStore` | `tasks` and the log, `transition()` as a read step and a write step | `TaskStoreProofs` |
| `MCTaskStore` | instance of `TaskStore` | |
| `ExecutionLease` | the lease table; a call is a `Begin` step that reads the time and the step of its transaction | `ExecutionLeaseProofs` |
| `MCExecutionLease` | instance of `ExecutionLease` | |
| `TaskContract` | the abstract task: what the scheduler promises about its row, its attempts and what is handed off | in `RestartProofs`, `TaskRuntimeProofs` |
| `TaskRuntime` | one task in one scheduler process, its workers and the people; implements `TaskContract` | `TaskRuntimeProofs` |
| `TaskShutdown` | `TaskRuntime` and the end of a run: drain, interruption, the cancellation of what is left | `TaskRuntimeProofs` |
| `TeamRun` | all tasks of a run, the passes of the main loop over them, and the people | `TeamRunProofs` |
| `Restart` | one task and a series of scheduler processes, each killed between two commits; implements `TaskContract` | `RestartProofs` |
| `VerifyGate` | the gate of `gate.py` and the evidence ladder, given the same request, while the slot is reused | `VerifyGateProofs` |
| `MCVerifyGate` | the requests that are enumerated | |
| `WorkerWire` | the abstract conversation between a worker and the scheduler, by whose turn it is | |
| `WorkerBridge` | `sdk_worker.py` and `cli_worker.py` with their agent; implements `WorkerWire` | `WorkerBridgeProofs` |
| `Preflight` | the compiler of workflows and the insertion of its tasks | `PreflightProofs` |
| `MCPreflight` | the graphs, contracts and scopes that are enumerated | |

The modules that have something in common divide it. `TaskRuntime` has the interleavings of
one process in full until its run ends, `TaskShutdown` extends it by the end; `Restart` has the crashes and takes the
coroutines of one attempt as one; `TeamRun` has many tasks and of each only what another task
can see. All of them take their edges from `TaskStates`, and `transition()` as one step, which
`TaskStore` splits.

### TaskStore

`tasks` is a function from the ids that exist to rows, `log` the sequence of `task.created`
and `task.state_changed` events, `call[p]` what process `p` read in a `transition()` it has
not written yet. `TransitionRead` is lines 185-190 (SELECT, legality check), `TransitionWrite`
is lines 192-205 (UPDATE and INSERT in one transaction, with the `from` that was read before).
A process may die between the two. `Replay` says what the fold of `replay()` yields field by
field, and folding `ReplayStep` over the log is the loop; both are compared with the table.

### ExecutionLease

`leases` is the set of rows, `events` the lease events, `call[p]` the call that `p` has begun:
the functions evaluate `now` before `BEGIN IMMEDIATE`, so a call may be decided with a time
that is older than the clock when it writes. Callers keep tokens for ever and use them late.
A token is (attempt, generation); the `lease_id` ULID of the code names the same pair.

### TaskRuntime

The coroutines are `Main`, `Dog` (the watchdog) and one watcher per attempt; `co[c].pc` says
where a coroutine is. A stretch of code without an await is one or more steps during which
`cpu` names the coroutine, so no other coroutine moves in between; the places in `Waiting` are
the awaits. The event loop's queue is first in first out: `late` remembers which coroutines
gave up the loop while another was ready, and keeps them from overtaking it. Among what
remains any order is allowed. `td` is the entry of `_teardown_tasks`; `mem` the other
registries (`reg`: `_procs`, `held`: `_leases`, `slot`: `_worker_slots`, `wt`: `_worktrees`,
`seen`: `_last_event_ts`, `grace`: `_wait_grace`, `free`: the pool). `att` holds the attempts:
lease row, whether an exit or stall event names it, verdict, process and pipe.

Simplifications, each of which keeps the order of effects:

* one line is in the pipe at a time; lines that only append an event are one kind (`log`);
  `no_change` is `done`, `sdk_failed` is `startup_failed`;
* an exit code is `exited` (0), `crashed` (not 0) or `killed` (by the scheduler);
* the nudge's write and drain are one step, which may fail when the process is gone;
* how long a worker has been silent or alive is left open, so the watchdog may find either
  limit passed at any sweep; a lease may lapse at any time when `Lapses` is set;
* whether a new failure is equivalent to an ancestor's is a choice, possible only when an
  ancestor failed in the same way;
* a cleanup that finished is taken out of `_teardown_tasks` at once; the code takes it out when
  its first waiter runs, in the same turn of the loop or the next;
* other tasks appear only as users of slots (`OtherTasks`), `transition()` is atomic (its race
  is the subject of `TaskStore`); what follows a run that fails is in `TaskShutdown`.

What the code reads before an await and uses after it is kept in the coroutine: `arg` is the attempt
a verification has captured (`VerifyBegins`) and credits with its verdict, `paid` the number of retries
that a relaunch has read before its cleanup and its wait for a slot, and writes with `running`.

### TaskShutdown

Extends `TaskRuntime` by `stop.phase`: `running`, `watchdog` (cancelled and awaited), `drain`
(`_drain_teardowns` awaits the cleanup it found or started), `closed` (the pool is removed, the main
coroutine returns or raises), `cancelled` (`asyncio.run` has cancelled what was left) and `over`. All
other coroutines go on meanwhile. `Interrupted` is what CancelledError does to a coroutine at the
await where it is: a shielded cleanup is waited for first, a launch gives its lease up
(`AbortLaunch`), anything else unwinds. A Ctrl-C (`hit`) may come at any await of the main coroutine
before the end of its drain. While the loop runs, it begins the end (`Interrupt`). While the watchdog
is awaited, it skips the drain and the pool (`InterruptJoin`, phase `struck`, `Undrained`): the watchdog,
cancelled a second time, does not wait for its cleanup any more. While the main loop drains, it changes
nothing that is modelled, as `_await_teardowns_shielded` awaits the same drain again. `stop.unborn` remembers which attempts had no worker yet when
the drain looked at the registries, as only those can have one afterwards; a run that never drains
counts them all, so that `DrainedAreReaped` says nothing of it.

### TaskContract

The row's `state`, `retries` and `attempt`, and the sets of attempts that `passed` and that were
`shipped`. Its actions are the moves of a row with what each one costs or requires: a retry
costs one of the budget, a hand-off requires a pass, a failure is not reported of what was handed
off. `TaskRuntime` and `Restart` map their rows to it (`Contract`) and `ContractKept` says that every
step of theirs is one of its steps or none. `Redelivers` is the difference between them: a process
that is killed between the hand-off and its record repeats the hand-off.

### TeamRun

`state`, `deps`, `cause` (the prerequisites a `dep.blocked` event names) and `retries` are the
durable state; `at` is where the coroutine of a task is, `slots` the keys of `_worker_slots`,
`loop` the main loop with the rows of the pass it still has `todo`. `validate_dependency_graph`
reads the tasks (`ReadTasks`) and then the edges (`Start`), without a transaction, so a task may be
added in between: an edge with an end that the first read did not find (`UnknownTask`) is a missing
prerequisite or a KeyError. A pass of `advance_dependency_states` notes all blocked rows in one step, then
looks at one row (its prerequisites, its interfaces) and writes it in two more: other processes
commit in between. The loop of passes goes on while one of them `moved` a row. `_launch_ready`
takes first launches without an await, a retry waits for the pool on its own.

A run is `refused` by the startup check, has `ended` when all tasks are at rest, or has `failed` by an
exception out of the main loop. There are five of those: a state change that a cancel made illegal
(`Settle`, `MainSpawned`), a worker that cannot be spawned (`MainSpawned`), artifacts that cannot be read
or a node verification that cannot be started (`JudgeRaises`), and the two kinds of `faults` that
coroutines leave for the loop, which looks before a pass and after the launches (`Check`, `Launch`):
`worker`, the `_infrastructure_failure` of a worker that reports `startup_failed`, `sdk_failed` or
`sdk_timeout` (`WorkerBreaks`; its row stays as it is, and after a time-out the watcher may go on to
the worker's exit, `ExitSeen`), and `cleanup`, a recorded failure of a teardown (`CleanupFails`). A
finite run that is settled ends with an error for the second and without one for the first.

Simplifications: a launched task is the task of `TaskRuntime` reduced to its state and slot; a
task that awaits a person is answered when its worker is gone; the verdict of
`validate_dependency_interfaces` and whether recent workers were slow are choices. A cleanup that fails
has still given its slot back; that a checkout which cannot be reset is lost to the pool makes no
difference to a run that fails for it. A watchdog that raises, and a database that does, are left out.

### Restart

`row`, `attempts` (with their leases), `log` and `ivs` (the interventions) are what the database
keeps; `worker` and `shipped` are the world; `co` holds the main coroutine and the one that
drives the task, both lost in `Crash`. A commit is named by the attempt that made it, 0 stands
for the base branch: `attempts[n].base`, `attempts[n].cand` and `row.cand` are `base_sha` and the
two `candidate_sha`. A step is one commit or one call to the outside; where several commits
without an await between them are one step, no later process reads the difference (timing
events, the fields written next to an event). A start runs `Start`, `Fence` and one of
`ReconcileClaim` and `ReconcileExit`, then the checkpoints `ResumeTriage`, `ResumeVerifying`,
`ResumeDelivering`, then `Loop`.

Simplifications: the watcher, the watchdog and the cleanup of an attempt are one coroutine; the
protocol, public and repeated-failure policies, which look at one attempt only, are in
`TaskRuntime`; a pid is not reused; whether other tasks delay a start is the constant
`OthersBoot`; a run that ends with an exception is not followed further.

### VerifyGate

One request, and what the repository and the checks hold in store for it, is chosen in `Init`; the
gate of `gate.py` (`legacy`) and the ladder (`ladder`) then judge it one after the other, one git
call or check at a time, while `SlotReused` may change the slot between any two steps. `runs` notes
every run of the verify command with its directory, `report` the stages as they are recorded in
events. An exception leaves the ladder in `raised`: an artifact that cannot be read, or, before the
first stage, a test beside a changed file that is found in the daemon's own directory and so has no path
relative to the slot (`PlanRaises`). Left out: texts and signatures; which test files belong to a changed file, and what an
artifact schema accepts, are outcomes that the request holds.

### WorkerBridge and WorkerWire

`out.said` is the last line a bridge wrote that calls for something of the scheduler, `in` its
standard input, `child` the `claude` process of `cli_worker.py`. The agent may do anything a bridge
distinguishes at any time. `WorkerWire` sees whose turn it is and the last word; a bridge that reads
with an empty input has handed the turn over, a line in the pipe or the end of the input hands it back or ends
it. Lines that only report (messages, tools, heartbeats) are left out.

### Preflight

`spec` is what a workflow says, chosen in `Init`; the compiler works through its stages one node
at a time (`pc`, `next`) with the variables of the code: `remaining`, `order`, `depths`,
`parents`, `path`, and the union-find forest `group`. `tasks` is what `run_instruction` has
committed. A task is the rank of its name, because ties are broken by name. What can be wrong
with a node alone is one flag; a scope is a sequence of path components cut before the first
wildcard; path halving in the union-find is left out, as it changes no root.

## 3. Runs

| Run | Shows |
|---|---|
| `store` | one task, a scheduler and a command: the log rebuilds the table, by its definition and by the loop of the code; a terminal row with no call in flight is frozen |
| `lease` | two owners and a watchdog over one attempt, delayed calls: fencing holds |
| `task_life` | done claims, startup failures, crashes, stalls, time-outs, a cancel: the task always settles or the run fails, and exits are blamed on the attempt that exited |
| `task_recovery` | all recovery policies, nudge, wait, abandon, failing spawns: one worker at a time, and the scheduler implements `TaskContract`, with its retry budget |
| `task_people` | a question, an answer, a cancel, a lapsing lease, failing spawns, another task competing for the slot: one worker at a time, reaped before its work is verified, and nothing held at rest |
| `task_shutdown` | a run that is interrupted, fails or is over, with triage, launches and cleanups under way and leases running out: it ends, and the workers that lived when a drain began are reaped |
| `team_finite` | every graph of two tasks, cyclic and dangling ones too, and a third task added at any moment with any prerequisites; interfaces that are refused or raise, workers that break, cleanups that fail: the startup check lets exactly the sound graphs go on, but for one that grew under it; the run ends, blocked tasks name a true cause, the pool is never exceeded |
| `team_daemon` | a daemon while people add, answer and cancel and a worker may break: the gate holds, an added task is taken up |
| `preflight` | every graph of three tasks with unknown names in every order of declaration, every graph of four, contracts, overlapping scopes: exactly the sound ones compile, in the first topological order, with a longest critical path and groups that cover all writers that may meet; backward ones are inserted whole |
| `restart` | two kills anywhere: one decision and verdict per cause and attempt, a claim is never lost, spawns beyond the budget are at most the kills, `TaskContract` is implemented; when the kills stop, the task comes to rest |
| `gate` | every kind of candidate with plain checks and every outcome of the checks with a plain candidate, and tests found outside the slot: the ladder is stricter than the gate and only for its own reasons, a passing verdict was earned in the candidate, the report is a ladder |
| `worker` | both bridges with an agent that does anything: they implement `WorkerWire`, and a turn ends by itself |

The runs of `task_life` and `task_people` also satisfy `ContractKept`; it is listed once.

Places where the code departs from what its own documents say have a configuration and properties
that TLC refutes, kept for whoever works on that code (`tlc -config <configuration> <module>`, with
`-continue` where a configuration has several):

| Configuration (module) | Property | Code | What happens | What it says |
|---|---|---|---|---|
| `TaskStoreRace` (`MCTaskStore`) | `TerminalIsFinal` | `events.py:185` | the edge is checked before the transaction: a transition read before a cancel overwrites the cancelled row | `events.py:81`: "terminal states are final" |
| `ExecutionLeaseStaleRelease` (`MCExecutionLease`) | `StaleReleaseMeansFenced` | `execution_lease.py:290` | release of an expired active lease is refused as stale and leaves it active | `core.py:2028`: "A watchdog/reconciler may already have fenced it." |
| `TaskRuntimeEarlyAnswer` | `AnsweredHasNoWorker` | `core.py:1598` | needs_human is committed before the teardown, so `answer` meets a live worker | `cli.py:175` |
| `TaskRuntimeInfraTimeout` | `InfraNotTriaged` | `core.py:911` | after `sdk_timeout` the watcher goes on to triage | `core.py:907`, `recovery.py:83` |
| | `ExitBlamesItsAttempt` | `core.py:1002` | and if the task was relaunched while it waited, the exit it records is that of the new attempt, which lives | `core.py:1931`: "a restart already replaced this attempt with a fresh one" |
| `TaskRuntimeSecondRetry` | `EquivalentFailureEscalates` | `core.py:1422` | the public recovery comes first and retries an equivalent failure | `README.md:214` |
| | `VerifyingWorkerReaped`, `ContractKept` | `core.py:1380` | with `wait` and a second retry (the default is two): the watcher of an attempt that was relaunched still queues for the triage lock; the next attempt stalls, claims to be done while the supervisor decides, and is told to wait; the old watcher gets the lock, triages a task whose work is being verified, as only its own cause is compared, and starts a third attempt, which the verdict of the second is then credited to: the task is delivered with a live worker, or from needs_human | `README.md:235`: "reaped before verification" |
| `TaskRuntimeWaitThenExit` | `Settles` | `core.py:1916` | the worker of a stalled task dies while the supervisor decides, and its exit is dropped; after `wait` the task runs without a process, and a restart at the next stall is torn down by the watchdog that asked for it | `README.md:72` |
| `TaskShutdownOrphan` (`TaskShutdown`) | `NoWorkerLeft` | `core.py:443`, `1953` | a watcher that relaunches after the drain has looked, or a cleanup that `asyncio.run` cancels, leaves a live worker | `core.py:1937`: "must not strand a live process" |
| `TaskShutdownCancelInSpawn` (`TaskShutdown`) | `DrainedAreReaped` | `core.py:663` | a cancel during a spawn makes the transition illegal after the process was started and before it is registered | `core.py:364` |
| `VerifyGateDepartures` (`MCVerifyGate`) | `CandidateIsPinned` | `evidence.py:457` | a worker that left nothing is judged by files another task has left in the slot | `core.py:862` |
| | `CheckoutsRemoved` | `evidence.py:509` | an artifact that cannot be read raises past the removal of the checkout | `gate.py:133` |
| | `PassNamesNoFailure` | `evidence.py:553` | a second run that succeeds passes with cause `tests_failed` | `gate.py:215` |
| | `NoChangeIsVerified` | `gate.py:184` | a claim that nothing was to do passes without a run of the command | `evidence.py:1` |
| `WorkerBridgeDepartures` (`WorkerBridge`) | `WireRefined` | `core.py:1570` | the second line of a nudge answers the next question | `supervisor/schema.py:47` |
| | `FailureIsOfStartup` | `cli_worker.py:443` | a failed result after work has begun is reported as `startup_failed` | `cli_worker.py:489` |
| | `ClaimEnds` | `cli_worker.py:486` | after a claim the bridge waits for its child, and the child for the end of its input | `cli_worker.py:479` |
| `TeamRunConflictPlan` (`TeamRun`) | `ConflictsApart` | `core.py:312` | the plan's groups are under "conflict_groups", the scheduler reads "conflicts" | `core.py:496` |
| `TeamRunConflictRetry` (`TeamRun`) | `ConflictsApart` | `core.py:1590` | a retry takes a slot without `_conflict_blocked` | `core.py:496` |
| `TeamRunCancelInPass` (`TeamRun`) | `DaemonKeepsRunning` | `core.py:205` | a cancel between look and write raises out of the main loop | `core.py:358` |
| `TeamRunLateAnswer` (`TeamRun`) | `BlockedIsHopeless` | `core.py:197` | dependents of a task that awaits a person are given up, then it is answered and delivered | `core.py:192` |
| `TeamRunLostSlot` (`TeamRun`) | `SlotsHaveOwners` | `core.py:663` | a cancel during a retry's spawn leaks the slot | `core.py:322` |
| `TeamRunSpawnFailure` (`TeamRun`) | `RunExits` | `core.py:629` | a retry that cannot be spawned stays in triage and keeps a finite run alive | `README.md:72` |
| `PreflightForward` (`MCPreflight`) | `NoTasksLeftBehind` | `harbor.py:135` | a task listed before its prerequisite compiles, and its insertion fails halfway | `harbor.py:123` |
| `RestartDepartures` (`Restart`) | `DeliveredIsVerified` | `reconcile.py:55` | a kill between a claim and the capture of its candidate: the base of the attempt is verified and its branch delivered | `README.md:230` |
| | `DecisionNotDiscarded` | `core.py:1431` | a saved decision is escalated as an interrupted call | `core.py:1383` |
| | `NeverCalledTwice` | `core.py:1444` | an interrupted call is made again after a second kill | `core.py:1428` |
| | `OneChildPerIntervention` | `core.py:1555` | the child left behind is not reused | `core.py:567` |
| | `RedeliveryIsIdempotent` | `core.py:1682` | a pull request is made twice and the refusal triaged | `core.py:381` |
| `RestartFallback` (`Restart`) | `RetryKeepsCandidate` | `core.py:581` | the retry of a stalled attempt starts from the base branch | `worktree_pool.py:89` |
| `RestartOrphan` (`Restart`) | `RunsToRest` | `reconcile.py:37` | a worker that outlived its scheduler is watched by nobody | `core.py:354` |
| `RestartTwoDrivers` (`Restart`) | `VerdictOnce` | `core.py:378` | an attempt relaunched at the start is verified twice | `core.py:376` |

`TaskStoreOneWriter` (`MCTaskStore`) is the instance of the two theorems about a single writer,
`LogIsAPath` and `TerminalIsFinal`, with two tasks; it passes. The module of a configuration
without one in the table is `TaskRuntime`.

`CHECK_DEADLOCK` is off in all runs but `gate`: logs and clocks are bounded, a settled task and a
process that has exited stop. In `gate` the slot is reused for ever, and nothing is said of an end.

Bounds. `TaskStore`: six events suffice for two interleaved calls on a task after it was
created and moved twice. `ExecutionLease`: a clock up to 3 with TTL 2 has a grant, its expiry
instant and an instant after, and four events hold a grant, its recovery and the next grant
with a renewal or a release in between; two owners, which are interchangeable (SYMMETRY), are enough
because a call concerns one attempt and the third caller recovers. The values of `TaskStore` are
interchangeable as well. `TaskRuntime`: `Attempt` is one more than the retry
budget and the answers allow, so that a launch too many would be seen; one retry makes an old
and a new attempt coexist in the registries, which is what the interleavings are about. In
`task_people` it is the answer that makes them coexist, and there is no retry.
`TeamRun`: two tasks and a third that is added have every shape in which blocking must travel through
a task that is itself blocked (the third waits for the second, which waits for the first) and every way
for a graph to grow under the startup check; two slots and three tasks make one wait, and the pool is
checked against first launches and retries together. `team_daemon` has no retries, because a cancel during a retry
leaks the only slot (`TeamRunLostSlot`), after which no added task is taken up. `Restart`: one
retry, and one attempt for each kill besides, so that a launch too many would be seen; the
second kill falls into the recovery of the first. `Preflight`: three tasks with an unknown name
and four without are all the ways in which references, ties and depths can meet. `TaskShutdown`: a
worker that fails to start or crashes, one retry and one slot put every coroutine at every await
while the run ends. `VerifyGate`: a request has no bound but the length of its targeted commands,
of which two have a first, a last and one that is not reached. `WorkerBridge`: two questions, so
that a reply can be taken for that of another; a reply is one line (`ReplyLines`), because two break
the protocol.

What does not hold, and is therefore not asserted: with two slots an early answer breaks
`OneLiveWorker`, `RestIsClean` and `VerifyingWorkerReaped` as well (the old cleanup gives back
the new attempt's slot and lease), and with one slot it does together with the recovery
policies: a watcher that waits for the triage lock since before the answer triages the attempt
that the answer launched, while another watcher verifies it. `task_people` therefore has the
recovery policies off. With `Waits`, a failing nudge, or a spawn failure inside a watcher,
`Settles` fails, because the exception ends the coroutine and nobody else looks at a task in
triage. `task_life` therefore has no nudge, wait or spawn failure, and `TaskRuntimeWaitThenExit` is
what a `wait` adds. `task_shutdown` has no cancel, for the reason in the table.

Fairness (`LiveSpec`). asyncio runs every coroutine that can move; a killed process dies; the
supervisor and the verifier return, since both have time-outs; hence weak fairness of the
coroutines and of the cleanup. Workers and people are not fair. The watchdog's wall-clock
check gets strong fairness: `running` may be left and entered again between two sweeps, but a
sweep looks at the wall clock before it looks at the silence, so an attempt older than
`worker_timeout_s` is timed out at the first sweep that finds it running.

`TaskShutdown!LiveSpecS` adds that the main coroutine and `asyncio.run` go on; an interruption is not
fair. `WorkerBridge!LiveSpec`: a bridge runs, and the time-outs of the SDK steps fire (`sdk_timeout_s`
bounds the connection, each turn and the disconnection); nothing is asked of the agent or the
scheduler, so `TurnsEnd` is about a `cli_worker.py` whose child has exited.

`TeamRun!LiveSpec`: the main loop is weakly fair. A task's coroutine gets strong fairness,
because the loop's queue is first in first out and its steps are enabled only while the main
loop is between steps of its own. That a
launched task comes to a result is the result of `TaskRuntime`. `Restart!LiveSpec`: a killed
process is started again, coroutines are weakly fair, workers end (they have a wall-clock limit)
and leases that nobody renews lapse; kills are not fair and are bounded.

## 4. Proofs

`TaskStoreProofs` proves for any tasks, processes, columns and values, from `StoreAssumption`
only: `TypeOK`; `ReplayMatchesTable`, through the inductive invariant that every row holds, in
each field, what the last event writing that field carries; `QuietTerminalIsFinal`; and, with
a single writing process, `TerminalIsFinal` and `LogIsAPath`, through the invariant that the
state a call has read is still the row's state. That last invariant is exactly what a second
process breaks, and `TaskStoreRace` is its counterexample. The loop of `replay` itself,
`LoopReplayMatchesTable`, is a fold over the log: what `FoldLeft` computes with is a function on the
sets of positions, so its proof first shows that there is one for every length of the log
(`UnwindsExist`), that two logs with a common beginning agree on it (`UnwindsAlike`), and hence that
an appended event is folded in last (`RebuildAppend`); after that the property is its own inductive
invariant.

`ExecutionLeaseProofs` proves for any attempts, owners, watchdogs and TTL, from
`LeaseAssumption`: `TypeOK`, `TokensUnique`, `ActiveIsNewest`, `FencedStaysFenced`,
`LiveLeaseNotStolen`, `ExpiryNeverShrinks` and `AcceptedIsCurrent`. The inductive invariant adds to the first three
that an attempt's generations have a maximum (so `NextGen` is new), that a call names a row of
its caller, and that no row or call carries a time later than the clock. `ExpiryNeverShrinks`
needs the last part: a renewal decided late is harmless because the row it finds was renewed
by the same owner, which has one call at a time. The loop of `replay_leases` is done as that of
`replay`; that the rows it rewrites are the one row that the call wrote is what `TokensUnique` is for,
and that a grant fences one row is `ActiveIsNewest` (`OneActive`).

`TeamRunProofs` proves for any number of tasks, slots, conflict groups and interventions, from
`TeamAssumption`: `TypeOK`, `GateHolds` (no task leaves `blocked` before its prerequisites are
delivered), `WithinCapacity` and `OnlyLegalMoves`. Every action moves rows along edges of
`TaskStates` only (`EveryStepRows`), and `delivered` has no outgoing edge (`Stable`): so a
prerequisite that a pass has found delivered is still delivered when the pass writes, however
many commits fall in between. That is the part of the inductive invariant which connects the
look and the write: the rows a pass still has to do exist, the row being written was looked at
and found ready, and the retry that is under way was affordable. The capacity needs no such
notes: a slot is taken by a first launch under the limit and by a retry when one is free, each
in one step.

`BlockedForCause` needs to follow causes through tasks that are themselves blocked, along any path.
Its invariant (`CauseInv`) says that each blocked row reaches a cause of its own kind (`Rooted`), that
a row which a pass is about to block has such a prerequisite already (`Condemned`), and that what a
cause says of a final state is the state (`Truthful`, by `Stable` again).
`AdmitsExactlyDags` is about Kahn's algorithm, for every number of tasks and every graph. Its rounds
are a recursive function, shown to exist by least counterexample; they grow until two are equal,
which happens within `N` rounds because each adds a task (`RoundsSettle`); and a task of a graph
without cycle is reached because a task left out with a smallest set of prerequisites, direct and
indirect, would have all of them inside (`SoundIsVisited`). In the other direction, the
round that first visits a task finds all that the task waits for, directly or not, among those visited
before, hence not the task itself (`VisitedIsSound`). The check reads twice, so the rounds are about the
tasks of the first read with the edges of the second: an edge that leads out of them shows a prerequisite
that does not exist or a task that was added in between (`UnknownIsMissingOrLate`); if there is none,
what was added in between has no edges. `AdmitInv` carries the verdict through the
run: a task added later closes no cycle (`AddKeepsSound`), and a run that was let go is not `refused` any
more, whatever ends it; the failures of the main loop are no verdict on the graph.

`TaskRuntimeProofs` is about one process that interleaves in full, for any retry budget, number of
slots, other tasks, cancels and kinds of worker behaviour, from `RuntimeAssumption` (`TypeOK` needs
no more) and, from there on, while nobody has answered the task (`Unanswered`): an answer that
comes before the cleanup of the escalation is over makes two workers run at once where there is
more than one slot, as `TaskRuntimeEarlyAnswer` begins to show. The proof has five stages.

1. *Kinds.* The actions are of some twenty kinds, each a list of what such a step changes and
   leaves alone; the types hold along the way. Later stages see the kinds and no action.
2. *Safe.* Most kinds move one coroutine and touch nothing else that matters (`Mover`), so each part
   of the invariant is kept by that and by a launch, a registration and the two steps of a cleanup. Its parts
   say who may be in triage (`TriageLocked`: the holder of the lock, and no worker lives once it
   launches, `StartsClean`), what a cleanup in flight will do (`CleanupKnown`), whose process may live
   (`LiveKnown`, `OneLive`), which watcher still follows its stream (`ReadersRegistered`), and where the slots of the
   pool are (`PoolAdds`). `OneLiveWorker`, `RestIsClean` and `ExitBlamesItsAttempt` follow, the last
   if no worker writes `sdk_timeout`.
3. *Sound.* That a verification is left in peace is a matter of order: a stall, a time-out or an exit that
   was reported first must be triaged before the claim of the worker is acted on. asyncio's queue is first
   in, first out, which is what `late` records, and `Patient`, `TriageFirst` and `CleanupFirst` say
   what it amounts to: who came to the free lock is not behind who will be reaped. With that,
   nobody queues for triage while an attempt is verified but a watcher that a cleanup is about to cancel
   (`Alone`), only the current attempt is verified and delivered, in the state that says so (`Verifying`),
   and nothing follows the hand-off (`ShippedLast`). `VerifyingWorkerReaped` is one part of it.
4. *The contract.* Each step is then one of `TaskContract` or leaves its row alone
   (`RuntimeKeepsContract`), and the promise of the contract follows (`RuntimeKeepsPromise`).
5. *The end of a run.* `DrainReaps` is about `TaskShutdown`: the worker that lived when the main
   loop began to drain is gone when the pool is removed. Until the drain, the steps that
   end a run only cancel coroutines, make them unwind and give a lease up (`Breaks`), so `Safe` still
   holds, and an attempt newer than the row's has had no worker (`Unspawned`). When the drain
   looks, `Safe` says that the one worker that may live is registered or is being reaped. It awaits
   that cleanup or starts one; from then on everyone who lived is gone, or the cleanup in flight will
   kill the last one and nobody launches before it is over (`Going`). `Safe` itself does not survive the
   drain, as a watcher may relaunch during it, which is why the invariant (`Ending`) changes there. The
   theorem assumes that nobody answers or cancels the task: with a cancel during a spawn,
   `TaskShutdownCancelInSpawn` refutes it.

The third and the fourth stage, and no other, assume `WaitAssumption`: a supervisor that may wait has at
most one retry to spend. That is a limit of the code and not of the proof: with two retries, which is the
default, `TaskRuntimeSecondRetry` refutes both properties. Without `wait` they hold for any budget.

The promise of `TaskContract` (retries within `MaxRetries`, a delivered task was handed off, what was
handed off has passed, and is one attempt unless a kill may repeat it) has the invariant `Coherent`. It
is nearly the promise: it adds the types and, where no hand-off is repeated, that only the current
attempt has been handed off and that its row is then in delivery, delivered or cancelled, from where no
new attempt starts. It is kept by every step of the contract, so both implementations inherit it.

`VerifyGateProofs` proves `TypeOK`, `GatesAgree` and `PassIsEarned` for any set of requests (any
number of targeted commands, any reuse of the slot). The inductive invariant has a part for
each gate that says what its position implies: what the earlier steps must have seen of the request,
which runs were made and where, and that the ladder's report has a failure exactly when there is a
decisive stage. The gates share nothing but the request, so each part speaks of one gate (the
ladder's adds only that it starts when the other has ended); the agreement follows from both at
the end, where `gate.py`'s verdict is a function of the request (`WillPass`). `ReportIsLadder` has an
invariant of its own, `ReportInv`: while the ladder climbs, the stages reported are those below its
position, and it has seen a failure exactly when the report has one.

`WorkerBridgeProofs` proves that both bridges implement `WorkerWire`, for any number of questions,
when a reply is one line (`OneLine`). The inductive invariant says that between questions nothing
lies unread in the pipe and no reply is owed, that an open question has either one line to read or a
reply owed and never both, and that a bridge that waits for one has started its session; each
action is then matched with the step of the conversation it is.

`RestartProofs` proves that `Restart` implements `TaskContract` (`ContractKept`, and with it the
promise, and that terminal states stay) for any retry
budget, any number of kills and attempts, workers that outlive their scheduler or not, from
`AloneAtBoot`: no other task delays the start of a process (with one that does, two coroutines can
drive the task, as `RestartTwoDrivers` shows). The contract alone is not inductive: a step is
legal because of what the coroutine has seen on earlier steps, and because nobody else has
written since. So the invariant says where the main coroutine is while a watcher is active
(`OneDriver`), what a coroutine relies on at each of its places (`Relies`: a launch is
affordable and newer than the row's attempt, a verified attempt has its verdict in the log, a
handed-off one has left), and what rows and log say of each other (`RowsAndLog`). Each action keeps it
in three moves: the shape of what it writes, `DriverStep` for the coroutine that acted, and
`FactsKept` for the records; then the action is matched with the step of the contract it is.

On that invariant `RestartProofs` also builds what is on record after any number of kills, from the
same assumption. `RestartVerdictOnce` and `RestartClaimSurvives` need to know, where a
coroutine is about to judge or to declare a worker gone, that nothing is on record yet of
the attempt (`Records`): a watcher knows because it is the only one that records, a process that starts
because it has looked. `RestartSpawnsAccounted` is a sum: each worker in the log is the first, a retry
that the row has counted, a kill, or one that was spawned and whose row is about to be written
(`Budget`); a kill turns the last into the one before. `RestartOneCallPerCause` follows each call
from its reservation (`Calls`): it is open, answered or closed as interrupted, and the policy
asks only when none is open and the cause has no answer.

`PreflightProofs` proves what the preflight promises, for any number of tasks and any workflows. One
invariant (`CompileInv`) says of each stage what it leaves to the next: what has been read is well
formed; each task was `Placed` when its prerequisites were all there and no such task had a lesser
name; a measured task is one deeper than its deepest prerequisite, which is its parent; the path ends
in a deepest task and goes down by prerequisites; what has been inserted are the first rows of the
declaration; and what is rejected is not sound. `Upstream`, the transitive closure in the properties,
is reached from both sides: a set that is closed under prerequisites contains it (`UpstreamWithin`: the
tasks before a position, the tasks of lesser depth), and tasks of which each waits for another cannot all
be sound (`NoSoundCircle`: take one with a smallest `Upstream`), which is what is left when no task is
ready. A chain is then no longer than the path because depths tell its members apart. For the
groups, `GroupInv` says that the parent links are a forest, that links do not change roots, that no
group can be split without cutting a conflict, and that the pairs of positions seen so far share a
root if they conflict. `find()` as N steps reaches a root because a longer walk would meet a task
twice (`WalkEndsAtRoot`), and linking two roots moves the tasks below one of them and no others
(`LinkMovesRoots`). TLC finds both to hold of every state of the instance of `preflight`.

Induction goes through minimal elements here. The library's induction theorems take an operator as a
parameter, which the provers cannot instantiate, but that a well-founded relation has minimal elements
(`WFMin`) is a statement about sets: `LeastNat` gives the least number that has no such function, round
or agreement, and `FS_StrictSubsetOrderingWellFounded` the smallest set.

Only model-checked: what `TaskRuntime` does after an answer (`OneLiveWorker`, `RestIsClean`,
`VerifyingWorkerReaped` in `task_people`), the bounds in `TypeOK` of
`Restart` (what kind each value is, `Shape`, is proved; `RestartCrashes.cfg` passes with `TypeOK` as its
invariant), and all liveness, which is beyond the prover.

## 5. Plan

Done: the store, the leases, the runtime of a task and the end of its run, the run of a team, the
restart, the contract of a task and its two implementations, the verification gates, the worker
bridges, the preflight, and the proofs listed above. Left, in this order:

1. `TaskRuntime` with answers: what an answer that comes after the cleanup preserves.
2. Several tasks in one process: the serial watchdog with its snapshot, and the checkpoints of several
   tasks that compete for slots before the watchdog runs.

## 6. Not modelled

Git and file contents, the text of packets and events, model calls, the SDK and the agent inside it,
metrics and benchmark drivers (`experiment.py`, `metrics.py`, `harbor_*.py`): they do not take part in
the ordering questions above, and where the scheduler waits for one of them its outcome is a choice.
`recovery.py`'s table of classes is used only through the decisions the scheduler takes from it.
Policies and configuration choose the constants of a run. Fake workers and fake supervisors are
scripts for tests.
