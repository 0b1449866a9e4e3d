------------------------------ MODULE TaskRuntime ------------------------------
(***************************************************************************)
(* One task inside one scheduler process (scheduler/core.py), with the      *)
(* worker processes it spawns and the `dagent answer` / `dagent cancel`     *)
(* commands that write the same database.                                   *)
(*                                                                          *)
(* The scheduler is an asyncio program.  The coroutines that touch a task   *)
(* are the main loop (Main), the watchdog (Dog), one watcher per attempt    *)
(* (the attempt's number) and the cleanup task of _teardown.  A coroutine   *)
(* keeps the event loop until it awaits: `cpu` names the one that is between*)
(* two steps of such a stretch, and no other coroutine moves then.  Worker  *)
(* processes and the command line are other processes and move at any time. *)
(* A coroutine that awaits is at one of the places of Waiting; its `then`   *)
(* is what it does once the cleanup it awaits is over.                      *)
(***************************************************************************)
EXTENDS Integers, FiniteSets, TaskStates

CONSTANTS
  MaxRetries,        \* tasks.max_retries
  MaxNudges,         \* max_nudges
  Slots,             \* max_concurrency, the size of the worktree pool
  CrashRecovery,     \* deterministic_crash_recovery
  ProtocolRecovery,  \* protocol_recovery_v2
  PublicRecovery,    \* deterministic_recovery
  Yolo,              \* the supervisor may abandon
  Lines,             \* the kinds of line a worker may write
  Exits,             \* how a worker may end by itself
  Waits,             \* the supervisor may answer a stall with `wait`
  Lapses,            \* a lease may run out while its worker lives
  SpawnMayFail,      \* spawn_worker may raise
  OtherTasks,        \* tasks beside this one that may hold a slot, a bound
  MaxAnswers,        \* `dagent answer` calls, a bound
  MaxCancels         \* `dagent cancel` calls, a bound

ASSUME RuntimeAssumption ==
  /\ MaxRetries \in Nat /\ MaxNudges \in Nat
  /\ Slots \in Nat \ {0}
  /\ MaxAnswers \in Nat /\ MaxCancels \in Nat /\ OtherTasks \in Nat
  /\ {CrashRecovery, ProtocolRecovery, PublicRecovery, Yolo, Waits, Lapses,
      SpawnMayFail} \subseteq BOOLEAN
  /\ Lines \subseteq {"log", "done", "asked", "unclaimed", "startup_failed", "sdk_timeout"}
  /\ Exits \subseteq {"exited", "crashed"}

VARIABLES
  task,      \* the task's row and the facts of its log that later steps read
  att,       \* the attempts: lease row, recorded signals, verdict, process, pipe
  mem,       \* the scheduler's registries, keyed by task in the code
  co,        \* the coroutines
  lock,      \* holder of _triage_locks[task], 0 when free
  td,        \* the cleanup in _teardown_tasks[task]
  cpu,       \* the coroutine that holds the event loop, 0 when all await
  late,      \* those that must let a coroutine that is ready go first
  infra,     \* _infrastructure_failure is set, or a failed cleanup is recorded
  run,       \* "on", or "failed" once run_until_settled raises
  cli        \* the commands issued so far

vars == <<task, att, mem, co, lock, td, cpu, late, infra, run, cli>>

\* One more attempt than the retry budget and the answers account for, so
\* that a launch beyond the budget is representable.
Attempt == 1..(MaxRetries + MaxAnswers + 2)

Main == -1
Dog == -2
Coroutine == Attempt \cup {Main, Dog}

\* The places where a coroutine is suspended until something else happens.
Waiting == {"off", "dead", "idle", "read", "reap", "eof", "verify",
            "supervise", "teardown", "slot", "spawn", "join"}

\* How triage was entered: the event of cause_seq.
Trigger == {"none", "protocol", "asked", "stalled", "timeout", "exited",
            "crashed", "verify.failed", "verify.repeated", "artifact.failed",
            "artifact.repeated", "delivery.failed"}

SETTLED == {"needs_human", "delivered", "failed", "cancelled",
            "dependency_blocked"}

\* A coroutine: where it is, what follows the cleanup it awaits, the trigger
\* it handles, the attempt it captured before it awaited (the one that is
\* verified, the one that stalled), the attempt it launches, and the number of
\* retries its launch will record.
Resting(p) ==
  [pc |-> p, then |-> "none", trig |-> "none", arg |-> 0, new |-> 0, paid |-> 0]

NoTeardown == [phase |-> "none", expect |-> 0, owner |-> 0, proc |-> 0]

Init ==
  /\ task = [state |-> "queued", retries |-> 0, cur |-> 0, made |-> 0,
             nudges |-> 0, open |-> FALSE, repaired |-> FALSE]
  /\ att = [a \in Attempt |->
              [lease |-> "none", signalled |-> FALSE, verdict |-> "none",
               proc |-> "none", out |-> "none"]]
  /\ mem = [reg |-> 0, seen |-> FALSE, grace |-> FALSE, held |-> 0,
            slot |-> 0, wt |-> 0, free |-> Slots, others |-> 0]
  /\ co = [c \in Coroutine |-> Resting(IF c \in Attempt THEN "off" ELSE "idle")]
  /\ lock = 0
  /\ td = NoTeardown
  /\ cpu = 0 /\ late = {}
  /\ infra = FALSE
  /\ run = "on"
  /\ cli = [answers |-> 0, cancels |-> 0]

-----------------------------------------------------------------------------
(* Control: how coroutines take and give up the event loop.                 *)

\* The event loop's queue holds d: it has something to do, or the lock it
\* waits for is free.
Ready(d) == co[d].pc \notin Waiting /\ (co[d].pc = "lock" => lock = 0)

\* Coroutine c, which is at p, runs: it holds the event loop or nobody does.
At(c, p) ==
  /\ run = "on" /\ co[c].pc = p
  /\ cpu = c \/ (cpu = 0 /\ c \notin late)

\* The event loop's queue is first in, first out: what c (0: the cleanup)
\* waits for is over only after all that is ready when c gives up the loop.
QueuedBehind(c) ==
  LET queued == {d \in Coroutine \ {c} : Ready(d)}
  IN late' = IF (c # 0 /\ td.phase = "start") \/ queued \ late # {} THEN late \cup {c}
             ELSE IF queued # {} THEN {c} ELSE {}

\* c goes on to p, and keeps the event loop unless it has to wait there.
Continue(c, me, p) ==
  /\ co' = [co EXCEPT ![c] = [me EXCEPT !.pc = p]]
  /\ IF p \in Waiting \/ (p = "lock" /\ lock # 0)
     THEN cpu' = 0 /\ QueuedBehind(c)
     ELSE cpu' = c /\ UNCHANGED late

Goto(c, p) == Continue(c, co[c], p)

\* Mutant: leaving triage keeps the lock.
UnlockNever(c) == lock' = lock

Unlock(c) == lock' = IF lock = c THEN 0 ELSE lock

\* _teardown: a no-op when another attempt than the expected one (0: none
\* expected) is registered; otherwise c awaits the cleanup, starting it if
\* none is in flight.
CallTeardown(c, me, expect, next) ==
  IF expect # 0 /\ mem.reg # expect
  THEN Continue(c, me, next) /\ UNCHANGED td
  ELSE /\ Continue(c, [me EXCEPT !.then = next], "teardown")
       /\ td' = IF td.phase # "none" THEN td
                ELSE [phase |-> "start", expect |-> expect, owner |-> c, proc |-> 0]

\* transition() from the state the row has now; ValueError when illegal.
Moves(to) == Legal(task.state, to)

-----------------------------------------------------------------------------
(* Launching an attempt: _launch. *)

\* The synchronous part: the attempt and its lease are created, and a slot is
\* taken when the pool has one.
StartLaunch(c) ==
  LET new == task.made + 1
      now == mem.free > 0
  IN /\ new \in Attempt
     /\ task' = [task EXCEPT !.made = new]
     /\ att' = [att EXCEPT ![new].lease = "active"]
     /\ mem' = [mem EXCEPT !.held = new,
                           !.slot = IF now THEN new ELSE @,
                           !.free = IF now THEN @ - 1 ELSE @]
     /\ Continue(c, [co[c] EXCEPT !.new = new], IF now THEN "spawn" ELSE "slot")

\* _launch_ready: the main loop launches a queued task when fewer slots than
\* the limit are occupied.
MainLaunch ==
  /\ At(Main, "idle") /\ ~infra
  /\ task.state = "queued"
  /\ (IF mem.slot = 0 THEN 0 ELSE 1) + mem.others < Slots
  /\ StartLaunch(Main)
  /\ UNCHANGED <<lock, td, infra, run, cli>>

Relaunch(c) ==
  /\ c # Main /\ At(c, "launch")
  /\ StartLaunch(c)
  /\ UNCHANGED <<lock, td, infra, run, cli>>

GetSlot(c) ==
  /\ At(c, "slot") /\ mem.free > 0
  /\ mem' = [mem EXCEPT !.free = @ - 1, !.slot = co[c].new]
  /\ Goto(c, "spawn")
  /\ UNCHANGED <<task, att, lock, td, infra, run, cli>>

\* The worker has started: the task is running and the attempt registered,
\* unless the task left the states it may be launched from meanwhile.  A
\* relaunch records the retries that were counted when it was decided.
Spawned(c) ==
  LET n == co[c].new IN
  /\ At(c, "spawn")
  /\ att' = [att EXCEPT ![n].proc = "live"]
  /\ IF Moves("running")
     THEN LET me == [co[c] EXCEPT !.new = 0,
                                  !.pc = IF c = Main THEN "idle" ELSE "return"]
          IN /\ task' = [task EXCEPT !.state = "running", !.cur = n,
                                     !.retries = IF c = Main THEN @ ELSE co[c].paid]
             /\ mem' = [mem EXCEPT !.reg = n, !.wt = n, !.seen = TRUE]
             /\ co' = [co EXCEPT ![c] = me, ![n] = Resting("read")]
             /\ IF c = Main THEN cpu' = 0 /\ QueuedBehind(c)
                ELSE cpu' = c /\ UNCHANGED late
     ELSE Goto(c, "raise") /\ UNCHANGED <<task, mem>>
  /\ UNCHANGED <<lock, td, infra, run, cli>>

\* spawn_worker raised: the lease is fenced and forgotten, the slot is not.
SpawnFails(c) ==
  /\ SpawnMayFail /\ At(c, "spawn")
  /\ att' = [att EXCEPT ![co[c].new].lease = "recovered"]
  /\ mem' = [mem EXCEPT !.held = 0]
  /\ Goto(c, "raise")
  /\ UNCHANGED <<task, lock, td, infra, run, cli>>

-----------------------------------------------------------------------------
(* An attempt's watcher: _watch. *)

\* _validate_worker_lease: the watcher's lease is the registered one, the
\* latest attempt's, and neither fenced nor expired.
LeaseIsCurrent(n) ==
  mem.held = n /\ task.made = n /\ att[n].lease = "active"

Reads(n, kind) == At(n, "read") /\ att[n].out = kind

\* A line of a fenced attempt ends the watcher's loop and changes nothing.
ReadFenced(n) ==
  /\ At(n, "read") /\ att[n].out # "none" /\ ~LeaseIsCurrent(n)
  /\ att' = [att EXCEPT ![n].out = "none"]
  /\ Goto(n, "eof")
  /\ UNCHANGED <<task, mem, lock, td, infra, run, cli>>

\* An accepted line starts a new silence window.
Accept(n) ==
  /\ LeaseIsCurrent(n)
  /\ att' = [att EXCEPT ![n].out = "none"]
  /\ mem' = [mem EXCEPT !.seen = TRUE]

ReadLog(n) ==
  /\ Reads(n, "log") \/ Reads(n, "unclaimed")
  /\ Accept(n)
  /\ Continue(n, [co[n] EXCEPT !.trig = IF att[n].out = "unclaimed"
                                        THEN "protocol" ELSE @], "read")
  /\ UNCHANGED <<task, lock, td, infra, run, cli>>

\* done_claimed / no_change: the process is reaped before anything else.
ReadDone(n) ==
  /\ Reads(n, "done") /\ Accept(n)
  /\ Goto(n, "reap")
  /\ UNCHANGED <<task, lock, td, infra, run, cli>>

\* Mutant: the done claim is taken as proof that the process is gone.
ReapedDoneAlive(n) ==
  /\ At(n, "reap")
  /\ IF Moves("verifying")
     THEN /\ task' = [task EXCEPT !.state = "verifying"]
          /\ CallTeardown(n, co[n], n, "begin")
     ELSE Goto(n, "raise") /\ UNCHANGED <<task, td>>
  /\ UNCHANGED <<att, mem, lock, infra, run, cli>>

Kill(n) == [att EXCEPT ![n].proc = IF @ = "live" THEN "killed" ELSE @]

\* Reaped: the task enters verification and its slot is given back.
ReapedDone(n) ==
  /\ At(n, "reap")
  /\ att' = Kill(n)
  /\ IF Moves("verifying")
     THEN /\ task' = [task EXCEPT !.state = "verifying"]
          /\ CallTeardown(n, co[n], n, "begin")
     ELSE Goto(n, "raise") /\ UNCHANGED <<task, td>>
  /\ UNCHANGED <<mem, lock, infra, run, cli>>

ReadAsked(n) ==
  /\ Reads(n, "asked") /\ Accept(n)
  /\ Continue(n, [co[n] EXCEPT !.trig = "asked"], "lock")
  /\ UNCHANGED <<task, lock, td, infra, run, cli>>

\* startup_failed, sdk_failed: an infrastructure failure ends the run.  The
\* sdk_timeout branch does not set claimed_or_triaged, so its watcher goes on
\* as if the stream had just ended.
ReadInfra(n) ==
  /\ Reads(n, "startup_failed") \/ Reads(n, "sdk_timeout")
  /\ LeaseIsCurrent(n)
  /\ att' = [att EXCEPT ![n].out = "none", ![n].verdict = "infra"]
  /\ mem' = [mem EXCEPT !.seen = TRUE]
  /\ infra' = TRUE
  /\ CallTeardown(n, co[n], n, IF att[n].out = "sdk_timeout" THEN "eof" ELSE "return")
  /\ UNCHANGED <<task, lock, run, cli>>

EndOfStream(n) ==
  /\ At(n, "read") /\ att[n].out = "none" /\ att[n].proc # "live"
  /\ Goto(n, "eof")
  /\ UNCHANGED <<task, att, mem, lock, td, infra, run, cli>>

\* How the end of an attempt that claimed nothing is read.
ExitKind(n) ==
  IF co[n].trig = "protocol" /\ att[n].proc = "exited" THEN "protocol"
  ELSE IF att[n].proc = "exited" THEN "exited" ELSE "crashed"

\* proc.wait() returned.  _mark_running_failure records the exit against the
\* running task's current attempt, once per attempt and only while the task
\* runs; then the slot is given back and triage begins.
MarkExit(n) ==
  LET kind == ExitKind(n)
      marks == /\ task.state = "running"
               /\ kind = "protocol" \/ ~att[task.cur].signalled
  IN /\ At(n, "eof") /\ att[n].proc # "live"
     /\ IF marks
        THEN /\ att' = IF kind = "protocol" THEN att
                       ELSE [att EXCEPT ![task.cur].signalled = TRUE]
             /\ CallTeardown(n, [co[n] EXCEPT !.trig = kind], n, "lock")
        ELSE Goto(n, "return") /\ UNCHANGED <<att, td>>
     /\ UNCHANGED <<task, mem, lock, infra, run, cli>>

-----------------------------------------------------------------------------
(* Verification and delivery, run by the watcher of the attempt: _run_verify *)
(* awaits a thread, _deliver runs to its end without awaiting.              *)

\* An ancestor failed the same way: a new failure may be equivalent to it.
HasAncestor(verdict) == \E a \in Attempt : a < task.cur /\ att[a].verdict = verdict

\* The row is read: the attempt that is the current one now is verified, in a
\* thread, and whatever the row says then, the verdict is recorded for it.
VerifyBegins(n) ==
  /\ At(n, "begin")
  /\ Continue(n, [co[n] EXCEPT !.arg = task.cur], "verify")
  /\ UNCHANGED <<task, att, mem, lock, td, infra, run, cli>>

VerifyPasses(n) ==
  /\ At(n, "verify")
  /\ att' = [att EXCEPT ![co[n].arg].verdict = "passed"]
  /\ IF Moves("delivering")
     THEN task' = [task EXCEPT !.state = "delivering"] /\ Goto(n, "deliver")
     ELSE Goto(n, "raise") /\ UNCHANGED task
  /\ UNCHANGED <<mem, lock, td, infra, run, cli>>

VerifyFails(n) ==
  /\ At(n, "verify")
  /\ att' = [att EXCEPT ![co[n].arg].verdict = "failed"]
  /\ \E kind \in {"verify.failed", "verify.repeated"} :
       /\ kind = "verify.repeated" => HasAncestor("failed")
       /\ Continue(n, [co[n] EXCEPT !.trig = kind], "lock")
  /\ UNCHANGED <<task, mem, lock, td, infra, run, cli>>

\* Mutant: a failure after the hand-off is treated as a failed delivery.
DeliverFailsLate(n) ==
  /\ At(n, "deliver")
  /\ att' = [att EXCEPT ![task.cur].verdict = "shipped"]
  /\ Continue(n, [co[n] EXCEPT !.trig = "delivery.failed"], "lock")
  /\ UNCHANGED <<task, mem, lock, td, infra, run, cli>>

\* The declared artifacts are not there, or the hand-off fails.
DeliverFails(n) ==
  /\ At(n, "deliver")
  /\ \E kind \in {"artifact.failed", "artifact.repeated", "delivery.failed"} :
       /\ kind = "artifact.repeated" => HasAncestor("unfit")
       /\ att' = IF kind = "delivery.failed" THEN att
                 ELSE [att EXCEPT ![task.cur].verdict = "unfit"]
       /\ Continue(n, [co[n] EXCEPT !.trig = kind], "lock")
  /\ UNCHANGED <<task, mem, lock, td, infra, run, cli>>

\* The hand-off is done before the state change, which a cancel may forbid.
Deliver(n) ==
  /\ At(n, "deliver")
  /\ att' = [att EXCEPT ![task.cur].verdict = "shipped"]
  /\ IF Moves("delivered")
     THEN task' = [task EXCEPT !.state = "delivered"] /\ Goto(n, "return")
     ELSE Goto(n, "raise") /\ UNCHANGED task
  /\ UNCHANGED <<mem, lock, td, infra, run, cli>>

-----------------------------------------------------------------------------
(* Triage: _handle_triage, under the task's lock.                           *)

\* A settled task needs no triage; a task already in triage stays there.
TriageEnters(c) ==
  /\ At(c, "lock") /\ lock = 0
  /\ IF task.state \in SETTLED THEN Goto(c, "return") /\ UNCHANGED <<task, lock>>
     ELSE IF task.state = "triage" \/ Moves("triage")
     THEN /\ task' = [task EXCEPT !.state = "triage"]
          /\ lock' = c
          /\ Goto(c, "policy")
     ELSE Goto(c, "raise") /\ UNCHANGED <<task, lock>>
  /\ UNCHANGED <<att, mem, td, infra, run, cli>>

BudgetLeft == task.retries < MaxRetries

\* The deterministic recoveries that relaunch without the supervisor.
Relaunches(trig) ==
  /\ BudgetLeft
  /\ \/ CrashRecovery /\ trig = "crashed"
     \/ ProtocolRecovery /\ trig = "protocol" /\ ~task.repaired
     \/ PublicRecovery /\ trig \in {"verify.failed", "verify.repeated",
                                "artifact.failed", "artifact.repeated"}

\* _apply_deterministic_policy: a repeated equivalent failure, or a failure
\* of a retry that leaves no budget, goes to a human without a model call.
Repeats(trig) ==
  \/ trig \in {"verify.repeated", "artifact.repeated"}
  \/ trig \in {"verify.failed", "artifact.failed"} /\ ~BudgetLeft /\ task.made > 1

\* A relaunch reads the row, cleans up and launches: what it will have cost is
\* counted before the cleanup and the wait for a slot.
CallRelaunch(c) == CallTeardown(c, [co[c] EXCEPT !.paid = task.retries + 1], 0, "launch")

PolicyRelaunches(c) ==
  /\ At(c, "policy") /\ Relaunches(co[c].trig)
  /\ task' = [task EXCEPT !.repaired = @ \/ co[c].trig = "protocol"]
  /\ CallRelaunch(c)
  /\ UNCHANGED <<att, mem, lock, infra, run, cli>>

\* The state moves first and the cleanup follows, on every way out of triage.
Settle(c, to) ==
  IF Moves(to)
  THEN task' = [task EXCEPT !.state = to, !.open = FALSE] /\ CallTeardown(c, co[c], 0, "return")
  ELSE task' = [task EXCEPT !.open = FALSE] /\ Goto(c, "raise") /\ UNCHANGED td

PolicyEscalates(c) ==
  /\ At(c, "policy") /\ ~Relaunches(co[c].trig)
  /\ Repeats(co[c].trig)
  /\ IF Moves("needs_human")
     THEN /\ task' = [task EXCEPT !.state = "needs_human"]
          /\ CallTeardown(c, co[c], 0, "return")
     ELSE Goto(c, "raise") /\ UNCHANGED <<task, td>>
  /\ UNCHANGED <<att, mem, lock, infra, run, cli>>

\* A supervisor call that never recorded its decision is not made again.
UnfinishedEscalates(c) ==
  /\ At(c, "policy") /\ ~Relaunches(co[c].trig) /\ ~Repeats(co[c].trig)
  /\ task.open
  /\ Settle(c, "needs_human")
  /\ UNCHANGED <<att, mem, lock, infra, run, cli>>

InvokeSupervisor(c) ==
  /\ At(c, "policy") /\ ~Relaunches(co[c].trig) /\ ~Repeats(co[c].trig)
  /\ ~task.open
  /\ task' = [task EXCEPT !.open = TRUE]
  /\ Goto(c, "supervise")
  /\ UNCHANGED <<att, mem, lock, td, infra, run, cli>>

\* A worker is there to be nudged or waited for.
LiveSession(c) == co[c].trig = "asked" \/ (co[c].trig = "stalled" /\ co[c].arg # 0)

\* Mutant: a worker that asks may be nudged again and again.
MenuIgnoresNudges(c) ==
  {"escalate"}
  \cup (IF BudgetLeft THEN {"restart"} ELSE {})
  \cup (IF co[c].trig = "asked" /\ BudgetLeft THEN {"nudge"} ELSE {})

\* compute_allowed_actions.  Anything else the supervisor says, or a failure
\* of the call, is turned into `escalate`, which is always on the menu.
Menu(c) ==
  (IF Yolo THEN {"escalate", "abandon"} ELSE {"escalate"})
  \cup (IF ~BudgetLeft THEN {}
        ELSE {"restart"}
             \cup (IF LiveSession(c) /\ co[c].trig = "stalled" /\ Waits THEN {"wait"} ELSE {})
             \cup (IF LiveSession(c) /\ co[c].trig = "asked" /\ task.nudges < MaxNudges
                   THEN {"nudge"} ELSE {}))

\* nudge, wait: the same session goes on, and its reader with it.
Resume(c) ==
  /\ IF Moves("running")
     THEN /\ task' = [task EXCEPT !.state = "running", !.open = FALSE,
                                  !.nudges = IF co[c].trig = "asked" THEN @ + 1 ELSE @]
          /\ Unlock(c)
          /\ Continue(c, Resting("x"), IF c = Dog THEN "idle" ELSE "read")
     ELSE /\ task' = [task EXCEPT !.open = FALSE]
          /\ Goto(c, "raise") /\ UNCHANGED lock
  /\ UNCHANGED td

\* The nudge is written to the worker's stdin, then the silence window
\* restarts.  Writing to a process that is gone may raise.
Nudge(c) ==
  \/ Resume(c) /\ mem' = [mem EXCEPT !.seen = (@ \/ Moves("running"))]
  \/ /\ att[c].proc # "live"
     /\ task' = [task EXCEPT !.open = FALSE]
     /\ Goto(c, "raise") /\ UNCHANGED <<mem, lock, td>>

SupervisorActs(c) ==
  /\ At(c, "supervise")
  /\ \E action \in Menu(c) :
       \/ action = "nudge" /\ Nudge(c)
       \/ /\ action = "wait" /\ Resume(c)
          /\ mem' = [mem EXCEPT !.grace = TRUE, !.seen = (@ \/ Moves("running"))]
       \/ /\ action = "restart"
          /\ task' = [task EXCEPT !.open = FALSE]
          /\ CallRelaunch(c) /\ UNCHANGED <<lock, mem>>
       \/ action = "escalate" /\ Settle(c, "needs_human") /\ UNCHANGED <<lock, mem>>
       \/ action = "abandon" /\ Settle(c, "failed") /\ UNCHANGED <<lock, mem>>
  /\ UNCHANGED <<att, infra, run, cli>>

\* Triage is over, or the stream is: a watcher cleans up after its attempt
\* and ends, the watchdog cleans up after the stall and goes back to sleep.
Return(c) ==
  /\ At(c, "return")
  /\ Unlock(c)
  /\ IF c \in Attempt THEN CallTeardown(c, Resting("x"), c, "off")
     ELSE IF co[c].trig = "stalled" THEN CallTeardown(c, Resting("x"), co[c].arg, "idle")
     ELSE Continue(c, Resting("x"), "idle") /\ UNCHANGED td
  /\ UNCHANGED <<task, att, mem, infra, run, cli>>

\* An exception (an illegal transition, a failed spawn, nudge or cleanup): a
\* watcher still cleans up after its attempt, the watchdog's loop ends, and
\* only the main loop reports it.
Raise(c) ==
  /\ At(c, "raise")
  /\ Unlock(c)
  /\ IF c \in Attempt THEN CallTeardown(c, Resting("x"), c, "off")
     ELSE Continue(c, Resting("x"), IF c = Dog THEN "dead" ELSE "stop") /\ UNCHANGED td
  /\ UNCHANGED <<task, att, mem, infra, run, cli>>

-----------------------------------------------------------------------------
(* The watchdog: _watchdog_loop.  How long a worker has been silent or alive *)
(* is left open: either limit may have been passed at any sweep.            *)

DogTimeout ==
  /\ At(Dog, "idle") /\ mem.seen /\ mem.reg # 0
  /\ task.state = "running"
  /\ mem' = [mem EXCEPT !.grace = FALSE]
  /\ CallTeardown(Dog, [co[Dog] EXCEPT !.trig = "timeout"], mem.reg, "lock")
  /\ UNCHANGED <<task, att, lock, infra, run, cli>>

\* A second report of the same silence is a duplicate, one after a `wait` is not.
DogStall ==
  /\ At(Dog, "idle") /\ mem.seen
  /\ task.state = "running"
  /\ ~att[task.cur].signalled \/ mem.grace
  /\ att' = [att EXCEPT ![task.cur].signalled = TRUE]
  /\ mem' = [mem EXCEPT !.grace = FALSE]
  /\ Continue(Dog, [co[Dog] EXCEPT !.trig = "stalled", !.arg = mem.reg], "lock")
  /\ UNCHANGED <<task, lock, td, infra, run, cli>>

-----------------------------------------------------------------------------
(* The cleanup task: _teardown_owned.                                       *)

\* Whoever awaits the cleanup goes on with what was to follow it, or with the
\* exception of a cleanup that failed; a watcher that is at its end and a
\* shutdown that drains ignore it.
Woken(f, failed) ==
  [c \in Coroutine |->
     IF f[c].pc # "teardown" THEN f[c]
     ELSE [f[c] EXCEPT !.pc = IF failed /\ f[c].then \notin {"off", "close"} THEN "raise"
                              ELSE f[c].then,
                       !.then = "none"]]

\* It starts: another attempt is registered than the expected one, or the
\* registry entries go.
TeardownStarts ==
  /\ run = "on" /\ cpu = 0 /\ td.phase = "start"
  /\ IF td.expect # 0 /\ mem.reg # td.expect
     THEN td' = NoTeardown /\ co' = Woken(co, FALSE) /\ UNCHANGED mem
     ELSE /\ mem.reg # 0
          /\ td' = [td EXCEPT !.phase = "reap", !.proc = mem.reg]
          /\ mem' = [mem EXCEPT !.reg = 0, !.seen = FALSE, !.grace = FALSE]
          /\ UNCHANGED co
  /\ QueuedBehind(0)
  /\ UNCHANGED <<task, att, lock, cpu, infra, run, cli>>

\* Mutant: the watcher of the attempt is left running.
CancelledNobody == {}

\* The watcher that the cleanup cancels: the registered one, unless it is the
\* coroutine that asked for the cleanup.
Cancelled == IF td.proc # 0 /\ td.proc # td.owner /\ co[td.proc].pc # "off" THEN {td.proc} ELSE {}

\* Mutant: the registry entry goes and the process stays.
RowsAfterTeardownAlive ==
  [a \in Attempt |->
     [att[a] EXCEPT !.lease = IF a = mem.held /\ @ = "active" THEN "released" ELSE @]]

\* The rows once the process is reaped and the registered lease given back.
\* A lease that has run out is not released: its row stays as it is.
RowsAfterTeardown ==
  LET closed == IF \E w \in Cancelled : co[w].pc \in {"slot", "spawn"}
                THEN "recovered" ELSE "released"
  IN [a \in Attempt |->
        [att[a] EXCEPT !.proc = IF a = td.proc /\ @ = "live" THEN "killed" ELSE @,
                       !.lease = IF a = mem.held /\ @ = "active" THEN closed ELSE @]]

\* Mutant: the checkout goes back to the pool and the slot stays registered.
RegistriesKeepSlot ==
  [mem EXCEPT !.held = 0, !.wt = 0, !.free = IF mem.wt # 0 THEN @ + 1 ELSE @]

\* The registries then: the checkout, if there is one, is back in the pool.
RegistriesAfterTeardown ==
  [mem EXCEPT !.held = 0, !.slot = 0, !.wt = 0,
              !.seen = IF td.phase = "start" THEN FALSE ELSE @,
              !.grace = IF td.phase = "start" THEN FALSE ELSE @,
              !.free = IF mem.wt # 0 THEN @ + 1 ELSE @]

\* It ends, at once when no attempt is registered: the process group is dead,
\* its watcher is cancelled and gives up the triage lock, and the lease, the
\* checkout and the slot that are registered now, whosever they are, are given
\* back.  A slot without a checkout is a failure, recorded for the main loop.
TeardownEnds ==
  /\ run = "on" /\ cpu = 0 /\ 0 \notin late
  /\ td.phase = "reap" \/ (td.phase = "start" /\ td.expect = 0 /\ mem.reg = 0)
  /\ att' = RowsAfterTeardown
  /\ mem' = RegistriesAfterTeardown
  /\ infra' = (infra \/ (mem.wt = 0 /\ mem.slot # 0))
  /\ co' = Woken([c \in Coroutine |-> IF c \in Cancelled THEN Resting("off") ELSE co[c]],
                 mem.wt = 0 /\ mem.slot # 0)
  /\ lock' = IF lock \in Cancelled THEN 0 ELSE lock
  /\ td' = NoTeardown
  /\ late' = IF \E d \in Coroutine \ late : Ready(d) THEN late ELSE {}
  /\ UNCHANGED <<task, cpu, run, cli>>

-----------------------------------------------------------------------------
(* The rest of the world, followed until the run fails. *)

\* The main loop raises what was recorded, or its own exception.
RunFails ==
  /\ At(Main, "stop") \/ (At(Main, "idle") /\ infra)
  /\ run' = "failed"
  /\ UNCHANGED <<task, att, mem, co, lock, td, cpu, late, infra, cli>>

WorkerWrites(n, kind) ==
  /\ run = "on" /\ att[n].proc = "live" /\ att[n].out = "none"
  /\ att' = [att EXCEPT ![n].out = kind]
  /\ UNCHANGED <<task, mem, co, lock, td, cpu, late, infra, run, cli>>

WorkerExits(n, how) ==
  /\ run = "on" /\ att[n].proc = "live"
  /\ att' = [att EXCEPT ![n].proc = how]
  /\ UNCHANGED <<task, mem, co, lock, td, cpu, late, infra, run, cli>>

\* The lease of a silent worker, or of one that waits for a slot, runs out.
LeaseLapses(n) ==
  /\ run = "on" /\ Lapses /\ att[n].lease = "active"
  /\ att' = [att EXCEPT ![n].lease = "expired"]
  /\ UNCHANGED <<task, mem, co, lock, td, cpu, late, infra, run, cli>>

\* The other tasks of the run take slots of the pool and give them back.
OthersUseSlots ==
  /\ run = "on" /\ cpu = 0
  /\ \/ /\ mem.others < OtherTasks /\ mem.free > 0
        /\ mem' = [mem EXCEPT !.others = @ + 1, !.free = @ - 1]
     \/ /\ mem.others > 0
        /\ mem' = [mem EXCEPT !.others = @ - 1, !.free = @ + 1]
  /\ UNCHANGED <<task, att, co, lock, td, cpu, late, infra, run, cli>>

Answer ==
  /\ run = "on" /\ cli.answers < MaxAnswers
  /\ task.state = "needs_human"
  /\ task' = [task EXCEPT !.state = "queued"]
  /\ cli' = [cli EXCEPT !.answers = @ + 1]
  /\ UNCHANGED <<att, mem, co, lock, td, cpu, late, infra, run>>

Cancel ==
  /\ run = "on" /\ cli.cancels < MaxCancels
  /\ task.state \notin TERMINAL
  /\ task' = [task EXCEPT !.state = "cancelled"]
  /\ cli' = [cli EXCEPT !.cancels = @ + 1]
  /\ UNCHANGED <<att, mem, co, lock, td, cpu, late, infra, run>>

-----------------------------------------------------------------------------
Launching(c) == Relaunch(c) \/ GetSlot(c) \/ Spawned(c) \/ SpawnFails(c)

Watching(n) ==
  \/ ReadFenced(n) \/ ReadLog(n) \/ ReadDone(n) \/ ReapedDone(n) \/ ReadAsked(n)
  \/ ReadInfra(n) \/ EndOfStream(n) \/ MarkExit(n)
  \/ VerifyBegins(n) \/ VerifyPasses(n) \/ VerifyFails(n) \/ DeliverFails(n) \/ Deliver(n)

Triaging(c) ==
  \/ TriageEnters(c) \/ PolicyRelaunches(c) \/ PolicyEscalates(c)
  \/ UnfinishedEscalates(c) \/ InvokeSupervisor(c) \/ SupervisorActs(c)
  \/ Return(c) \/ Raise(c)

\* A step of the run while its main loop has not raised.
Step ==
  \/ MainLaunch
  \/ \E c \in Coroutine : Launching(c) \/ Triaging(c)
  \/ \E n \in Attempt : Watching(n)
  \/ DogTimeout \/ DogStall
  \/ TeardownStarts \/ TeardownEnds
  \/ \E n \in Attempt, kind \in Lines : WorkerWrites(n, kind)
  \/ \E n \in Attempt, how \in Exits : WorkerExits(n, how)
  \/ \E n \in Attempt : LeaseLapses(n)
  \/ OthersUseSlots \/ Answer \/ Cancel

Next == Step \/ RunFails

Spec == Init /\ [][Next]_vars

\* The event loop runs every coroutine that can move, subprocesses die when
\* killed, and calls to the supervisor and the verifier return (both have a
\* timeout).  Workers and people promise nothing.  A sweep looks at the
\* wall-clock limit before it looks at the silence, so a worker that is found
\* running again and again is timed out in the end.
StepFairness ==
  /\ WF_vars(MainLaunch)
  /\ \A c \in Coroutine : WF_vars(Launching(c)) /\ WF_vars(Triaging(c))
  /\ \A n \in Attempt : WF_vars(Watching(n))
  /\ SF_vars(DogTimeout)
  /\ WF_vars(TeardownStarts \/ TeardownEnds)

LiveSpec == Spec /\ StepFairness /\ WF_vars(RunFails)

-----------------------------------------------------------------------------
(* Properties. *)

TypeOK ==
  /\ task \in [state : STATES, retries : Nat, cur : Attempt \cup {0},
               made : Attempt \cup {0}, nudges : 0..MaxNudges,
               open : BOOLEAN, repaired : BOOLEAN]
  /\ att \in [Attempt ->
       [lease : {"none", "active", "expired", "released", "recovered"},
        signalled : BOOLEAN,
        verdict : {"none", "infra", "passed", "failed", "unfit", "shipped"},
        proc : {"none", "live", "exited", "crashed", "killed"},
        out : Lines \cup {"none"}]]
  /\ mem \in [reg : Attempt \cup {0}, seen : BOOLEAN, grace : BOOLEAN,
              held : Attempt \cup {0}, slot : Attempt \cup {0},
              wt : Attempt \cup {0}, free : 0..Slots, others : 0..OtherTasks]
  /\ lock \in Coroutine \cup {0} /\ cpu \in Coroutine \cup {0}
  /\ late \subseteq Coroutine \cup {0}
  /\ infra \in BOOLEAN /\ run \in {"on", "failed"}

\* "The worker process group is terminated and reaped before verification."
VerifyingWorkerReaped ==
  task.state \in {"verifying", "delivering", "delivered"} => att[task.cur].proc # "live"

\* The row of the task, and the attempts that passed and were handed off, as
\* the contract sees them.
Contract == INSTANCE TaskContract WITH
  state <- task.state, retries <- task.retries, attempt <- task.cur,
  passed <- {n \in Attempt : att[n].verdict \in {"passed", "shipped"}},
  shipped <- {n \in Attempt : att[n].verdict = "shipped"},
  Redelivers <- FALSE

\* The scheduler, its coroutines and the people keep the contract of a task: a
\* new attempt is paid for, only what passed is handed off, and only once.
ContractKept == Contract!Spec

\* Two attempts never run at once.
OneLiveWorker == Cardinality({n \in Attempt : att[n].proc = "live"}) <= 1

Busy == td.phase # "none" \/ \E c \in Coroutine : co[c].pc \notin {"off", "dead", "idle", "read"}

\* A worker's exit is recorded against the attempt whose process exited.
ExitBlamesItsAttempt ==
  [][\A n \in Attempt :
        (co[n].pc = "eof" /\ co'[n].trig \in {"exited", "crashed"} /\ co'[n].pc # "eof"
         /\ co'[n].pc # "return")
        => task.cur = n]_vars

\* A settled task is at rest: it holds no process, slot, or lease once the
\* cleanup that follows the last state change is over.
RestIsClean ==
  run = "on" /\ ~infra /\ ~Busy /\ task.state \in SETTLED \ {"cancelled"}
  => /\ \A n \in Attempt : att[n].proc # "live"
     /\ mem.reg = 0 /\ mem.held = 0 /\ mem.slot = 0 /\ mem.free + mem.others = Slots

\* "dagent run exits after all tasks reach a resting or terminal state": they
\* do, or the run fails.
Settles == (task.state \notin SETTLED) ~> (task.state \in SETTLED \/ run = "failed")

\* cli.py:175: "There's no live session left to inject into by the time a task
\* reaches needs_human -- escalation always tears the worker down".
AnsweredHasNoWorker ==
  [][cli'.answers > cli.answers => \A n \in Attempt : att[n].proc # "live"]_vars

\* core.py:907, recovery.py:83: an attempt that ended in an infrastructure
\* failure "must never enter the supervisor policy".
InfraNotTriaged ==
  \A n \in Attempt : att[n].verdict = "infra" => co[n].pc \notin {"policy", "supervise"}

\* README: "Repeated equivalent failures escalate instead of consuming the
\* remaining retry budget."
EquivalentFailureEscalates ==
  [][\A c \in Coroutine :
        (co[c].pc = "policy" /\ co[c].trig \in {"verify.repeated", "artifact.repeated"})
        => co'[c].then # "launch"]_vars
=============================================================================
