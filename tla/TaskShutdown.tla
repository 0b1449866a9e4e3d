------------------------------ MODULE TaskShutdown ------------------------------
(***************************************************************************)
(* How a run ends: the `finally` of run_until_settled (scheduler/core.py    *)
(* 398-440) and the end of asyncio.run around it.  TaskRuntime goes on while*)
(* the main loop shuts down: a watcher in triage may still relaunch, a      *)
(* worker may still write.  The main loop cancels the watchdog and awaits   *)
(* it, tears down every task that owns a slot or a cleanup, removes the     *)
(* pooled checkouts, and returns or raises; then asyncio.run cancels every  *)
(* coroutine that is left, waits for them, and closes the event loop.       *)
(***************************************************************************)
EXTENDS TaskRuntime

CONSTANT Interrupts   \* the user may stop the run with Ctrl-C

ASSUME ShutdownAssumption == Interrupts \in BOOLEAN

\* [phase, unborn: the attempts without a worker when the drain began, or all
\* of them when it never does, hit: Ctrl-C was pressed]
VARIABLE stop

allVars == <<vars, stop>>

InitS == Init /\ stop = [phase |-> "running", unborn |-> {}, hit |-> FALSE]

Phase(from, to) == stop.phase = from /\ stop' = [stop EXCEPT !.phase = to]

\* CancelledError in coroutine d at its await.  A cleanup it awaits is
\* shielded and finished first; a launch gives its lease up; otherwise the
\* exception unwinds d.
Interrupted(d) ==
  CASE d.pc = "teardown"          -> [d EXCEPT !.then = IF @ = "off" THEN "off" ELSE "raise"]
    [] d.pc \in {"slot", "spawn"} -> [d EXCEPT !.pc = "aborted"]
    [] d.pc \in {"off", "dead"}   -> d
    [] OTHER                      -> [d EXCEPT !.pc = "raise"]

\* _launch: the lease is recovered and forgotten, a slot it had stays registered.
AbortLaunch(c) ==
  /\ At(c, "aborted")
  /\ att' = [att EXCEPT ![co[c].new].lease = IF @ = "active" THEN "recovered" ELSE @]
  /\ mem' = [mem EXCEPT !.held = 0]
  /\ Goto(c, "raise")
  /\ UNCHANGED <<task, lock, td, infra, run, cli, stop>>

-----------------------------------------------------------------------------
(* The end of run_until_settled. *)

\* Ctrl-C cancels the main coroutine where it awaits; a second one would not
\* cancel but kill.  One that comes while the main loop drains changes nothing:
\* the drain is awaited again.
Hit == Interrupts /\ ~stop.hit /\ cpu = 0

Interrupt ==
  /\ Hit /\ stop.phase = "running"
  /\ stop' = [stop EXCEPT !.hit = TRUE]
  /\ co[Main].pc \in {"idle", "slot", "spawn"}
  /\ co' = [co EXCEPT ![Main] = IF @.pc = "idle" THEN [@ EXCEPT !.pc = "stop"]
                                ELSE Interrupted(@)]
  /\ UNCHANGED <<task, att, mem, lock, td, cpu, late, infra, run, cli>>

\* It comes while the watchdog is awaited: the watchdog is cancelled again,
\* which ends its wait for a cleanup unless the first cancellation had not
\* reached it, and what is left of the `finally` is skipped.
InterruptJoin ==
  /\ Hit /\ co[Main].pc = "join" /\ stop.phase = "watchdog"
  /\ stop' = [phase |-> "struck", unborn |-> Attempt, hit |-> TRUE]
  /\ \/ UNCHANGED co
     \/ /\ co[Dog].pc = "teardown"
        /\ co' = [co EXCEPT ![Dog] = [@ EXCEPT !.pc = "raise", !.then = "none"]]
  /\ UNCHANGED <<task, att, mem, lock, td, cpu, late, infra, run, cli>>

\* Mutant: the watchdog is awaited and was not cancelled.
StopKeepsWatchdog ==
  /\ \/ At(Main, "stop")
     \/ At(Main, "idle") /\ (infra \/ task.state \in SETTLED)
  /\ Phase("running", "watchdog")
  /\ co' = [co EXCEPT ![Main] = Resting("join")]
  /\ cpu' = 0 /\ QueuedBehind(Main)
  /\ UNCHANGED <<task, att, mem, lock, td, infra, run, cli>>

\* The loop ends: the task has settled, a failure is recorded, or the main
\* coroutine raised.  The watchdog is cancelled, then awaited.
StopBegins ==
  /\ \/ At(Main, "stop")
     \/ At(Main, "idle") /\ (infra \/ task.state \in SETTLED)
  /\ Phase("running", "watchdog")
  /\ co' = [co EXCEPT ![Dog] = Interrupted(@), ![Main] = Resting("join")]
  /\ cpu' = 0 /\ QueuedBehind(Main)
  /\ UNCHANGED <<task, att, mem, lock, td, infra, run, cli>>

\* Mutant: a cleanup in flight is not waited for.
DrainSlots ==
  /\ At(Main, "join") /\ co[Dog].pc = "dead" /\ stop.phase = "watchdog"
  /\ stop' = [stop EXCEPT !.phase = "drain",
                          !.unborn = {n \in Attempt : att[n].proc = "none"}]
  /\ IF mem.slot # 0 /\ td.phase = "none" THEN CallTeardown(Main, co[Main], 0, "close")
     ELSE /\ co' = [co EXCEPT ![Main].pc = "close"]
          /\ cpu' = 0 /\ QueuedBehind(Main) /\ UNCHANGED td
  /\ UNCHANGED <<task, att, mem, lock, infra, run, cli>>

\* _drain_teardowns: the task, when it owns a slot or a cleanup at this moment.
Drain ==
  /\ At(Main, "join") /\ co[Dog].pc = "dead" /\ stop.phase = "watchdog"
  /\ stop' = [stop EXCEPT !.phase = "drain",
                          !.unborn = {n \in Attempt : att[n].proc = "none"}]
  /\ IF mem.slot # 0 \/ td.phase # "none" THEN CallTeardown(Main, co[Main], 0, "close")
     ELSE /\ co' = [co EXCEPT ![Main].pc = "close"]
          /\ cpu' = 0 /\ QueuedBehind(Main) /\ UNCHANGED td
  /\ UNCHANGED <<task, att, mem, lock, infra, run, cli>>

\* The checkouts are removed, and run_until_settled returns or raises.
PoolCloses ==
  /\ At(Main, "close") /\ Phase("drain", "closed")
  /\ Goto(Main, "dead")
  /\ UNCHANGED <<task, att, mem, lock, td, infra, run, cli>>

\* An interrupted wait for the watchdog raises: no drain, no checkout removed.
Undrained ==
  /\ At(Main, "join") /\ co[Dog].pc = "dead" /\ Phase("struck", "closed")
  /\ Goto(Main, "dead")
  /\ UNCHANGED <<task, att, mem, lock, td, infra, run, cli>>

-----------------------------------------------------------------------------
(* The end of asyncio.run. *)

\* Every coroutine that is left is cancelled, the cleanup itself too: one that
\* has not begun never does, one that reaps may have killed its process or not.
CancelRest ==
  /\ cpu = 0 /\ Phase("closed", "cancelled")
  /\ \/ UNCHANGED att
     \/ td.phase = "reap" /\ att' = Kill(td.proc)
  /\ td' = NoTeardown
  /\ co' = Woken([c \in Coroutine |-> Interrupted(co[c])], FALSE)
  /\ late' = {}
  /\ UNCHANGED <<task, mem, lock, cpu, infra, run, cli>>

LoopCloses ==
  /\ \A c \in Coroutine : co[c].pc \in {"off", "dead"}
  /\ Phase("cancelled", "over")
  /\ UNCHANGED vars

-----------------------------------------------------------------------------
Stopping ==
  StopBegins \/ Drain \/ PoolCloses \/ Undrained \/ CancelRest \/ LoopCloses

NextS ==
  \/ Step /\ UNCHANGED stop
  \/ \E c \in Coroutine : AbortLaunch(c)
  \/ Interrupt \/ InterruptJoin \/ Stopping

SpecS == InitS /\ [][NextS]_allVars

LiveSpecS ==
  /\ SpecS /\ StepFairness
  /\ \A c \in Coroutine : WF_allVars(AbortLaunch(c))
  /\ WF_allVars(Stopping)

-----------------------------------------------------------------------------
(* Properties. *)

\* core.py:364: "the `finally` below still runs, tearing down any live worker
\* cleanly": a worker that lived when the drain began is gone when the pool
\* is, whatever watchers and cleanups were under way.  An interrupt while the
\* watchdog is awaited leaves no drain to speak of (core.py:402).
DrainedAreReaped ==
  stop.phase \in {"closed", "cancelled", "over"}
  => \A n \in Attempt : att[n].proc = "live" => n \in stop.unborn

\* A run that is asked to end, that fails, or whose task has settled, ends: no
\* coroutine waits for ever for a lock, a slot or a cleanup.
ShutdownEnds ==
  (stop.phase # "running" \/ infra) ~> (stop.phase = "over")

\* core.py:1938: cancelling the watchdog "must not strand a live process": no
\* worker outlives the run.
NoWorkerLeft == stop.phase = "over" => \A n \in Attempt : att[n].proc # "live"
=============================================================================
