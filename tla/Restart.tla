-------------------------------- MODULE Restart --------------------------------
(***************************************************************************)
(* One task and the scheduler processes that serve it one after the other:  *)
(* a process may be killed between any two of its commits, and the next one *)
(* finds what is in the database, the workers that outlived their scheduler *)
(* and what was delivered.  A step is one commit, or one call into the      *)
(* outside world, of reconcile(), of the checkpoints that                   *)
(* run_until_settled resumes, and of the coroutine that drives the task.    *)
(*                                                                         *)
(* The interleavings inside one process are the subject of TaskRuntime:     *)
(* here the watcher, the watchdog and the cleanup of an attempt are one     *)
(* coroutine.                                                               *)
(***************************************************************************)
EXTENDS Integers, FiniteSets, Sequences, TaskStates

CONSTANTS
  MaxRetries,   \* the retry budget of the task
  MaxCrashes,   \* how often the scheduler is killed, a bound
  MaxAttempt,   \* the number of attempts that can be created, a bound
  DetCrash,     \* deterministic_crash_recovery
  Stalls,       \* a worker may fall silent
  Orphans,      \* a worker may outlive the scheduler that spawned it
  PrMode,       \* delivery_mode is "pr": gh refuses a second pull request
  OthersBoot    \* other tasks are in triage or verifying when a process starts

ASSUME RestartAssumption ==
  /\ MaxRetries \in Nat /\ MaxCrashes \in Nat /\ MaxAttempt \in Nat
  /\ MaxAttempt > MaxRetries + MaxCrashes
  /\ {DetCrash, Stalls, Orphans, PrMode, OthersBoot} \subseteq BOOLEAN

Attempt == 1..MaxAttempt

VARIABLES
  row,       \* the row of tasks: state, retries, current attempt, the cause_seq
             \* of its last state change, and the candidate to verify
  attempts,  \* the rows of attempts, each with its lease; a commit is named by
             \* the attempt whose work it is, 0 is the base branch or NULL
  log,       \* the events that a later process reads
  ivs,       \* supervisor_interventions
  worker,    \* the processes of the workers
  shipped,   \* the attempts whose candidate left by delivery.deliver
  co,        \* the coroutines: the main one and the one that drives the task
  crashes    \* how often the scheduler was killed

vars == <<row, attempts, log, ivs, worker, shipped, co, crashes>>

NoAttempt == [made |-> "no", parent |-> 0, iv |-> 0, base |-> 0, cand |-> 0, lease |-> "none"]
Co == {"main", "watch"}
Idle == [pc |-> "off", cause |-> 0, n |-> 0, iv |-> 0, live |-> FALSE, boot |-> 0]

\* No process: what was in memory is gone, the next one begins.
Down == [c \in Co |-> IF c = "main" THEN [Idle EXCEPT !.pc = "down"] ELSE Idle]

Init ==
  /\ row = [state |-> "queued", retries |-> 0, att |-> 0, cause |-> 0, cand |-> 0]
  /\ attempts = [n \in Attempt |-> NoAttempt]
  /\ log = <<>> /\ ivs = <<>>
  /\ worker = [n \in Attempt |-> "none"]
  /\ shipped = {}
  /\ co = Down
  /\ crashes = 0

-----------------------------------------------------------------------------
(* Events and rows. *)

Event(type, att, cause, act, iv) ==
  [type |-> type, att |-> att, cause |-> cause, act |-> act, iv |-> iv, cand |-> row.cand]

Positions(types, att) == {i \in DOMAIN log : log[i].type \in types /\ log[i].att = att}

\* Events of the current attempt.
Facts(types) == Positions(types, row.att)

\* The newest of a set of positions, 0 if there is none.
Newest(S) == CHOOSE i \in S \cup {0} : \A j \in S : j <= i

Acted(cause) == {i \in DOMAIN log : log[i].type = "acted" /\ log[i].cause = cause}

Made == {n \in Attempt : attempts[n].made # "no"}
LatestAttempt == Newest(Made)

\* update_attempt on the latest attempt: it is no longer as it was created.
Stamped == [n \in Attempt |-> IF n = LatestAttempt THEN [attempts[n] EXCEPT !.made = "used"]
                              ELSE attempts[n]]

Menu(live) ==
  IF row.retries >= MaxRetries THEN {"escalate"}
  ELSE {"restart", "escalate"} \cup (IF live THEN {"wait"} ELSE {})

\* The places where a coroutine has given up the event loop.  Between the
\* checkpoints of two tasks the start of a run awaits their triage.
Awaits == {"off", "watch", "reap", "clean", "calling", "spawn", "verify", "loop"}
            \cup (IF OthersBoot THEN {"boot2", "boot3"} ELSE {})

At(c, pc) == co[c].pc = pc /\ \A d \in Co \ {c} : co[d].pc \in Awaits

Go(c, pc) == co' = [co EXCEPT ![c].pc = pc]

\* The main coroutine goes on with its next checkpoint, the other one ends.
Back(c) ==
  IF c = "main" THEN [co EXCEPT !.main.pc = CASE co.main.boot = 1 -> "boot2"
                                              [] co.main.boot = 2 -> "boot3"
                                              [] OTHER -> "loop"]
  ELSE [co EXCEPT !.watch = Idle]

\* An exception ends a run when the main coroutine has it, and only the watcher
\* when the watcher has it.
Raised(c) == IF c = "main" THEN [co EXCEPT !.main.pc = "failed"] ELSE [co EXCEPT !.watch = Idle]

Moved(to, cause) == row' = [row EXCEPT !.state = to, !.cause = cause]

\* transition(), with what follows it when it is accepted.
Transition(c, to, cause, next) ==
  IF Legal(row.state, to) THEN Moved(to, cause) /\ co' = next
  ELSE co' = Raised(c) /\ UNCHANGED row

-----------------------------------------------------------------------------
(* A process starts: reconcile(), then one checkpoint after the other. *)

\* Mutant: the claim of a worker is not looked for.
ClaimIgnored == Facts({"gaveup"})

Claimed == Facts({"done"})

Gone == row.state = "running" /\ (row.att = 0 \/ worker[row.att] # "alive")

Start ==
  /\ At("main", "down")
  /\ Go("main", IF Gone \/ row.state = "verifying" THEN "fence" ELSE "boot1")
  /\ UNCHANGED <<row, attempts, log, ivs, worker, shipped, crashes>>

\* Fencing the lease of the attempt that nobody observes any more.
Fence ==
  /\ At("main", "fence")
  /\ attempts' = [n \in Attempt |-> IF n = row.att /\ attempts[n].lease \in {"active", "lapsed"}
                                    THEN [attempts[n] EXCEPT !.lease = "closed"] ELSE attempts[n]]
  /\ Go("main", IF row.state = "verifying" THEN "boot1"
                ELSE IF Claimed # {} THEN "claimed" ELSE "exited")
  /\ UNCHANGED <<row, log, ivs, worker, shipped, crashes>>

ReconcileClaim ==
  /\ At("main", "claimed")
  /\ row' = [row EXCEPT !.state = "verifying", !.cause = Newest(Claimed),
                        !.cand = IF attempts[row.att].cand # 0 THEN attempts[row.att].cand ELSE @]
  /\ Go("main", "boot1")
  /\ UNCHANGED <<attempts, log, ivs, worker, shipped, crashes>>

ReconcileExit ==
  /\ At("main", "exited")
  /\ log' = Append(log, Event("exit", row.att, 0, "none", 0))
  /\ co' = [co EXCEPT !.main.pc = "orphaned", !.main.cause = Len(log')]
  /\ attempts' = [attempts EXCEPT ![row.att].made = "used", ![row.att].cand = row.att]
  /\ UNCHANGED <<row, ivs, worker, shipped, crashes>>

ReconcileMove ==
  /\ At("main", "orphaned")
  /\ Transition("main", "triage", co.main.cause, [co EXCEPT !.main.pc = "boot1"])
  /\ UNCHANGED <<attempts, log, ivs, worker, shipped, crashes>>

Triage(c, cause, live, boot) ==
  co' = [co EXCEPT ![c].pc = "triage", ![c].cause = cause, ![c].live = live, ![c].boot = boot]

ResumeTriage ==
  /\ At("main", "boot1")
  /\ IF row.state = "triage" THEN Triage("main", row.cause, FALSE, 1) ELSE Go("main", "boot2")
  /\ UNCHANGED <<row, attempts, log, ivs, worker, shipped, crashes>>

Verdicts == Facts({"passed", "failed"})

\* Mutant: an interrupted verification starts again, whatever is recorded.
ResumeVerifyingAfresh ==
  /\ At("main", "boot2")
  /\ IF row.state # "verifying" THEN Go("main", "boot3") /\ UNCHANGED row
     ELSE co' = [co EXCEPT !.main.pc = "verify", !.main.boot = 2] /\ UNCHANGED row
  /\ UNCHANGED <<attempts, log, ivs, worker, shipped, crashes>>

\* Mutant: an interrupted verification is left to whoever comes.
ResumeVerifyingRecorded ==
  /\ At("main", "boot2")
  /\ LET last == Newest(Verdicts) IN
     IF row.state # "verifying" \/ last = 0 THEN Go("main", "boot3") /\ UNCHANGED row
     ELSE IF log[last].type = "passed"
     THEN Transition("main", "delivering", last, [co EXCEPT !.main.pc = "redeliver", !.main.boot = 2])
     ELSE Triage("main", last, FALSE, 2) /\ UNCHANGED row
  /\ UNCHANGED <<attempts, log, ivs, worker, shipped, crashes>>

\* A recorded verdict is used, an incomplete verification is run again.
ResumeVerifying ==
  /\ At("main", "boot2")
  /\ LET last == Newest(Verdicts) IN
     IF row.state # "verifying" THEN Go("main", "boot3") /\ UNCHANGED row
     ELSE IF last = 0
     THEN co' = [co EXCEPT !.main.pc = "verify", !.main.boot = 2] /\ UNCHANGED row
     ELSE IF log[last].type = "passed"
     THEN Transition("main", "delivering", last, [co EXCEPT !.main.pc = "redeliver", !.main.boot = 2])
     ELSE Triage("main", last, FALSE, 2) /\ UNCHANGED row
  /\ UNCHANGED <<attempts, log, ivs, worker, shipped, crashes>>

\* A recorded delivery is projected to the row, a recorded failure is triaged.
ResumeDelivering ==
  /\ \/ At("main", "boot3") \/ At("main", "redeliver")
  /\ LET boot == IF co.main.pc = "boot3" THEN 3 ELSE 2
         done == Newest(Facts({"shipped"}))
         failed == Newest(Facts({"undelivered"}))
     IN IF row.state # "delivering" THEN Go("main", "loop") /\ UNCHANGED row
        ELSE IF done # 0
        THEN Transition("main", "delivered", done,
                        [co EXCEPT !.main.pc = IF boot = 2 THEN "boot3" ELSE "loop"])
        ELSE /\ IF failed # 0 THEN Triage("main", failed, FALSE, boot)
                ELSE co' = [co EXCEPT !.main.pc = "deliver", !.main.boot = boot]
             /\ UNCHANGED row
  /\ UNCHANGED <<attempts, log, ivs, worker, shipped, crashes>>

\* The main loop launches a queued task, and a finite run ends at rest.
Loop ==
  /\ At("main", "loop")
  /\ \/ row.state = "queued"
        /\ co' = [co EXCEPT !.main.pc = "create", !.main.iv = 0, !.main.boot = 4]
     \/ row.state \in TERMINAL \cup {"needs_human"} /\ Go("main", "ended")
  /\ UNCHANGED <<row, attempts, log, ivs, worker, shipped, crashes>>

-----------------------------------------------------------------------------
(* Triage. *)

\* The cause has produced a recovery action; a decision that was saved while
\* the task is still in triage is dispatched now.
Handled(cause) == Acted(cause) # {} /\ row.state # "triage"

EnterTriage(c) ==
  /\ At(c, "triage")
  /\ IF row.state \in TERMINAL \cup {"needs_human"} \/ Handled(co[c].cause)
     THEN co' = Back(c) /\ UNCHANGED row
     ELSE IF row.state = "triage" THEN Go(c, "policy") /\ UNCHANGED row
     ELSE Transition(c, "triage", co[c].cause, [co EXCEPT ![c].pc = "policy"])
  /\ UNCHANGED <<attempts, log, ivs, worker, shipped, crashes>>

\* The latest attempt crashed, and its crash is the cause.
CrashRetried(cause) ==
  /\ DetCrash /\ log[cause].type = "exit" /\ log[cause].act = "crashed"
  /\ log[cause].att = LatestAttempt /\ row.retries < MaxRetries

Unfinished == {i \in DOMAIN ivs : ~ivs[i].ended}

\* Mutant: an interrupted model call is made again.
PolicyCallsAgain(c) ==
  /\ At(c, "policy")
  /\ LET cause == co[c].cause  saved == Newest(Acted(cause)) IN
     IF CrashRetried(cause) THEN co' = [co EXCEPT ![c].pc = "clean", ![c].iv = 0]
     ELSE IF saved # 0 THEN co' = [co EXCEPT ![c].pc = "dispatch", ![c].iv = log[saved].iv]
     ELSE Go(c, "call")
  /\ UNCHANGED <<row, attempts, log, ivs, worker, shipped, crashes>>

\* A crash of the worker is retried without a model; a call that a crash of
\* the scheduler interrupted is not made again; a saved decision is taken.
Policy(c) ==
  /\ At(c, "policy")
  /\ LET cause == co[c].cause  saved == Newest(Acted(cause)) IN
     IF CrashRetried(cause) THEN co' = [co EXCEPT ![c].pc = "clean", ![c].iv = 0]
     ELSE IF Unfinished # {} THEN Go(c, "interrupted")
     ELSE IF saved # 0 THEN co' = [co EXCEPT ![c].pc = "dispatch", ![c].iv = log[saved].iv]
     ELSE Go(c, "call")
  /\ UNCHANGED <<row, attempts, log, ivs, worker, shipped, crashes>>

\* The unfinished intervention is closed and the task given to a person.
Interrupted(c) ==
  /\ At(c, "interrupted")
  /\ IF Unfinished # {}
     THEN /\ log' = Append(log, Event("gaveup", row.att, co[c].cause, "none", Newest(Unfinished)))
          /\ ivs' = [ivs EXCEPT ![Newest(Unfinished)].ended = TRUE]
          /\ attempts' = Stamped
          /\ UNCHANGED <<row, co>>
     ELSE Transition(c, "needs_human", Len(log), [co EXCEPT ![c].pc = "reap"]) /\ UNCHANGED <<attempts, log, ivs>>
  /\ UNCHANGED <<worker, shipped, crashes>>

\* create_intervention reserves the call before it is made.
Call(c) ==
  /\ At(c, "call")
  /\ ivs' = Append(ivs, [source |-> LatestAttempt, target |-> 0, ended |-> FALSE])
  /\ log' = Append(log, Event("invoked", row.att, co[c].cause, "none", Len(ivs')))
  /\ co' = [co EXCEPT ![c].pc = "calling", ![c].iv = Len(ivs')]
  /\ attempts' = Stamped
  /\ UNCHANGED <<row, worker, shipped, crashes>>

\* The answer is saved first and its intervention closed after that.
Answered(c) ==
  /\ At(c, "calling")
  /\ \E act \in Menu(co[c].live) :
       log' = Append(log, Event("acted", row.att, co[c].cause, act, co[c].iv))
  /\ Go(c, "close")
  /\ UNCHANGED <<row, attempts, ivs, worker, shipped, crashes>>

CloseIntervention(c) ==
  /\ At(c, "close")
  /\ ivs' = [ivs EXCEPT ![co[c].iv].ended = TRUE]
  /\ Go(c, "dispatch")
  /\ UNCHANGED <<row, attempts, log, worker, shipped, crashes>>

Offered(act, live) == act \in Menu(live)

\* What is not in today's menu is escalated.  The answer is noted in the latest
\* attempt, which is the child when an earlier process has created one.
Dispatch(c) ==
  /\ At(c, "dispatch")
  /\ LET saved == Newest(Acted(co[c].cause))
         act == IF Offered(log[saved].act, co[c].live) THEN log[saved].act ELSE "escalate"
     IN CASE act = "restart" -> Go(c, "clean") /\ UNCHANGED row
          [] act = "wait" -> Transition(c, "running", saved, [co EXCEPT ![c].pc = "watch"])
          [] act = "escalate" -> Transition(c, "needs_human", saved, [co EXCEPT ![c].pc = "reap"])
  /\ attempts' = Stamped
  /\ UNCHANGED <<log, ivs, worker, shipped, crashes>>

\* _teardown, by the process that has launched the attempt: the worker is
\* killed and the lease given back, before a restart or after an escalation.
TornDown(c) ==
  /\ worker' = IF c = "watch" /\ co.watch.n # 0 /\ worker[co.watch.n] = "alive"
               THEN [worker EXCEPT ![co.watch.n] = "dead"] ELSE worker
  /\ attempts' = IF c = "watch" /\ co.watch.n # 0 /\ attempts[co.watch.n].lease = "active"
                 THEN [attempts EXCEPT ![co.watch.n].lease = "closed"] ELSE attempts

Clean(c) ==
  /\ At(c, "clean")
  /\ TornDown(c)
  /\ Go(c, "create")
  /\ UNCHANGED <<row, log, ivs, shipped, crashes>>

-----------------------------------------------------------------------------
(* Launching an attempt. *)

\* The child that an earlier process created for the same intervention, if no
\* update has touched it; the dispatch of a saved decision always has.
Created(iv) ==
  {n \in Made : /\ attempts[n].made = "created"
                /\ iv # 0
                /\ \/ n = ivs[iv].target
                   \/ n = LatestAttempt /\ attempts[n].parent = ivs[iv].source}

Create(c) ==
  /\ At(c, "create")
  /\ LET child == Newest(Created(co[c].iv))  new == LatestAttempt + 1 IN
     IF child # 0
     THEN co' = [co EXCEPT ![c].pc = "lease", ![c].n = child] /\ UNCHANGED attempts
     ELSE /\ new \in Attempt
          /\ attempts' = [attempts EXCEPT ![new] =
                            [NoAttempt EXCEPT !.made = "created", !.parent = LatestAttempt,
                               !.iv = co[c].iv,
                               !.base = IF LatestAttempt = 0 THEN 0 ELSE attempts[LatestAttempt].cand]]
          /\ co' = [co EXCEPT ![c].pc = IF co[c].iv = 0 THEN "lease" ELSE "target", ![c].n = new]
  /\ UNCHANGED <<row, log, ivs, worker, shipped, crashes>>

Target(c) ==
  /\ At(c, "target")
  /\ ivs' = [ivs EXCEPT ![co[c].iv].target = co[c].n]
  /\ Go(c, "lease")
  /\ UNCHANGED <<row, attempts, log, worker, shipped, crashes>>

\* A live lease is never stolen, not even that of a scheduler that is gone.
Lease(c) ==
  /\ At(c, "lease")
  /\ IF attempts[co[c].n].lease = "active" THEN co' = Raised(c) /\ UNCHANGED attempts
     ELSE attempts' = [attempts EXCEPT ![co[c].n].lease = "active"] /\ Go(c, "spawn")
  /\ UNCHANGED <<row, log, ivs, worker, shipped, crashes>>

\* The pool has a clean slot and the worker starts.
Spawn(c) ==
  /\ At(c, "spawn")
  /\ worker' = [worker EXCEPT ![co[c].n] = "alive"]
  /\ Go(c, "use")
  /\ UNCHANGED <<row, attempts, log, ivs, shipped, crashes>>

Use(c) ==
  /\ At(c, "use")
  /\ attempts' = [attempts EXCEPT ![co[c].n].made = "used"]
  /\ log' = Append(log, Event("spawned", co[c].n, co[c].cause, "none", 0))
  /\ Go(c, "run")
  /\ UNCHANGED <<row, ivs, worker, shipped, crashes>>

\* Mutant: the retries are counted when the task is torn down, not with the move.
RunUncounted(c) ==
  /\ At(c, "run")
  /\ IF Legal(row.state, "running")
     THEN /\ row' = [row EXCEPT !.state = "running", !.att = co[c].n, !.cause = Len(log),
                                !.cand = attempts[co[c].n].base]
          /\ co' = [Back(c) EXCEPT !.watch = [Idle EXCEPT !.pc = "watch", !.n = co[c].n]]
     ELSE co' = Raised(c) /\ UNCHANGED row
  /\ UNCHANGED <<attempts, log, ivs, worker, shipped, crashes>>

\* The row, with its count of retries, is written last; a watcher takes over.
Run(c) ==
  /\ At(c, "run")
  /\ IF Legal(row.state, "running")
     THEN /\ row' = [state |-> "running", att |-> co[c].n, cause |-> Len(log),
                     cand |-> attempts[co[c].n].base,
                     retries |-> row.retries + (IF row.state = "triage" THEN 1 ELSE 0)]
          /\ co' = [Back(c) EXCEPT !.watch = [Idle EXCEPT !.pc = "watch", !.n = co[c].n]]
     ELSE co' = Raised(c) /\ UNCHANGED row
  /\ UNCHANGED <<attempts, log, ivs, worker, shipped, crashes>>

-----------------------------------------------------------------------------
(* Watching, verifying, delivering. *)

\* A done claim is recorded, then the worker is reaped.  The claim of a worker
\* that has ended may still be in the pipe.
ReadDone ==
  /\ At("watch", "watch") /\ row.state = "running"
  /\ log' = Append(log, Event("done", co.watch.n, 0, "none", 0))
  /\ co' = [co EXCEPT !.watch.pc = "claim", !.watch.cause = Len(log')]
  /\ UNCHANGED <<row, attempts, ivs, worker, shipped, crashes>>

Capture ==
  /\ At("watch", "claim")
  /\ worker' = [worker EXCEPT ![co.watch.n] = "dead"]
  /\ attempts' = [attempts EXCEPT ![row.att].cand = co.watch.n]
  /\ Go("watch", "captured")
  /\ UNCHANGED <<row, log, ivs, shipped, crashes>>

Claim ==
  /\ At("watch", "captured")
  /\ IF Legal(row.state, "verifying")
     THEN /\ row' = [row EXCEPT !.state = "verifying", !.cause = co.watch.cause, !.cand = co.watch.n]
          /\ Go("watch", "verify")
     ELSE co' = Raised("watch") /\ UNCHANGED row
  /\ UNCHANGED <<attempts, log, ivs, worker, shipped, crashes>>

\* The worker has gone without a claim, by a crash or with code 0.
ReadExit ==
  /\ At("watch", "watch") /\ row.state = "running" /\ worker[co.watch.n] = "dead"
  /\ \E how \in {"crashed", "none"} :
       log' = Append(log, Event("exit", co.watch.n, 0, how, 0))
  /\ Triage("watch", Len(log'), FALSE, 0)
  /\ attempts' = [attempts EXCEPT ![co.watch.n].lease = "closed", ![co.watch.n].cand = co.watch.n]
  /\ UNCHANGED <<row, ivs, worker, shipped, crashes>>

Stall ==
  /\ Stalls /\ At("watch", "watch") /\ row.state = "running" /\ worker[co.watch.n] = "alive"
  /\ Positions({"stall"}, co.watch.n) = {}
  /\ log' = Append(log, Event("stall", co.watch.n, 0, "none", 0))
  /\ Triage("watch", Len(log'), TRUE, 0)
  /\ UNCHANGED <<row, attempts, ivs, worker, shipped, crashes>>

\* After an escalation the worker and its lease go.
Reap(c) ==
  /\ At(c, "reap")
  /\ TornDown(c)
  /\ co' = Back(c)
  /\ UNCHANGED <<row, log, ivs, shipped, crashes>>

\* The candidate of the row is verified, and noted in the attempt.  Against the
\* base branch itself the diff is empty, which does not pass.
Verify(c) ==
  /\ At(c, "verify")
  /\ \E verdict \in {"passed", "failed"} :
       /\ verdict = "passed" => row.cand # 0
       /\ log' = Append(log, Event(verdict, row.att, 0, "none", 0))
       /\ IF verdict = "failed" THEN Triage(c, Len(log'), FALSE, co[c].boot)
          ELSE co' = [co EXCEPT ![c].pc = "verified", ![c].cause = Len(log')]
  /\ attempts' = [attempts EXCEPT ![row.att].cand = row.cand,
                   ![row.att].lease = IF c = "watch" /\ @ = "active" THEN "closed" ELSE @]
  /\ UNCHANGED <<row, ivs, worker, shipped, crashes>>

Verified(c) ==
  /\ At(c, "verified")
  /\ Transition(c, "delivering", co[c].cause, [co EXCEPT ![c].pc = "deliver"])
  /\ UNCHANGED <<attempts, log, ivs, worker, shipped, crashes>>

\* The candidate is handed off, or refused; a branch that has a pull request
\* gets no second one.
Deliver(c) ==
  /\ At(c, "deliver")
  /\ \/ /\ ~(PrMode /\ shipped # {})
        /\ shipped' = shipped \cup {row.att}
        /\ Go(c, "ship") /\ UNCHANGED log
     \/ /\ log' = Append(log, Event("undelivered", row.att, 0, "none", 0))
        /\ Triage(c, Len(log'), FALSE, co[c].boot)
        /\ UNCHANGED shipped
  /\ UNCHANGED <<row, attempts, ivs, worker, crashes>>

Ship(c) ==
  /\ At(c, "ship")
  /\ log' = Append(log, Event("shipped", row.att, 0, "none", 0))
  /\ co' = [co EXCEPT ![c].pc = "delivered", ![c].cause = Len(log')]
  /\ UNCHANGED <<row, attempts, ivs, worker, shipped, crashes>>

Delivered(c) ==
  /\ At(c, "delivered")
  /\ Transition(c, "delivered", co[c].cause, Back(c))
  /\ UNCHANGED <<attempts, log, ivs, worker, shipped, crashes>>

-----------------------------------------------------------------------------
(* The world around the scheduler. *)

Up == co.main.pc \notin {"down", "failed", "ended"}

\* kill -9: what was in memory is gone, and the worker usually as well.
Crash ==
  /\ Up /\ crashes < MaxCrashes
  /\ crashes' = crashes + 1
  /\ co' = Down
  /\ \/ Orphans /\ UNCHANGED worker
     \/ worker' = [n \in Attempt |-> IF worker[n] = "alive" THEN "dead" ELSE worker[n]]
  /\ UNCHANGED <<row, attempts, log, ivs, shipped>>

WorkerDies(n) ==
  /\ worker[n] = "alive"
  /\ worker' = [worker EXCEPT ![n] = "dead"]
  /\ UNCHANGED <<row, attempts, log, ivs, shipped, co, crashes>>

\* The attempts whose lease a coroutine of this process holds and renews.
Held == {co.watch.n} \cup {co[c].n : c \in {d \in Co : co[d].pc \in {"spawn", "use", "run"}}}

LeaseLapses(n) ==
  /\ attempts[n].lease = "active" /\ n \notin Held
  /\ attempts' = [attempts EXCEPT ![n].lease = "lapsed"]
  /\ UNCHANGED <<row, log, ivs, worker, shipped, co, crashes>>

-----------------------------------------------------------------------------
Startup ==
  \/ Start \/ Fence \/ ReconcileClaim \/ ReconcileExit \/ ReconcileMove
  \/ ResumeTriage \/ ResumeVerifying \/ ResumeDelivering \/ Loop

Drive(c) ==
  \/ EnterTriage(c) \/ Policy(c) \/ Interrupted(c) \/ Call(c) \/ Answered(c)
  \/ CloseIntervention(c) \/ Dispatch(c) \/ Clean(c) \/ Reap(c)
  \/ Create(c) \/ Target(c) \/ Lease(c) \/ Spawn(c) \/ Use(c) \/ Run(c)
  \/ Verify(c) \/ Verified(c) \/ Deliver(c) \/ Ship(c) \/ Delivered(c)

Watch == ReadDone \/ Capture \/ Claim \/ ReadExit \/ Stall

Next ==
  \/ Startup \/ Watch \/ Crash
  \/ \E c \in Co : Drive(c)
  \/ \E n \in Attempt : WorkerDies(n) \/ LeaseLapses(n)

Spec == Init /\ [][Next]_vars

\* A process that was killed is started again, its coroutines
\* run, workers end (they have a time limit) and leases lapse.
Fairness ==
  /\ WF_vars(Startup) /\ WF_vars(Watch)
  /\ \A c \in Co : WF_vars(Drive(c))
  /\ \A n \in Attempt : WF_vars(WorkerDies(n)) /\ WF_vars(LeaseLapses(n))

LiveSpec == Spec /\ Fairness
-----------------------------------------------------------------------------
(* Properties. *)

PC == {"down", "fence", "claimed", "exited", "orphaned", "boot1", "boot2", "boot3",
       "redeliver", "loop", "failed", "ended", "off", "watch", "claim", "captured", "triage", "policy",
       "interrupted", "call", "calling", "close", "dispatch", "clean", "reap", "create",
       "target", "lease", "spawn", "use", "run", "verify", "verified", "deliver", "ship",
       "delivered"}

TypeOK ==
  /\ row \in [state : STATES, retries : 0..MaxRetries, att : {0} \cup Attempt,
              cause : 0..Len(log), cand : {0} \cup Attempt]
  /\ \A n \in Attempt :
       attempts[n] \in [made : {"no", "created", "used"}, parent : 0..(n - 1),
                        iv : 0..Len(ivs), base : 0..(n - 1), cand : 0..n,
                        lease : {"none", "active", "lapsed", "closed"}]
  /\ \A i \in DOMAIN log : log[i] \in [type : {"done", "exit", "stall", "passed", "failed",
       "shipped", "undelivered", "invoked", "acted", "gaveup", "spawned"},
       att : {0} \cup Attempt, cause : 0..(i - 1),
       act : {"none", "crashed", "restart", "escalate", "wait"}, iv : 0..Len(ivs), cand : {0} \cup Attempt]
  /\ \A i \in DOMAIN ivs : ivs[i] \in [source : {0} \cup Attempt, target : {0} \cup Attempt,
                                       ended : BOOLEAN]
  /\ worker \in [Attempt -> {"none", "alive", "dead"}]
  /\ shipped \subseteq Attempt
  /\ \A c \in Co : co[c] \in [pc : PC, cause : 0..Len(log), n : {0} \cup Attempt,
                              iv : 0..Len(ivs), live : BOOLEAN, boot : 0..4]
  /\ crashes \in 0..MaxCrashes

\* However often the scheduler is killed, a cause pays for a second model call
\* only when its first one was closed as interrupted, and one intervention
\* never has two decisions.
OneCallPerCause ==
  \A i, j \in DOMAIN log :
    i < j /\ log[i].type = log[j].type =>
      /\ log[i].type = "acted" => log[i].iv # log[j].iv
      /\ log[i].type = "invoked" /\ log[i].cause = log[j].cause =>
           \E k \in i..j : log[k].type = "gaveup" /\ log[k].iv = log[i].iv

\* Every worker beyond the budget of retries stands for a kill of the
\* scheduler between a spawn and its row.
SpawnsAccounted ==
  Cardinality({i \in DOMAIN log : log[i].type = "spawned"}) <= 1 + MaxRetries + crashes

\* The row, and the attempts whose verdict or hand-off is on record or in the
\* world, as the contract sees them.
Contract == INSTANCE TaskContract WITH
  state <- row.state, retries <- row.retries, attempt <- row.att,
  passed <- {n \in Attempt : Positions({"passed"}, n) # {}},
  Redelivers <- TRUE

\* However often the scheduler is killed, its processes together keep the
\* contract of a task, but for hand-offs that are repeated.
ContractKept == Contract!Spec

\* "Prefer durable terminal verification evidence when it exists": one verdict
\* for each attempt.
VerdictOnce == \A n \in Attempt : Cardinality(Positions({"passed", "failed"}, n)) <= 1

\* A worker's recorded claim is never followed by an exit or a stall of the same
\* attempt: the claim, not the death of the process, decides what comes next.
ClaimSurvives ==
  \A i, j \in DOMAIN log :
    log[i].type = "done" /\ log[j].type \in {"exit", "stall"} /\ i < j => log[i].att # log[j].att

\* The task comes to rest in the end, when the kills stop.
Rests == <>[](row.state \in TERMINAL \cup {"needs_human"})

\* core.py:1382: "A persisted supervisor action with a task still in triage is
\* an intentional restart-recovery window: dispatch it without invoking the
\* model again."
DecisionNotDiscarded ==
  \A i, j \in DOMAIN log :
    log[i].type = "acted" /\ log[j].type = "gaveup" => log[i].iv # log[j].iv

\* core.py:1428: "The model result is then unknowable; calling again would
\* duplicate paid supervision."
NeverCalledTwice ==
  \A i, j \in DOMAIN log :
    log[i].type = "invoked" /\ log[j].type = "invoked" /\ i # j => log[i].cause # log[j].cause

\* core.py:567: "Reuse that identity rather than creating a second child when
\* reconciliation dispatches the already-persisted RETRY decision."
OneChildPerIntervention ==
  \A m, n \in Made : m # n /\ attempts[m].iv # 0 => attempts[m].iv # attempts[n].iv

\* worktree_pool.py:87: "Scheduler attempts pass their durable attempt/<id> ref
\* and source commit; retrying therefore cannot silently fall back to main."
RetryKeepsCandidate ==
  \A m, n \in Made : m < n => attempts[m].cand <= attempts[n].base

\* README.md:230: "A task requires a clean worker exit, a committed candidate or
\* explicit no-change result, and passing public verification": what leaves is
\* what has passed.
DeliveredIsVerified ==
  \A n \in shipped :
    \E i \in DOMAIN log : log[i].type = "passed" /\ log[i].att = n /\ log[i].cand = n

\* core.py:381: "an incomplete delivery runs through the normal idempotent
\* delivery path".
RedeliveryIsIdempotent ==
  \A i \in DOMAIN log : log[i].type = "undelivered" => log[i].att \notin shipped

\* core.py:354: "Drive every currently blocked/queued/running/triage task to a
\* resting state".
RunsToRest == <>(row.state \in TERMINAL \cup {"needs_human"})
=============================================================================
