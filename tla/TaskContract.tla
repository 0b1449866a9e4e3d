------------------------------ MODULE TaskContract ------------------------------
(***************************************************************************)
(* What the scheduler promises about a task, without saying how: the row of *)
(* the task moves along the edges of the state machine, a new attempt costs *)
(* a retry unless a person or the queue asked for it, and what is handed    *)
(* off has been claimed by a worker and has passed verification.  Workers,  *)
(* coroutines, leases and crashes do not appear.  TaskRuntime (one process) *)
(* and Restart (a series of them) are shown to implement it.                *)
(***************************************************************************)
EXTENDS Naturals, TaskStates

CONSTANTS
  MaxRetries,   \* tasks.max_retries
  Redelivers    \* a hand-off may be repeated: the process can be killed after it

VARIABLES
  state,     \* tasks.state
  retries,   \* tasks.retries
  attempt,   \* tasks.attempt_id, as a number; 0 before the first
  passed,    \* the attempts whose verification passed
  shipped    \* the attempts whose work was handed off

vars == <<state, retries, attempt, passed, shipped>>

Init ==
  /\ state = "queued" /\ retries = 0 /\ attempt = 0
  /\ passed = {} /\ shipped = {}

-----------------------------------------------------------------------------
Moves(from, to) == state \in from /\ Legal(state, to) /\ state' = to

\* A task that was queued, at first or by an answer, starts a new attempt.
Launches ==
  /\ Moves({"queued"}, "running")
  /\ attempt' \in Nat /\ attempt' > attempt
  /\ UNCHANGED <<retries, passed, shipped>>

\* A recovery starts a new attempt and pays for it.
Retries ==
  /\ Moves({"triage"}, "running")
  /\ attempt' \in Nat /\ attempt' > attempt
  /\ retries < MaxRetries /\ retries' = retries + 1
  /\ UNCHANGED <<passed, shipped>>

\* A nudge or a wait: the same attempt goes on.
Continues ==
  /\ Moves({"triage"}, "running")
  /\ UNCHANGED <<retries, attempt, passed, shipped>>

Claims ==
  /\ Moves({"running"}, "verifying")
  /\ UNCHANGED <<retries, attempt, passed, shipped>>

\* The gate passes the current attempt, also one that was cancelled meanwhile.
Passes ==
  /\ state \in {"verifying", "cancelled"}
  /\ passed' = passed \cup {attempt}
  /\ state' = state \/ Moves({"verifying"}, "delivering")
  /\ UNCHANGED <<retries, attempt, shipped>>

StartsDelivery ==
  /\ Moves({"verifying"}, "delivering") /\ attempt \in passed
  /\ UNCHANGED <<retries, attempt, passed, shipped>>

\* Its declared artifacts are missing: the verdict does not stand.
Rejects ==
  /\ state \in {"delivering", "cancelled"} /\ attempt \notin shipped
  /\ passed' = passed \ {attempt}
  /\ UNCHANGED <<state, retries, attempt, shipped>>

\* The hand-off, of an attempt that has passed, comes before the state change,
\* which a cancel may forbid.
HandsOff ==
  /\ state \in {"delivering", "cancelled"} /\ attempt \in passed
  /\ Redelivers \/ shipped = {}
  /\ shipped' = shipped \cup {attempt}
  /\ state' = state \/ Moves({"delivering"}, "delivered")
  /\ UNCHANGED <<retries, attempt, passed>>

Delivers ==
  /\ Moves({"delivering"}, "delivered") /\ attempt \in shipped
  /\ UNCHANGED <<retries, attempt, passed, shipped>>

\* Something went wrong; nothing goes wrong with work that was handed off,
\* unless the hand-off is being repeated.
Fails ==
  /\ Moves({"running", "verifying", "delivering"}, "triage")
  /\ Redelivers \/ attempt \notin shipped
  /\ UNCHANGED <<retries, attempt, passed, shipped>>

Settles ==
  /\ \E to \in {"needs_human", "failed"} : Moves({"triage"}, to)
  /\ UNCHANGED <<retries, attempt, passed, shipped>>

Answered ==
  /\ Moves({"needs_human"}, "queued")
  /\ UNCHANGED <<retries, attempt, passed, shipped>>

Cancelled ==
  /\ Moves(STATES, "cancelled")
  /\ UNCHANGED <<retries, attempt, passed, shipped>>

Next ==
  \/ Launches \/ Retries \/ Continues \/ Claims \/ Passes \/ StartsDelivery
  \/ Rejects \/ HandsOff \/ Delivers \/ Fails \/ Settles \/ Answered \/ Cancelled

Spec == Init /\ [][Next]_vars

-----------------------------------------------------------------------------
(* What the contract amounts to. *)

\* The retries stay within the budget, a delivered task's current attempt was
\* handed off, everything handed off has passed, and only one thing is handed
\* off unless a kill can make the scheduler repeat it.
Promise ==
  /\ retries <= MaxRetries
  /\ state = "delivered" => attempt \in shipped
  /\ shipped \subseteq passed
  /\ ~Redelivers => \A m, n \in shipped : m = n

\* A delivered, failed or cancelled task never changes its state again, and no
\* new attempt replaces it or spends a retry (events.py:81).
Final == [][(state \in TERMINAL) => UNCHANGED <<state, attempt, retries>>]_vars

\* Why it amounts to that: an attempt that has passed is one the row has named,
\* and the work that was handed off is the current attempt's, once it can no
\* longer be replaced.
Coherent ==
  /\ state \in STATES
  /\ retries \in Nat /\ retries <= MaxRetries
  /\ attempt \in Nat
  /\ shipped \subseteq passed
  /\ state = "delivered" => attempt \in shipped
  /\ ~Redelivers =>
       /\ shipped \subseteq {attempt}
       /\ shipped # {} => state \in {"delivering", "delivered", "cancelled"}
=============================================================================
