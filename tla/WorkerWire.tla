------------------------------ MODULE WorkerWire ------------------------------
(***************************************************************************)
(* What the scheduler relies on when it reads the lines of a worker: the    *)
(* conversation of the JSON-lines protocol, told by whose turn it is.       *)
(* Lines that only show progress are left out.                              *)
(***************************************************************************)

VARIABLES
  turn,      \* who is to speak: "worker", "scheduler", or "nobody" any more
  word,      \* the last line that calls for something, or "none" since the reply
  started,   \* execution_started has been seen
  alive      \* the process of the worker runs

vars == <<turn, word, started, alive>>

\* The claims of a worker about its task, and what it says of a backend.
Claims == {"done_claimed", "no_change", "unclaimed"}
Failures == {"startup_failed", "sdk_failed", "sdk_timeout"}
LastWords == Claims \cup Failures

Init ==
  /\ turn = "worker" /\ word = "none"
  /\ started = FALSE /\ alive = TRUE

Starts ==
  /\ alive /\ turn = "worker" /\ ~started
  /\ started' = TRUE
  /\ UNCHANGED <<turn, word, alive>>

\* A question hands the turn over, unless nobody listens any more; one line of
\* the scheduler hands it back.
Asks ==
  /\ alive /\ turn = "worker" /\ started
  /\ turn' \in {"scheduler", "nobody"} /\ word' = "asked"
  /\ UNCHANGED <<started, alive>>

Replies ==
  /\ alive /\ turn = "scheduler"
  /\ turn' = "worker" /\ word' = "none"
  /\ UNCHANGED <<started, alive>>

\* Nothing is said after a last word, and no claim is made by a session that
\* never started.
SaysLast(w) ==
  /\ alive /\ turn = "worker"
  /\ w \in Claims => started
  /\ turn' = "nobody" /\ word' = w
  /\ UNCHANGED <<started, alive>>

\* A worker may fall silent at any time, and be killed at any time.
FallsSilent ==
  /\ alive /\ turn \in {"worker", "scheduler"}
  /\ turn' = "nobody"
  /\ UNCHANGED <<word, started, alive>>

Exits ==
  /\ alive
  /\ turn' = "nobody" /\ alive' = FALSE
  /\ UNCHANGED <<word, started>>

Next ==
  \/ Starts \/ Asks \/ Replies \/ FallsSilent \/ Exits
  \/ \E w \in LastWords : SaysLast(w)

Spec == Init /\ [][Next]_vars

=============================================================================
