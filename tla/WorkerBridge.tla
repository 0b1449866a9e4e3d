----------------------------- MODULE WorkerBridge -----------------------------
(***************************************************************************)
(* The two processes that give a coding agent the JSON-lines protocol of    *)
(* the scheduler: sdk_worker.py, which drives the Agent SDK turn by turn,   *)
(* and cli_worker.py, which translates the stream of a `claude` process.    *)
(* The agent is external: all that is assumed of it is what the bridges     *)
(* assume, that it works after a prompt and waits for one after a result.   *)
(* Records that neither start a session nor end a turn are left out.        *)
(***************************************************************************)
EXTENDS Integers

CONSTANTS
  MaxAsks,      \* bound: questions a worker asks
  ReplyLines    \* the numbers of lines a nudge of the supervisor may have

ASSUME BridgeAssumption == MaxAsks \in Nat /\ ReplyLines \subseteq Nat \ {0}

VARIABLES
  kind,      \* "sdk" or "cli"
  pc,        \* where the bridge is
  out,       \* what it has written: said, the last line that calls for something or
             \* "none" since the reply was read, and whether execution_started was written
  in,        \* its standard input: the lines not yet read, whether the scheduler's end
             \* is closed, and whether the scheduler owes a reply to a question
  asks,      \* questions asked
  child      \* the `claude` process of cli_worker.py

vars == <<kind, pc, out, in, asks, child>>

Gone == {"done", "failed"}   \* how the child exits

Init ==
  /\ kind \in {"sdk", "cli"}
  /\ pc = "begin" /\ asks = 0 /\ child = "none"
  /\ out = [said |-> "none", started |-> FALSE]
  /\ in = [lines |-> 0, closed |-> FALSE, owed |-> FALSE]

Goes(k, from, to) == kind = k /\ pc = from /\ pc' = to /\ UNCHANGED kind

\* A line that calls for something, written by a bridge of kind k.
Says(k, from, w, to) ==
  /\ Goes(k, from, to)
  /\ out' = [out EXCEPT !.said = w]
  /\ UNCHANGED <<in, asks>>

Silently(k, from, to) ==
  /\ Goes(k, from, to)
  /\ UNCHANGED <<out, in, asks>>

\* Mutant of Question: the bridge goes on without the reply.
QuestionInPassing(k) ==
  /\ asks < MaxAsks
  /\ Goes(k, "answered", "turn")
  /\ out' = [out EXCEPT !.said = "asked"]
  /\ in' = [in EXCEPT !.owed = TRUE]
  /\ asks' = asks + 1

Question(k) ==
  /\ asks < MaxAsks
  /\ Goes(k, "answered", "reading")
  /\ out' = [out EXCEPT !.said = "asked"]
  /\ in' = [in EXCEPT !.owed = TRUE]
  /\ asks' = asks + 1

\* readline returns a line, or nothing at the end of the input.
ReadsLine ==
  /\ in.lines > 0
  /\ in' = [in EXCEPT !.lines = @ - 1]
  /\ out' = [out EXCEPT !.said = "none"]
  /\ UNCHANGED asks

EndOfInput == in.lines = 0 /\ in.closed

-----------------------------------------------------------------------------
(* sdk_worker.py *)

Sdk == UNCHANGED child

SdkConnects ==
  /\ Sdk
  /\ \/ Silently("sdk", "begin", "turn")
     \/ Says("sdk", "begin", "startup_failed", "leave")

\* A ResultMessage that stands: the session has started with the first.
SdkResult ==
  /\ Sdk
  /\ Goes("sdk", "turn", "answered")
  /\ out' = [out EXCEPT !.started = TRUE]
  /\ UNCHANGED <<in, asks>>

\* One that carries a failure, of a session or of none, or a stream without any.
SdkFails ==
  /\ Sdk
  /\ \E w \in {"sdk_failed", "startup_failed"} : Says("sdk", "turn", w, "leave")

SdkRaises == Sdk /\ Silently("sdk", "turn", "leave")

SdkTimeout == Sdk /\ Says("sdk", "turn", "sdk_timeout", "leave")

\* The marker of the result, or that there is none.
SdkAnswers ==
  /\ Sdk
  /\ \/ Question("sdk")
     \/ \E w \in {"done_claimed", "no_change", "unclaimed"} : Says("sdk", "answered", w, "leave")

SdkReads ==
  /\ Sdk
  /\ \/ ReadsLine /\ Goes("sdk", "reading", "turn")
     \/ EndOfInput /\ Silently("sdk", "reading", "leave")

-----------------------------------------------------------------------------
(* cli_worker.py *)

\* The process cannot be started or takes no prompt, or it is at work.
CliSpawns ==
  \/ UNCHANGED child /\ Says("cli", "begin", "startup_failed", "leave")
  \/ child' = "busy" /\ Silently("cli", "begin", "turn")

\* The first record of a session.
CliRecord ==
  /\ child = "busy" /\ ~out.started
  /\ Goes("cli", "turn", "turn")
  /\ out' = [out EXCEPT !.started = TRUE]
  /\ UNCHANGED <<in, asks, child>>

\* A line that is no known record, or the record of another session.
CliMalformed ==
  /\ child = "busy" /\ child' = "failed"
  /\ Says("cli", "turn", "startup_failed", "leave")

CliResult ==
  /\ child = "busy" /\ child' = "idle"
  /\ Goes("cli", "turn", "answered")
  /\ out' = [out EXCEPT !.started = TRUE]
  /\ UNCHANGED <<in, asks>>

\* A failure is looked for in the result and in all the agent has said; the
\* child of a failed session is killed, the one of a finished session is not.
CliAnswers ==
  \/ child' = "failed" /\ Says("cli", "answered", "startup_failed", "leave")
  \/ UNCHANGED child /\ Question("cli")
  \/ UNCHANGED child /\ Says("cli", "answered", "done_claimed", "reap")
  \/ UNCHANGED child /\ Silently("cli", "answered", "turn")

\* The reply is passed on, unless the pipe to the child is broken.
CliReads ==
  \/ /\ ReadsLine /\ Goes("cli", "reading", "turn")
     /\ child' = IF child = "idle" THEN "busy" ELSE child
  \/ /\ ReadsLine /\ Goes("cli", "reading", "leave")
     /\ child \in Gone /\ UNCHANGED child
  \/ EndOfInput /\ Silently("cli", "reading", "leave") /\ UNCHANGED child

\* Mutant of CliEnds: an empty line is skipped, not taken for the end.
CliSkipsEmpty ==
  /\ child = "failed" /\ ~out.started /\ UNCHANGED child
  /\ Says("cli", "turn", "startup_failed", "leave")

\* The end of the child's output, before a claim: an exit code counts only for
\* a session that never started.
CliEnds ==
  /\ child \in Gone /\ UNCHANGED child
  /\ \/ child = "failed" /\ ~out.started /\ Says("cli", "turn", "startup_failed", "leave")
     \/ ~(child = "failed" /\ ~out.started) /\ Silently("cli", "turn", "leave")

\* process.wait() after a claim.
CliReaps == child \in Gone /\ UNCHANGED child /\ Silently("cli", "reap", "leave")

-----------------------------------------------------------------------------
(* Their surroundings. *)

\* The disconnection is bounded and its failure ignored.
Leaves == (Silently("sdk", "leave", "gone") \/ Silently("cli", "leave", "gone")) /\ UNCHANGED child

\* The scheduler replies to a question, in as many lines as the nudge has.
Reply ==
  /\ in.owed /\ ~in.closed /\ pc # "gone"
  /\ \E n \in ReplyLines : in' = [in EXCEPT !.lines = @ + n, !.owed = FALSE]
  /\ UNCHANGED <<kind, pc, out, asks, child>>

\* The scheduler is gone, and with it its end of the pipe.
Closes ==
  /\ ~in.closed /\ pc # "gone"
  /\ in' = [in EXCEPT !.closed = TRUE]
  /\ UNCHANGED <<kind, pc, out, asks, child>>

\* The scheduler kills the process group, at a stall or at a teardown.
Killed ==
  /\ pc # "gone" /\ pc' = "gone"
  /\ child' = IF child = "none" THEN "none" ELSE "failed"
  /\ UNCHANGED <<kind, out, in, asks>>

\* The agent dies, or ends for a reason of its own.
ChildExits ==
  /\ child \in {"busy", "idle"} /\ child' \in Gone
  /\ UNCHANGED <<kind, pc, out, in, asks>>

SdkSteps == SdkConnects \/ SdkResult \/ SdkFails \/ SdkRaises \/ SdkTimeout \/ SdkAnswers \/ SdkReads

CliSteps == CliSpawns \/ CliRecord \/ CliMalformed \/ CliResult \/ CliAnswers \/ CliReads
            \/ CliEnds \/ CliReaps

Next == SdkSteps \/ CliSteps \/ Leaves \/ Reply \/ Closes \/ Killed \/ ChildExits

Spec == Init /\ [][Next]_vars

\* A bridge runs, and its timeouts fire; nothing is asked of the agent, of the
\* scheduler, or of the order in which a turn's ways to end come up.
LiveSpec ==
  /\ Spec
  /\ WF_vars(SdkConnects) /\ WF_vars(SdkTimeout) /\ WF_vars(SdkAnswers) /\ WF_vars(SdkReads)
  /\ WF_vars(CliSpawns) /\ WF_vars(CliAnswers) /\ WF_vars(CliReads)
  /\ WF_vars(CliEnds) /\ WF_vars(CliReaps) /\ WF_vars(Leaves)

-----------------------------------------------------------------------------
(* Properties. *)

TypeOK ==
  /\ kind \in {"sdk", "cli"}
  /\ pc \in {"begin", "turn", "answered", "reading", "reap", "leave", "gone"}
  /\ out \in [said : {"none", "asked", "done_claimed", "no_change", "unclaimed",
                      "startup_failed", "sdk_failed", "sdk_timeout"},
              started : BOOLEAN]
  /\ in \in [lines : Nat, closed : BOOLEAN, owed : BOOLEAN]
  /\ asks \in Nat
  /\ child \in {"none", "busy", "idle", "done", "failed"}

Awaiting == pc = "reading" /\ in.lines = 0

Turn ==
  CASE pc \in {"leave", "reap", "gone"} -> "nobody"
    [] Awaiting /\ in.closed -> "nobody"
    [] Awaiting /\ ~in.closed -> "scheduler"
    [] pc \in {"begin", "turn", "answered"} \/ (pc = "reading" /\ in.lines > 0) -> "worker"

\* A question is settled when the scheduler replies.
Word == IF out.said = "asked" /\ ~in.owed THEN "none" ELSE out.said

Wire == INSTANCE WorkerWire WITH
  turn <- Turn, word <- Word, started <- out.started, alive <- pc # "gone"

(* Both bridges speak the protocol the scheduler reads: a question is       *)
(* followed by its reply before anything else is said, nothing follows a    *)
(* last word, and nothing is claimed of a session that did not start.       *)
WireRefined == Wire!Spec

(* A bridge that is not waiting for the scheduler comes to an end of its    *)
(* turn by itself, however long the agent is silent: the bounds on each     *)
(* step of the SDK see to it, and cli_worker.py sees its child exit.        *)
TurnsEnd ==
  (Turn # "scheduler" /\ (kind = "sdk" \/ child \in Gone))
    ~> (Turn = "scheduler" \/ pc = "gone")

-----------------------------------------------------------------------------
(* What the code says of the bridges and does not do.                       *)

(* cli_worker.py:489 "A startup failure is reserved for a CLI that never     *)
(* established a usable session or could not be parsed."                    *)
FailureIsOfStartup ==
  [][out'.said = "startup_failed" /\ pc = "answered" => ~out.started]_out

(* cli_worker.py:479 "Waiting here also handles direct CLI use cleanly."     *)
ClaimEnds == out.said = "done_claimed" ~> pc = "gone"

=============================================================================
