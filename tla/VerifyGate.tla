------------------------------ MODULE VerifyGate ------------------------------
(***************************************************************************)
(* The two verification gates of verify/: the one of gate.py and the        *)
(* evidence ladder of evidence.py, which replaces it when the scheduler is  *)
(* started with evidence_ladder.  Both are given the same request about the *)
(* same repository, one after the other, so that their verdicts can be      *)
(* compared.  A gate runs in a thread of its own: the slot in which the     *)
(* worker lived has been given back by then, and another task may use it    *)
(* while the gate looks at it.                                              *)
(***************************************************************************)
EXTENDS Integers, Sequences

CONSTANT Requests   \* the requests considered

Outcome == {"ok", "failed", "timeout"}

(* A request, with what the repository and the checks hold in store for it. *)
(* The candidate is a commit that may have no name in the repository any    *)
(* more ("unknown"), resolve to an object that is gone, or refuse to be     *)
(* checked out ("stuck").  A worker that left nothing uncommitted is        *)
(* recorded with no status at all: dirty stands for worker_dirty being set. *)
Request ==
  [candidate : {"none", "ok", "unknown", "gone", "stuck"},
   dirty : BOOLEAN,
   empty : BOOLEAN,                                 \* the candidate changes no file
   allowEmpty : BOOLEAN,                            \* the worker claimed that nothing was to do
   rerun : BOOLEAN,                                 \* rerun_on_fail
   protocol : {"none", "ok", "bad"},
   artifacts : {"none", "ok", "bad", "raises"},
   explicit : BOOLEAN,                              \* the request names the targeted commands
   targeted : Seq(Outcome),                         \* of those, or of the tests of the
                                                    \* changed files in the candidate
   outside : BOOLEAN,                               \* one of those lies outside the slot
   visible : Outcome \X Outcome]                    \* of verify_cmd, run and run again

ASSUME GateAssumption == Requests \subseteq Request

STAGES == <<"protocol_result", "git_candidate", "artifact_schema",
            "targeted_checks", "full_visible_verification">>

VARIABLES
  req,      \* the request
  slot,     \* the checkout in which the worker lived, whoever has it now
  legacy,   \* the state of gate.py
  ladder    \* the state of evidence.py

vars == <<req, slot, legacy, ladder>>

\* Uncommitted files in the slot, and how the tests it holds of the files the
\* candidate changes compare with those the candidate holds.
Slot == [dirty : BOOLEAN, tests : {"same", "more", "none"}]

\* runs: the verify commands run so far, each with its outcome and where it ran.
Init ==
  /\ req \in Requests
  /\ slot \in Slot
  /\ legacy = [pc |-> "status", runs |-> <<>>, checkout |-> FALSE,
               passed |-> FALSE, cause |-> "none", flaky |-> FALSE]
  /\ ladder = [pc |-> "plan", plan |-> <<>>, stage |-> 1, report |-> <<>>, decisive |-> 0,
               runs |-> <<>>, checks |-> 0, checkout |-> FALSE,
               passed |-> FALSE, cause |-> "tests_passed", flaky |-> FALSE]

\* Another task's worker uses the slot.
SlotReused ==
  /\ slot' \in Slot \ {slot}
  /\ UNCHANGED <<req, legacy, ladder>>

Given == req.candidate # "none"

\* git diff base candidate prints no name: nothing was changed, or git fails.
NothingChanged == req.empty \/ req.candidate \in {"unknown", "gone"}

\* git worktree add of the candidate succeeds.
Materialized == req.candidate = "ok"

\* Mutant of Run: the command runs where the worker lived.
RunInSlot(g, n) == [outcome |-> req.visible[n], where |-> "slot"]

\* What running verify_cmd for the n-th time gives, in which directory.
Run(g, n) == [outcome |-> req.visible[n],
              where |-> IF g.checkout THEN "candidate" ELSE "slot"]

-----------------------------------------------------------------------------
(* gate.py *)

Legacy == UNCHANGED <<req, slot, ladder>>

\* done(): the verdict; the checkout is removed on every way out.
Done(g, passed, cause) ==
  legacy' = [g EXCEPT !.pc = "end", !.passed = passed, !.cause = cause, !.checkout = FALSE]

\* Only what the worker left counts once there is a candidate.
LegacyStatus ==
  /\ legacy.pc = "status" /\ Legacy
  /\ IF req.dirty \/ (~Given /\ slot.dirty)
     THEN Done(legacy, FALSE, "uncommitted_changes")
     ELSE legacy' = [legacy EXCEPT !.pc = "diff"]

LegacyDiff ==
  /\ legacy.pc = "diff" /\ Legacy
  /\ \/ NothingChanged /\ req.allowEmpty /\ Done(legacy, TRUE, "no_change")
     \/ NothingChanged /\ ~req.allowEmpty /\ Done(legacy, FALSE, "empty_diff")
     \/ ~NothingChanged /\ legacy' = [legacy EXCEPT !.pc = "checkout"]

LegacyCheckout ==
  /\ legacy.pc = "checkout" /\ Legacy
  /\ IF Given /\ ~Materialized
     THEN Done(legacy, FALSE, "candidate_checkout_failed")
     ELSE legacy' = [legacy EXCEPT !.pc = "run", !.checkout = Given]

LegacyRun ==
  /\ legacy.pc = "run" /\ Legacy
  /\ LET r == Run(legacy, 1)
         g == [legacy EXCEPT !.runs = Append(@, r)]
     IN  \/ r.outcome = "timeout" /\ Done(g, FALSE, "timeout")
         \/ r.outcome = "ok" /\ Done(g, TRUE, "tests_passed")
         \/ r.outcome = "failed" /\ ~req.rerun /\ Done(g, FALSE, "tests_failed")
         \/ r.outcome = "failed" /\ req.rerun /\ legacy' = [g EXCEPT !.pc = "rerun"]

LegacyRerun ==
  /\ legacy.pc = "rerun" /\ Legacy
  /\ LET r == Run(legacy, 2)
         g == [legacy EXCEPT !.runs = Append(@, r), !.flaky = r.outcome = "ok"]
     IN  Done(g, g.flaky, IF g.flaky THEN "tests_passed" ELSE "tests_failed")

LegacyNext == LegacyStatus \/ LegacyDiff \/ LegacyCheckout \/ LegacyRun \/ LegacyRerun

-----------------------------------------------------------------------------
(* evidence.py *)

Ladder == UNCHANGED <<req, slot, legacy>>

\* The tests of the changed files are looked up in the slot, and run in the
\* candidate, where one that only the slot holds cannot be found.
TargetedCommands ==
  CASE req.explicit -> req.targeted
    [] ~req.explicit /\ (NothingChanged \/ slot.tests = "none") -> <<>>
    [] ~req.explicit /\ ~NothingChanged /\ slot.tests = "same" -> req.targeted
    [] ~req.explicit /\ ~NothingChanged /\ slot.tests = "more" -> Append(req.targeted, "failed")

\* The name of a test beside its file is looked up where the daemon runs: one
\* that is found there has no path relative to the slot.
PlanRaises == ~req.explicit /\ ~NothingChanged /\ req.outside

LadderPlan ==
  /\ legacy.pc = "end" /\ ladder.pc = "plan" /\ Ladder
  /\ \/ PlanRaises /\ ladder' = [ladder EXCEPT !.pc = "raised"]
     \/ /\ ~PlanRaises
        /\ ladder' = [ladder EXCEPT !.pc = "stage", !.plan = TargetedCommands]

Entry(l, verdict) == Append(l.report, [stage |-> l.stage, verdict |-> verdict])

StagePasses(l) ==
  ladder' = [l EXCEPT !.pc = "stage", !.report = Entry(l, "passed"), !.stage = @ + 1]

\* failure(): the first one decides.
StageFails(l, cause) ==
  ladder' = [l EXCEPT !.pc = "stage", !.report = Entry(l, "failed"), !.stage = @ + 1,
                      !.decisive = l.stage, !.cause = cause]

Applicable(l, s) ==
  CASE s = "protocol_result" -> req.protocol # "none"
    [] s = "artifact_schema" -> req.artifacts # "none"
    [] s = "targeted_checks" -> l.plan # <<>>
    [] OTHER -> TRUE

\* Mutant of Enters: the stages after a failure are not skipped.
EntersAnyway(s) ==
  /\ ladder.pc = "stage" /\ ladder.stage \in DOMAIN STAGES /\ STAGES[ladder.stage] = s
  /\ Applicable(ladder, s)
  /\ Ladder

\* The ladder is about to enter stage s.
Enters(s) ==
  /\ ladder.pc = "stage" /\ ladder.stage \in DOMAIN STAGES /\ STAGES[ladder.stage] = s
  /\ ladder.decisive = 0 /\ Applicable(ladder, s)
  /\ Ladder

LadderSkips ==
  /\ ladder.pc = "stage" /\ ladder.stage \in DOMAIN STAGES
  /\ ladder.decisive # 0 \/ ~Applicable(ladder, STAGES[ladder.stage])
  /\ ladder' = [ladder EXCEPT !.report = Entry(ladder, "skipped"), !.stage = @ + 1]
  /\ Ladder

LadderProtocol ==
  /\ Enters("protocol_result")
  /\ IF req.protocol = "ok" THEN StagePasses(ladder)
                            ELSE StageFails(ladder, "protocol_failure")

\* Mutant of LadderCandidate: only the slot is looked at, not what the worker left.
SlotDecides ==
  /\ Enters("git_candidate")
  /\ \/ slot.dirty /\ StageFails(ladder, "uncommitted_changes")
     \/ ~slot.dirty /\ req.candidate # "ok" /\ StageFails(ladder, "candidate_missing")
     \/ ~slot.dirty /\ req.candidate = "ok" /\ StagePasses([ladder EXCEPT !.checkout = TRUE])

\* A worker without a recorded status is looked up in the slot, also when there
\* is a candidate.  The candidate passes before its checkout is made, and fails
\* the same stage again when that is refused.
LadderCandidate ==
  /\ Enters("git_candidate")
  /\ \/ (req.dirty \/ slot.dirty) /\ StageFails(ladder, "uncommitted_changes")
     \/ /\ ~(req.dirty \/ slot.dirty)
        /\ \/ req.candidate = "unknown" /\ StageFails(ladder, "candidate_missing")
           \/ /\ req.candidate # "unknown" /\ NothingChanged /\ ~req.allowEmpty
              /\ StageFails(ladder, "empty_diff")
           \/ /\ req.candidate # "unknown" /\ (NothingChanged => req.allowEmpty)
              /\ LET l == [ladder EXCEPT !.cause = IF NothingChanged THEN "no_change" ELSE @]
                 IN  IF Given /\ ~Materialized
                     THEN StageFails([l EXCEPT !.report = Entry(l, "passed")],
                                     "candidate_checkout_failed")
                     ELSE StagePasses([l EXCEPT !.checkout = Given])

\* An artifact that cannot be read raises out of the ladder.
LadderArtifacts ==
  /\ Enters("artifact_schema")
  /\ \/ req.artifacts = "ok" /\ StagePasses(ladder)
     \/ req.artifacts = "bad" /\ StageFails(ladder, "artifact_validation_failed")
     \/ req.artifacts = "raises" /\ ladder' = [ladder EXCEPT !.pc = "raised"]

\* One command at a time; the first that does not succeed ends the stage.
LadderTargeted ==
  /\ Enters("targeted_checks")
  /\ LET n == ladder.checks + 1
         l == [ladder EXCEPT !.checks = n]
     IN  \/ ladder.plan[n] = "timeout" /\ StageFails(l, "targeted_checks_timeout")
         \/ ladder.plan[n] = "failed" /\ StageFails(l, "targeted_checks_failed")
         \/ ladder.plan[n] = "ok" /\ n = Len(ladder.plan) /\ StagePasses(l)
         \/ ladder.plan[n] = "ok" /\ n < Len(ladder.plan) /\ ladder' = l

LadderVisible ==
  /\ Enters("full_visible_verification")
  /\ LET r == Run(ladder, 1)
         l == [ladder EXCEPT !.runs = Append(@, r)]
     IN  \/ r.outcome = "timeout" /\ StageFails(l, "timeout")
         \/ r.outcome = "ok" /\ StagePasses([l EXCEPT !.cause = "tests_passed"])
         \/ r.outcome = "failed" /\ ~req.rerun /\ StageFails(l, "tests_failed")
         \/ /\ r.outcome = "failed" /\ req.rerun
            /\ ladder' = [l EXCEPT !.pc = "rerun", !.cause = "tests_failed"]

\* A second run that succeeds passes the stage and leaves the cause alone.
LadderRerun ==
  /\ ladder.pc = "rerun" /\ Ladder
  /\ LET r == Run(ladder, 2)
         l == [ladder EXCEPT !.runs = Append(@, r), !.flaky = r.outcome = "ok"]
     IN  IF l.flaky THEN StagePasses(l) ELSE StageFails(l, "tests_failed")

LadderEnds ==
  /\ ladder.pc = "stage" /\ ladder.stage = Len(STAGES) + 1 /\ Ladder
  /\ ladder' = [ladder EXCEPT !.pc = "end", !.passed = ladder.decisive = 0, !.checkout = FALSE]

LadderNext ==
  \/ LadderPlan \/ LadderSkips \/ LadderEnds
  \/ LadderProtocol \/ LadderCandidate \/ LadderArtifacts
  \/ LadderTargeted \/ LadderVisible \/ LadderRerun

Next == LegacyNext \/ LadderNext \/ SlotReused

Spec == Init /\ [][Next]_vars

-----------------------------------------------------------------------------
(* Properties. *)

Runs == Seq([outcome : Outcome, where : {"candidate", "slot"}])

Report == Seq([stage : DOMAIN STAGES, verdict : {"passed", "failed", "skipped"}])

LegacyCauses ==
  {"none", "uncommitted_changes", "no_change", "empty_diff",
   "candidate_checkout_failed", "timeout", "tests_failed", "tests_passed"}

LadderCauses ==
  {"protocol_failure", "uncommitted_changes", "candidate_missing", "empty_diff",
   "no_change", "candidate_checkout_failed", "artifact_validation_failed",
   "targeted_checks_timeout", "targeted_checks_failed",
   "timeout", "tests_failed", "tests_passed"}

LegacyState ==
  [pc : {"status", "diff", "checkout", "run", "rerun", "end"}, runs : Runs,
   checkout : BOOLEAN, passed : BOOLEAN, flaky : BOOLEAN, cause : LegacyCauses]

LadderState ==
  [pc : {"plan", "stage", "rerun", "raised", "end"}, plan : Seq(Outcome),
   stage : 1..(Len(STAGES) + 1), report : Report, decisive : 0..Len(STAGES),
   runs : Runs, checks : Nat, checkout : BOOLEAN, passed : BOOLEAN, flaky : BOOLEAN,
   cause : LadderCauses]

TypeOK ==
  /\ req \in Requests
  /\ slot \in Slot
  /\ legacy \in LegacyState
  /\ ladder \in LadderState

\* What the ladder asks for beyond the gate of gate.py.
Extra == {"protocol_result", "artifact_schema", "targeted_checks"}

(* Turning the ladder on makes verification stricter, never laxer: what the *)
(* ladder passes, the gate without it passes; and what only the ladder      *)
(* refuses is refused by one of its own stages, for files lying in the      *)
(* slot, or because the gate did not look at a candidate without a change.  *)
GatesAgree ==
  ladder.pc = "end" /\ Given =>
    /\ ladder.passed => legacy.passed
    /\ legacy.passed /\ ~ladder.passed =>
         \/ STAGES[ladder.decisive] \in Extra
         \/ ladder.cause = "uncommitted_changes"
         \/ legacy.cause = "no_change"

(* A verdict that lets a task be delivered is earned by the last run of     *)
(* verify_cmd, which succeeded, in a checkout of the candidate and never in *)
(* the slot that may be another task's by now; the gate of gate.py alone    *)
(* passes a worker's claim that nothing was to do without running anything. *)
Earned(g) ==
  /\ g.runs # <<>> /\ g.runs[Len(g.runs)].outcome = "ok"
  /\ Given => \A i \in DOMAIN g.runs : g.runs[i].where = "candidate"

PassIsEarned ==
  /\ legacy.passed => Earned(legacy) \/ (legacy.cause = "no_change" /\ req.allowEmpty)
  /\ ladder.passed => Earned(ladder)

(* The stages recorded as verify.evidence_stage events read as a ladder:    *)
(* cheap to expensive, each one reported; after the failure nothing was     *)
(* tried, so the command that costs most never ran for a candidate a        *)
(* cheaper stage refuses, and the run fails for that stage.                 *)
ReportIsLadder ==
  /\ \A i, j \in DOMAIN ladder.report :
       i < j =>
         /\ ladder.report[i].stage <= ladder.report[j].stage
         /\ ladder.report[i].verdict = "failed" => ladder.report[j].verdict = "skipped"
  /\ (\E i \in DOMAIN ladder.report : ladder.report[i].verdict = "failed"
                                    /\ STAGES[ladder.report[i].stage] # "full_visible_verification")
       => ladder.runs = <<>>
  /\ ladder.pc = "end" =>
       /\ {ladder.report[i].stage : i \in DOMAIN ladder.report} = DOMAIN STAGES
       /\ ladder.passed <=> \A i \in DOMAIN ladder.report : ladder.report[i].verdict # "failed"

-----------------------------------------------------------------------------
(* What the repository says of the gates, and the code does not do:         *)
(* VerifyGateDepartures.cfg refutes each of them.                           *)

(* core.py:862 "Verification uses that SHA, not the now-reusable worker     *)
(* path": a candidate whose worker left nothing behind is not refused for   *)
(* files in the slot.                                                       *)
CandidateIsPinned ==
  Given /\ ladder.cause = "uncommitted_changes" => req.dirty

(* gate.py:133 "internal disposable checkout": none survives its gate.      *)
CheckoutsRemoved ==
  ladder.pc \in {"end", "raised"} => ~legacy.checkout /\ ~ladder.checkout

(* A passing verdict does not name a failure as its cause.                  *)
PassNamesNoFailure ==
  ladder.passed => ladder.cause \in {"tests_passed", "no_change"}

(* evidence.py:1 "visible verification": a passing verdict of either gate   *)
(* rests on a run of the command.                                           *)
NoChangeIsVerified ==
  legacy.passed => legacy.runs # <<>>

=============================================================================
