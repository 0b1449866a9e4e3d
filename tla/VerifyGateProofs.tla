-------------------------- MODULE VerifyGateProofs --------------------------
(***************************************************************************)
(* Theorems about VerifyGate, for every request: any number of targeted     *)
(* commands, every outcome of each, every reuse of the slot.                *)
(***************************************************************************)
EXTENDS VerifyGate, TLAPS

(* What the visible command will come to, run again where that is asked. *)
VisibleOk ==
  \/ req.visible[1] = "ok"
  \/ req.visible[1] = "failed" /\ req.rerun /\ req.visible[2] = "ok"

(* What gate.py will say of a candidate: a function of the request alone. *)
WillPass ==
  /\ ~req.dirty
  /\ NothingChanged => req.allowEmpty
  /\ ~NothingChanged => Materialized /\ VisibleOk

(* The runs of a gate are in the candidate if there is one. *)
RunsPinned(g) ==
  Given => \A i \in DOMAIN g.runs : g.runs[i].where = "candidate"

(* How far gate.py is, and what it knows by then. *)
LegacyInv ==
  /\ RunsPinned(legacy)
  /\ legacy.passed => legacy.pc = "end"
  /\ legacy.pc \in {"diff", "checkout", "run", "rerun"} => (Given => ~req.dirty)
  /\ legacy.pc \in {"checkout", "run", "rerun"} => ~NothingChanged
  /\ legacy.pc \in {"run", "rerun"} =>
       legacy.checkout = Given /\ (Given => Materialized)
  /\ legacy.pc = "rerun" => req.visible[1] = "failed" /\ req.rerun
  /\ legacy.pc = "end" =>
       /\ Given => (legacy.passed <=> WillPass)
       /\ legacy.passed =>
            \/ legacy.cause = "no_change" /\ req.allowEmpty
            \/ Earned(legacy)
       /\ legacy.passed /\ NothingChanged => legacy.cause = "no_change"

(* What the ladder knows of a candidate it has climbed past without failing. *)
Climbed ==
  Given =>
    /\ ~req.dirty
    /\ Materialized
    /\ NothingChanged => req.allowEmpty

LadderInv ==
  /\ RunsPinned(ladder)
  /\ ladder.pc # "plan" => legacy.pc = "end"
  /\ ladder.pc = "plan" => ladder.stage = 1 /\ ladder.decisive = 0
  /\ ladder.passed => ladder.pc = "end" /\ ladder.decisive = 0
  /\ ladder.pc = "end" => ladder.stage = 6 /\ (ladder.decisive = 0 => ladder.passed)
  /\ ladder.decisive = 0 /\ ladder.stage > 2 =>
       Climbed /\ (ladder.pc # "end" => ladder.checkout = Given)
  /\ ladder.pc = "rerun" =>
       /\ ladder.stage = 5 /\ ladder.decisive = 0
       /\ req.visible[1] = "failed" /\ req.rerun
  /\ ladder.decisive = 0 /\ ladder.stage = 6 => VisibleOk /\ Earned(ladder)
  /\ ladder.decisive = 2 /\ Given =>
       ladder.cause = "uncommitted_changes" \/ NothingChanged \/ ~WillPass
  /\ ladder.decisive = 5 => ~VisibleOk

Inv == TypeOK /\ LegacyInv /\ LadderInv

-----------------------------------------------------------------------------
(* Sequences of runs and entries, and the ladder's five stages. *)

LEMMA Appended ==
  ASSUME NEW S, NEW s \in Seq(S), NEW e \in S
  PROVE  /\ Append(s, e) \in Seq(S)
         /\ Append(s, e) # <<>>
         /\ Append(s, e)[Len(Append(s, e))] = e
         /\ \A i \in DOMAIN Append(s, e) :
              Append(s, e)[i] = e \/ (i \in DOMAIN s /\ Append(s, e)[i] = s[i])
OBVIOUS

LEMMA Stages ==
  /\ Len(STAGES) = 5
  /\ DOMAIN STAGES = 1..5
  /\ STAGES[1] = "protocol_result"
  /\ STAGES[2] = "git_candidate"
  /\ STAGES[3] = "artifact_schema"
  /\ STAGES[4] = "targeted_checks"
  /\ STAGES[5] = "full_visible_verification"
BY DEF STAGES

LEMMA RequestType ==
  ASSUME req \in Requests
  PROVE  /\ req \in Request
         /\ req.visible[1] \in Outcome /\ req.visible[2] \in Outcome
         /\ req.targeted \in Seq(Outcome)
BY GateAssumption DEF Request

(* A run that has just ended is one of the runs of its gate. *)
LEMMA RunAdded ==
  ASSUME NEW g, g.runs \in Runs, g.checkout \in BOOLEAN, req \in Requests,
         NEW n \in {1, 2}, RunsPinned(g), Given => g.checkout,
         NEW h, h.runs = Append(g.runs, Run(g, n))
  PROVE  /\ h.runs \in Runs
         /\ RunsPinned(h)
         /\ req.visible[n] = "ok" => Earned(h)
<1>1. Run(g, n) \in [outcome : Outcome, where : {"candidate", "slot"}]
  BY RequestType DEF Run
<1>2. Given => Run(g, n).where = "candidate"
  BY DEF Run
<1>3. Run(g, n).outcome = req.visible[n]
  BY DEF Run
<1>4. QED
  BY <1>1, <1>2, <1>3, Appended DEF Runs, RunsPinned, Earned

-----------------------------------------------------------------------------
(* The steps of gate.py. *)

(* A verdict of gate.py that is right in itself keeps what is known of it. *)
LEMMA VerdictKeeps ==
  ASSUME Inv, Legacy, NEW g, NEW passed \in BOOLEAN,
         NEW cause \in LegacyCauses, Done(g, passed, cause),
         legacy.pc # "end", g \in LegacyState, RunsPinned(g),
         Given => (passed <=> WillPass),
         passed => (cause = "no_change" /\ req.allowEmpty) \/ Earned(g),
         passed /\ NothingChanged => cause = "no_change"
  PROVE  TypeOK' /\ LegacyInv'
<1>1. /\ legacy' \in LegacyState
      /\ legacy'.pc = "end" /\ legacy'.runs = g.runs
      /\ legacy'.passed = passed /\ legacy'.cause = cause
  BY DEF Done, LegacyState
<1>2. /\ TypeOK'
      /\ req' = req
  BY <1>1 DEF Inv, TypeOK, Legacy
<1>3. /\ RunsPinned(legacy)'
      /\ Earned(g) => Earned(legacy)'
      /\ WillPass' <=> WillPass
      /\ Given' <=> Given
      /\ NothingChanged' <=> NothingChanged
  BY <1>1, <1>2 DEF RunsPinned, Earned, WillPass, Given, NothingChanged, Materialized, VisibleOk
<1>4. QED
  BY <1>1, <1>2, <1>3 DEF LegacyInv

LEMMA LegacyKeepsItself ==
  ASSUME Inv, LegacyNext
  PROVE  TypeOK' /\ LegacyInv'
<1>1. /\ TypeOK /\ LegacyInv /\ legacy \in LegacyState /\ req \in Requests
      /\ RunsPinned(legacy)
  BY DEF Inv, TypeOK, LegacyInv
<1>2. CASE LegacyStatus
  <2>1. CASE req.dirty \/ (~Given /\ slot.dirty)
    <3>1. Done(legacy, FALSE, "uncommitted_changes") /\ Legacy /\ legacy.pc # "end"
      BY <1>2, <2>1 DEF LegacyStatus
    <3>2. "uncommitted_changes" \in LegacyCauses
      BY DEF LegacyCauses
    <3>3. Given => ~WillPass
      BY <2>1 DEF WillPass
    <3>4. QED
      BY <1>1, <3>1, <3>2, <3>3, VerdictKeeps
  <2>2. CASE ~(req.dirty \/ (~Given /\ slot.dirty))
    BY <1>1, <1>2, <2>2
    DEF LegacyStatus, Legacy, TypeOK, LegacyState, LegacyInv, RunsPinned, Given
  <2>3. QED
    BY <2>1, <2>2
<1>3. CASE LegacyDiff
  <2>0. Legacy /\ legacy.pc = "diff" /\ (Given => ~req.dirty)
    BY <1>1, <1>3 DEF LegacyDiff, LegacyInv
  <2>1. CASE NothingChanged /\ req.allowEmpty /\ Done(legacy, TRUE, "no_change")
    <3>1. "no_change" \in LegacyCauses
      BY DEF LegacyCauses
    <3>2. Given => WillPass
      BY <2>0, <2>1 DEF WillPass
    <3>3. QED
      BY <1>1, <2>0, <2>1, <3>1, <3>2, VerdictKeeps
  <2>2. CASE NothingChanged /\ ~req.allowEmpty /\ Done(legacy, FALSE, "empty_diff")
    <3>1. "empty_diff" \in LegacyCauses
      BY DEF LegacyCauses
    <3>2. ~WillPass
      BY <2>2 DEF WillPass
    <3>3. QED
      BY <1>1, <2>0, <2>2, <3>1, <3>2, VerdictKeeps
  <2>3. CASE ~NothingChanged /\ legacy' = [legacy EXCEPT !.pc = "checkout"]
    BY <1>1, <2>0, <2>3
    DEF Legacy, TypeOK, LegacyState, LegacyInv, RunsPinned, Given, NothingChanged
  <2>4. QED
    BY <1>3, <2>1, <2>2, <2>3 DEF LegacyDiff
<1>4. CASE LegacyCheckout
  <2>0. /\ Legacy /\ legacy.pc = "checkout" /\ (Given => ~req.dirty)
        /\ ~NothingChanged
    BY <1>1, <1>4 DEF LegacyCheckout, LegacyInv
  <2>1. CASE Given /\ ~Materialized
    <3>1. "candidate_checkout_failed" \in LegacyCauses
      BY DEF LegacyCauses
    <3>2. ~WillPass
      BY <2>0, <2>1 DEF WillPass
    <3>3. Done(legacy, FALSE, "candidate_checkout_failed")
      BY <1>4, <2>1 DEF LegacyCheckout
    <3>4. QED
      BY <1>1, <2>0, <3>1, <3>2, <3>3, VerdictKeeps
  <2>2. CASE ~(Given /\ ~Materialized)
    <3>1. legacy' = [legacy EXCEPT !.pc = "run", !.checkout = Given]
      BY <1>4, <2>2 DEF LegacyCheckout
    <3>2. Given \in BOOLEAN
      BY DEF Given
    <3>3. QED
      BY <1>1, <2>0, <2>2, <3>1, <3>2
      DEF Legacy, TypeOK, LegacyState, LegacyInv, RunsPinned, Given, NothingChanged, Materialized
  <2>3. QED
    BY <2>1, <2>2
<1>5. CASE LegacyRun
  <2> DEFINE r == Run(legacy, 1)
             g == [legacy EXCEPT !.runs = Append(@, r)]
  <2>0. /\ Legacy /\ legacy.pc = "run" /\ ~NothingChanged
        /\ Given => ~req.dirty /\ Materialized /\ legacy.checkout
    BY <1>1, <1>5 DEF LegacyRun, LegacyInv
  <2>1. r.outcome = req.visible[1] /\ g.runs = Append(legacy.runs, Run(legacy, 1))
    BY <1>1 DEF Run, LegacyState
  <2>2. /\ g.runs \in Runs /\ RunsPinned(g)
        /\ r.outcome = "ok" => Earned(g)
    <3> HIDE DEF g, r
    <3>1. legacy.runs \in Runs /\ legacy.checkout \in BOOLEAN
      BY <1>1 DEF LegacyState
    <3>2. QED
      BY <1>1, <2>0, <2>1, <3>1, RunAdded
  <2>3. g \in LegacyState /\ g.pc = "run" /\ g.checkout = legacy.checkout /\ ~g.passed
    BY <1>1, <2>0, <2>2 DEF LegacyState, LegacyInv
  <2>4. {"timeout", "tests_passed", "tests_failed"} \subseteq LegacyCauses
    BY DEF LegacyCauses
  <2>5. Given => (WillPass <=> VisibleOk)
    BY <2>0 DEF WillPass
  <2> HIDE DEF g
  <2>6. CASE r.outcome = "timeout" /\ Done(g, FALSE, "timeout")
    BY <2>0, <2>1, <2>2, <2>3, <2>4, <2>5, <2>6, VerdictKeeps DEF VisibleOk
  <2>7. CASE r.outcome = "ok" /\ Done(g, TRUE, "tests_passed")
    BY <2>0, <2>1, <2>2, <2>3, <2>4, <2>5, <2>7, VerdictKeeps DEF VisibleOk
  <2>8. CASE r.outcome = "failed" /\ ~req.rerun /\ Done(g, FALSE, "tests_failed")
    BY <2>0, <2>1, <2>2, <2>3, <2>4, <2>5, <2>8, VerdictKeeps DEF VisibleOk
  <2>9. CASE r.outcome = "failed" /\ req.rerun /\ legacy' = [g EXCEPT !.pc = "rerun"]
    <3>1. /\ legacy' \in LegacyState /\ legacy'.pc = "rerun" /\ ~legacy'.passed
          /\ legacy'.runs = g.runs /\ legacy'.checkout = legacy.checkout
      BY <2>3, <2>9 DEF LegacyState
    <3>2. req' = req /\ TypeOK'
      BY <1>1, <2>0, <3>1 DEF Legacy, TypeOK
    <3>3. RunsPinned(legacy)'
      BY <2>2, <3>1, <3>2 DEF RunsPinned, Given
    <3>4. legacy.checkout = Given
      BY <1>1, <2>0 DEF LegacyInv
    <3>5. QED
      BY <2>0, <2>1, <2>9, <3>1, <3>2, <3>3, <3>4
      DEF LegacyInv, Given, NothingChanged, Materialized
  <2>10. QED
    BY <1>5, <2>6, <2>7, <2>8, <2>9 DEF LegacyRun, g
<1>6. CASE LegacyRerun
  <2> DEFINE r == Run(legacy, 2)
             g == [legacy EXCEPT !.runs = Append(@, r), !.flaky = r.outcome = "ok"]
  <2>0. /\ Legacy /\ legacy.pc = "rerun" /\ ~NothingChanged
        /\ req.visible[1] = "failed" /\ req.rerun
        /\ Given => ~req.dirty /\ Materialized /\ legacy.checkout
    BY <1>1, <1>6 DEF LegacyRerun, LegacyInv
  <2>1. /\ r.outcome = req.visible[2] /\ g.runs = Append(legacy.runs, Run(legacy, 2))
        /\ g.flaky = (req.visible[2] = "ok")
    BY <1>1 DEF Run, LegacyState
  <2>2. /\ g.runs \in Runs /\ RunsPinned(g)
        /\ r.outcome = "ok" => Earned(g)
    <3> HIDE DEF g, r
    <3>1. legacy.runs \in Runs /\ legacy.checkout \in BOOLEAN
      BY <1>1 DEF LegacyState
    <3>2. QED
      BY <1>1, <2>0, <2>1, <3>1, RunAdded
  <2>3. g \in LegacyState
    BY <1>1, <2>2 DEF LegacyState
  <2>4. {"tests_passed", "tests_failed"} \subseteq LegacyCauses
    BY DEF LegacyCauses
  <2>5. Given => (WillPass <=> g.flaky)
    BY <2>0, <2>1 DEF WillPass, VisibleOk
  <2>6. Done(g, g.flaky, IF g.flaky THEN "tests_passed" ELSE "tests_failed")
    BY <1>6 DEF LegacyRerun
  <2> HIDE DEF g
  <2>7. QED
    BY <2>0, <2>1, <2>2, <2>3, <2>4, <2>5, <2>6, VerdictKeeps
<1>7. QED
  BY <1>2, <1>3, <1>4, <1>5, <1>6 DEF LegacyNext

-----------------------------------------------------------------------------
(* The steps of evidence.py. *)

(* What is known of a request does not change while the gates look at it. *)
LEMMA RequestStays ==
  ASSUME req' = req
  PROVE  /\ WillPass' <=> WillPass
         /\ VisibleOk' <=> VisibleOk
         /\ Climbed' <=> Climbed
         /\ Given' = Given
         /\ NothingChanged' <=> NothingChanged
BY DEF WillPass, VisibleOk, Climbed, Given, NothingChanged, Materialized

(* A stage that is passed rightly keeps what is known of the ladder. *)
LEMMA PassKeeps ==
  ASSUME Inv, Ladder, ladder.pc # "plan", NEW l \in LadderState, StagePasses(l),
         l.stage = ladder.stage, l.stage \in 1..5, l.decisive = 0, ~l.passed,
         RunsPinned(l),
         l.stage > 1 => Climbed /\ l.checkout = Given,
         l.stage = 5 => VisibleOk /\ Earned(l)
  PROVE  TypeOK' /\ LadderInv'
<1>1. Entry(l, "passed") \in Report
  BY Stages, Appended DEF Entry, Report, LadderState
<1>2. /\ ladder' \in LadderState
      /\ ladder'.pc = "stage" /\ ladder'.runs = l.runs /\ ladder'.checkout = l.checkout
      /\ ladder'.stage = l.stage + 1 /\ ladder'.decisive = 0 /\ ~ladder'.passed
  <2>1. l.stage + 1 \in 1..(Len(STAGES) + 1)
    BY Stages
  <2>2. QED
    BY <1>1, <2>1 DEF StagePasses, LadderState
<1>3. TypeOK' /\ req' = req /\ legacy' = legacy
  BY <1>2 DEF Inv, TypeOK, Ladder
<1>4. /\ RunsPinned(ladder)'
      /\ Earned(l) => Earned(ladder)'
  BY <1>2, <1>3 DEF RunsPinned, Earned, Given
<1>5. legacy.pc = "end"
  BY DEF Inv, LadderInv
<1>6. QED
  BY <1>2, <1>3, <1>4, <1>5, RequestStays DEF LadderInv

(* And so does one that fails rightly. *)
LEMMA FailKeeps ==
  ASSUME Inv, Ladder, ladder.pc # "plan", NEW l \in LadderState,
         NEW cause \in LadderCauses, StageFails(l, cause),
         l.stage \in 1..5, ~l.passed, RunsPinned(l),
         l.stage = 2 /\ Given =>
           cause = "uncommitted_changes" \/ NothingChanged \/ ~WillPass,
         l.stage = 5 => ~VisibleOk
  PROVE  TypeOK' /\ LadderInv'
<1>1. Entry(l, "failed") \in Report
  BY Stages, Appended DEF Entry, Report, LadderState
<1>2. /\ ladder' \in LadderState
      /\ ladder'.pc = "stage" /\ ladder'.runs = l.runs
      /\ ladder'.decisive = l.stage /\ ~ladder'.passed /\ ladder'.cause = cause
  <2>1. l.stage + 1 \in 1..(Len(STAGES) + 1) /\ l.stage \in 0..Len(STAGES)
    BY Stages
  <2>2. QED
    BY <1>1, <2>1 DEF StageFails, LadderState
<1>3. TypeOK' /\ req' = req /\ legacy' = legacy
  BY <1>2 DEF Inv, TypeOK, Ladder
<1>4. RunsPinned(ladder)'
  BY <1>2, <1>3 DEF RunsPinned, Given
<1>5. legacy.pc = "end"
  BY DEF Inv, LadderInv
<1>6. QED
  BY <1>2, <1>3, <1>4, <1>5, RequestStays DEF LadderInv

(* What holds when the ladder enters a stage. *)
LEMMA Entering ==
  ASSUME Inv, NEW s, Enters(s)
  PROVE  /\ Ladder /\ ladder.pc = "stage" /\ ladder.stage \in 1..5 /\ STAGES[ladder.stage] = s
         /\ ladder \in LadderState /\ RunsPinned(ladder) /\ req \in Requests
         /\ ladder.decisive = 0 /\ ~ladder.passed
         /\ ladder.stage > 2 => Climbed /\ ladder.checkout = Given
BY Stages DEF Inv, TypeOK, LadderInv, Enters

LEMMA LadderCandidateKeeps ==
  ASSUME Inv, LadderCandidate
  PROVE  TypeOK' /\ LadderInv'
<1>1. Enters("git_candidate") /\ ladder.stage = 2
  BY Stages, Entering DEF LadderCandidate
<1>2. /\ Ladder /\ ladder.pc = "stage" /\ ladder \in LadderState /\ RunsPinned(ladder)
      /\ ladder.decisive = 0 /\ ~ladder.passed
  BY <1>1, Entering
<1>3. {"uncommitted_changes", "candidate_missing", "empty_diff", "no_change",
       "candidate_checkout_failed"} \subseteq LadderCauses
  BY DEF LadderCauses
<1>4. CASE StageFails(ladder, "uncommitted_changes")
  BY <1>1, <1>2, <1>3, <1>4, FailKeeps
<1>5. CASE req.candidate = "unknown" /\ StageFails(ladder, "candidate_missing")
  <2>1. NothingChanged
    BY <1>5 DEF NothingChanged
  <2>2. QED
    BY <1>1, <1>2, <1>3, <1>5, <2>1, FailKeeps
<1>6. CASE NothingChanged /\ StageFails(ladder, "empty_diff")
  BY <1>1, <1>2, <1>3, <1>6, FailKeeps
<1>7. CASE /\ ~req.dirty /\ (NothingChanged => req.allowEmpty)
           /\ LET l == [ladder EXCEPT !.cause = IF NothingChanged THEN "no_change" ELSE @]
              IN  IF Given /\ ~Materialized
                  THEN StageFails([l EXCEPT !.report = Entry(l, "passed")],
                                  "candidate_checkout_failed")
                  ELSE StagePasses([l EXCEPT !.checkout = Given])
  <2> DEFINE l == [ladder EXCEPT !.cause = IF NothingChanged THEN "no_change" ELSE @]
             failed == [l EXCEPT !.report = Entry(l, "passed")]
             passed == [l EXCEPT !.checkout = Given]
  <2>1. /\ l \in LadderState /\ l.stage = 2 /\ ~l.passed /\ l.decisive = 0
        /\ l.runs = ladder.runs
    BY <1>1, <1>2, <1>3 DEF LadderState
  <2>2. RunsPinned(l)
    BY <1>2, <2>1 DEF RunsPinned
  <2>3. Entry(l, "passed") \in Report
    <3> HIDE DEF l
    <3>1. QED
      BY <2>1, Stages, Appended DEF Entry, Report, LadderState
  <2>4. Given \in BOOLEAN
    BY DEF Given
  <2> HIDE DEF l
  <2>5. CASE Given /\ ~Materialized
    <3>1. StageFails(failed, "candidate_checkout_failed")
      BY <1>7, <2>5 DEF l
    <3>2. /\ failed \in LadderState /\ failed.stage = 2 /\ ~failed.passed
          /\ failed.runs = l.runs
      BY <2>1, <2>3 DEF LadderState
    <3>3. NothingChanged \/ ~WillPass
      BY <2>5 DEF WillPass
    <3>4. RunsPinned(failed)
      BY <2>2, <3>2 DEF RunsPinned
    <3> HIDE DEF failed
    <3>5. QED
      BY <1>2, <1>3, <3>1, <3>2, <3>3, <3>4, FailKeeps
  <2>6. CASE ~(Given /\ ~Materialized)
    <3>1. StagePasses(passed)
      BY <1>7, <2>6 DEF l
    <3>2. /\ passed \in LadderState /\ passed.stage = 2 /\ ~passed.passed
          /\ passed.runs = l.runs /\ passed.decisive = 0 /\ passed.checkout = Given
      BY <2>1, <2>4 DEF LadderState
    <3>3. Climbed
      BY <1>7, <2>6 DEF Climbed
    <3>4. RunsPinned(passed)
      BY <2>2, <3>2 DEF RunsPinned
    <3> HIDE DEF passed
    <3>5. QED
      BY <1>1, <1>2, <3>1, <3>2, <3>3, <3>4, PassKeeps
  <2>7. QED
    BY <2>5, <2>6
<1>8. QED
  BY <1>4, <1>5, <1>6, <1>7 DEF LadderCandidate

(* The stages of which one action is all there is. *)
LEMMA LadderProtocolKeeps ==
  ASSUME Inv, LadderProtocol
  PROVE  TypeOK' /\ LadderInv'
<1>1. Enters("protocol_result") /\ ladder.stage = 1 /\ "protocol_failure" \in LadderCauses
  BY Stages, Entering DEF LadderProtocol, LadderCauses
<1>2. QED
  BY <1>1, Entering, PassKeeps, FailKeeps DEF LadderProtocol

LEMMA LadderArtifactsKeeps ==
  ASSUME Inv, LadderArtifacts
  PROVE  TypeOK' /\ LadderInv'
<1>1. /\ Enters("artifact_schema") /\ ladder.stage = 3
      /\ "artifact_validation_failed" \in LadderCauses
  BY Stages, Entering DEF LadderArtifacts, LadderCauses
<1>2. CASE StagePasses(ladder) \/ StageFails(ladder, "artifact_validation_failed")
  BY <1>1, <1>2, Entering, PassKeeps, FailKeeps
<1>3. CASE ladder' = [ladder EXCEPT !.pc = "raised"]
  <2>1. /\ ladder' \in LadderState /\ ladder'.pc = "raised" /\ ladder'.stage = 3
        /\ ladder'.decisive = 0 /\ ~ladder'.passed
        /\ ladder'.checkout = ladder.checkout /\ ladder'.runs = ladder.runs
    BY <1>1, <1>3, Entering DEF LadderState
  <2>2. TypeOK' /\ req' = req /\ legacy' = legacy
    BY <1>1, <2>1, Entering DEF Inv, TypeOK, Ladder
  <2>3. RunsPinned(ladder)' /\ legacy.pc = "end" /\ Climbed /\ ladder.checkout = Given
    BY <1>1, <2>1, <2>2, Entering DEF RunsPinned, Given, Inv, LadderInv
  <2>4. QED
    BY <2>1, <2>2, <2>3, RequestStays DEF LadderInv
<1>4. QED
  BY <1>2, <1>3 DEF LadderArtifacts

LEMMA LadderTargetedKeeps ==
  ASSUME Inv, LadderTargeted
  PROVE  TypeOK' /\ LadderInv'
<1>1. /\ Enters("targeted_checks") /\ ladder.stage = 4
      /\ {"targeted_checks_timeout", "targeted_checks_failed"} \subseteq LadderCauses
  BY Stages, Entering DEF LadderTargeted, LadderCauses
<1> DEFINE l == [ladder EXCEPT !.checks = ladder.checks + 1]
<1>2. /\ l \in LadderState /\ l.stage = 4 /\ l.decisive = 0 /\ ~l.passed
      /\ l.checkout = ladder.checkout /\ l.runs = ladder.runs /\ l.pc = "stage"
  BY <1>1, Entering DEF LadderState
<1>3. RunsPinned(l) /\ Climbed /\ ladder.checkout = Given
  BY <1>1, <1>2, Entering DEF RunsPinned
<1>4. \/ StageFails(l, "targeted_checks_timeout")
      \/ StageFails(l, "targeted_checks_failed")
      \/ StagePasses(l)
      \/ ladder' = l
  BY DEF LadderTargeted
<1> HIDE DEF l
<1>5. CASE ladder' = l
  <2>1. TypeOK' /\ req' = req /\ legacy' = legacy
    BY <1>1, <1>2, <1>5, Entering DEF Inv, TypeOK, Ladder
  <2>2. RunsPinned(ladder)' /\ legacy.pc = "end"
    BY <1>1, <1>3, <1>5, <2>1, Entering DEF RunsPinned, Given, Inv, LadderInv
  <2>3. QED
    BY <1>2, <1>3, <1>5, <2>1, <2>2, RequestStays DEF LadderInv
<1>6. QED
  BY <1>1, <1>2, <1>3, <1>4, <1>5, Entering, PassKeeps, FailKeeps

(* The visible command and its second run. *)
LEMMA LadderVisibleKeeps ==
  ASSUME Inv, LadderVisible
  PROVE  TypeOK' /\ LadderInv'
<1>1. /\ Enters("full_visible_verification") /\ ladder.stage = 5
      /\ {"timeout", "tests_failed", "tests_passed"} \subseteq LadderCauses
  BY Stages, Entering DEF LadderVisible, LadderCauses
<1> DEFINE r == Run(ladder, 1)
           l == [ladder EXCEPT !.runs = Append(@, r)]
           k == [l EXCEPT !.cause = "tests_passed"]
<1>2. /\ r.outcome = req.visible[1] /\ l.runs = Append(ladder.runs, Run(ladder, 1))
      /\ ladder.runs \in Runs /\ ladder.checkout \in BOOLEAN
      /\ Given => ladder.checkout
      /\ Climbed
  BY <1>1, Entering DEF Run, LadderState
<1>3. l.runs \in Runs /\ RunsPinned(l) /\ (r.outcome = "ok" => Earned(l))
  <2>1. RunsPinned(ladder) /\ req \in Requests
    BY <1>1, Entering
  <2> HIDE DEF l, r
  <2>2. QED
    BY <1>2, <2>1, RunAdded
<1>4. /\ l \in LadderState /\ l.stage = 5 /\ l.decisive = 0 /\ ~l.passed
      /\ l.checkout = ladder.checkout /\ l.pc = "stage"
  BY <1>1, <1>3, Entering DEF LadderState
<1>5. /\ k \in LadderState /\ k.stage = 5 /\ k.decisive = 0 /\ ~k.passed
      /\ k.checkout = ladder.checkout /\ k.runs = l.runs
  <2> HIDE DEF l
  <2>1. QED
    BY <1>1, <1>4 DEF LadderState
<1>6. RunsPinned(k) /\ (r.outcome = "ok" => Earned(k))
  BY <1>3, <1>5 DEF RunsPinned, Earned
<1>7. \/ r.outcome = "timeout" /\ StageFails(l, "timeout")
      \/ r.outcome = "ok" /\ StagePasses(k)
      \/ r.outcome = "failed" /\ ~req.rerun /\ StageFails(l, "tests_failed")
      \/ /\ r.outcome = "failed" /\ req.rerun
         /\ ladder' = [l EXCEPT !.pc = "rerun", !.cause = "tests_failed"]
  BY DEF LadderVisible
<1> HIDE DEF k
<1>8. CASE r.outcome = "failed" /\ req.rerun
           /\ ladder' = [l EXCEPT !.pc = "rerun", !.cause = "tests_failed"]
  <2> HIDE DEF l
  <2>1. /\ ladder' \in LadderState /\ ladder'.pc = "rerun" /\ ladder'.stage = 5
        /\ ladder'.decisive = 0 /\ ~ladder'.passed /\ ladder'.checkout = ladder.checkout
        /\ ladder'.runs = l.runs
    BY <1>1, <1>4, <1>8 DEF LadderState
  <2>2. TypeOK' /\ req' = req /\ legacy' = legacy
    BY <1>1, <2>1, Entering DEF Inv, TypeOK, Ladder
  <2>3. RunsPinned(ladder)' /\ legacy.pc = "end" /\ ladder.checkout = Given
    BY <1>1, <1>3, <2>1, <2>2, Entering DEF RunsPinned, Given, Inv, LadderInv
  <2>4. QED
    BY <1>2, <1>8, <2>1, <2>2, <2>3, RequestStays DEF LadderInv
<1> HIDE DEF l, r
<1>9. QED
  BY <1>1, <1>2, <1>3, <1>4, <1>5, <1>6, <1>7, <1>8, Entering, PassKeeps, FailKeeps
  DEF VisibleOk

LEMMA LadderRerunKeeps ==
  ASSUME Inv, LadderRerun
  PROVE  TypeOK' /\ LadderInv'
<1>1. /\ Ladder /\ ladder.pc = "rerun" /\ ladder.stage = 5 /\ ladder.decisive = 0
      /\ ladder \in LadderState /\ RunsPinned(ladder) /\ req \in Requests /\ ~ladder.passed
      /\ req.visible[1] = "failed" /\ req.rerun /\ Climbed /\ ladder.checkout = Given
      /\ "tests_failed" \in LadderCauses
  BY DEF LadderRerun, Inv, TypeOK, LadderInv, LadderCauses
<1> DEFINE r == Run(ladder, 2)
           l == [ladder EXCEPT !.runs = Append(@, r), !.flaky = r.outcome = "ok"]
<1>2. /\ r.outcome = req.visible[2] /\ l.runs = Append(ladder.runs, Run(ladder, 2))
      /\ ladder.runs \in Runs /\ ladder.checkout \in BOOLEAN
      /\ l.flaky = (req.visible[2] = "ok")
  BY <1>1 DEF Run, LadderState
<1>3. l.runs \in Runs /\ RunsPinned(l) /\ (r.outcome = "ok" => Earned(l))
  <2> HIDE DEF l, r
  <2>1. QED
    BY <1>1, <1>2, RunAdded
<1>4. /\ l \in LadderState /\ l.stage = 5 /\ l.decisive = 0 /\ ~l.passed
      /\ l.checkout = ladder.checkout
  BY <1>1, <1>3 DEF LadderState
<1>5. IF l.flaky THEN StagePasses(l) ELSE StageFails(l, "tests_failed")
  BY DEF LadderRerun
<1>6. VisibleOk <=> l.flaky
  BY <1>1, <1>2 DEF VisibleOk
<1> HIDE DEF l
<1>7. CASE l.flaky
  <2>1. StagePasses(l) /\ Earned(l) /\ VisibleOk /\ l.checkout = Given
    BY <1>1, <1>2, <1>3, <1>4, <1>5, <1>6, <1>7
  <2>2. QED
    BY <1>1, <1>3, <1>4, <2>1, PassKeeps
<1>8. CASE ~l.flaky
  <2>1. StageFails(l, "tests_failed") /\ ~VisibleOk
    BY <1>5, <1>6, <1>8
  <2>2. QED
    BY <1>1, <1>3, <1>4, <2>1, FailKeeps
<1>9. QED
  BY <1>7, <1>8

(* The steps between the stages. *)
LEMMA TargetedType ==
  ASSUME Inv
  PROVE  TargetedCommands \in Seq(Outcome)
<1>1. req.targeted \in Seq(Outcome) /\ slot.tests \in {"same", "more", "none"}
  BY RequestType DEF Inv, TypeOK, Slot
<1>2. Append(req.targeted, "failed") \in Seq(Outcome) /\ <<>> \in Seq(Outcome)
  BY <1>1, Appended DEF Outcome
<1>3. QED
  BY <1>1, <1>2 DEF TargetedCommands

LEMMA LadderPlanKeeps ==
  ASSUME Inv, LadderPlan
  PROVE  TypeOK' /\ LadderInv'
<1>1. /\ Ladder /\ ladder.pc = "plan" /\ legacy.pc = "end" /\ ladder \in LadderState
      /\ ladder.stage = 1 /\ ladder.decisive = 0 /\ ~ladder.passed /\ RunsPinned(ladder)
  BY DEF LadderPlan, Inv, TypeOK, LadderInv
<1>2. /\ ladder' \in LadderState /\ ladder'.pc \in {"stage", "raised"} /\ ladder'.stage = 1
      /\ ladder'.decisive = 0 /\ ~ladder'.passed /\ ladder'.runs = ladder.runs
  <2>1. CASE ladder' = [ladder EXCEPT !.pc = "raised"]
    BY <1>1, <2>1 DEF LadderState
  <2>2. CASE ladder' = [ladder EXCEPT !.pc = "stage", !.plan = TargetedCommands]
    BY <1>1, <2>2, TargetedType DEF LadderState
  <2>3. QED
    BY <2>1, <2>2 DEF LadderPlan
<1>3. TypeOK' /\ req' = req /\ legacy' = legacy
  BY <1>1, <1>2 DEF Inv, TypeOK, Ladder
<1>4. RunsPinned(ladder)'
  BY <1>1, <1>2, <1>3 DEF RunsPinned, Given
<1>5. QED
  BY <1>1, <1>2, <1>3, <1>4 DEF LadderInv

LEMMA LadderSkipsKeeps ==
  ASSUME Inv, LadderSkips
  PROVE  TypeOK' /\ LadderInv'
<1>1. /\ Ladder /\ ladder.pc = "stage" /\ ladder.stage \in 1..5 /\ ladder \in LadderState
      /\ ~ladder.passed /\ RunsPinned(ladder) /\ legacy.pc = "end"
      /\ ladder.decisive = 0 => ladder.stage # 2 /\ ladder.stage # 5
      /\ ladder.decisive = 0 /\ ladder.stage > 2 => Climbed /\ ladder.checkout = Given
  BY Stages DEF LadderSkips, Applicable, Inv, TypeOK, LadderInv
<1>2. Entry(ladder, "skipped") \in Report
  BY <1>1, Stages, Appended DEF Entry, Report, LadderState
<1>3. /\ ladder' \in LadderState /\ ladder'.pc = "stage" /\ ladder'.stage = ladder.stage + 1
      /\ ladder'.decisive = ladder.decisive /\ ~ladder'.passed /\ ladder'.runs = ladder.runs
      /\ ladder'.checkout = ladder.checkout /\ ladder'.cause = ladder.cause
  <2>1. ladder.stage + 1 \in 1..(Len(STAGES) + 1)
    BY <1>1, Stages
  <2>2. QED
    BY <1>1, <1>2, <2>1 DEF LadderSkips, LadderState
<1>4. TypeOK' /\ req' = req /\ legacy' = legacy
  BY <1>1, <1>3 DEF Inv, TypeOK, Ladder
<1>5. RunsPinned(ladder)'
  BY <1>1, <1>3, <1>4 DEF RunsPinned, Given
<1>6. /\ ladder.decisive = 2 /\ Given =>
           ladder.cause = "uncommitted_changes" \/ NothingChanged \/ ~WillPass
      /\ ladder.decisive = 5 => ~VisibleOk
  BY DEF Inv, LadderInv
<1>7. /\ Given' = Given /\ (NothingChanged' <=> NothingChanged) /\ (WillPass' <=> WillPass)
      /\ (VisibleOk' <=> VisibleOk) /\ (Climbed' <=> Climbed)
  BY <1>4, RequestStays
<1>8. LadderInv'
  <2>1. ladder'.decisive = 0 /\ ladder'.stage > 2 => Climbed' /\ ladder'.checkout = Given'
    BY <1>1, <1>3, <1>7
  <2>2. ~(ladder'.decisive = 0 /\ ladder'.stage = 6)
    BY <1>1, <1>3
  <2>3. QED
    BY <1>1, <1>3, <1>4, <1>5, <1>6, <1>7, <2>1, <2>2 DEF LadderInv
<1>9. QED
  BY <1>4, <1>8

LEMMA LadderEndsKeeps ==
  ASSUME Inv, LadderEnds
  PROVE  TypeOK' /\ LadderInv'
<1>1. /\ Ladder /\ ladder.pc = "stage" /\ ladder.stage = 6 /\ ladder \in LadderState
      /\ RunsPinned(ladder) /\ legacy.pc = "end"
      /\ ladder.decisive = 0 => Climbed /\ VisibleOk /\ Earned(ladder)
      /\ ladder.decisive = 2 /\ Given =>
           ladder.cause = "uncommitted_changes" \/ NothingChanged \/ ~WillPass
      /\ ladder.decisive = 5 => ~VisibleOk
  BY Stages DEF LadderEnds, Inv, TypeOK, LadderInv
<1>2. /\ ladder' \in LadderState /\ ladder'.pc = "end" /\ ladder'.stage = 6
      /\ ladder'.decisive = ladder.decisive /\ ladder'.passed = (ladder.decisive = 0)
      /\ ladder'.runs = ladder.runs /\ ladder'.cause = ladder.cause
  BY <1>1 DEF LadderEnds, LadderState
<1>3. TypeOK' /\ req' = req /\ legacy' = legacy
  BY <1>1, <1>2 DEF Inv, TypeOK, Ladder
<1>4. RunsPinned(ladder)' /\ (Earned(ladder) => Earned(ladder)')
  BY <1>1, <1>2, <1>3 DEF RunsPinned, Earned, Given
<1>5. /\ Given' = Given /\ (NothingChanged' <=> NothingChanged) /\ (WillPass' <=> WillPass)
      /\ (VisibleOk' <=> VisibleOk) /\ (Climbed' <=> Climbed)
  BY <1>3, RequestStays
<1>6. ladder'.decisive = 0 => Climbed' /\ VisibleOk' /\ Earned(ladder)'
  BY <1>1, <1>2, <1>4, <1>5
<1>7. LadderInv'
  BY <1>1, <1>2, <1>3, <1>4, <1>5, <1>6 DEF LadderInv
<1>8. QED
  BY <1>3, <1>7

-----------------------------------------------------------------------------
(* The invariant. *)

LEMMA InitKeeps == Init => Inv
<1> SUFFICES ASSUME Init PROVE Inv
  OBVIOUS
<1>1. <<>> \in Runs /\ <<>> \in Report /\ <<>> \in Seq(Outcome)
  BY DEF Runs, Report
<1>2. TypeOK
  BY <1>1, Stages DEF Init, TypeOK, LegacyState, LadderState, LegacyCauses, LadderCauses
<1>3. LegacyInv /\ LadderInv
  BY DEF Init, LegacyInv, LadderInv, RunsPinned
<1>4. QED
  BY <1>2, <1>3 DEF Inv

LEMMA StepKeeps == Inv /\ [Next]_vars => Inv'
<1> SUFFICES ASSUME Inv, [Next]_vars PROVE Inv'
  OBVIOUS
<1>1. CASE LegacyNext
  <2>1. TypeOK' /\ LegacyInv' /\ ladder' = ladder /\ req' = req /\ legacy.pc # "end"
    BY <1>1, LegacyKeepsItself
    DEF LegacyNext, LegacyStatus, LegacyDiff, LegacyCheckout, LegacyRun, LegacyRerun, Legacy
  <2>2. LadderInv /\ ladder.pc = "plan" /\ RunsPinned(ladder)
    BY <2>1 DEF Inv, LadderInv
  <2>3. RunsPinned(ladder)'
    BY <2>1, <2>2 DEF RunsPinned, Given
  <2>4. LadderInv'
    BY <2>1, <2>2, <2>3 DEF LadderInv
  <2>5. QED
    BY <2>1, <2>4 DEF Inv
<1>2. CASE LadderNext
  <2>1. TypeOK' /\ LadderInv'
    BY <1>2, LadderPlanKeeps, LadderSkipsKeeps, LadderEndsKeeps, LadderProtocolKeeps,
       LadderCandidateKeeps, LadderArtifactsKeeps, LadderTargetedKeeps, LadderVisibleKeeps,
       LadderRerunKeeps
    DEF LadderNext
  <2>2. req' = req /\ legacy' = legacy
    BY <1>2 DEF LadderNext, LadderPlan, LadderSkips, LadderEnds, LadderProtocol,
                LadderCandidate, LadderArtifacts, LadderTargeted, LadderVisible, LadderRerun,
                Enters, Ladder
  <2>3. LegacyInv'
    BY <2>2 DEF Inv, LegacyInv, RunsPinned, Earned, Given, NothingChanged, Materialized,
                WillPass, VisibleOk
  <2>4. QED
    BY <2>1, <2>3 DEF Inv
<1>3. CASE SlotReused \/ UNCHANGED vars
  <2>1. req' = req /\ legacy' = legacy /\ ladder' = ladder /\ slot' \in Slot
    BY <1>3 DEF SlotReused, vars, Inv, TypeOK
  <2>2. TypeOK'
    BY <2>1 DEF Inv, TypeOK
  <2>3. LegacyInv' /\ LadderInv'
    BY <2>1 DEF Inv, LegacyInv, LadderInv, RunsPinned, Earned, Given, NothingChanged,
                Materialized, WillPass, VisibleOk, Climbed
  <2>4. QED
    BY <2>2, <2>3 DEF Inv
<1>4. QED
  BY <1>1, <1>2, <1>3 DEF Next

THEOREM Invariance == Spec => []Inv
BY InitKeeps, StepKeeps, PTL DEF Spec

(* TypeOK holds of every run of the two gates. *)
THEOREM TypeCorrect == Spec => []TypeOK
<1>1. Inv => TypeOK
  BY DEF Inv
<1>2. QED
  BY <1>1, Invariance, PTL

(* Turning the ladder on makes verification stricter, never laxer, for every *)
(* request: what it passes gate.py passes, and what it alone refuses it      *)
(* refuses for one of the reasons GatesAgree names.                          *)
THEOREM LadderIsStricter == Spec => []GatesAgree
<1>1. Inv => GatesAgree
  <2> SUFFICES ASSUME Inv, ladder.pc = "end", Given PROVE
        /\ ladder.passed => legacy.passed
        /\ legacy.passed /\ ~ladder.passed =>
             \/ STAGES[ladder.decisive] \in Extra
             \/ ladder.cause = "uncommitted_changes"
             \/ legacy.cause = "no_change"
    BY DEF GatesAgree
  <2>1. /\ LegacyInv /\ LadderInv /\ ladder \in LadderState /\ legacy.pc = "end"
        /\ legacy.passed <=> WillPass
    BY DEF Inv, TypeOK, LegacyInv, LadderInv
  <2>2. ladder.passed => WillPass
    BY <2>1 DEF LadderInv, Climbed, WillPass
  <2>3. ASSUME legacy.passed, ~ladder.passed
        PROVE  \/ STAGES[ladder.decisive] \in Extra
               \/ ladder.cause = "uncommitted_changes"
               \/ legacy.cause = "no_change"
    <3>1. ladder.decisive \in 1..5 /\ WillPass
      BY <2>1, <2>3, Stages DEF LadderInv, LadderState
    <3>2. CASE ladder.decisive = 2
      BY <2>1, <2>3, <3>1, <3>2 DEF LadderInv, LegacyInv
    <3>3. CASE ladder.decisive = 5
      BY <2>1, <2>3, <3>1, <3>3 DEF LadderInv, LegacyInv, WillPass
    <3>4. CASE ladder.decisive \in {1, 3, 4}
      BY <3>4, Stages DEF Extra
    <3>5. QED
      BY <3>1, <3>2, <3>3, <3>4
  <2>4. QED
    BY <2>1, <2>2, <2>3
<1>2. QED
  BY <1>1, Invariance, PTL

(* No verdict passes a task on anything but a run that succeeded, made of the *)
(* candidate where there is one; gate.py's no_change is the one exception.    *)
THEOREM VerdictsAreEarned == Spec => []PassIsEarned
<1>1. Inv => PassIsEarned
  BY DEF Inv, LegacyInv, LadderInv, PassIsEarned
<1>2. QED
  BY <1>1, Invariance, PTL

-----------------------------------------------------------------------------
(* The report.                                                              *)

(* The entries r report the first n stages, each at least once and in their *)
(* order; d is the stage that failed, after which nothing was tried, or 0.  *)
Told(r, n, d) ==
  /\ \A i \in DOMAIN r : r[i].stage \in 1..n
  /\ \A s \in 1..n : \E i \in DOMAIN r : r[i].stage = s
  /\ \A i, j \in DOMAIN r :
       i < j => /\ r[i].stage <= r[j].stage
                /\ r[i].verdict = "failed" => r[j].verdict = "skipped"
  /\ d = 0 <=> \A i \in DOMAIN r : r[i].verdict # "failed"
  /\ \A i \in DOMAIN r : r[i].verdict = "failed" => r[i].stage = d

ReportInv ==
  /\ Told(ladder.report, ladder.stage - 1, ladder.decisive)
  /\ ladder.runs # <<>> =>
       (ladder.pc = "rerun" \/ ladder.stage = 6) /\ ladder.decisive \in {0, 5}

(* One more entry, of the stage that is due or a second one of the last. *)
LEMMA TellsOne ==
  ASSUME NEW r \in Report, NEW n \in 0..5, NEW d \in 0..5, Told(r, n, d),
         NEW m \in 1..5, m = n \/ m = n + 1,
         NEW v \in {"passed", "failed", "skipped"}, v # "skipped" => d = 0
  PROVE  /\ Append(r, [stage |-> m, verdict |-> v]) \in Report
         /\ Told(Append(r, [stage |-> m, verdict |-> v]), m, IF v = "failed" THEN m ELSE d)
<1> DEFINE e == [stage |-> m, verdict |-> v]
           q == Append(r, e)
           k == IF v = "failed" THEN m ELSE d
           Entries == [stage : DOMAIN STAGES, verdict : {"passed", "failed", "skipped"}]
<1>1. e \in Entries /\ e.stage = m /\ e.verdict = v
  BY Stages
<1>2. r \in Seq(Entries)
  BY DEF Report
<1> HIDE DEF e, Entries
<1>3. /\ q \in Seq(Entries) /\ Len(r) \in Nat
      /\ DOMAIN r = 1..Len(r) /\ DOMAIN q = 1..(Len(r) + 1)
      /\ q[Len(r) + 1] = e
      /\ \A i \in 1..Len(r) : q[i] = r[i]
  BY <1>1, <1>2
<1> HIDE DEF q
<1>4. \A i \in 1..Len(r) : r[i].stage \in 1..n
  BY <1>3 DEF Told
<1>5. \A i \in DOMAIN q : q[i].stage \in 1..m
  BY <1>1, <1>3, <1>4
<1>6. \A s \in 1..m : \E i \in DOMAIN q : q[i].stage = s
  <2> SUFFICES ASSUME NEW s \in 1..m PROVE \E i \in DOMAIN q : q[i].stage = s
    OBVIOUS
  <2>1. CASE s = m
    BY <1>1, <1>3, <2>1
  <2>2. CASE s # m
    <3>1. PICK i \in DOMAIN r : r[i].stage = s
      BY <2>2 DEF Told
    <3>2. QED
      BY <1>3, <3>1
  <2>3. QED
    BY <2>1, <2>2
<1>7. ASSUME NEW i \in DOMAIN q, NEW j \in DOMAIN q, i < j
      PROVE  /\ q[i].stage <= q[j].stage
             /\ q[i].verdict = "failed" => q[j].verdict = "skipped"
  <2>1. i \in 1..Len(r) /\ q[i] = r[i]
    BY <1>3, <1>7
  <2>2. CASE j \in 1..Len(r)
    BY <1>3, <1>7, <2>1, <2>2 DEF Told
  <2>3. CASE j = Len(r) + 1
    <3>1. r[i].stage <= m
      BY <1>4, <2>1
    <3>2. r[i].verdict = "failed" => v = "skipped"
      BY <1>3, <2>1 DEF Told
    <3>3. QED
      BY <1>1, <1>3, <2>1, <2>3, <3>1, <3>2
  <2>4. QED
    BY <1>3, <2>2, <2>3
<1>8. k = 0 <=> \A i \in DOMAIN q : q[i].verdict # "failed"
  <2>1. d = 0 <=> \A i \in 1..Len(r) : r[i].verdict # "failed"
    BY <1>3 DEF Told
  <2>2. QED
    BY <1>1, <1>3, <2>1
<1>9. ASSUME NEW i \in DOMAIN q, q[i].verdict = "failed" PROVE q[i].stage = k
  <2>1. CASE i = Len(r) + 1
    BY <1>1, <1>3, <1>9, <2>1
  <2>2. CASE i \in 1..Len(r)
    <3>1. r[i].verdict = "failed" /\ r[i].stage = d /\ d # 0
      BY <1>3, <1>9, <2>2 DEF Told
    <3>2. QED
      BY <1>3, <2>2, <3>1
  <2>3. QED
    BY <1>3, <2>1, <2>2
<1>10. Told(q, m, k)
  BY <1>5, <1>6, <1>7, <1>8, <1>9 DEF Told
<1>11. QED
  BY <1>3, <1>10 DEF q, e, k, Entries, Report

(* A report that covers the stages before the current one. *)
Covers(l) == Told(l.report, l.stage - 1, l.decisive)

LEMMA PassTold ==
  ASSUME NEW l \in LadderState, l.stage \in 1..5, l.decisive = 0, Covers(l),
         StagePasses(l), l.runs = <<>> \/ l.stage = 5
  PROVE  ReportInv'
<1>1. l.report \in Report /\ l.stage - 1 \in 0..5
  BY DEF LadderState
<1>2. Told(Entry(l, "passed"), l.stage, 0)
  BY <1>1, TellsOne DEF Entry, Covers
<1>3. /\ ladder'.report = Entry(l, "passed") /\ ladder'.stage = l.stage + 1
      /\ ladder'.decisive = 0 /\ ladder'.runs = l.runs
  BY DEF StagePasses, LadderState
<1>4. QED
  BY <1>2, <1>3 DEF ReportInv

LEMMA FailTold ==
  ASSUME NEW l \in LadderState, l.stage \in 1..5, l.decisive = 0,
         Covers(l) \/ Told(l.report, l.stage, 0),
         NEW cause, StageFails(l, cause), l.runs = <<>> \/ l.stage = 5
  PROVE  ReportInv'
<1>1. l.report \in Report /\ l.stage - 1 \in 0..5
  BY DEF LadderState
<1>2. Told(Entry(l, "failed"), l.stage, l.stage)
  BY <1>1, TellsOne DEF Entry, Covers
<1>3. /\ ladder'.report = Entry(l, "failed") /\ ladder'.stage = l.stage + 1
      /\ ladder'.decisive = l.stage /\ ladder'.runs = l.runs
  BY DEF StageFails, LadderState
<1>4. QED
  BY <1>2, <1>3 DEF ReportInv

(* What the report tells when the ladder enters a stage. *)
LEMMA EnteringTold ==
  ASSUME Inv, ReportInv, NEW s, Enters(s)
  PROVE  /\ ladder \in LadderState /\ ladder.stage \in 1..5 /\ STAGES[ladder.stage] = s
         /\ ladder.decisive = 0 /\ Covers(ladder) /\ ladder.runs = <<>>
<1>1. /\ ladder \in LadderState /\ ladder.stage \in 1..5 /\ STAGES[ladder.stage] = s
      /\ ladder.decisive = 0 /\ ladder.pc = "stage"
  BY Entering
<1>2. QED
  BY <1>1 DEF ReportInv, Covers

LEMMA CandidateTold ==
  ASSUME Inv, ReportInv, LadderCandidate
  PROVE  ReportInv'
<1>1. /\ ladder \in LadderState /\ ladder.stage \in 1..5
      /\ ladder.decisive = 0 /\ Covers(ladder) /\ ladder.runs = <<>>
  BY EnteringTold DEF LadderCandidate
<1> DEFINE l == [ladder EXCEPT !.cause = IF NothingChanged THEN "no_change" ELSE @]
           failed == [l EXCEPT !.report = Entry(l, "passed")]
           passed == [l EXCEPT !.checkout = Given]
<1>2. \/ \E cause \in LadderCauses : StageFails(ladder, cause)
      \/ StageFails(failed, "candidate_checkout_failed")
      \/ StagePasses(passed)
  BY DEF LadderCandidate, LadderCauses
<1>3. /\ l \in LadderState /\ l.stage = ladder.stage /\ l.report = ladder.report
      /\ l.decisive = 0 /\ l.runs = <<>>
  BY <1>1 DEF LadderState, LadderCauses
<1> HIDE DEF l
<1>4. Covers(l) /\ l.report \in Report /\ l.stage - 1 \in 0..5 /\ Given \in BOOLEAN
  BY <1>1, <1>3 DEF Covers, LadderState, Given
<1>5. Entry(l, "passed") \in Report /\ Told(Entry(l, "passed"), l.stage, 0)
  BY <1>1, <1>3, <1>4, TellsOne DEF Entry, Covers
<1>6. /\ failed \in LadderState /\ failed.stage = l.stage /\ failed.decisive = 0
      /\ Told(failed.report, failed.stage, 0) /\ failed.runs = <<>>
  BY <1>3, <1>5 DEF LadderState
<1>7. /\ passed \in LadderState /\ passed.stage = l.stage /\ passed.decisive = 0
      /\ Covers(passed) /\ passed.runs = <<>>
  BY <1>3, <1>4 DEF LadderState, Covers
<1> HIDE DEF failed, passed
<1>8. QED
  BY <1>1, <1>2, <1>3, <1>6, <1>7, PassTold, FailTold

LEMMA TargetedTold ==
  ASSUME Inv, ReportInv, LadderTargeted
  PROVE  ReportInv'
<1>1. /\ ladder \in LadderState /\ ladder.stage \in 1..5
      /\ ladder.decisive = 0 /\ Covers(ladder) /\ ladder.runs = <<>>
  BY EnteringTold DEF LadderTargeted
<1> DEFINE l == [ladder EXCEPT !.checks = ladder.checks + 1]
<1>2. \/ \E cause \in LadderCauses : StageFails(l, cause)
      \/ StagePasses(l)
      \/ ladder' = l
  BY DEF LadderTargeted, LadderCauses
<1>3. /\ l \in LadderState /\ l.stage = ladder.stage /\ l.report = ladder.report
      /\ l.decisive = 0 /\ l.runs = <<>>
  BY <1>1 DEF LadderState
<1> HIDE DEF l
<1>4. Covers(l)
  BY <1>1, <1>3 DEF Covers
<1>5. QED
  BY <1>1, <1>2, <1>3, <1>4, PassTold, FailTold DEF ReportInv, Covers

LEMMA VisibleTold ==
  ASSUME Inv, ReportInv, LadderVisible
  PROVE  ReportInv'
<1>1. /\ ladder \in LadderState /\ ladder.stage = 5
      /\ ladder.decisive = 0 /\ Covers(ladder) /\ req \in Requests
      /\ ladder.runs \in Runs
  BY Stages, Entering, EnteringTold DEF LadderVisible, LadderState
<1> DEFINE r == Run(ladder, 1)
           l == [ladder EXCEPT !.runs = Append(@, r)]
           k == [l EXCEPT !.cause = "tests_passed"]
           q == [l EXCEPT !.pc = "rerun", !.cause = "tests_failed"]
<1>2. \/ \E cause \in LadderCauses : StageFails(l, cause)
      \/ StagePasses(k)
      \/ ladder' = q
  BY DEF LadderVisible, LadderCauses
<1>3. Append(ladder.runs, r) \in Runs
  <2>1. r \in [outcome : Outcome, where : {"candidate", "slot"}]
    BY <1>1, RequestType DEF Run
  <2>2. QED
    BY <1>1, <2>1, Appended DEF Runs
<1> HIDE DEF r
<1>4. /\ l \in LadderState /\ l.stage = 5 /\ l.report = ladder.report /\ l.decisive = 0
  BY <1>1, <1>3 DEF LadderState
<1> HIDE DEF l
<1>5. /\ k \in LadderState /\ k.stage = 5 /\ k.report = ladder.report /\ k.decisive = 0
  BY <1>4 DEF LadderState, LadderCauses
<1>6. /\ q.pc = "rerun" /\ q.stage = 5 /\ q.report = ladder.report /\ q.decisive = 0
  BY <1>4 DEF LadderState
<1> HIDE DEF k, q
<1>7. Covers(l) /\ Covers(k)
  BY <1>1, <1>4, <1>5 DEF Covers
<1>8. CASE ladder' = q
  BY <1>1, <1>6, <1>8 DEF ReportInv, Covers
<1>9. QED
  BY <1>2, <1>4, <1>5, <1>7, <1>8, PassTold, FailTold

LEMMA RerunTold ==
  ASSUME Inv, ReportInv, LadderRerun
  PROVE  ReportInv'
<1>1. /\ ladder \in LadderState /\ ladder.stage = 5 /\ ladder.decisive = 0
      /\ Covers(ladder) /\ req \in Requests /\ ladder.runs \in Runs
  BY DEF LadderRerun, Inv, TypeOK, LadderInv, LadderState, ReportInv, Covers
<1> DEFINE r == Run(ladder, 2)
           f == r.outcome = "ok"
           l == [ladder EXCEPT !.runs = Append(@, r), !.flaky = f]
<1>2. StagePasses(l) \/ StageFails(l, "tests_failed")
  BY DEF LadderRerun
<1>3. Append(ladder.runs, r) \in Runs
  <2>1. r \in [outcome : Outcome, where : {"candidate", "slot"}]
    BY <1>1, RequestType DEF Run
  <2>2. QED
    BY <1>1, <2>1, Appended DEF Runs
<1>4. f \in BOOLEAN
  OBVIOUS
<1> HIDE DEF r, f
<1>5. /\ l \in LadderState /\ l.stage = 5 /\ l.report = ladder.report /\ l.decisive = 0
  BY <1>1, <1>3, <1>4 DEF LadderState
<1> HIDE DEF l
<1>6. Covers(l)
  BY <1>1, <1>5 DEF Covers
<1>7. QED
  BY <1>2, <1>5, <1>6, PassTold, FailTold

LEMMA SkipTold ==
  ASSUME Inv, ReportInv, LadderSkips
  PROVE  ReportInv'
<1>1. /\ ladder \in LadderState /\ ladder.stage \in 1..5 /\ ladder.pc = "stage"
      /\ ladder.report \in Report /\ ladder.stage - 1 \in 0..5 /\ ladder.decisive \in 0..5
      /\ Covers(ladder) /\ ladder.runs = <<>>
  BY Stages DEF LadderSkips, Inv, TypeOK, LadderState, ReportInv, Covers
<1>2. Told(Entry(ladder, "skipped"), ladder.stage, ladder.decisive)
  BY <1>1, TellsOne DEF Entry, Covers
<1>3. /\ ladder'.report = Entry(ladder, "skipped") /\ ladder'.stage = ladder.stage + 1
      /\ ladder'.decisive = ladder.decisive /\ ladder'.runs = ladder.runs
  BY <1>1 DEF LadderSkips, LadderState
<1>4. QED
  BY <1>1, <1>2, <1>3 DEF ReportInv

LEMMA ReportStep ==
  ASSUME Inv, ReportInv, [Next]_vars
  PROVE  ReportInv'
<1>1. CASE ladder' = ladder
  BY <1>1 DEF ReportInv, Told
<1>2. CASE LadderProtocol
  BY <1>2, EnteringTold, PassTold, FailTold DEF LadderProtocol
<1>3. CASE LadderArtifacts
  <2>1. /\ ladder \in LadderState /\ ladder.stage \in 1..5
        /\ ladder.decisive = 0 /\ Covers(ladder) /\ ladder.runs = <<>>
    BY <1>3, EnteringTold DEF LadderArtifacts
  <2>2. CASE StagePasses(ladder) \/ StageFails(ladder, "artifact_validation_failed")
    BY <2>1, <2>2, PassTold, FailTold
  <2>3. CASE ladder' = [ladder EXCEPT !.pc = "raised"]
    BY <2>1, <2>3 DEF ReportInv, Covers, LadderState
  <2>4. QED
    BY <1>3, <2>2, <2>3 DEF LadderArtifacts
<1>4. CASE LadderPlan \/ LadderEnds
  <2>1. /\ ladder'.report = ladder.report /\ ladder'.stage = ladder.stage
        /\ ladder'.decisive = ladder.decisive /\ ladder'.runs = ladder.runs
        /\ ladder.runs = <<>> \/ ladder.stage = 6
    BY <1>4 DEF LadderPlan, LadderEnds, Inv, TypeOK, LadderState, LadderInv, ReportInv
  <2>2. QED
    BY <2>1 DEF ReportInv
<1>5. CASE LegacyNext \/ SlotReused \/ UNCHANGED vars
  BY <1>1, <1>5 DEF LegacyNext, LegacyStatus, LegacyDiff, LegacyCheckout, LegacyRun,
                    LegacyRerun, Legacy, SlotReused, vars
<1>6. QED
  BY <1>2, <1>3, <1>4, <1>5, CandidateTold, TargetedTold, VisibleTold, RerunTold, SkipTold
  DEF Next, LadderNext

(* The report reads as a ladder whatever the request and the checks: every    *)
(* stage is told of, in order, nothing is tried after the failure, and the    *)
(* command that costs most never ran for a candidate a cheaper stage refuses. *)
THEOREM ReportReadsAsLadder == Spec => []ReportIsLadder
<1>1. Init => ReportInv
  BY DEF Init, ReportInv, Told
<1>2. Inv /\ ReportInv /\ [Next]_vars => ReportInv'
  BY ReportStep
<1>3. Inv /\ ReportInv => ReportIsLadder
  <2> SUFFICES ASSUME Inv, ReportInv PROVE ReportIsLadder
    OBVIOUS
  <2>1. /\ Told(ladder.report, ladder.stage - 1, ladder.decisive)
        /\ ladder \in LadderState
        /\ ladder.pc = "end" => /\ ladder.stage = 6
                                /\ ladder.passed <=> ladder.decisive = 0
    BY DEF ReportInv, Inv, TypeOK, LadderInv
  <2>2. ASSUME NEW i \in DOMAIN ladder.report, ladder.report[i].verdict = "failed",
               STAGES[ladder.report[i].stage] # "full_visible_verification"
        PROVE  ladder.runs = <<>>
    BY <2>1, <2>2, Stages DEF ReportInv, Told
  <2>3. ASSUME ladder.pc = "end"
        PROVE  /\ {ladder.report[i].stage : i \in DOMAIN ladder.report} = DOMAIN STAGES
               /\ ladder.passed <=> \A i \in DOMAIN ladder.report :
                                      ladder.report[i].verdict # "failed"
    <3>1. ladder.stage - 1 = 5 /\ DOMAIN STAGES = 1..5
      BY <2>1, <2>3, Stages
    <3>2. /\ \A i \in DOMAIN ladder.report : ladder.report[i].stage \in 1..5
          /\ \A s \in 1..5 : \E i \in DOMAIN ladder.report : ladder.report[i].stage = s
      BY <2>1, <3>1 DEF Told
    <3>3. ladder.passed <=> \A i \in DOMAIN ladder.report :
                              ladder.report[i].verdict # "failed"
      BY <2>1, <2>3 DEF Told
    <3>4. QED
      BY <3>1, <3>2, <3>3
  <2>4. QED
    BY <2>1, <2>2, <2>3 DEF ReportIsLadder, Told
<1>4. QED
  BY <1>1, <1>2, <1>3, InitKeeps, StepKeeps, PTL DEF Spec

=============================================================================
