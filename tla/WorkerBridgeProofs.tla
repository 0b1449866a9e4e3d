------------------------- MODULE WorkerBridgeProofs -------------------------
(***************************************************************************)
(* Both bridges implement the protocol of WorkerWire, for any number of     *)
(* questions, when a nudge is one line.                                     *)
(***************************************************************************)
EXTENDS WorkerBridge, TLAPS

(* Between questions nothing has been said that calls for something, and    *)
(* nothing lies unread in the pipe; a question is open until one line has   *)
(* come for it.                                                             *)
Inv ==
  /\ TypeOK
  /\ pc \in {"begin", "turn", "answered"} => out.said = "none" /\ in.lines = 0 /\ ~in.owed
  /\ pc = "answered" => out.started
  /\ pc = "reading" =>
       /\ out.said = "asked" /\ out.started
       /\ in.owed => in.lines = 0
       /\ ~in.owed => in.lines = 1
  /\ pc = "reap" => out.said = "done_claimed"
  /\ pc = "leave" /\ out.said = "asked" => in.owed /\ in.closed

OneLine == ReplyLines \subseteq {1}

LEMMA InitInv == Init => Inv
BY BridgeAssumption DEF Init, Inv, TypeOK

LEMMA QuestionInv ==
  ASSUME Inv, NEW k, Question(k), UNCHANGED child
  PROVE  Inv'
<1>1. /\ pc' = "reading" /\ kind' = kind /\ asks' \in Nat /\ child' = child
      /\ pc = "answered" /\ out.started /\ in.lines = 0
  BY DEF Inv, TypeOK, Question, Goes
<1>2. /\ out' \in [said : {"none", "asked", "done_claimed", "no_change", "unclaimed",
                          "startup_failed", "sdk_failed", "sdk_timeout"},
                  started : BOOLEAN]
      /\ out'.said = "asked" /\ out'.started = out.started
  BY DEF Inv, TypeOK, Question
<1>3. /\ in' \in [lines : Nat, closed : BOOLEAN, owed : BOOLEAN]
      /\ in'.lines = in.lines /\ in'.owed
  BY DEF Inv, TypeOK, Question
<1>4. QED
  BY <1>1, <1>2, <1>3 DEF Inv, TypeOK

LEMMA StepInv ==
  ASSUME OneLine, Inv, [Next]_vars
  PROVE  Inv'
<1>1. CASE SdkConnects
  BY <1>1 DEF Inv, TypeOK, SdkConnects, Sdk, Silently, Says, Goes
<1>2. CASE SdkResult
  BY <1>2 DEF Inv, TypeOK, SdkResult, Sdk, Goes
<1>3. CASE SdkFails
  BY <1>3 DEF Inv, TypeOK, SdkFails, Sdk, Says, Goes
<1>4. CASE SdkRaises
  BY <1>4 DEF Inv, TypeOK, SdkRaises, Sdk, Silently, Goes
<1>5. CASE SdkTimeout
  BY <1>5 DEF Inv, TypeOK, SdkTimeout, Sdk, Says, Goes
<1>6. CASE SdkAnswers
  <2>1. CASE Question("sdk")
    BY <1>6, <2>1, QuestionInv DEF SdkAnswers, Sdk
  <2>2. CASE \E w \in {"done_claimed", "no_change", "unclaimed"} :
               Says("sdk", "answered", w, "leave")
    BY <1>6, <2>2 DEF Inv, TypeOK, SdkAnswers, Sdk, Says, Goes
  <2>3. QED
    BY <1>6, <2>1, <2>2 DEF SdkAnswers
<1>7. CASE SdkReads
  BY <1>7 DEF Inv, TypeOK, SdkReads, Sdk, ReadsLine, EndOfInput, Silently, Goes
<1>8. CASE CliSpawns
  BY <1>8 DEF Inv, TypeOK, CliSpawns, Silently, Says, Goes
<1>9. CASE CliRecord
  BY <1>9 DEF Inv, TypeOK, CliRecord, Goes
<1>10. CASE CliMalformed
  BY <1>10 DEF Inv, TypeOK, CliMalformed, Says, Goes
<1>11. CASE CliResult
  BY <1>11 DEF Inv, TypeOK, CliResult, Goes
<1>12. CASE CliAnswers
  <2>1. CASE UNCHANGED child /\ Question("cli")
    BY <2>1, QuestionInv
  <2>2. CASE \/ child' = "failed" /\ Says("cli", "answered", "startup_failed", "leave")
             \/ UNCHANGED child /\ Says("cli", "answered", "done_claimed", "reap")
             \/ UNCHANGED child /\ Silently("cli", "answered", "turn")
    BY <2>2 DEF Inv, TypeOK, Silently, Says, Goes
  <2>3. QED
    BY <1>12, <2>1, <2>2 DEF CliAnswers
<1>13. CASE CliReads
  BY <1>13 DEF Inv, TypeOK, CliReads, ReadsLine, EndOfInput, Silently, Goes, Gone
<1>14. CASE CliEnds
  BY <1>14 DEF Inv, TypeOK, CliEnds, Silently, Says, Goes, Gone
<1>15. CASE CliReaps
  BY <1>15 DEF Inv, TypeOK, CliReaps, Silently, Goes, Gone
<1>16. CASE Leaves
  BY <1>16 DEF Inv, TypeOK, Leaves, Silently, Goes
<1>17. CASE Reply
  <2>1. /\ in' = [in EXCEPT !.lines = in.lines + 1, !.owed = FALSE]
        /\ in.owed /\ ~in.closed
        /\ pc' = pc /\ out' = out /\ kind' = kind /\ asks' = asks /\ child' = child
    BY <1>17 DEF Reply, OneLine
  <2>a. in \in [lines : Nat, closed : BOOLEAN, owed : BOOLEAN]
    BY DEF Inv, TypeOK
  <2>b. in.lines + 1 \in Nat
    BY <2>a
  <2>c. in' \in [lines : Nat, closed : BOOLEAN, owed : BOOLEAN]
    BY <2>1, <2>a, <2>b
  <2>d. in'.lines = in.lines + 1
    BY <2>1, <2>a
  <2>e. ~in'.owed
    BY <2>1, <2>a
  <2>2. /\ in' \in [lines : Nat, closed : BOOLEAN, owed : BOOLEAN]
        /\ in'.lines = in.lines + 1 /\ ~in'.owed
    BY <2>c, <2>d, <2>e
  <2>3. /\ pc \notin {"begin", "turn", "answered"} /\ ~(pc = "leave" /\ out.said = "asked")
        /\ pc = "reading" => in'.lines = 1
    BY <2>1, <2>2 DEF Inv
  <2>4. QED
    BY <2>1, <2>2, <2>3 DEF Inv, TypeOK
<1>18. CASE Closes
  BY <1>18 DEF Inv, TypeOK, Closes
<1>19. CASE Killed
  BY <1>19 DEF Inv, TypeOK, Killed
<1>20. CASE ChildExits
  BY <1>20 DEF Inv, TypeOK, ChildExits, Gone
<1>21. CASE UNCHANGED vars
  BY <1>21 DEF Inv, TypeOK, vars
<1>22. QED
  BY <1>1, <1>2, <1>3, <1>4, <1>5, <1>6, <1>7, <1>8, <1>9, <1>10, <1>11, <1>12, <1>13, <1>14, <1>15, <1>16, <1>17, <1>18, <1>19, <1>20, <1>21 DEF Next, SdkSteps, CliSteps

THEOREM Invariance == OneLine /\ Spec => []Inv
<1>1. OneLine /\ Inv /\ [Next]_vars => Inv'
  BY StepInv
<1>2. OneLine => OneLine'
  BY DEF OneLine
<1>3. QED
  BY <1>1, <1>2, InitInv, PTL DEF Spec

-----------------------------------------------------------------------------
(* The refinement: what each kind of step is in the protocol. *)

(* The values the mapping can take. *)
LEMMA Mapped ==
  ASSUME Inv
  PROVE  /\ pc \in {"begin", "turn", "answered"} => Turn = "worker" /\ Word = "none"
         /\ pc \in {"leave", "reap", "gone"} => Turn = "nobody"
         /\ pc = "reading" /\ in.owed /\ ~in.closed => Turn = "scheduler" /\ Word = "asked"
         /\ pc = "reading" /\ in.owed /\ in.closed => Turn = "nobody" /\ Word = "asked"
         /\ pc = "reading" /\ ~in.owed => Turn = "worker" /\ Word = "none"
         /\ Word \in {out.said, "none"}
         /\ out.said # "asked" => Word = out.said
BY DEF Inv, TypeOK, Turn, Awaiting, Word

LEMMA MappedNext ==
  ASSUME Inv'
  PROVE  /\ pc' \in {"begin", "turn", "answered"} => Turn' = "worker" /\ Word' = "none"
         /\ pc' \in {"leave", "reap", "gone"} => Turn' = "nobody"
         /\ pc' = "reading" /\ in'.owed /\ ~in'.closed => Turn' = "scheduler" /\ Word' = "asked"
         /\ pc' = "reading" /\ in'.owed /\ in'.closed => Turn' = "nobody" /\ Word' = "asked"
         /\ pc' = "reading" /\ ~in'.owed => Turn' = "worker" /\ Word' = "none"
         /\ Word' \in {out'.said, "none"}
         /\ out'.said # "asked" => Word' = out'.said
BY DEF Inv, TypeOK, Turn, Awaiting, Word

LEMMA SaysRefines ==
  ASSUME Inv, Inv', NEW k, NEW from \in {"begin", "turn", "answered"}, NEW to \in {"leave", "reap"},
         NEW w \in {"done_claimed", "no_change", "unclaimed",
                   "startup_failed", "sdk_failed", "sdk_timeout"},
         Says(k, from, w, to),
         w \in {"done_claimed", "no_change", "unclaimed"} => out.started
  PROVE  Wire!Next
<1>1. pc = from /\ pc' = to /\ out' = [out EXCEPT !.said = w]
  BY DEF Says, Goes
<1>2. out'.said = w /\ out'.started = out.started
  BY <1>1 DEF Inv, TypeOK
<1>3. Turn = "worker" /\ Turn' = "nobody" /\ Word' = w
  BY <1>1, <1>2, Mapped, MappedNext
<1>4. Wire!SaysLast(w)
  BY <1>1, <1>2, <1>3 DEF Wire!SaysLast, Wire!Claims
<1>5. QED
  BY <1>4 DEF Wire!Next, Wire!LastWords, Wire!Claims, Wire!Failures

(* A step without a word: to the next turn, out of it, or out of a reading  *)
(* that met the end of the input.                                           *)
LEMMA SilentlyRefines ==
  ASSUME Inv, Inv', NEW k, NEW from, NEW to, Silently(k, from, to),
         \/ from \in {"begin", "turn", "answered"} /\ to \in {"turn", "leave"}
         \/ from = "reading" /\ to = "leave" /\ EndOfInput
         \/ from = "reap" /\ to = "leave"
         \/ from = "leave" /\ to = "gone"
  PROVE  Wire!Next \/ UNCHANGED Wire!vars
<1>1. pc = from /\ pc' = to /\ out' = out /\ in' = in
  BY DEF Silently, Goes
<1>2. Word' = Word
  BY <1>1 DEF Word
<1>3. CASE from \in {"begin", "turn", "answered"} /\ to = "turn"
  <2>1. Turn' = Turn
    BY <1>1, <1>3, Mapped, MappedNext
  <2>2. QED
    BY <1>1, <1>2, <1>3, <2>1 DEF Wire!vars
<1>4. CASE from \in {"begin", "turn", "answered"} /\ to = "leave"
  <2>1. Turn = "worker" /\ Turn' = "nobody"
    BY <1>1, <1>4, Mapped, MappedNext
  <2>2. Wire!FallsSilent
    BY <1>1, <1>2, <1>4, <2>1 DEF Wire!FallsSilent
  <2>3. QED
    BY <2>2 DEF Wire!Next
<1>5. CASE from \in {"reading", "reap"} /\ to = "leave" /\ (from = "reading" => EndOfInput)
  <2>1. Turn = "nobody" /\ Turn' = "nobody"
    BY <1>1, <1>5, Mapped, MappedNext DEF EndOfInput, Inv
  <2>2. QED
    BY <1>1, <1>2, <1>5, <2>1 DEF Wire!vars
<1>6. CASE from = "leave" /\ to = "gone"
  <2>1. Turn = "nobody" /\ Turn' = "nobody"
    BY <1>1, <1>6, Mapped, MappedNext
  <2>2. Wire!Exits
    BY <1>1, <1>2, <1>6, <2>1 DEF Wire!Exits
  <2>3. QED
    BY <2>2 DEF Wire!Next
<1>7. QED
  BY <1>3, <1>4, <1>5, <1>6

LEMMA QuestionRefines ==
  ASSUME Inv, Inv', NEW k, Question(k)
  PROVE  Wire!Next
<1>1. /\ pc = "answered" /\ pc' = "reading" /\ out.started
      /\ out'.started = out.started /\ in'.owed
  BY DEF Question, Goes, Inv, TypeOK
<1>2. Turn = "worker" /\ Turn' \in {"scheduler", "nobody"} /\ Word' = "asked"
  BY <1>1, Mapped, MappedNext
<1>3. Wire!Asks
  BY <1>1, <1>2 DEF Wire!Asks
<1>4. QED
  BY <1>3 DEF Wire!Next

(* The first sign of a session, or one more. *)
LEMMA StartRefines ==
  ASSUME Inv, Inv', NEW k, NEW to \in {"turn", "answered"}, Goes(k, "turn", to),
         out' = [out EXCEPT !.started = TRUE]
  PROVE  Wire!Next \/ UNCHANGED Wire!vars
<1>1. pc = "turn" /\ pc' = to /\ out'.started
  BY DEF Goes, Inv, TypeOK
<1>2. Turn = "worker" /\ Turn' = "worker" /\ Word = "none" /\ Word' = "none"
  BY <1>1, Mapped, MappedNext
<1>3. CASE out.started
  <2>1. out'.started = out.started
    BY <1>3 DEF Inv, TypeOK
  <2>2. QED
    BY <1>1, <1>2, <2>1 DEF Wire!vars
<1>4. CASE ~out.started
  <2>1. Wire!Starts
    <3>1. out'.started = TRUE
      BY DEF Inv, TypeOK
    <3>2. QED
      BY <1>1, <1>2, <1>4, <3>1 DEF Wire!Starts
  <2>2. QED
    BY <2>1 DEF Wire!Next
<1>5. QED
  BY <1>3, <1>4

(* A reply that is read has been the worker's turn since it was written. *)
LEMMA ReadRefines ==
  ASSUME Inv, Inv', NEW k, NEW to \in {"turn", "leave"}, ReadsLine, Goes(k, "reading", to)
  PROVE  Wire!Next \/ UNCHANGED Wire!vars
<1>1. /\ pc = "reading" /\ pc' = to /\ ~in.owed
      /\ out'.said = "none" /\ out'.started = out.started
  BY DEF ReadsLine, Goes, Inv, TypeOK
<1>2. Turn = "worker" /\ Word = "none" /\ Word' = "none"
  BY <1>1, Mapped, MappedNext
<1>3. CASE to = "turn"
  <2>1. Turn' = "worker"
    BY <1>1, <1>3, MappedNext
  <2>2. QED
    BY <1>1, <1>2, <1>3, <2>1 DEF Wire!vars
<1>4. CASE to = "leave"
  <2>1. Turn' = "nobody"
    BY <1>1, <1>4, MappedNext
  <2>2. Wire!FallsSilent
    BY <1>1, <1>2, <1>4, <2>1 DEF Wire!FallsSilent
  <2>3. QED
    BY <2>2 DEF Wire!Next
<1>5. QED
  BY <1>3, <1>4

LEMMA SurroundingsRefine ==
  ASSUME OneLine, Inv, Inv', Reply \/ Closes \/ Killed \/ ChildExits
  PROVE  Wire!Next \/ UNCHANGED Wire!vars
<1>1. CASE Reply
  <2>1. /\ in.owed /\ ~in.closed /\ pc' = pc /\ pc # "gone" /\ out' = out
        /\ ~in'.owed
    BY <1>1 DEF Reply, Inv, TypeOK
  <2>2. CASE pc = "reading"
    <3>1. Turn = "scheduler" /\ Turn' = "worker" /\ Word' = "none"
      BY <2>1, <2>2, Mapped, MappedNext
    <3>2. Wire!Replies
      BY <2>1, <3>1 DEF Wire!Replies
    <3>3. QED
      BY <3>2 DEF Wire!Next
  <2>3. CASE pc # "reading"
    <3>1. pc \in {"leave", "reap"} /\ out.said # "asked"
      BY <2>1, <2>3 DEF Inv, TypeOK
    <3>2. Turn = "nobody" /\ Turn' = "nobody" /\ Word = out.said /\ Word' = out.said
      BY <2>1, <3>1, Mapped, MappedNext
    <3>3. QED
      BY <2>1, <3>2 DEF Wire!vars
  <2>4. QED
    BY <2>2, <2>3
<1>2. CASE Closes
  <2>1. /\ pc' = pc /\ pc # "gone" /\ out' = out /\ in'.closed /\ ~in.closed
        /\ in'.owed = in.owed
    BY <1>2 DEF Closes, Inv, TypeOK
  <2>2. Word' = Word
    BY <2>1 DEF Word
  <2>3. CASE pc = "reading" /\ in.owed
    <3>1. Turn = "scheduler" /\ Turn' = "nobody"
      BY <2>1, <2>3, Mapped, MappedNext
    <3>2. Wire!FallsSilent
      BY <2>1, <2>2, <3>1 DEF Wire!FallsSilent
    <3>3. QED
      BY <3>2 DEF Wire!Next
  <2>4. CASE ~(pc = "reading" /\ in.owed)
    <3>1. Turn' = Turn
      BY <2>1, <2>4, Mapped, MappedNext DEF Inv, TypeOK
    <3>2. QED
      BY <2>1, <2>2, <3>1 DEF Wire!vars
  <2>5. QED
    BY <2>3, <2>4
<1>3. CASE Killed
  <2>1. pc # "gone" /\ pc' = "gone" /\ out' = out /\ in' = in
    BY <1>3 DEF Killed
  <2>2. Turn' = "nobody" /\ Word' = Word
    BY <2>1, MappedNext DEF Word
  <2>3. Wire!Exits
    BY <2>1, <2>2 DEF Wire!Exits
  <2>4. QED
    BY <2>3 DEF Wire!Next
<1>4. CASE ChildExits
  <2>1. pc' = pc /\ out' = out /\ in' = in
    BY <1>4 DEF ChildExits
  <2>2. QED
    BY <2>1 DEF Wire!vars, Turn, Word, Awaiting
<1>5. QED
  BY <1>1, <1>2, <1>3, <1>4

LEMMA SdkRefines ==
  ASSUME Inv, Inv', SdkSteps
  PROVE  Wire!Next \/ UNCHANGED Wire!vars
<1>1. CASE SdkConnects \/ SdkRaises
  BY <1>1, SilentlyRefines, SaysRefines DEF SdkConnects, SdkRaises
<1>2. CASE SdkResult
  BY <1>2, StartRefines DEF SdkResult
<1>3. CASE SdkFails \/ SdkTimeout
  BY <1>3, SaysRefines DEF SdkFails, SdkTimeout
<1>4. CASE SdkAnswers
  <2>1. out.started
    BY <1>4 DEF SdkAnswers, Question, Says, Goes, Inv
  <2>2. QED
    BY <1>4, <2>1, QuestionRefines, SaysRefines DEF SdkAnswers
<1>5. CASE SdkReads
  BY <1>5, ReadRefines, SilentlyRefines DEF SdkReads
<1>6. QED
  BY <1>1, <1>2, <1>3, <1>4, <1>5 DEF SdkSteps

LEMMA CliRefines ==
  ASSUME Inv, Inv', CliSteps
  PROVE  Wire!Next \/ UNCHANGED Wire!vars
<1>1. CASE CliSpawns \/ CliEnds
  BY <1>1, SilentlyRefines, SaysRefines DEF CliSpawns, CliEnds
<1>2. CASE CliRecord \/ CliResult
  BY <1>2, StartRefines DEF CliRecord, CliResult
<1>3. CASE CliMalformed
  BY <1>3, SaysRefines DEF CliMalformed
<1>4. CASE CliAnswers
  <2>1. out.started
    BY <1>4 DEF CliAnswers, Question, Says, Silently, Goes, Inv
  <2>2. QED
    BY <1>4, <2>1, QuestionRefines, SaysRefines, SilentlyRefines DEF CliAnswers
<1>5. CASE CliReads
  BY <1>5, ReadRefines, SilentlyRefines DEF CliReads
<1>6. CASE CliReaps
  BY <1>6, SilentlyRefines DEF CliReaps
<1>7. QED
  BY <1>1, <1>2, <1>3, <1>4, <1>5, <1>6 DEF CliSteps

(* Both bridges speak the protocol of WorkerWire, however many questions are *)
(* asked and whatever becomes of the agent, as long as a nudge is one line.  *)
THEOREM BridgesSpeakTheProtocol == OneLine /\ Spec => WireRefined
<1>1. Init => Wire!Init
  BY DEF Init, Wire!Init, Turn, Word, Awaiting
<1>2. OneLine /\ Inv /\ Inv' /\ [Next]_vars => [Wire!Next]_(Wire!vars)
  <2> SUFFICES ASSUME OneLine, Inv, Inv', [Next]_vars
               PROVE  Wire!Next \/ UNCHANGED Wire!vars
    OBVIOUS
  <2>1. CASE Leaves
    BY <2>1, SilentlyRefines DEF Leaves
  <2>2. CASE UNCHANGED vars
    BY <2>2 DEF vars, Wire!vars, Turn, Word, Awaiting
  <2>3. QED
    BY <2>1, <2>2, SdkRefines, CliRefines, SurroundingsRefine DEF Next
<1>3. OneLine => OneLine'
  BY DEF OneLine
<1>4. QED
  BY <1>1, <1>2, <1>3, Invariance, PTL DEF Spec, Wire!Spec, WireRefined

=============================================================================
