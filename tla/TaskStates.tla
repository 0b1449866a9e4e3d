------------------------------ MODULE TaskStates ------------------------------
(***************************************************************************)
(* The task state machine of store/events.py: the states, which of them are *)
(* final, and the edges that transition() accepts.  Every module that       *)
(* changes a task's state shares this table.                                *)
(***************************************************************************)

STATES == {"blocked", "queued", "running", "verifying", "triage",
           "needs_human", "delivering", "delivered", "failed", "cancelled",
           "dependency_blocked"}

TERMINAL == {"delivered", "failed", "cancelled", "dependency_blocked"}

Transitions ==
  {<<"blocked", "queued">>, <<"queued", "running">>,
   <<"running", "verifying">>, <<"running", "triage">>,
   <<"verifying", "delivering">>, <<"verifying", "triage">>,
   <<"triage", "running">>, <<"triage", "needs_human">>,
   <<"triage", "failed">>, <<"needs_human", "running">>,
   <<"needs_human", "queued">>, <<"needs_human", "delivering">>,
   <<"delivering", "delivered">>, <<"delivering", "triage">>,
   <<"blocked", "dependency_blocked">>}

\* Mutant: the edge check forgets that a terminal state is final.
LegalForgetsTerminal(frm, to) ==
  \/ to = "cancelled"
  \/ <<frm, to>> \in Transitions

\* _legal(): any live task may be cancelled, a terminal one is final.
Legal(frm, to) ==
  /\ frm \notin TERMINAL
  /\ \/ to = "cancelled"
     \/ <<frm, to>> \in Transitions
===============================================================================
