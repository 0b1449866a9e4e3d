---------------------------- MODULE MCVerifyGate ----------------------------
(***************************************************************************)
(* Requests for TLC: every kind of candidate with plain checks, every       *)
(* outcome of the checks with a plain candidate, and tests outside the slot.*)
(***************************************************************************)
EXTENDS VerifyGate

Visible == {<<"ok", "ok">>, <<"timeout", "ok">>} \cup ({"failed"} \X Outcome)

Plain == [candidate |-> "ok", dirty |-> FALSE, empty |-> FALSE, allowEmpty |-> FALSE,
          rerun |-> TRUE, protocol |-> "none", artifacts |-> "none",
          explicit |-> FALSE, targeted |-> <<>>, outside |-> FALSE, visible |-> <<"ok", "ok">>]

Candidates ==
  {[Plain EXCEPT !.candidate = c, !.dirty = d, !.empty = e, !.allowEmpty = a, !.visible = v] :
     c \in {"none", "ok", "unknown", "gone", "stuck"}, d \in BOOLEAN, e \in BOOLEAN,
     a \in BOOLEAN, v \in Visible}

Checks ==
  {[Plain EXCEPT !.rerun = r, !.protocol = p, !.artifacts = f, !.visible = v,
                 !.explicit = t[1], !.targeted = t[2]] :
     r \in BOOLEAN, p \in {"none", "ok", "bad"}, f \in {"none", "ok", "bad", "raises"},
     v \in Visible,
     t \in {<<FALSE, <<>>>>, <<FALSE, <<"ok">>>>, <<TRUE, <<"ok", "ok">>>>,
            <<TRUE, <<"failed", "ok">>>>, <<TRUE, <<"ok", "timeout">>>>}}

(* A test of a changed file outside the slot, with and without a change, and *)
(* with targeted commands that leave nothing to be looked up.                *)
Outside ==
  {[Plain EXCEPT !.outside = TRUE, !.empty = e, !.allowEmpty = a,
                 !.explicit = x, !.targeted = <<"ok">>, !.visible = v] :
     e \in BOOLEAN, a \in BOOLEAN, x \in BOOLEAN, v \in Visible}

MCRequests == Candidates \cup Checks \cup Outside
=============================================================================
