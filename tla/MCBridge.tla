------------------------------- MODULE MCBridge -----------------------------
(* Two hypotheses of one question, evidence for, against and neutral, and   *)
(* two invariants that the planner gives the same hypothesis.               *)
EXTENDS Bridge

MCItems == {[id |-> "e1", role |-> "supports", confidence |-> 2],
            [id |-> "e2", role |-> "contradicts", confidence |-> 1],
            [id |-> "e2", role |-> "neutral", confidence |-> 2]}

Outcome(state, supporting, contradicting) ==
    [state |-> state, bound |-> {"e1", "e2"},
     supporting |-> supporting, contradicting |-> contradicting]
MCOutcomes ==
    {Outcome("supported", {"e1"}, {}), Outcome("supported", {"e1", "e2"}, {}),
     [Outcome("contradicted", {}, {"e2"}) EXCEPT !.bound = {"e2"}],
     Outcome("contradicted", {"e1"}, {"e2"}), Outcome("unresolved", {}, {}),
     Outcome("supported", {}, {"e2"})}  \* the last is not valid

MCObservations ==
    {[authorized |-> TRUE, pair |-> {"holds", "violated"},
      predicted |-> {"holds", "violated"}],
     [authorized |-> FALSE, pair |-> {}, predicted |-> {"holds"}]}

MCCandidateLists == {<<"i1", "i2">>}

MCNamings == {[i \in Invariants |-> i], [i \in Invariants |-> "violated"]}
=============================================================================
