------------------------------- MODULE Beliefs ------------------------------
(* Belief in hypotheses: update_hypothesis of cydra/hypothesis.py, and when *)
(* the planner of cydra/planner.py has an observation to propose.  A belief *)
(* is a fixed-point number, 0 for 0.0 and One for 1.0, rounded half to even *)
(* as floats are; a confidence is a number of halves.  Precision bounds how *)
(* close a belief comes to its ends without being there: 53 halvings for a  *)
(* float near 1.0.                                                          *)
EXTENDS Integers, FiniteSetsExt

CONSTANTS
    Hypotheses,    \* hypothesis identities
    Items,         \* VerificationEvidence: records of id, role, confidence
    Outcomes,      \* what callers make CandidateVerifications of: records of
                   \* state, bound, supporting and contradicting
    Observations,  \* records of authorized, pair, predicted
    Precision,     \* bits of a belief
    MaxCalls       \* bound on the calls

\* 2 ^ n, as a function, for the provers.
Pow2[n \in Nat] == IF n = 0 THEN 1 ELSE 2 * Pow2[n - 1]

One == Pow2[Precision]
Polarities == {"supported", "contradicted", "unresolved"}

\* Valid evidence, and a bit at least: belief starts from half of One.
ASSUME BeliefAssumption ==
    /\ Precision \in Nat \ {0}
    /\ MaxCalls \in Nat
    /\ \A i \in Items : i.confidence \in 0..2
    /\ \A v \in Outcomes : v.state \in Polarities

VARIABLES
    belief,   \* belief of each hypothesis
    hstate,   \* its state
    updates,  \* history: updates of it so far
    calls     \* calls so far

beliefs == <<belief, hstate, updates>>


BeliefInit ==
    /\ belief = [h \in Hypotheses |-> One \div 2]
    /\ hstate = [h \in Hypotheses |-> "unresolved"]
    /\ updates = [h \in Hypotheses |-> 0]
    /\ calls = 0

Called == calls < MaxCalls /\ calls' = calls + 1

\* CandidateVerification.__post_init__
Valid(v) ==
    /\ v.supporting \cup v.contradicting \subseteq v.bound
    /\ v.state = "supported" => v.supporting # {}
    /\ v.state = "contradicted" => v.contradicting # {}
    /\ v.state = "unresolved" => v.supporting \cup v.contradicting = {}

Verifications == {v \in Outcomes : Valid(v)}

\* n/4, rounded half to even.
Quarter(n) ==
    LET q == n \div 4
        r == n % 4
    IN IF r > 2 \/ (r = 2 /\ q % 2 = 1) THEN q + 1 ELSE q

\* Slip: the strength moves the belief all the way.
Move_Whole(b, polarity, strength) ==
    CASE polarity = "supported" -> Quarter(4 * b + 2 * (One - b) * strength)
      [] polarity = "contradicted" -> Quarter(4 * b - 2 * b * strength)

\* Slip: the strength is a share of One, not of what is left.
Move_Absolute(b, polarity, strength) ==
    CASE polarity = "supported" -> Quarter(4 * b + One * strength)
      [] polarity = "contradicted" -> Quarter(4 * b - One * strength)

\* Half of the strength, given in halves: towards One, or towards 0.
Move(b, polarity, strength) ==
    CASE polarity = "supported" -> Quarter(4 * b + (One - b) * strength)
      [] polarity = "contradicted" -> Quarter(4 * b - b * strength)

Relevant(v, supplied) ==
    {i \in supplied : i.id \in v.bound /\ i.role # "neutral"}

\* Slip: evidence moves belief while the verification is unresolved.
Posterior_Drifts(b, v, supplied) ==
    LET relevant == Relevant(v, supplied) IN
    IF relevant = {}
    THEN [belief |-> b, state |-> "unresolved"]
    ELSE [belief |-> Move(b, IF v.state = "contradicted" THEN v.state
                                                         ELSE "supported",
                          Max({i.confidence : i \in relevant})),
          state |-> v.state]

\* Belief and state after a verification: moved by the strongest evidence that
\* is bound to it and not neutral, whichever way that evidence points.
Posterior(b, v, supplied) ==
    LET relevant == Relevant(v, supplied) IN
    IF v.state = "unresolved" \/ relevant = {}
    THEN [belief |-> b, state |-> "unresolved"]
    ELSE [belief |-> Move(b, v.state, Max({i.confidence : i \in relevant})),
          state |-> v.state]

\* update_hypothesis, which refuses evidence that is bound and not supplied.
UpdateHypothesis(h, v, supplied) ==
    /\ Called
    /\ v.bound \subseteq {i.id : i \in supplied}
    /\ LET p == Posterior(belief[h], v, supplied) IN
       /\ belief' = [belief EXCEPT ![h] = p.belief]
       /\ hstate' = [hstate EXCEPT ![h] = p.state]
    /\ updates' = [updates EXCEPT ![h] = @ + 1]

BeliefNext ==
    \E h \in Hypotheses, v \in Verifications, supplied \in SUBSET Items :
        UpdateHypothesis(h, v, supplied)

-----------------------------------------------------------------------------
(* information_gain and choose_next_observation *)

\* The hypotheses an observation is weighed over: its pair, or all there are.
Weighed(o) == IF o.pair = {} THEN Hypotheses ELSE o.pair

\* Slip: every hypothesis the observation discriminates must be believed.
HasGain_EachBelieved(o) ==
    /\ o.authorized
    /\ o.pair \subseteq Hypotheses
    /\ \A h \in Weighed(o) : belief[h] > 0
    /\ Weighed(o) \cap o.predicted # {}

\* information_gain is a number: the hypotheses of the pair are there, some
\* hypothesis weighed is believed at all, and some predicts an outcome.
HasGain(o) ==
    /\ o.authorized
    /\ o.pair \subseteq Hypotheses
    /\ \E h \in Weighed(o) : belief[h] > 0
    /\ Weighed(o) \cap o.predicted # {}

\* choose_next_observation returns a plan.
CanPlan == \E o \in Observations : HasGain(o)

-----------------------------------------------------------------------------
(* Properties *)

BeliefTypeOK ==
    /\ belief \in [Hypotheses -> 0..One]
    /\ hstate \in [Hypotheses -> Polarities]
    /\ updates \in [Hypotheses -> 0..MaxCalls]
    /\ calls \in 0..MaxCalls

\* A verification moves a belief without promoting it to proof: from even odds,
\* belief is certain only after Precision updates, however strong each one is.
NoEarlyCertainty ==
    \A h \in Hypotheses : belief[h] \in {0, One} => updates[h] >= Precision

\* Belief moves only with an explicit polarity, which the hypothesis then shows:
\* no unresolved or unbound evidence raises it or lowers it.
BeliefMovesWithState ==
    [][\A h \in Hypotheses :
        /\ belief'[h] > belief[h] => hstate'[h] = "supported"
        /\ belief'[h] < belief[h] => hstate'[h] = "contradicted"]_beliefs

\* The planner runs out of observations only when belief in every hypothesis of
\* the question was refuted down to nothing; one that is believed is enough.
QuestionStaysOpen ==
    \A o \in Observations :
        /\ o.authorized /\ o.pair # {}
        /\ o.pair \subseteq Hypotheses \cap o.predicted
        /\ \E h \in o.pair : updates[h] < Precision
        => CanPlan
=============================================================================
