---------------------------- MODULE BridgeProofs ----------------------------
(* Belief and the bridge, for every set of hypotheses, invariants and       *)
(* evidence and every precision: beliefs stay in range and move only with   *)
(* an explicit polarity, and a hypothesis of the bridge keeps its question. *)
EXTENDS Bridge, SetInduction

-----------------------------------------------------------------------------
(* Arithmetic of one update *)

\* The recursive definition of Pow2 has a solution: the iterates of doubling.
LEMMA Pow2Defined ==
    Pow2 = [n \in Nat |-> IF n = 0 THEN 1 ELSE 2 * Pow2[n - 1]]
<1> DEFINE step == [n \in Nat |-> [x \in Nat |-> 2 * x]]
<1>1. step \in [Nat -> [Nat -> Nat]]
    OBVIOUS
<1>2. PICK f : Iterated(f, Nat, 1, step)
  <2> HIDE DEF step
  <2>1. 1 \in Nat
      OBVIOUS
  <2>2. QED
      BY <1>1, <2>1, Recursion
<1>3. ASSUME NEW n \in Nat
      PROVE  f[n] = IF n = 0 THEN 1 ELSE 2 * f[n - 1]
  <2>1. CASE n = 0
      BY <1>2, <2>1 DEF Iterated
  <2>2. CASE n # 0
    <3>1. n - 1 \in Nat /\ (n - 1) + 1 = n
        BY <2>2
    <3>2. f[n] = 2 * f[n - 1]
        BY <1>2, <3>1 DEF Iterated
    <3>3. QED
        BY <2>2, <3>2
  <2>3. QED
      BY <2>1, <2>2
<1>4. f = [n \in Nat |-> IF n = 0 THEN 1 ELSE 2 * f[n - 1]]
    BY <1>2, <1>3 DEF Iterated
<1>5. QED
    BY <1>4 DEF Pow2

LEMMA Pow2Doubles ==
    /\ Pow2[0] = 1
    /\ \A n \in Nat : Pow2[n] \in Nat \ {0} /\ Pow2[n + 1] = 2 * Pow2[n]
<1>1. \A n \in Nat : Pow2[n] = IF n = 0 THEN 1 ELSE 2 * Pow2[n - 1]
    BY Pow2Defined
<1>2. Pow2[0] = 1 /\ \A n \in Nat : Pow2[n + 1] = 2 * Pow2[n]
    BY <1>1
<1> DEFINE S == {n \in Nat : Pow2[n] \in Nat \ {0}}
<1>3. 0 \in S /\ \A n \in Nat : n \in S => n + 1 \in S
    BY <1>2
<1> HIDE DEF S
<1>4. \A n \in Nat : n \in S
    BY <1>3, NatBySuccessor
<1>5. QED
    BY <1>2, <1>4 DEF S

\* Half of One is a whole number.
LEMMA Halves ==
    /\ One \in Nat
    /\ Precision - 1 \in Nat
    /\ One = 2 * Pow2[Precision - 1]
<1>1. Precision - 1 \in Nat /\ (Precision - 1) + 1 = Precision
    BY BeliefAssumption
<1>2. /\ Pow2[Precision - 1] \in Nat
      /\ Pow2[(Precision - 1) + 1] = 2 * Pow2[Precision - 1]
    BY <1>1, Pow2Doubles
<1>3. QED
    BY <1>1, <1>2 DEF One

\* A quarter lies between the quarters around it.
LEMMA QuarterBounds ==
    ASSUME NEW n \in Nat
    PROVE  /\ Quarter(n) \in Nat
           /\ 4 * Quarter(n) <= n + 2
           /\ n <= 4 * Quarter(n) + 2
BY DEF Quarter

\* An update goes at most half of the way to One: whatever margin there was
\* twice of, there is once of.
LEMMA MoveUp ==
    ASSUME NEW b \in 0..One, NEW strength \in 0..2
    PROVE  /\ Move(b, "supported", strength) \in 0..One
           /\ Move(b, "supported", strength) >= b
           /\ \A m \in Nat : b <= One - 2 * m
                 => Move(b, "supported", strength) <= One - m
<1> DEFINE n == 4 * b + (One - b) * strength
<1>0. One \in Nat
    BY Halves
<1>1. n \in Nat /\ 4 * b <= n /\ n <= 2 * b + 2 * One
  <2>1. CASE strength = 0
      BY <1>0, <2>1
  <2>2. CASE strength = 1
      BY <1>0, <2>2
  <2>3. CASE strength = 2
      BY <1>0, <2>3
  <2>4. QED
      BY <2>1, <2>2, <2>3
<1>2. Move(b, "supported", strength) = Quarter(n)
    BY DEF Move
<1> HIDE DEF n
<1>3. Quarter(n) >= b
    BY <1>1, <1>0 DEF Quarter
<1>4. /\ Quarter(n) \in Nat
      /\ 4 * Quarter(n) <= n + 2
    BY <1>1, QuarterBounds
<1>5. ASSUME NEW m \in Nat, b <= One - 2 * m
      PROVE  Quarter(n) <= One - m
  <2>1. 4 * Quarter(n) <= 4 * (One - m) + 2
      BY <1>0, <1>1, <1>4, <1>5
  <2>2. QED
      BY <1>0, <1>4, <2>1
<1>6. Quarter(n) <= One
    BY <1>5, <1>0
<1>7. QED
    BY <1>0, <1>2, <1>3, <1>4, <1>5, <1>6

\* ... and at most half of the way to 0.
LEMMA MoveDown ==
    ASSUME NEW b \in 0..One, NEW strength \in 0..2
    PROVE  /\ Move(b, "contradicted", strength) \in 0..One
           /\ Move(b, "contradicted", strength) <= b
           /\ \A m \in Nat : b >= 2 * m
                 => Move(b, "contradicted", strength) >= m
<1> DEFINE n == 4 * b - b * strength
<1>0. One \in Nat
    BY Halves
<1>1. n \in Nat /\ n <= 4 * b /\ n >= 2 * b
  <2>1. CASE strength = 0
      BY <1>0, <2>1
  <2>2. CASE strength = 1
      BY <1>0, <2>2
  <2>3. CASE strength = 2
      BY <1>0, <2>3
  <2>4. QED
      BY <2>1, <2>2, <2>3
<1>2. Move(b, "contradicted", strength) = Quarter(n)
    BY DEF Move
<1> HIDE DEF n
<1>3. Quarter(n) <= b
    BY <1>0, <1>1 DEF Quarter
<1>4. /\ Quarter(n) \in Nat
      /\ n <= 4 * Quarter(n) + 2
    BY <1>1, QuarterBounds
<1>5. ASSUME NEW m \in Nat, b >= 2 * m
      PROVE  Quarter(n) >= m
  <2>1. 4 * m <= 4 * Quarter(n) + 2
      BY <1>0, <1>1, <1>4, <1>5
  <2>2. QED
      BY <1>4, <2>1
<1>6. QED
    BY <1>0, <1>2, <1>3, <1>4, <1>5

\* The strongest of some confidences is one of them.
LEMMA Strongest ==
    ASSUME NEW S, S # {}, S \subseteq 0..2
    PROVE  Max(S) \in 0..2
<1>1. \E x \in S : \A y \in S : x >= y
  <2>1. CASE 2 \in S
      BY <2>1
  <2>2. CASE 2 \notin S /\ 1 \in S
      BY <2>2
  <2>3. CASE 2 \notin S /\ 1 \notin S
    <3>1. PICK x \in S : TRUE
        OBVIOUS
    <3>2. x = 0 /\ \A y \in S : y = 0
        BY <2>3, <3>1
    <3>3. x >= 0
        BY <3>2
    <3>4. \A y \in S : x >= y
        BY <3>2, <3>3
    <3>5. QED
        BY <3>1, <3>4
  <2>4. QED
      BY <2>1, <2>2, <2>3
<1>2. Max(S) \in S
    BY <1>1 DEF Max
<1>3. QED
    BY <1>2

\* What a verification makes of a belief.
LEMMA PosteriorMoves ==
    ASSUME NEW b \in 0..One, NEW v \in Verifications, NEW supplied \in SUBSET Items
    PROVE  LET p == Posterior(b, v, supplied) IN
           /\ p.belief \in 0..One
           /\ p.state \in Polarities
           /\ p.belief > b => p.state = "supported"
           /\ p.belief < b => p.state = "contradicted"
           /\ \A m \in Nat : 2 * m <= b /\ b <= One - 2 * m
                 => m <= p.belief /\ p.belief <= One - m
<1> DEFINE relevant == Relevant(v, supplied)
           strength == Max({i.confidence : i \in relevant})
           p == Posterior(b, v, supplied)
<1>1. v.state \in Polarities
    BY BeliefAssumption DEF Verifications
<1>2. One \in Nat
    BY Halves
<1>3. CASE v.state = "unresolved" \/ relevant = {}
  <2>1. p.belief = b /\ p.state = "unresolved"
      BY <1>3 DEF Posterior
  <2>2. QED
      BY <2>1, <1>2 DEF Polarities
<1>4. CASE v.state # "unresolved" /\ relevant # {}
  <2>1. p.belief = Move(b, v.state, strength) /\ p.state = v.state
      BY <1>4 DEF Posterior
  <2>2. strength \in 0..2
    <3>1. {i.confidence : i \in relevant} \subseteq 0..2
        BY BeliefAssumption DEF Relevant
    <3>2. {i.confidence : i \in relevant} # {}
        BY <1>4
    <3>3. QED
        BY <3>1, <3>2, Strongest
  <2> HIDE DEF strength, p
  <2>3. CASE v.state = "supported"
    <3>1. /\ p.belief \in 0..One
          /\ p.belief >= b
          /\ \A m \in Nat : b <= One - 2 * m => p.belief <= One - m
        BY <2>1, <2>2, <2>3, MoveUp
    <3>2. QED
        BY <3>1, <2>1, <2>3, <1>2 DEF Polarities, p
  <2>4. CASE v.state = "contradicted"
    <3>1. /\ p.belief \in 0..One
          /\ p.belief <= b
          /\ \A m \in Nat : b >= 2 * m => p.belief >= m
        BY <2>1, <2>2, <2>4, MoveDown
    <3>2. QED
        BY <3>1, <2>1, <2>4, <1>2 DEF Polarities, p
  <2>5. QED
      BY <1>1, <1>4, <2>3, <2>4 DEF Polarities
<1>5. QED
    BY <1>3, <1>4

-----------------------------------------------------------------------------
(* Belief *)

\* Every update leaves at least half of what a belief had left to either end:
\* after u of them that is still 2 ^ (Precision - 1 - u).
MarginLeft ==
    \A h \in Hypotheses : updates[h] < Precision =>
        /\ Pow2[Precision - 1 - updates[h]] <= belief[h]
        /\ belief[h] <= One - Pow2[Precision - 1 - updates[h]]

\* Updates are counted as calls.
BeliefInv == /\ BeliefTypeOK
             /\ \A h \in Hypotheses : updates[h] <= calls
             /\ MarginLeft

LEMMA BeliefInvInit == Init => BeliefInv
<1> SUFFICES ASSUME Init PROVE BeliefInv
    OBVIOUS
<1>1. /\ One \div 2 \in 0..One
      /\ One \div 2 = Pow2[Precision - 1]
      /\ One - Pow2[Precision - 1] = Pow2[Precision - 1]
      /\ Precision - 1 \in Nat
      /\ Pow2[Precision - 1] \in Nat
  <2> DEFINE m == Pow2[Precision - 1]
  <2>1. m \in Nat /\ One = 2 * m /\ Precision - 1 \in Nat
      BY Halves, Pow2Doubles
  <2> HIDE DEF m
  <2>2. One \div 2 \in 0..One /\ One \div 2 = m /\ One - m = m
      BY <2>1
  <2>3. QED
      BY <2>1, <2>2 DEF m
<1>2. QED
    BY <1>1, BeliefAssumption
       DEF Init, BeliefInit, BeliefInv, MarginLeft, BeliefTypeOK, Polarities

LEMMA BeliefMoves ==
    ASSUME BeliefTypeOK, NEW h \in Hypotheses, NEW v \in Verifications,
           NEW supplied \in SUBSET Items, UpdateHypothesis(h, v, supplied)
    PROVE  /\ belief' \in [Hypotheses -> 0..One]
           /\ hstate' \in [Hypotheses -> Polarities]
           /\ \A g \in Hypotheses :
                  /\ belief'[g] > belief[g] => hstate'[g] = "supported"
                  /\ belief'[g] < belief[g] => hstate'[g] = "contradicted"
           /\ \A g \in Hypotheses \ {h} : belief'[g] = belief[g]
           /\ \A m \in Nat : 2 * m <= belief[h] /\ belief[h] <= One - 2 * m
                 => m <= belief'[h] /\ belief'[h] <= One - m
<1> DEFINE p == Posterior(belief[h], v, supplied)
<1>1. belief[h] \in 0..One
    BY DEF BeliefTypeOK
<1>2. /\ p.belief \in 0..One
      /\ p.state \in Polarities
      /\ p.belief > belief[h] => p.state = "supported"
      /\ p.belief < belief[h] => p.state = "contradicted"
      /\ \A m \in Nat : 2 * m <= belief[h] /\ belief[h] <= One - 2 * m
            => m <= p.belief /\ p.belief <= One - m
    BY <1>1, PosteriorMoves
<1>3. /\ belief' = [belief EXCEPT ![h] = p.belief]
      /\ hstate' = [hstate EXCEPT ![h] = p.state]
    BY DEF UpdateHypothesis
<1>4. One \in Nat
    BY Halves
<1> HIDE DEF p
<1>5. QED
    BY <1>2, <1>3, <1>4 DEF BeliefTypeOK

\* A step of the bridge itself counts a call, or none, and moves no belief.
LEMMA BridgeStepsAside ==
    ASSUME Next, ~(Idle /\ BeliefNext /\ UNCHANGED bridge)
    PROVE  UNCHANGED beliefs /\ (Called \/ UNCHANGED calls)
BY DEF Next, Verify, AddPlannerNode, Collect, Persist, PersistItem

\* One more update of h leaves half of its margin, and that of the others.
LEMMA MarginStep ==
    ASSUME BeliefInv, NEW h \in Hypotheses, NEW v \in Verifications,
           NEW supplied \in SUBSET Items, UpdateHypothesis(h, v, supplied)
    PROVE  MarginLeft'
<1>1. updates' = [updates EXCEPT ![h] = @ + 1]
    BY DEF UpdateHypothesis
<1>2. /\ belief[h] \in Nat
      /\ updates \in [Hypotheses -> Nat]
    BY Halves DEF BeliefInv, BeliefTypeOK
<1>3. ASSUME NEW g \in Hypotheses, updates'[g] < Precision
      PROVE  /\ Pow2[Precision - 1 - updates'[g]] <= belief'[g]
             /\ belief'[g] <= One - Pow2[Precision - 1 - updates'[g]]
  <2>1. CASE g # h
    <3>1. updates'[g] = updates[g] /\ belief'[g] = belief[g]
        BY <1>1, <1>2, <2>1, BeliefMoves DEF BeliefInv
    <3>2. QED
        BY <1>3, <3>1 DEF BeliefInv, MarginLeft
  <2>2. CASE g = h
    <3> DEFINE k == Precision - 1 - updates'[g]
    <3>1. /\ updates'[g] = updates[h] + 1
          /\ k \in Nat
          /\ Precision - 1 - updates[h] = k + 1
          /\ updates[h] < Precision
        BY <1>1, <1>2, <1>3, <2>2, BeliefAssumption
    <3>2. Pow2[k] \in Nat /\ Pow2[k + 1] = 2 * Pow2[k]
        BY <3>1, Pow2Doubles
    <3>3. Pow2[k + 1] <= belief[h] /\ belief[h] <= One - Pow2[k + 1]
        BY <3>1 DEF BeliefInv, MarginLeft
    <3> HIDE DEF k
    <3>4. Pow2[k] <= belief'[h] /\ belief'[h] <= One - Pow2[k]
        BY <3>2, <3>3, BeliefMoves DEF BeliefInv
    <3>5. QED
        BY <2>2, <3>4 DEF k
  <2>3. QED
      BY <2>1, <2>2
<1>4. QED
    BY <1>3 DEF MarginLeft

LEMMA BeliefInvStep == BeliefInv /\ [Next]_vars => BeliefInv'
<1> SUFFICES ASSUME BeliefInv, [Next]_vars PROVE BeliefInv'
    OBVIOUS
<1>1. CASE Idle /\ BeliefNext /\ UNCHANGED bridge
  <2>1. PICK h \in Hypotheses, v \in Verifications, supplied \in SUBSET Items :
            UpdateHypothesis(h, v, supplied)
      BY <1>1 DEF BeliefNext
  <2>2. /\ belief' \in [Hypotheses -> 0..One]
        /\ hstate' \in [Hypotheses -> Polarities]
        /\ MarginLeft'
      BY <2>1, BeliefMoves, MarginStep DEF BeliefInv
  <2>3. /\ calls < MaxCalls /\ calls' = calls + 1
        /\ updates' = [updates EXCEPT ![h] = @ + 1]
      BY <2>1 DEF UpdateHypothesis, Called
  <2>4. /\ updates' \in [Hypotheses -> 0..MaxCalls]
        /\ \A g \in Hypotheses : updates'[g] <= calls'
        /\ calls' \in 0..MaxCalls
      BY <2>3, BeliefAssumption DEF BeliefInv, BeliefTypeOK
  <2>5. QED
      BY <2>2, <2>4 DEF BeliefInv, BeliefTypeOK
<1>2. CASE UNCHANGED beliefs /\ (Called \/ UNCHANGED calls)
  <2>1. BeliefTypeOK' /\ \A h \in Hypotheses : updates'[h] <= calls'
      BY <1>2, BeliefAssumption DEF BeliefInv, BeliefTypeOK, beliefs, Called
  <2>2. MarginLeft'
      BY <1>2 DEF BeliefInv, MarginLeft, beliefs
  <2>3. QED
      BY <2>1, <2>2 DEF BeliefInv
<1>3. QED
    BY <1>1, <1>2, BridgeStepsAside DEF vars

\* A belief stays between 0 and One, and a state is one of three polarities,
\* however update_hypothesis is called and whatever evidence is given to it.
THEOREM BeliefTyped == Spec => []BeliefTypeOK
<1>1. BeliefInv => BeliefTypeOK
    BY DEF BeliefInv
<1>2. QED
    BY BeliefInvInit, BeliefInvStep, <1>1, PTL DEF Spec

\* Unresolved or unbound evidence never moves a belief, at any precision.
THEOREM BeliefMovesOnlyWithState == Spec => BeliefMovesWithState
<1>1. ASSUME BeliefInv, [Next]_vars
      PROVE  [\A h \in Hypotheses :
                 /\ belief'[h] > belief[h] => hstate'[h] = "supported"
                 /\ belief'[h] < belief[h] => hstate'[h] = "contradicted"]_beliefs
  <2>1. CASE Idle /\ BeliefNext /\ UNCHANGED bridge
    <3>1. PICK h \in Hypotheses, v \in Verifications, supplied \in SUBSET Items :
              UpdateHypothesis(h, v, supplied)
        BY <2>1 DEF BeliefNext
    <3>2. QED
        BY <1>1, <3>1, BeliefMoves DEF BeliefInv
  <2>2. CASE UNCHANGED beliefs
      BY <2>2
  <2>3. QED
      BY <1>1, <2>1, <2>2, BridgeStepsAside DEF vars
<1>2. QED
    BY BeliefInvInit, BeliefInvStep, <1>1, PTL DEF Spec, BeliefMovesWithState

\* A belief is certain only after Precision updates, however strong each one
\* is, at any precision: each of them at most halves what is left to the ends.
THEOREM CertaintyTakesUpdates == Spec => []NoEarlyCertainty
<1>1. BeliefInv => NoEarlyCertainty
  <2> SUFFICES ASSUME BeliefInv, NEW h \in Hypotheses, updates[h] < Precision
               PROVE  belief[h] \notin {0, One}
      BY BeliefAssumption DEF NoEarlyCertainty, BeliefInv, BeliefTypeOK
  <2>1. Precision - 1 - updates[h] \in Nat
      BY BeliefAssumption DEF BeliefInv, BeliefTypeOK
  <2>2. Pow2[Precision - 1 - updates[h]] \in Nat \ {0}
      BY <2>1, Pow2Doubles
  <2>3. /\ Pow2[Precision - 1 - updates[h]] <= belief[h]
        /\ belief[h] <= One - Pow2[Precision - 1 - updates[h]]
        /\ belief[h] \in 0..One
      BY DEF BeliefInv, BeliefTypeOK, MarginLeft
  <2>4. QED
      BY <2>2, <2>3, Halves
<1>2. QED
    BY BeliefInvInit, BeliefInvStep, <1>1, PTL DEF Spec

\* While some hypothesis of a question has fewer updates than a belief has bits,
\* the planner has an observation to propose for it.
THEOREM PlannerKeepsAsking == Spec => []QuestionStaysOpen
<1>1. BeliefInv /\ NoEarlyCertainty => QuestionStaysOpen
  <2> SUFFICES ASSUME BeliefInv, NoEarlyCertainty, NEW o \in Observations,
                      o.authorized, o.pair # {},
                      o.pair \subseteq Hypotheses \cap o.predicted,
                      NEW h \in o.pair, updates[h] < Precision
               PROVE  CanPlan
      BY DEF QuestionStaysOpen
  <2>1. belief[h] \in 0..One /\ belief[h] # 0
      BY BeliefAssumption DEF BeliefInv, BeliefTypeOK, NoEarlyCertainty
  <2>2. belief[h] > 0
      BY <2>1, Halves
  <2>3. HasGain(o)
      BY <2>2 DEF HasGain, Weighed
  <2>4. QED
      BY <2>3 DEF CanPlan
<1>2. QED
    BY BeliefInvInit, BeliefInvStep, CertaintyTakesUpdates, <1>1, PTL DEF Spec

-----------------------------------------------------------------------------
(* The bridge *)

\* An informs edge leads to a node that is there.
BridgeInv ==
    /\ OneQuestionPerHypothesis
    /\ \A e \in informs : e[2] \in DOMAIN nodes

LEMMA BridgeInvInit == Init => BridgeInv
BY DEF Init, BridgeInv, OneQuestionPerHypothesis

LEMMA PersistItemKeeps ==
    ASSUME BridgeInv, PersistItem
    PROVE  BridgeInv'
<1> DEFINE h == hand[turn][1]
           i == hand[turn][2]
           said == IF h \in DOMAIN nodes THEN nodes[h].statement ELSE i
<1>1. CASE Accepts(h, i)
  <2>1. nodes' = With(h, said, i) /\ informs' = informs \cup {<<i, h>>}
      BY <1>1 DEF PersistItem
  <2>2. h \in DOMAIN nodes => nodes[h].statement \in {i, Own}
      BY <1>1 DEF Accepts
  <2> HIDE DEF h, i
  <2>3. /\ DOMAIN nodes' = DOMAIN nodes \cup {h}
        /\ nodes'[h] = [statement |-> said, invariant |-> i]
        /\ \A g \in DOMAIN nodes : g # h => nodes'[g] = nodes[g]
      BY <2>1 DEF With
  <2>4. \A e \in informs' : e[2] \in DOMAIN nodes'
      BY <2>1, <2>3 DEF BridgeInv
  <2>5. ASSUME NEW g \in DOMAIN nodes', nodes'[g].statement # Own
        PROVE  /\ <<nodes'[g].statement, g>> \in informs'
               /\ \A e \in informs' : e[2] = g => e[1] = nodes'[g].statement
               /\ nodes'[g].invariant = nodes'[g].statement
    <3>1. CASE g # h
        BY <2>1, <2>3, <2>5, <3>1 DEF BridgeInv, OneQuestionPerHypothesis
    <3>2. CASE g = h /\ h \in DOMAIN nodes
      <4>1. nodes[h].statement = i /\ said = i
          BY <2>2, <2>3, <2>5, <3>2
      <4>2. i # Own
          BY <2>3, <2>5, <3>2, <4>1
      <4>3. QED
          BY <2>1, <2>3, <3>2, <4>1, <4>2
             DEF BridgeInv, OneQuestionPerHypothesis
    <3>3. CASE g = h /\ h \notin DOMAIN nodes
        BY <2>1, <2>3, <3>3 DEF BridgeInv
    <3>4. QED
        BY <3>1, <3>2, <3>3
  <2>6. QED
      BY <2>4, <2>5 DEF BridgeInv, OneQuestionPerHypothesis
<1>2. CASE ~Accepts(h, i)
    BY <1>2 DEF PersistItem, BridgeInv, OneQuestionPerHypothesis
<1>3. QED
    BY <1>1, <1>2

LEMMA BridgeInvStep == BridgeInv /\ [Next]_vars => BridgeInv'
<1> SUFFICES ASSUME BridgeInv, [Next]_vars PROVE BridgeInv'
    OBVIOUS
<1> USE DEF BridgeInv, OneQuestionPerHypothesis
<1>1. ASSUME NEW h \in Hypotheses, AddPlannerNode(h) PROVE BridgeInv'
  <2>1. /\ DOMAIN nodes' = DOMAIN nodes \cup {h}
        /\ nodes'[h].statement = Own
        /\ \A g \in DOMAIN nodes : nodes'[g] = nodes[g]
        /\ informs' = informs
      BY <1>1 DEF AddPlannerNode, With
  <2>2. QED
      BY <2>1
<1>2. CASE PersistItem
    BY <1>2, PersistItemKeeps
<1>3. CASE UNCHANGED <<nodes, informs>>
    BY <1>3
<1>4. QED
    BY <1>1, <1>2, <1>3
       DEF Next, vars, bridge, Verify, Collect, Persist

\* A hypothesis that the bridge made asks about one invariant for good, whatever
\* names the planner gives and wherever a persisting call breaks off.
THEOREM OneQuestion == Spec => []OneQuestionPerHypothesis
<1>1. BridgeInv => OneQuestionPerHypothesis
    BY DEF BridgeInv
<1>2. QED
    BY BridgeInvInit, BridgeInvStep, <1>1, PTL DEF Spec

\* Persisting asks again what collecting asked: what was collected while it was
\* supported informs nothing once it is not.
THEOREM InformsOnlySupported == Spec => InformedWhenSupported
<1>1. ASSUME [Next]_vars
      PROVE  [\A e \in informs' \ informs :
                 Supported(e[1], linked[e[1]])]_vars
  <2>1. CASE PersistItem
    <3> DEFINE h == hand[turn][1]
               i == hand[turn][2]
    <3>1. \/ Accepts(h, i) /\ informs' = informs \cup {<<i, h>>}
          \/ informs' = informs
        BY <2>1 DEF PersistItem
    <3>2. Accepts(h, i) => Supported(i, linked[i])
        BY DEF Accepts
    <3> HIDE DEF h, i
    <3>3. QED
        BY <3>1, <3>2
  <2>2. CASE informs' = informs
      BY <2>2
  <2>3. QED
      BY <1>1, <2>1, <2>2
         DEF Next, vars, bridge, Verify, AddPlannerNode, Collect, Persist
<1>2. QED
    BY <1>1, PTL DEF Spec, InformedWhenSupported
=============================================================================
