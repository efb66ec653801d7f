-------------------------------- MODULE Bridge ------------------------------
(* cydra/invariant_hypothesis_bridge.py: from the verified invariants of a  *)
(* model to the hypotheses they inform.  A caller collects the invariants   *)
(* that are supported, and persists what it collected later, when they need *)
(* not be supported any more; persisting goes item by item and the first    *)
(* item that is refused ends the call.  "Violation of invariant i", the     *)
(* statement of a hypothesis, is i itself.                                  *)
EXTENDS Beliefs, Sequences, SequencesExt

CONSTANTS
    Invariants,      \* invariant nodes of the model
    CandidateLists,  \* lists of invariants that callers collect from
    Namings,         \* functions from invariants to hypothesis nodes
    Evidence,        \* ids of evidence whose node has the kind evidence
    Own              \* the statement of a planner's own hypothesis

VARIABLES
    verdict,  \* verification of each invariant: its state, what supports it
    linked,   \* evidence each invariant has a verified_by edge to
    hand,     \* collected: <<hypothesis, invariant>> pairs
    turn,     \* item of hand being persisted, 0 for none
    nodes,    \* hypothesis nodes: statement, invariant_id
    informs   \* informs edges, <<invariant, hypothesis>>

bridge == <<verdict, linked, hand, turn, nodes, informs>>
vars == <<beliefs, calls, bridge>>

Init ==
    /\ BeliefInit
    /\ verdict = [i \in Invariants |-> [state |-> "unresolved", support |-> {}]]
    /\ linked = [i \in Invariants |-> {}]
    /\ hand = <<>>
    /\ turn = 0
    /\ nodes = <<>>
    /\ informs = {}

Idle == turn = 0

\* The hypothesis nodes with one more, or one replaced.
With(h, statement, invariant) ==
    [g \in DOMAIN nodes \cup {h} |->
        IF g = h THEN [statement |-> statement, invariant |-> invariant]
                 ELSE nodes[g]]

\* What both ends of the bridge ask of an invariant's node; collecting asks also
\* that the edges lead to evidence.
Supported(i, edges) ==
    /\ verdict[i].state = "supported"
    /\ verdict[i].support # {}
    /\ verdict[i].support \subseteq edges

\* hypotheses_from_verified_invariants, with the name the bridge gives, and
\* planner_hypotheses_from_verified_invariants, with those the planner gives.
FromVerified(candidates, naming) ==
    LET Collected(i) == i \in DOMAIN naming /\ Supported(i, linked[i] \cap Evidence)
        verified == SelectSeq(candidates, Collected)
    IN [n \in DOMAIN verified |-> <<naming[verified[n]], verified[n]>>]

-----------------------------------------------------------------------------
(* Actions *)

\* The verification of an invariant is written into its node, and an edge
\* added for some of the evidence.
Verify(i, v, edges) ==
    /\ Idle /\ Called
    /\ verdict' = [verdict EXCEPT ![i] = [state |-> v.state,
                                         support |-> v.supporting]]
    /\ linked' = [linked EXCEPT ![i] = @ \cup edges]
    /\ UNCHANGED <<beliefs, hand, turn, nodes, informs>>

\* The planner persists a hypothesis of its own, with probability, predictions,
\* state and subject.
AddPlannerNode(h) ==
    /\ Idle /\ Called
    /\ h \notin DOMAIN nodes
    /\ nodes' = With(h, Own, Own)
    /\ UNCHANGED <<beliefs, verdict, linked, hand, turn, informs>>

Collect(candidates, naming) ==
    /\ Idle /\ Called
    /\ hand' = FromVerified(candidates, naming)
    /\ UNCHANGED <<beliefs, verdict, linked, turn, nodes, informs>>

\* persist_invariant_hypotheses ...
Persist ==
    /\ Idle /\ Called
    /\ hand # <<>>
    /\ turn' = 1
    /\ UNCHANGED <<beliefs, verdict, linked, hand, nodes, informs>>

\* Slip: what was collected is supported.
Accepts_Collected(h, i) ==
    h \in DOMAIN nodes => nodes[h].statement \in {i, Own}

\* Slip: a hypothesis of another statement is taken over.
Accepts_AnyStatement(h, i) == Supported(i, linked[i])

\* An item is accepted: the invariant is supported still, and a hypothesis of
\* that name is new, has its statement, or is the planner's own.
Accepts(h, i) ==
    /\ Supported(i, linked[i])
    /\ h \in DOMAIN nodes => nodes[h].statement \in {i, Own}

\* ... writes one item, or raises and leaves the rest.
PersistItem ==
    /\ ~Idle
    /\ LET h == hand[turn][1]
           i == hand[turn][2]
       IN IF Accepts(h, i)
          THEN /\ nodes' = With(h, IF h \in DOMAIN nodes
                                   THEN nodes[h].statement ELSE i, i)
               /\ informs' = informs \cup {<<i, h>>}
               /\ turn' = IF turn = Len(hand) THEN 0 ELSE turn + 1
          ELSE turn' = 0 /\ UNCHANGED <<nodes, informs>>
    /\ UNCHANGED <<beliefs, calls, verdict, linked, hand>>

Next ==
    \/ Idle /\ BeliefNext /\ UNCHANGED bridge
    \/ \E i \in Invariants, v \in Verifications :
           \E edges \in SUBSET v.supporting : Verify(i, v, edges)
    \/ \E h \in Hypotheses : AddPlannerNode(h)
    \/ \E candidates \in CandidateLists, naming \in Namings :
           Collect(candidates, naming)
    \/ Persist
    \/ PersistItem

Spec == Init /\ [][Next]_vars

-----------------------------------------------------------------------------
(* Properties *)

\* An invariant comes to inform a hypothesis only while its node says that it
\* is supported and links the evidence, however long ago it was collected.
InformedWhenSupported ==
    [][\A e \in informs' \ informs : Supported(e[1], linked[e[1]])]_vars

\* A hypothesis that the bridge made asks about one invariant for good: that
\* one informs it and no other does, and its node names that one.
OneQuestionPerHypothesis ==
    \A h \in DOMAIN nodes :
        nodes[h].statement # Own =>
            /\ <<nodes[h].statement, h>> \in informs
            /\ \A e \in informs : e[2] = h => e[1] = nodes[h].statement
            /\ nodes[h].invariant = nodes[h].statement
=============================================================================
