------------------------------ MODULE Candidates ----------------------------
(* candidates_from_system_model of cydra/invariants.py: which invariant     *)
(* candidates the edges of a system model give rise to.  A candidate is     *)
(* its identity and the edges it is drawn from.                             *)
EXTENDS SystemGraph

Backed(g) == {e \in g.edges : "evidence_backed" \in DOMAIN e.attrs}
BackedBy(g, relations) == {e \in Backed(g) : e.relation \in relations}

HasProvenance(e) == e.attrs.provenance # ""
HasExpression(e) == e.attrs.expression # ""

Candidate(id, from) == [id |-> id, from |-> from]

\* One candidate per guard, assertion and update with a known expression.
EdgeCandidates(g) ==
    {Candidate(<<<<e.relation>>, e.source, e.target, e.attrs.ast_node_id>>, {e}) :
        e \in {b \in BackedBy(g, {"precondition", "assertion",
                                  "transition_expression"}) :
                  /\ HasProvenance(b)
                  /\ b.relation = "transition_expression" => HasExpression(b)}}

\* One candidate per state that several functions update, named after them.
CrossFunctionCandidates(g) ==
    LET Updates(state) == {e \in BackedBy(g, {"transition_expression"}) :
                              e.target = state}
        Updaters(state) == {e.source : e \in Updates(state)}
    IN {Candidate(<<<<"cross_function">>, state, Updaters(state)>>, Updates(state)) :
           state \in {s \in Ids(g) : \E f, h \in Updaters(s) : f # h}}

\* Pairs of edges out of one function.
SameFunction(g, first, second) ==
    {p \in BackedBy(g, first) \X BackedBy(g, second) :
        p[1].source = p[2].source /\ p[1].source \in OfKind(g, "function")}

\* A function reads one state and writes another.
DependencyCandidates(g) ==
    {Candidate(<<<<"state_dependency">>, p[1].source, p[1].target, p[2].target>>,
               {p[1], p[2]}) :
        p \in {q \in SameFunction(g, {"reads"}, {"writes"}) :
                  q[1].target # q[2].target}}

\* A function writes a state under a guard or an assertion.
ObligationCandidates(g) ==
    {Candidate(<<<<"obligation">>, p[1].source, p[1].target, p[2].target>>,
               {p[1], p[2]}) :
        p \in SameFunction(g, {"precondition", "assertion"}, {"writes"})}

Grounded(g) ==
    EdgeCandidates(g) \cup DependencyCandidates(g) \cup ObligationCandidates(g)

-----------------------------------------------------------------------------
(* Properties *)

\* What was discovered is not lost by discovering more: in one process every
\* candidate keeps its identity, under which it is verified later, except that
\* the candidate of a state that several functions update is renamed, to more
\* functions, when one more updates it.
CandidatesPersist ==
    [][calls' # calls =>
        /\ {c.id : c \in Grounded(graph)} \subseteq {c.id : c \in Grounded(graph)'}
        /\ \A c \in CrossFunctionCandidates(graph) :
              \E d \in CrossFunctionCandidates(graph)' :
                  c.id[2] = d.id[2] /\ c.id[3] \subseteq d.id[3]]_graphVars
=============================================================================
