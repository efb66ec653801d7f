------------------------------- MODULE MCGraph ------------------------------
(* One Python file under three policies, in two versions, and a Solidity    *)
(* file beside it, its contract in two versions, evidence on one state,     *)
(* and callers who keep an execution record and a finding.                  *)
EXTENDS Projection, Candidates

MCKinds == {"file", "module", "function", "class", "import", "entry_point",
            "authorization", "contract", "data_flow", "identity",
            "state_variable", "observation", "execution_request",
            "execution_result", "finding"}

Record == [execution_id |-> "x1", adapter |-> "a"]

\* A planned request and two observations it may be bound to.
MCBase ==
    Graph((<<"request">> :> Node("execution_request", "r", Record))
          @@ (<<"o1">> :> Node("observation", "o1", <<>>))
          @@ (<<"o2">> :> Node("observation", "o2", <<>>)), {})

MCClientNodes ==
    {<<<<"result">>, Node("execution_result", "r",
        Record @@ [request |-> <<"request">>, payload |-> <<"x1", <<"request">>>>])>>,
     <<<<"finding">>, Node("finding", "f",
        [persisted |-> TRUE, finding_id |-> <<"finding">>, title |-> "f",
         severity |-> "HIGH", impact |-> "HIGH", evidence_ids |-> "e",
         canonical_evidence_ids |-> "e"])>>,
     <<<<"note">>, Node("note", "n", <<>>)>>}

MCClientEdges == {Edge(o, "executes_request", <<"request">>, <<>>) :
                      o \in {<<"o1">>, <<"o2">>}}

MCClientUpdates == {<<<<"finding">>, [severity |-> "LOW"]>>}

\* A function becomes async on the same line; another is inserted before it.
Function(name, async) ==
    [kind |-> "function", name |-> name, metadata |-> async, entry |-> FALSE]
MCTexts == {<<[Function("main", "sync") EXCEPT !.entry = TRUE]>>,
            <<Function("new", "sync"), Function("main", "async")>>}
MCSources == {[path \in Paths |-> IF path = "p" THEN text ELSE Unparsed] :
                 text \in MCTexts}

Rule(paths, state) == [paths |-> paths, state |-> state]
MCPolicies == {<<>>, <<Rule({"p", "q"}, "IN_SCOPE")>>,
               <<Rule({"p"}, "IN_SCOPE"), Rule({"p", "q"}, "OUT_OF_SCOPE")>>}

\* The contract is declared in the file that the scans cannot parse.
MCContracts ==
    {[name |-> "C", file |-> "q", states |-> s,
      functions |-> {[name |-> "f", file |-> "q", line |-> 1]}] :
         s \in {{"x"}, {"x", "y"}}}

Relates(f, relation, target, site) ==
    [contract |-> "C", function |-> f, relation |-> relation, target |-> target,
     source |-> "ast", ast_node_id |-> site, expression |-> "e", location |-> "l"]
MCEvidence == {Relates("f", "transition_expression", "x", 1),
               Relates("f", "transition_expression", "x", 2),
               Relates("g", "transition_expression", "x", 3),
               Relates("h", "transition_expression", "x", 4),
               Relates("f", "reads", "y", 5), Relates("f", "writes", "x", 6)}

MCPathLists == {<<"q", "p">>}
=============================================================================
