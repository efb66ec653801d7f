------------------------------ MODULE Projection ----------------------------
(* What the program itself writes into the system model: scans of a         *)
(* repository (RepositoryRecon of cydra/recon.py under ScopePolicy of       *)
(* cydra/scope.py), projected by RepositoryRecon.to_canonical or by         *)
(* project_recon_model of cydra/system_model_ingestion.py, contracts        *)
(* (project_repository_model), and compiler evidence (add_ast_evidence).    *)
(* Scope rules and sources may change from scan to scan.                    *)
EXTENDS SystemGraph, SequencesExt

CONSTANTS
    Paths,      \* files of the repository
    PathLists,  \* sequences of paths to scan
    Unparsed,   \* a source that is missing, is not Python or has a syntax error
    Sources,    \* what the files may hold: for each path Unparsed, or its
                \* declarations in walking order
    Policies,   \* sequences of scope rules
    Contracts,  \* contracts as the repository model describes them
    Evidence    \* relationships extracted from a compiler's syntax tree

VARIABLES
    opened,   \* history: paths that some scan did not find OUT_OF_SCOPE
    passive   \* history: paths that project_recon_model has met

history == <<opened, passive>>
vars == <<graphVars, history>>

Init == GraphInit /\ opened = {} /\ passive = {}

-----------------------------------------------------------------------------
(* ScopePolicy.decide and RepositoryRecon.scan *)

\* The last rule that matches decides.
Decide(policy, path) ==
    LET hits == {i \in DOMAIN policy : path \in policy[i].paths} IN
    IF hits = {} THEN "UNKNOWN" ELSE policy[Max(hits)].state

\* Slip: the source is read whatever the scope.
Reads_Anyway(state, text) == text # Unparsed

\* scan reads on, and _parse_python finds something to parse.
Reads(state, text) == state # "OUT_OF_SCOPE" /\ text # Unparsed

RelationOf == [function |-> "contains", class |-> "contains",
               import |-> "imports", authorization |-> "uses_authorization"]

ASSUME SourceAssumption ==
    /\ PathLists \subseteq Seq(Paths)
    /\ \A texts \in Sources : \A path \in Paths :
          texts[path] # Unparsed =>
              /\ texts[path] \in Seq(Range(texts[path]))
              /\ \A i \in DOMAIN texts[path] :
                    texts[path][i].kind \in DOMAIN RelationOf

\* The kinds that the program's own projections give nodes are node kinds, and
\* callers leave the attributes that say where a node comes from to them.
ASSUME ProjectionAssumption ==
    /\ {"contract", "function", "data_flow", "identity", "state_variable"}
           \subseteq Kinds
    /\ \A id \in Ids(Base) : {"path", "file"} \cap DOMAIN Base.nodes[id].attrs = {}
    /\ \A p \in ClientNodes : {"path", "file"} \cap DOMAIN p[2].attrs = {}
    /\ \A u \in ClientUpdates :
          {"path", "scope", "file", "source_kind"} \cap DOMAIN u[2] = {}

Item(kind, path, name, state, metadata) ==
    [id |-> <<kind, path, name>>, kind |-> kind, path |-> path,
     scope |-> state, metadata |-> metadata]

\* The nodes of one path, in the order they are found.
PathItems(path, state, text) ==
    LET Declared(d) ==
            <<Item(d.kind, path, d.name, state, d.metadata)>>
            \o IF d.entry THEN <<Item("entry_point", path, d.name, state, "")>>
                          ELSE <<>>
    IN <<Item("file", path, "", state, "")>>
       \o IF Reads(state, text)
          THEN <<Item("module", path, "", state, "")>>
               \o FlattenSeq([i \in DOMAIN text |-> Declared(text[i])])
          ELSE <<>>

Link(source, relation, target) ==
    [source |-> source, relation |-> relation, target |-> target]

\* The edges of one path.
PathLinks(path, state, text) ==
    LET module == <<"module", path, "">>
        Under(d) == {Link(module, RelationOf[d.kind], <<d.kind, path, d.name>>)}
            \cup IF d.entry THEN {Link(<<d.kind, path, d.name>>, "exposes",
                                       <<"entry_point", path, d.name>>)} ELSE {}
    IN IF Reads(state, text)
       THEN {Link(<<"file", path, "">>, "contains", module)}
            \cup UNION {Under(text[i]) : i \in DOMAIN text}
       ELSE {}

\* The snapshot that scan builds: nodes in order, and edges.
Scan(paths, policy, texts) ==
    [items |-> FlattenSeq([i \in DOMAIN paths |->
         PathItems(paths[i], Decide(policy, paths[i]), texts[paths[i]])]),
     links |-> UNION {PathLinks(path, Decide(policy, path), texts[path]) :
                          path \in Range(paths)}]

Snapshots == {Scan(paths, policy, texts) :
                 paths \in PathLists, policy \in Policies, texts \in Sources}

\* The edges of a snapshot, marked with the projection they come through.
Marked(links, by) ==
    {Edge(k.source, k.relation, k.target, [provenance |-> by]) : k \in links}

Opens(scan) ==
    opened' = opened \cup {n.path : n \in {m \in Range(scan.items) :
                                              m.scope # "OUT_OF_SCOPE"}}

-----------------------------------------------------------------------------
(* The two projections of a snapshot *)

Canonical(item) ==
    <<item.id, Node(item.kind, item.id[3],
        [source |-> "repository_recon", path |-> item.path,
         scope |-> item.scope, metadata |-> item.metadata])>>

\* Slip: a conflicting node is left as it is and the projection goes on.
Accepted_Skips(nodes) == DOMAIN nodes

\* The nodes of a sequence that are added before the first that is refused.
Accepted(nodes) ==
    {i \in DOMAIN nodes : \A j \in 1..i : CanAdd(graph, nodes[j][1], nodes[j][2])}

\* to_canonical: every node is added, then every edge; the first that is refused
\* ends the call, and what was added before it stays.
ToCanonical(scan) ==
    LET nodes == [i \in DOMAIN scan.items |-> Canonical(scan.items[i])]
        edges == Marked(scan.links, "repository_recon")
        added == Accepted(nodes)
        grown == WithNodes(graph, {nodes[i] : i \in added})
        all == added = DOMAIN nodes /\ \A e \in edges : CanConnect(grown, e)
    IN /\ Call(IF all THEN WithEdges(grown, edges) ELSE grown, FALSE)
       /\ Opens(scan)
       /\ UNCHANGED passive

KindMap == [file |-> "contract", module |-> "contract", function |-> "function",
            class |-> "contract", import |-> "data_flow",
            entry_point |-> "function", authorization |-> "identity"]

Passive(item) ==
    <<item.id, Node(KindMap[item.kind], item.id[3],
        [path |-> item.path, scope |-> item.scope, recon_kind |-> item.kind,
         metadata |-> item.metadata])>>

\* project_recon_model adds what is not there and leaves the rest as it is.
ProjectRecon(scan) ==
    LET grown == WithNodes(graph, {Passive(n) : n \in Range(scan.items)})
        edges == {e \in Marked(scan.links, "passive_recon") :
                     {e.source, e.target} \subseteq Ids(grown)}
    IN /\ Call(WithEdges(grown, edges), FALSE)
       /\ Opens(scan)
       /\ passive' = passive \cup {n.path : n \in Range(scan.items)}

-----------------------------------------------------------------------------
(* project_repository_model and add_ast_evidence *)

\* project_repository_model: every part of a contract carries the file it is
\* declared in, and no scope is asked.  A function's visibility, modifiers and
\* external calls are left out.
ProjectRepository(c) ==
    LET contract == <<"contract", c.file, c.name>>
        Whole == <<contract, Node("contract", c.name,
            [file |-> c.file, state_variables |-> <<"list", c.states>>,
             source_kind |-> "repository_model"])>>
        State(s) == <<<<"state", c.file, c.name, s>>, Node("state_variable", s,
            [file |-> c.file, contract |-> contract,
             source_kind |-> "repository_model"])>>
        Function(f) == <<<<"function", f.file, f.line, c.name, f.name>>,
            Node("function", f.name,
                [file |-> f.file, line |-> f.line,
                 source_kind |-> "repository_model"])>>
        parts == {State(s) : s \in c.states} \cup {Function(f) : f \in c.functions}
    IN /\ Call(WithEdges(WithNodes(graph, {Whole} \cup parts),
                        {Edge(p[1], "defined_in", contract, <<>>) : p \in parts}),
               FALSE)
       /\ UNCHANGED history

\* The relations that are extracted from a syntax tree bind no request.
ASSUME EvidenceAssumption ==
    \A e \in Evidence : e.relation # "executes_request"

AstTargetKind(relation) ==
    IF relation \in {"reads", "writes", "transition_expression"}
    THEN "state_variable" ELSE "data_flow"

WithEvidence(e, shape) ==
    LET kind == AstTargetKind(e.relation)
        function == <<"function", e.contract, "ast", e.function>>
        target == <<kind, e.contract, "ast", e.target>>
        origin == [provenance |-> e.source]
    IN WithEdges(
        WithNodes(graph, {<<function, Node("function", e.function, origin)>>,
                          <<target, Node(kind, e.target, origin)>>}),
        {Edge(function, e.relation, target,
              [provenance |-> e.source, ast_node_id |-> e.ast_node_id,
               evidence_backed |-> TRUE, expression |-> e.expression,
               source_location |-> <<shape, e.location>>])})

\* Slip: the location stays the tuple it is in the evidence.
AddAstEvidence_Tuple(e) ==
    Call(WithEvidence(e, "tuple"), FALSE) /\ UNCHANGED history

AddAstEvidence(e) == Call(WithEvidence(e, "list"), FALSE) /\ UNCHANGED history

-----------------------------------------------------------------------------

ClientStep == GraphNext /\ UNCHANGED history

Next ==
    \/ \E scan \in Snapshots : ToCanonical(scan) \/ ProjectRecon(scan)
    \/ \E c \in Contracts : ProjectRepository(c)
    \/ \E e \in Evidence : AddAstEvidence(e)
    \/ ClientStep

Spec == Init /\ [][Next]_vars

-----------------------------------------------------------------------------
(* Properties *)

Scanned(path) ==
    {id \in Ids(graph) : /\ "path" \in DOMAIN graph.nodes[id].attrs
                         /\ graph.nodes[id].attrs.path = path}

DeclaredIn(path) ==
    {id \in Ids(graph) : /\ "file" \in DOMAIN graph.nodes[id].attrs
                         /\ graph.nodes[id].attrs.file = path}

FromRepositoryModel ==
    {id \in Ids(graph) : /\ "source_kind" \in DOMAIN graph.nodes[id].attrs
                         /\ graph.nodes[id].attrs.source_kind = "repository_model"}

\* Of a path that every scan found OUT_OF_SCOPE, the model holds the file node
\* and nothing else that a scan read, through either projection of the scan,
\* half-way or whole, and any reload.  What else of the path is there came from
\* project_repository_model, which is handed contracts and consults no scope.
ScansHonourScope ==
    \A path \in Paths \ opened :
        Scanned(path) \cup DeclaredIn(path)
            \subseteq {<<"file", path, "">>} \cup FromRepositoryModel

\* Unless project_recon_model was used on it, all nodes of a path carry one
\* scope, however the rules and the source changed between scans and however
\* many of them to_canonical broke off half-way.
OneScopePerPath ==
    \A path \in Paths \ passive : \A m, n \in Scanned(path) :
        graph.nodes[m].attrs.scope = graph.nodes[n].attrs.scope
=============================================================================
