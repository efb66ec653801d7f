----------------------------- MODULE SystemGraph ----------------------------
(* SystemModel of cydra/system_model.py: one graph of nodes and edges in    *)
(* the memory of a process, and the one file it is saved to and loaded      *)
(* from.  add_node and add_edge look at one element at a time; validate,    *)
(* which load applies to a whole graph, also relates nodes to each other.   *)
(* save opens the file for writing, which empties it, and then writes it:   *)
(* two actions.  Attributes are JSON values; a sequence is a pair of its    *)
(* Python shape, "tuple" or "list", and its content, and comes back from    *)
(* the file as a list.                                                      *)
EXTENDS Naturals, FiniteSets, TLC

CONSTANTS
    Kinds,          \* node kinds
    Base,           \* the model a process starts from
    ClientNodes,    \* <<id, node>> pairs that callers add
    ClientEdges,    \* edges that callers add
    ClientUpdates,  \* <<id, attributes>> pairs that callers write over a node
    NoFile, Torn,   \* never saved; emptied and not written again
    MaxCalls        \* bound on the calls that change the graph

VARIABLES
    graph,   \* the model in memory
    file,    \* the saved model
    saving,  \* save has opened the file
    calls,   \* calls so far
    touched  \* history: a caller added or updated a record since the graph was
             \* last started or loaded

graphVars == <<graph, file, saving, calls, touched>>

Node(kind, label, attrs) == [kind |-> kind, label |-> label, attrs |-> attrs]
Edge(source, relation, target, attrs) ==
    [source |-> source, relation |-> relation, target |-> target,
     attrs |-> attrs]

Graph(nodes, edges) == [nodes |-> nodes, edges |-> edges]

Ids(g) == DOMAIN g.nodes
KindIn(g, id) == g.nodes[id].kind
OfKind(g, kind) == {id \in Ids(g) : KindIn(g, id) = kind}

GraphInit ==
    /\ graph = Base
    /\ file = NoFile
    /\ saving = FALSE
    /\ calls = 0
    /\ touched = FALSE

-----------------------------------------------------------------------------
(* add_node, update_node_attributes, add_edge *)

\* Slip: any kind is accepted.
CanAdd_AnyKind(g, id, n) == id \in Ids(g) => g.nodes[id] = n

\* add_node accepts: the id is new, or names this very node.
CanAdd(g, id, n) == n.kind \in Kinds /\ (id \in Ids(g) => g.nodes[id] = n)

\* The graph with the nodes of the set of <<id, node>> pairs; a node that is
\* there already stays as it is.
WithNodes(g, pairs) ==
    Graph([id \in Ids(g) \cup {p[1] : p \in pairs} |->
              IF id \in Ids(g) THEN g.nodes[id]
                              ELSE (CHOOSE p \in pairs : p[1] = id)[2]],
          g.edges)

\* The attributes of a node with others written over them.
Updated(old, new) ==
    [k \in DOMAIN old \cup DOMAIN new |-> IF k \in DOMAIN new THEN new[k]
                                                             ELSE old[k]]

WithAttrs(g, id, attrs) ==
    Graph([g.nodes EXCEPT ![id] = Node(@.kind, @.label, Updated(@.attrs, attrs))],
          g.edges)

\* Slip: edges are kept by source, relation and target; the last one stays.
WithEdges_LastOnly(g, edges) ==
    Graph(g.nodes,
          {o \in g.edges : \A e \in edges : <<o.source, o.relation, o.target>>
                                           # <<e.source, e.relation, e.target>>}
          \cup edges)

\* An edge that is equal in everything, attributes too, is there once.
WithEdges(g, edges) == Graph(g.nodes, g.edges \cup edges)

Binds(e) == e.relation = "executes_request"

\* Slip: a request may be bound to several observations.
CanConnect_Rebinds(g, e) ==
    /\ {e.source, e.target} \subseteq Ids(g)
    /\ Binds(e) => /\ KindIn(g, e.source) = "observation"
                   /\ KindIn(g, e.target) = "execution_request"

CanConnect(g, e) ==
    /\ {e.source, e.target} \subseteq Ids(g)
    /\ Binds(e) => /\ KindIn(g, e.source) = "observation"
                   /\ KindIn(g, e.target) = "execution_request"
                   /\ \A o \in g.edges : Binds(o) /\ o.target = e.target
                                           => o.source = e.source

-----------------------------------------------------------------------------
(* validate *)

Found(checks) == {c[2] : c \in {d \in checks : d[1]}}

\* What validate finds of the edges.
StructureProblems(g) == Found({
    <<\E e \in g.edges : ~({e.source, e.target} \subseteq Ids(g)), "endpoint">>,
    <<\E e \in g.edges : /\ Binds(e)
                         /\ \/ e.source \notin OfKind(g, "observation")
                            \/ e.target \notin OfKind(g, "execution_request"),
      "binding_kinds">>,
    <<\E e, o \in g.edges : /\ Binds(e) /\ Binds(o)
                            /\ e.target = o.target /\ e.source # o.source,
      "two_bindings">>})

RequestFields == {"execution_id", "adapter"}
ResultFields == RequestFields \cup {"request", "payload"}

\* A result names its request and repeats its identity and adapter; its payload
\* repeats the identity and the request.
ResultProblems(g, a) ==
    IF ~(ResultFields \subseteq DOMAIN a) THEN {"result_fields"}
    ELSE IF a.request \notin OfKind(g, "execution_request")
    THEN {"unbound_result"}
    ELSE LET r == g.nodes[a.request].attrs IN
         Found({<<\E f \in RequestFields : f \notin DOMAIN r \/ a[f] # r[f],
                  "result_identity">>,
                <<a.payload # <<a.execution_id, a.request>>, "result_payload">>})

FindingFields == {"finding_id", "title", "severity", "impact", "evidence_ids",
                  "canonical_evidence_ids"}

\* A persisted finding names itself, rates itself as its impact does, and
\* repeats its references in their canonical_ fields.
FindingProblems(id, n) ==
    LET a == n.attrs IN
    IF "persisted" \notin DOMAIN a THEN {}
    ELSE IF ~(FindingFields \subseteq DOMAIN a) THEN {"finding_fields"}
    ELSE Found({<<a.finding_id # id \/ a.title # n.label, "finding_identity">>,
                <<a.severity # a.impact \/ a.impact = "UNKNOWN",
                  "finding_severity">>,
                <<a.canonical_evidence_ids # a.evidence_ids,
                  "finding_references">>})

Problems(g) ==
    StructureProblems(g)
    \cup Found({<<\E id \in OfKind(g, "execution_request") :
                      ~(RequestFields \subseteq DOMAIN g.nodes[id].attrs),
                  "request_fields">>,
                <<\E id \in Ids(g) : KindIn(g, id) \notin Kinds, "kind">>})
    \cup UNION ({FindingProblems(id, g.nodes[id]) : id \in OfKind(g, "finding")}
                 \cup {ResultProblems(g, g.nodes[id].attrs) :
                           id \in OfKind(g, "execution_result")})

-----------------------------------------------------------------------------
(* export and from_dict *)

SequenceFields == {"source_location", "state_variables"}

JsonAttrs(a) == [k \in DOMAIN a |-> IF k \in SequenceFields
                                    THEN <<"list", a[k][2]>> ELSE a[k]]

\* The graph that from_dict builds from what export wrote of g.
Json(g) ==
    Graph([id \in Ids(g) |-> LET n == g.nodes[id] IN
                             Node(n.kind, n.label, JsonAttrs(n.attrs))],
          {Edge(e.source, e.relation, e.target, JsonAttrs(e.attrs)) :
              e \in g.edges})

\* Slip: from_dict trusts add_node and add_edge and does not validate.
Loads_Unvalidated(g) == StructureProblems(g) = {}

Loads(g) == Problems(g) = {}

ASSUME BaseAssumption == Loads(Base) /\ Json(Base) = Base

\* Callers make nodes and edges with attributes that survive the file: every
\* caller in this code turns its tuples into lists.
ASSUME CallerAssumption ==
    /\ MaxCalls \in Nat
    /\ \A p \in ClientNodes :
          p[2] = Node(p[2].kind, p[2].label, JsonAttrs(p[2].attrs))
    /\ \A e \in ClientEdges :
          e = Edge(e.source, e.relation, e.target, JsonAttrs(e.attrs))
    /\ \A u \in ClientUpdates : u[2] = JsonAttrs(u[2])

-----------------------------------------------------------------------------
(* Actions.  A call that raises changes nothing and is left out. *)

\* A call that makes the graph g, by a caller who touched a record or not.
Call(g, touches) ==
    /\ ~saving
    /\ calls < MaxCalls
    /\ calls' = calls + 1
    /\ graph' = g
    /\ touched' = (touched \/ touches)
    /\ UNCHANGED <<file, saving>>

RecordKinds == {"finding", "execution_request", "execution_result"}

AddNode(p) ==
    /\ CanAdd(graph, p[1], p[2])
    /\ Call(WithNodes(graph, {p}), p[2].kind \in RecordKinds)

UpdateNodeAttributes(u) ==
    /\ u[1] \in Ids(graph)
    /\ Call(WithAttrs(graph, u[1], u[2]), TRUE)

AddEdge(e) ==
    /\ CanConnect(graph, e)
    /\ Call(WithEdges(graph, {e}), FALSE)

\* save: open(path, "w") ...
SaveOpens ==
    /\ ~saving
    /\ file' = Torn
    /\ saving' = TRUE
    /\ UNCHANGED <<graph, calls, touched>>

\* ... and json.dump.
SaveWrites ==
    /\ saving
    /\ file' = Json(graph)
    /\ saving' = FALSE
    /\ UNCHANGED <<graph, calls, touched>>

Load ==
    /\ ~saving
    /\ file \notin {NoFile, Torn}
    /\ Loads(file)
    /\ graph' = file
    /\ touched' = FALSE
    /\ UNCHANGED <<file, saving, calls>>

\* The process dies; the next one starts from Base.
Crash ==
    /\ graph' = Base
    /\ saving' = FALSE
    /\ touched' = FALSE
    /\ UNCHANGED <<file, calls>>

GraphNext ==
    \/ \E p \in ClientNodes : AddNode(p)
    \/ \E u \in ClientUpdates : UpdateNodeAttributes(u)
    \/ \E e \in ClientEdges : AddEdge(e)
    \/ SaveOpens \/ SaveWrites \/ Load \/ Crash

-----------------------------------------------------------------------------
(* Properties *)

GraphTypeOK ==
    /\ \A id \in Ids(graph) : KindIn(graph, id) \in Kinds
    /\ saving \in BOOLEAN
    /\ saving => file = Torn
    /\ touched \in BOOLEAN
    /\ calls \in 0..MaxCalls

\* Whatever is added, projected by halves, or loaded, the graph and the saved
\* file never have a dangling edge, nor two observations of one request.
StructureSound ==
    \A g \in {graph, file} \ {NoFile, Torn} : StructureProblems(g) = {}

\* validate can object only to what a caller wrote into a record node since
\* the graph was loaded: projections, evidence and load itself never cause it.
OnlyRecordsInvalidate == ~touched => Problems(graph) = {}

\* A reloaded graph equals the one that was saved, element by element, so that
\* projecting the same source again meets equal nodes and adds no edge twice.
RoundTrip == Json(graph) = graph
=============================================================================
