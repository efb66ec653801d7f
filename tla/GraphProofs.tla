----------------------------- MODULE GraphProofs ----------------------------
(* The system model, for every repository, scope policy, contract and       *)
(* caller.  No projection, update, reload or crash leaves a dangling edge   *)
(* or a request with two observations, in memory or on disk; the saved      *)
(* model reads back as it was; and what validate may object to, a caller    *)
(* wrote.                                                                   *)
EXTENDS Projection, Candidates, SequenceTheorems, SetInduction

-----------------------------------------------------------------------------
(* What FlattenSeq makes of a sequence of sequences *)

\* s holds a copy of t from position o + 1 on.
CopyAt(s, t, o) ==
    \A j \in 1..Len(t) : o + j <= Len(s) /\ s[o + j] = t[j]

\* Every element of s lies in a copy of one of the first n of ss.
MadeOf(s, ss, n) ==
    \A i \in 1..Len(s) : \E k \in 1..n, o \in Nat :
        i - o \in 1..Len(ss[k]) /\ CopyAt(s, ss[k], o)

LEMMA ConcatMadeOf ==
    ASSUME NEW S, NEW ss \in Seq(Seq(S)), NEW n \in Nat, n + 1 <= Len(ss),
           NEW s \in Seq(S), MadeOf(s, ss, n)
    PROVE  MadeOf(s \o ss[n + 1], ss, n + 1)
<1> DEFINE t == ss[n + 1]
           r == s \o t
<1>1. n + 1 \in 1..Len(ss)
    BY LenProperties
<1>2. t \in Seq(S)
    BY <1>1, ElementOfSeq
<1>3. /\ Len(s) \in Nat
      /\ Len(t) \in Nat
    BY <1>2, LenProperties
<1>4. /\ Len(r) = Len(s) + Len(t)
      /\ \A i \in 1 .. Len(s) + Len(t) :
             r[i] = IF i <= Len(s) THEN s[i] ELSE t[i - Len(s)]
    BY <1>2, ConcatProperties
<1>5. \A k \in 1..n : ss[k] \in Seq(S) /\ Len(ss[k]) \in Nat
  <2>1. ASSUME NEW k \in 1..n PROVE k \in 1..Len(ss)
      BY LenProperties, <1>1
  <2>2. QED
      BY <2>1, ElementOfSeq, LenProperties
<1> HIDE DEF t, r
<1>6. CopyAt(r, t, Len(s))
  <2>1. ASSUME NEW j \in 1..Len(t)
        PROVE  Len(s) + j <= Len(r) /\ r[Len(s) + j] = t[j]
    <3>1. /\ Len(s) + j \in 1..(Len(s) + Len(t))
          /\ ~(Len(s) + j <= Len(s))
          /\ (Len(s) + j) - Len(s) = j
        BY <1>3
    <3>2. QED
        BY <1>3, <1>4, <3>1
  <2>2. QED
      BY <2>1 DEF CopyAt
<1>7. ASSUME NEW k \in 1..n, NEW o \in Nat, CopyAt(s, ss[k], o)
      PROVE  CopyAt(r, ss[k], o)
  <2>1. ASSUME NEW j \in 1..Len(ss[k])
        PROVE  o + j <= Len(r) /\ r[o + j] = ss[k][j]
    <3>1. o + j <= Len(s) /\ s[o + j] = ss[k][j]
        BY <1>7, <2>1 DEF CopyAt
    <3>2. o + j \in 1..Len(s) /\ j \in Nat
        BY <1>3, <1>5, <3>1
    <3>3. QED
        BY <1>3, <1>4, <3>1, <3>2
  <2>2. QED
      BY <2>1 DEF CopyAt
<1>8. ASSUME NEW i \in 1..Len(r)
      PROVE  \E k \in 1..(n + 1), o \in Nat :
                 i - o \in 1..Len(ss[k]) /\ CopyAt(r, ss[k], o)
  <2>1. CASE i <= Len(s)
    <3>1. PICK k \in 1..n, o \in Nat :
              i - o \in 1..Len(ss[k]) /\ CopyAt(s, ss[k], o)
        BY <1>3, <2>1 DEF MadeOf
    <3>2. k \in 1..(n + 1)
        OBVIOUS
    <3>3. QED
        BY <1>7, <3>1, <3>2
  <2>2. CASE i > Len(s)
    <3>1. i - Len(s) \in 1..Len(t)
        BY <1>3, <1>4, <2>2
    <3>2. n + 1 \in 1..(n + 1)
        OBVIOUS
    <3>3. QED
        BY <1>3, <1>6, <3>1, <3>2 DEF t
  <2>3. QED
      BY <1>3, <1>4, <2>1, <2>2
<1>9. QED
    BY <1>8 DEF MadeOf, r, t

LEMMA Flattened ==
    ASSUME NEW S, NEW ss \in Seq(Seq(S)), NEW f,
           f = [i \in 1..Len(ss) |-> IF i = 1 THEN ss[i] ELSE f[i - 1] \o ss[i]]
    PROVE  \A n \in 1..Len(ss) : f[n] \in Seq(S) /\ MadeOf(f[n], ss, n)
<1> DEFINE G == {n \in Nat : n + 1 <= Len(ss) =>
                     f[n + 1] \in Seq(S) /\ MadeOf(f[n + 1], ss, n + 1)}
<1>0. Len(ss) \in Nat /\ \A n \in 1..Len(ss) : ss[n] \in Seq(S)
    BY LenProperties, ElementOfSeq
<1>a. \A i \in 1..Len(ss) : f[i] = IF i = 1 THEN ss[i] ELSE f[i - 1] \o ss[i]
  <2> DEFINE e(i) == IF i = 1 THEN ss[i] ELSE f[i - 1] \o ss[i]
  <2>1. f = [i \in 1..Len(ss) |-> e(i)]
      OBVIOUS
  <2> HIDE DEF e
  <2>2. \A i \in 1..Len(ss) : f[i] = e(i)
      BY <2>1
  <2>3. QED
      BY <2>2 DEF e
<1>1. 0 \in G
  <2> SUFFICES ASSUME 1 <= Len(ss)
               PROVE  f[1] \in Seq(S) /\ MadeOf(f[1], ss, 1)
      OBVIOUS
  <2>1. 1 \in 1..Len(ss)
      BY <1>0
  <2>2. f[1] = ss[1] /\ ss[1] \in Seq(S)
      BY <1>a, <1>0, <2>1
  <2>3. CopyAt(ss[1], ss[1], 0)
    <3>1. Len(ss[1]) \in Nat
        BY <2>2, LenProperties
    <3>2. QED
        BY <3>1 DEF CopyAt
  <2>4. MadeOf(ss[1], ss, 1)
    <3>1. Len(ss[1]) \in Nat
        BY <2>2, LenProperties
    <3>2. QED
        BY <2>3, <3>1 DEF MadeOf
  <2>5. QED
      BY <2>2, <2>4
<1>2. ASSUME NEW n \in Nat, n \in G PROVE n + 1 \in G
  <2> SUFFICES ASSUME (n + 1) + 1 <= Len(ss)
               PROVE  /\ f[(n + 1) + 1] \in Seq(S)
                      /\ MadeOf(f[(n + 1) + 1], ss, (n + 1) + 1)
      OBVIOUS
  <2>1. f[n + 1] \in Seq(S) /\ MadeOf(f[n + 1], ss, n + 1)
      BY <1>0, <1>2
  <2>2. (n + 1) + 1 \in 1..Len(ss) /\ (n + 1) + 1 # 1 /\ ((n + 1) + 1) - 1 = n + 1
      BY <1>0
  <2>3. f[(n + 1) + 1] = f[n + 1] \o ss[(n + 1) + 1]
      BY <1>a, <2>2
  <2>4. f[n + 1] \o ss[(n + 1) + 1] \in Seq(S)
      BY <1>0, <2>1, <2>2, ConcatProperties
  <2>5. n + 1 \in Nat
      OBVIOUS
  <2>6. MadeOf(f[n + 1] \o ss[(n + 1) + 1], ss, (n + 1) + 1)
      BY <2>1, <2>5, ConcatMadeOf
  <2>7. QED
      BY <2>3, <2>4, <2>6
<1> HIDE DEF G
<1>3. \A n \in Nat : n \in G
    BY <1>1, <1>2, NatBySuccessor
<1>4. ASSUME NEW n \in 1..Len(ss)
      PROVE  f[n] \in Seq(S) /\ MadeOf(f[n], ss, n)
  <2>1. n - 1 \in Nat /\ (n - 1) + 1 = n /\ n <= Len(ss)
      BY <1>0
  <2>2. n - 1 \in G
      BY <1>3, <2>1
  <2>3. QED
      BY <2>1, <2>2 DEF G
<1>5. QED
    BY <1>4

LEMMA FlattenSeqMadeOf ==
    ASSUME NEW S, NEW ss \in Seq(Seq(S))
    PROVE  /\ FlattenSeq(ss) \in Seq(S)
           /\ MadeOf(FlattenSeq(ss), ss, Len(ss))
<1>0. Len(ss) \in Nat /\ \A n \in 1..Len(ss) : ss[n] \in Seq(S)
    BY LenProperties, ElementOfSeq
<1>1. CASE Len(ss) = 0
  <2>1. FlattenSeq(ss) = ss /\ ss = <<>>
      BY <1>1, EmptySeq DEF FlattenSeq
  <2>2. QED
      BY <2>1, EmptySeq DEF MadeOf
<1>2. CASE Len(ss) # 0
  <2> DEFINE Flat(f) == f = [i \in 1..Len(ss) |->
                                IF i = 1 THEN ss[i] ELSE f[i - 1] \o ss[i]]
             step == [n \in Nat |-> [x \in Seq(S) |->
                         IF n + 2 <= Len(ss) THEN x \o ss[n + 2] ELSE x]]
  <2>1. step \in [Nat -> [Seq(S) -> Seq(S)]]
    <3>1. ASSUME NEW n \in Nat, NEW x \in Seq(S), n + 2 <= Len(ss)
          PROVE  x \o ss[n + 2] \in Seq(S)
      <4>1. n + 2 \in 1..Len(ss)
          BY <1>0, <3>1
      <4>2. QED
          BY <1>0, <4>1, ConcatProperties
    <3>2. QED
        BY <3>1
  <2>a. ASSUME NEW n \in Nat, NEW x \in Seq(S), n + 2 <= Len(ss)
        PROVE  step[n][x] = x \o ss[n + 2]
      BY <2>a
  <2>2. ss[1] \in Seq(S)
      BY <1>0, <1>2
  <2>3. PICK g : Iterated(g, Seq(S), ss[1], step)
    <3> HIDE DEF step
    <3>1. QED
        BY <2>1, <2>2, Recursion
  <2> DEFINE f == [i \in 1..Len(ss) |-> g[i - 1]]
  <2>4. ASSUME NEW i \in 1..Len(ss)
        PROVE  f[i] = IF i = 1 THEN ss[i] ELSE f[i - 1] \o ss[i]
    <3>1. CASE i = 1
        BY <2>3, <3>1 DEF Iterated
    <3>2. CASE i # 1
      <4>1. /\ i - 2 \in Nat /\ (i - 2) + 1 = i - 1 /\ (i - 2) + 2 = i
            /\ i - 1 \in 1..Len(ss) /\ (i - 1) - 1 = i - 2
            /\ (i - 2) + 2 <= Len(ss)
          BY <1>0, <3>2
      <4>2. g[(i - 2) + 1] = step[i - 2][g[i - 2]] /\ g[i - 2] \in Seq(S)
          BY <2>3, <4>1 DEF Iterated
      <4>3. step[i - 2][g[i - 2]] = g[i - 2] \o ss[i]
          BY <2>a, <4>1, <4>2
      <4>4. QED
          BY <3>2, <4>1, <4>2, <4>3
    <3>3. QED
        BY <3>1, <3>2
  <2>5. Flat(f)
      BY <2>4
  <2>6. PICK h : Flat(h) /\ FlattenSeq(ss) = h[Len(ss)]
    <3>1. FlattenSeq(ss) = (CHOOSE h : Flat(h))[Len(ss)]
        BY <1>2 DEF FlattenSeq
    <3>2. Flat(CHOOSE h : Flat(h))
      <4> HIDE DEF Flat
      <4>1. QED
          BY <2>5
    <3> HIDE DEF Flat
    <3>3. QED
        BY <3>1, <3>2
  <2>7. Len(ss) \in 1..Len(ss)
      BY <1>0, <1>2
  <2>8. \A n \in 1..Len(ss) : h[n] \in Seq(S) /\ MadeOf(h[n], ss, n)
    <3> DEFINE e(i) == IF i = 1 THEN ss[i] ELSE h[i - 1] \o ss[i]
    <3>1. h = [i \in 1..Len(ss) |-> e(i)]
        BY <2>6
    <3>2. QED
        BY <3>1, Flattened
  <2>9. QED
      BY <2>6, <2>7, <2>8
<1>3. QED
    BY <1>1, <1>2

-----------------------------------------------------------------------------
(* Sound graphs: what validate asks of the edges, as one predicate *)

Anchored(g) == \A e \in g.edges : e.source \in Ids(g) /\ e.target \in Ids(g)

BindingKinds(g) ==
    \A e \in g.edges : Binds(e) => /\ KindIn(g, e.source) = "observation"
                                   /\ KindIn(g, e.target) = "execution_request"

BoundOnce(g) ==
    \A e, o \in g.edges :
        Binds(e) /\ Binds(o) /\ e.target = o.target => e.source = o.source

Sound(g) == Anchored(g) /\ BindingKinds(g) /\ BoundOnce(g)

\* Nothing is found where no check says so.
LEMMA FoundNothing ==
    ASSUME NEW checks
    PROVE  Found(checks) = {} <=> \A d \in checks : ~d[1]
BY DEF Found

LEMMA SoundIsValid ==
    ASSUME NEW g
    PROVE  StructureProblems(g) = {} <=> Sound(g)
<1> DEFINE A == \E e \in g.edges : ~({e.source, e.target} \subseteq Ids(g))
           B == \E e \in g.edges : /\ Binds(e)
                                   /\ \/ e.source \notin OfKind(g, "observation")
                                      \/ e.target \notin OfKind(g, "execution_request")
           C == \E e, o \in g.edges : /\ Binds(e) /\ Binds(o)
                                      /\ e.target = o.target
                                      /\ e.source # o.source
<1>1. StructureProblems(g) = {} <=> ~A /\ ~B /\ ~C
  <2>1. StructureProblems(g) = Found({<<A, "endpoint">>, <<B, "binding_kinds">>,
                                      <<C, "two_bindings">>})
      BY DEF StructureProblems
  <2>2. A \in BOOLEAN /\ B \in BOOLEAN /\ C \in BOOLEAN
      OBVIOUS
  <2>3. PICK a \in BOOLEAN, b \in BOOLEAN, c \in BOOLEAN :
            a = A /\ b = B /\ c = C
      BY <2>2, Zenon
  <2> HIDE DEF A, B, C
  <2>4. StructureProblems(g) = {} <=>
            \A d \in {<<a, "endpoint">>, <<b, "binding_kinds">>,
                      <<c, "two_bindings">>} : ~d[1]
      BY <2>1, <2>3, FoundNothing, Zenon
  <2>5. (\A d \in {<<a, "endpoint">>, <<b, "binding_kinds">>,
                    <<c, "two_bindings">>} : ~d[1]) <=> ~a /\ ~b /\ ~c
      OBVIOUS
  <2>6. QED
      BY <2>3, <2>4, <2>5, Zenon
<1>2. ~A <=> Anchored(g)
    BY DEF Anchored
<1>3. ~C <=> BoundOnce(g)
    BY DEF BoundOnce
<1>4. ASSUME ~A
      PROVE  ~B <=> BindingKinds(g)
    BY <1>4 DEF BindingKinds, OfKind
<1>5. QED
    BY <1>1, <1>2, <1>3, <1>4 DEF Sound

-----------------------------------------------------------------------------
(* The operators that build graphs keep them sound *)

\* A graph that has the nodes of g, in their kinds, and the edges of g.
LEMMA MoreNodes ==
    ASSUME NEW g, NEW h, Sound(g),
           Ids(g) \subseteq Ids(h),
           \A id \in Ids(g) : KindIn(h, id) = KindIn(g, id),
           h.edges = g.edges
    PROVE  Sound(h)
BY DEF Sound, Anchored, BindingKinds, BoundOnce

\* Nodes that are added replace none.
LEMMA WithNodesExtends ==
    ASSUME NEW g, NEW pairs
    PROVE  LET h == WithNodes(g, pairs) IN
           /\ Ids(g) \subseteq Ids(h)
           /\ \A id \in Ids(g) : KindIn(h, id) = KindIn(g, id)
           /\ h.edges = g.edges
BY DEF WithNodes, Graph, Ids, KindIn

LEMMA WithNodesSound ==
    ASSUME NEW g, NEW pairs, Sound(g)
    PROVE  Sound(WithNodes(g, pairs))
<1> DEFINE h == WithNodes(g, pairs)
<1>1. /\ Ids(g) \subseteq Ids(h)
      /\ \A id \in Ids(g) : KindIn(h, id) = KindIn(g, id)
      /\ h.edges = g.edges
    BY WithNodesExtends
<1> HIDE DEF h
<1>2. Sound(h)
    BY <1>1, MoreNodes
<1>3. QED
    BY <1>2 DEF h

\* New attributes leave kinds alone.
LEMMA WithAttrsSound ==
    ASSUME NEW g, NEW id, NEW attrs, Sound(g)
    PROVE  Sound(WithAttrs(g, id, attrs))
<1> DEFINE h == WithAttrs(g, id, attrs)
<1>1. Ids(h) = Ids(g) /\ h.edges = g.edges
    BY DEF WithAttrs, Graph, Ids
<1>2. ASSUME NEW i \in Ids(g)
      PROVE  KindIn(h, i) = KindIn(g, i)
    BY DEF WithAttrs, Graph, Ids, KindIn, Node
<1> HIDE DEF h
<1>3. Sound(h)
    BY <1>1, <1>2, MoreNodes
<1>4. QED
    BY <1>3 DEF h

\* Edges between nodes that are there, none of them a binding.
LEMMA PlainEdgesSound ==
    ASSUME NEW g, NEW edges, Sound(g),
           \A e \in edges : /\ e.source \in Ids(g) /\ e.target \in Ids(g)
                            /\ ~Binds(e)
    PROVE  Sound(WithEdges(g, edges))
BY DEF Sound, Anchored, BindingKinds, BoundOnce, WithEdges, Graph, Ids, KindIn

\* An edge that add_edge accepts.
LEMMA ConnectedSound ==
    ASSUME NEW g, NEW e, Sound(g), CanConnect(g, e)
    PROVE  Sound(WithEdges(g, {e}))
BY DEF Sound, Anchored, BindingKinds, BoundOnce, CanConnect, WithEdges, Graph,
       Ids, KindIn

-----------------------------------------------------------------------------
(* Valid graphs: all that validate asks, as one predicate *)

Valid(g) ==
    /\ Sound(g)
    /\ \A id \in OfKind(g, "finding") : FindingProblems(id, g.nodes[id]) = {}
    /\ \A id \in OfKind(g, "execution_result") :
          ResultProblems(g, g.nodes[id].attrs) = {}
    /\ \A id \in OfKind(g, "execution_request") :
          RequestFields \subseteq DOMAIN g.nodes[id].attrs
    /\ \A id \in Ids(g) : KindIn(g, id) \in Kinds

LEMMA LoadsIsValid ==
    ASSUME NEW g
    PROVE  Loads(g) <=> Valid(g)
<1> DEFINE R == \E id \in OfKind(g, "execution_request") :
                    ~(RequestFields \subseteq DOMAIN g.nodes[id].attrs)
           K == \E id \in Ids(g) : KindIn(g, id) \notin Kinds
           last == Found({<<R, "request_fields">>, <<K, "kind">>})
           findings == UNION {FindingProblems(id, g.nodes[id]) :
                                  id \in OfKind(g, "finding")}
           results == UNION {ResultProblems(g, g.nodes[id].attrs) :
                                 id \in OfKind(g, "execution_result")}
<1>1. last = {} <=> ~R /\ ~K
  <2>1. R \in BOOLEAN /\ K \in BOOLEAN
      OBVIOUS
  <2>2. PICK r \in BOOLEAN, k \in BOOLEAN : r = R /\ k = K
      BY <2>1, Zenon
  <2> HIDE DEF R, K
  <2>3. last = {} <=> \A d \in {<<r, "request_fields">>, <<k, "kind">>} : ~d[1]
      BY <2>2, FoundNothing, Zenon
  <2>4. (\A d \in {<<r, "request_fields">>, <<k, "kind">>} : ~d[1]) <=> ~r /\ ~k
      OBVIOUS
  <2>5. QED
      BY <2>2, <2>3, <2>4, Zenon
<1>2. findings = {} <=> \A id \in OfKind(g, "finding") :
                            FindingProblems(id, g.nodes[id]) = {}
    OBVIOUS
<1>3. results = {} <=> \A id \in OfKind(g, "execution_result") :
                           ResultProblems(g, g.nodes[id].attrs) = {}
    OBVIOUS
<1>4. Problems(g) = StructureProblems(g) \cup last \cup (findings \cup results)
    BY DEF Problems
<1> HIDE DEF last, findings, results
<1>5. Problems(g) = {} <=> /\ StructureProblems(g) = {} /\ findings = {}
                           /\ results = {} /\ last = {}
    BY <1>4
<1>6. /\ ~R <=> \A id \in OfKind(g, "execution_request") :
                   RequestFields \subseteq DOMAIN g.nodes[id].attrs
      /\ ~K <=> \A id \in Ids(g) : KindIn(g, id) \in Kinds
    OBVIOUS
<1> HIDE DEF R, K
<1>7. QED
    BY <1>1, <1>2, <1>3, <1>5, <1>6, SoundIsValid, Zenon DEF Loads, Valid

\* A valid graph stays valid when nodes of other kinds than records are added,
\* and edges that keep it sound.
LEMMA ValidGrows ==
    ASSUME NEW g, NEW h, Valid(g), Sound(h),
           Ids(g) \subseteq Ids(h),
           \A id \in Ids(g) : h.nodes[id] = g.nodes[id],
           \A id \in Ids(h) \ Ids(g) : KindIn(h, id) \in Kinds \ RecordKinds
    PROVE  Valid(h)
<1>1. \A kind \in RecordKinds : OfKind(h, kind) = OfKind(g, kind)
    BY DEF OfKind, KindIn, Ids
<1>2. /\ OfKind(h, "finding") = OfKind(g, "finding")
      /\ OfKind(h, "execution_result") = OfKind(g, "execution_result")
      /\ OfKind(h, "execution_request") = OfKind(g, "execution_request")
    BY <1>1 DEF RecordKinds
<1>3. ASSUME NEW a, ResultProblems(g, a) = {}
      PROVE  ResultProblems(h, a) = {}
  <2>1. ResultFields \subseteq DOMAIN a /\ a.request \in OfKind(g, "execution_request")
      BY <1>3 DEF ResultProblems
  <2>2. h.nodes[a.request] = g.nodes[a.request]
      BY <2>1 DEF OfKind
  <2>3. ResultProblems(h, a) = ResultProblems(g, a)
      BY <1>2, <2>1, <2>2 DEF ResultProblems
  <2>4. QED
      BY <1>3, <2>3
<1>4. /\ \A id \in OfKind(h, "finding") : FindingProblems(id, h.nodes[id]) = {}
      /\ \A id \in OfKind(h, "execution_request") :
             RequestFields \subseteq DOMAIN h.nodes[id].attrs
    BY <1>2 DEF Valid, OfKind
<1>5. \A id \in OfKind(h, "execution_result") :
          ResultProblems(h, h.nodes[id].attrs) = {}
    BY <1>2, <1>3 DEF Valid, OfKind
<1>6. \A id \in Ids(h) : KindIn(h, id) \in Kinds
    BY DEF Valid, KindIn
<1>7. QED
    BY <1>4, <1>5, <1>6 DEF Valid

-----------------------------------------------------------------------------
(* Plain graphs: made of nodes and edges that read back as they are *)

PlainNode(n) == n.kind \in Kinds /\ n = Node(n.kind, n.label, JsonAttrs(n.attrs))

PlainEdge(e) == e = Edge(e.source, e.relation, e.target, JsonAttrs(e.attrs))

Plain(g) ==
    /\ g = Graph([id \in Ids(g) |-> g.nodes[id]], g.edges)
    /\ \A id \in Ids(g) : PlainNode(g.nodes[id])
    /\ \A e \in g.edges : PlainEdge(e)

LEMMA JsonAttrsTwice ==
    ASSUME NEW a
    PROVE  JsonAttrs(JsonAttrs(a)) = JsonAttrs(a)
<1> DEFINE b == JsonAttrs(a)
<1>1. DOMAIN b = DOMAIN a
    BY DEF JsonAttrs
<1>2. ASSUME NEW k \in DOMAIN a
      PROVE  (IF k \in SequenceFields THEN <<"list", b[k][2]>> ELSE b[k]) = b[k]
  <2>1. CASE k \in SequenceFields
    <3>1. b[k] = <<"list", a[k][2]>>
        BY <2>1 DEF JsonAttrs
    <3> HIDE DEF b
    <3>2. QED
        BY <2>1, <3>1
  <2>2. CASE k \notin SequenceFields
      BY <2>2
  <2>3. QED
      BY <2>1, <2>2
<1>3. b = [k \in DOMAIN a |-> b[k]]
    BY DEF JsonAttrs
<1>4. JsonAttrs(b) = [k \in DOMAIN b |-> IF k \in SequenceFields
                                         THEN <<"list", b[k][2]>> ELSE b[k]]
    BY DEF JsonAttrs
<1> HIDE DEF b
<1>5. JsonAttrs(b) = [k \in DOMAIN a |-> b[k]]
    BY <1>1, <1>2, <1>4
<1>6. QED
    BY <1>3, <1>5 DEF b

\* A plain graph survives the file as it is.
LEMMA PlainRoundTrip ==
    ASSUME NEW g, Plain(g)
    PROVE  Json(g) = g
<1> DEFINE nodes == [id \in Ids(g) |->
                        Node(g.nodes[id].kind, g.nodes[id].label,
                             JsonAttrs(g.nodes[id].attrs))]
           edges == {Edge(e.source, e.relation, e.target, JsonAttrs(e.attrs)) :
                         e \in g.edges}
<1>1. Json(g) = Graph(nodes, edges)
    BY DEF Json
<1>2. nodes = [id \in Ids(g) |-> g.nodes[id]]
    BY DEF Plain, PlainNode
<1>3. edges = g.edges
    BY DEF Plain, PlainEdge
<1> HIDE DEF nodes, edges
<1>4. QED
    BY <1>1, <1>2, <1>3 DEF Plain

LEMMA PlainBase == Plain(Base)
<1> DEFINE n(id) == Base.nodes[id]
<1>1. Base = Graph([id \in Ids(Base) |-> Node(n(id).kind, n(id).label,
                                             JsonAttrs(n(id).attrs))],
                   {Edge(e.source, e.relation, e.target, JsonAttrs(e.attrs)) :
                       e \in Base.edges})
    BY BaseAssumption DEF Json
<1>2. \A id \in Ids(Base) : n(id) = Node(n(id).kind, n(id).label,
                                         JsonAttrs(n(id).attrs))
    BY <1>1 DEF Graph
<1>3. ASSUME NEW e \in Base.edges PROVE PlainEdge(e)
  <2>1. PICK o \in Base.edges :
            e = Edge(o.source, o.relation, o.target, JsonAttrs(o.attrs))
      BY <1>1 DEF Graph
  <2>2. QED
      BY <2>1, JsonAttrsTwice DEF PlainEdge, Edge
<1>4. Base = Graph([id \in Ids(Base) |-> n(id)], Base.edges)
    BY <1>1, <1>2 DEF Graph
<1>5. \A id \in Ids(Base) : n(id).kind \in Kinds
    BY LoadsIsValid, BaseAssumption DEF Valid, KindIn
<1>6. QED
    BY <1>2, <1>3, <1>4, <1>5 DEF Plain, PlainNode

LEMMA WithNodesPlain ==
    ASSUME NEW g, NEW pairs, Plain(g), \A p \in pairs : PlainNode(p[2])
    PROVE  Plain(WithNodes(g, pairs))
<1> DEFINE h == WithNodes(g, pairs)
           new(id) == CHOOSE p \in pairs : p[1] = id
<1>1. /\ Ids(h) = Ids(g) \cup {p[1] : p \in pairs}
      /\ h.edges = g.edges
      /\ h = Graph([id \in Ids(h) |-> h.nodes[id]], h.edges)
    BY DEF WithNodes, Graph, Ids
<1>2. ASSUME NEW id \in Ids(h) PROVE PlainNode(h.nodes[id])
  <2>1. CASE id \in Ids(g)
    <3>1. h.nodes[id] = g.nodes[id]
        BY <1>1, <2>1 DEF WithNodes, Graph
    <3>2. QED
        BY <2>1, <3>1 DEF Plain
  <2>2. CASE id \notin Ids(g)
    <3>1. h.nodes[id] = new(id)[2]
        BY <1>1, <2>2 DEF WithNodes, Graph
    <3>2. new(id) \in pairs
        BY <1>1, <2>2
    <3>3. QED
        BY <3>1, <3>2
  <2>3. QED
      BY <2>1, <2>2
<1> HIDE DEF h
<1>3. Plain(h)
    BY <1>1, <1>2 DEF Plain
<1>4. QED
    BY <1>3 DEF h

LEMMA WithEdgesPlain ==
    ASSUME NEW g, NEW edges, Plain(g), \A e \in edges : PlainEdge(e)
    PROVE  Plain(WithEdges(g, edges))
<1> DEFINE h == WithEdges(g, edges)
<1>1. /\ Ids(h) = Ids(g)
      /\ h.nodes = g.nodes
      /\ h.edges = g.edges \cup edges
      /\ h = Graph(h.nodes, h.edges)
      /\ g.nodes = [id \in Ids(g) |-> g.nodes[id]]
    BY DEF WithEdges, Graph, Ids, Plain
<1> HIDE DEF h
<1>2. Plain(h)
    BY <1>1 DEF Plain
<1>3. QED
    BY <1>2 DEF h

LEMMA UpdatedPlain ==
    ASSUME NEW old, NEW new, old = JsonAttrs(old), new = JsonAttrs(new)
    PROVE  Updated(old, new) = JsonAttrs(Updated(old, new))
<1> DEFINE u == Updated(old, new)
           j(a, k) == IF k \in SequenceFields THEN <<"list", a[k][2]>> ELSE a[k]
<1>1. u = [k \in DOMAIN u |-> u[k]]
    BY DEF Updated
<1>2. JsonAttrs(u) = [k \in DOMAIN u |-> j(u, k)]
    BY DEF JsonAttrs
<1>3. ASSUME NEW k \in DOMAIN u PROVE u[k] = j(u, k)
  <2>1. CASE k \in DOMAIN new
    <3>1. u[k] = new[k] /\ new[k] = j(new, k)
        BY <2>1 DEF Updated, JsonAttrs
    <3>2. QED
        BY <3>1
  <2>2. CASE k \notin DOMAIN new
    <3>1. u[k] = old[k] /\ old[k] = j(old, k)
        BY <2>2 DEF Updated, JsonAttrs
    <3>2. QED
        BY <3>1
  <2>3. QED
      BY <2>1, <2>2
<1> HIDE DEF u
<1>4. QED
    BY <1>1, <1>2, <1>3 DEF u

LEMMA WithAttrsPlain ==
    ASSUME NEW g, NEW id \in Ids(g), NEW attrs, Plain(g), attrs = JsonAttrs(attrs)
    PROVE  Plain(WithAttrs(g, id, attrs))
<1> DEFINE h == WithAttrs(g, id, attrs)
           n == g.nodes[id]
           m == Node(n.kind, n.label, Updated(n.attrs, attrs))
<1>1. /\ Ids(h) = Ids(g)
      /\ h.edges = g.edges
      /\ h = Graph([i \in Ids(h) |-> h.nodes[i]], h.edges)
      /\ h.nodes[id] = m
      /\ \A i \in Ids(g) : i # id => h.nodes[i] = g.nodes[i]
  <2>1. h = Graph([g.nodes EXCEPT ![id] = m], g.edges)
      BY DEF WithAttrs
  <2>2. g.nodes = [i \in Ids(g) |-> g.nodes[i]]
      BY DEF Plain, Graph
  <2>3. QED
      BY <2>1, <2>2 DEF Graph, Ids
<1>2. n = Node(n.kind, n.label, JsonAttrs(n.attrs)) /\ n.kind \in Kinds
    BY DEF Plain, PlainNode
<1>3. n.attrs = JsonAttrs(n.attrs)
    BY <1>2 DEF Node
<1>4. Updated(n.attrs, attrs) = JsonAttrs(Updated(n.attrs, attrs))
    BY <1>3, UpdatedPlain
<1>5. PlainNode(m)
    BY <1>2, <1>4 DEF PlainNode, Node
<1> HIDE DEF h, n, m
<1>6. Plain(h)
    BY <1>1, <1>5 DEF Plain
<1>7. QED
    BY <1>6 DEF h

-----------------------------------------------------------------------------
(* What a scan finds *)

\* A function on 1..n is a sequence.
LEMMA SeqMade ==
    ASSUME NEW S, NEW n \in Nat, NEW f \in [1..n -> S]
    PROVE  f \in Seq(S) /\ Len(f) = n
<1>1. f \in Seq(S)
    BY SeqDef
<1>2. 1..Len(f) = 1..n /\ Len(f) \in Nat
    BY <1>1, LenProperties
<1>3. QED
    BY <1>1, <1>2

LEMMA SeqInto ==
    ASSUME NEW S, NEW s \in Seq(S), NEW T, \A j \in 1..Len(s) : s[j] \in T
    PROVE  s \in Seq(T)
<1>1. Len(s) \in Nat /\ s \in [1..Len(s) -> T]
    BY LenProperties
<1>2. QED
    BY <1>1, SeqMade

ItemKinds == {"file", "module", "function", "class", "import", "entry_point",
              "authorization"}

\* An item that the scan of a path in a scope state finds.
PathItem(item, path, state) ==
    /\ item.path = path
    /\ item.scope = state
    /\ item.kind \in ItemKinds
    /\ item.id = <<item.kind, path, item.id[3]>>
    /\ state = "OUT_OF_SCOPE" => item.id = <<"file", path, "">>

\* The items of a path start with its file.
LEMMA PathItemsAre ==
    ASSUME NEW path, NEW state, NEW text,
           text # Unparsed =>
               /\ text \in Seq(Range(text))
               /\ \A i \in DOMAIN text : text[i].kind \in DOMAIN RelationOf
    PROVE  LET items == PathItems(path, state, text) IN
           /\ items \in Seq(Range(items))
           /\ \A j \in 1..Len(items) : PathItem(items[j], path, state)
           /\ Len(items) >= 1
           /\ items[1] = Item("file", path, "", state, "")
<1> DEFINE items == PathItems(path, state, text)
           file1 == Item("file", path, "", state, "")
           module == Item("module", path, "", state, "")
           Entry(d) == Item("entry_point", path, d.name, state, "")
           Declared(d) ==
               <<Item(d.kind, path, d.name, state, d.metadata)>>
               \o IF d.entry THEN <<Entry(d)>> ELSE <<>>
           parts == [i \in DOMAIN text |-> Declared(text[i])]
           rest == IF Reads(state, text) THEN <<module>> \o FlattenSeq(parts)
                   ELSE <<>>
           D == {Item(text[i].kind, path, text[i].name, state, text[i].metadata) :
                    i \in DOMAIN text} \cup {Entry(text[i]) : i \in DOMAIN text}
           S == {file1} \cup IF Reads(state, text) THEN {module} \cup D ELSE {}
<1>1. items = <<file1>> \o rest
    BY DEF PathItems
<1>2. rest \in Seq(S)
  <2>1. CASE ~Reads(state, text)
      BY <2>1
  <2>2. CASE Reads(state, text)
    <3>1. text \in Seq(Range(text)) /\ DOMAIN text = 1..Len(text) /\ Len(text) \in Nat
        BY <2>2, LenProperties DEF Reads
    <3>2. ASSUME NEW i \in DOMAIN text PROVE Declared(text[i]) \in Seq(D)
      <4>1. /\ Item(text[i].kind, path, text[i].name, state, text[i].metadata) \in D
            /\ Entry(text[i]) \in D
          OBVIOUS
      <4> HIDE DEF D, Entry
      <4>2. QED
          BY <4>1
    <3>3. parts \in Seq(Seq(D))
      <4>1. parts \in [1..Len(text) -> Seq(D)]
          BY <3>1, <3>2
      <4> HIDE DEF parts, D
      <4>2. QED
          BY <3>1, <4>1, SeqMade
    <3> HIDE DEF parts, D, module
    <3>4. FlattenSeq(parts) \in Seq(D)
        BY <3>3, FlattenSeqMadeOf
    <3>5. D \subseteq S /\ module \in S
        BY <2>2
    <3> HIDE DEF S
    <3>6. FlattenSeq(parts) \in Seq(S) /\ <<module>> \in Seq(S)
        BY <3>4, <3>5, SeqMonotonic
    <3>7. QED
        BY <2>2, <3>6, ConcatProperties
  <2>3. QED
      BY <2>1, <2>2
<1>3. \A x \in S : PathItem(x, path, state)
  <2>1. PathItem(file1, path, state)
      BY DEF PathItem, Item, ItemKinds
  <2>2. ASSUME Reads(state, text) PROVE PathItem(module, path, state)
      BY <2>2 DEF PathItem, Item, ItemKinds, Reads
  <2>3. ASSUME Reads(state, text), NEW i \in DOMAIN text
        PROVE  /\ PathItem(Entry(text[i]), path, state)
               /\ PathItem(Item(text[i].kind, path, text[i].name, state,
                                text[i].metadata), path, state)
    <3>1. text[i].kind \in DOMAIN RelationOf
        BY <2>3 DEF Reads
    <3>2. text[i].kind \in ItemKinds
        BY <3>1 DEF RelationOf, ItemKinds
    <3>3. QED
        BY <2>3, <3>2 DEF PathItem, Item, ItemKinds, Reads
  <2>4. QED
      BY <2>1, <2>2, <2>3
<1>4. file1 \in S
    OBVIOUS
<1> HIDE DEF S, rest, file1
<1>5. /\ <<file1>> \in Seq(S) /\ Len(<<file1>>) = 1 /\ <<file1>>[1] = file1
    BY <1>4
<1>6. /\ items \in Seq(S)
      /\ Len(items) = 1 + Len(rest) /\ Len(rest) \in Nat
      /\ items[1] = file1
    BY <1>1, <1>2, <1>5, ConcatProperties, LenProperties
<1> HIDE DEF items
<1>7. /\ items \in Seq(Range(items))
      /\ \A j \in 1..Len(items) : PathItem(items[j], path, state)
  <2>1. /\ DOMAIN items = 1..Len(items)
        /\ \A j \in 1..Len(items) : items[j] \in S
      BY <1>6, LenProperties, ElementOfSeq
  <2>2. \A j \in 1..Len(items) : items[j] \in Range(items)
      BY <2>1 DEF Range
  <2>3. QED
      BY <1>3, <1>6, <2>1, <2>2, SeqInto
<1>8. Len(items) >= 1
    BY <1>6
<1> HIDE DEF PathItem
<1>9. QED
    BY <1>6, <1>7, <1>8, Zenon DEF items, file1

\* Before an item of a scan, or as that item, comes the file of its path.
FileFirst(items, i) ==
    \E j \in 1..i : /\ items[j].path = items[i].path
                    /\ items[j].id = <<"file", items[i].path, "">>

LEMMA FileItem ==
    ASSUME NEW path, NEW state, NEW item, item = Item("file", path, "", state, "")
    PROVE  item.path = path /\ item.id = <<"file", path, "">>
BY DEF Item

LEMMA ScanItems ==
    ASSUME NEW scan \in Snapshots
    PROVE  LET items == scan.items IN
           /\ items \in Seq(Range(items))
           /\ \A i \in 1..Len(items) : /\ items[i].path \in Paths
                                       /\ PathItem(items[i], items[i].path,
                                                   items[i].scope)
                                       /\ FileFirst(items, i)
           /\ \A i, k \in 1..Len(items) : items[i].path = items[k].path
                                            => items[i].scope = items[k].scope
<1>1. PICK paths \in PathLists, policy \in Policies, texts \in Sources :
          scan = Scan(paths, policy, texts)
    BY DEF Snapshots
<1> DEFINE Of(path) == PathItems(path, Decide(policy, path), texts[path])
           ss == [i \in DOMAIN paths |-> Of(paths[i])]
           S == UNION {Range(ss[i]) : i \in DOMAIN paths}
           items == scan.items
<1>2. items = FlattenSeq(ss)
    BY <1>1 DEF Scan
<1>3. /\ paths \in Seq(Paths) /\ Len(paths) \in Nat
      /\ DOMAIN paths = 1..Len(paths)
      /\ \A i \in 1..Len(paths) : paths[i] \in Paths
  <2>1. paths \in Seq(Paths)
      BY SourceAssumption
  <2>2. QED
      BY <2>1, LenProperties, ElementOfSeq
<1>4. ASSUME NEW i \in DOMAIN paths
      PROVE  /\ ss[i] \in Seq(Range(ss[i]))
             /\ \A j \in 1..Len(ss[i]) :
                    PathItem(ss[i][j], paths[i], Decide(policy, paths[i]))
             /\ Len(ss[i]) >= 1
             /\ ss[i][1] = Item("file", paths[i], "", Decide(policy, paths[i]), "")
  <2>1. paths[i] \in Paths
      BY <1>3
  <2> DEFINE path == paths[i]
             state == Decide(policy, path)
             text == texts[path]
  <2>2. text # Unparsed => /\ text \in Seq(Range(text))
                           /\ \A j \in DOMAIN text : text[j].kind \in DOMAIN RelationOf
      BY <2>1, SourceAssumption
  <2>3. ss[i] = PathItems(path, state, text)
      OBVIOUS
  <2> HIDE DEF ss, text, state, path
  <2>4. /\ ss[i] \in Seq(Range(ss[i]))
        /\ \A j \in 1..Len(ss[i]) : PathItem(ss[i][j], path, state)
        /\ Len(ss[i]) >= 1
        /\ ss[i][1] = Item("file", path, "", state, "")
      BY <2>2, <2>3, PathItemsAre
  <2>5. QED
      BY <2>4, Zenon DEF state, path
<1>5. ss \in Seq(Seq(S)) /\ Len(ss) = Len(paths)
  <2>1. ASSUME NEW i \in DOMAIN paths PROVE ss[i] \in Seq(S)
    <3>1. Range(ss[i]) \subseteq S
        OBVIOUS
    <3> HIDE DEF S, ss
    <3>2. QED
        BY <1>4, <3>1, SeqMonotonic
  <2>2. ss \in [1..Len(paths) -> Seq(S)]
      BY <1>3, <2>1
  <2> HIDE DEF ss, S
  <2>3. QED
      BY <1>3, <2>2, SeqMade
<1> HIDE DEF ss, S, items
<1>6. items \in Seq(S) /\ MadeOf(items, ss, Len(ss))
    BY <1>2, <1>5, FlattenSeqMadeOf
<1>7. /\ Len(items) \in Nat
      /\ DOMAIN items = 1..Len(items)
      /\ items \in Seq(Range(items))
  <2>1. Len(items) \in Nat /\ DOMAIN items = 1..Len(items)
      BY <1>6, LenProperties
  <2>2. \A j \in 1..Len(items) : items[j] \in Range(items)
      BY <2>1 DEF Range
  <2>3. QED
      BY <1>6, <2>1, <2>2, SeqInto
<1>8. ASSUME NEW i \in 1..Len(items)
      PROVE  /\ items[i].path \in Paths
             /\ PathItem(items[i], items[i].path, Decide(policy, items[i].path))
             /\ FileFirst(items, i)
  <2>1. PICK k \in 1..Len(ss), o \in Nat :
            i - o \in 1..Len(ss[k]) /\ CopyAt(items, ss[k], o)
      BY <1>6 DEF MadeOf
  <2>2. k \in DOMAIN paths /\ paths[k] \in Paths
      BY <1>3, <1>5
  <2>3. /\ o + (i - o) = i /\ Len(ss[k]) \in Nat
        /\ 1 \in 1..Len(ss[k]) /\ o + 1 \in 1..i
    <3>1. Len(ss[k]) \in Nat
        BY <1>4, <2>2, LenProperties
    <3>2. Len(ss[k]) >= 1
        BY <1>4, <2>2
    <3>3. QED
        BY <1>7, <2>1, <3>1, <3>2
  <2>4. items[i] = ss[k][i - o] /\ items[o + 1] = ss[k][1]
      BY <2>1, <2>3 DEF CopyAt
  <2>5. PathItem(items[i], paths[k], Decide(policy, paths[k]))
      BY <1>4, <2>1, <2>2, <2>4
  <2>6. items[i].path = paths[k]
      BY <2>5 DEF PathItem
  <2>7. /\ items[o + 1].path = paths[k]
        /\ items[o + 1].id = <<"file", paths[k], "">>
    <3>1. items[o + 1] = Item("file", paths[k], "", Decide(policy, paths[k]), "")
        BY <1>4, <2>2, <2>4
    <3>2. QED
        BY <3>1, FileItem
  <2>8. FileFirst(items, i)
      BY <2>3, <2>6, <2>7 DEF FileFirst
  <2>9. QED
      BY <2>2, <2>5, <2>6, <2>8
<1>9. \A i \in 1..Len(items) : items[i].scope = Decide(policy, items[i].path)
    BY <1>8 DEF PathItem
<1>10. QED
    BY <1>7, <1>8, <1>9 DEF items

\* No scan finds a binding: its relations are those of declarations.
LEMMA ScannedLinks ==
    ASSUME NEW scan \in Snapshots, NEW by, NEW e \in Marked(scan.links, by)
    PROVE  ~Binds(e)
<1>1. PICK paths \in PathLists, policy \in Policies, texts \in Sources :
          scan = Scan(paths, policy, texts)
    BY DEF Snapshots
<1>2. PICK k \in scan.links : e = Edge(k.source, k.relation, k.target,
                                       [provenance |-> by])
    BY DEF Marked
<1>3. PICK path \in Range(paths) :
          k \in PathLinks(path, Decide(policy, path), texts[path])
    BY <1>1, <1>2 DEF Scan
<1>4. path \in Paths
  <2>1. paths \in Seq(Paths)
      BY SourceAssumption
  <2>2. QED
      BY <1>3, <2>1, LenProperties, ElementOfSeq DEF Range
<1> DEFINE text == texts[path]
           module == <<"module", path, "">>
<1>5. \/ k = Link(<<"file", path, "">>, "contains", module)
      \/ \E i \in DOMAIN text :
             \/ k = Link(module, RelationOf[text[i].kind],
                         <<text[i].kind, path, text[i].name>>)
             \/ k = Link(<<text[i].kind, path, text[i].name>>, "exposes",
                         <<"entry_point", path, text[i].name>>)
    BY <1>3 DEF PathLinks
<1>6. text # Unparsed
    BY <1>3 DEF PathLinks, Reads
<1>7. \A i \in DOMAIN text : text[i].kind \in DOMAIN RelationOf
    BY <1>4, <1>6, SourceAssumption
<1>8. k.relation \in {"contains", "imports", "uses_authorization", "exposes"}
  <2>1. CASE k = Link(<<"file", path, "">>, "contains", module)
      BY <2>1 DEF Link
  <2>2. ASSUME NEW i \in DOMAIN text,
               k = Link(module, RelationOf[text[i].kind],
                        <<text[i].kind, path, text[i].name>>)
        PROVE  k.relation \in {"contains", "imports", "uses_authorization"}
    <3>1. k.relation = RelationOf[text[i].kind]
        BY <2>2 DEF Link
    <3>2. \A kind \in DOMAIN RelationOf :
              RelationOf[kind] \in {"contains", "imports", "uses_authorization"}
        BY DEF RelationOf
    <3>3. text[i].kind \in DOMAIN RelationOf
        BY <1>7
    <3>4. QED
        BY <3>1, <3>2, <3>3
  <2>3. ASSUME NEW i \in DOMAIN text,
               k = Link(<<text[i].kind, path, text[i].name>>, "exposes",
                        <<"entry_point", path, text[i].name>>)
        PROVE  k.relation = "exposes"
      BY <2>3 DEF Link
  <2>4. QED
      BY <1>5, <2>1, <2>2, <2>3
<1>9. QED
    BY <1>2, <1>8 DEF Edge, Binds

-----------------------------------------------------------------------------
(* The program's own calls add plain nodes that are no records, and plain   *)
(* edges that bind nothing                                                  *)

\* Attributes read back as they are if their sequences are lists.
LEMMA AttrsPlain ==
    ASSUME NEW a, a = [k \in DOMAIN a |-> a[k]],
           \A k \in DOMAIN a \cap SequenceFields : a[k] = <<"list", a[k][2]>>
    PROVE  a = JsonAttrs(a)
<1> DEFINE j(k) == IF k \in SequenceFields THEN <<"list", a[k][2]>> ELSE a[k]
<1>1. JsonAttrs(a) = [k \in DOMAIN a |-> j(k)]
    BY DEF JsonAttrs
<1>2. \A k \in DOMAIN a : j(k) = a[k]
    OBVIOUS
<1> HIDE DEF j
<1>3. [k \in DOMAIN a |-> j(k)] = [k \in DOMAIN a |-> a[k]]
    BY <1>2
<1>4. QED
    BY <1>1, <1>3

LEMMA MadePlain ==
    ASSUME NEW attrs, attrs = JsonAttrs(attrs)
    PROVE  /\ \A kind \in Kinds : \A label : PlainNode(Node(kind, label, attrs))
           /\ \A source, relation, target :
                 PlainEdge(Edge(source, relation, target, attrs))
BY DEF PlainNode, PlainEdge, Node, Edge

\* Nodes and edges that a projection may add to a graph.
NewNodes(pairs) == \A p \in pairs : PlainNode(p[2]) /\ p[2].kind \notin RecordKinds

NewEdges(g, edges) ==
    \A e \in edges : /\ PlainEdge(e) /\ ~Binds(e)
                     /\ e.source \in Ids(g) /\ e.target \in Ids(g)

Adds(pairs, edges) ==
    LET grown == WithNodes(graph, pairs) IN
    /\ NewNodes(pairs)
    /\ NewEdges(grown, edges)
    /\ Call(WithEdges(grown, edges), FALSE)

LEMMA MarkedPlain ==
    ASSUME NEW links, NEW by, NEW e \in Marked(links, by)
    PROVE  PlainEdge(e)
<1>1. PICK k \in links : e = Edge(k.source, k.relation, k.target,
                                  [provenance |-> by])
    BY DEF Marked
<1>2. [provenance |-> by] = JsonAttrs([provenance |-> by])
    BY AttrsPlain DEF SequenceFields
<1>3. QED
    BY <1>1, <1>2, MadePlain

\* to_canonical adds the items up to the first that add_node refuses.
AcceptedItems(items, A) ==
    \A i \in A : /\ 1..i \subseteq A
                 /\ CanAdd(graph, Canonical(items[i])[1], Canonical(items[i])[2])

CanonicalPairs(items, A) == {Canonical(items[i]) : i \in A}

LEMMA CanonicalNode ==
    ASSUME NEW item, item.kind \in Kinds, item.kind \in ItemKinds
    PROVE  /\ PlainNode(Canonical(item)[2])
           /\ Canonical(item)[2].kind \notin RecordKinds
<1> DEFINE attrs == [source |-> "repository_recon", path |-> item.path,
                     scope |-> item.scope, metadata |-> item.metadata]
<1>1. attrs = JsonAttrs(attrs)
    BY AttrsPlain DEF SequenceFields
<1>2. Canonical(item)[2] = Node(item.kind, item.id[3], attrs)
    BY DEF Canonical
<1> HIDE DEF attrs
<1>3. PlainNode(Canonical(item)[2])
    BY <1>1, <1>2, MadePlain
<1>4. QED
    BY <1>2, <1>3 DEF Node, ItemKinds, RecordKinds

LEMMA ToCanonicalAdds ==
    ASSUME NEW scan \in Snapshots, ToCanonical(scan)
    PROVE  \E A \in SUBSET (1..Len(scan.items)) : \E edges :
               /\ AcceptedItems(scan.items, A)
               /\ Adds(CanonicalPairs(scan.items, A), edges)
<1> DEFINE items == scan.items
           nodes == [i \in DOMAIN items |-> Canonical(items[i])]
           marked == Marked(scan.links, "repository_recon")
           A == Accepted(nodes)
           pairs == {nodes[i] : i \in A}
           grown == WithNodes(graph, pairs)
           all == A = DOMAIN nodes /\ \A e \in marked : CanConnect(grown, e)
           edges == IF all THEN marked ELSE {}
<1>1. Call(IF all THEN WithEdges(grown, marked) ELSE grown, FALSE)
    BY DEF ToCanonical
<1>2. DOMAIN items = 1..Len(items) /\ Len(items) \in Nat
    BY ScanItems, LenProperties
<1>3. A \subseteq 1..Len(items) /\ AcceptedItems(items, A)
  <2>1. \A i \in A : /\ i \in 1..Len(items)
                     /\ \A j \in 1..i : CanAdd(graph, nodes[j][1], nodes[j][2])
      BY <1>2 DEF Accepted
  <2>2. ASSUME NEW i \in A, NEW j \in 1..i PROVE j \in A
    <3>1. j \in 1..Len(items)
        BY <1>2, <2>1
    <3>2. \A k \in 1..j : k \in 1..i
        BY <1>2, <2>1
    <3>3. QED
        BY <1>2, <2>1, <3>1, <3>2 DEF Accepted
  <2>3. ASSUME NEW i \in A
        PROVE  CanAdd(graph, Canonical(items[i])[1], Canonical(items[i])[2])
    <3>1. i \in 1..i /\ nodes[i] = Canonical(items[i])
        BY <1>2, <2>1
    <3>2. QED
        BY <2>1, <3>1
  <2> HIDE DEF A
  <2>4. QED
      BY <2>1, <2>2, <2>3 DEF AcceptedItems
<1>4. pairs = CanonicalPairs(items, A)
    BY <1>2, <1>3 DEF CanonicalPairs
<1>5. NewNodes(pairs)
  <2>1. ASSUME NEW i \in A
        PROVE  PlainNode(nodes[i][2]) /\ nodes[i][2].kind \notin RecordKinds
    <3>1. /\ i \in 1..Len(items) /\ nodes[i] = Canonical(items[i])
          /\ CanAdd(graph, Canonical(items[i])[1], Canonical(items[i])[2])
        BY <1>2, <1>3 DEF AcceptedItems
    <3>2. items[i].kind \in ItemKinds
        BY <3>1, ScanItems DEF PathItem
    <3>3. Canonical(items[i])[2].kind = items[i].kind
        BY DEF Canonical, Node
    <3>4. items[i].kind \in Kinds
        BY <3>1, <3>3 DEF CanAdd
    <3>5. QED
        BY <3>1, <3>2, <3>4, CanonicalNode
  <2>2. QED
      BY <2>1 DEF NewNodes
<1>6. NewEdges(grown, edges)
  <2>1. ASSUME all, NEW e \in marked
        PROVE  PlainEdge(e) /\ ~Binds(e) /\ e.source \in Ids(grown) /\ e.target \in Ids(grown)
    <3>1. PlainEdge(e) /\ ~Binds(e)
        BY MarkedPlain, ScannedLinks
    <3>2. CanConnect(grown, e)
        BY <2>1
    <3>3. QED
        BY <3>1, <3>2 DEF CanConnect
  <2>2. QED
      BY <2>1 DEF NewEdges
<1>7. grown = WithEdges(grown, {})
    BY DEF WithNodes, WithEdges, Graph
<1>8. Call(WithEdges(grown, edges), FALSE)
  <2> HIDE DEF grown, marked
  <2>1. CASE all
      BY <1>1, <2>1
  <2>2. CASE ~all
      BY <1>1, <1>7, <2>2
  <2>3. QED
      BY <2>1, <2>2
<1> HIDE DEF A, edges, pairs, items, nodes
<1>9. Adds(pairs, edges)
    BY <1>5, <1>6, <1>8 DEF Adds
<1>10. QED
    BY <1>3, <1>4, <1>9 DEF items

LEMMA PassiveNode ==
    ASSUME NEW item, item.kind \in ItemKinds
    PROVE  /\ PlainNode(Passive(item)[2])
           /\ Passive(item)[2].kind \notin RecordKinds
<1> DEFINE attrs == [path |-> item.path, scope |-> item.scope,
                     recon_kind |-> item.kind, metadata |-> item.metadata]
<1>1. attrs = JsonAttrs(attrs)
    BY AttrsPlain DEF SequenceFields
<1>2. Passive(item)[2] = Node(KindMap[item.kind], item.id[3], attrs)
    BY DEF Passive
<1>3. KindMap[item.kind] \in {"contract", "function", "data_flow", "identity"}
    BY DEF KindMap, ItemKinds
<1>4. KindMap[item.kind] \in Kinds
    BY <1>3, ProjectionAssumption
<1> HIDE DEF attrs
<1>5. PlainNode(Passive(item)[2])
    BY <1>1, <1>2, <1>4, MadePlain
<1>6. QED
    BY <1>2, <1>3, <1>5 DEF Node, RecordKinds

PassivePairs(items) == {Passive(n) : n \in Range(items)}

LEMMA ProjectReconAdds ==
    ASSUME NEW scan \in Snapshots, ProjectRecon(scan)
    PROVE  \E edges : Adds(PassivePairs(scan.items), edges)
<1> DEFINE pairs == PassivePairs(scan.items)
           grown == WithNodes(graph, pairs)
           edges == {e \in Marked(scan.links, "passive_recon") :
                        {e.source, e.target} \subseteq Ids(grown)}
<1>1. Call(WithEdges(grown, edges), FALSE)
    BY DEF ProjectRecon, PassivePairs
<1>2. NewNodes(pairs)
  <2>1. ASSUME NEW n \in Range(scan.items) PROVE n.kind \in ItemKinds
    <3>1. PICK i \in 1..Len(scan.items) : n = scan.items[i]
        BY ScanItems, LenProperties DEF Range
    <3>2. QED
        BY <3>1, ScanItems DEF PathItem
  <2>2. QED
      BY <2>1, PassiveNode DEF NewNodes, PassivePairs
<1>3. NewEdges(grown, edges)
    BY MarkedPlain, ScannedLinks DEF NewEdges
<1> HIDE DEF edges, pairs
<1>4. Adds(pairs, edges)
    BY <1>1, <1>2, <1>3 DEF Adds
<1>5. QED
    BY <1>4 DEF pairs

\* A node that names the file it was declared in came from project_repository_model.
Filed(n) ==
    "file" \in DOMAIN n.attrs =>
        "source_kind" \in DOMAIN n.attrs /\ n.attrs.source_kind = "repository_model"

\* What contracts and evidence add: nodes of no scanned path.
Unscanned(pairs) == \A p \in pairs : "path" \notin DOMAIN p[2].attrs /\ Filed(p[2])

\* The three shapes of attributes of project_repository_model.
LEMMA DeclaredAttrs ==
    ASSUME NEW attrs, NEW from, NEW x, NEW y,
           \/ attrs = [file |-> from, state_variables |-> <<"list", x>>,
                       source_kind |-> "repository_model"]
           \/ attrs = [file |-> from, contract |-> y,
                       source_kind |-> "repository_model"]
           \/ attrs = [file |-> from, line |-> y,
                       source_kind |-> "repository_model"]
    PROVE  /\ attrs = JsonAttrs(attrs)
           /\ "path" \notin DOMAIN attrs
           /\ "source_kind" \in DOMAIN attrs
           /\ attrs.source_kind = "repository_model"
<1>1. /\ "path" \notin DOMAIN attrs /\ "source_kind" \in DOMAIN attrs
      /\ attrs.source_kind = "repository_model"
    OBVIOUS
<1>2. attrs = [k \in DOMAIN attrs |-> attrs[k]]
    OBVIOUS
<1>3. DOMAIN attrs \cap SequenceFields \subseteq {"state_variables"}
    BY DEF SequenceFields
<1>4. "state_variables" \in DOMAIN attrs => attrs["state_variables"] = <<"list", x>>
    OBVIOUS
<1>5. \A k \in DOMAIN attrs \cap SequenceFields : attrs[k] = <<"list", attrs[k][2]>>
    BY <1>3, <1>4
<1>6. attrs = JsonAttrs(attrs)
    BY <1>2, <1>5, AttrsPlain
<1>7. QED
    BY <1>1, <1>6

LEMMA DeclaredNode ==
    ASSUME NEW kind \in {"contract", "state_variable", "function"}, NEW label,
           NEW attrs, attrs = JsonAttrs(attrs), "path" \notin DOMAIN attrs,
           "source_kind" \in DOMAIN attrs, attrs.source_kind = "repository_model"
    PROVE  LET n == Node(kind, label, attrs) IN
           /\ PlainNode(n) /\ n.kind \notin RecordKinds
           /\ "path" \notin DOMAIN n.attrs /\ Filed(n)
<1>1. kind \in Kinds
    BY ProjectionAssumption
<1>2. PlainNode(Node(kind, label, attrs))
    BY <1>1, MadePlain
<1>3. QED
    BY <1>2 DEF Node, Filed, RecordKinds

LEMMA ProjectRepositoryAdds ==
    ASSUME NEW c \in Contracts, ProjectRepository(c)
    PROVE  \E pairs, edges : Adds(pairs, edges) /\ Unscanned(pairs)
<1> DEFINE contract == <<"contract", c.file, c.name>>
           whole == [file |-> c.file, state_variables |-> <<"list", c.states>>,
                     source_kind |-> "repository_model"]
           declared == [file |-> c.file, contract |-> contract,
                        source_kind |-> "repository_model"]
           located(f) == [file |-> f.file, line |-> f.line,
                          source_kind |-> "repository_model"]
           first == <<contract, Node("contract", c.name, whole)>>
           State(s) == <<<<"state", c.file, c.name, s>>,
                         Node("state_variable", s, declared)>>
           Function(f) == <<<<"function", f.file, f.line, c.name, f.name>>,
                            Node("function", f.name, located(f))>>
           parts == {State(s) : s \in c.states} \cup {Function(f) : f \in c.functions}
           pairs == {first} \cup parts
           definedIn(p) == Edge(p[1], "defined_in", contract, <<>>)
           edges == {definedIn(p) : p \in parts}
           grown == WithNodes(graph, pairs)
           good(p) == /\ PlainNode(p[2]) /\ p[2].kind \notin RecordKinds
                      /\ "path" \notin DOMAIN p[2].attrs /\ Filed(p[2])
<1>1. Call(WithEdges(grown, edges), FALSE)
    BY DEF ProjectRepository
<1>2. good(first)
  <2>1. /\ whole = JsonAttrs(whole) /\ "path" \notin DOMAIN whole
        /\ "source_kind" \in DOMAIN whole
        /\ whole.source_kind = "repository_model"
      BY DeclaredAttrs
  <2> HIDE DEF whole
  <2>2. QED
      BY <2>1, DeclaredNode
<1>3. ASSUME NEW s PROVE good(State(s))
  <2>1. /\ declared = JsonAttrs(declared) /\ "path" \notin DOMAIN declared
        /\ "source_kind" \in DOMAIN declared
        /\ declared.source_kind = "repository_model"
      BY DeclaredAttrs
  <2> HIDE DEF declared
  <2>2. QED
      BY <2>1, DeclaredNode
<1>4. ASSUME NEW f PROVE good(Function(f))
  <2>1. /\ located(f) = JsonAttrs(located(f)) /\ "path" \notin DOMAIN located(f)
        /\ "source_kind" \in DOMAIN located(f)
        /\ located(f).source_kind = "repository_model"
      BY DeclaredAttrs
  <2> HIDE DEF located
  <2>2. QED
      BY <2>1, DeclaredNode
<1>5. first[1] = contract
    OBVIOUS
<1> HIDE DEF first, State, Function, good
<1>6. \A p \in pairs : good(p)
    BY <1>2, <1>3, <1>4
<1> HIDE DEF parts
<1>7. \A p \in pairs : p[1] \in Ids(grown)
    BY DEF WithNodes, Graph, Ids
<1>8. NewEdges(grown, edges)
  <2>1. ASSUME NEW p \in parts
        PROVE  /\ PlainEdge(definedIn(p)) /\ ~Binds(definedIn(p))
               /\ definedIn(p).source = p[1] /\ definedIn(p).target = contract
    <3>1. <<>> = JsonAttrs(<<>>)
        BY DEF JsonAttrs
    <3>2. PlainEdge(definedIn(p))
        BY <3>1, MadePlain
    <3>3. QED
        BY <3>2 DEF Edge, Binds
  <2>2. contract \in Ids(grown) /\ \A p \in parts : p[1] \in Ids(grown)
    <3> HIDE DEF grown
    <3>1. first \in pairs
        OBVIOUS
    <3>2. first[1] \in Ids(grown)
        BY <1>7, <3>1
    <3>3. QED
        BY <1>5, <1>7, <3>2
  <2> HIDE DEF grown, definedIn, contract
  <2>3. QED
      BY <2>1, <2>2 DEF NewEdges
<1>9. NewNodes(pairs) /\ Unscanned(pairs)
    BY <1>6 DEF good, NewNodes, Unscanned
<1> HIDE DEF pairs, edges
<1>10. Adds(pairs, edges)
    BY <1>1, <1>8, <1>9 DEF Adds
<1>11. QED
    BY <1>9, <1>10

LEMMA AddAstEvidenceAdds ==
    ASSUME NEW e \in Evidence, AddAstEvidence(e)
    PROVE  \E pairs, edges : Adds(pairs, edges) /\ Unscanned(pairs)
<1> DEFINE kind == AstTargetKind(e.relation)
           function == <<"function", e.contract, "ast", e.function>>
           target == <<kind, e.contract, "ast", e.target>>
           origin == [provenance |-> e.source]
           first == <<function, Node("function", e.function, origin)>>
           second == <<target, Node(kind, e.target, origin)>>
           pairs == {first, second}
           attrs == [provenance |-> e.source, ast_node_id |-> e.ast_node_id,
                     evidence_backed |-> TRUE, expression |-> e.expression,
                     source_location |-> <<"list", e.location>>]
           edge == Edge(function, e.relation, target, attrs)
           grown == WithNodes(graph, pairs)
<1>1. Call(WithEdges(grown, {edge}), FALSE)
    BY DEF AddAstEvidence, WithEvidence
<1>2. kind \in {"state_variable", "data_flow"}
    BY DEF AstTargetKind
<1>3. NewNodes(pairs) /\ Unscanned(pairs)
  <2>1. origin = JsonAttrs(origin)
      BY AttrsPlain DEF SequenceFields
  <2>2. "path" \notin DOMAIN origin /\ "file" \notin DOMAIN origin
      OBVIOUS
  <2> HIDE DEF origin, kind
  <2>3. PlainNode(first[2]) /\ PlainNode(second[2])
      BY <1>2, <2>1, MadePlain, ProjectionAssumption
  <2>4. /\ first[2].kind = "function" /\ second[2].kind = kind
        /\ first[2].attrs = origin /\ second[2].attrs = origin
      BY DEF Node
  <2> HIDE DEF first, second
  <2>5. QED
      BY <1>2, <2>2, <2>3, <2>4 DEF NewNodes, RecordKinds, Unscanned, Filed
<1>4. function \in Ids(grown) /\ target \in Ids(grown)
  <2>1. {p[1] : p \in pairs} \subseteq Ids(grown)
      BY DEF WithNodes, Graph, Ids
  <2>2. function \in {p[1] : p \in pairs} /\ target \in {p[1] : p \in pairs}
      OBVIOUS
  <2>3. QED
      BY <2>1, <2>2
<1>5. /\ PlainEdge(edge) /\ ~Binds(edge)
      /\ edge.source = function /\ edge.target = target
  <2>1. attrs = JsonAttrs(attrs)
    <3>1. attrs.source_location = <<"list", attrs.source_location[2]>>
        OBVIOUS
    <3>2. DOMAIN attrs \cap SequenceFields = {"source_location"}
        BY DEF SequenceFields
    <3>3. attrs = [k \in DOMAIN attrs |-> attrs[k]]
        OBVIOUS
    <3> HIDE DEF attrs
    <3>4. QED
        BY <3>1, <3>2, <3>3, AttrsPlain
  <2> HIDE DEF attrs
  <2>2. PlainEdge(edge)
      BY <2>1, MadePlain
  <2>3. QED
      BY <2>2, EvidenceAssumption DEF Edge, Binds
<1> HIDE DEF pairs, edge, grown, function, target
<1>6. NewEdges(grown, {edge})
    BY <1>4, <1>5 DEF NewEdges
<1>7. Adds(pairs, {edge})
    BY <1>1, <1>3, <1>6 DEF Adds, grown
<1>8. QED
    BY <1>3, <1>7

-----------------------------------------------------------------------------
(* The invariant: the graph and the saved graph are sound and plain, and    *)
(* the graph is valid too unless a caller touched a record; a file that is  *)
(* open for saving is empty                                                 *)

Kept(g) == Sound(g) /\ Plain(g)

IInv ==
    /\ Kept(graph)
    /\ file \notin {NoFile, Torn} => Kept(file)
    /\ ~touched => Valid(graph)
    /\ saving => file = Torn
    /\ saving \in BOOLEAN /\ touched \in BOOLEAN
    /\ calls \in 0..MaxCalls

\* The same of a next state, in terms of its variables' values.
LEMMA IInvNext ==
    ASSUME Kept(graph'),
           file' \notin {NoFile, Torn} => Kept(file'),
           ~touched' => Valid(graph'),
           saving' => file' = Torn,
           saving' \in BOOLEAN, touched' \in BOOLEAN,
           calls' \in 0..MaxCalls
    PROVE  IInv'
<1>1. Kept(graph)' /\ (file' \notin {NoFile, Torn} => Kept(file)')
    BY DEF Kept, Sound, Anchored, BindingKinds, BoundOnce, Ids, KindIn, Binds,
           Plain, PlainNode, PlainEdge, Node, Edge, Graph, JsonAttrs,
           SequenceFields
<1>2. ~touched' => Valid(graph)'
    BY DEF Valid, Sound, Anchored, BindingKinds, BoundOnce, Ids, KindIn, Binds,
           OfKind, FindingProblems, FindingFields, ResultProblems, ResultFields,
           RequestFields, Found
<1>3. QED
    BY <1>1, <1>2 DEF IInv

LEMMA BaseKept == Kept(Base) /\ Valid(Base)
<1>1. Valid(Base)
    BY LoadsIsValid, BaseAssumption
<1>2. QED
    BY <1>1, PlainBase DEF Kept, Valid

LEMMA IInvInit == Init => IInv
<1> SUFFICES ASSUME Init PROVE IInv
    OBVIOUS
<1>1. /\ graph = Base /\ file = NoFile /\ calls = 0
      /\ saving = FALSE /\ touched = FALSE
    BY DEF Init, GraphInit
<1>2. Kept(graph) /\ (~touched => Valid(graph))
    BY <1>1, BaseKept
<1>3. calls \in 0..MaxCalls
    BY <1>1, CallerAssumption
<1>4. QED
    BY <1>1, <1>2, <1>3 DEF IInv

\* A call that makes the graph g.
LEMMA CallKeeps ==
    ASSUME IInv, NEW g, NEW touches, Call(g, touches), touches \in BOOLEAN,
           Kept(g), Valid(graph) /\ ~touches => Valid(g)
    PROVE  IInv'
<1>1. /\ graph' = g /\ file' = file /\ saving' = saving
      /\ touched' = (touched \/ touches)
      /\ calls' = calls + 1 /\ calls < MaxCalls
    BY DEF Call
<1>2. calls' \in 0..MaxCalls
    BY <1>1, CallerAssumption DEF IInv
<1>3. touched' \in BOOLEAN /\ (~touched' => ~touched /\ ~touches)
    BY <1>1, Zenon DEF IInv
<1>4. Kept(graph') /\ (~touched' => Valid(graph'))
    BY <1>1, <1>3, Zenon DEF IInv
<1>5. /\ file' \notin {NoFile, Torn} => Kept(file')
      /\ saving' => file' = Torn
      /\ saving' \in BOOLEAN
    BY <1>1, Zenon DEF IInv
<1>6. QED
    BY <1>2, <1>3, <1>4, <1>5, IInvNext, Zenon

\* What the program itself adds.
LEMMA AddsKept ==
    ASSUME NEW g, NEW pairs, NEW edges, Kept(g), NewNodes(pairs),
           NewEdges(WithNodes(g, pairs), edges)
    PROVE  LET h == WithEdges(WithNodes(g, pairs), edges) IN
           Kept(h) /\ (Valid(g) => Valid(h))
<1> DEFINE grown == WithNodes(g, pairs)
           h == WithEdges(grown, edges)
<1>1. Kept(grown)
    BY WithNodesSound, WithNodesPlain DEF Kept, NewNodes
<1>2. Kept(h)
  <2> HIDE DEF grown
  <2>1. QED
      BY <1>1, PlainEdgesSound, WithEdgesPlain DEF Kept, NewEdges, grown
<1>3. /\ Ids(g) \subseteq Ids(h)
      /\ \A id \in Ids(g) : h.nodes[id] = g.nodes[id]
      /\ \A id \in Ids(h) \ Ids(g) :
            KindIn(h, id) = ((CHOOSE p \in pairs : p[1] = id)[2]).kind
      /\ \A id \in Ids(h) \ Ids(g) : \E p \in pairs : p[1] = id
    BY DEF WithEdges, WithNodes, Graph, Ids, KindIn
<1>4. \A id \in Ids(h) \ Ids(g) : KindIn(h, id) \in Kinds \ RecordKinds
  <2> SUFFICES ASSUME NEW id \in Ids(h) \ Ids(g)
               PROVE  KindIn(h, id) \in Kinds \ RecordKinds
      OBVIOUS
  <2> DEFINE p == CHOOSE p \in pairs : p[1] = id
  <2>1. p \in pairs /\ KindIn(h, id) = p[2].kind
      BY <1>3
  <2>2. QED
      BY <2>1 DEF NewNodes, PlainNode
<1> HIDE DEF h
<1>5. Valid(g) => Valid(h)
    BY <1>2, <1>3, <1>4, ValidGrows DEF Kept
<1>6. QED
    BY <1>2, <1>5, Zenon DEF h, grown

LEMMA AddsKeeps ==
    ASSUME IInv, NEW pairs, NEW edges, Adds(pairs, edges)
    PROVE  IInv'
<1> DEFINE h == WithEdges(WithNodes(graph, pairs), edges)
<1>1. Kept(h) /\ (Valid(graph) => Valid(h))
    BY AddsKept DEF IInv, Adds
<1>2. Call(h, FALSE)
    BY DEF Adds
<1> HIDE DEF h
<1>3. QED
    BY <1>1, <1>2, CallKeeps

LEMMA AddNodeKeeps ==
    ASSUME IInv, NEW p \in ClientNodes, AddNode(p)
    PROVE  IInv'
<1> DEFINE h == WithNodes(graph, {p})
           touches == p[2].kind \in RecordKinds
<1>1. CanAdd(graph, p[1], p[2]) /\ Call(h, touches) /\ touches \in BOOLEAN
    BY DEF AddNode
<1>2. PlainNode(p[2])
    BY <1>1, CallerAssumption DEF CanAdd, PlainNode
<1>3. Kept(h)
    BY <1>2, WithNodesSound, WithNodesPlain DEF IInv, Kept
<1>4. ASSUME Valid(graph), ~touches PROVE Valid(h)
  <2>1. NewNodes({p})
      BY <1>2, <1>4 DEF NewNodes
  <2>2. NewEdges(h, {}) /\ WithEdges(h, {}) = h
      BY DEF NewEdges, WithNodes, WithEdges, Graph
  <2>3. QED
      BY <1>4, <2>1, <2>2, AddsKept DEF IInv
<1> HIDE DEF h, touches
<1>5. QED
    BY <1>1, <1>3, <1>4, CallKeeps

LEMMA UpdateKeeps ==
    ASSUME IInv, NEW u \in ClientUpdates, UpdateNodeAttributes(u)
    PROVE  IInv'
<1> DEFINE h == WithAttrs(graph, u[1], u[2])
<1>1. u[1] \in Ids(graph) /\ Call(h, TRUE)
    BY DEF UpdateNodeAttributes
<1>2. Kept(h)
    BY <1>1, CallerAssumption, WithAttrsSound, WithAttrsPlain DEF IInv, Kept
<1> HIDE DEF h
<1>3. QED
    BY <1>1, <1>2, CallKeeps

LEMMA AddEdgeKeeps ==
    ASSUME IInv, NEW e \in ClientEdges, AddEdge(e)
    PROVE  IInv'
<1> DEFINE h == WithEdges(graph, {e})
<1>1. CanConnect(graph, e) /\ Call(h, FALSE)
    BY DEF AddEdge
<1>2. PlainEdge(e)
    BY CallerAssumption DEF PlainEdge
<1>3. Kept(h)
    BY <1>1, <1>2, ConnectedSound, WithEdgesPlain DEF IInv, Kept
<1>4. Ids(h) = Ids(graph) /\ h.nodes = graph.nodes
    BY DEF WithEdges, Graph, Ids
<1> HIDE DEF h
<1>5. Valid(graph) => Valid(h)
    BY <1>3, <1>4, ValidGrows DEF Kept
<1>6. QED
    BY <1>1, <1>3, <1>5, CallKeeps

\* Saving, loading and dying.
LEMMA FileStepKeeps ==
    ASSUME IInv, SaveOpens \/ SaveWrites \/ Load \/ Crash
    PROVE  IInv'
<1>1. CASE SaveOpens
  <2>1. /\ graph' = graph /\ file' = Torn /\ touched' = touched
        /\ calls' = calls /\ saving' = TRUE
      BY <1>1 DEF SaveOpens
  <2>2. QED
      BY <2>1, IInvNext DEF IInv
<1>2. CASE SaveWrites
  <2>1. /\ graph' = graph /\ file' = Json(graph) /\ touched' = touched
        /\ calls' = calls /\ saving' = FALSE
      BY <1>2 DEF SaveWrites
  <2>2. Json(graph) = graph
      BY PlainRoundTrip DEF IInv, Kept
  <2>3. Kept(file')
      BY <2>1, <2>2 DEF IInv
  <2>4. QED
      BY <2>1, <2>3, IInvNext DEF IInv
<1>3. CASE Load
  <2>1. /\ graph' = file /\ file' = file /\ touched' = FALSE
        /\ calls' = calls /\ saving' = saving
        /\ file \notin {NoFile, Torn} /\ Loads(file)
      BY <1>3 DEF Load
  <2>2. Valid(graph')
      BY <2>1, LoadsIsValid
  <2>3. QED
      BY <2>1, <2>2, IInvNext DEF IInv
<1>4. CASE Crash
  <2>1. /\ graph' = Base /\ file' = file /\ touched' = FALSE
        /\ calls' = calls /\ saving' = FALSE
      BY <1>4 DEF Crash
  <2>2. QED
      BY <2>1, BaseKept, IInvNext DEF IInv
<1>5. QED
    BY <1>1, <1>2, <1>3, <1>4

LEMMA IInvStep == IInv /\ [Next]_vars => IInv'
<1> SUFFICES ASSUME IInv, [Next]_vars PROVE IInv'
    OBVIOUS
<1>1. ASSUME NEW scan \in Snapshots, ToCanonical(scan) PROVE IInv'
    BY <1>1, ToCanonicalAdds, AddsKeeps
<1>2. ASSUME NEW scan \in Snapshots, ProjectRecon(scan) PROVE IInv'
    BY <1>2, ProjectReconAdds, AddsKeeps
<1>3. ASSUME NEW c \in Contracts, ProjectRepository(c) PROVE IInv'
    BY <1>3, ProjectRepositoryAdds, AddsKeeps
<1>4. ASSUME NEW e \in Evidence, AddAstEvidence(e) PROVE IInv'
    BY <1>4, AddAstEvidenceAdds, AddsKeeps
<1>5. CASE ClientStep
    BY <1>5, AddNodeKeeps, UpdateKeeps, AddEdgeKeeps, FileStepKeeps
       DEF ClientStep, GraphNext
<1>6. CASE UNCHANGED vars
  <2>1. /\ graph' = graph /\ file' = file /\ touched' = touched
        /\ calls' = calls /\ saving' = saving
      BY <1>6 DEF vars, graphVars
  <2>2. QED
      BY <2>1, IInvNext DEF IInv
<1>7. QED
    BY <1>1, <1>2, <1>3, <1>4, <1>5, <1>6 DEF Next

LEMMA IInvAlways == Spec => []IInv
BY IInvInit, IInvStep, PTL DEF Spec

-----------------------------------------------------------------------------

\* Every node has a kind of the model, a save in progress has emptied the file.
THEOREM GraphTyped == Spec => []GraphTypeOK
<1>1. IInv => GraphTypeOK
    BY DEF IInv, GraphTypeOK, Kept, Plain, PlainNode, KindIn
<1>2. QED
    BY IInvAlways, <1>1, PTL

\* The model in memory and the model on disk always pass what validate asks of
\* their edges: load never meets a dangling or doubled binding of its own making.
THEOREM StructureAlwaysSound == Spec => []StructureSound
<1>1. IInv => StructureSound
    BY SoundIsValid DEF IInv, Kept, StructureSound
<1>2. QED
    BY IInvAlways, <1>1, PTL

\* Whatever the program and its callers put into the model reads back from the
\* file as it was: no node is met again as a different one.
THEOREM SavedReadsBack == Spec => []RoundTrip
<1>1. IInv => RoundTrip
    BY PlainRoundTrip DEF IInv, Kept, RoundTrip
<1>2. QED
    BY IInvAlways, <1>1, PTL

\* As long as no caller wrote a record, the model would load again: projections,
\* evidence and edges, in any order and broken off anywhere, never cost a reload.
THEOREM OnlyCallersInvalidate == Spec => []OnlyRecordsInvalidate
<1>1. IInv => OnlyRecordsInvalidate
    BY LoadsIsValid DEF IInv, OnlyRecordsInvalidate, Loads
<1>2. QED
    BY IInvAlways, <1>1, PTL

-----------------------------------------------------------------------------
(* Candidates, in graphs that only gain nodes and edges *)

Grows(g, h) ==
    /\ Ids(g) \subseteq Ids(h)
    /\ \A id \in Ids(g) : KindIn(h, id) = KindIn(g, id)
    /\ g.edges \subseteq h.edges

LEMMA GroundedGrows ==
    ASSUME NEW g, NEW h, Grows(g, h)
    PROVE  Grounded(g) \subseteq Grounded(h)
<1>1. Backed(g) \subseteq Backed(h)
    BY DEF Grows, Backed
<1>2. \A relations : BackedBy(g, relations) \subseteq BackedBy(h, relations)
    BY <1>1 DEF BackedBy
<1>3. OfKind(g, "function") \subseteq OfKind(h, "function")
    BY DEF Grows, OfKind
<1>4. \A first, second : SameFunction(g, first, second)
                             \subseteq SameFunction(h, first, second)
    BY <1>2, <1>3 DEF SameFunction
<1>5. EdgeCandidates(g) \subseteq EdgeCandidates(h)
    BY <1>2 DEF EdgeCandidates
<1>6. DependencyCandidates(g) \subseteq DependencyCandidates(h)
    BY <1>4 DEF DependencyCandidates
<1>7. ObligationCandidates(g) \subseteq ObligationCandidates(h)
    BY <1>4 DEF ObligationCandidates
<1>8. QED
    BY <1>5, <1>6, <1>7 DEF Grounded

LEMMA CrossFunctionGrows ==
    ASSUME NEW g, NEW h, Grows(g, h), NEW c \in CrossFunctionCandidates(g)
    PROVE  \E d \in CrossFunctionCandidates(h) :
               c.id[2] = d.id[2] /\ c.id[3] \subseteq d.id[3]
<1> DEFINE Updates(G, state) == {e \in BackedBy(G, {"transition_expression"}) :
                                    e.target = state}
           Updaters(G, state) == {e.source : e \in Updates(G, state)}
           Id(G, state) == <<<<"cross_function">>, state, Updaters(G, state)>>
           Of(G, state) == Candidate(Id(G, state), Updates(G, state))
<1>1. PICK s \in Ids(g) : /\ \E f, k \in Updaters(g, s) : f # k
                          /\ c = Of(g, s)
    BY DEF CrossFunctionCandidates
<1>2. Updates(g, s) \subseteq Updates(h, s)
    BY DEF Grows, BackedBy, Backed
<1>3. Updaters(g, s) \subseteq Updaters(h, s)
    BY <1>2
<1>4. s \in Ids(h) /\ \E f, k \in Updaters(h, s) : f # k
    BY <1>1, <1>3 DEF Grows
<1>5. Of(h, s) \in CrossFunctionCandidates(h)
    BY <1>4 DEF CrossFunctionCandidates
<1>6. /\ c.id[2] = s /\ c.id[3] = Updaters(g, s)
      /\ Of(h, s).id[2] = s /\ Of(h, s).id[3] = Updaters(h, s)
  <2> HIDE DEF Updates, Updaters
  <2>1. QED
      BY <1>1 DEF Candidate
<1> HIDE DEF Updaters, Of
<1>7. QED
    BY <1>3, <1>5, <1>6

\* Every operator that builds a graph only adds to it.
LEMMA BuildersGrow ==
    ASSUME NEW g
    PROVE  /\ \A pairs, edges : /\ Grows(g, WithNodes(g, pairs))
                                /\ Grows(g, WithEdges(g, edges))
                                /\ Grows(g, WithEdges(WithNodes(g, pairs), edges))
           /\ \A id, attrs : Grows(g, WithAttrs(g, id, attrs))
<1>1. ASSUME NEW pairs, NEW edges
      PROVE  /\ Grows(g, WithNodes(g, pairs))
             /\ Grows(g, WithEdges(g, edges))
             /\ Grows(g, WithEdges(WithNodes(g, pairs), edges))
    BY DEF Grows, WithNodes, WithEdges, Graph, Ids, KindIn
<1>2. ASSUME NEW id, NEW attrs
      PROVE  Grows(g, WithAttrs(g, id, attrs))
  <2> DEFINE h == WithAttrs(g, id, attrs)
  <2>1. Ids(h) = Ids(g) /\ h.edges = g.edges
      BY DEF WithAttrs, Graph, Ids
  <2>2. \A i \in Ids(g) : KindIn(h, i) = KindIn(g, i)
      BY DEF WithAttrs, Graph, Ids, KindIn, Node
  <2> HIDE DEF h
  <2>3. Grows(g, h)
      BY <2>1, <2>2 DEF Grows
  <2>4. QED
      BY <2>3 DEF h
<1>3. QED
    BY <1>1, <1>2

LEMMA CallGrows ==
    ASSUME Next, calls' # calls
    PROVE  Grows(graph, graph')
<1>1. \A g, touches : Call(g, touches) => graph' = g
    BY DEF Call
<1>2. ASSUME NEW scan \in Snapshots, ToCanonical(scan) PROVE Grows(graph, graph')
  <2>1. PICK A \in SUBSET (1..Len(scan.items)) : \E edges :
            Adds(CanonicalPairs(scan.items, A), edges)
      BY <1>2, ToCanonicalAdds
  <2>2. QED
      BY <1>1, <2>1, BuildersGrow DEF Adds
<1>3. ASSUME NEW scan \in Snapshots, ProjectRecon(scan) PROVE Grows(graph, graph')
    BY <1>1, <1>3, ProjectReconAdds, BuildersGrow DEF Adds
<1>4. ASSUME NEW c \in Contracts, ProjectRepository(c) PROVE Grows(graph, graph')
    BY <1>1, <1>4, ProjectRepositoryAdds, BuildersGrow DEF Adds
<1>5. ASSUME NEW e \in Evidence, AddAstEvidence(e) PROVE Grows(graph, graph')
    BY <1>1, <1>5, AddAstEvidenceAdds, BuildersGrow DEF Adds
<1>6. CASE ClientStep
  <2>1. ASSUME NEW p, AddNode(p) PROVE Grows(graph, graph')
      BY <1>1, <2>1, BuildersGrow DEF AddNode
  <2>2. ASSUME NEW u, UpdateNodeAttributes(u) PROVE Grows(graph, graph')
      BY <1>1, <2>2, BuildersGrow DEF UpdateNodeAttributes
  <2>3. ASSUME NEW e, AddEdge(e) PROVE Grows(graph, graph')
      BY <1>1, <2>3, BuildersGrow DEF AddEdge
  <2>4. ~(SaveOpens \/ SaveWrites \/ Load \/ Crash)
      BY DEF SaveOpens, SaveWrites, Load, Crash
  <2>5. QED
      BY <1>6, <2>1, <2>2, <2>3, <2>4 DEF ClientStep, GraphNext
<1>7. QED
    BY <1>2, <1>3, <1>4, <1>5, <1>6 DEF Next

\* However discovery goes on in one process, no invariant candidate is lost or
\* changes its identity; that of a state updated by several functions at most
\* names more of them.
THEOREM DiscoveryKeepsCandidates == Spec => CandidatesPersist
<1> DEFINE Persist(g, h) ==
               /\ {c.id : c \in Grounded(g)} \subseteq {c.id : c \in Grounded(h)}
               /\ \A c \in CrossFunctionCandidates(g) :
                     \E d \in CrossFunctionCandidates(h) :
                         c.id[2] = d.id[2] /\ c.id[3] \subseteq d.id[3]
<1>1. ASSUME Next, calls' # calls PROVE Persist(graph, graph')
    BY <1>1, CallGrows, GroundedGrows, CrossFunctionGrows
<1>2. Grounded(graph)' = Grounded(graph')
    BY DEF Grounded, EdgeCandidates, DependencyCandidates, ObligationCandidates,
           SameFunction, BackedBy, Backed, HasProvenance, HasExpression,
           Candidate, OfKind, KindIn, Ids
<1>3. CrossFunctionCandidates(graph)' = CrossFunctionCandidates(graph')
    BY DEF CrossFunctionCandidates, BackedBy, Backed, Candidate, Ids
<1>4. [Next]_vars =>
          [calls' # calls =>
              /\ {c.id : c \in Grounded(graph)}
                     \subseteq {c.id : c \in Grounded(graph)'}
              /\ \A c \in CrossFunctionCandidates(graph) :
                    \E d \in CrossFunctionCandidates(graph)' :
                        c.id[2] = d.id[2] /\ c.id[3] \subseteq d.id[3]]_graphVars
    BY <1>1, <1>2, <1>3 DEF vars, graphVars
<1>5. QED
    BY <1>4, PTL DEF Spec, CandidatesPersist

-----------------------------------------------------------------------------
(* What the graph and the file hold of each scanned path *)

FileId(path) == <<"file", path, "">>

FromScan(g, id) == "path" \in DOMAIN g.nodes[id].attrs
PathOf(g, id) == g.nodes[id].attrs.path
ScopeOf(g, id) == g.nodes[id].attrs.scope

\* Only the file node is there of a path that no scan opened.
Unread(g, open) ==
    \A id \in Ids(g) :
        FromScan(g, id) => id = FileId(PathOf(g, id)) \/ PathOf(g, id) \in open

\* The file node of a path comes with the first node of the path, and its scope
\* is the scope of them all.
FileRules(g, mixed) ==
    \A id \in Ids(g) :
        FromScan(g, id) /\ PathOf(g, id) \notin mixed =>
            LET f == FileId(PathOf(g, id)) IN
            /\ f \in Ids(g) /\ FromScan(g, f) /\ PathOf(g, f) = PathOf(g, id)
            /\ "scope" \in DOMAIN g.nodes[id].attrs
            /\ ScopeOf(g, id) = ScopeOf(g, f)

Scoped(g, open, mixed) == Unread(g, open) /\ FileRules(g, mixed)

ScopeInv ==
    /\ Scoped(graph, opened, passive)
    /\ file \notin {NoFile, Torn} => Scoped(file, opened, passive)

\* The same of a next state, in terms of its variables' values.
LEMMA ScopeInvNext ==
    ASSUME Scoped(graph', opened', passive'),
           file' \notin {NoFile, Torn} => Scoped(file', opened', passive')
    PROVE  ScopeInv'
BY DEF ScopeInv, Scoped, Unread, FileRules, FromScan, PathOf, ScopeOf, FileId, Ids

\* More paths opened, or met by project_recon_model.
LEMMA ScopedLater ==
    ASSUME NEW g, NEW open, NEW mixed, Scoped(g, open, mixed),
           NEW open2, NEW mixed2, open \subseteq open2, mixed \subseteq mixed2
    PROVE  Scoped(g, open2, mixed2)
BY DEF Scoped, Unread, FileRules

\* A node that WithNodes adds is one of those it is given.
LEMMA AddedNode ==
    ASSUME NEW g, NEW pairs, NEW id \in Ids(WithNodes(g, pairs)), id \notin Ids(g)
    PROVE  \E p \in pairs : p[1] = id /\ WithNodes(g, pairs).nodes[id] = p[2]
<1>1. /\ \E p \in pairs : p[1] = id
      /\ WithNodes(g, pairs).nodes[id] = (CHOOSE p \in pairs : p[1] = id)[2]
    BY DEF WithNodes, Graph, Ids
<1>2. QED
    BY <1>1

\* WithNodes and WithEdges leave the nodes that are there alone.
LEMMA NodesStay ==
    ASSUME NEW g, NEW pairs, NEW edges
    PROVE  LET h == WithEdges(WithNodes(g, pairs), edges) IN
           /\ h.nodes = WithNodes(g, pairs).nodes
           /\ Ids(h) = Ids(WithNodes(g, pairs))
           /\ Ids(h) = Ids(g) \cup {p[1] : p \in pairs}
           /\ \A id \in Ids(g) : h.nodes[id] = g.nodes[id]
BY DEF WithNodes, WithEdges, Graph, Ids

\* Nodes of no path change nothing here.
LEMMA ScopedGrows ==
    ASSUME NEW g, NEW h, NEW open, NEW mixed, Scoped(g, open, mixed),
           Ids(g) \subseteq Ids(h),
           \A id \in Ids(g) : h.nodes[id] = g.nodes[id],
           \A id \in Ids(h) \ Ids(g) : "path" \notin DOMAIN h.nodes[id].attrs
    PROVE  Scoped(h, open, mixed)
BY DEF Scoped, Unread, FileRules, FromScan, PathOf, ScopeOf

LEMMA PathlessKeep ==
    ASSUME NEW g, NEW open, NEW mixed, Scoped(g, open, mixed),
           NEW pairs, NEW edges, \A p \in pairs : "path" \notin DOMAIN p[2].attrs
    PROVE  Scoped(WithEdges(WithNodes(g, pairs), edges), open, mixed)
<1> DEFINE h == WithEdges(WithNodes(g, pairs), edges)
<1>1. /\ h.nodes = WithNodes(g, pairs).nodes
      /\ Ids(h) = Ids(WithNodes(g, pairs))
      /\ Ids(g) \subseteq Ids(h)
      /\ \A id \in Ids(g) : h.nodes[id] = g.nodes[id]
    BY NodesStay
<1>2. \A id \in Ids(h) \ Ids(g) : "path" \notin DOMAIN h.nodes[id].attrs
    BY <1>1, AddedNode
<1> HIDE DEF h
<1>3. Scoped(h, open, mixed)
    BY <1>1, <1>2, ScopedGrows
<1>4. QED
    BY <1>3 DEF h

\* Attributes written over a node, path and scope not among them.
LEMMA UpdateKeepsScoped ==
    ASSUME NEW g, NEW open, NEW mixed, Scoped(g, open, mixed), Plain(g),
           NEW id \in Ids(g), NEW attrs, {"path", "scope"} \cap DOMAIN attrs = {}
    PROVE  Scoped(WithAttrs(g, id, attrs), open, mixed)
<1> DEFINE h == WithAttrs(g, id, attrs)
           old == g.nodes[id].attrs
           u == Updated(old, attrs)
<1>1. /\ Ids(h) = Ids(g)
      /\ h.nodes[id].attrs = u
      /\ \A i \in Ids(g) : i # id => h.nodes[i] = g.nodes[i]
  <2> DEFINE m == Node(g.nodes[id].kind, g.nodes[id].label, u)
  <2>1. h = Graph([g.nodes EXCEPT ![id] = m], g.edges)
      BY DEF WithAttrs
  <2>2. m.attrs = u
      BY DEF Node
  <2> HIDE DEF m
  <2>3. QED
      BY <2>1, <2>2 DEF Graph, Ids
<1>2. /\ \A k \in {"path", "scope"} : k \in DOMAIN u <=> k \in DOMAIN old
      /\ \A k \in {"path", "scope"} : k \in DOMAIN old => u[k] = old[k]
    BY DEF Updated
<1> HIDE DEF h, u
<1>3. ASSUME NEW i \in Ids(g)
      PROVE  /\ FromScan(h, i) <=> FromScan(g, i)
             /\ FromScan(g, i) => PathOf(h, i) = PathOf(g, i)
             /\ "scope" \in DOMAIN h.nodes[i].attrs
                    <=> "scope" \in DOMAIN g.nodes[i].attrs
             /\ "scope" \in DOMAIN g.nodes[i].attrs
                    => ScopeOf(h, i) = ScopeOf(g, i)
  <2>1. CASE i = id
    <3>1. h.nodes[i].attrs = u /\ g.nodes[i].attrs = old
        BY <1>1, <2>1
    <3> HIDE DEF old
    <3>2. /\ "path" \in DOMAIN old => u.path = old.path
          /\ "scope" \in DOMAIN old => u.scope = old.scope
        BY <1>2
    <3>3. QED
        BY <1>2, <3>1, <3>2 DEF FromScan, PathOf, ScopeOf
  <2>2. CASE i # id
      BY <1>1, <2>2 DEF FromScan, PathOf, ScopeOf
  <2>3. QED
      BY <2>1, <2>2
<1>4. Unread(h, open)
    BY <1>1, <1>3 DEF Scoped, Unread
<1>5. FileRules(h, mixed)
  <2> SUFFICES ASSUME NEW i \in Ids(h), FromScan(h, i), PathOf(h, i) \notin mixed
               PROVE  LET f == FileId(PathOf(h, i)) IN
                      /\ f \in Ids(h) /\ FromScan(h, f)
                      /\ PathOf(h, f) = PathOf(h, i)
                      /\ "scope" \in DOMAIN h.nodes[i].attrs
                      /\ ScopeOf(h, i) = ScopeOf(h, f)
      BY DEF FileRules
  <2> DEFINE f == FileId(PathOf(g, i))
  <2>1. i \in Ids(g) /\ FromScan(g, i) /\ PathOf(h, i) = PathOf(g, i)
      BY <1>1, <1>3
  <2>2. /\ f \in Ids(g) /\ FromScan(g, f) /\ PathOf(g, f) = PathOf(g, i)
        /\ "scope" \in DOMAIN g.nodes[i].attrs
        /\ ScopeOf(g, i) = ScopeOf(g, f)
      BY <2>1 DEF Scoped, FileRules
  <2>3. "scope" \in DOMAIN g.nodes[f].attrs
    <3>1. PathOf(g, f) \notin mixed
        BY <2>1, <2>2
    <3>2. QED
        BY <2>2, <3>1 DEF Scoped, FileRules
  <2>4. QED
      BY <1>1, <1>3, <2>1, <2>2, <2>3
<1>6. QED
    BY <1>4, <1>5 DEF Scoped, h

LEMMA FileIdPath ==
    ASSUME NEW path, NEW kind, NEW other, NEW name,
           FileId(path) = <<kind, other, name>>
    PROVE  other = path
BY DEF FileId

LEMMA CanonicalFields ==
    ASSUME NEW item, NEW n, n = Canonical(item)[2]
    PROVE  /\ Canonical(item)[1] = item.id
           /\ {"path", "scope"} \subseteq DOMAIN n.attrs
           /\ n.attrs.path = item.path /\ n.attrs.scope = item.scope
BY DEF Canonical, Node

LEMMA PassiveFields ==
    ASSUME NEW item, NEW n, n = Passive(item)[2]
    PROVE  /\ Passive(item)[1] = item.id
           /\ "path" \in DOMAIN n.attrs /\ n.attrs.path = item.path
BY DEF Passive, Node

\* The paths that a scan opens, and those that it meets.
LEMMA ScanOpens ==
    ASSUME NEW scan \in Snapshots, Opens(scan), NEW i \in 1..Len(scan.items)
    PROVE  LET item == scan.items[i] IN
           /\ item.id = FileId(item.path) \/ item.path \in opened'
           /\ item.path \in {n.path : n \in Range(scan.items)}
<1>1. scan.items[i] \in Range(scan.items)
    BY ScanItems, LenProperties DEF Range
<1>2. PathItem(scan.items[i], scan.items[i].path, scan.items[i].scope)
    BY ScanItems
<1>3. CASE scan.items[i].scope = "OUT_OF_SCOPE"
    BY <1>1, <1>2, <1>3 DEF PathItem, FileId
<1>4. CASE scan.items[i].scope # "OUT_OF_SCOPE"
    BY <1>1, <1>4 DEF Opens
<1>5. QED
    BY <1>3, <1>4

\* A projection, broken off or not, gives a path its file node first, under the
\* one scope that the scan found for the path.
LEMMA ToCanonicalScoped ==
    ASSUME Scoped(graph, opened, passive),
           NEW scan \in Snapshots, ToCanonical(scan)
    PROVE  Scoped(graph', opened', passive')
<1> DEFINE items == scan.items
<1>0. PICK A \in SUBSET (1..Len(items)) : \E edges :
          AcceptedItems(items, A) /\ Adds(CanonicalPairs(items, A), edges)
    BY ToCanonicalAdds
<1>1. PICK edges :
          AcceptedItems(items, A) /\ Adds(CanonicalPairs(items, A), edges)
    BY <1>0
<1> DEFINE pairs == CanonicalPairs(items, A)
           h == WithEdges(WithNodes(graph, pairs), edges)
<1>2. graph' = h /\ Opens(scan) /\ passive' = passive /\ opened \subseteq opened'
    BY <1>1 DEF Adds, Call, ToCanonical, Opens
<1>3. /\ Ids(h) = Ids(graph) \cup {p[1] : p \in pairs}
      /\ \A id \in Ids(graph) : h.nodes[id] = graph.nodes[id]
      /\ h.nodes = WithNodes(graph, pairs).nodes
      /\ Ids(h) = Ids(WithNodes(graph, pairs))
    BY NodesStay
<1>4. ASSUME NEW id \in Ids(h), id \notin Ids(graph)
      PROVE  \E i \in A : items[i].id = id /\ h.nodes[id] = Canonical(items[i])[2]
  <2>1. PICK p \in pairs : p[1] = id /\ h.nodes[id] = p[2]
      BY <1>3, <1>4, AddedNode
  <2>2. PICK i \in A : p = Canonical(items[i])
      BY <2>1 DEF CanonicalPairs
  <2>3. QED
      BY <2>1, <2>2, CanonicalFields
<1>5. \A i \in A : items[i].id \in Ids(h)
  <2>1. ASSUME NEW i \in A PROVE items[i].id \in Ids(h)
    <3>1. Canonical(items[i]) \in pairs
        BY DEF CanonicalPairs
    <3>2. Canonical(items[i])[1] = items[i].id
        BY CanonicalFields
    <3> HIDE DEF pairs, h
    <3>3. QED
        BY <1>3, <3>1, <3>2
  <2>2. QED
      BY <2>1
<1> HIDE DEF h, pairs
<1>6. \A i \in A : /\ PathItem(items[i], items[i].path, items[i].scope)
                   /\ FileFirst(items, i)
    BY ScanItems
<1>7. \A i, k \in A : items[i].path = items[k].path
                          => items[i].scope = items[k].scope
    BY ScanItems
\* Whatever node the file of an added item has in h, it has the item's path and
\* scope.
<1>8. ASSUME NEW i \in A
      PROVE  LET f == FileId(items[i].path) IN
             /\ f \in Ids(h) /\ FromScan(h, f)
             /\ PathOf(h, f) = items[i].path /\ ScopeOf(h, f) = items[i].scope
  <2> DEFINE f == FileId(items[i].path)
  <2>1. PICK j \in 1..i : items[j].path = items[i].path /\ items[j].id = f
      BY <1>6 DEF FileFirst, FileId
  <2>2. j \in A /\ items[j].scope = items[i].scope
      BY <1>1, <1>7, <2>1 DEF AcceptedItems
  <2>3. f \in Ids(h)
      BY <1>5, <2>1, <2>2
  <2>4. PICK m \in A : /\ items[m].path = items[i].path
                       /\ h.nodes[f] = Canonical(items[m])[2]
    <3>1. CASE f \in Ids(graph)
      <4>1. CanAdd(graph, Canonical(items[j])[1], Canonical(items[j])[2])
          BY <1>1, <2>2 DEF AcceptedItems
      <4>2. Canonical(items[j])[1] = f
          BY <2>1, CanonicalFields
      <4>3. graph.nodes[f] = Canonical(items[j])[2]
          BY <3>1, <4>1, <4>2 DEF CanAdd
      <4>4. QED
          BY <1>3, <2>1, <2>2, <3>1, <4>3
    <3>2. CASE f \notin Ids(graph)
      <4>1. PICK m \in A : items[m].id = f /\ h.nodes[f] = Canonical(items[m])[2]
          BY <1>4, <2>3, <3>2
      <4>2. f = <<items[m].kind, items[m].path, items[m].id[3]>>
          BY <1>6, <4>1 DEF PathItem
      <4>3. items[m].path = items[i].path
          BY <4>2, FileIdPath
      <4>4. QED
          BY <4>1, <4>3
    <3>3. QED
        BY <3>1, <3>2
  <2>5. items[m].scope = items[i].scope
      BY <1>7, <2>4
  <2> HIDE DEF f
  <2>6. /\ "path" \in DOMAIN h.nodes[f].attrs
        /\ h.nodes[f].attrs.path = items[m].path
        /\ h.nodes[f].attrs.scope = items[m].scope
      BY <2>4, CanonicalFields
  <2>7. FromScan(h, f) /\ PathOf(h, f) = items[i].path /\ ScopeOf(h, f) = items[i].scope
      BY <2>4, <2>5, <2>6 DEF FromScan, PathOf, ScopeOf
  <2>8. QED
      BY <2>3, <2>7 DEF f
<1>9. ASSUME NEW id \in Ids(graph)
      PROVE  /\ FromScan(h, id) = FromScan(graph, id)
             /\ PathOf(h, id) = PathOf(graph, id)
             /\ ScopeOf(h, id) = ScopeOf(graph, id)
             /\ h.nodes[id] = graph.nodes[id]
    BY <1>3 DEF FromScan, PathOf, ScopeOf
<1>10. ASSUME NEW id \in Ids(h), id \notin Ids(graph)
       PROVE  \E i \in A : /\ items[i].id = id
                           /\ PathOf(h, id) = items[i].path
                           /\ ScopeOf(h, id) = items[i].scope
                           /\ "scope" \in DOMAIN h.nodes[id].attrs
  <2>1. PICK i \in A : items[i].id = id /\ h.nodes[id] = Canonical(items[i])[2]
      BY <1>4, <1>10
  <2>2. QED
      BY <2>1, CanonicalFields DEF PathOf, ScopeOf
<1>11. Unread(h, opened')
  <2> SUFFICES ASSUME NEW id \in Ids(h), FromScan(h, id)
               PROVE  id = FileId(PathOf(h, id)) \/ PathOf(h, id) \in opened'
      BY DEF Unread
  <2>1. CASE id \in Ids(graph)
      BY <1>2, <1>9, <2>1 DEF Scoped, Unread
  <2>2. CASE id \notin Ids(graph)
    <3>1. PICK i \in A : items[i].id = id /\ PathOf(h, id) = items[i].path
        BY <1>10, <2>2
    <3>2. items[i].id = FileId(items[i].path) \/ items[i].path \in opened'
        BY <1>2, ScanOpens
    <3>3. QED
        BY <3>1, <3>2
  <2>3. QED
      BY <2>1, <2>2
<1>12. FileRules(h, passive)
  <2> SUFFICES ASSUME NEW id \in Ids(h), FromScan(h, id), PathOf(h, id) \notin passive
               PROVE  LET f == FileId(PathOf(h, id)) IN
                      /\ f \in Ids(h) /\ FromScan(h, f)
                      /\ PathOf(h, f) = PathOf(h, id)
                      /\ "scope" \in DOMAIN h.nodes[id].attrs
                      /\ ScopeOf(h, id) = ScopeOf(h, f)
      BY DEF FileRules
  <2>1. CASE id \in Ids(graph)
    <3> DEFINE f == FileId(PathOf(graph, id))
    <3>1. /\ f \in Ids(graph) /\ FromScan(graph, f)
          /\ PathOf(graph, f) = PathOf(graph, id)
          /\ "scope" \in DOMAIN graph.nodes[id].attrs
          /\ ScopeOf(graph, id) = ScopeOf(graph, f)
        BY <1>9, <2>1 DEF Scoped, FileRules
    <3>2. f \in Ids(h)
        BY <1>3, <3>1
    <3>3. QED
        BY <1>9, <2>1, <3>1, <3>2
  <2>2. CASE id \notin Ids(graph)
    <3>1. PICK i \in A : /\ items[i].id = id
                         /\ PathOf(h, id) = items[i].path
                         /\ ScopeOf(h, id) = items[i].scope
                         /\ "scope" \in DOMAIN h.nodes[id].attrs
        BY <1>10, <2>2
    <3>2. QED
        BY <1>8, <3>1
  <2>3. QED
      BY <2>1, <2>2
<1>13. Scoped(h, opened', passive')
    BY <1>2, <1>11, <1>12 DEF Scoped
<1>14. QED
    BY <1>2, <1>13

\* project_recon_model mixes scopes, but only on the paths it meets.
LEMMA ProjectReconScoped ==
    ASSUME Scoped(graph, opened, passive),
           NEW scan \in Snapshots, ProjectRecon(scan)
    PROVE  Scoped(graph', opened', passive')
<1> DEFINE items == scan.items
           pairs == PassivePairs(items)
<1>1. PICK edges : Adds(pairs, edges)
    BY ProjectReconAdds
<1> DEFINE h == WithEdges(WithNodes(graph, pairs), edges)
<1>2. /\ graph' = h /\ Opens(scan) /\ opened \subseteq opened'
      /\ passive' = passive \cup {n.path : n \in Range(items)}
    BY <1>1 DEF Adds, Call, ProjectRecon, Opens
<1>3. /\ Ids(h) = Ids(graph) \cup {p[1] : p \in pairs}
      /\ \A id \in Ids(graph) : h.nodes[id] = graph.nodes[id]
      /\ h.nodes = WithNodes(graph, pairs).nodes
      /\ Ids(h) = Ids(WithNodes(graph, pairs))
    BY NodesStay
<1>4. ASSUME NEW id \in Ids(h), id \notin Ids(graph)
      PROVE  \E i \in 1..Len(items) : items[i].id = id /\ PathOf(h, id) = items[i].path
  <2>1. PICK p \in pairs : p[1] = id /\ h.nodes[id] = p[2]
      BY <1>3, <1>4, AddedNode
  <2>2. PICK i \in 1..Len(items) : p = Passive(items[i])
    <3>1. DOMAIN items = 1..Len(items)
        BY ScanItems, LenProperties
    <3>2. QED
        BY <2>1, <3>1 DEF PassivePairs, Range
  <2>3. QED
      BY <2>1, <2>2, PassiveFields DEF PathOf
<1> HIDE DEF h, pairs
<1>5. ASSUME NEW id \in Ids(graph)
      PROVE  /\ FromScan(h, id) = FromScan(graph, id)
             /\ PathOf(h, id) = PathOf(graph, id)
             /\ ScopeOf(h, id) = ScopeOf(graph, id)
             /\ h.nodes[id] = graph.nodes[id]
             /\ id \in Ids(h)
    BY <1>3 DEF FromScan, PathOf, ScopeOf
<1>6. \A i \in 1..Len(items) :
          /\ items[i].id = FileId(items[i].path) \/ items[i].path \in opened'
          /\ items[i].path \in passive'
    BY <1>2, ScanOpens
<1>7. Unread(h, opened')
  <2> SUFFICES ASSUME NEW id \in Ids(h), FromScan(h, id)
               PROVE  id = FileId(PathOf(h, id)) \/ PathOf(h, id) \in opened'
      BY DEF Unread
  <2>1. CASE id \in Ids(graph)
      BY <1>2, <1>5, <2>1 DEF Scoped, Unread
  <2>2. CASE id \notin Ids(graph)
      BY <1>4, <1>6, <2>2
  <2>3. QED
      BY <2>1, <2>2
<1>8. FileRules(h, passive')
  <2> SUFFICES ASSUME NEW id \in Ids(h), FromScan(h, id), PathOf(h, id) \notin passive'
               PROVE  LET f == FileId(PathOf(h, id)) IN
                      /\ f \in Ids(h) /\ FromScan(h, f)
                      /\ PathOf(h, f) = PathOf(h, id)
                      /\ "scope" \in DOMAIN h.nodes[id].attrs
                      /\ ScopeOf(h, id) = ScopeOf(h, f)
      BY DEF FileRules
  <2>1. id \in Ids(graph)
      BY <1>4, <1>6
  <2>2. PathOf(graph, id) \notin passive
      BY <1>2, <1>5, <2>1
  <2> DEFINE f == FileId(PathOf(graph, id))
  <2>3. /\ f \in Ids(graph) /\ FromScan(graph, f)
        /\ PathOf(graph, f) = PathOf(graph, id)
        /\ "scope" \in DOMAIN graph.nodes[id].attrs
        /\ ScopeOf(graph, id) = ScopeOf(graph, f)
      BY <1>5, <2>1, <2>2 DEF Scoped, FileRules
  <2>4. QED
      BY <1>5, <2>1, <2>3
<1>9. QED
    BY <1>2, <1>7, <1>8 DEF Scoped

\* Callers write neither paths nor scopes.
LEMMA ClientCallScoped ==
    ASSUME IInv, Scoped(graph, opened, passive),
           \/ \E p \in ClientNodes : AddNode(p)
           \/ \E u \in ClientUpdates : UpdateNodeAttributes(u)
           \/ \E e \in ClientEdges : AddEdge(e)
    PROVE  Scoped(graph', opened, passive)
<1>1. ASSUME NEW p \in ClientNodes, AddNode(p)
      PROVE  Scoped(graph', opened, passive)
  <2> DEFINE h == WithNodes(graph, {p})
  <2>1. graph' = h
      BY <1>1 DEF AddNode, Call
  <2>2. WithEdges(h, {}) = h
      BY DEF WithNodes, WithEdges, Graph
  <2>3. \A q \in {p} : "path" \notin DOMAIN q[2].attrs
      BY ProjectionAssumption
  <2>4. QED
      BY <2>1, <2>2, <2>3, PathlessKeep
<1>2. ASSUME NEW u \in ClientUpdates, UpdateNodeAttributes(u)
      PROVE  Scoped(graph', opened, passive)
  <2>1. u[1] \in Ids(graph) /\ graph' = WithAttrs(graph, u[1], u[2])
      BY <1>2 DEF UpdateNodeAttributes, Call
  <2>2. {"path", "scope"} \cap DOMAIN u[2] = {} /\ Plain(graph)
      BY ProjectionAssumption DEF IInv, Kept
  <2>3. QED
      BY <2>1, <2>2, UpdateKeepsScoped
<1>3. ASSUME NEW e \in ClientEdges, AddEdge(e)
      PROVE  Scoped(graph', opened, passive)
  <2>1. graph' = WithEdges(graph, {e})
      BY <1>3 DEF AddEdge, Call
  <2>2. graph'.nodes = graph.nodes /\ Ids(graph') = Ids(graph)
      BY <2>1 DEF WithEdges, Graph, Ids
  <2>3. QED
      BY <2>2, ScopedGrows
<1>4. QED
    BY <1>1, <1>2, <1>3

\* Saving, loading and dying.
LEMMA FileStepScoped ==
    ASSUME IInv, ScopeInv, SaveOpens \/ SaveWrites \/ Load \/ Crash,
           opened' = opened, passive' = passive
    PROVE  ScopeInv'
<1>1. Json(graph) = graph
    BY PlainRoundTrip DEF IInv, Kept
<1>2. Scoped(Base, opened, passive)
    BY ProjectionAssumption DEF Scoped, Unread, FileRules, FromScan
<1>3. \/ graph' = graph /\ (file' = Torn \/ file' = graph)
      \/ graph' = file /\ file' = file /\ file \notin {NoFile, Torn}
      \/ graph' = Base /\ file' = file
    BY <1>1 DEF SaveOpens, SaveWrites, Load, Crash
<1>4. /\ Scoped(graph', opened, passive)
      /\ file' \notin {NoFile, Torn} => Scoped(file', opened, passive)
    BY <1>2, <1>3 DEF ScopeInv
<1>5. QED
    BY <1>4, ScopeInvNext

\* A call leaves the file as it is.
LEMMA CallScoped ==
    ASSUME ScopeInv, Scoped(graph', opened', passive'), file' = file,
           opened \subseteq opened', passive \subseteq passive'
    PROVE  ScopeInv'
<1>1. file' \notin {NoFile, Torn} => Scoped(file', opened', passive')
    BY ScopedLater DEF ScopeInv
<1>2. QED
    BY <1>1, ScopeInvNext

LEMMA ScopeInvStep == IInv /\ ScopeInv /\ [Next]_vars => ScopeInv'
<1> SUFFICES ASSUME IInv, ScopeInv, [Next]_vars PROVE ScopeInv'
    OBVIOUS
<1>0. Scoped(graph, opened, passive)
    BY DEF ScopeInv
<1>1. ASSUME NEW scan \in Snapshots, ToCanonical(scan) PROVE ScopeInv'
  <2>1. file' = file /\ opened \subseteq opened' /\ passive' = passive
      BY <1>1 DEF ToCanonical, Call, Opens
  <2>2. QED
      BY <1>0, <1>1, <2>1, ToCanonicalScoped, CallScoped
<1>2. ASSUME NEW scan \in Snapshots, ProjectRecon(scan) PROVE ScopeInv'
  <2>1. file' = file /\ opened \subseteq opened' /\ passive \subseteq passive'
      BY <1>2 DEF ProjectRecon, Call, Opens
  <2>2. QED
      BY <1>0, <1>2, <2>1, ProjectReconScoped, CallScoped
<1>3. ASSUME NEW pairs, NEW edges, Adds(pairs, edges), Unscanned(pairs),
             UNCHANGED history
      PROVE  ScopeInv'
  <2>1. /\ graph' = WithEdges(WithNodes(graph, pairs), edges) /\ file' = file
        /\ opened' = opened /\ passive' = passive
      BY <1>3 DEF Adds, Call, history
  <2>2. Scoped(graph', opened', passive')
      BY <1>0, <1>3, <2>1, PathlessKeep DEF Unscanned
  <2>3. QED
      BY <2>1, <2>2, CallScoped
<1>4. ASSUME NEW c \in Contracts, ProjectRepository(c) PROVE ScopeInv'
  <2>1. UNCHANGED history
      BY <1>4 DEF ProjectRepository
  <2>2. QED
      BY <1>3, <1>4, <2>1, ProjectRepositoryAdds
<1>5. ASSUME NEW e \in Evidence, AddAstEvidence(e) PROVE ScopeInv'
  <2>1. UNCHANGED history
      BY <1>5 DEF AddAstEvidence
  <2>2. QED
      BY <1>3, <1>5, <2>1, AddAstEvidenceAdds
<1>6. CASE ClientStep
  <2>1. GraphNext /\ opened' = opened /\ passive' = passive
      BY <1>6 DEF ClientStep, history
  <2>2. CASE \/ \E p \in ClientNodes : AddNode(p)
             \/ \E u \in ClientUpdates : UpdateNodeAttributes(u)
             \/ \E e \in ClientEdges : AddEdge(e)
    <3>1. file' = file
        BY <2>2 DEF AddNode, UpdateNodeAttributes, AddEdge, Call
    <3>2. Scoped(graph', opened', passive')
        BY <1>0, <2>1, <2>2, ClientCallScoped
    <3>3. QED
        BY <2>1, <3>1, <3>2, CallScoped
  <2>3. CASE SaveOpens \/ SaveWrites \/ Load \/ Crash
      BY <2>1, <2>3, FileStepScoped
  <2>4. QED
      BY <2>1, <2>2, <2>3 DEF GraphNext
<1>7. CASE UNCHANGED vars
  <2>1. /\ graph' = graph /\ file' = file
        /\ opened' = opened /\ passive' = passive
      BY <1>7 DEF vars, graphVars, history
  <2>2. QED
      BY <1>0, <2>1, CallScoped
<1>8. QED
    BY <1>1, <1>2, <1>4, <1>5, <1>6, <1>7 DEF Next

LEMMA ScopeInvInit == Init => ScopeInv
<1> SUFFICES ASSUME Init PROVE ScopeInv
    OBVIOUS
<1>1. graph = Base /\ file = NoFile /\ opened = {} /\ passive = {}
    BY DEF Init, GraphInit
<1>2. Scoped(Base, {}, {})
    BY ProjectionAssumption DEF Scoped, Unread, FileRules, FromScan
<1>3. QED
    BY <1>1, <1>2 DEF ScopeInv

LEMMA ScopeInvAlways == Spec => []ScopeInv
BY ScopeInvInit, ScopeInvStep, IInvAlways, PTL DEF Spec

-----------------------------------------------------------------------------
(* Where the nodes that name a file come from *)

Labelled(g) == \A id \in Ids(g) : Filed(g.nodes[id])

LabelInv == Labelled(graph) /\ (file \notin {NoFile, Torn} => Labelled(file))

LEMMA LabelInvNext ==
    ASSUME Labelled(graph'), file' \notin {NoFile, Torn} => Labelled(file')
    PROVE  LabelInv'
BY DEF LabelInv, Labelled, Filed, Ids

LEMMA LabelledGrows ==
    ASSUME NEW g, Labelled(g), NEW pairs, NEW edges,
           \A p \in pairs : Filed(p[2])
    PROVE  Labelled(WithEdges(WithNodes(g, pairs), edges))
<1> DEFINE h == WithEdges(WithNodes(g, pairs), edges)
<1>1. /\ h.nodes = WithNodes(g, pairs).nodes
      /\ Ids(h) = Ids(WithNodes(g, pairs))
      /\ \A id \in Ids(g) : h.nodes[id] = g.nodes[id]
    BY NodesStay
<1>2. \A id \in Ids(h) \ Ids(g) : \E p \in pairs : h.nodes[id] = p[2]
    BY <1>1, AddedNode
<1> HIDE DEF h
<1>3. Labelled(h)
    BY <1>1, <1>2 DEF Labelled
<1>4. QED
    BY <1>3 DEF h

LEMMA ScannedFiled ==
    ASSUME NEW item
    PROVE  Filed(Canonical(item)[2]) /\ Filed(Passive(item)[2])
BY DEF Canonical, Passive, Node, Filed

LEMMA UpdateKeepsLabelled ==
    ASSUME NEW g, Labelled(g), NEW id \in Ids(g), NEW attrs,
           {"file", "source_kind"} \cap DOMAIN attrs = {}
    PROVE  Labelled(WithAttrs(g, id, attrs))
<1> DEFINE h == WithAttrs(g, id, attrs)
           old == g.nodes[id].attrs
           u == Updated(old, attrs)
           m == Node(g.nodes[id].kind, g.nodes[id].label, u)
<1>1. h = Graph([g.nodes EXCEPT ![id] = m], g.edges) /\ m.attrs = u
    BY DEF WithAttrs, Node
<1>2. /\ "file" \in DOMAIN u <=> "file" \in DOMAIN old
      /\ "source_kind" \in DOMAIN old =>
             "source_kind" \in DOMAIN u /\ u.source_kind = old.source_kind
    BY DEF Updated
<1>3. Filed(g.nodes[id])
    BY DEF Labelled
<1> HIDE DEF u, h, m
<1>4. Filed(m)
    BY <1>1, <1>2, <1>3 DEF Filed
<1>5. \A i \in Ids(h) : i \in Ids(g) /\ h.nodes[i] = IF i = id THEN m ELSE g.nodes[i]
    BY <1>1 DEF Graph, Ids
<1>6. Labelled(h)
    BY <1>4, <1>5 DEF Labelled
<1>7. QED
    BY <1>6 DEF h

\* A call that makes a labelled graph.
LEMMA CallLabelled ==
    ASSUME LabelInv, Labelled(graph'), file' = file
    PROVE  LabelInv'
BY LabelInvNext DEF LabelInv

LEMMA LabelInvStep == IInv /\ LabelInv /\ [Next]_vars => LabelInv'
<1> SUFFICES ASSUME IInv, LabelInv, [Next]_vars PROVE LabelInv'
    OBVIOUS
<1>0. Labelled(graph)
    BY DEF LabelInv
<1>1. ASSUME NEW pairs, NEW edges, Adds(pairs, edges), \A p \in pairs : Filed(p[2])
      PROVE  LabelInv'
  <2>1. graph' = WithEdges(WithNodes(graph, pairs), edges) /\ file' = file
      BY <1>1 DEF Adds, Call
  <2>2. QED
      BY <1>0, <1>1, <2>1, LabelledGrows, CallLabelled
<1>2. ASSUME NEW scan \in Snapshots, ToCanonical(scan) PROVE LabelInv'
  <2>1. PICK A \in SUBSET (1..Len(scan.items)) : \E edges :
            Adds(CanonicalPairs(scan.items, A), edges)
      BY <1>2, ToCanonicalAdds
  <2>2. \A p \in CanonicalPairs(scan.items, A) : Filed(p[2])
      BY ScannedFiled DEF CanonicalPairs
  <2>3. QED
      BY <1>1, <2>1, <2>2
<1>3. ASSUME NEW scan \in Snapshots, ProjectRecon(scan) PROVE LabelInv'
  <2>1. PICK edges : Adds(PassivePairs(scan.items), edges)
      BY <1>3, ProjectReconAdds
  <2>2. \A p \in PassivePairs(scan.items) : Filed(p[2])
      BY ScannedFiled DEF PassivePairs
  <2>3. QED
      BY <1>1, <2>1, <2>2
<1>4. ASSUME NEW c \in Contracts, ProjectRepository(c) PROVE LabelInv'
    BY <1>1, <1>4, ProjectRepositoryAdds DEF Unscanned
<1>5. ASSUME NEW e \in Evidence, AddAstEvidence(e) PROVE LabelInv'
    BY <1>1, <1>5, AddAstEvidenceAdds DEF Unscanned
<1>6. ASSUME NEW p \in ClientNodes, AddNode(p) PROVE LabelInv'
  <2>1. graph' = WithNodes(graph, {p}) /\ file' = file
      BY <1>6 DEF AddNode, Call
  <2>2. WithEdges(WithNodes(graph, {p}), {}) = WithNodes(graph, {p})
      BY DEF WithNodes, WithEdges, Graph
  <2>3. \A q \in {p} : Filed(q[2])
      BY ProjectionAssumption DEF Filed
  <2>4. QED
      BY <1>0, <2>1, <2>2, <2>3, LabelledGrows, CallLabelled
<1>7. ASSUME NEW u \in ClientUpdates, UpdateNodeAttributes(u) PROVE LabelInv'
  <2>1. u[1] \in Ids(graph) /\ graph' = WithAttrs(graph, u[1], u[2]) /\ file' = file
      BY <1>7 DEF UpdateNodeAttributes, Call
  <2>2. {"file", "source_kind"} \cap DOMAIN u[2] = {}
      BY ProjectionAssumption
  <2>3. QED
      BY <1>0, <2>1, <2>2, UpdateKeepsLabelled, CallLabelled
<1>8. ASSUME NEW e \in ClientEdges, AddEdge(e) PROVE LabelInv'
  <2>1. graph' = WithEdges(graph, {e}) /\ file' = file
      BY <1>8 DEF AddEdge, Call
  <2> DEFINE h == WithEdges(graph, {e})
  <2>2. h.nodes = graph.nodes
      BY DEF WithEdges, Graph
  <2> HIDE DEF h
  <2>3. Labelled(h)
      BY <1>0, <2>2 DEF Labelled, Ids
  <2>4. QED
      BY <2>1, <2>3, CallLabelled DEF h
<1>9. CASE SaveOpens \/ SaveWrites \/ Load \/ Crash
  <2>1. Json(graph) = graph
      BY PlainRoundTrip DEF IInv, Kept
  <2>2. Labelled(Base)
      BY ProjectionAssumption DEF Labelled, Filed
  <2>3. \/ graph' = graph /\ (file' = Torn \/ file' = graph)
        \/ graph' = file /\ file' = file /\ file \notin {NoFile, Torn}
        \/ graph' = Base /\ file' = file
      BY <1>9, <2>1 DEF SaveOpens, SaveWrites, Load, Crash
  <2>4. /\ Labelled(graph')
        /\ file' \notin {NoFile, Torn} => Labelled(file')
      BY <2>2, <2>3 DEF LabelInv
  <2>5. QED
      BY <2>4, LabelInvNext
<1>10. CASE UNCHANGED vars
  <2>1. graph' = graph /\ file' = file
      BY <1>10 DEF vars, graphVars
  <2>2. QED
      BY <1>0, <2>1, CallLabelled
<1>11. QED
    BY <1>2, <1>3, <1>4, <1>5, <1>6, <1>7, <1>8, <1>9, <1>10
       DEF Next, ClientStep, GraphNext

LEMMA LabelInvInit == Init => LabelInv
<1> SUFFICES ASSUME Init PROVE LabelInv
    OBVIOUS
<1>1. graph = Base /\ file = NoFile
    BY DEF Init, GraphInit
<1>2. Labelled(Base)
    BY ProjectionAssumption DEF Labelled, Filed
<1>3. QED
    BY <1>1, <1>2 DEF LabelInv

LEMMA LabelInvAlways == Spec => []LabelInv
BY LabelInvInit, LabelInvStep, IInvAlways, PTL DEF Spec

\* No scan puts anything but the file node of a path it excluded into the model,
\* through either projection, a reload or a crash; a node that names such a file
\* without having been scanned came from project_repository_model.
THEOREM ScansKeepScope == Spec => []ScansHonourScope
<1>1. ScopeInv /\ LabelInv => ScansHonourScope
  <2> SUFFICES ASSUME ScopeInv, LabelInv, NEW path \in Paths \ opened
               PROVE  Scanned(path) \cup DeclaredIn(path)
                          \subseteq {<<"file", path, "">>} \cup FromRepositoryModel
      BY DEF ScansHonourScope
  <2>1. ASSUME NEW id \in Scanned(path) PROVE id = <<"file", path, "">>
    <3>1. id \in Ids(graph) /\ FromScan(graph, id) /\ PathOf(graph, id) = path
        BY DEF Scanned, FromScan, PathOf
    <3>2. QED
        BY <3>1 DEF ScopeInv, Scoped, Unread, FileId
  <2>2. DeclaredIn(path) \subseteq FromRepositoryModel
      BY DEF DeclaredIn, FromRepositoryModel, LabelInv, Labelled, Filed
  <2>3. QED
      BY <2>1, <2>2
<1>2. QED
    BY ScopeInvAlways, LabelInvAlways, <1>1, PTL

\* However scans, policies and sources change and wherever to_canonical breaks
\* off, the nodes of a path agree on its scope.
THEOREM PathKeepsOneScope == Spec => []OneScopePerPath
<1>1. ScopeInv => OneScopePerPath
  <2> SUFFICES ASSUME ScopeInv, NEW path \in Paths \ passive,
                      NEW m \in Scanned(path), NEW n \in Scanned(path)
               PROVE  graph.nodes[m].attrs.scope = graph.nodes[n].attrs.scope
      BY DEF OneScopePerPath
  <2>1. ASSUME NEW id \in Scanned(path)
        PROVE  ScopeOf(graph, id) = ScopeOf(graph, FileId(path))
    <3>1. id \in Ids(graph) /\ FromScan(graph, id) /\ PathOf(graph, id) = path
        BY DEF Scanned, FromScan, PathOf
    <3>2. QED
        BY <3>1 DEF ScopeInv, Scoped, FileRules
  <2>2. QED
      BY <2>1 DEF ScopeOf
<1>2. QED
    BY ScopeInvAlways, <1>1, PTL

=============================================================================
