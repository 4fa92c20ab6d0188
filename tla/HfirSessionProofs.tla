-------------------------- MODULE HfirSessionProofs --------------------------
(* That a manifest in the store is never ahead of what it names, and that a   *)
(* repair keeps to the region of its context, for every graph, every edit,    *)
(* and any faults, crashes and failed puts.                                   *)
EXTENDS HfirSession, FiniteSetTheorems, TLAPS

-----------------------------------------------------------------------------
(* The order of a round's puts.                                               *)

(* The place of a number in a finite set is that of no other number of it.    *)
LEMMA RankIsOwn ==
  ASSUME NEW S \in SUBSET Nat, IsFiniteSet(S), NEW a \in S, NEW b \in S, a < b
  PROVE  Cardinality({i \in S : i <= a}) < Cardinality({i \in S : i <= b})
<1> DEFINE A == {i \in S : i <= a}
           B == {i \in S : i <= b}
<1>1. IsFiniteSet(B)
  BY FS_Subset
<1>2. A \in SUBSET B
  <2> SUFFICES ASSUME NEW i \in S, i <= a PROVE i <= b
    OBVIOUS
  <2>1. i \in Nat /\ a \in Nat /\ b \in Nat
    OBVIOUS
  <2> QED
    BY <2>1
<1>3. /\ IsFiniteSet(A) /\ Cardinality(A) <= Cardinality(B)
      /\ Cardinality(B) = Cardinality(A) => B = A
  BY <1>1, <1>2, FS_Subset
<1>4. b \in B /\ b \notin A
  OBVIOUS
<1>5. Cardinality(A) \in Nat /\ Cardinality(B) \in Nat
  BY <1>1, <1>3, FS_CardinalityType
<1> QED
  BY <1>3, <1>4, <1>5

(* Every number of a finite set has a place, and every place has a number.    *)
LEMMA RanksFill ==
  ASSUME NEW S \in SUBSET Nat, IsFiniteSet(S)
  PROVE  /\ \A id \in S : Cardinality({i \in S : i <= id}) \in 1..Cardinality(S)
         /\ \A k \in 1..Cardinality(S) : \E id \in S : Cardinality({i \in S : i <= id}) = k
<1> DEFINE n == Cardinality(S)
           rank == [id \in S |-> Cardinality({i \in S : i <= id})]
<1>1. n \in Nat
  BY FS_CardinalityType
<1>2. ASSUME NEW id \in S PROVE Cardinality({i \in S : i <= id}) \in 1..n
  <2> DEFINE T == {i \in S : i <= id}
  <2>1. IsFiniteSet(T) /\ Cardinality(T) <= n
    BY FS_Subset
  <2>2. Cardinality(T) \in Nat
    BY <2>1, FS_CardinalityType
  <2>3. T # {}
    OBVIOUS
  <2>4. Cardinality(T) # 0
    BY <2>1, <2>3, FS_EmptySet
  <2> QED
    BY <1>1, <2>1, <2>2, <2>4
<1>3. rank \in Injection(S, 1..n)
  <2>1. rank \in [S -> 1..n]
    BY <1>2
  <2>2. ASSUME NEW a \in S, NEW b \in S, rank[a] = rank[b] PROVE a = b
    <3>1. a \in Nat /\ b \in Nat /\ rank[a] \in Int /\ rank[b] \in Int
      BY <2>1
    <3>2. a < b => rank[a] < rank[b]
      BY RankIsOwn
    <3>3. b < a => rank[b] < rank[a]
      BY RankIsOwn
    <3> QED
      BY <2>2, <3>1, <3>2, <3>3
  <2> QED
    BY <2>1, <2>2 DEF Injection, IsInjective
<1>4. IsFiniteSet(1..n) /\ Cardinality(1..n) = n
  BY <1>1, FS_Interval
<1>5. rank \in Surjection(S, 1..n)
  BY <1>3, <1>4, FS_Injection
<1> QED
  BY <1>2, <1>5 DEF Surjection

(* The nodes in order are those of the graph, each of them.                   *)
LEMMA InOrderIsWhole ==
  ASSUME NEW g, Ids(g) \subseteq Nat, IsFiniteSet(Ids(g))
  PROVE  /\ InOrder(g) \in [1..Cardinality(Ids(g)) -> Ids(g)]
         /\ Cardinality(Ids(g)) \in Nat
         /\ \A id \in Ids(g) : \E k \in 1..Cardinality(Ids(g)) : InOrder(g)[k] = id
<1> DEFINE S == Ids(g)
           Rank(id) == Cardinality({i \in S : i <= id})
           Place(k) == CHOOSE id \in S : Rank(id) = k
<1>1. \A id \in S : Rank(id) \in 1..Cardinality(S)
  BY RanksFill
<1>2. \A k \in 1..Cardinality(S) : \E id \in S : Rank(id) = k
  BY RanksFill
<1>3. \A a, b \in S : Rank(a) = Rank(b) => a = b
  <2> SUFFICES ASSUME NEW a \in S, NEW b \in S, Rank(a) = Rank(b) PROVE a = b
    OBVIOUS
  <2>1. Rank(a) \in Int /\ Rank(b) \in Int /\ a \in Nat /\ b \in Nat
    BY <1>1
  <2>2. a < b => Rank(a) < Rank(b)
    BY RankIsOwn
  <2>3. b < a => Rank(b) < Rank(a)
    BY RankIsOwn
  <2> HIDE DEF Rank
  <2> QED
    BY <2>1, <2>2, <2>3
<1>4. InOrder(g) = [k \in 1..Cardinality(S) |-> Place(k)]
  BY DEF InOrder
<1> HIDE DEF Rank
<1>5. \A k \in 1..Cardinality(S) : Place(k) \in S /\ Rank(Place(k)) = k
  BY <1>2
<1>6. \A id \in S : Place(Rank(id)) = id
  BY <1>1, <1>3, <1>5
<1>7. Cardinality(S) \in Nat
  BY FS_CardinalityType
<1> HIDE DEF Place
<1> QED
  BY <1>1, <1>4, <1>5, <1>6, <1>7

-----------------------------------------------------------------------------
(* The objects of a round.                                                    *)

Objects(m) == References(m) \cup {ManifestObject(m)}

(* Three sequences one after the other.                                       *)
InARow(S, a, b, c) ==
  /\ a \o b \o c \in Seq(S) /\ Len(a \o b \o c) = Len(a) + Len(b) + Len(c)
  /\ \A k \in 1..Len(a) : (a \o b \o c)[k] = a[k]
  /\ \A k \in 1..Len(b) : (a \o b \o c)[Len(a) + k] = b[k]
  /\ \A k \in 1..Len(c) : (a \o b \o c)[Len(a) + Len(b) + k] = c[k]
LEMMA ThreeInARow ==
  ASSUME NEW S, NEW a \in Seq(S), NEW b \in Seq(S), NEW c \in Seq(S)
  PROVE  InARow(S, a, b, c)
<1> DEFINE ab == a \o b
<1>1. ab \in Seq(S) /\ Len(ab) = Len(a) + Len(b)
  OBVIOUS
<1>2. /\ \A k \in 1..Len(a) : ab[k] = a[k]
      /\ \A k \in 1..Len(b) : ab[Len(a) + k] = b[k]
  OBVIOUS
<1> HIDE DEF ab
<1>3. ab \o c \in Seq(S) /\ Len(ab \o c) = Len(ab) + Len(c)
  <2>1. ab \in Seq(S)
    BY <1>1
  <2>2. Len(ab \o c) = Len(ab) + Len(c)
    BY <2>1
  <2>3. ab \o c \in Seq(S)
    BY <2>1
  <2> QED
    BY <2>2, <2>3
<1>4. /\ \A k \in 1..Len(ab) : (ab \o c)[k] = ab[k]
      /\ \A k \in 1..Len(c) : (ab \o c)[Len(ab) + k] = c[k]
  BY <1>1
<1>5. Len(a) \in Nat /\ Len(b) \in Nat
  OBVIOUS
<1>6. ASSUME NEW k \in 1..Len(a) PROVE (ab \o c)[k] = a[k]
  BY <1>1, <1>2, <1>4, <1>5
<1>7. ASSUME NEW k \in 1..Len(b) PROVE (ab \o c)[Len(a) + k] = b[k]
  <2>1. Len(a) + k \in 1..Len(ab)
    BY <1>1, <1>5
  <2>2. (ab \o c)[Len(a) + k] = ab[Len(a) + k]
    BY <1>4, <2>1
  <2>3. ab[Len(a) + k] = b[k]
    BY <1>2
  <2> QED
    BY <2>2, <2>3
<1>8. \A k \in 1..Len(c) : (ab \o c)[Len(a) + Len(b) + k] = c[k]
  BY <1>1, <1>4
<1>9. ab \o c = a \o b \o c
  BY DEF ab
<1> QED
  BY <1>1, <1>3, <1>6, <1>7, <1>8, <1>9 DEF InARow

(* What a round puts: every object its manifest names, and after them the     *)
(* manifest.                                                                  *)
LEMMA PutsNameTheManifestLast ==
  ASSUME NEW m, IsGraph(m.graph)
  PROVE  /\ Puts(m) \in Seq(Objects(m)) /\ Puts(m) # <<>>
         /\ Puts(m)[Len(Puts(m))] = ManifestObject(m)
         /\ \A k \in 1..Len(Puts(m)) - 1 : Puts(m)[k] \in References(m)
         /\ \A o \in References(m) : \E k \in DOMAIN Puts(m) : Puts(m)[k] = o
<1> DEFINE g == m.graph
           n == Cardinality(Ids(g))
           nodes == PutNodes(g)
           modules == PutModules(g)
           rest == <<EvidenceObject(m), ArtifactObject(m), ManifestObject(m)>>
           order == InOrder(g)
<1>1. /\ order \in [1..n -> Ids(g)] /\ n \in Nat
      /\ \A id \in Ids(g) : \E k \in 1..n : order[k] = id
  BY InOrderIsWhole DEF IsGraph
<1>2. nodes = [k \in 1..n |-> NodeObject(g.nodes[order[k]])]
  BY <1>1 DEF PutNodes
<1>3. modules = [k \in 1..n |-> ModuleObject(g, g.nodes[order[k]].mod)]
  BY <1>1 DEF PutModules
<1>4. Puts(m) = nodes \o modules \o rest
  BY DEF Puts
<1> HIDE DEF order, nodes, modules
<1>5. /\ \A k \in 1..n : nodes[k] \in References(m)
      /\ \A k \in 1..n : modules[k] \in References(m)
  BY <1>1, <1>2, <1>3 DEF References, NodeObjects, ModuleObjects, Modules
<1>6. EvidenceObject(m) \in References(m) /\ ArtifactObject(m) \in References(m)
  BY DEF References
<1>7. /\ nodes \in Seq(Objects(m)) /\ Len(nodes) = n
      /\ modules \in Seq(Objects(m)) /\ Len(modules) = n
  <2>1. nodes \in [1..n -> Objects(m)] /\ modules \in [1..n -> Objects(m)]
    BY <1>2, <1>3, <1>5 DEF Objects
  <2> QED
    BY <1>1, <2>1
<1>8. /\ rest \in Seq(Objects(m)) /\ Len(rest) = 3
      /\ rest[1] = EvidenceObject(m) /\ rest[2] = ArtifactObject(m) /\ rest[3] = ManifestObject(m)
  BY <1>6 DEF Objects
<1> HIDE DEF rest, n
<1>9. /\ Puts(m) \in Seq(Objects(m)) /\ Len(Puts(m)) = n + n + 3
      /\ \A k \in 1..n : Puts(m)[k] = nodes[k] /\ Puts(m)[n + k] = modules[k]
      /\ \A k \in 1..3 : Puts(m)[n + n + k] = rest[k]
  <2>1. InARow(Objects(m), nodes, modules, rest)
    BY <1>7, <1>8, ThreeInARow
  <2> QED
    BY <1>4, <1>7, <1>8, <2>1 DEF InARow
<1>10. ASSUME NEW k \in 1..Len(Puts(m)) - 1 PROVE Puts(m)[k] \in References(m)
  <2>1. CASE k \in 1..n
    BY <1>5, <1>9, <2>1
  <2>2. CASE k \in (n + 1)..(n + n)
    <3>1. k - n \in 1..n /\ n + (k - n) = k
      BY <1>1, <2>2
    <3> QED
      BY <1>5, <1>9, <3>1
  <2>3. CASE k \in (n + n + 1)..(n + n + 2)
    <3>1. /\ k = n + n + 1 \/ k = n + n + 2
          /\ 1 \in 1..3 /\ 2 \in 1..3
      BY <1>1, <2>3
    <3> QED
      BY <1>6, <1>8, <1>9, <3>1
  <2> QED
    BY <1>1, <1>9, <2>1, <2>2, <2>3
<1>11. ASSUME NEW o \in References(m) PROVE \E k \in DOMAIN Puts(m) : Puts(m)[k] = o
  <2>0. DOMAIN Puts(m) = 1..(n + n + 3)
    BY <1>9
  <2>1. CASE o \in NodeObjects(g)
    <3>1. PICK id \in Ids(g) : o = NodeObject(g.nodes[id])
      BY <2>1 DEF NodeObjects
    <3>2. PICK k \in 1..n : order[k] = id
      BY <1>1
    <3>3. nodes[k] = o /\ k \in 1..(n + n + 3)
      BY <1>1, <1>2, <3>1, <3>2
    <3> QED
      BY <1>9, <2>0, <3>3
  <2>2. CASE o \in ModuleObjects(g)
    <3>1. PICK id \in Ids(g) : o = ModuleObject(g, g.nodes[id].mod)
      BY <2>2 DEF ModuleObjects, Modules
    <3>2. PICK k \in 1..n : order[k] = id
      BY <1>1
    <3>3. modules[k] = o /\ n + k \in 1..(n + n + 3)
      BY <1>1, <1>3, <3>1, <3>2
    <3> QED
      BY <1>9, <2>0, <3>3
  <2>3. CASE o = EvidenceObject(m) \/ o = ArtifactObject(m)
    <3>1. /\ n + n + 1 \in 1..(n + n + 3) /\ n + n + 2 \in 1..(n + n + 3)
          /\ 1 \in 1..3 /\ 2 \in 1..3
      BY <1>1
    <3> QED
      BY <1>8, <1>9, <2>0, <2>3, <3>1
  <2> QED
    BY <2>1, <2>2, <2>3 DEF References
<1>12. Puts(m)[Len(Puts(m))] = ManifestObject(m) /\ Puts(m) # <<>>
  <2>1. 3 \in 1..3 /\ n + n + 3 # 0
    BY <1>1
  <2> QED
    BY <1>8, <1>9, <2>1
<1> QED
  BY <1>9, <1>10, <1>11, <1>12

-----------------------------------------------------------------------------
(* The graph at hand, whatever a round, a crash or a repair makes of it.      *)

(* What rewrites the nodes of a graph one by one leaves a graph.              *)
LEMMA RewrittenGraph ==
  ASSUME NEW g, IsGraph(g), NEW nodes, DOMAIN nodes = Ids(g), nodes = [id \in Ids(g) |-> nodes[id]],
         \A id \in Ids(g) : IsNode(nodes[id])
  PROVE  /\ IsGraph([g EXCEPT !.nodes = nodes])
         /\ [g EXCEPT !.nodes = nodes] = [entry |-> g.entry, nodes |-> nodes]
<1> DEFINE h == [g EXCEPT !.nodes = nodes]
<1>1. g = [entry |-> g.entry, nodes |-> [id \in Ids(g) |-> g.nodes[id]]]
  BY DEF IsGraph
<1>2. h = [entry |-> g.entry, nodes |-> nodes]
  BY <1>1
<1> HIDE DEF h
<1>3. h.nodes = nodes /\ h.entry = g.entry /\ Ids(h) = Ids(g)
  BY <1>2 DEF Ids
<1>4. h = [entry |-> h.entry, nodes |-> [id \in Ids(h) |-> h.nodes[id]]]
  BY <1>2, <1>3
<1>5. IsGraph(h)
  BY <1>3, <1>4 DEF IsGraph
<1> QED
  BY <1>2, <1>5 DEF h

LEMMA EffectsAreWritten ==
  ASSUME NEW g, IsGraph(g)
  PROVE  /\ IsGraph(WithEffects(g))
         /\ Ids(WithEffects(g)) = Ids(g) /\ WithEffects(g).entry = g.entry
         /\ \A id \in Ids(g) :
              WithEffects(g).nodes[id] =
                [g.nodes[id] EXCEPT !.effects = @ \cup ForConstruct(g.nodes[id].kind)]
<1> DEFINE nodes == [id \in Ids(g) |->
             [g.nodes[id] EXCEPT !.effects = @ \cup ForConstruct(g.nodes[id].kind)]]
<1>1. \A id \in Ids(g) : IsNode(nodes[id])
  <2> SUFFICES ASSUME NEW id \in Ids(g) PROVE IsNode(nodes[id])
    OBVIOUS
  <2>1. IsNode(g.nodes[id])
    BY DEF IsGraph
  <2> QED
    BY <2>1 DEF IsNode
<1>2. WithEffects(g) = [g EXCEPT !.nodes = nodes]
  BY DEF WithEffects
<1>3. DOMAIN nodes = Ids(g) /\ nodes = [id \in Ids(g) |-> nodes[id]]
  OBVIOUS
<1>4. \A id \in Ids(g) :
        nodes[id] = [g.nodes[id] EXCEPT !.effects = @ \cup ForConstruct(g.nodes[id].kind)]
  OBVIOUS
<1> HIDE DEF nodes
<1>5. IsGraph(WithEffects(g)) /\ WithEffects(g) = [entry |-> g.entry, nodes |-> nodes]
  BY <1>1, <1>2, <1>3, RewrittenGraph
<1>6. WithEffects(g).nodes = nodes /\ WithEffects(g).entry = g.entry
  BY <1>5
<1> QED
  BY <1>3, <1>4, <1>5, <1>6 DEF Ids

LEMMA HashIsBare ==
  ASSUME NEW g, IsGraph(g)
  PROVE  /\ IsGraph(GraphHash(g))
         /\ Ids(GraphHash(g)) = Ids(g) /\ GraphHash(g).entry = g.entry
         /\ \A id \in Ids(g) : GraphHash(g).nodes[id] = Bare(g.nodes[id])
<1> DEFINE nodes == [id \in Ids(g) |-> Bare(g.nodes[id])]
<1>1. \A id \in Ids(g) : IsNode(nodes[id])
  <2> SUFFICES ASSUME NEW id \in Ids(g) PROVE IsNode(nodes[id])
    OBVIOUS
  <2>1. IsNode(g.nodes[id])
    BY DEF IsGraph
  <2> QED
    BY <2>1 DEF IsNode, Bare
<1>2. GraphHash(g) = [g EXCEPT !.nodes = nodes]
  BY DEF GraphHash
<1>3. DOMAIN nodes = Ids(g) /\ nodes = [id \in Ids(g) |-> nodes[id]]
  OBVIOUS
<1>4. \A id \in Ids(g) : nodes[id] = Bare(g.nodes[id])
  OBVIOUS
<1> HIDE DEF nodes
<1>5. IsGraph(GraphHash(g)) /\ GraphHash(g) = [entry |-> g.entry, nodes |-> nodes]
  BY <1>1, <1>2, <1>3, RewrittenGraph
<1>6. GraphHash(g).nodes = nodes /\ GraphHash(g).entry = g.entry
  BY <1>5
<1> QED
  BY <1>3, <1>4, <1>5, <1>6 DEF Ids

(* A repaired graph has the nodes of the other: a target the replacement of   *)
(* its operation, and any other its own, as a transport has it.               *)
LEMMA RepairedNodes ==
  ASSUME NEW g, IsGraph(g), NEW delta
  PROVE  LET h == Replaced(g, delta)
             Fresh(n) == Node(n.kind, n.value, n.inputs)
         IN  /\ IsGraph(h) /\ Ids(h) = Ids(g) /\ h.entry = g.entry
             /\ \A id \in Ids(g) :
                  IF \E op \in ToSet(delta.ops) : op.target = id
                  THEN \E op \in ToSet(delta.ops) :
                         op.target = id /\ h.nodes[id] = Fresh(op.replacement)
                  ELSE h.nodes[id] = Fresh(g.nodes[id])
<1> DEFINE h == Replaced(g, delta)
           Fresh(n) == Node(n.kind, n.value, n.inputs)
           By(id) == CHOOSE op \in ToSet(delta.ops) : op.target = id
           targets == {op.target : op \in ToSet(delta.ops)}
           chosen == [id \in Ids(g) |-> IF id \in targets THEN By(id).replacement ELSE g.nodes[id]]
           draft == [g EXCEPT !.nodes = chosen]
           nodes == [id \in Ids(g) |-> Fresh(chosen[id])]
<1>1. g = [entry |-> g.entry, nodes |-> [id \in Ids(g) |-> g.nodes[id]]]
  BY DEF IsGraph
<1>2. draft = [entry |-> g.entry, nodes |-> chosen]
  BY <1>1
<1>3. draft.nodes = chosen /\ Ids(draft) = Ids(g) /\ draft.entry = g.entry
  BY <1>2 DEF Ids
<1>4. h = [draft EXCEPT !.nodes = [id \in Ids(draft) |->
                                   Node(draft.nodes[id].kind, draft.nodes[id].value, draft.nodes[id].inputs)]]
  BY DEF Replaced, FromTransport
<1>5. [id \in Ids(draft) |-> Node(draft.nodes[id].kind, draft.nodes[id].value, draft.nodes[id].inputs)] = nodes
  BY <1>3
<1>6. h = [entry |-> g.entry, nodes |-> nodes]
  <2>1. h = [draft EXCEPT !.nodes = nodes]
    BY <1>4, <1>5
  <2> HIDE DEF h, nodes, chosen
  <2> QED
    BY <1>2, <2>1
<1>7. \A id \in Ids(g) : IsNode(nodes[id])
  BY DEF IsNode, Node
<1>8. \A id \in targets : By(id) \in ToSet(delta.ops) /\ By(id).target = id
  OBVIOUS
<1>9. \A id \in Ids(g) : h.nodes[id] = Fresh(IF id \in targets THEN By(id).replacement ELSE g.nodes[id])
  <2> HIDE DEF Fresh, By, targets, h
  <2> QED
    BY <1>6
<1>10. h.nodes = nodes /\ h.entry = g.entry /\ DOMAIN nodes = Ids(g)
  <2> HIDE DEF h
  <2>1. h.nodes = nodes /\ h.entry = g.entry
    BY <1>6
  <2> QED
    BY <2>1
<1>11. IsGraph(h) /\ Ids(h) = Ids(g)
  <2>1. nodes = [id \in Ids(g) |-> nodes[id]]
    OBVIOUS
  <2> HIDE DEF h, nodes
  <2>2. Ids(h) = Ids(g)
    BY <1>10 DEF Ids
  <2>3. h = [entry |-> h.entry, nodes |-> [id \in Ids(h) |-> h.nodes[id]]]
    BY <1>6, <1>10, <2>1, <2>2
  <2> QED
    BY <1>7, <1>10, <2>2, <2>3 DEF IsGraph
<1>12. ASSUME NEW id \in Ids(g)
       PROVE  IF \E op \in ToSet(delta.ops) : op.target = id
              THEN \E op \in ToSet(delta.ops) : op.target = id /\ h.nodes[id] = Fresh(op.replacement)
              ELSE h.nodes[id] = Fresh(g.nodes[id])
  <2> HIDE DEF Fresh, h, By
  <2>1. id \in targets <=> \E op \in ToSet(delta.ops) : op.target = id
    OBVIOUS
  <2>2. CASE id \in targets
    <3>1. By(id) \in ToSet(delta.ops) /\ By(id).target = id /\ h.nodes[id] = Fresh(By(id).replacement)
      BY <1>8, <1>9, <2>2
    <3> QED
      BY <2>1, <2>2, <3>1
  <2>3. CASE id \notin targets
    BY <1>9, <2>1, <2>3
  <2> QED
    BY <2>2, <2>3
<1> QED
  BY <1>10, <1>11, <1>12

-----------------------------------------------------------------------------
(* StoreIsWhole, by what a round has still to put: every object its manifest  *)
(* names can be read or is still to come, and the manifest comes last.        *)

WorkIsAhead ==
  ~Idle =>
    LET m == round.manifest
    IN  /\ work \in Seq(Objects(m))
        /\ work # <<>> => work[Len(work)] = ManifestObject(m)
        /\ \A k \in 1..Len(work) - 1 : work[k] \in References(m)
        /\ \A o \in References(m) : Readable(o) \/ \E k \in DOMAIN work : work[k] = o
StoreIsRecord == store = [good |-> store.good, bad |-> store.bad]
StoreInv == IsGraph(graph) /\ StoreIsRecord /\ WorkIsAhead /\ StoreIsWhole

(* What an edit brings, or the graph at hand, is a graph.                     *)
LEMMA EditedGraph ==
  ASSUME IsGraph(graph), NEW g \in Graphs \cup {graph}
  PROVE  IsGraph(g)
BY GraphAssumption

(* No object that a manifest names is a manifest.                             *)
LEMMA ReferencesAreNoManifests ==
  ASSUME NEW m, NEW o \in References(m)
  PROVE  o[1] # "manifest"
<1>1. CASE o \in NodeObjects(m.graph)
  <2>1. PICK id \in Ids(m.graph) : o = NodeObject(m.graph.nodes[id])
    BY <1>1 DEF NodeObjects
  <2> QED
    BY <2>1 DEF NodeObject
<1>2. CASE o \in ModuleObjects(m.graph)
  <2>1. PICK mod \in Modules(m.graph) : o = ModuleObject(m.graph, mod)
    BY <1>2 DEF ModuleObjects
  <2>2. o[1] = "module"
    BY <2>1 DEF ModuleObject
  <2> QED
    BY <2>2
<1>3. CASE o \in {EvidenceObject(m), ArtifactObject(m)}
  <2>1. EvidenceObject(m)[1] = "evidence"
    BY DEF EvidenceObject
  <2>2. ArtifactObject(m)[1] = "artifact"
    BY DEF ArtifactObject
  <2> QED
    BY <1>3, <2>1, <2>2
<1> QED
  BY <1>1, <1>2, <1>3 DEF References

(* What follows a place of a sequence.                                        *)
LEMMA RestOfSequence ==
  ASSUME NEW S, NEW s \in Seq(S), NEW k \in 1..Len(s)
  PROVE  /\ SubSeq(s, k + 1, Len(s)) \in Seq(S) /\ Len(SubSeq(s, k + 1, Len(s))) = Len(s) - k
         /\ \A j \in 1..Len(s) - k : SubSeq(s, k + 1, Len(s))[j] = s[k + j]
<1>1. Len(s) \in Nat
  OBVIOUS
<1>2. \A i \in (k + 1)..Len(s) : s[i] \in S
  OBVIOUS
<1>3. SubSeq(s, k + 1, Len(s)) \in Seq(S)
  BY <1>1, <1>2
<1>4. Len(SubSeq(s, k + 1, Len(s))) = Len(s) - k
  BY <1>1
<1>5. \A j \in 1..Len(s) - k : SubSeq(s, k + 1, Len(s))[j] = s[k + j]
  BY <1>1
<1> QED
  BY <1>3, <1>4, <1>5

LEMMA InitWhole == Init => StoreInv
<1> SUFFICES ASSUME Init PROVE StoreInv
  OBVIOUS
<1>1. IsGraph(graph)
  BY GraphAssumption DEF Init
<1>2. StoreIsRecord /\ WorkIsAhead /\ StoreIsWhole
  BY DEF Init, StoreIsRecord, WorkIsAhead, StoreIsWhole, Idle
<1> QED
  BY <1>1, <1>2 DEF StoreInv

(* A round that starts has every object it names before it.                   *)
LEMMA CompileKeepsWhole == StoreInv /\ Compile => StoreInv'
<1> SUFFICES ASSUME StoreInv, Compile PROVE StoreInv'
  OBVIOUS
<1>1. PICK g \in Graphs \cup {graph} : Reuse(g) \/ Unverified(g) \/ Lower(g)
  BY DEF Compile
<1>2. IsGraph(g)
  BY EditedGraph DEF StoreInv
<1>3. IsGraph(WithEffects(g))
  BY <1>2, EffectsAreWritten
<1>4. store' = store /\ touched' = touched /\ Idle
  BY DEF Compile
<1>5. (StoreIsRecord /\ StoreIsWhole)'
  BY <1>4 DEF StoreInv, StoreIsRecord, StoreIsWhole
<1>6. CASE Reuse(g)
  <2>1. graph' = g /\ round' = round /\ work' = work
    BY <1>6 DEF Reuse
  <2>2. WorkIsAhead'
    BY <1>4, <2>1 DEF WorkIsAhead, Idle
  <2> QED
    BY <1>2, <1>5, <2>1, <2>2 DEF StoreInv
<1>7. CASE Unverified(g)
  <2>1. graph' = WithEffects(g) /\ round' = round /\ work' = work
    BY <1>7 DEF Unverified
  <2>2. WorkIsAhead'
    BY <1>4, <2>1 DEF WorkIsAhead, Idle
  <2> QED
    BY <1>3, <1>5, <2>1, <2>2 DEF StoreInv
<1>8. CASE Lower(g)
  <2> DEFINE verified == WithEffects(g)
             lowered == Lowerings(verified, Cache(g))
             m == [graph |-> verified, target |-> comp.target, artifact |-> lowered.payload]
  <2>1. graph' = verified
    BY <1>8 DEF Lower
  <2>2. CASE ~lowered.ok
    <3>1. round' = round /\ work' = work
      BY <1>8, <2>2 DEF Lower
    <3>2. WorkIsAhead'
      BY <1>4, <3>1 DEF WorkIsAhead, Idle
    <3> QED
      BY <1>3, <1>5, <2>1, <3>2 DEF StoreInv
  <2>3. CASE lowered.ok
    <3>1. round' = [manifest |-> m, fragments |-> lowered.fragments, cache |-> Cache(g)] /\ work' = Puts(m)
      BY <1>8, <2>3 DEF Lower
    <3>2. round'.manifest = m
      BY <3>1
    <3>3. IsGraph(m.graph)
      BY <1>3
    <3> HIDE DEF m
    <3>4. WorkIsAhead'
      BY <3>1, <3>2, <3>3, PutsNameTheManifestLast DEF WorkIsAhead
    <3> QED
      BY <1>3, <1>5, <2>1, <3>4 DEF StoreInv
  <2> QED
    BY <2>2, <2>3
<1> QED
  BY <1>1, <1>6, <1>7, <1>8

(* A put brings one object more; the last one, the manifest, comes when every *)
(* object it names can be read.                                               *)
LEMMA PutKeepsWhole == StoreInv /\ PutBlob => StoreInv'
<1> SUFFICES ASSUME StoreInv, PutBlob PROVE StoreInv'
  OBVIOUS
<1> DEFINE m == round.manifest
<1>1. PICK k \in Missing : /\ \A j \in Missing : k <= j
                          /\ store' = Stored(work[k]) /\ touched' = touched \ {work[k]}
                          /\ work' = SubSeq(work, k + 1, Len(work))
  BY DEF PutBlob
<1>2. ~Idle /\ graph' = graph /\ round' = round /\ (~Idle)'
  BY DEF PutBlob, Idle
<1>3. /\ work \in Seq(Objects(m))
      /\ work # <<>> => work[Len(work)] = ManifestObject(m)
      /\ \A j \in 1..Len(work) - 1 : work[j] \in References(m)
      /\ \A o \in References(m) : Readable(o) \/ \E j \in DOMAIN work : work[j] = o
  BY <1>2 DEF StoreInv, WorkIsAhead
<1>4. k \in 1..Len(work) /\ Len(work) \in Nat /\ DOMAIN work = 1..Len(work)
  BY <1>3 DEF Missing
<1>5. \A j \in 1..k - 1 : Readable(work[j])
  BY <1>1, <1>4 DEF Missing
<1>5a. k # Len(work) => k \in 1..Len(work) - 1
  <2>1. \A n \in Nat : \A i \in 1..n : i # n => i \in 1..n - 1
    OBVIOUS
  <2> QED
    BY <1>4, <2>1
<1>6. /\ store'.good = store.good \cup {work[k]} /\ StoreIsRecord'
      /\ \A o : Readable(o)' <=> Readable(o) \/ o = work[k]
  BY <1>1 DEF Stored, StoreIsRecord, Readable
<1>7. /\ work' \in Seq(Objects(m)) /\ Len(work') = Len(work) - k
      /\ \A j \in 1..Len(work) - k : work'[j] = work[k + j]
  BY <1>1, <1>3, <1>4, RestOfSequence
<1> HIDE DEF m
<1>8. WorkIsAhead'
  <2>1. work' # <<>> => work'[Len(work')] = ManifestObject(m)
    BY <1>3, <1>4, <1>7
  <2>2. ASSUME NEW j \in 1..Len(work') - 1 PROVE work'[j] \in References(m)
    <3>1. k + j \in 1..Len(work) - 1 /\ j \in 1..Len(work) - k
      BY <1>4, <1>7
    <3> QED
      BY <1>3, <1>7, <3>1
  <2>3. ASSUME NEW o \in References(m), ~Readable(o)'
        PROVE  \E j \in DOMAIN work' : work'[j] = o
    <3>1. ~Readable(o) /\ o # work[k]
      BY <1>6, <2>3
    <3>2. PICK j \in DOMAIN work : work[j] = o
      BY <1>3, <3>1
    <3>3. j > k
      BY <1>4, <1>5, <3>1, <3>2
    <3>4. j - k \in 1..Len(work) - k /\ k + (j - k) = j
      BY <1>4, <3>2, <3>3
    <3>5. j - k \in DOMAIN work' /\ work'[j - k] = o
      BY <1>7, <3>2, <3>4
    <3> QED
      BY <3>5
  <2>4. round'.manifest = m
    BY <1>2 DEF m
  <2> QED
    BY <1>7, <2>1, <2>2, <2>3, <2>4 DEF WorkIsAhead
<1>9. StoreIsWhole'
  <2> SUFFICES ASSUME NEW o \in store'.good, o[1] = "manifest"
               PROVE  References(o[2]) \subseteq store'.good \cup touched'
    BY DEF StoreIsWhole
  <2>1. store.good \cup touched \subseteq store'.good \cup touched'
    BY <1>1, <1>6
  <2>2. CASE o \in store.good
    BY <2>1, <2>2 DEF StoreInv, StoreIsWhole
  <2>3. CASE o = work[k]
    <3>1. k = Len(work)
      <4> SUFFICES ASSUME k # Len(work) PROVE FALSE
        OBVIOUS
      <4>1. k \in 1..Len(work) - 1
        BY <1>5a
      <4>2. o \in References(m)
        BY <1>3, <2>3, <4>1
      <4> QED
        BY <4>2, ReferencesAreNoManifests
    <3>2. o = ManifestObject(m) /\ o[2] = m
      BY <1>3, <1>4, <2>3, <3>1 DEF ManifestObject
    <3>3. ASSUME NEW r \in References(m) PROVE r \in store'.good
      <4>1. Readable(r) \/ \E j \in DOMAIN work : work[j] = r
        BY <1>3
      <4>2. CASE Readable(r)
        BY <1>6, <4>2 DEF Readable
      <4>3. ASSUME NEW j \in DOMAIN work, work[j] = r PROVE r \in store'.good
        <5>1. j = k \/ j \in 1..k - 1
          BY <1>4, <3>1
        <5> QED
          BY <1>5, <1>6, <4>3, <5>1 DEF Readable
      <4> QED
        BY <4>1, <4>2, <4>3
    <3> QED
      BY <3>2, <3>3
  <2> QED
    BY <1>6, <2>2, <2>3
<1> QED
  BY <1>2, <1>6, <1>8, <1>9 DEF StoreInv

(* A round that ends, or a process that does, leaves the store alone.         *)
LEMMA EndKeepsWhole == StoreInv /\ (PutFails \/ Finish \/ Crash) => StoreInv'
<1> SUFFICES ASSUME StoreInv, PutFails \/ Finish \/ Crash PROVE StoreInv'
  OBVIOUS
<1>1. store' = store /\ touched' = touched /\ round' = NoRound
  BY DEF PutFails, Finish, Crash
<1>2. graph' = graph \/ graph' = GraphHash(graph)
  BY DEF PutFails, Finish, Crash
<1>3. IsGraph(graph')
  BY <1>2, HashIsBare DEF StoreInv
<1>4. (StoreIsRecord /\ StoreIsWhole)'
  BY <1>1 DEF StoreInv, StoreIsRecord, StoreIsWhole
<1>5. WorkIsAhead'
  BY <1>1 DEF WorkIsAhead, Idle
<1> QED
  BY <1>3, <1>4, <1>5 DEF StoreInv

(* What a fault takes from the store it touches, and no round is under way.   *)
LEMMA FaultKeepsWhole == StoreInv /\ (Damage \/ DeleteBlob \/ Clear) => StoreInv'
<1> SUFFICES ASSUME StoreInv, Damage \/ DeleteBlob \/ Clear PROVE StoreInv'
  OBVIOUS
<1>1. Idle /\ graph' = graph /\ round' = round
  BY DEF Damage, DeleteBlob, Clear
<1>2. /\ StoreIsRecord'
      /\ store'.good \subseteq store.good
      /\ store.good \cup touched \subseteq store'.good \cup touched'
  <2>1. store = [good |-> store.good, bad |-> store.bad]
    BY DEF StoreInv, StoreIsRecord
  <2>2. CASE Damage
    BY <2>1, <2>2 DEF Damage, Takes, StoreIsRecord
  <2>3. CASE DeleteBlob
    <3>1. PICK o \in store.good : store' = [store EXCEPT !.good = @ \ {o}] /\ Takes(o)
      BY <2>3 DEF DeleteBlob
    <3>2. store' = [good |-> store.good \ {o}, bad |-> store.bad]
      BY <2>1, <3>1
    <3> QED
      BY <3>1, <3>2 DEF Takes, StoreIsRecord
  <2>4. CASE Clear
    BY <2>4 DEF Clear, StoreIsRecord
  <2> QED
    BY <2>2, <2>3, <2>4
<1>3. StoreIsWhole'
  BY <1>2 DEF StoreInv, StoreIsWhole
<1>4. WorkIsAhead'
  BY <1>1 DEF WorkIsAhead, Idle
<1> QED
  BY <1>1, <1>2, <1>3, <1>4 DEF StoreInv

(* Taking a manifest up, asking for a repair and applying it touch no object. *)
LEMMA RestKeepsWhole ==
  StoreInv /\ (SetPreviousState \/ Offer \/ ApplyRepair \/ UNCHANGED vars) => StoreInv'
<1> SUFFICES ASSUME StoreInv, SetPreviousState \/ Offer \/ ApplyRepair \/ UNCHANGED vars PROVE StoreInv'
  OBVIOUS
<1>1. store' = store /\ touched' = touched /\ round' = round /\ work' = work
  BY DEF SetPreviousState, Offer, ApplyRepair, vars
<1>2. (StoreIsRecord /\ StoreIsWhole)'
  BY <1>1 DEF StoreInv, StoreIsRecord, StoreIsWhole
<1>3. WorkIsAhead'
  BY <1>1 DEF StoreInv, WorkIsAhead, Idle, Readable
<1>4. CASE ApplyRepair
  <2>1. PICK delta \in Acceptable : graph' = WithEffects(Replaced(graph, delta))
    BY <1>4 DEF ApplyRepair
  <2>2. IsGraph(Replaced(graph, delta))
    BY RepairedNodes DEF StoreInv
  <2> QED
    BY <1>2, <1>3, <2>1, <2>2, EffectsAreWritten DEF StoreInv
<1>5. CASE SetPreviousState \/ Offer \/ UNCHANGED vars
  <2>1. graph' = graph
    BY <1>5 DEF SetPreviousState, Offer, vars
  <2> QED
    BY <1>2, <1>3, <2>1 DEF StoreInv
<1> QED
  BY <1>4, <1>5

(* A manifest in the store is never ahead of what it names: every object it   *)
(* needs can be read, but for those that a fault took and no later round has  *)
(* put again (incremental.go:175).                                            *)
THEOREM ManifestsAreBacked == Spec => []StoreIsWhole
<1>1. Init => StoreInv
  BY InitWhole
<1>2. StoreInv /\ [Next]_vars => StoreInv'
  BY CompileKeepsWhole, PutKeepsWhole, EndKeepsWhole, FaultKeepsWhole, RestKeepsWhole DEF Next
<1>3. StoreInv => StoreIsWhole
  BY DEF StoreInv
<1> QED
  BY <1>1, <1>2, <1>3, PTL DEF Spec

-----------------------------------------------------------------------------
(* Repairs.  The graph at hand is one a transport could carry, up to its      *)
(* effects, and a context names nodes of the graph it was made for: one node, *)
(* and what that node uses, or targets of a region.                           *)

ContextIsOf(ctx) ==
  /\ ctx.phase \in {1, 2} /\ ctx.targets \subseteq Ids(ctx.graph)
  /\ ctx.phase = 1 => \E id \in Ids(ctx.graph) :
                        ctx.targets = {id} /\ ctx.allowed = ToSet(Inputs(ctx.graph.nodes[id]))
RegionInv ==
  IsGraph(graph) /\ IsTransport(graph) /\ (context # NoContext => ContextIsOf(context))

(* Effects are all that verification and a hash change in a node.             *)
LEMMA OnlyEffectsChange ==
  ASSUME NEW n, IsNode(n), NEW more
  PROVE  LET m == [n EXCEPT !.effects = @ \cup more]
         IN  /\ Bare(m) = Bare(n) /\ Bare(Bare(n)) = Bare(n)
             /\ m.kind = n.kind /\ m.value = n.value /\ m.inputs = n.inputs
             /\ Bare(n).kind = n.kind /\ Bare(n).value = n.value /\ Bare(n).inputs = n.inputs
BY DEF IsNode, Bare

LEMMA FreshNodes ==
  ASSUME NEW kind, NEW value, NEW inputs
  PROVE  LET n == Node(kind, value, inputs)
         IN  IsNode(n) /\ Bare(n) = n /\ n.kind = kind /\ n.value = value /\ n.inputs = inputs
<1> DEFINE n == Node(kind, value, inputs)
<1>1. n = [kind |-> kind, value |-> value, inputs |-> inputs, effects |-> {}, mod |-> "main", ctrl |-> n.ctrl]
  BY DEF Node
<1> HIDE DEF n
<1>2. n.kind = kind /\ n.value = value /\ n.inputs = inputs /\ n.effects = {} /\ n.mod = "main"
  BY <1>1
<1>3. IsNode(n) /\ Bare(n) = n
  BY <1>1, <1>2 DEF IsNode, Bare
<1> QED
  BY <1>2, <1>3 DEF n

LEMMA TransportsStay ==
  ASSUME NEW g, IsGraph(g), IsTransport(g)
  PROVE  IsTransport(WithEffects(g)) /\ IsTransport(GraphHash(g))
<1>1. ASSUME NEW id \in Ids(g)
      PROVE  LET n == WithEffects(g).nodes[id]
                 b == GraphHash(g).nodes[id]
             IN  Bare(n) = Node(n.kind, n.value, n.inputs) /\ Bare(b) = Node(b.kind, b.value, b.inputs)
  <2> DEFINE n == g.nodes[id]
             more == ForConstruct(n.kind)
  <2>1. IsNode(n) /\ Bare(n) = Node(n.kind, n.value, n.inputs)
    BY DEF IsGraph, IsTransport
  <2>2. /\ WithEffects(g).nodes[id] = [n EXCEPT !.effects = @ \cup more]
        /\ GraphHash(g).nodes[id] = Bare(n)
    BY EffectsAreWritten, HashIsBare
  <2> QED
    BY <2>1, <2>2, OnlyEffectsChange
<1>2. Ids(WithEffects(g)) = Ids(g) /\ Ids(GraphHash(g)) = Ids(g)
  BY EffectsAreWritten, HashIsBare
<1> QED
  BY <1>1, <1>2 DEF IsTransport

(* A node of a repaired graph, verified: that of its operation, or its own.   *)
LEMMA RepairedNode ==
  ASSUME NEW g, IsGraph(g), IsTransport(g), NEW delta, NEW id \in Ids(g)
  PROVE  LET n == WithEffects(Replaced(g, delta)).nodes[id]
         IN  /\ Bare(n) = Node(n.kind, n.value, n.inputs)
             /\ \/ \E op \in ToSet(delta.ops) :
                     /\ op.target = id
                     /\ n.kind = op.replacement.kind /\ n.inputs = op.replacement.inputs
                \/ Bare(n) = Bare(g.nodes[id]) /\ n.kind = g.nodes[id].kind
<1> DEFINE h == Replaced(g, delta)
           n == WithEffects(h).nodes[id]
           o == h.nodes[id]
           Fresh(x) == Node(x.kind, x.value, x.inputs)
<1>1. /\ IsGraph(h) /\ Ids(h) = Ids(g)
      /\ IF \E op \in ToSet(delta.ops) : op.target = id
         THEN \E op \in ToSet(delta.ops) : op.target = id /\ o = Fresh(op.replacement)
         ELSE o = Fresh(g.nodes[id])
  BY RepairedNodes
<1> HIDE DEF h
<1>2. n = [o EXCEPT !.effects = @ \cup ForConstruct(o.kind)]
  BY <1>1, EffectsAreWritten
<1>3. IsNode(o)
  BY <1>1 DEF IsGraph
<1>4. Bare(n) = Bare(o) /\ n.kind = o.kind /\ n.value = o.value /\ n.inputs = o.inputs
  BY <1>2, <1>3, OnlyEffectsChange
<1>5. Bare(g.nodes[id]) = Fresh(g.nodes[id])
  BY DEF IsTransport
<1> HIDE DEF n, o
<1>6. ASSUME NEW op \in ToSet(delta.ops), op.target = id, o = Fresh(op.replacement)
      PROVE  /\ Bare(n) = Fresh(n)
             /\ n.kind = op.replacement.kind /\ n.inputs = op.replacement.inputs
  <2>1. Bare(o) = o /\ o.kind = op.replacement.kind /\ o.value = op.replacement.value
          /\ o.inputs = op.replacement.inputs
    BY <1>6, FreshNodes
  <2> QED
    BY <1>4, <1>6, <2>1
<1>7. ASSUME o = Fresh(g.nodes[id])
      PROVE  /\ Bare(n) = Fresh(n)
             /\ Bare(n) = Bare(g.nodes[id]) /\ n.kind = g.nodes[id].kind
  <2>1. Bare(o) = o /\ o.kind = g.nodes[id].kind /\ o.value = g.nodes[id].value
          /\ o.inputs = g.nodes[id].inputs
    BY <1>7, FreshNodes
  <2> QED
    BY <1>4, <1>5, <1>7, <2>1
<1>8. /\ Bare(n) = Fresh(n)
      /\ \/ \E op \in ToSet(delta.ops) :
              op.target = id /\ n.kind = op.replacement.kind /\ n.inputs = op.replacement.inputs
         \/ Bare(n) = Bare(g.nodes[id]) /\ n.kind = g.nodes[id].kind
  BY <1>1, <1>6, <1>7
<1> QED
  BY <1>8 DEF n, h

(* A context is made for the graph at hand.                                   *)
LEMMA ContextsAreOf ==
  ASSUME IsGraph(graph), NEW ctx \in Contexts
  PROVE  ContextIsOf(ctx)
<1>1. PICK id \in Ids(graph) :
        \/ ctx = NewRepairContext(graph, id)
        \/ ctx = NewSemanticRepairContext(graph, {id})
        \/ ctx = NewLocalizedRepairContext(graph, {id})
  BY DEF Contexts
<1>2. /\ Ids(GraphHash(graph)) = Ids(graph)
      /\ GraphHash(graph).nodes[id] = Bare(graph.nodes[id]) /\ IsNode(graph.nodes[id])
  BY HashIsBare DEF IsGraph
<1>3. Inputs(GraphHash(graph).nodes[id]) = Inputs(graph.nodes[id])
  <2>1. Bare(graph.nodes[id]).inputs = graph.nodes[id].inputs
    BY <1>2, OnlyEffectsChange
  <2> QED
    BY <1>2, <2>1 DEF Inputs
<1>4. CASE ctx = NewRepairContext(graph, id)
  <2>1. /\ ctx.phase = 1 /\ ctx.graph = GraphHash(graph) /\ ctx.targets = {id}
        /\ ctx.allowed = ToSet(Inputs(graph.nodes[id]))
    BY <1>4 DEF NewRepairContext
  <2> QED
    BY <1>2, <1>3, <2>1 DEF ContextIsOf
<1>5. CASE ctx = NewSemanticRepairContext(graph, {id}) \/ ctx = NewLocalizedRepairContext(graph, {id})
  <2>1. ctx.phase = 2 /\ ctx.graph = GraphHash(graph) /\ ctx.targets = {id}
    BY <1>5 DEF NewSemanticRepairContext, NewLocalizedRepairContext, Region
  <2> QED
    BY <1>2, <2>1 DEF ContextIsOf
<1> QED
  BY <1>1, <1>4, <1>5

LEMMA InitRegion == OnlyTransports /\ Init => RegionInv
BY GraphAssumption DEF Init, RegionInv, OnlyTransports

LEMMA NextRegion == OnlyTransports /\ RegionInv /\ [Next]_vars => RegionInv'
<1> SUFFICES ASSUME OnlyTransports, RegionInv, [Next]_vars PROVE RegionInv'
  OBVIOUS
<1>1. IsGraph(graph) /\ IsTransport(graph)
  BY DEF RegionInv
<1>2. CASE Compile
  <2>1. PICK g \in Graphs \cup {graph} : Reuse(g) \/ Unverified(g) \/ Lower(g)
    BY <1>2 DEF Compile
  <2>2. graph' \in {g, WithEffects(g)} /\ context' = context
    BY <1>2, <2>1 DEF Compile, Reuse, Unverified, Lower
  <2>3. IsGraph(g) /\ IsTransport(g)
    BY <1>1, GraphAssumption DEF OnlyTransports
  <2>4. IsGraph(graph') /\ IsTransport(graph')
    BY <2>2, <2>3, EffectsAreWritten, TransportsStay
  <2> QED
    BY <2>2, <2>4 DEF RegionInv
<1>3. CASE PutBlob \/ PutFails \/ Finish \/ SetPreviousState \/ Damage \/ DeleteBlob \/ Clear \/ UNCHANGED vars
  <2>1. graph' = graph /\ context' = context
    BY <1>3 DEF PutBlob, PutFails, Finish, SetPreviousState, Damage, DeleteBlob, Clear, vars
  <2> QED
    BY <2>1 DEF RegionInv
<1>4. CASE Crash
  <2>1. graph' = GraphHash(graph) /\ context' = NoContext
    BY <1>4 DEF Crash
  <2>2. IsGraph(graph') /\ IsTransport(graph')
    BY <1>1, <2>1, HashIsBare, TransportsStay
  <2> QED
    BY <2>1, <2>2 DEF RegionInv
<1>5. CASE Offer
  <2>1. graph' = graph /\ context' \in Contexts
    BY <1>5 DEF Offer
  <2>2. ContextIsOf(context')
    BY <1>1, <2>1, ContextsAreOf
  <2> QED
    BY <1>1, <2>1, <2>2 DEF RegionInv
<1>6. CASE ApplyRepair
  <2>1. PICK delta \in Acceptable : graph' = WithEffects(Replaced(graph, delta))
    BY <1>6 DEF ApplyRepair
  <2>2. context' = NoContext
    BY <1>6 DEF ApplyRepair
  <2>3. IsGraph(Replaced(graph, delta)) /\ Ids(Replaced(graph, delta)) = Ids(graph)
    BY <1>1, RepairedNodes
  <2>4. IsGraph(graph') /\ Ids(graph') = Ids(graph)
    BY <2>1, <2>3, EffectsAreWritten
  <2>5. IsTransport(graph')
    BY <1>1, <2>1, <2>4, RepairedNode DEF IsTransport
  <2> QED
    BY <2>2, <2>4, <2>5 DEF RegionInv
<1> QED
  BY <1>2, <1>3, <1>4, <1>5, <1>6 DEF Next

(* A region of phase 2 is the targets, or the targets and what is near them.  *)
LEMMA AllowedIsWithin ==
  ASSUME IsGraph(graph), NEW ctx, ContextIsOf(ctx), ctx.phase = 2, ctx.graph = GraphHash(graph),
         Trusted(graph, ctx)
  PROVE  ctx.allowed = ctx.editable /\ \A id \in ctx.editable : Within(ctx, id)
<1>1. ctx.allowed = ctx.editable /\ (ctx.editable = ctx.targets \/ ctx.editable = OneHop(graph, ctx.targets))
  <2>1. CASE ctx.targets = ctx.editable
    BY <2>1 DEF Trusted, NewLocalizedRepairContext, Region
  <2>2. CASE ctx.targets # ctx.editable
    <3>1. ctx = NewSemanticRepairContext(graph, ctx.targets)
      BY <2>2 DEF Trusted
    <3> QED
      BY <3>1 DEF NewSemanticRepairContext, Region
  <2> QED
    BY <2>1, <2>2
<1>2. ASSUME NEW id \in Ids(graph) PROVE Inputs(ctx.graph.nodes[id]) = Inputs(graph.nodes[id])
  <2>1. ctx.graph.nodes[id] = Bare(graph.nodes[id]) /\ IsNode(graph.nodes[id])
    BY HashIsBare DEF IsGraph
  <2>2. Bare(graph.nodes[id]).inputs = graph.nodes[id].inputs
    BY <2>1, OnlyEffectsChange
  <2> QED
    BY <2>1, <2>2 DEF Inputs
<1>3. ctx.targets \subseteq Ids(graph)
  BY HashIsBare DEF ContextIsOf
<1>4. ASSUME NEW id \in OneHop(graph, ctx.targets) PROVE Near(ctx.graph, ctx.targets, id)
  <2>1. CASE id \in ctx.targets
    BY <2>1 DEF Near
  <2>2. ASSUME NEW t \in ctx.targets, id \in ToSet(Inputs(graph.nodes[t])) PROVE Near(ctx.graph, ctx.targets, id)
    BY <1>2, <1>3, <2>2 DEF Near
  <2>3. ASSUME id \in Ids(graph), ToSet(Inputs(graph.nodes[id])) \cap ctx.targets # {}
        PROVE  Near(ctx.graph, ctx.targets, id)
    <3>1. PICK t \in ctx.targets : t \in ToSet(Inputs(graph.nodes[id]))
      BY <2>3
    <3>2. t \in ToSet(Inputs(ctx.graph.nodes[id]))
      BY <1>2, <2>3, <3>1
    <3> QED
      BY <3>2 DEF Near
  <2>4. \/ id \in ctx.targets
        \/ \E t \in ctx.targets : id \in ToSet(Inputs(graph.nodes[t]))
        \/ id \in Ids(graph) /\ ToSet(Inputs(graph.nodes[id])) \cap ctx.targets # {}
    <3> DEFINE used == UNION {ToSet(Inputs(graph.nodes[t])) : t \in ctx.targets}
               using == {p \in Ids(graph) : ToSet(Inputs(graph.nodes[p])) \cap ctx.targets # {}}
    <3>1. OneHop(graph, ctx.targets) = ctx.targets \cup using \cup used
      BY DEF OneHop
    <3>2. id \in used => \E t \in ctx.targets : id \in ToSet(Inputs(graph.nodes[t]))
      OBVIOUS
    <3>3. id \in using => id \in Ids(graph) /\ ToSet(Inputs(graph.nodes[id])) \cap ctx.targets # {}
      BY Zenon
    <3> HIDE DEF used, using
    <3> QED
      BY <1>4, <3>1, <3>2, <3>3
  <2> QED
    BY <2>1, <2>2, <2>3, <2>4
<1> QED
  BY <1>1, <1>4 DEF Within

(* What a repair that is accepted does to the graph.                          *)
LEMMA RepairStaysInRegion ==
  ASSUME RegionInv, ApplyRepair
  PROVE  StaysInRegion
<1>1. context # NoContext
  BY DEF ApplyRepair
<1>2. PICK delta \in Acceptable : graph' = WithEffects(Replaced(graph, delta))
  BY DEF ApplyRepair
<1>3. delta \in Deltas(GraphHash(graph)) \cup Deltas(context.graph) /\ Accepts(graph, context, delta)
  BY DEF Acceptable
<1>4. delta.phase = context.phase
  BY <1>3 DEF Deltas
<1>5. context.graph = GraphHash(graph) /\ Authorized(graph, context, delta)
  BY <1>3 DEF Accepts, Stale
<1>6. IsGraph(graph) /\ IsTransport(graph) /\ ContextIsOf(context)
  BY <1>1 DEF RegionInv
<1> DEFINE h == Replaced(graph, delta)
<1>7. IsGraph(h) /\ Ids(h) = Ids(graph) /\ h.entry = graph.entry
  BY <1>6, RepairedNodes
<1>8. Ids(graph') = Ids(graph) /\ graph'.entry = graph.entry
  BY <1>2, <1>7, EffectsAreWritten
<1>9. \A op \in ToSet(delta.ops) :
        /\ op.target \in IF delta.phase = 2 THEN context.editable ELSE context.targets
        /\ op.replacement.kind = graph.nodes[op.target].kind
        /\ ToSet(Inputs(op.replacement)) \subseteq context.allowed
  BY <1>5 DEF Authorized
<1>10. ASSUME NEW id \in Ids(graph)
       PROVE  \/ \E op \in ToSet(delta.ops) :
                   /\ op.target = id
                   /\ graph'.nodes[id].kind = op.replacement.kind
                   /\ graph'.nodes[id].inputs = op.replacement.inputs
              \/ /\ Bare(graph'.nodes[id]) = Bare(graph.nodes[id])
                 /\ graph'.nodes[id].kind = graph.nodes[id].kind
  <2>1. graph'.nodes[id] = WithEffects(Replaced(graph, delta)).nodes[id]
    BY <1>2
  <2> QED
    BY <1>6, <2>1, RepairedNode
<1>11. \A id \in Ids(graph) : graph'.nodes[id].kind = graph.nodes[id].kind
  BY <1>9, <1>10
<1>12. ASSUME NEW id \in Ids(graph), Bare(graph'.nodes[id]) # Bare(graph.nodes[id])
       PROVE  /\ Within(context, id)
              /\ \A i \in ToSet(Inputs(graph'.nodes[id])) :
                   Within(context, i) \/ (context.phase = 1 /\ i \in ToSet(Inputs(graph.nodes[id])))
  <2>1. PICK op \in ToSet(delta.ops) : op.target = id /\ graph'.nodes[id].inputs = op.replacement.inputs
    BY <1>10, <1>12
  <2>2. ToSet(Inputs(graph'.nodes[id])) \subseteq context.allowed
    BY <1>9, <2>1 DEF Inputs
  <2>3. CASE context.phase = 1
    <3>1. PICK t \in Ids(context.graph) :
            context.targets = {t} /\ context.allowed = ToSet(Inputs(context.graph.nodes[t]))
      BY <1>6, <2>3 DEF ContextIsOf
    <3>2. id = t
      BY <1>4, <1>9, <2>1, <2>3, <3>1
    <3>3. context.graph.nodes[id] = Bare(graph.nodes[id]) /\ IsNode(graph.nodes[id])
      BY <1>5, <1>6, HashIsBare DEF IsGraph
    <3>4. Bare(graph.nodes[id]).inputs = graph.nodes[id].inputs
      BY <3>3, OnlyEffectsChange
    <3>5. Inputs(context.graph.nodes[id]) = Inputs(graph.nodes[id])
      BY <3>3, <3>4 DEF Inputs
    <3>6. Within(context, id)
      BY <2>3, <3>1, <3>2 DEF Within
    <3> QED
      BY <2>2, <2>3, <3>1, <3>2, <3>5, <3>6
  <2>4. CASE context.phase = 2
    <3>1. Trusted(graph, context)
      BY <1>4, <1>5, <2>4 DEF Authorized
    <3>2. context.allowed = context.editable /\ \A i \in context.editable : Within(context, i)
      BY <1>5, <1>6, <2>4, <3>1, AllowedIsWithin
    <3>3. id \in context.editable
      BY <1>4, <1>9, <2>1, <2>4
    <3> QED
      BY <2>2, <3>2, <3>3
  <2> QED
    BY <1>6, <2>3, <2>4 DEF ContextIsOf
<1> QED
  BY <1>5, <1>8, <1>11, <1>12 DEF StaysInRegion, Rewritten

(* A repair changes the graph its context was made for and no other, keeps    *)
(* every node's kind and the entry, changes nothing outside the region, and   *)
(* makes no node of the region depend on one outside (model_adapter.go:375).  *)
(* That what it leaves compiles is RepairsStayInRegion's to check.            *)
THEOREM RepairsKeepToRegion ==
  OnlyTransports =>
    (Spec => [][context # NoContext /\ context' = NoContext /\ graph' # GraphHash(graph) => StaysInRegion]_vars)
<1> SUFFICES ASSUME OnlyTransports
             PROVE  Spec => [][context # NoContext /\ context' = NoContext /\ graph' # GraphHash(graph)
                                 => StaysInRegion]_vars
  OBVIOUS
<1> DEFINE Stays == context # NoContext /\ context' = NoContext /\ graph' # GraphHash(graph) => StaysInRegion
<1>1. Init => RegionInv
  BY InitRegion
<1>2. RegionInv /\ [Next]_vars => RegionInv'
  BY NextRegion
<1>3. RegionInv /\ [Next]_vars => [Stays]_vars
  <2> SUFFICES ASSUME RegionInv, Next, context # NoContext, context' = NoContext, graph' # GraphHash(graph)
               PROVE  StaysInRegion
    OBVIOUS
  <2>1. ~Crash
    BY DEF Crash
  <2>2. ~Offer
    BY DEF Offer
  <2>3. ~(Compile \/ PutBlob \/ PutFails \/ Finish \/ SetPreviousState \/ Damage \/ DeleteBlob \/ Clear)
    BY DEF Compile, PutBlob, PutFails, Finish, SetPreviousState, Damage, DeleteBlob, Clear
  <2>4. ApplyRepair
    BY <2>1, <2>2, <2>3 DEF Next
  <2> QED
    BY <2>4, RepairStaysInRegion
<1> HIDE DEF Stays
<1>4. Spec => [][Stays]_vars
  BY <1>1, <1>2, <1>3, PTL DEF Spec
<1> QED
  BY <1>4 DEF Stays
=============================================================================
