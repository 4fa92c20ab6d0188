---------------------------- MODULE HfirSession ----------------------------
(* A graph that is edited, compiled and repaired: the incremental compiler    *)
(* (internal/hfir/incremental.go) with the objects it keeps in a content-     *)
(* addressed store (storage.go, manifest.go), and a model's repairs of the    *)
(* graph between two rounds (model_adapter.go).  A store may lose or damage   *)
(* an object, a put may fail, and the process may stop between two puts.      *)
(* Two objects have one hash if and only if they are equal.                   *)
EXTENDS HfirTransport

CONSTANTS
  Graphs,                            \* the graphs an edit may bring
  Replacements,                      \* the nodes a repair may propose
  Targets,                           \* what a process compiles for
  MaxEvents                          \* compilations, faults, crashes and repairs

(* A graph has finitely many nodes, which are numbered.                       *)
IsNode(n) == n = [kind |-> n.kind, value |-> n.value, inputs |-> n.inputs, effects |-> n.effects, mod |-> n.mod,
                  ctrl |-> n.ctrl]
IsGraph(g) ==
  /\ g = [entry |-> g.entry, nodes |-> [id \in Ids(g) |-> g.nodes[id]]]
  /\ Ids(g) \subseteq Nat /\ IsFiniteSet(Ids(g))
  /\ \A id \in Ids(g) : IsNode(g.nodes[id])
ASSUME GraphAssumption == \A g \in Graphs : IsGraph(g)
(* What the theorem about repairs asks of the graphs besides.                 *)
OnlyTransports == \A g \in Graphs : IsTransport(g)

VARIABLES
  graph,     \* the graph at hand
  comp,      \* the compiler: its target, its last manifest, its cached fragments
  round,     \* the compilation in progress
  work,      \* the objects it still has to put
  store,     \* the objects that can be read, and those whose bytes were damaged
  touched,   \* the objects a fault took, until they are put again
  result,    \* the answer of a compilation that has just ended
  context,   \* the repair context handed out
  count      \* how many of these there were
vars == <<graph, comp, round, work, store, touched, result, context, count>>

NoManifest == [target |-> "none"]
NoRound == [manifest |-> NoManifest]
NoContext == [phase |-> 0]
NoResult == [outcome |-> "none"]
Idle == round = NoRound
Counts == count < MaxEvents /\ count' = count + 1
Silent == result' = NoResult

(* The objects of a manifest, which is the graph with its effects, the target *)
(* and the artifact: its nodes, its modules, the evidence and the artifact.   *)
NodeObject(n) == <<"node", n>>
ModuleObject(g, mod) == <<"module", [id \in {i \in Ids(g) : g.nodes[i].mod = mod} |-> g.nodes[id]]>>
EvidenceObject(m) == <<"evidence", [graph |-> GraphHash(m.graph), target |-> m.target,
                                    effects |-> UNION {m.graph.nodes[id].effects : id \in Ids(m.graph)}]>>
ArtifactObject(m) == <<"artifact", m.artifact>>
ManifestObject(m) == <<"manifest", m>>
Modules(g) == {g.nodes[id].mod : id \in Ids(g)}
NodeObjects(g) == {NodeObject(g.nodes[id]) : id \in Ids(g)}
ModuleObjects(g) == {ModuleObject(g, mod) : mod \in Modules(g)}
References(m) == NodeObjects(m.graph) \cup ModuleObjects(m.graph) \cup {EvidenceObject(m), ArtifactObject(m)}

(* The order of a round's puts: the nodes in the order of the graph, the      *)
(* modules in that of their first nodes (a module is named again at every     *)
(* other node, where its put finds it), and what names them after them.       *)
InOrder(g) == [k \in 1..Cardinality(Ids(g)) |-> CHOOSE id \in Ids(g) : Cardinality({i \in Ids(g) : i <= id}) = k]
PutNodes(g) == [k \in DOMAIN InOrder(g) |-> NodeObject(g.nodes[InOrder(g)[k]])]
PutModules(g) == [k \in DOMAIN InOrder(g) |-> ModuleObject(g, g.nodes[InOrder(g)[k]].mod)]
Puts_ManifestFirst(m) ==
  <<ManifestObject(m)>> \o PutNodes(m.graph) \o PutModules(m.graph) \o <<EvidenceObject(m), ArtifactObject(m)>>
Puts(m) == PutNodes(m.graph) \o PutModules(m.graph) \o <<EvidenceObject(m), ArtifactObject(m), ManifestObject(m)>>

(* ValidateAgainstStore, and the checks of Compile before it answers with     *)
(* what an earlier round left.                                                *)
Readable(o) == o \in store.good
ValidateAgainstStore(m) == \A o \in References(m) : Readable(o)

(* What Compile compares: the nodes that differ from the manifest's, those    *)
(* that are gone, and the entry when anything did; what depends on them,      *)
(* in this graph or in the last, is affected, and the rest is preserved.      *)
Removed(g) == Ids(comp.last.graph) \ Ids(g)
Differing(g) ==
  {id \in Ids(g) : id \notin Ids(comp.last.graph) \/ g.nodes[id] # comp.last.graph.nodes[id]}
Changed(g) ==
  IF comp.last = NoManifest THEN Ids(g)
  ELSE Differing(g) \cup Removed(g)
         \cup IF GraphHash(comp.last.graph) # GraphHash(g) THEN {g.entry} ELSE {}
Affected(g) ==
  IF comp.last = NoManifest THEN Ids(g)
  ELSE ReverseClosure(g, Changed(g)) \cup ReverseClosure(comp.last.graph, Removed(g))
Preserved(g) == Ids(g) \ Affected(g)
Reusable(g) ==
  /\ comp.last # NoManifest /\ Changed(g) = {} /\ comp.last.target = comp.target
  /\ GraphHash(comp.last.graph) = GraphHash(g)
  /\ ValidateAgainstStore(comp.last)
Cache(g) == [id \in DOMAIN comp.cached \cap Preserved(g) |-> comp.cached[id]]

(* The payload of an artifact: a program without the origins of its           *)
(* instructions, or, for another target than bytecode, the graph.             *)
Erased(code) == [i \in DOMAIN code |-> [code[i] EXCEPT !.origin = 0]]
Payload(p) == [main |-> Erased(p.main),
               functions |-> [f \in DOMAIN p.functions |-> [p.functions[f] EXCEPT !.code = Erased(@)]]]
Answer(how, g, payload, cache) ==
  [outcome |-> how, of |-> g, target |-> comp.target, artifact |-> payload, cache |-> cache]

Lowerings(g, cache) ==
  IF comp.target # "bytecode" THEN [ok |-> TRUE, payload |-> g, fragments |-> NothingCached]
  ELSE IF Lowers(g, cache) /\ ValidProgram(Lowering(g, cache, {}))
  THEN LET p == Lowering(g, cache, {}) IN [ok |-> TRUE, payload |-> Payload(p), fragments |-> p.fragments]
  ELSE [ok |-> FALSE]

(* Compile, of the graph at hand or of an edited one.  Verification writes    *)
(* its effects into the graph.                                                *)
Reuse(g) ==
  /\ Reusable(g)
  /\ graph' = g /\ result' = Answer("reused", g, comp.last.artifact, NothingCached)
  /\ UNCHANGED <<round, work>>
Unverified(g) ==
  /\ ~Reusable(g) /\ ~Verifies(g, comp.target)
  /\ graph' = WithEffects(g) /\ result' = Answer("unverified", g, <<>>, NothingCached)
  /\ UNCHANGED <<round, work>>
Lower(g) ==
  LET verified == WithEffects(g)
      lowered == Lowerings(verified, Cache(g))
      manifest == [graph |-> verified, target |-> comp.target, artifact |-> lowered.payload]
  IN /\ ~Reusable(g) /\ Verifies(g, comp.target)
     /\ graph' = verified
     /\ IF lowered.ok
        THEN /\ round' = [manifest |-> manifest, fragments |-> lowered.fragments, cache |-> Cache(g)]
             /\ work' = Puts(manifest)
             /\ Silent
        ELSE /\ result' = Answer("unlowered", verified, <<>>, Cache(g))
             /\ UNCHANGED <<round, work>>
Compile ==
  /\ Idle /\ Counts
  /\ \E g \in Graphs \cup {graph} : Reuse(g) \/ Unverified(g) \/ Lower(g)
  /\ UNCHANGED <<comp, store, touched, context>>

(* PutBlob leaves an object alone that can be read, and writes any other,     *)
(* over a damaged one too.                                                    *)
Missing == {k \in DOMAIN work : ~Readable(work[k])}
Stored(o) == [good |-> store.good \cup {o}, bad |-> store.bad \ {o}]
PutBlob ==
  /\ ~Idle
  /\ \E k \in Missing :
       /\ \A j \in Missing : k <= j
       /\ store' = Stored(work[k]) /\ touched' = touched \ {work[k]}
       /\ work' = SubSeq(work, k + 1, Len(work))
  /\ Silent /\ UNCHANGED <<graph, comp, round, context, count>>
PutFails ==
  /\ ~Idle /\ Missing # {} /\ Counts
  /\ round' = NoRound /\ work' = <<>>
  /\ result' = Answer("unstored", graph, <<>>, NothingCached)
  /\ UNCHANGED <<graph, comp, store, touched, context>>
Finish ==
  /\ ~Idle /\ Missing = {}
  /\ comp' = [comp EXCEPT !.last = round.manifest, !.cached = round.fragments]
  /\ result' = Answer("built", graph, round.manifest.artifact, round.cache)
  /\ round' = NoRound /\ work' = <<>>
  /\ UNCHANGED <<graph, store, touched, context, count>>

(* A new process reads its graph again, without effects, and may take up a    *)
(* manifest it finds in the store (SetPreviousState).                         *)
Crash ==
  /\ Counts
  /\ \E t \in Targets : comp' = [target |-> t, last |-> NoManifest, cached |-> NothingCached]
  /\ graph' = GraphHash(graph)
  /\ round' = NoRound /\ work' = <<>> /\ context' = NoContext /\ Silent
  /\ UNCHANGED <<store, touched>>
SetPreviousState ==
  /\ Idle /\ comp.last = NoManifest
  /\ \E o \in store.good : o[1] = "manifest" /\ comp' = [comp EXCEPT !.last = o[2]]
  /\ Silent /\ UNCHANGED <<graph, round, work, store, touched, context, count>>

(* Between two rounds the store loses or damages an object.                   *)
Takes(o) == touched' = touched \cup {o}
Damage ==
  /\ Idle /\ Counts
  /\ \E o \in store.good : store' = [good |-> store.good \ {o}, bad |-> store.bad \cup {o}] /\ Takes(o)
  /\ Silent /\ UNCHANGED <<graph, comp, round, work, context>>
DeleteBlob ==
  /\ Idle /\ Counts
  /\ \E o \in store.good : store' = [store EXCEPT !.good = @ \ {o}] /\ Takes(o)
  /\ Silent /\ UNCHANGED <<graph, comp, round, work, context>>
Clear ==
  /\ Idle /\ Counts /\ store.good # {}
  /\ touched' = touched \cup store.good
  /\ store' = [good |-> {}, bad |-> {}]
  /\ Silent /\ UNCHANGED <<graph, comp, round, work, context>>

(* After an answer a model may be asked for a repair of some nodes of the     *)
(* graph; it comes back as a delta against the graph the model saw, or the    *)
(* graph at hand.                                                             *)
Contexts ==
  IF ~ValidTransport(graph) THEN {}
  ELSE UNION {{NewRepairContext(graph, id), NewSemanticRepairContext(graph, {id}), NewLocalizedRepairContext(graph, {id})} :
                id \in Ids(graph)}
Offer ==
  /\ result # NoResult /\ context = NoContext /\ Counts /\ context' \in Contexts
  /\ Silent /\ UNCHANGED <<graph, comp, round, work, store, touched>>

Operations(seen) ==
  {[target |-> id, expected |-> seen.nodes[id], replacement |-> n] : id \in Ids(seen), n \in Replacements}
Suitable(seen) == {op \in Operations(seen) : op.replacement.kind = op.expected.kind}
Deltas(seen) ==
  {[phase |-> context.phase, graph |-> seen, protected |-> context.protected, ops |-> ops] :
     ops \in {<<op>> : op \in Operations(seen)}
               \cup {ops \in Suitable(seen) \X Suitable(seen) : ops[1].target < ops[2].target}}
Acceptable == {delta \in Deltas(GraphHash(graph)) \cup Deltas(context.graph) : Accepts(graph, context, delta)}
ApplyRepair ==
  /\ Idle /\ context # NoContext
  /\ \E delta \in Acceptable : graph' = WithEffects(Replaced(graph, delta))
  /\ context' = NoContext
  /\ Silent /\ UNCHANGED <<comp, round, work, store, touched, count>>

Init ==
  /\ graph \in Graphs
  /\ comp \in [target : Targets, last : {NoManifest}, cached : {NothingCached}]
  /\ round = NoRound /\ work = <<>> /\ store = [good |-> {}, bad |-> {}] /\ touched = {}
  /\ result = NoResult /\ context = NoContext
  /\ count = 0
Next ==
  \/ Compile \/ PutBlob \/ PutFails \/ Finish
  \/ Crash \/ SetPreviousState \/ Damage \/ DeleteBlob \/ Clear
  \/ Offer \/ ApplyRepair
Spec == Init /\ [][Next]_vars
-----------------------------------------------------------------------------
(* A round that answers, whether it lowered everything, took fragments of an  *)
(* earlier round or answered with an earlier artifact, answers what a round   *)
(* from nothing would; only functions whose definitions lie inside a fragment *)
(* it took may be missing, and none that is called.  A round that fails to    *)
(* lower fails from nothing too, unless it took such a fragment.              *)
Clean(r) == Lowering(r.of, NothingCached, {})
Hidden(r) ==
  {r.of.nodes[id].value : id \in {i \in ForwardClosure(r.of, DOMAIN r.cache) \cap Ids(r.of) : r.of.nodes[i].kind = "defun"}}
AnswersClean(r) ==
  /\ r.outcome \in {"built", "reused"} => Verifies(r.of, r.target)
  /\ r.outcome \in {"built", "reused"} /\ r.target = "bytecode" =>
       /\ Lowers(r.of, NothingCached) /\ ValidProgram(r.artifact)
       /\ LET clean == Payload(Clean(r)) IN
          /\ r.artifact.main = clean.main
          /\ DOMAIN clean.functions \ DOMAIN r.artifact.functions \subseteq Hidden(r)
          /\ \A f \in DOMAIN r.artifact.functions : f \in DOMAIN clean.functions /\ r.artifact.functions[f] = clean.functions[f]
  /\ r.outcome \in {"built", "reused"} /\ r.target # "bytecode" => GraphHash(r.artifact) = GraphHash(r.of)
  /\ r.outcome = "unlowered" => Hidden(r) # {} \/ ~(Lowers(r.of, NothingCached) /\ ValidProgram(Clean(r)))
IncrementalIsClean == result # NoResult => AnswersClean(result)

(* A manifest in the store is never ahead of what it names: whatever round    *)
(* wrote it or stopped half-way, every object it needs can be read, but for   *)
(* those that a fault took and no later round has put again.                  *)
StoreIsWhole == \A o \in store.good : o[1] = "manifest" => References(o[2]) \subseteq store.good \cup touched

(* A repair changes the graph its context was made for and no other, keeps    *)
(* every node's kind and the entry, changes nothing outside the region (the   *)
(* target, or the targets and what they use or are used by), and makes no     *)
(* node of the region depend on one outside; and what it leaves compiles.     *)
Near(g, ids, id) == id \in ids \/ \E t \in ids : id \in ToSet(Inputs(g.nodes[t])) \/ t \in ToSet(Inputs(g.nodes[id]))
Within(ctx, id) ==
  IF ctx.phase = 1 \/ ctx.editable = ctx.targets THEN id \in ctx.targets ELSE Near(ctx.graph, ctx.targets, id)
Rewritten == {id \in Ids(graph) : Bare(graph'.nodes[id]) # Bare(graph.nodes[id])}
StaysInRegion ==
  /\ context.graph = GraphHash(graph)
  /\ Ids(graph') = Ids(graph) /\ graph'.entry = graph.entry
  /\ \A id \in Ids(graph) : graph'.nodes[id].kind = graph.nodes[id].kind
  /\ \A id \in Rewritten :
       /\ Within(context, id)
       /\ \A i \in ToSet(Inputs(graph'.nodes[id])) :
            Within(context, i) \/ (context.phase = 1 /\ i \in ToSet(Inputs(graph.nodes[id])))
RepairStays ==
  StaysInRegion /\ Lowers(graph', NothingCached) /\ ValidProgram(Lowering(graph', NothingCached, {}))
RepairsStayInRegion == [][context # NoContext /\ context' = NoContext /\ graph' # GraphHash(graph) => RepairStays]_vars
=============================================================================
