--------------------------- MODULE HfirTransport ---------------------------
(* What a model may propose (internal/hfir/model_adapter.go): the graphs its  *)
(* transport accepts (validateTransport), the gate that compiles a candidate  *)
(* (CompileCandidate), and the repairs of one (ApplyRepair).  A transport is  *)
(* a graph without effects, whose control successors are its roles.  Its JSON *)
(* and the limits on its bytes are left out.                                  *)
EXTENDS HfirLowering

CONSTANTS
  MaxCandidateNodes, MaxNodeInputs,       \* maxCandidateNodes, maxNodeInputs
  MaxAdapterDepth, MaxAdapterExpansion,   \* maxAdapterDepth, maxAdapterExpansion
  MaxRepairOperations,                    \* maxRepairOperations
  MaxRepairRegionNodes                    \* maxRepairRegionNodes

FromTransport(g) ==
  [g EXCEPT !.nodes = [id \in Ids(g) |-> Node(g.nodes[id].kind, g.nodes[id].value, g.nodes[id].inputs)]]

(* What a model's graphs are: nothing in a node but what a transport carries. *)
IsTransport(g) == \A id \in Ids(g) : Bare(g.nodes[id]) = Node(g.nodes[id].kind, g.nodes[id].value, g.nodes[id].inputs)

requiresValue(n) ==
  \/ n.kind \in {"symbol", "let", "set", "binary", "convert", "map_delete", "list_get", "append", "map_set", "for",
                 "defun", "param", "call", "try", "catch"}
  \/ n.kind = "map_get" /\ Len(n.inputs) = 1
AllowedBinary == {Name(o) : o \in {"+", "-", "*", "/", "<", ">", "<=", ">=", "==", "!=", "and", "or"}}
AllowedConvert == {Name(o) : o \in {"to_int", "to_float", "to_string", "bytes_to_string", "encode_json", "to_lower",
                                    "to_upper", "str_trim"}}
ValidNode(n) ==
  /\ Len(n.inputs) <= MaxNodeInputs /\ WellShaped(n)
  /\ requiresValue(n) \/ n.kind = "const" => n.value # NoName
  /\ n.kind = "map_get" /\ Len(n.inputs) = 2 => n.value = NoName
  /\ n.kind = "binary" => n.value \in AllowedBinary
  /\ n.kind = "convert" => n.value \in AllowedConvert

Uses(g, id) == {use \in Ids(g) \X (1..MaxNodeInputs) :
                  LET inputs == g.nodes[use[1]].inputs IN use[2] \in DOMAIN inputs /\ inputs[use[2]].id = id}
ValidEntries(g) ==
  LET entries == UNION {ToSet(Inputs(g.nodes[p])) : p \in {q \in Ids(g) : g.nodes[q].kind = "dict"}}
  IN {id \in Ids(g) : g.nodes[id].kind = "dict_entry"} = entries
Acyclic(g) == \A id \in Ids(g) : id \notin ForwardClosure(g, ToSet(Inputs(g.nodes[id])))

Reachable(g) == Ids(g) \subseteq ForwardClosure(g, {g.entry})

(* adapterSharedPure; the sizes count a shared expression once.               *)
Pure(g, id) == \A i \in ForwardClosure(g, {id}) : g.nodes[i].kind \in {"const", "binary"}
Shared(g) == {id \in Ids(g) : Cardinality(Uses(g, id)) > 1 /\ g.nodes[id].kind # "const" /\ Pure(g, id)}
Sum(s) == FoldLeft(LAMBDA a, b : a + b, 0, s)
Deepest(s) == FoldLeft(LAMBDA a, b : IF a > b THEN a ELSE b, 0, s)
ValidExpansion(g) ==
  LET shared == Shared(g)
      depth[id \in Ids(g)] == 1 + Deepest([i \in DOMAIN g.nodes[id].inputs |-> depth[g.nodes[id].inputs[i].id]])
      size[id \in Ids(g)] ==
        1 + Sum([i \in DOMAIN g.nodes[id].inputs |->
                   LET child == g.nodes[id].inputs[i].id IN IF child \in shared THEN 1 ELSE size[child]])
  IN depth[g.entry] <= MaxAdapterDepth /\ size[g.entry] <= MaxAdapterExpansion

(* A return is inside the body of a defun, or is a statement of the main      *)
(* program, outside loops, tries and expressions.                             *)
InputsAs(g, id, roles) == {g.nodes[id].inputs[i].id : i \in {j \in DOMAIN g.nodes[id].inputs : g.nodes[id].inputs[j].role \in roles}}
TailRoles(kind) ==
  CASE kind \in {"program", "sequence", "let"} -> {"body"}
    [] kind = "if" -> {"then", "else"}
    [] OTHER -> {}
ValidReturns(g) ==
  LET inDefun == ForwardClosure(g, UNION {InputsAs(g, id, {"body"}) : id \in {i \in Ids(g) : g.nodes[i].kind = "defun"}})
      tail[k \in 0..Cardinality(Ids(g))] ==
        IF k = 0 THEN {g.entry}
        ELSE LET sofar == tail[k - 1]
             IN sofar \cup UNION {InputsAs(g, id, TailRoles(g.nodes[id].kind)) : id \in sofar}
  IN \A id \in Ids(g) : g.nodes[id].kind = "return" => id \in inDefun \cup tail[Cardinality(Ids(g))]

(* The types of the values known before a run.                                *)
Suits(type, wanted) == type \in {wanted, "unknown"}
BinaryType(o, l, r) ==
  CASE o \in {"and", "or"} -> IF Suits(l, "bool") /\ Suits(r, "bool") THEN "bool" ELSE "invalid"
    [] o \in {"<", ">", "<=", ">=", "==", "!="} -> IF Suits(l, r) \/ r = "unknown" THEN "bool" ELSE "invalid"
    [] o = "+" /\ "string" \in {l, r} -> IF Suits(l, "string") /\ Suits(r, "string") THEN "string" ELSE "invalid"
    [] o = "+" /\ l = "unknown" /\ r = "unknown" -> "unknown"
    [] OTHER -> IF Suits(l, "number") /\ Suits(r, "number") THEN "number" ELSE "invalid"
TypeOf(n, left, right) ==
  CASE n.kind = "const" -> IF IsText(n.value) THEN "string" ELSE IF IsBool(n.value) THEN "bool" ELSE "number"
    [] n.kind = "dict" -> "dict"
    [] n.kind \in {"list", "str_split"} -> "list"
    [] n.kind \in {"env", "str_join", "html_escape", "attr_escape"} -> "string"
    [] n.kind = "convert" -> IF n.value \in {Name("to_int"), Name("to_float")} THEN "number" ELSE "string"
    [] n.kind = "list_len" -> "number"
    [] n.kind = "binary" -> BinaryType(n.value[1], left, right)
    [] OTHER -> "unknown"
ValidTypes(g) ==
  LET type[id \in Ids(g)] ==
        LET n == g.nodes[id] IN
        IF n.kind = "binary" THEN TypeOf(n, type[n.inputs[1].id], type[n.inputs[2].id]) ELSE TypeOf(n, "", "")
  IN \A id \in Ids(g) :
       /\ type[id] # "invalid"
       /\ g.nodes[id].kind = "sleep" => Suits(type[g.nodes[id].inputs[1].id], "number")

(* No input that takes a value may be a node that leaves none.                *)
ValueLess == {"write_file", "mkdir", "print", "stderr", "exit", "set", "map_set", "map_delete", "append", "sleep",
              "for", "while", "defun", "return"}
StatementRoles(kind) ==
  CASE kind \in {"program", "sequence", "let", "catch", "for", "while"} -> {"body"}
    [] kind = "if" -> {"then", "else"}
    [] kind = "try" -> {"success_body", "catch"}
    [] kind = "defun" -> {"param", "body"}
    [] OTHER -> {}
ValidValueRoles(g) ==
  LET final(n) == n.inputs[Len(n.inputs)].id
      diverges[id \in Ids(g)] ==
        LET n == g.nodes[id] IN
        n.kind \in {"exit", "return"} \/ (n.kind \in {"sequence", "let"} /\ n.inputs # <<>> /\ diverges[final(n)])
      noValue[id \in Ids(g)] ==
        LET n == g.nodes[id]
            branch(i) == ~diverges[i] /\ noValue[i]
        IN CASE n.kind = "let" -> noValue[final(n)]
             [] n.kind = "sequence" -> n.inputs = <<>> \/ noValue[final(n)]
             [] n.kind = "if" -> Len(n.inputs) < 3 \/ branch(n.inputs[2].id) \/ branch(n.inputs[3].id)
             [] n.kind = "try" -> branch(n.inputs[2].id) \/ branch(g.nodes[n.inputs[3].id].inputs[1].id)
             [] OTHER -> n.kind \in ValueLess
  IN \A p \in Ids(g) : \A e \in ToSet(g.nodes[p].inputs) :
       e.role \in StatementRoles(g.nodes[p].kind) \/ ~noValue[e.id]

(* A node with an effect has one consumer.                                    *)
Effectful == {"set", "map_set", "map_delete", "append", "print", "stderr", "exit", "env", "read_file", "write_file",
              "mkdir", "exec", "fetch", "sleep", "time_now", "cli_args", "call", "return", "defun", "try", "for",
              "while", "parse_json"}

ValidTransport(g) ==
  /\ Cardinality(Ids(g)) \in 1..MaxCandidateNodes
  /\ \A id \in Ids(g) : ValidNode(g.nodes[id])
  /\ g.entry \in Ids(g) /\ g.nodes[g.entry].kind = "program"
  /\ \A id \in Ids(g) : ToSet(Inputs(g.nodes[id])) \subseteq Ids(g)
  /\ ValidEntries(g) /\ Acyclic(g) /\ ValidExpansion(g) /\ ValidReturns(g) /\ ValidTypes(g) /\ ValidValueRoles(g)
  /\ \A id \in Ids(g) : g.nodes[id].kind \in Effectful => Cardinality(Uses(g, id)) <= 1
  /\ Reachable(g)

NothingCached == [id \in {} |-> <<>>]
CompilesCandidate(g) ==
  /\ ValidTransport(g) /\ Verifies(g, "bytecode")
  /\ Lowers(g, NothingCached) /\ ValidProgram(Lowering(g, NothingCached, Shared(g)))

(* A repair context: the graph it was made for, its targets, the nodes a      *)
(* repair may replace and the nodes a replacement may name, and how many      *)
(* operations it takes; a context of phase 2 also fixes every other node.     *)
OneHop_Twice(g, ids) == LET once(S) == S \cup {p \in Ids(g) : ToSet(Inputs(g.nodes[p])) \cap S # {}}
                                         \cup UNION {ToSet(Inputs(g.nodes[id])) : id \in S}
                        IN once(once(ids))
OneHop(g, ids) == ids \cup {p \in Ids(g) : ToSet(Inputs(g.nodes[p])) \cap ids # {}}
                      \cup UNION {ToSet(Inputs(g.nodes[id])) : id \in ids}
NewRepairContext(g, id) ==
  [phase |-> 1, graph |-> GraphHash(g), targets |-> {id}, editable |-> {id},
   allowed |-> ToSet(Inputs(g.nodes[id])), protected |-> <<>>, max |-> 1]
Region(g, targets, ids) ==
  [phase |-> 2, graph |-> GraphHash(g), targets |-> targets, editable |-> ids, allowed |-> ids,
   protected |-> [id \in Ids(g) \ ids |-> Bare(g.nodes[id])], max |-> MaxRepairOperations]
NewSemanticRepairContext(g, targets) == Region(g, targets, OneHop(g, targets))
NewLocalizedRepairContext(g, core) == Region(g, core, core)

(* A delta: its phase, the graph and the protected nodes it expects, and its  *)
(* operations, each [target, expected, replacement].  It is applied to the    *)
(* graph it was made for only, through a context that is the one derived from *)
(* that graph, and the repaired graph must pass the whole gate again.         *)
Trusted(g, ctx) ==
  LET derived == IF ctx.targets = ctx.editable THEN NewLocalizedRepairContext(g, ctx.editable)
                 ELSE NewSemanticRepairContext(g, ctx.targets)
  IN ctx = derived /\ Cardinality(ctx.editable) <= MaxRepairRegionNodes
Stale(g, ctx, delta) == ctx.graph # GraphHash(g) \/ delta.graph # GraphHash(g)
Authorized(g, ctx, delta) ==
  /\ delta.phase = 1 => delta.protected = <<>> /\ Len(delta.ops) = 1 /\ ctx.max = 1
  /\ delta.phase = 2 => /\ ctx.phase = 2 /\ Trusted(g, ctx)
                        /\ delta.protected = ctx.protected /\ Len(delta.ops) \in 1..ctx.max
  /\ \A i, j \in DOMAIN delta.ops : i # j => delta.ops[i].target # delta.ops[j].target
  /\ \A op \in ToSet(delta.ops) :
       /\ op.target \in IF delta.phase = 2 THEN ctx.editable ELSE ctx.targets
       /\ op.target \in Ids(g) /\ op.expected = Bare(g.nodes[op.target])
       /\ op.replacement.kind = g.nodes[op.target].kind
       /\ ToSet(Inputs(op.replacement)) \subseteq ctx.allowed
Replaced(g, delta) ==
  LET by(id) == CHOOSE op \in ToSet(delta.ops) : op.target = id
      targets == {op.target : op \in ToSet(delta.ops)}
  IN FromTransport([g EXCEPT !.nodes = [id \in Ids(g) |-> IF id \in targets THEN by(id).replacement ELSE g.nodes[id]]])
Keeps(ctx, h) == ctx.phase = 2 => \A id \in DOMAIN ctx.protected : id \in Ids(h) /\ Bare(h.nodes[id]) = ctx.protected[id]
Accepts(g, ctx, delta) ==
  /\ ~Stale(g, ctx, delta) /\ Authorized(g, ctx, delta)
  /\ LET h == Replaced(g, delta) IN
     ValidTransport(h) /\ (delta.phase = 2 => Keeps(ctx, h)) /\ CompilesCandidate(h)
=============================================================================
