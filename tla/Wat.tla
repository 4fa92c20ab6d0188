--------------------------------- MODULE Wat ---------------------------------
(* An SSA graph as folded WebAssembly (internal/backend/wasm/                 *)
(* ssa_serializer.go, and ssaWasmProgram and compileToWasm in howlframe.go),  *)
(* and what a machine computes from it: integers wrap at their width, a truth *)
(* value is 0 or 1.  An expression is a record whose op is its instruction.   *)
EXTENDS Ssa, Data
LOCAL INSTANCE SequencesExt
LOCAL INSTANCE TLC

CONSTANT Fuel   \* calls, and turns of a loop, after which a run is taken to go on for ever

Refused == [ok |-> FALSE]
WasmType(type) == CASE type.kind = "int" -> "i64" [] type.kind = "bool" -> "i32" [] OTHER -> "none"
Expression(e, type) == [ok |-> type # "none", expr |-> e, type |-> type]

(* The flow of control of a graph.                                            *)
Targets(g, l) ==
  CASE g[l].term.kind = "jump" -> {g[l].term.to}
    [] g[l].term.kind = "branch" -> {g[l].term.then, g[l].term.else}
    [] OTHER -> {}
RECURSIVE Reached(_, _, _)
Reached(g, from, without) ==
  LET more == (UNION {Targets(g, l) : l \in from}) \ (from \cup without) IN
  IF more = {} THEN from ELSE Reached(g, from \cup more, without)
Reachable(g, without) == IF Entry \in without THEN {} ELSE Reached(g, {Entry}, without)

(* detectAndValidateLoop: a depth-first search meets a block on its stack     *)
(* just along the edges to a block that every way to their source leads       *)
(* through.  One such edge is a loop, two are nested or successive ones.      *)
BackEdges(g) ==
  {e \in UNION {{<<l, t>> : t \in Targets(g, l)} : l \in Reachable(g, {})} : e[1] \notin Reachable(g, {e[2]})}
Phis(g, l) == SelectSeq(g[l].code, LAMBDA i : i.op = "phi")

(* validateLoopShape.                                                         *)
LoopOf(g, e) ==
  LET phis == Phis(g, e[2])
      before == {l \in DOMAIN g \ {e[1], e[2]} : g[l].term = Jump(e[2])}
      pre == CHOOSE l \in before : TRUE
  IN [ok |-> /\ g[e[2]].term.kind = "branch"
             /\ phis # <<>>
             /\ g[e[1]].term = Jump(e[2])
             /\ Cardinality(before) = 1
             /\ \A i \in DOMAIN phis : Len(phis[i].from) = 2 /\ {pre, e[1]} \subseteq ToSet(phis[i].from),
      phis |-> phis, preheader |-> pre, header |-> e[2], body |-> e[1], exit |-> g[e[2]].term.else]

(* The serializer of a graph g: its loop if there is one, and the signatures  *)
(* of the functions.                                                          *)
InLoop(z, v) == \E i \in DOMAIN z.phis : z.phis[i].id = v
InOrder(labels) == SetToSortSeq(labels, LAMBDA a, b : a < b)
Branches(z) == InOrder({l \in DOMAIN z.g : z.g[l].term.kind = "branch"})
Returns(z) == InOrder({l \in DOMAIN z.g : z.g[l].term.kind = "return"})
FirstOf(labels, Test(_)) == LET found == SelectSeq(labels, Test) IN IF found = <<>> THEN <<>> ELSE <<found[1]>>

(* ssaWasmOperator: what an operator takes, given its left operand, and what  *)
(* it gives.  Floats and division are left out: no program here has them.     *)
OperandType(o, left) ==
  CASE o \in {"and", "or"} -> "i32"
    [] o \in {"==", "!=", "="} -> left
    [] OTHER -> "i64"
ResultType(o) == IF o \in Checks!Logical \cup Checks!Comparisons THEN "i32" ELSE "i64"
Operators == Checks!Logical \cup Checks!Comparisons \cup {"+", "-", "*"}

(* expression: values are computed where they are used, from the graph; a     *)
(* value the loop carries is read from its local.                             *)
RECURSIVE Expr(_, _)

Literal(i) ==
  CASE i.type.kind = "int" -> Expression([op |-> "const", val |-> i.lit[2]], "i64")
    [] i.type.kind = "bool" -> Expression([op |-> "const", val |-> i.lit[2]], "i32")
    [] OTHER -> Refused

Binary(z, i) ==
  IF Len(i.args) # 2 \/ i.op \notin Operators THEN Refused
  ELSE LET l == Expr(z, i.args[1])
           r == Expr(z, i.args[2])
       IN IF ~(l.ok /\ r.ok) THEN Refused
          ELSE IF l.type # OperandType(i.op, l.type) \/ r.type # l.type THEN Refused
          ELSE IF WasmType(i.type) # ResultType(i.op) THEN Refused
          ELSE Expression([op |-> "binary", o |-> i.op, l |-> l.expr, r |-> r.expr], ResultType(i.op))

(* phi: the value of the arm taken, for the first branch whose two targets    *)
(* are the blocks the phi comes from.                                         *)
Arms(z, i, l) ==
  LET from(target) == {n \in DOMAIN i.from : i.from[n] = target}
      yes == from(z.g[l].term.then)
      no == from(z.g[l].term.else)
  IN IF yes = {} \/ no = {} THEN <<>> ELSE <<i.args[CHOOSE n \in yes : TRUE], i.args[CHOOSE n \in no : TRUE]>>
Choice(z, cond, arms, type) ==
  LET c == Expr(z, cond)
      a == Expr(z, arms[1])
      b == Expr(z, arms[2])
  IN IF c.ok /\ a.ok /\ b.ok /\ c.type = "i32" /\ a.type = b.type /\ type \in {a.type, "any"}
     THEN Expression([op |-> "if", c |-> c.expr, a |-> a.expr, b |-> b.expr], a.type) ELSE Refused
Phi(z, i) ==
  LET branch == FirstOf(Branches(z), LAMBDA l : Arms(z, i, l) # <<>>) IN
  IF Len(i.args) # 2 \/ branch = <<>> THEN Refused
  ELSE Choice(z, z.g[branch[1]].term.cond, Arms(z, i, branch[1]), WasmType(i.type))

CallOf(z, i) ==
  LET sig == z.sigs[i.sym]
      args == [n \in DOMAIN i.args |-> Expr(z, i.args[n])]
  IN IF i.sym \notin DOMAIN z.sigs THEN Refused
     ELSE IF Len(i.args) # Len(sig.params) THEN Refused
     ELSE IF \E n \in DOMAIN args : ~args[n].ok \/ args[n].type # WasmType(sig.params[n]) THEN Refused
     ELSE IF WasmType(sig.gives) # WasmType(i.type) THEN Refused
     ELSE Expression([op |-> "call", name |-> i.sym, args |-> [n \in DOMAIN args |-> args[n].expr]], WasmType(i.type))

Local(i) == <<i.sym, i.id>>
Expr(z, v) ==
  LET i == Defining(z.g, v) IN
  CASE i.op = "const" -> Literal(i)
    [] i.op = "phi" /\ InLoop(z, v) -> Expression([op |-> "local.get", local |-> Local(i)], WasmType(i.type))
    [] i.op = "phi" /\ ~InLoop(z, v) -> Phi(z, i)
    [] i.op = "param" -> Expression([op |-> "local.get", local |-> <<i.sym>>], WasmType(i.type))
    [] i.op = "call" -> CallOf(z, i)
    [] OTHER -> Binary(z, i)
-----------------------------------------------------------------------------
(* A body: the locals with what they start from, and for a loop its condition *)
(* and the locals its turns set, one after the other; the result.             *)
Plain(e) == [ok |-> e.ok, type |-> e.type, inits |-> <<>>, loop |-> FALSE, result |-> e.expr]

(* functionBody and returningBranch: a graph without a loop returns once, or  *)
(* in both arms of one branch.                                                *)
FunctionBody(z) ==
  LET returns == Returns(z)
      values == [n \in DOMAIN returns |-> z.g[returns[n]].term.val]
      Back(l) == {z.g[l].term.then, z.g[l].term.else} \subseteq ToSet(returns)
      branch == FirstOf(Branches(z), Back)
  IN CASE NoValue \in ToSet(values) -> Refused
       [] NoValue \notin ToSet(values) /\ Len(values) = 1 ->
            LET e == Expr(z, values[1]) IN IF e.ok THEN Plain(e) ELSE Refused
       [] NoValue \notin ToSet(values) /\ Len(values) = 2 /\ branch # <<>> ->
            LET term == z.g[branch[1]].term
                e == Choice(z, term.cond, <<z.g[term.then].term.val, z.g[term.else].term.val>>, "any")
            IN IF e.ok THEN Plain(e) ELSE Refused
       [] OTHER -> Refused

(* loopFunctionBody: the result is that of the first block that returns one.  *)
(* The sets of the body are its statements, the rest is computed where it is  *)
(* used.                                                                      *)
Sets(z, body) == SelectSeq(z.g[body].code, LAMBDA i : i.op = "set")
LocalNamed(z, sym) == FirstOf(z.phis, LAMBDA i : i.sym = sym)
AtEntry(phi, pre) == phi.args[CHOOSE n \in DOMAIN phi.from : phi.from[n] = pre]
LoopFunctionBody(z, loop) ==
  LET back == FirstOf(Returns(z), LAMBDA l : z.g[l].term.val # NoValue)
      result == Expr(z, z.g[back[1]].term.val)
      starts == [n \in DOMAIN z.phis |-> Expr(z, AtEntry(z.phis[n], loop.preheader))]
      c == Expr(z, z.g[loop.header].term.cond)
      sets == Sets(z, loop.body)
      values == [n \in DOMAIN sets |-> Expr(z, sets[n].args[1])]
      Fits(e, phi) == e.ok /\ e.type = WasmType(phi.type) /\ e.type # "none"
  IN CASE back = <<>> -> Refused
       [] back # <<>> /\ \E n \in DOMAIN sets : LocalNamed(z, sets[n].sym) = <<>> -> Refused
       [] OTHER ->
            IF ~(result.ok /\ c.ok /\ c.type = "i32") THEN Refused
            ELSE IF \E n \in DOMAIN starts : ~Fits(starts[n], z.phis[n]) THEN Refused
            ELSE IF \E n \in DOMAIN values : ~Fits(values[n], LocalNamed(z, sets[n].sym)[1]) THEN Refused
            ELSE [ok |-> TRUE, type |-> result.type, loop |-> TRUE, cond |-> c.expr, result |-> result.expr,
                  inits |-> [n \in DOMAIN starts |-> [local |-> Local(z.phis[n]), e |-> starts[n].expr]],
                  sets |-> [n \in DOMAIN sets |-> [local |-> Local(LocalNamed(z, sets[n].sym)[1]), e |-> values[n].expr]]]

(* buildBody: in a loop's body and behind it, sets and units are let through. *)
Supported == Operators \cup {"const", "phi", "param", "call"}
BuildBody(g, sigs) ==
  LET edges == BackEdges(g)
      loop == LoopOf(g, CHOOSE e \in edges : TRUE)
      z == [g |-> g, sigs |-> sigs, phis |-> IF edges = {} THEN <<>> ELSE loop.phis]
      Allowed(l) == Supported \cup (IF edges # {} /\ l \in {loop.body, loop.exit} THEN {"set", "unit"} ELSE {})
      fine == \A l \in DOMAIN g : \A i \in ToSet(g[l].code) : i.op \in Allowed(l)
  IN CASE edges = {} -> IF fine THEN FunctionBody(z) ELSE Refused
       [] Cardinality(edges) = 1 -> IF loop.ok /\ fine THEN LoopFunctionBody(z, loop) ELSE Refused
       [] OTHER -> Refused

(* compileToWasm of a program whose entry expression is e: of every function  *)
(* and the entry, a body of the declared result, kept with its source.        *)
Declared(f, g, body) ==
  IF body.ok /\ f.gives \in {body.type, "any"} THEN [params |-> f.params, form |-> f.body, graph |-> g] @@ body
  ELSE Refused
CompiledBody(sigs, f, lowered) ==
  IF ~lowered.ok \/ \E i \in DOMAIN f.types : WasmType(f.types[i]) = "none" THEN Refused
  ELSE Declared(f, lowered.blocks, BuildBody(lowered.blocks, sigs))
SourceOf(f) ==
  LET sig == Checks!Signature(f) IN
  [params |-> f.params, types |-> sig.params, gives |-> WasmType(sig.gives), body |-> f.body]
Sources(funs, e) ==
  [x \in {MainName} \cup {funs[i].name : i \in DOMAIN funs} |->
     IF x = MainName THEN [params |-> <<>>, types |-> <<>>, gives |-> "any", body |-> e]
     ELSE SourceOf(funs[CHOOSE i \in DOMAIN funs : funs[i].name = x])]
Lowered(sigs, f) == LowerSSAFunction(sigs, f.params, f.types, f.body)
CompileEach(sigs, fs) == [x \in DOMAIN fs |-> CompiledBody(sigs, fs[x], Lowered(sigs, fs[x]))]
CompileToWasm(funs, e) == CompileEach(Checks!Signatures([funs |-> funs]), Sources(funs, e))
Compiles(m) == \A x \in DOMAIN m : m[x].ok
-----------------------------------------------------------------------------
(* Running it: the values an expression may have, none when it goes on for    *)
(* longer than its fuel.                                                      *)
Machine(o, l, r) ==
  CASE o \in {"+", "-", "*"} -> Wrapped(Arithmetic(o, l, r))
    [] o = "and" -> IF l = 1 /\ r = 1 THEN 1 ELSE 0
    [] o = "or" -> IF l = 1 \/ r = 1 THEN 1 ELSE 0
    [] o \in {"==", "="} -> IF l = r THEN 1 ELSE 0
    [] o = "!=" -> IF l = r THEN 0 ELSE 1
    [] OTHER -> IF Compared(o, Num(l), Num(r)) THEN 1 ELSE 0

RECURSIVE Value(_, _, _, _), RunBody(_, _, _, _), Turns(_, _, _, _), Assign(_, _, _, _), Arguments(_, _, _, _)

(* The locals after each of the assignments, one after the other.             *)
Assign(m, as, locals, fuel) ==
  IF as = <<>> THEN {locals}
  ELSE UNION {Assign(m, Tail(as), (as[1].local :> v) @@ locals, fuel) : v \in Value(m, as[1].e, locals, fuel)}
Arguments(m, es, locals, fuel) ==
  IF es = <<>> THEN {<<>>}
  ELSE UNION {{<<v>> \o rest : rest \in Arguments(m, Tail(es), locals, fuel)} : v \in Value(m, es[1], locals, fuel)}
Turns(m, body, locals, fuel) ==
  IF fuel = 0 THEN {}
  ELSE UNION {IF c = 0 THEN {locals}
              ELSE UNION {Turns(m, body, next, fuel - 1) : next \in Assign(m, body.sets, locals, fuel)} :
              c \in Value(m, body.cond, locals, fuel)}
RunBody(m, body, locals, fuel) ==
  IF fuel = 0 THEN {}
  ELSE LET started == Assign(m, body.inits, locals, fuel)
           ended == IF body.loop THEN UNION {Turns(m, body, l, fuel) : l \in started} ELSE started
       IN UNION {Value(m, body.result, l, fuel - 1) : l \in ended}

Value(m, e, locals, fuel) ==
  CASE e.op = "const" -> {e.val}
    [] e.op = "local.get" -> {locals[e.local]}
    [] e.op = "binary" ->
         UNION {{Machine(e.o, l, r) : r \in Value(m, e.r, locals, fuel)} : l \in Value(m, e.l, locals, fuel)}
    [] e.op = "if" ->
         UNION {Value(m, IF c = 1 THEN e.a ELSE e.b, locals, fuel) : c \in Value(m, e.c, locals, fuel)}
    [] OTHER ->
         LET f == m[e.name]
             Own(vs) == [x \in {<<f.params[i]>> : i \in DOMAIN vs} |->
                           vs[CHOOSE i \in DOMAIN vs : f.params[i] = x[1]]]
         IN IF fuel = 0 THEN {}
            ELSE UNION {RunBody(m, f, Own(vs), fuel - 1) : vs \in Arguments(m, e.args, locals, fuel)}
Run(m) == RunBody(m, m[MainName], [x \in {} |-> 0], Fuel)
-----------------------------------------------------------------------------
(* Shapes the serializer takes without representing them (README, known       *)
(* divergences).  A loop is represented if its graph returns once, behind the *)
(* loop; if each set of its body changes the variable it carries, and none    *)
(* reads a local that an earlier one of the same turn has changed.            *)
RECURSIVE LocalsOf(_), CallsIn(_), Eager(_)
LocalsOf(e) ==
  CASE e.op = "const" -> {}
    [] e.op = "local.get" -> {e.local}
    [] e.op = "binary" -> LocalsOf(e.l) \cup LocalsOf(e.r)
    [] e.op = "if" -> LocalsOf(e.c) \cup LocalsOf(e.a) \cup LocalsOf(e.b)
    [] OTHER -> UNION {LocalsOf(e.args[i]) : i \in DOMAIN e.args}
CarriesSets(g, loop) ==
  \A n \in DOMAIN loop.phis :
    LET phi == loop.phis[n]
        sets == SelectSeq(g[loop.body].code, LAMBDA i : i.op = "set" /\ i.sym = phi.sym)
        carried == phi.args[CHOOSE k \in DOMAIN phi.from : phi.from[k] = loop.body]
    IN carried = IF sets = <<>> THEN phi.id ELSE sets[Len(sets)].id
LoopIsKept(g) ==
  \A e \in BackEdges(g) :
    LET loop == LoopOf(g, e)
        returns == {l \in DOMAIN g : g[l].term.kind = "return"}
    IN loop.ok => Cardinality(returns) = 1 /\ returns \cap Reachable(g, {loop.header}) = {} /\ CarriesSets(g, loop)
TurnIsKept(body) ==
  body.loop => \A j, k \in DOMAIN body.sets : j < k => body.sets[j].local \notin LocalsOf(body.sets[k].e)

(* Both operands of and, or are always computed: a call on the right of one   *)
(* may recurse for ever.                                                      *)
CallsIn(e) ==
  CASE e.op \in {"const", "local.get"} -> FALSE
    [] e.op = "binary" -> CallsIn(e.l) \/ CallsIn(e.r)
    [] e.op = "if" -> CallsIn(e.c) \/ CallsIn(e.a) \/ CallsIn(e.b)
    [] OTHER -> TRUE
Eager(e) ==
  CASE e.op \in {"const", "local.get"} -> FALSE
    [] e.op = "binary" -> (e.o \in Checks!Logical /\ CallsIn(e.r)) \/ Eager(e.l) \/ Eager(e.r)
    [] e.op = "if" -> Eager(e.c) \/ Eager(e.a) \/ Eager(e.b)
    [] OTHER -> \E i \in DOMAIN e.args : Eager(e.args[i])
EagerBody(body) ==
  Eager(body.result) \/ (body.loop /\ (Eager(body.cond) \/ \E i \in DOMAIN body.sets : Eager(body.sets[i].e)))

(* A return is the last thing its form does: not inside of an operand.        *)
RECURSIVE ReturnsIn(_), ReturnsLast(_)
ReturnsIn(t) == t.op = "return" \/ \E u \in Parts(t) : ReturnsIn(u)
ReturnsLast(t) ==
  CASE t.op \in {"do", "if", "when", "while", "let"} ->
         LET operands == {u \in Parts(t) : (t.op # "do" /\ t.op # "let" /\ u = t.c) \/ (t.op = "let" /\ u = t.e)}
         IN (\A u \in operands : ~ReturnsIn(u)) /\ \A u \in Parts(t) : ReturnsLast(u)
    [] OTHER -> \A u \in Parts(t) : ~ReturnsIn(u)

Keeps(body) == LoopIsKept(body.graph) /\ TurnIsKept(body) /\ ~EagerBody(body) /\ ReturnsLast(body.form)
KeepsProgram(m) == \A x \in DOMAIN m : Keeps(m[x])
=============================================================================
