--------------------------------- MODULE Ssa ---------------------------------
(* Lowering of a form to a flat SSA graph (internal/ir/ssa.go), on the way to *)
(* `howlframe --compile-wasm`.  A graph is a function from labels to blocks,  *)
(* each [code, term]; labels are numbered as blocks are made, and removing    *)
(* one keeps the order of the others, so the order of labels is that of       *)
(* Graph.Blocks.  An instruction defines one value; value 0 is none.          *)
EXTENDS Terms, FiniteSets
LOCAL INSTANCE SequencesExt
LOCAL INSTANCE TLC

Checks == INSTANCE Checker

Entry == 0
Unfinished == [kind |-> "none"]
Jump(to) == [kind |-> "jump", to |-> to]
Branch(cond, then, else) == [kind |-> "branch", cond |-> cond, then |-> then, else |-> else]
Returning(v) == [kind |-> "return", val |-> v]
NoValue == 0
EmptyBlock == [code |-> <<>>, term |-> Unfinished]

(* The state of a lowering (ssaBuilder): the block it appends to, or Nowhere  *)
(* behind a form both of whose branches return; the value of each name; the   *)
(* value of the form just lowered, or the values of several.  ok is FALSE     *)
(* where the code returns an error, or fails on the block that is not there.  *)
Nowhere == -1
Builder(sigs) ==
  [sigs |-> sigs, blocks |-> (Entry :> EmptyBlock), at |-> Entry, env |-> [x \in {} |-> NoValue],
   next |-> 1, labels |-> 0, ok |-> TRUE, val |-> NoValue, vals |-> <<>>]

Fails(s) == [s EXCEPT !.ok = FALSE]
Gives(s, v) == [s EXCEPT !.val = v]
At(s, label, env) == [s EXCEPT !.at = label, !.env = env]
Binds(env, x, v) == (x :> v) @@ env
FallsThrough(s) == s.at # Nowhere /\ s.blocks[s.at].term = Unfinished
Closes(s, label, term) == [s EXCEPT !.blocks[label].term = term]

(* The type of a value, and the type the checker inferred for a form.         *)
Instructions(blocks) == UNION {ToSet(blocks[l].code) : l \in DOMAIN blocks}
Defining(blocks, v) == CHOOSE i \in Instructions(blocks) : i.id = v
ValueType(s, v) ==
  IF \E i \in Instructions(s.blocks) : i.id = v THEN Defining(s.blocks, v).type ELSE Checks!Unknown
Inferred(s, t) == Checks!TypeIn(s.sigs, [x \in DOMAIN s.env |-> ValueType(s, s.env[x])], t)

(* emit and emitPhi: one more instruction of the current block.               *)
Void == Checks!Type("void")
EmitTo(s, label, op, args, from, sym, lit, type) ==
  [s EXCEPT !.blocks[label].code =
                Append(@, [id |-> s.next, op |-> op, args |-> args, from |-> from, sym |-> sym, lit |-> lit, type |-> type]),
            !.next = @ + 1, !.val = s.next]
Emit(s, op, args, sym, type) ==
  CASE ~s.ok -> s
    [] s.ok /\ s.at = Nowhere -> Fails(s)
    [] OTHER -> EmitTo(s, s.at, op, args, <<>>, sym, Nil, type)
EmitConst(s, v) == EmitTo(s, s.at, "const", <<>>, <<>>, Name(""), v, Checks!TypeOf(v))
EmitPhi(s, label, args, from, sym, type) == EmitTo(s, label, "phi", args, from, sym, Nil, type)

(* newBlock, finishBranch.                                                    *)
NewBlocks(s, n) ==
  [s EXCEPT !.labels = @ + n, !.blocks = @ @@ [l \in (s.labels + 1)..(s.labels + n) |-> EmptyBlock]]
FinishBranch(s, target) == IF s.ok /\ FallsThrough(s) THEN Closes(s, s.at, Jump(target)) ELSE s

(* mergeEnvironments: a name that every way in binds has the value they       *)
(* agree on, or a phi; of the ways in, each is [at, val, env].                *)
From(ins) == [i \in DOMAIN ins |-> ins[i].at]
MergeName(s, ins, x) ==
  LET args == [i \in DOMAIN ins |-> ins[i].env[x]] IN
  IF Cardinality(ToSet(args)) = 1 THEN [s EXCEPT !.env = Binds(@, x, args[1])]
  ELSE LET phi == EmitPhi(s, s.at, args, From(ins), x, ValueType(s, args[1]))
       IN [phi EXCEPT !.env = Binds(@, x, phi.val)]
Merge(s, ins) ==
  LET names == {x \in DOMAIN ins[1].env : \A i \in DOMAIN ins : x \in DOMAIN ins[i].env}
  IN FoldLeft(LAMBDA r, x : MergeName(r, ins, x), s, SetToSeq(names))

(* assignedSSAValues: the names a loop's body sets, wherever it does.         *)
Parts(t) ==
  CASE t.op \in {"lit", "var"} -> {}
    [] t.op \in {"binop", "do", "print", "list", "apply", "dict", "call"} -> ToSet(t.ts)
    [] t.op \in {"and", "or", "when"} -> {t.c, t.a}
    [] t.op = "if" -> {t.c, t.a, t.b}
    [] t.op = "while" -> {t.c, t.body}
    [] t.op = "let" -> {t.e, t.body}
    [] OTHER -> {t.e}
RECURSIVE Assigned(_)
Assigned(t) == (IF t.op = "set" THEN {t.name} ELSE {}) \cup UNION {Assigned(u) : u \in Parts(t)}

RECURSIVE Lower(_, _), LowerForm(_, _, _), LowerEach(_, _), LowerAll(_, _), LowerLet(_, _, _)

(* lowerOperands: each operand must have a value.                             *)
LowerEach(s, ts) ==
  IF ts = <<>> THEN [s EXCEPT !.vals = <<>>]
  ELSE LET front == LowerEach(s, SubSeq(ts, 1, Len(ts) - 1))
           last == Lower(front, ts[Len(ts)])
       IN IF last.val = NoValue THEN Fails(last) ELSE [last EXCEPT !.vals = Append(front.vals, last.val)]
LowerSimple(s, t, op, sym, type) == LET r == LowerEach(s, t.ts) IN Emit(r, op, r.vals, sym, type)

LowerBinary(s, op, ts, type) ==
  LET l == Lower(s, ts[1])
      r == Lower(l, ts[2])
  IN Emit(r, op, <<l.val, r.val>>, Name(""), type)

(* lowerDo: up to a form that returns.                                        *)
LowerAll(s, ts) == IF ts = <<>> \/ ~s.ok \/ ~FallsThrough(s) THEN s ELSE LowerAll(Lower(s, ts[1]), Tail(ts))
LowerDo(s, ts) ==
  LET r == LowerAll(Gives(s, NoValue), ts) IN
  IF r.ok /\ r.val = NoValue /\ FallsThrough(r) THEN Emit(r, "unit", <<>>, Name(""), Void) ELSE r

(* lowerLet, of a chain of lets: after the innermost body each name has the   *)
(* value back that it had before the whole chain, or none.                    *)
Restored_Leaks(env, x, outer) == env
Restored(env, x, outer) ==
  IF x \in DOMAIN outer THEN Binds(env, x, outer[x]) ELSE [y \in DOMAIN env \ {x} |-> env[y]]
LowerLet(s, t, outer) ==
  LET v == Lower(s, t.e)
      bound == [v EXCEPT !.env = Binds(@, t.name, v.val)]
      r == IF t.body.op = "let" THEN LowerLet(bound, t.body, outer) ELSE Lower(bound, t.body)
  IN IF v.ok THEN [r EXCEPT !.env = Restored(@, t.name, outer)] ELSE v

LowerSet(s, t, type) ==
  LET v == Lower(s, t.e)
      r == Emit(v, "set", <<v.val>>, t.name, type)
  IN Emit([r EXCEPT !.env = Binds(@, t.name, r.val)], "unit", <<>>, Name(""), Void)

(* lowerReturn: it closes the block although a form around it may go on.      *)
LowerReturn(s, t) ==
  LET v == Lower(s, t.e) IN
  CASE ~v.ok -> v
    [] v.ok /\ v.at = Nowhere -> Fails(v)
    [] OTHER -> Gives(Closes(v, v.at, Returning(v.val)), NoValue)

(* lowerIf: without an else, that branch has the unit.                        *)
LowerIf(s, t, type) ==
  LET c == Lower(s, t.c)
      then == c.labels + 1
      else == c.labels + 2
      merge == c.labels + 3
      split == Closes(NewBlocks(c, 3), c.at, Branch(c.val, then, else))
      a == Lower(At(split, then, c.env), t.a)
      other == At(FinishBranch(a, merge), else, c.env)
      b == IF t.op = "when" THEN Emit(other, "unit", <<>>, Name(""), Void) ELSE Lower(other, t.b)
      ins == SelectSeq(<<a, b>>, FallsThrough)
      end == FinishBranch(b, merge)
      whole == Merge(At(end, merge, c.env), ins)
  IN CASE ~c.ok \/ c.at = Nowhere -> Fails(c)
       [] c.ok /\ c.at # Nowhere /\ ~(a.ok /\ b.ok) -> Fails(c)
       [] OTHER ->
            IF ins = <<>>
            THEN [At(end, Nowhere, c.env) EXCEPT !.blocks = [l \in DOMAIN @ \ {merge} |-> @[l]], !.val = NoValue]
            ELSE IF \A i \in DOMAIN ins : ins[i].val = ins[1].val THEN Gives(whole, ins[1].val)
            ELSE EmitPhi(whole, merge, <<a.val, b.val>>, From(ins), Name(""), type)

(* lowerWhile: a phi at the head of the loop for each visible name the body   *)
(* sets, from before the loop and, once the body is lowered, from its end.    *)
LoopPhi(s, header, x) ==
  LET phi == EmitPhi(s, header, <<s.env[x]>>, <<s.at>>, x, ValueType(s, s.env[x]))
  IN [phi EXCEPT !.env = Binds(@, x, phi.val)]
HeaderPhis(s, header, names) == [FoldLeft(LAMBDA r, x : LoopPhi(r, header, x), s, names) EXCEPT !.at = header]
BackEdge(code, n, end) ==
  [i \in DOMAIN code |->
     IF i > n THEN code[i]
     ELSE [code[i] EXCEPT !.args = Append(@, IF code[i].sym \in DOMAIN end.env THEN end.env[code[i].sym] ELSE NoValue),
                          !.from = Append(@, end.at)]]
LowerWhile(s, t) ==
  LET header == s.labels + 1
      body == s.labels + 2
      exit == s.labels + 3
      names == SetToSeq(Assigned(t.body) \cap DOMAIN s.env)
      entered == Closes(HeaderPhis(NewBlocks(s, 3), header, names), s.at, Jump(header))
      c == Lower(entered, t.c)
      b == Lower(At(Closes(c, header, Branch(c.val, body, exit)), body, c.env), t.body)
      looped == IF FallsThrough(b)
                THEN [FinishBranch(b, header) EXCEPT !.blocks[header].code = BackEdge(@, Len(names), b)] ELSE b
  IN CASE ~c.ok -> c
       [] c.ok /\ ~b.ok -> b
       [] OTHER -> Emit(At(looped, exit, c.env), "unit", <<>>, Name(""), Void)

(* lower and lowerList.  What stands behind a form that has returned on every *)
(* path is not lowered.  Refused are the forms lowerList does not have, and   *)
(* those whose instruction the serializer refuses in every block (dict,       *)
(* map_get, list_get).  A set in a loop's condition is refused there too.     *)
LowerForm(s, t, type) ==
  CASE t.op = "lit" -> EmitConst(s, t.val)
    [] t.op = "var" -> IF t.name \in DOMAIN s.env THEN Gives(s, s.env[t.name])
                       ELSE Emit(s, "symbol", <<>>, t.name, type)
    [] t.op = "binop" -> LowerBinary(s, t.o, t.ts, type)
    [] t.op \in {"and", "or"} -> LowerBinary(s, t.op, <<t.c, t.a>>, type)
    [] t.op = "do" -> LowerDo(s, t.ts)
    [] t.op = "let" -> LowerLet(s, t, s.env)
    [] t.op = "set" -> LowerSet(s, t, type)
    [] t.op = "return" -> LowerReturn(s, t)
    [] t.op \in {"if", "when"} -> LowerIf(s, t, type)
    [] t.op = "while" -> LowerWhile(s, t)
    [] t.op = "call" -> LowerSimple(s, t, "call", t.name, type)
    [] t.op \in {"list", "print"} -> LowerSimple(s, t, t.op, Name(""), type)
    [] t.op = "apply" /\ t.o \in {"to_int", "to_string"} -> LowerSimple(s, t, t.o, Name(""), type)
    [] OTHER -> Fails(s)
Lower(s, t) ==
  CASE ~s.ok -> s
    [] s.ok /\ s.at = Nowhere -> Gives(s, NoValue)
    [] OTHER -> LowerForm(s, t, Inferred(s, IF t.op = "set" THEN t.e ELSE t))

(* Graph.Validate.                                                            *)
Values(blocks) == {i.id : i \in Instructions(blocks)}
ValidTerm(blocks, term) ==
  CASE term.kind = "jump" -> term.to \in DOMAIN blocks
    [] term.kind = "branch" -> term.cond \in Values(blocks) /\ {term.then, term.else} \subseteq DOMAIN blocks
    [] term.kind = "return" -> term.val \in Values(blocks) \cup {NoValue}
    [] OTHER -> FALSE
Valid(blocks) ==
  /\ \A l \in DOMAIN blocks : ValidTerm(blocks, blocks[l].term)
  /\ \A i \in Instructions(blocks) :
       /\ ToSet(i.args) \subseteq Values(blocks)
       /\ i.op = "phi" => Len(i.from) = Len(i.args) /\ i.args # <<>> /\ ToSet(i.from) \subseteq DOMAIN blocks

(* LowerSSAFunction; LowerSSA is that of no parameters.                       *)
Param(s, x, type) ==
  LET r == Emit(s, "param", <<>>, x, type) IN [r EXCEPT !.env = Binds(@, x, r.val)]
RECURSIVE WithParams(_, _, _)
WithParams(s, names, types) ==
  IF names = <<>> THEN s ELSE WithParams(Param(s, names[1], types[1]), Tail(names), Tail(types))
Finish(r) == IF r.ok /\ FallsThrough(r) THEN Closes(r, r.at, Returning(r.val)) ELSE r
Validated(r) == [ok |-> r.ok /\ Valid(r.blocks), blocks |-> r.blocks]
LowerSSAFunction(sigs, names, types, body) ==
  Validated(Finish(Lower(WithParams(Builder(sigs), names, types), body)))
=============================================================================
