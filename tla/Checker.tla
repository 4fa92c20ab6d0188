------------------------------- MODULE Checker -------------------------------
(* The type checker (internal/checker/types.go and builtins.go): the type it  *)
(* infers for each form, and what it rejects.  It rejects only what it can    *)
(* prove wrong: a value of which it knows nothing goes anywhere.  Forms with  *)
(* the wrong number of parts are not built, so what remains of ValidateShared *)
(* is the number of a call's arguments.                                       *)
EXTENDS Terms
LOCAL INSTANCE SequencesExt
LOCAL INSTANCE TLC

(* ast.TypeInfo: a kind, and the type of the elements of a list or the values *)
(* of a dictionary where one is known.                                        *)
Type(kind) == [kind |-> kind, of |-> <<>>]
Of(kind, element) == [kind |-> kind, of |-> <<element>>]
Unknown == Type("unknown")
Inside(t) == IF t.of = <<>> THEN Unknown ELSE t.of[1]
TypeOf(v) == IF IsText(v) THEN Type("string") ELSE Type(v[1])

Known(t) == t.kind \notin {"unknown", "any"}
MayBe(t, kinds) == Known(t) => t.kind \in kinds
Compatible(l, r) == Known(l) /\ Known(r) => l.kind = r.kind
Join(l, r) == IF ~Known(l) THEN r ELSE IF ~Known(r) \/ l.kind = r.kind THEN l ELSE Type("any")

(* functionSignature: a parameter, or a result, without a hint is a string.   *)
Result == Name("return")
Hinted(f, x) == IF x \in DOMAIN f.hints THEN f.hints[x] ELSE Type("string")
Signature(f) == [params |-> [i \in DOMAIN f.params |-> Hinted(f, f.params[i])], gives |-> Hinted(f, Result)]
Signatures(p) ==
  [x \in {p.funs[i].name : i \in DOMAIN p.funs} |->
     Signature(p.funs[CHOOSE i \in DOMAIN p.funs : p.funs[i].name = x])]

(* The state of an analysis: the types of the visible names, no error so far, *)
(* and whether a condition or a key, of which no value is required, may have  *)
(* none.  Inferring a form adds its type, and whether there is a path on      *)
(* which it yields no value (yieldsNoValue); inferring several forms adds     *)
(* the types of each.                                                         *)
Start(env) == [env |-> env, ok |-> TRUE, open |-> FALSE]
Binds(env, x, type) == (x :> type) @@ env
In(s, env) == [s EXCEPT !.env = env]
Requires(s, holds) == [s EXCEPT !.ok = @ /\ holds]
Opens(s, c) == [s EXCEPT !.open = @ \/ c.type.kind = "void" \/ c.lacks]

(* diverges: a form that never falls through.                                 *)
RECURSIVE Diverging(_)
Diverging(t) ==
  \/ t.op \in {"exit", "return"}
  \/ t.op = "do" /\ t.ts # <<>> /\ Diverging(Last(t.ts))
Typed(t, s, type, lacks) ==
  [env |-> s.env, ok |-> s.ok, open |-> s.open, type |-> type,
   lacks |-> ~Diverging(t) /\ (type.kind = "void" \/ lacks)]

(* requireValue: a form used for its value must have one.                     *)
Empty_Type(r) == r.type.kind = "void"
Empty(r) == r.type.kind = "void" \/ r.lacks
AsValue(r) == IF Empty(r) THEN [r EXCEPT !.ok = FALSE, !.type = Unknown] ELSE r

RECURSIVE Infer(_, _, _), InferEach(_, _, _)

InferEach(sigs, ts, s) ==
  IF ts = <<>> THEN [env |-> s.env, ok |-> s.ok, open |-> s.open, each |-> <<>>]
  ELSE LET first == AsValue(Infer(sigs, ts[1], s))
           rest == InferEach(sigs, Tail(ts), first)
       IN [rest EXCEPT !.each = <<first.type>> \o @]

(* A do: its forms in a scope of their own, for their effects but for the     *)
(* last.                                                                      *)
RECURSIVE InferAll(_, _, _)
InferAll(sigs, ts, s) ==
  IF Len(ts) = 1 THEN Infer(sigs, ts[1], s) ELSE InferAll(sigs, Tail(ts), Infer(sigs, ts[1], s))
InferDo(sigs, t, s) ==
  IF t.ts = <<>> THEN Typed(t, s, Type("void"), TRUE)
  ELSE LET r == InferAll(sigs, t.ts, s) IN Typed(t, In(r, s.env), r.type, r.lacks)

(* The operators.                                                             *)
Logical == {"and", "or"}
Comparisons == {"<", ">", "<=", ">=", "==", "!=", "="}
OperandsFit(o, l, r) ==
  CASE o \in Logical -> MayBe(l, {"bool"}) /\ MayBe(r, {"bool"})
    [] o \in Comparisons -> Compatible(l, r)
    [] OTHER -> Known(l) /\ Known(r) =>
                  \/ o = "+" /\ l.kind = "string" /\ r.kind = "string"
                  \/ l.kind = "int" /\ r.kind = "int"
OperatorGives(o, l, r) ==
  CASE o \in Logical \cup Comparisons -> Type("bool")
    [] o \notin Logical \cup Comparisons /\ l.kind = r.kind /\ l.kind \in {"string", "int"} ->
         IF l.kind = "string" /\ o # "+" THEN Unknown ELSE Type(l.kind)
    [] OTHER -> Unknown
InferBinary(sigs, t, s) ==
  LET o == IF t.op = "binop" THEN t.o ELSE t.op
      r == InferEach(sigs, IF t.op = "binop" THEN t.ts ELSE <<t.c, t.a>>, s)
  IN Typed(t, Requires(r, OperandsFit(o, r.each[1], r.each[2])), OperatorGives(o, r.each[1], r.each[2]), FALSE)

(* The forms with a table of what they take and give (checkBuiltin), and      *)
(* those that take any value.                                                 *)
Anything == {"int", "bool", "string", "list", "dict"}
Takes(o) ==
  CASE o = "str_split" -> <<{"string"}, {"string"}>>
    [] o = "str_join" -> <<{"list"}, {"string"}>>
    [] o = "map_keys" -> <<{"dict"}>>
    [] OTHER -> <<Anything>>
ApplyGives(o) ==
  CASE o \in {"str_split", "map_keys"} -> Of("list", Type("string"))
    [] o \in {"str_join", "to_string"} -> Type("string")
    [] o \in {"list_len", "to_int"} -> Type("int")
    [] o = "is_nil" -> Unknown
InferApply(sigs, t, s) ==
  LET r == InferEach(sigs, t.ts, s) IN
  Typed(t, Requires(r, \A i \in DOMAIN t.ts : MayBe(r.each[i], Takes(t.o)[i])), ApplyGives(t.o), FALSE)

(* if, and an if without an else; while.                                      *)
InferIf(sigs, t, s) ==
  LET c == Infer(sigs, t.c, s)
      then == Infer(sigs, t.a, Opens(Requires(c, MayBe(c.type, {"bool"})), c))
      else == Infer(sigs, t.b, then)
  IN IF t.op = "when" THEN Typed(t, then, then.type, TRUE)
     ELSE Typed(t, Requires(else, Compatible(then.type, else.type)), Join(then.type, else.type),
                then.lacks \/ else.lacks)
InferWhile(sigs, t, s) ==
  LET c == Infer(sigs, t.c, s)
      body == Infer(sigs, t.body, Opens(Requires(c, MayBe(c.type, {"bool"})), c))
  IN Typed(t, body, Type("void"), TRUE)

(* try_let, for, let: the branches, the body in a scope with the name.        *)
InferTry(sigs, t, s) ==
  LET v == AsValue(Infer(sigs, t.e, s))
      caught == Infer(sigs, t.handler, In(v, Binds(v.env, t.err, Unknown)))
      body == Infer(sigs, t.body, In(caught, Binds(v.env, t.name, v.type)))
  IN Typed(t, In(body, v.env), Join(caught.type, body.type), caught.lacks \/ body.lacks)
InferFor(sigs, t, s) ==
  LET l == AsValue(Infer(sigs, t.e, s))
      body == Infer(sigs, t.body, In(l, Binds(l.env, t.name, Inside(l.type))))
  IN Typed(t, In(body, l.env), Type("void"), TRUE)
InferLetChain(sigs, t, s) ==
  LET v == AsValue(Infer(sigs, t.e, s))
      body == Infer(sigs, t.body, In(v, Binds(v.env, t.name, v.type)))
  IN Typed(t, In(body, v.env), body.type, body.lacks)

(* set: the name has the type of the value from here on.                      *)
InferSet(sigs, t, s) ==
  LET v == AsValue(Infer(sigs, t.e, s))
      fits == t.name \in DOMAIN v.env => Compatible(v.env[t.name], v.type)
  IN Typed(t, In(Requires(v, fits), Binds(v.env, t.name, v.type)), Type("void"), TRUE)

(* list: the elements have the type of the first one known.  dict: values of  *)
(* different types make it one of anything.                                   *)
KnownOnes(types) == SelectSeq(types, Known)
InferListOf(sigs, t, s) ==
  LET r == InferEach(sigs, t.ts, s)
      known == KnownOnes(r.each)
      type == IF known = <<>> THEN Type("list") ELSE Of("list", known[1])
  IN Typed(t, Requires(r, \A i \in DOMAIN known : Compatible(known[1], known[i])), type, FALSE)

RECURSIVE InferPairs(_, _, _)
InferPairs(sigs, ts, s) ==
  IF ts = <<>> THEN [env |-> s.env, ok |-> s.ok, open |-> s.open, each |-> <<>>]
  ELSE LET k == Infer(sigs, ts[1], s)
           v == AsValue(Infer(sigs, ts[2], Opens(Requires(k, MayBe(k.type, {"string"})), k)))
           rest == InferPairs(sigs, SubSeq(ts, 3, Len(ts)), v)
       IN [rest EXCEPT !.each = <<v.type>> \o @]
InferDict(sigs, t, s) ==
  LET r == InferPairs(sigs, t.ts, s)
      known == KnownOnes(r.each)
      type == CASE known = <<>> -> Type("dict")
                [] known # <<>> /\ \E i \in DOMAIN known : known[i].kind # known[1].kind -> Of("dict", Type("any"))
                [] OTHER -> Of("dict", known[1])
  IN Typed(t, r, type, FALSE)

(* checkCall.                                                                 *)
InferCall(sigs, t, s) ==
  LET r == InferEach(sigs, t.ts, s)
      there == t.name \in DOMAIN sigs
      fits == /\ there
              /\ Len(t.ts) = Len(sigs[t.name].params)
              /\ \A i \in DOMAIN t.ts : Compatible(sigs[t.name].params[i], r.each[i])
  IN Typed(t, Requires(r, fits), IF there THEN sigs[t.name].gives ELSE Unknown, FALSE)

(* An undefined name is wrong, unless it is that of a function.               *)
InferName(sigs, x, s) ==
  IF x \in DOMAIN s.env THEN [type |-> s.env[x], ok |-> TRUE]
  ELSE [type |-> Unknown, ok |-> x \in DOMAIN sigs]

(* The forms on a list or a dictionary.  Putting a value of another type into *)
(* a dictionary makes it one of anything (widenDictElement).                  *)
Widens(s, x, old, value) ==
  IF old.of # <<>> /\ ~Compatible(Inside(old), value) /\ x \in DOMAIN s.env /\ s.env[x].kind = "dict"
  THEN [s EXCEPT !.env[x].of = <<Join(Inside(old), value)>>] ELSE s
CollectionFits(op, type, each) ==
  CASE op = "append" -> MayBe(type, {"list"}) /\ (type.of # <<>> => Compatible(Inside(type), each[1]))
    [] op = "list_get" -> MayBe(type, {"list"}) /\ MayBe(each[1], {"int"})
    [] OTHER -> MayBe(type, {"dict"}) /\ MayBe(each[1], {"string"})
InferCollection(sigs, t, s) ==
  LET target == InferName(sigs, t.name, s)
      r == InferEach(sigs, t.ts, s)
      checked == Requires(r, target.ok /\ CollectionFits(t.op, target.type, r.each))
  IN CASE t.op = "map_set" -> Typed(t, Widens(checked, t.name, target.type, r.each[2]), Type("void"), TRUE)
       [] t.op \in {"append", "map_delete"} -> Typed(t, checked, Type("void"), TRUE)
       [] OTHER -> Typed(t, checked, Inside(target.type), FALSE)
InferPath(sigs, t, s) ==
  LET r == InferEach(sigs, <<t.e, t.k>>, s) IN
  Typed(t, Requires(r, CollectionFits("map_get", r.each[1], <<r.each[2]>>)), Inside(r.each[1]), FALSE)

(* print, return, exit: exit takes only what is known to be an integer.       *)
InferEnd(sigs, t, s) ==
  LET v == AsValue(Infer(sigs, t.e, s)) IN
  IF t.op = "return" THEN Typed(t, v, v.type, FALSE)
  ELSE Typed(t, Requires(v, v.type.kind = "int"), Type("void"), TRUE)

Infer(sigs, t, s) ==
  CASE t.op = "lit" -> Typed(t, s, TypeOf(t.val), FALSE)
    [] t.op = "var" -> LET x == InferName(sigs, t.name, s) IN Typed(t, Requires(s, x.ok), x.type, FALSE)
    [] t.op \in {"binop", "and", "or"} -> InferBinary(sigs, t, s)
    [] t.op = "apply" -> InferApply(sigs, t, s)
    [] t.op = "do" -> InferDo(sigs, t, s)
    [] t.op = "let" -> InferLetChain(sigs, t, s)
    [] t.op = "set" -> InferSet(sigs, t, s)
    [] t.op \in {"if", "when"} -> InferIf(sigs, t, s)
    [] t.op = "while" -> InferWhile(sigs, t, s)
    [] t.op = "for" -> InferFor(sigs, t, s)
    [] t.op = "try_let" -> InferTry(sigs, t, s)
    [] t.op = "list" -> InferListOf(sigs, t, s)
    [] t.op = "dict" -> InferDict(sigs, t, s)
    [] t.op = "call" -> InferCall(sigs, t, s)
    [] t.op \in {"append", "list_get", "map_set", "map_delete", "map_get"} -> InferCollection(sigs, t, s)
    [] t.op = "path_get" -> InferPath(sigs, t, s)
    [] t.op = "print" -> Typed(t, InferEach(sigs, t.ts, s), Type("void"), TRUE)
    [] t.op \in {"return", "exit"} -> InferEnd(sigs, t, s)

(* The type inferred for a form where names have these types.                 *)
TypeIn(sigs, types, t) == Infer(sigs, t, Start(types)).type

(* inferFunction and Analyze.                                                 *)
InferFunction(sigs, f) ==
  LET sig == Signature(f)
      TypeOfParam(x) == sig.params[CHOOSE i \in DOMAIN f.params : f.params[i] = x]
      r == Infer(sigs, f.body, Start([x \in ToSet(f.params) |-> TypeOfParam(x)]))
  IN [ok |-> r.ok /\ Compatible(sig.gives, r.type), open |-> r.open]
Analyze(p) ==
  LET sigs == Signatures(p)
      main == Infer(sigs, p.main, Start([x \in {} |-> Unknown]))
      funs == {InferFunction(sigs, p.funs[i]) : i \in DOMAIN p.funs}
  IN [ok |-> main.ok /\ \A f \in funs : f.ok, open |-> main.open \/ \E f \in funs : f.open]
Accepts(p) == Analyze(p).ok
AcceptsClosed(p) == \E analysis \in {Analyze(p)} : analysis.ok /\ ~analysis.open
=============================================================================
