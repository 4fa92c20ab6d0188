----------------------------- MODULE HfirSource -----------------------------
(* From a program to an HFIR graph (LowerAST in internal/hfir/lowering.go),   *)
(* and from there to a bytecode program (howlframe -compile-hfir-bc).  The    *)
(* forms are those of Interpreter, their bindings renamed before; nodes are   *)
(* numbered as they are added, a form before its parts.                       *)
EXTENDS HfirLowering

Part(role, form) == [role |-> role, form |-> form]
All(role, forms) == [i \in DOMAIN forms |-> Part(role, forms[i])]

(* The nodes that are a part of a form but not a form.                        *)
Root(p) == [op |-> "program", ts |-> [i \in DOMAIN p.funs |-> [op |-> "defun", fun |-> p.funs[i]]] \o <<p.main>>]
Param(x) == [op |-> "param", name |-> x]
Pairs(ts) == [i \in 1..(Len(ts) \div 2) |-> [op |-> "dict_entry", ts |-> <<ts[2 * i - 1], ts[2 * i]>>]]
Handler(t) == [op |-> "catch", name |-> t.err, body |-> t.handler]

KindOf(t) ==
  CASE t.op = "lit" -> "const"
    [] t.op = "var" -> "symbol"
    [] t.op = "do" -> "sequence"
    [] t.op = "when" -> "if"
    [] t.op \in {"binop", "and", "or"} -> "binary"
    [] t.op = "apply" /\ t.o \in {"to_int", "to_string"} -> "convert"
    [] t.op = "apply" /\ t.o \notin {"to_int", "to_string"} -> t.o
    [] t.op = "path_get" -> "map_get"
    [] t.op = "try_let" -> "try"
    [] OTHER -> t.op

ValueOf(t) ==
  CASE t.op = "lit" -> t.val
    [] t.op = "defun" -> t.fun.name
    [] t.op \in {"and", "or"} -> Name(t.op)
    [] t.op = "binop" -> Name(t.o)
    [] KindOf(t) = "convert" -> Name(t.o)
    [] t.op \in {"var", "let", "set", "for", "try_let", "catch", "param", "append", "list_get", "map_set", "map_delete",
                 "map_get", "call"} -> t.name
    [] OTHER -> NoName

(* The parts of a form, in the order they are lowered.                        *)
PartsOf(t) ==
  CASE t.op \in {"program", "do"} -> All("body", t.ts)
    [] t.op = "let" -> <<Part("value", t.e), Part("body", t.body)>>
    [] t.op \in {"set", "return", "exit"} -> <<Part("value", t.e)>>
    [] t.op = "if" -> <<Part("condition", t.c), Part("then", t.a), Part("else", t.b)>>
    [] t.op = "when" -> <<Part("condition", t.c), Part("then", t.a)>>
    [] t.op \in {"and", "or"} -> <<Part("left", t.c), Part("right", t.a)>>
    [] t.op = "binop" -> <<Part("left", t.ts[1]), Part("right", t.ts[2])>>
    [] t.op = "while" -> <<Part("condition", t.c), Part("body", t.body)>>
    [] t.op = "for" -> <<Part("iterable", t.e), Part("body", t.body)>>
    [] t.op = "try_let" -> <<Part("expression", t.e), Part("success_body", t.body), Part("catch", Handler(t))>>
    [] t.op = "catch" -> <<Part("body", t.body)>>
    [] t.op = "list" -> All("item", t.ts)
    [] t.op = "dict" -> All("entry", Pairs(t.ts))
    [] t.op \in {"dict_entry", "map_set"} -> <<Part("key", t.ts[1]), Part("value", t.ts[2])>>
    [] t.op = "print" -> All("value", t.ts)
    [] t.op = "apply" /\ t.o \in {"str_split", "str_join"} -> <<Part("value", t.ts[1]), Part("separator", t.ts[2])>>
    [] t.op = "apply" /\ t.o \notin {"str_split", "str_join"} -> All("value", t.ts)
    [] t.op = "path_get" -> <<Part("target", t.e), Part("key", t.k)>>
    [] t.op \in {"map_get", "map_delete"} -> All("key", t.ts)
    [] t.op = "list_get" -> All("index", t.ts)
    [] t.op = "append" -> All("item", t.ts)
    [] t.op = "call" -> All("arg", t.ts)
    [] t.op = "defun" -> [i \in DOMAIN t.fun.params |-> Part("param", Param(t.fun.params[i]))] \o <<Part("body", t.fun.body)>>
    [] OTHER -> <<>>

(* lowerNode, lowerSemanticList: the nodes of a form, its own with the number *)
(* first before those of its parts, one part after the other.                 *)
RECURSIVE Size(_), LowerNode(_, _)
Size(t) == LET parts == PartsOf(t)
               upto[i \in 0..Len(parts)] == IF i = 0 THEN 1 ELSE upto[i - 1] + Size(parts[i].form)
           IN upto[Len(parts)]
LowerNode(first, t) ==
  LET parts == PartsOf(t)
      inputs[i \in 0..Len(parts)] ==
        IF i = 0 THEN <<>>
        ELSE LET before == inputs[i - 1]
                 id == IF i = 1 THEN first + 1 ELSE Last(before).id + Size(parts[i - 1].form)
             IN Append(before, Edge(parts[i].role, id))
      edges == inputs[Len(parts)]
  IN <<Node(KindOf(t), ValueOf(t), edges)>>
       \o FlattenSeq([i \in DOMAIN parts |-> LowerNode(edges[i].id, parts[i].form)])

LowerAST(p) == [entry |-> 1, nodes |-> LowerNode(1, Root(p))]

(* The gate: what the verifier or the lowerer refuses is not compiled.  The   *)
(* graph of a program is a tree, so that no node depends on itself.           *)
NoFragments == [id \in {} |-> <<>>]
LowerToBytecode(g) == Lowering(g, NoFragments, {})
PassesGate(g) ==
  /\ Verifies(g, "bytecode")
  /\ \A id \in Lowered(g, NoFragments) : Lowerable(g, id)
  /\ ValidProgram(LowerToBytecode(g))
=============================================================================
