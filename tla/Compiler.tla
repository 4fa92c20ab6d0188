------------------------------ MODULE Compiler ------------------------------
(* From a program to its bytecode: ScopeBindings renames a binding that       *)
(* shadows another (internal/bytecode/scoping.go), and compileNode emits the  *)
(* instructions of each form (internal/bytecode/bytecode.go).                 *)
EXTENDS Interpreter, Emission

Renames(x, k) == <<x[1], k>>

(* The scopes a form is in, as the name each visible name stands for; and     *)
(* bind, which renames a name that is already visible.                        *)
Looked(names, x) == IF x \in DOMAIN names THEN names[x] ELSE x
Fresh_Never(names, x, k) == x
Fresh(names, x, k) == IF x \in DOMAIN names THEN Renames(x, k + 1) ELSE x
Count(names, x, k) == IF x \in DOMAIN names THEN k + 1 ELSE k
Scope(names, x, k) == [y \in DOMAIN names \cup {x} |-> IF y = x THEN Fresh(names, x, k) ELSE names[y]]

RECURSIVE Scoped(_, _, _), ScopedEach(_, _, _), Emit(_), EmitEach(_)

(* walk: the form with its names replaced, and the count of renamings so far. *)
(* The keys of a dictionary are not walked: a key that names a renamed        *)
(* variable keeps the old name.                                               *)
ScopedEach(ts, names, k) ==
  IF ts = <<>> THEN [ts |-> <<>>, k |-> k]
  ELSE LET first == Scoped(ts[1], names, k)
           rest == ScopedEach(Tail(ts), names, first.k)
       IN [ts |-> <<first.t>> \o rest.ts, k |-> rest.k]

Scoped(t, names, k) ==
  CASE t.op = "lit" -> [t |-> t, k |-> k]
    [] t.op = "var" -> [t |-> Var(Looked(names, t.name)), k |-> k]
    [] t.op \in {"do", "print", "list", "binop", "apply", "call"} ->
         LET r == ScopedEach(t.ts, names, k) IN [t |-> [t EXCEPT !.ts = r.ts], k |-> r.k]
    [] t.op = "dict" ->
         LET r == ScopedEach([i \in 1..(Len(t.ts) \div 2) |-> t.ts[2 * i]], names, k)
         IN [t |-> [t EXCEPT !.ts = [i \in DOMAIN @ |-> IF i % 2 = 0 THEN r.ts[i \div 2] ELSE @[i]]], k |-> r.k]
    [] t.op \in {"return", "exit"} ->
         LET r == Scoped(t.e, names, k) IN [t |-> [t EXCEPT !.e = r.t], k |-> r.k]
    [] t.op = "set" ->
         LET r == Scoped(t.e, names, k) IN [t |-> Set(Looked(names, t.name), r.t), k |-> r.k]
    [] t.op \in {"append", "list_get", "map_set", "map_delete", "map_get"} ->
         LET r == ScopedEach(t.ts, names, k) IN [t |-> [t EXCEPT !.name = Looked(names, @), !.ts = r.ts], k |-> r.k]
    [] t.op = "path_get" ->
         LET r == ScopedEach(<<t.e, t.k>>, names, k) IN [t |-> PathGet(r.ts[1], r.ts[2]), k |-> r.k]
    [] t.op \in {"let", "for"} ->
         LET v == Scoped(t.e, names, k)
             b == Scoped(t.body, Scope(names, t.name, v.k), Count(names, t.name, v.k))
         IN [t |-> [t EXCEPT !.name = Fresh(names, t.name, v.k), !.e = v.t, !.body = b.t], k |-> b.k]
    [] t.op = "try_let" ->
         LET v == Scoped(t.e, names, k)
             h == Scoped(t.handler, Scope(names, t.err, v.k), Count(names, t.err, v.k))
             b == Scoped(t.body, Scope(names, t.name, h.k), Count(names, t.name, h.k))
         IN [t |-> Try(Fresh(names, t.name, h.k), v.t, Fresh(names, t.err, v.k), h.t, b.t), k |-> b.k]
    [] t.op = "while" ->
         LET r == ScopedEach(<<t.c, t.body>>, names, k) IN [t |-> While(r.ts[1], r.ts[2]), k |-> r.k]
    [] t.op \in {"when", "and", "or"} ->
         LET r == ScopedEach(<<t.c, t.a>>, names, k) IN [t |-> [t EXCEPT !.c = r.ts[1], !.a = r.ts[2]], k |-> r.k]
    [] t.op = "if" ->
         LET r == ScopedEach(<<t.c, t.a, t.b>>, names, k) IN [t |-> If(r.ts[1], r.ts[2], r.ts[3]), k |-> r.k]

(* compileNode.  The opcodes of the forms that take their operands from the   *)
(* stack and give a value, and of those that work on a variable.              *)
Opcode(o) ==
  CASE o = "list_len" -> Instruction("LIST_LEN")
    [] o = "is_nil" -> Instruction("IS_NIL")
    [] o = "map_keys" -> Instruction("MAP_KEYS")
    [] o = "str_split" -> Instruction("STR_SPLIT")
    [] o = "str_join" -> Instruction("STR_JOIN")
    [] o \in {"to_int", "to_string"} -> Named("CONVERT", Name(o))
OpcodeOn(form) ==
  CASE form = "append" -> "APPEND"
    [] form = "list_get" -> "LIST_GET"
    [] form = "map_set" -> "MAP_SET"
    [] form = "map_delete" -> "MAP_DELETE"
    [] form = "map_get" -> "MAP_GET"

EmitEach(ts) == IF ts = <<>> THEN <<>> ELSE Emit(ts[1]) \o EmitEach(Tail(ts))

Emit(t) ==
  CASE t.op = "lit" -> <<Constant(t.val)>>
    [] t.op = "var" -> <<Named("LOAD_VAR", t.name)>>
    [] t.op = "let" -> Emit(t.e) \o <<Named("STORE_VAR", t.name)>> \o Emit(t.body)
    [] t.op = "set" -> Emit(t.e) \o <<Named("SET_VAR", t.name)>>
    [] t.op = "if" /\ Emit(t.b) # <<>> -> EmitIf(Emit(t.c), Emit(t.a), Emit(t.b))
    [] t.op = "if" /\ Emit(t.b) = <<>> -> EmitWhen(Emit(t.c), Emit(t.a))
    [] t.op = "when" -> EmitWhen(Emit(t.c), Emit(t.a))
    [] t.op \in {"and", "or"} -> ShortCircuit(t.op, Emit(t.c), Emit(t.a))
    [] t.op = "while" -> EmitWhile(Emit(t.c), Emit(t.body))
    [] t.op = "for" -> EmitFor(t.name, Emit(t.e), Emit(t.body))
    [] t.op = "do" -> EmitEach(t.ts)
    [] t.op = "print" -> EmitEach(t.ts) \o <<WithLen("PRINT", Len(t.ts))>>
    [] t.op = "list" -> EmitEach(t.ts) \o <<WithLen("MAKE_LIST", Len(t.ts))>>
    [] t.op = "dict" -> EmitEach(t.ts) \o <<WithLen("MAKE_DICT", Len(t.ts) \div 2)>>
    [] t.op \in {"append", "list_get", "map_set", "map_delete", "map_get"} ->
         EmitEach(t.ts) \o <<Named(OpcodeOn(t.op), t.name)>>
    [] t.op = "path_get" -> Emit(t.e) \o Emit(t.k) \o <<Instruction("MAP_GET")>>
    [] t.op = "apply" -> EmitEach(t.ts) \o <<Opcode(t.o)>>
    [] t.op = "binop" -> EmitEach(t.ts) \o <<Named("BINOP", Name(t.o))>>
    [] t.op = "call" -> EmitEach(t.ts) \o <<[Named("CALL", t.name) EXCEPT !.len = Len(t.ts)]>>
    [] t.op = "return" -> Emit(t.e) \o <<Instruction("RETURN")>>
    [] t.op = "exit" -> Emit(t.e) \o <<Instruction("EXIT")>>
    [] t.op = "try_let" -> EmitTry(t.name, t.err, Emit(t.e), Emit(t.handler), Emit(t.body))

(* CompileToBytecode: the functions, each seeing its parameters, then the     *)
(* main form; the count of renamings runs through the whole program.  A       *)
(* parameter written with its type is a list, not a symbol, and is not seen.  *)
Params(f) == IF f.typed THEN {} ELSE {f.params[i] : i \in DOMAIN f.params}

RECURSIVE ScopedFunctions(_, _)
ScopedFunctions(funs, k) ==
  IF funs = <<>> THEN [funs |-> <<>>, k |-> k]
  ELSE LET body == Scoped(funs[1].body, [x \in Params(funs[1]) |-> x], k)
           rest == ScopedFunctions(Tail(funs), body.k)
       IN [funs |-> <<[funs[1] EXCEPT !.body = body.t]>> \o rest.funs, k |-> rest.k]

ScopeBindings(p) ==
  LET scoped == ScopedFunctions(p.funs, 0)
  IN [funs |-> scoped.funs, main |-> Scoped(p.main, [x \in {} |-> x], scoped.k).t]

Compile(p) ==
  LET scoped == ScopeBindings(p)
      names == {p.funs[i].name : i \in DOMAIN p.funs}
      named(f) == scoped.funs[CHOOSE i \in DOMAIN p.funs : p.funs[i].name = f]
  IN [source |-> <<p>>, deadline |-> FALSE, adapter |-> FALSE,
      params |-> [f \in names |-> named(f).params],
      code |-> [f \in names \cup {MainName} |-> IF f = MainName THEN Emit(scoped.main) ELSE Emit(named(f).body)]]
=============================================================================
