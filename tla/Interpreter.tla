---------------------------- MODULE Interpreter ----------------------------
(* The tree-walking interpreter of `howlframe run --target interpreter`       *)
(* (Interpret, eval and evalList in internal/vm/vm.go): the meaning of a      *)
(* program, against which its bytecode is checked.  try_let, which the        *)
(* interpreter does not run, is given the meaning the WebAssembly backend     *)
(* states for it (internal/backend/wasmgc/compile.go, tryLet).                *)
(*                                                                            *)
(* A program is [funs, main]: a sequence of functions, each [name, params,    *)
(* typed, body], and the main form.  A form is a record whose op is its head. *)
EXTENDS Data

CONSTANT Fuel   \* loop iterations and calls after which a program is taken to run for ever

Lit(v)              == [op |-> "lit", val |-> v]
Var(x)              == [op |-> "var", name |-> x]
Let(x, e, body)     == [op |-> "let", name |-> x, e |-> e, body |-> body]
Set(x, e)           == [op |-> "set", name |-> x, e |-> e]
If(c, a, b)         == [op |-> "if", c |-> c, a |-> a, b |-> b]
When(c, a)          == [op |-> "when", c |-> c, a |-> a]
Both(c, a)          == [op |-> "and", c |-> c, a |-> a]
Either(c, a)        == [op |-> "or", c |-> c, a |-> a]
While(c, body)      == [op |-> "while", c |-> c, body |-> body]
For(x, e, body)     == [op |-> "for", name |-> x, e |-> e, body |-> body]
Do(ts)              == [op |-> "do", ts |-> ts]
Show(ts)            == [op |-> "print", ts |-> ts]
ListOf(ts)          == [op |-> "list", ts |-> ts]
Op(o, a, b)         == [op |-> "binop", o |-> o, ts |-> <<a, b>>]
Apply(o, ts)        == [op |-> "apply", o |-> o, ts |-> ts]
Dictionary(ts)      == [op |-> "dict", ts |-> ts]
AddTo(x, e)         == [op |-> "append", name |-> x, ts |-> <<e>>]
ListGet(x, i)       == [op |-> "list_get", name |-> x, ts |-> <<i>>]
MapSet(x, k, e)     == [op |-> "map_set", name |-> x, ts |-> <<k, e>>]
MapDelete(x, k)     == [op |-> "map_delete", name |-> x, ts |-> <<k>>]
MapGet(x, k)        == [op |-> "map_get", name |-> x, ts |-> <<k>>]
PathGet(e, k)       == [op |-> "path_get", e |-> e, k |-> k]
Call(f, ts)         == [op |-> "call", name |-> f, ts |-> ts]
Ret(e)              == [op |-> "return", e |-> e]
Quit(e)             == [op |-> "exit", e |-> e]
Try(x, e, err, h, body) ==
  [op |-> "try_let", name |-> x, e |-> e, err |-> err, handler |-> h, body |-> body]

(* InterpEnv: a chain of scopes, each with one variable, is a sequence of     *)
(* bindings; a name means its last one.                                       *)
Bindings(env, x) == {i \in DOMAIN env : env[i].name = x}
Innermost(env, x) == CHOOSE i \in Bindings(env, x) : \A j \in Bindings(env, x) : j <= i
Bind(env, x, v) == Append(env, [name |-> x, val |-> v])

(* The state of an evaluation: the bindings, the dictionaries, what was       *)
(* printed, how it ended (None while it goes on), and the value of the form   *)
(* just evaluated, or the values of the forms.                                *)
Diverges == [kind |-> "diverges", val |-> Nil]
GoesOn(s) == s.end = None
Gives(s, v) == [s EXCEPT !.val = v]
Ends(s, p) == [s EXCEPT !.end = p]
Leaves(s, before) == [s EXCEPT !.env = SubSeq(@, 1, Len(before.env))]
Function(p, f) == CHOOSE i \in DOMAIN p.funs : p.funs[i].name = f

(* The forms that compute a value from those of their operands.  The          *)
(* interpreter splits and joins what a value prints.                          *)
Applied(o, vs, heap) ==
  CASE o \in {"to_int", "to_string"} -> Converted(o, vs[1])
    [] o = "list_len" -> Length(vs[1])
    [] o = "is_nil" -> Fine(Bool(vs[1] = Nil))
    [] o = "map_keys" -> IF IsDict(vs[1]) THEN Fine(List(SortedKeys(heap[vs[1][2]]))) ELSE Faulty("TYPE_ERROR")
    [] o = "str_split" -> Fine(List(Split(Sprint(vs[1]), Sprint(vs[2]))))
    [] o = "str_join" ->
         IF ~IsList(vs[1]) THEN Faulty("TYPE_ERROR")
         ELSE Fine(Text(Joined([i \in DOMAIN vs[1][2] |-> TextOf(vs[1][2][i])], Sprint(vs[2]))))

(* evalAppend, evalListGet, evalMapSet, evalMapDelete, evalMapGet: of the     *)
(* collection as it was before the operands were evaluated.  append makes a   *)
(* new list, the dictionary is changed where it is.                           *)
Collection(t, v) == IF t.op \in {"append", "list_get"} THEN IsList(v) ELSE IsDict(v)
OnCollection(t, current, r) ==
  CASE t.op = "append" ->
         [r EXCEPT !.env[Innermost(r.env, t.name)].val = List(Append(current[2], r.vals[1])), !.val = Nil]
    [] t.op = "list_get" ->
         IF Parses(Sprint(r.vals[1])) THEN Gives(r, Element(current[2], Sprint(r.vals[1])))
         ELSE Ends(r, Error("TYPE_ERROR"))
    [] t.op = "map_set" -> [r EXCEPT !.heap[current[2]] = With(@, Sprint(r.vals[1]), r.vals[2]), !.val = Nil]
    [] t.op = "map_delete" -> [r EXCEPT !.heap[current[2]] = Without(@, Sprint(r.vals[1])), !.val = Nil]
    [] t.op = "map_get" -> Gives(r, Held(r.heap[current[2]], r.vals[1]))

RECURSIVE Eval(_, _, _), EvalEach(_, _, _), EvalFor(_, _, _, _)

(* Every form of ts in order; vals are their values.                          *)
EvalEach(p, ts, s) ==
  IF ts = <<>> THEN [s EXCEPT !.vals = <<>>]
  ELSE LET front == EvalEach(p, SubSeq(ts, 1, Len(ts) - 1), s) IN
       IF ~GoesOn(front) THEN front
       ELSE LET last == Eval(p, ts[Len(ts)], front) IN
            [last EXCEPT !.vals = Append(front.vals, last.val)]

(* evalFor: the body once for each item, in a scope of its own.               *)
EvalFor(p, t, items, s) ==
  IF items = <<>> \/ ~GoesOn(s) THEN Gives(s, Nil)
  ELSE LET once == Eval(p, t.body, [s EXCEPT !.env = Bind(@, t.name, items[1])]) IN
       EvalFor(p, t, Tail(items), Leaves(once, s))

EvalCall(p, t, s) ==
  LET args == EvalEach(p, t.ts, s) IN
  IF ~ \E i \in DOMAIN p.funs : p.funs[i].name = t.name THEN Ends(s, Error("RUNTIME_ERROR"))
  ELSE IF ~GoesOn(args) THEN args
  ELSE LET f == p.funs[Function(p, t.name)] IN
       IF Len(f.params) # Len(t.ts) THEN Ends(args, Error("RUNTIME_ERROR"))
       ELSE IF args.fuel = 0 THEN Ends(args, Diverges)
       ELSE LET own == [i \in 1..Len(t.ts) |-> [name |-> f.params[i], val |-> args.vals[i]]]
                ran == Eval(p, f.body, [args EXCEPT !.env = own, !.fuel = @ - 1])
                back == [ran EXCEPT !.env = args.env]
            IN IF ran.end.kind = "return" THEN [back EXCEPT !.end = None, !.val = ran.end.val] ELSE back

EvalTry(p, t, s) ==
  LET v == Eval(p, t.e, s) IN
  IF v.end.kind = "error"
  THEN LET caught == [Leaves(v, s) EXCEPT !.end = None, !.env = Bind(@, t.err, v.end.val)]
       IN Leaves(Eval(p, t.handler, caught), s)
  ELSE IF ~GoesOn(v) THEN v
  ELSE Leaves(Eval(p, t.body, [v EXCEPT !.env = Bind(@, t.name, v.val)]), s)

(* evalIf and evalWhile: the condition must be a boolean.                     *)
EvalChoice(p, t, s) ==
  LET c == Eval(p, t.c, s) IN
  CASE ~GoesOn(c) -> c
    [] GoesOn(c) /\ ~IsBool(c.val) -> Ends(c, Error("TYPE_ERROR"))
    [] OTHER ->
       CASE t.op = "while" /\ c.val = Bool(TRUE) ->
              LET once == Eval(p, t.body, c) IN
              IF once.fuel = 0 THEN Ends(once, Diverges)
              ELSE IF ~GoesOn(once) THEN once
              ELSE Eval(p, t, [once EXCEPT !.fuel = @ - 1])
         [] t.op # "while" /\ c.val = Bool(TRUE) -> Eval(p, t.a, c)
         [] t.op = "if" /\ c.val # Bool(TRUE) -> Eval(p, t.b, c)
         [] OTHER -> Gives(c, Nil)

(* and, or: the right operand only where the left one leaves it open.         *)
EvalShort(p, t, s) ==
  LET c == Eval(p, t.c, s)
      whole == IF GoesOn(c) /\ c.val = Bool(t.op = "and") THEN Eval(p, t.a, c) ELSE c
  IN IF GoesOn(whole) /\ ~IsBool(whole.val) THEN Ends(whole, Error("TYPE_ERROR")) ELSE whole

EvalCollection(p, t, s) ==
  IF Bindings(s.env, t.name) = {} THEN Ends(s, Error("UNDEFINED_VAR"))
  ELSE LET current == s.env[Innermost(s.env, t.name)].val
           r == EvalEach(p, t.ts, s)
       IN IF ~Collection(t, current) THEN Ends(s, Error("TYPE_ERROR"))
          ELSE IF ~GoesOn(r) THEN r
          ELSE OnCollection(t, current, r)

(* map_get of what another form gives.                                        *)
EvalPath(p, t, s) ==
  LET d == Eval(p, t.e, s) IN
  IF ~GoesOn(d) THEN d
  ELSE IF ~IsDict(d.val) THEN Ends(d, Error("TYPE_ERROR"))
  ELSE LET k == Eval(p, t.k, d) IN
       IF GoesOn(k) THEN Gives(k, Held(k.heap[d.val[2]], k.val)) ELSE k

Answers(r, answer) == IF answer.fault = None THEN Gives(r, answer.val) ELSE Ends(r, answer.fault)

Eval(p, t, s) ==
  CASE t.op = "lit" -> Gives(s, t.val)
    [] t.op = "var" ->
         IF Bindings(s.env, t.name) = {} THEN Ends(s, Error("UNDEFINED_VAR"))
         ELSE Gives(s, s.env[Innermost(s.env, t.name)].val)
    [] t.op \in {"if", "when", "while"} -> EvalChoice(p, t, s)
    [] t.op \in {"and", "or"} -> EvalShort(p, t, s)
    [] t.op = "call" -> EvalCall(p, t, s)
    [] t.op = "try_let" -> EvalTry(p, t, s)
    [] t.op \in {"append", "list_get", "map_set", "map_delete", "map_get"} -> EvalCollection(p, t, s)
    [] t.op = "path_get" -> EvalPath(p, t, s)
    [] t.op \in {"do", "print", "list", "dict", "binop", "apply"} ->
         LET r == EvalEach(p, t.ts, s) IN
         CASE ~GoesOn(r) -> r
           [] GoesOn(r) /\ t.op = "do" -> Gives(r, IF t.ts = <<>> THEN Nil ELSE r.vals[Len(t.ts)])
           [] GoesOn(r) /\ t.op = "print" -> [r EXCEPT !.out = Append(@, ShownAll(r.heap, r.vals)), !.val = Nil]
           [] GoesOn(r) /\ t.op = "list" -> Gives(r, List(r.vals))
           [] GoesOn(r) /\ t.op = "dict" ->
                [r EXCEPT !.heap = Append(@, FromPairs(r.vals)), !.val = Dict(Len(r.heap) + 1)]
           [] GoesOn(r) /\ t.op = "apply" -> Answers(r, Applied(t.o, r.vals, r.heap))
           [] OTHER -> Answers(r, Binop(t.o, r.vals[1], r.vals[2]))
    [] OTHER ->
         LET v == Eval(p, t.e, s) IN
         CASE ~GoesOn(v) -> v
           [] GoesOn(v) /\ t.op = "let" -> Leaves(Eval(p, t.body, [v EXCEPT !.env = Bind(@, t.name, v.val)]), s)
           [] GoesOn(v) /\ t.op = "set" ->
                IF Bindings(v.env, t.name) = {} THEN Ends(v, Error("UNDEFINED_VAR"))
                ELSE [v EXCEPT !.env[Innermost(v.env, t.name)].val = v.val, !.val = Nil]
           [] GoesOn(v) /\ t.op = "for" ->
                IF IsList(v.val) THEN EvalFor(p, t, v.val[2], v) ELSE Ends(v, Error("TYPE_ERROR"))
           [] GoesOn(v) /\ t.op = "return" -> Ends(v, Return(v.val))
           [] OTHER -> Ends(v, IF IsInt(v.val) THEN Exit(v.val) ELSE Error("RUNTIME_ERROR"))

(* Interpret: what the program prints and its exit status.                    *)
Interpret(p) ==
  LET s == Eval(p, p.main, [env |-> <<>>, heap |-> <<>>, out |-> <<>>, end |-> None, val |-> Nil, vals |-> <<>>, fuel |-> Fuel])
  IN [out |-> s.out, status |-> StatusOf(s.end), diverges |-> s.end = Diverges]
=============================================================================
