---------------------------- MODULE MCExecution ----------------------------
(* Small programs for Execution: pairs of the statements below around shared  *)
(* variables, and code no compiler emits for the errors of the VM.            *)
EXTENDS Execution

X == Name("x")
Y == Name("y")
N == Name("n")
E == Name("e")
Find == Name("find")
Climb == Name("climb")
Bad == Name("fail")
L(n) == Lit(Num(n))
Plus(a, b) == Op("+", a, b)
Same2(a, b) == Op("==", a, b)
Fail == Plus(L(1), Lit(Bool(TRUE)))
Result == Checks!Result
Ints(names) == [x \in {names[i] : i \in DOMAIN names} |-> Checks!Type("int")]

(* A return from inside a loop that leaves values behind; a recursion; a      *)
(* function that fails after it changed its parameter.                        *)
Functions == <<
  [name |-> Find, params |-> <<N>>, typed |-> TRUE, hints |-> Ints(<<N, Result>>), body |->
     Do(<<For(X, ListOf(<<L(1), L(2)>>),
              Do(<<L(7), When(Same2(Var(X), Var(N)), Ret(Plus(Var(X), L(10))))>>)),
          Ret(L(0))>>)],
  [name |-> Climb, params |-> <<X>>, typed |-> FALSE, hints |-> Ints(<<X, Result>>), body |->
     Do(<<Let(X, L(6), Set(X, L(9))), When(Same2(Var(X), L(3)), Ret(Var(X))), Ret(Call(Climb, <<Plus(Var(X), L(1))>>))>>)],
  [name |-> Bad, params |-> <<X>>, typed |-> TRUE, hints |-> Ints(<<X, Result>>), body |->
     Do(<<Set(X, Plus(Var(X), L(1))), Ret(Plus(Var(X), Lit(Bool(TRUE))))>>)] >>

Values == {
  Var(X), Fail, Plus(Var(X), L(1)),
  Call(Find, <<Var(X)>>),
  Plus(L(10), Call(Find, <<L(2)>>)),
  Plus(Do(<<L(5), Var(X)>>), Call(Climb, <<Var(X)>>)),
  Plus(L(3), Try(Y, Call(Bad, <<Var(X)>>), E, Var(X), Var(Y))),
  Let(X, L(8), Plus(Var(X), L(1))) }

Simple ==
  {Show(<<Var(X)>>), Quit(Var(X)), Ret(Var(X)), Do(<<L(4), Call(Find, <<L(1)>>)>>)}
    \cup {Set(X, v) : v \in Values}

Statements == Simple
  \cup {Show(<<v, L(0)>>) : v \in Values}
  \cup {Let(X, L(2), s) : s \in {Show(<<Var(X)>>), Set(X, L(3)), Quit(Var(X))}}
  \cup {Let(Y, Var(X), Do(<<Set(Y, Plus(Var(Y), Var(X))), Show(<<Var(Y), Var(X)>>)>>))}
  \cup {If(Same2(Var(X), L(1)), s, Show(<<L(9)>>)) : s \in {Set(X, L(2)), Fail, Ret(L(3))}}
  \cup {While(Same2(Var(X), L(1)), s) : s \in {Set(X, L(2)), L(5), Do(<<L(5), Set(X, Plus(Var(X), L(1)))>>)}}
  \cup {When(o, Show(<<o, Var(X)>>)) : o \in {
          Both(Same2(Var(X), L(1)), Same2(Call(Climb, <<Var(X)>>), L(3))),
          Either(Same2(Var(X), L(1)), Do(<<L(5), Set(X, L(1)), Lit(Bool(TRUE))>>)),
          Either(Same2(Var(X), L(2)), Both(Same2(Var(X), L(1)), Var(X)))}}
  \cup {For(x, ListOf(<<L(1), L(2)>>), s) :
          x \in {X, Y}, s \in {Do(<<L(5), Show(<<Var(X)>>)>>), Set(X, Plus(Var(X), L(1))), Call(Find, <<Var(X)>>),
                               Try(Y, Call(Bad, <<Var(X)>>), E, Show(<<Var(X)>>), L(1))}}
  \cup {For(Y, ListOf(<<L(1), L(2)>>), For(Y, ListOf(<<L(3), Var(Y)>>), Do(<<Show(<<Var(Y)>>), Var(X)>>)))}
  \cup {Try(x, v, E, Show(<<Var(X)>>), Show(<<Var(x)>>)) :
          x \in {X, Y}, v \in {Fail, Var(X), Do(<<Set(X, L(4)), Fail>>), Do(<<L(1), Call(Bad, <<Var(X)>>)>>), Call(Climb, <<L(0)>>)}}

Main(s1, s2) == Let(X, L(1), Do(<<s1, s2, Show(<<Var(X)>>)>>))

(* Code that is not the compiler's: agents, and instructions whose operands   *)
(* are wrong.                                                                 *)
SpawnOf(body) == <<Constant(Text(<<"task">>)), WithLen("SPAWN_AGENT", Len(body))>> \o body
AgentBodies == {
  <<>>,
  <<Named("LOAD_VAR", X), Constant(Num(1)), Named("BINOP", Name("+")), Named("SET_VAR", X)>>,
  <<Constant(Num(1)), Instruction("RETURN")>>,
  <<Constant(Num(1)), Instruction("EXIT")>>,
  <<Named("LOAD_VAR", Y)>>,
  <<Constant(Num(1)), [Named("CALL", Climb) EXCEPT !.len = 1]>>,
  SpawnOf(SpawnOf(SpawnOf(SpawnOf(SpawnOf(SpawnOf(<<>>)))))),
  <<WithLen("JUMP", 0)>> }
Agents == {<<Constant(Num(1)), Named("STORE_VAR", X)>> \o SpawnOf(b) \o <<Named("LOAD_VAR", X), WithLen("PRINT", 1)>> : b \in AgentBodies}
Wrong == {
  <<Instruction("RETURN")>>,
  <<Constant(Num(1)), Named("BINOP", Name("+"))>>,
  <<Constant(Num(1)), WithLen("MAKE_LIST", 2)>>,
  <<Constant(Num(1)), Named("SET_VAR", X)>>,
  <<Constant(Num(1)), Instruction("FOR_INIT")>>,
  <<Constant(Num(1)), Constant(Num(0)), Named("FOR_NEXT", X)>>,
  <<Constant(List(<<>>)), Constant(Num(1)), Named("FOR_NEXT", X)>>,
  <<Constant(List(<<>>)), Constant(Num(0)), [Named("FOR_NEXT", X) EXCEPT !.len = 1]>>,
  <<Constant(Num(1)), Named("FOR_NEXT", X)>>,
  <<Named("CALL", Name("nowhere"))>>,
  <<Named("CALL", Find)>>,
  <<Constant(Num(1)), WithLen("JUMP_IF_FALSE", 1)>>,
  <<Constant(Num(1)), WithLen("SPAWN_AGENT", 0)>>,
  <<Constant(Text(<<"task">>)), WithLen("SPAWN_AGENT", 1)>>,
  <<WithLen("TRY_LET", 1)>>,
  <<Named("TRY_LET", X)>>,
  <<[Named("TRY_LET", X) EXCEPT !.err = E, !.len = 1], WithLen("JUMP", 0)>> }

(* Programs about a dictionary d, a list l and a number x: two names for one  *)
(* dictionary, a list that another was copied from, keys that are numbers,    *)
(* operations that fail, arithmetic at the width of an integer.               *)
D == Name("d")
M == Name("m")
Xs == Name("l")
Put == Name("put")
Drop == Name("drop")
Ta == Lit(Text(<<"a">>))
Tb == Lit(Text(<<"b">>))
T1 == Lit(Text(<<"1">>))
Comma == Lit(Text(<<",">>))

DataFunctions == <<
  [name |-> Put, params |-> <<D, X>>, typed |-> FALSE, hints |-> [x \in {D} |-> Checks!Unknown], body |->
     Do(<<MapSet(D, Var(X), L(3)), Let(D, Dictionary(<<Tb, L(9)>>), MapSet(D, Ta, L(4))), Ret(Var(D))>>)],
  [name |-> Drop, params |-> <<D>>, typed |-> FALSE, hints |-> [x \in {D} |-> Checks!Unknown], body |-> MapDelete(D, Ta)] >>

DataValues == {
  MapGet(D, Ta), MapGet(D, L(1)), ListGet(Xs, L(1)), ListGet(Xs, T1), ListGet(Xs, Ta), ListGet(Xs, L(-1)), ListGet(Xs, L(7)),
  PathGet(Dictionary(<<Ta, L(2), Ta, Var(X)>>), Ta), PathGet(MapGet(D, Tb), Ta), PathGet(Call(Put, <<Var(D), Ta>>), Ta),
  Apply("is_nil", <<MapGet(D, Tb)>>), Apply("list_len", <<Apply("map_keys", <<Var(D)>>)>>), Apply("list_len", <<Var(D)>>),
  Apply("to_int", <<Apply("str_join", <<Var(Xs), Lit(Text(<<>>))>>)>>), Apply("to_int", <<MapGet(D, Ta)>>),
  Apply("str_split", <<Apply("str_join", <<Apply("map_keys", <<Var(D)>>), Comma>>), Comma>>),
  Apply("to_string", <<Op("-", L(-30), Op("*", Var(X), L(2)))>>),
  Op("*", Var(X), L(-16)), Op("*", L(-1), Op("-", L(-31), Var(X))), Op("<", MapGet(D, Ta), Var(X)),
  Op(">=", Apply("to_string", <<Var(X)>>), T1), Op("!=", Var(D), Var(D)), Op("+", Ta, Tb), Apply("map_keys", <<Var(Xs)>>) }

DataStatements ==
  {Show(<<v>>) : v \in DataValues}
  \cup {Try(Y, v, E, Show(<<Var(E)>>), Show(<<Var(Y)>>)) : v \in {MapGet(D, Tb), Op("+", Var(X), L(31)), ListGet(D, L(0))}}
  \cup {
    Set(X, Op("*", Var(X), L(8))),
    MapSet(D, Ta, Var(D)), MapSet(D, Tb, Dictionary(<<Ta, L(7)>>)), MapSet(D, Var(X), L(5)), MapDelete(D, T1), MapDelete(Xs, Ta),
    Let(M, Var(D), Do(<<MapSet(M, Ta, L(6)), Set(M, Dictionary(<<>>)), MapSet(M, Ta, L(8)), MapDelete(D, Tb)>>)),
    Set(D, Call(Put, <<Var(D), Tb>>)), Set(D, L(0)),
    Let(Y, Var(Xs), Do(<<AddTo(Y, L(3)), Show(<<Var(Y)>>)>>)),
    Show(<<Call(Drop, <<Var(D)>>)>>), Try(Y, Quit(Var(X)), E, Show(<<Var(E)>>), Show(<<Var(Y)>>)),
    AddTo(Xs, Var(X)), Do(<<AddTo(Xs, L(3)), AddTo(Xs, L(4))>>), AddTo(Name("nowhere"), L(1)), AddTo(D, L(1)),
    For(Y, Apply("map_keys", <<Var(D)>>), MapSet(D, Var(Y), Var(X))) }
DataMain(s1, s2) ==
  Let(D, Dictionary(<<Ta, T1, L(1), L(2)>>),
    Let(Xs, ListOf(<<L(1), L(2)>>), Let(X, L(2), Do(<<s1, s2, Show(<<Var(D), Var(Xs), Var(X)>>)>>))))
DataPrograms == {[funs |-> DataFunctions, main |-> DataMain(s1, s2)] : s1 \in DataStatements, s2 \in DataStatements}

(* The program behind the agents: two names for one dictionary that holds     *)
(* another.                                                                   *)
Shared == Emit(Dictionary(<<Ta, Dictionary(<<Tb, L(1)>>)>>))
  \o <<Named("STORE_VAR", D), Named("LOAD_VAR", D), WithLen("MAKE_LIST", 1), Named("STORE_VAR", Xs)>>
SharingAgents == {
  Shared \o SpawnOf(Emit(MapSet(D, Tb, L(2)))) \o Emit(Show(<<Var(D)>>)),
  Shared \o Emit(MapSet(D, T1, L(2))) \o SpawnOf(Emit(Let(M, MapGet(D, Ta), MapDelete(M, Tb)))),
  Shared \o SpawnOf(Emit(For(M, Var(Xs), MapSet(M, Ta, L(2)))) \o SpawnOf(Emit(MapDelete(D, Ta)))) \o Emit(MapDelete(D, Ta)) }

WrongData == {
  <<Named("APPEND", Xs)>>, <<Constant(Num(1)), Named("MAP_SET", X)>>, <<Constant(Num(1)), WithLen("MAKE_DICT", 1)>>,
  <<Constant(Num(1)), Instruction("MAP_GET")>>, <<Constant(Num(1)), Constant(Num(1)), Instruction("STR_SPLIT")>>,
  <<Constant(Num(1)), Constant(Num(1)), Instruction("STR_JOIN")>>, <<Constant(Num(1)), Named("MAP_DELETE", D)>>,
  <<Constant(Num(1)), Named("MAP_GET", D)>>, <<Constant(Num(1)), Named("LIST_GET", D)>>, <<Instruction("IS_NIL")>> }

(* Forms that may yield no value, each in every place that takes one: what    *)
(* the checker lets through must run.  exit of a missing key is left out: the *)
(* VM takes nil for status 0, the interpreter for an error.                   *)
Tell == Name("tell")
ValueFunctions == <<
  Functions[2],
  [name |-> Bad, params |-> <<X>>, typed |-> TRUE, hints |-> Ints(<<X, Result>>), body |-> Ret(Apply("to_int", <<Ta>>))],
  [name |-> Tell, params |-> <<X>>, typed |-> TRUE, body |-> Show(<<Var(X)>>),
   hints |-> [x \in {X, Result} |-> Checks!Type(IF x = X THEN "int" ELSE "void")]] >>
IsOne == Same2(Var(X), L(1))
IsTwo == Same2(Var(X), L(2))
True == Lit(Bool(TRUE))
Doubtful ==
  {Show(<<L(1)>>), Set(X, L(2)), While(IsTwo, L(5)), For(Y, Var(Xs), Var(Y)), MapSet(D, Ta, L(1)), MapDelete(D, Ta),
   AddTo(Xs, L(4)), Do(<<>>), Do(<<L(5), Show(<<L(6)>>)>>), Do(<<Show(<<L(6)>>), L(5)>>), Call(Tell, <<L(1)>>), Call(Climb, <<L(3)>>),
   Quit(L(1)), Ret(L(7)), Do(<<Show(<<L(6)>>), Ret(L(7))>>), Do(<<Quit(L(3))>>), True, Var(Xs), Var(D), MapGet(D, Ta)}
  \cup {When(IsOne, v) : v \in {L(5), True, Ta}} \cup {When(IsTwo, v) : v \in {L(5), True, Ta}}
  \cup {Let(Y, L(3), v) : v \in {Show(<<Var(Y)>>), Plus(Var(Y), Var(X)), When(IsTwo, Var(Y)), If(IsTwo, Var(Y), Set(Y, L(2)))}}
  \cup {If(IsTwo, v, w) : v \in {L(5), Show(<<L(6)>>), Ret(L(7))},
                          w \in {L(6), PathGet(Var(D), Tb), Set(X, L(2)), When(IsTwo, L(6)), Call(Tell, <<L(2)>>)}}
  \cup {If(IsTwo, PathGet(Var(D), Tb), v) : v \in {Show(<<L(6)>>), Do(<<L(5), While(IsTwo, L(5))>>)}}
  \cup {Try(Y, v, E, h, b) : v \in {L(1), Call(Bad, <<Var(X)>>)}, h \in {L(2), Show(<<Var(E)>>)},
                             b \in {Var(Y), Set(X, Var(Y)), When(IsTwo, Var(Y))}}
Taking(v) ==
  {Set(X, Plus(L(1), v)), Set(X, Plus(v, L(1))), Let(Y, v, Show(<<Var(Y)>>)), Set(X, v), Show(<<v>>), Show(<<L(1), v>>),
   Show(<<ListOf(<<v, L(2)>>)>>), Show(<<Dictionary(<<Ta, v>>)>>), Show(<<Dictionary(<<v, L(1)>>)>>), Show(<<Call(Climb, <<v>>)>>),
   Show(<<Apply("to_string", <<v>>)>>), Try(Y, v, E, Show(<<Var(E)>>), Show(<<Var(Y)>>)), For(Y, v, Show(<<Var(Y)>>)),
   While(v, Quit(L(2))), If(v, Show(<<L(1)>>), Show(<<L(2)>>)), When(Both(True, v), Show(<<L(1)>>)), MapSet(D, Ta, v), MapSet(D, v, L(1)),
   AddTo(Xs, v), Ret(v), Show(<<ListGet(Xs, v)>>), Show(<<PathGet(v, Ta)>>), Do(<<v, Show(<<L(8)>>)>>)}
  \cup {Quit(w) : w \in {v} \ {MapGet(D, Ta)}}
TakingPrograms ==
  {p \in {[funs |-> ValueFunctions,
           main |-> Let(X, L(1), Let(Xs, ListOf(<<L(1)>>), Let(D, Dictionary(<<Tb, L(2)>>), Do(<<s, Show(<<Var(X), Var(Xs), Var(D)>>)>>))))] :
            s \in UNION {Taking(v) : v \in Doubtful}} :
      Checks!AcceptsClosed(p)}

(* Functions of one number, of which the program shows a value: branches,     *)
(* shadowed names, calls and loops, for the WebAssembly back end.             *)
Twice == Name("twice")
Work == Name("work")
OfNumber(f, body) == [name |-> f, params |-> <<N>>, typed |-> FALSE, hints |-> Ints(<<N, Result>>), body |-> body]
Under(n) == Op("<", Var(N), L(n))
Numbers ==
  {Var(N), Call(Twice, <<Var(N)>>), If(Under(1), L(4), Var(N)), Let(N, Plus(Var(N), L(2)), Op("*", Var(N), L(3))),
   Let(Y, Plus(Var(N), L(1)), If(Both(Under(2), Op("!=", Var(Y), L(1))), Var(Y), Let(N, L(5), Var(N))))}
Turning ==
  {Do(<<Set(X, Plus(Var(X), v)), Set(Y, Plus(Var(Y), L(1)))>>) : v \in {Var(Y), Call(Twice, <<Var(Y)>>), If(Under(2), L(1), Var(Y))}}
  \cup {Do(<<Set(Y, Plus(Var(Y), L(1))), Set(X, v)>>) : v \in {Var(N), Plus(Var(X), Var(X))}}
  \cup {Let(E, Var(Y), Do(<<Set(Y, Plus(Var(Y), L(1))), Set(X, Var(E))>>)), Set(Y, Plus(Var(Y), L(1)))}
Looping(body, r) == Let(X, L(1), Let(Y, L(0), Do(<<While(Op("<", Var(Y), Var(N)), body), r>>)))
WorkBodies ==
  {Ret(Plus(a, b)) : a \in Numbers, b \in Numbers}
  \cup {If(Under(2), Ret(a), Ret(b)) : a \in Numbers, b \in Numbers}
  \cup {Looping(body, r) : body \in Turning, r \in {Ret(Plus(Var(X), Var(N))), Ret(Var(Y))}}
  \cup {If(Under(1), Ret(L(1)), Ret(Call(Work, <<Op("-", Var(N), L(1))>>)))}
WasmPrograms ==
  {[funs |-> <<OfNumber(Twice, Ret(Plus(Var(N), Var(N)))), OfNumber(Work, body)>>, main |-> Show(<<Call(Work, <<L(n)>>)>>)] :
     body \in WorkBodies, n \in {0, 2}}

Assembled(code, adapter) ==
  LET compiled == Compile([funs |-> Functions, main |-> L(0)]) IN
  [compiled EXCEPT !.source = <<>>, !.deadline = TRUE, !.adapter = adapter, !.code[MainName] = code]

(* The statements compiled by way of a graph, each with one function; a call  *)
(* of a function that is not there does not pass the gate.                    *)
Single(funs, mains) == {[funs |-> <<funs[i]>>, main |-> m] : i \in DOMAIN funs, m \in mains}
WithGraphs(ps) == {[source |-> p, graph |-> GraphOf(p)] : p \in ps}
GraphPrograms ==
  {CompileGraph(c.source, c.graph) :
     c \in {d \in WithGraphs(Single(Functions, {Main(s, L(0)) : s \in Statements})
                               \cup Single(DataFunctions, {DataMain(s, L(0)) : s \in DataStatements})) :
              Hfir!PassesGate(d.graph)}}

(* Every program without a deadline, and some of them with one.               *)
Pair(s1, s2) == [funs |-> Functions, main |-> Main(s1, s2)]
Pairs == {Pair(s1, s2) : s1 \in Statements, s2 \in Statements}
Timed(p, deadline) == [Compile(p) EXCEPT !.deadline = deadline]
SourcePrograms ==
  {Timed(c[1], c[2]) : c \in ((Pairs \cup DataPrograms \cup TakingPrograms \cup WasmPrograms) \X {FALSE})
                              \cup ({Pair(s, s) : s \in Statements} \X {TRUE})}

MCPrograms ==
  SourcePrograms \cup GraphPrograms
    \cup {Assembled(c, a) : c \in Agents \cup Wrong \cup WrongData \cup SharingAgents, a \in BOOLEAN}

(* The checks of an integer's width are exact.                                *)
ASSUME ChecksAreExact ==
  \A a \in MinInt..MaxInt, b \in MinInt..MaxInt, op \in {"+", "-", "*"} :
    Overflows(op, a, b) <=> Arithmetic(op, a, b) \notin MinInt..MaxInt
ASSUME PrintedNumbersParse ==
  \A n \in MinInt..MaxInt : Parses(Sprint(Num(n))) /\ Parsed(Sprint(Num(n))) = n

(* A copy is made of dictionaries of its own, and leaves those there were: of *)
(* a scope that names two dictionaries, one of which holds the other twice.   *)
RECURSIVE MadeOf(_, _)
MadeOf(v, places) ==
  CASE IsList(v) -> \A i \in DOMAIN v[2] : MadeOf(v[2][i], places)
    [] IsDict(v) -> v[2] \in places
    [] OTHER -> TRUE
TwoDicts == <<[k \in {<<"a">>} |-> Num(1)],
              [k \in {<<"a">>, <<"b">>} |-> IF k = <<"a">> THEN Dict(1) ELSE List(<<Num(2), List(<<Dict(1)>>)>>)]>>
ASSUME CopiesAreWhole ==
  \A v, w \in {Num(1), Text(<<"a">>), Dict(1), Dict(2), List(<<Dict(2), Num(1)>>)} :
    LET copy == CloneScope(TwoDicts, [x \in {X, Y} |-> IF x = X THEN v ELSE w])
        fresh == 3..Len(copy.heap)
    IN /\ SubSeq(copy.heap, 1, 2) = TwoDicts
       /\ \A p \in fresh : \A k \in DOMAIN copy.heap[p] : MadeOf(copy.heap[p][k], fresh)
       /\ \A x \in {X, Y} : MadeOf(copy.bound[x], fresh)

(* A value the program discards inside an operand that is not the first.      *)
Discarding == Do(<<L(5), L(2)>>)
DiscardingPrograms ==
  {Compile([funs |-> Functions, main |-> Main(s, Show(<<Var(X)>>))]) :
     s \in {Show(<<Plus(L(1), Discarding)>>), Show(<<Discarding>>), Show(<<L(1), Discarding>>),
            Set(X, Call(Climb, <<Discarding>>))}}
=============================================================================
