----------------------------- MODULE Execution -----------------------------
(* The VM on programs whose meaning is known: its bytecode run beside the     *)
(* tree-walking interpreter.                                                  *)
EXTENDS Vm, Compiler
LOCAL INSTANCE SequencesExt
LOCAL INSTANCE Functions

(* cloneStoreValue, of every value of a scope: a dictionary or a list is      *)
(* copied whole, once for each place that names it.  made is the heap with    *)
(* the copies and the values copied so far, of which a list or a dictionary   *)
(* takes the last ones.                                                       *)
Untaken(made, n) == SubSeq(made.vals, 1, Len(made.vals) - n)
Taken(made, n) == SubSeq(made.vals, Len(made.vals) - n + 1, Len(made.vals))
Keyed(keys, vs) == [k \in Range(keys) |-> vs[CHOOSE i \in DOMAIN keys : keys[i] = k]]
AsList(made, n) == [made EXCEPT !.vals = Append(Untaken(made, n), List(Taken(made, n)))]
AsDict(made, keys) ==
  [heap |-> Append(made.heap, Keyed(keys, Taken(made, Len(keys)))),
   vals |-> Append(Untaken(made, Len(keys)), Dict(Len(made.heap) + 1))]

RECURSIVE CloneValue(_, _, _), CloneEach(_, _, _)
CloneEach(s, vs, places) ==
  IF vs = <<>> THEN s ELSE CloneEach(CloneValue(s, vs[1], places), Tail(vs), places)
CloneValue(s, v, places) ==
  CASE IsList(v) -> [CloneEach(s, v[2], places) EXCEPT !.made = AsList(@, Len(v[2]))]
    [] IsDict(v) -> LET dict == places[v[2]]
                        keys == SetToSeq(DOMAIN dict)
                        vs == [i \in DOMAIN keys |-> dict[keys[i]]]
                    IN [CloneEach(s, vs, places) EXCEPT !.made = AsDict(@, keys)]
    [] OTHER -> [s EXCEPT !.made.vals = Append(@, v)]
CloneScope(places, bound) ==
  LET keys == SetToSeq(DOMAIN bound)
      vs == [i \in DOMAIN keys |-> bound[keys[i]]]
      WithNames(made) == [heap |-> made.heap, bound |-> Keyed(keys, made.vals)]
  IN [CloneEach([made |-> [heap |-> places, vals |-> <<>>]], vs, places) EXCEPT !.made = WithNames(@)].made

(* The same program by way of its graph g.                                    *)
Hfir == INSTANCE HfirSource
GraphOf(p) == Hfir!LowerAST(ScopeBindings(p))
CompileGraph(p, g) ==
  LET lowered == Hfir!LowerToBytecode(g)
      names == DOMAIN lowered.functions
  IN [source |-> <<p>>, deadline |-> FALSE, adapter |-> FALSE,
      params |-> [f \in names |-> lowered.functions[f].params],
      code |-> [f \in names \cup {MainName} |-> IF f = MainName THEN lowered.main ELSE lowered.functions[f].code]]

(* The checker, which a program goes through before it is compiled.           *)
Checks == INSTANCE Checker

Finished == frames = <<>>
Compiled == program.source # <<>>
Source == program.source[1]

(* A program that no limit stopped prints on the VM what it prints on the     *)
(* interpreter, and exits with the same status: jumps, scopes, the shared     *)
(* operand stack and the unwinding of calls and try_let change nothing.       *)
AgreesWithInterpreter ==
  Finished /\ ~refused /\ Compiled =>
    LET meaning == Interpret(Source) IN
    meaning.diverges \/ (out = meaning.out /\ StatusOf(panic) = meaning.status)

(* No activation of a compiled program takes an operand of those below it: a  *)
(* callee, a TRY_LET value or a branch leaves its caller's operands, and a    *)
(* loop its list and its index, where they were.                              *)
OnTop(s, t) == Len(s) <= Len(t) /\ SubSeq(t, 1, Len(s)) = s
InAgent(i) == \E j \in DOMAIN frames : j > i /\ frames[j].kind = "agent"
LoopsInPlace(f) == \A k \in DOMAIN f.bases :
  Len(stack) >= f.bases[k] + 2 /\ IsList(stack[f.bases[k] + 1]) /\ IsInt(stack[f.bases[k] + 2])

OperandsNest ==
  Compiled /\ panic = None =>
    \A i \in DOMAIN frames :
      ~InAgent(i) => /\ frames[i].kind # "agent" => OnTop(frames[i].kept, stack)
                     /\ LoopsInPlace(frames[i])

(* A program the checker accepts never looks for an operand that is not       *)
(* there: a void expression used for its value is rejected "rather than       *)
(* surfacing as a VM stack underflow" (inferValue), whatever path is taken.   *)
(* The checker does not ask a value of a condition or of a dictionary's key:  *)
(* programs that have none there on some path are left out.                   *)
NoOperandIsMissing ==
  Compiled /\ panic = Error("STACK_UNDERFLOW") => ~Checks!AcceptsClosed(Source)

(* A program the WebAssembly back end takes computes there the value that it  *)
(* prints on the VM: shadowed names, calls, the arms of a branch and the      *)
(* variables a loop carries mean what they mean in the source ("unsupported   *)
(* graph shapes return an error instead of falling back silently",            *)
(* SerializeSSA).  Left out are errors, which WebAssembly does not have, and  *)
(* the shapes it takes although it does not represent them (Wat, last part).  *)
Wasm == INSTANCE Wat
IsShown(t) == t.op = "print" /\ Len(t.ts) = 1
Entered == Source.main.ts[1]
Represents(type, n) == IF type = "i32" THEN <<"bool", n>> ELSE Num(n)

Honoured(m) ==
  Checks!Accepts(Source) /\ Wasm!Compiles(m) /\ Wasm!KeepsProgram(m) =>
    {<<<<Represents(m[MainName].type, n)>>>> : n \in Wasm!Run(m)} = {out}

WasmAgrees ==
  Finished /\ ~refused /\ Compiled /\ panic = None /\ IsShown(Source.main) =>
    Honoured(Wasm!CompileToWasm(Source.funs, Entered))

(* An agent works on copies: no dictionary it can reach can be reached by the *)
(* program that spawned it.                                                   *)
RECURSIVE Reached(_)
Reached(v) ==
  CASE IsList(v) -> UNION {Reached(v[2][i]) : i \in DOMAIN v[2]}
    [] IsDict(v) -> {v[2]} \cup UNION {Reached(heap[v[2]][k]) : k \in DOMAIN heap[v[2]]}
    [] OTHER -> {}
InScopes(es) == UNION {UNION {Reached(envs[i].bound[x]) : x \in DOMAIN envs[i].bound} : i \in es}
InStack(s) == UNION {Reached(s[i]) : i \in DOMAIN s}

AgentsKeepToCopies ==
  \A i \in DOMAIN frames : frames[i].kind = "agent" =>
    LET depth == Cardinality({j \in 1..i : frames[j].kind = "agent"})
        first == CHOOSE e \in DOMAIN envs : envs[e].clone /\ Cardinality({d \in 2..e : envs[d].clone}) = depth
        theirs == InScopes(1..(first - 1)) \cup InStack(frames[i].kept)
    IN InScopes(first..Len(envs)) \cap theirs = {}

(* Every program comes to an end, one that loops or recurses for ever too:    *)
(* "execution halts to prevent infinite loops" (docs/cli.md).                 *)
Terminates == <>Finished

(* "a discarded value ... must not leave operands behind for the caller or    *)
(* the enclosing loop to consume. Each case prints the interpreter's answer." *)
(* (internal/vm/stack_discipline_test.go)                                     *)
DiscardsDoNoHarm == AgreesWithInterpreter
=============================================================================
