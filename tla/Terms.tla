------------------------------- MODULE Terms -------------------------------
(* The values a HowlFrame program computes with, the instructions of its      *)
(* bytecode and the ways an evaluation ends (internal/vm/vm.go,               *)
(* internal/bytecode/opcode.go).  A value is a tuple that starts with its     *)
(* kind, so that any two compare.  A text is a sequence of characters, and    *)
(* the code of an error is one of them.  A dictionary is a place in the heap. *)
EXTENDS Integers, Sequences

Num(n) == <<"int", n>>
Bool(b) == <<"bool", IF b THEN 1 ELSE 0>>
Nil == <<"nil">>
List(vs) == <<"list", vs>>
Text(chars) == <<"text", chars>>
Dict(place) == <<"dict", place>>

IsInt(v) == v[1] = "int"
IsBool(v) == v[1] = "bool"
IsList(v) == v[1] = "list"
IsText(v) == v[1] = "text"
IsDict(v) == v[1] = "dict"

(* What ends an evaluation early: return and exit are Go panics of their own  *)
(* kinds, everything else is an error with a code.                            *)
None == [kind |-> "none", val |-> Nil]
Error(code) == [kind |-> "error", val |-> Text(<<code>>)]
Return(v) == [kind |-> "return", val |-> v]
Exit(v) == [kind |-> "exit", val |-> v]

(* The exit status of a run that ended with a panic, or with none: exit takes *)
(* its operand, a return of an integer at the top level does too, and an      *)
(* error is status 1.                                                         *)
StatusOf(p) ==
  CASE p.kind = "error" -> 1
    [] p.kind \in {"return", "exit"} /\ IsInt(p.val) -> p.val[2]
    [] OTHER -> 0

(* A name is a pair, its text and 0, or the number of the renaming that took  *)
(* it out of the way of another.                                              *)
Name(x) == <<x, 0>>
MainName == Name("main")

(* An instruction: its opcode, the name and the lengths in its operands, its  *)
(* constant, and the graph node it comes from (0 for code compiled from an    *)
(* AST, which records none).                                                  *)
Instruction(op) ==
  [op |-> op, name |-> Name(""), err |-> Name(""), len |-> 0, catch |-> 0, body |-> 0, val |-> Nil, origin |-> 0]
WithLen(op, n) == [Instruction(op) EXCEPT !.len = n]
Named(op, x) == [Instruction(op) EXCEPT !.name = x]
Constant(v) == [Instruction("LOAD_CONST") EXCEPT !.val = v]
=============================================================================
