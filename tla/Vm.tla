--------------------------------- MODULE Vm ---------------------------------
(* The bytecode VM (BCVM.run in internal/vm/vm.go): one operand stack shared  *)
(* by all the activations of run, a chain of scopes, one instruction a step.  *)
(*                                                                            *)
(* The Go stack is a sequence of frames, one per activation of run: the main  *)
(* program, a CALL, the value of a TRY_LET, its catch or success branch, the  *)
(* body of a SPAWN_AGENT (which has a VM of its own, with its own operand     *)
(* stack).  A Go panic is the value of panic, and unwinds a frame a step.     *)
(* Everything outside the language (files, network, stores) is left out.      *)
(* The map ledger is the history of its dictionaries that a traced run gives  *)
(* as evidence (mapStateLedger).                                              *)
EXTENDS Data

CONSTANTS
  Programs,          \* records [source, deadline, adapter, params, code]
  MaxInstructions,   \* --max-instructions
  MaxMemory,         \* --max-memory-bytes, in list slots: a key of a dictionary takes two,
                     \* texts none
  MaxCallDepth,      \* --max-call-depth
  MaxMapEvents,      \* maxMapLedgerEvents
  MaxMapResources,   \* maxMapLedgerResources
  Cloned(_, _)       \* the values of a scope copied whole (cloneStoreValue), and the heap with them

(* Of an instruction, the bodies that follow it in its code c: where each      *)
(* starts, and where it ends.  The VM runs each as code of its own.           *)
Bodies(c, i) ==
  LET from == i + 1
      catch == from + c[i].len
      body == catch + c[i].catch
  IN CASE c[i].op = "TRY_LET" -> {<<from, catch>>, <<catch, body>>, <<body, body + c[i].body>>}
       [] c[i].op = "SPAWN_AGENT" -> {<<from, catch>>}
       [] OTHER -> {}
Lands(c, i, from, upto) ==
  c[i].op \in {"JUMP", "JUMP_IF_FALSE", "FOR_NEXT"} => i + c[i].len \in from..upto

(* validateInstructions, but for what the VM looks at again: no length is     *)
(* negative, and a jump lands in its code.  As the compiler writes them, one  *)
(* in the body of an instruction lands in that body, and a count is a number. *)
Counts == {"SPAWN_AGENT", "MAKE_LIST", "MAKE_DICT", "PRINT", "CALL"}
WellFormed(c) ==
  /\ Len(c) \in Nat /\ DOMAIN c = 1..Len(c)
  /\ \A i \in DOMAIN c :
       /\ c[i].op = "TRY_LET" => c[i].len \in Nat /\ c[i].catch \in Nat /\ c[i].body \in Nat
       /\ c[i].op \in Counts => c[i].len \in Nat
       /\ Lands(c, i, 1, Len(c) + 1)
       /\ \A b \in Bodies(c, i) : \A j \in b[1]..(b[2] - 1) : j \in DOMAIN c => Lands(c, j, b[1], b[2])

ASSUME ProgramsAreWellFormed ==
  \A p \in Programs :
    /\ MainName \in DOMAIN p.code /\ DOMAIN p.params \subseteq DOMAIN p.code
    /\ \A f \in DOMAIN p.params : DOMAIN p.params[f] = 1..Len(p.params[f])
    /\ \A f \in DOMAIN p.code : WellFormed(p.code[f])

(* The compiler loads scalars and texts as constants, and makes dictionaries  *)
(* and lists of values with instructions of their own.                        *)
IsConstant(v) ==
  /\ ~IsDict(v) /\ (IsList(v) => v[2] = <<>>)
  /\ IsText(v) => v[2] \in Seq(Seqs!Range(v[2]))
ASSUME ConstantsAreLiterals ==
  \A p \in Programs : \A f \in DOMAIN p.code : \A i \in DOMAIN p.code[f] :
    p.code[f][i].op = "LOAD_CONST" => IsConstant(p.code[f][i].val)
ASSUME LimitsAreNumbers == MaxInstructions \in Nat /\ MaxMemory \in Nat /\ MaxCallDepth \in Nat
ASSUME LedgerLimitsAreNumbers == MaxMapEvents \in Nat /\ MaxMapResources \in Nat

VARIABLES
  program,    \* the program that runs
  frames,     \* [kind, fn, ip, upto, bases, kept]: the code [fn][ip .. upto-1] still to run,
              \* the stack heights at the loops entered, and the stack at the frame's start
  stack,      \* operands
  envs,       \* scopes, innermost last; a cloned one hides those before it
  heap,       \* the dictionaries, in the order they were made
  ledger,     \* [complete, events, known, versions]: the places it knows are numbered in order
  panic,      \* what unwinds the frames, or None
  executed,   \* instructions executed
  memory,     \* slots charged
  callDepth,  \* BCVM.callDepth
  out,        \* the lines printed
  late,       \* the wall-clock deadline has passed
  refused     \* a limit or the deadline has stopped something

maps == <<heap, ledger>>
vars == <<program, frames, stack, envs, maps, panic, executed, memory, callDepth, out, late, refused>>

Frame(kind, fn, from, upto) ==
  [kind |-> kind, fn |-> fn, ip |-> from, upto |-> upto, bases |-> <<>>, kept |-> stack]

Init ==
  /\ program \in Programs
  /\ frames = <<[kind |-> "main", fn |-> MainName, ip |-> 1, upto |-> Len(program.code[MainName]) + 1,
                 bases |-> <<>>, kept |-> <<>>]>>
  /\ envs = <<[bound |-> [x \in {} |-> Nil], clone |-> TRUE]>>
  /\ heap = <<>> /\ ledger = [complete |-> TRUE, events |-> <<>>, known |-> <<>>, versions |-> <<>>]
  /\ stack = <<>> /\ panic = None /\ executed = 0 /\ memory = 0 /\ callDepth = 0
  /\ out = <<>> /\ late = FALSE /\ refused = FALSE

-----------------------------------------------------------------------------
Top == frames[Len(frames)]
Below == SubSeq(frames, 1, Len(frames) - 1)
Inst == program.code[Top.fn][Top.ip]

(* get and set: the innermost scope that has the name.                        *)
Visible == {i \in DOMAIN envs : \A j \in DOMAIN envs : j > i => ~envs[j].clone}
Holders(x) == {i \in Visible : x \in DOMAIN envs[i].bound}
Holder(x) == CHOOSE i \in Holders(x) : \A j \in Holders(x) : j <= i
Lookup(x) == envs[Holder(x)].bound[x]
Store(i, x, v) == envs' = [envs EXCEPT ![i].bound = With(@, x, v)]
OuterEnvs == SubSeq(envs, 1, Len(envs) - 1)

(* pop and truncateStack.                                                     *)
Operand(k) == stack[Len(stack) + 1 - k]
Popped(n) == SubSeq(stack, 1, Len(stack) - n)
Operands(n) == SubSeq(stack, Len(stack) - n + 1, Len(stack))
Cut(s, height) == IF Len(s) > height THEN SubSeq(s, 1, height) ELSE s

(* What an instruction needs on the stack when it pops: a CALL of a function  *)
(* that is missing or takes other arguments fails before, and so does a list  *)
(* the memory limit refuses.  FOR_NEXT drops what the body left first.        *)
Misses == Inst.name \notin DOMAIN program.params \/ Len(program.params[Inst.name]) # Inst.len
Affords(slots) == memory + slots <= MaxMemory
LoopStack == IF Top.bases = <<>> THEN stack ELSE Cut(stack, Top.bases[Len(Top.bases)] + 2)
Needs ==
  CASE Inst.op \in {"STORE_VAR", "SET_VAR", "JUMP_IF_FALSE", "FOR_INIT", "RETURN", "EXIT", "SPAWN_AGENT",
                 "APPEND", "MAP_DELETE", "LIST_GET", "LIST_LEN", "MAP_KEYS", "IS_NIL", "CONVERT"} -> 1
    [] Inst.op \in {"BINOP", "MAP_SET", "STR_SPLIT", "STR_JOIN"} -> 2
    [] Inst.op = "MAP_GET" -> IF Inst.name = Name("") THEN 2 ELSE 1
    [] Inst.op = "MAKE_DICT" -> 2 * Inst.len
    [] Inst.op = "PRINT" -> Inst.len
    [] Inst.op = "CALL" /\ ~Misses -> Inst.len
    [] Inst.op = "MAKE_LIST" /\ Affords(Inst.len) -> Inst.len
    [] OTHER -> 0
Short == Len(stack) < Needs \/ (Inst.op = "FOR_NEXT" /\ Len(LoopStack) < 2)

(* The checks before every instruction: the deadline, then the ceiling.       *)
AtInstruction == frames # <<>> /\ panic = None /\ Top.ip < Top.upto
Ceiling_OneMore == executed > MaxInstructions
Ceiling == executed >= MaxInstructions

Step(op) ==
  /\ AtInstruction /\ ~late /\ ~Ceiling
  /\ Inst.op = op /\ ~Short
  /\ executed' = executed + 1
  /\ UNCHANGED <<program, late>>

Goes(by) == frames' = [frames EXCEPT ![Len(frames)].ip = @ + by] /\ panic' = None
Raise(p) == panic' = p /\ UNCHANGED frames
Nothing == UNCHANGED <<envs, maps, memory, callDepth, out, refused>>
-----------------------------------------------------------------------------
LoadConst ==
  /\ Step("LOAD_CONST")
  /\ stack' = Append(stack, Inst.val)
  /\ Goes(1)
  /\ Nothing

LoadVar ==
  /\ Step("LOAD_VAR")
  /\ IF Holders(Inst.name) = {} THEN Raise(Error("UNDEFINED_VAR")) /\ UNCHANGED stack
     ELSE Goes(1) /\ stack' = Append(stack, Lookup(Inst.name))
  /\ Nothing

StoreVar ==
  /\ Step("STORE_VAR")
  /\ Store(Len(envs), Inst.name, Operand(1))
  /\ stack' = Popped(1)
  /\ Goes(1)
  /\ UNCHANGED <<maps, memory, callDepth, out, refused>>

SetVar ==
  /\ Step("SET_VAR")
  /\ stack' = Popped(1)
  /\ IF Holders(Inst.name) = {} THEN Raise(Error("UNDEFINED_VAR")) /\ UNCHANGED envs
     ELSE Goes(1) /\ Store(Holder(Inst.name), Inst.name, Operand(1))
  /\ UNCHANGED <<maps, memory, callDepth, out, refused>>

JumpIfFalse ==
  /\ Step("JUMP_IF_FALSE")
  /\ stack' = Popped(1)
  /\ IF ~IsBool(Operand(1)) THEN Raise(Error("TYPE_ERROR"))
     ELSE Goes(IF Operand(1) = Bool(FALSE) THEN Inst.len ELSE 1)
  /\ Nothing

Jump_Uncounted ==
  /\ AtInstruction /\ ~late /\ ~Ceiling /\ Inst.op = "JUMP"
  /\ Goes(Inst.len)
  /\ UNCHANGED <<program, stack, executed, late>> /\ Nothing

Jump ==
  /\ Step("JUMP")
  /\ Goes(Inst.len)
  /\ UNCHANGED stack /\ Nothing

ForInit_BaseAfterPush ==
  /\ Step("FOR_INIT")
  /\ IF ~IsList(Operand(1)) THEN Raise(Error("TYPE_ERROR")) /\ stack' = Popped(1)
     ELSE /\ stack' = Append(stack, Num(0))
          /\ frames' = [frames EXCEPT ![Len(frames)].ip = @ + 1,
                                      ![Len(frames)].bases = Append(@, Len(stack))]
          /\ panic' = None
  /\ Nothing

(* The list and the index of a loop stay on the stack while it runs.          *)
ForInit ==
  /\ Step("FOR_INIT")
  /\ IF ~IsList(Operand(1)) THEN Raise(Error("TYPE_ERROR")) /\ stack' = Popped(1)
     ELSE /\ stack' = Append(stack, Num(0))
          /\ frames' = [frames EXCEPT ![Len(frames)].ip = @ + 1,
                                      ![Len(frames)].bases = Append(@, Len(stack) - 1)]
          /\ panic' = None
  /\ Nothing

LoopFault(items, index) ==
  CASE ~IsList(items) \/ ~IsInt(index) -> Error("TYPE_ERROR")
    [] IsList(items) /\ IsInt(index) /\ ~(index[2] \in 0..Len(items[2])) -> Error("RUNTIME_ERROR")
    [] OTHER -> None

LoopEnds ==
  /\ stack' = Cut(LoopStack, Len(LoopStack) - 2)
  /\ frames' = [frames EXCEPT ![Len(frames)].ip = @ + Inst.len,
                              ![Len(frames)].bases = IF @ = <<>> THEN @ ELSE SubSeq(@, 1, Len(@) - 1)]
  /\ panic' = None
  /\ UNCHANGED envs

ForNext ==
  /\ Step("FOR_NEXT")
  /\ LET s == LoopStack
         items == s[Len(s) - 1]
         index == s[Len(s)]
         fault == LoopFault(items, index)
     IN CASE fault # None -> Raise(fault) /\ stack' = Cut(s, Len(s) - 2) /\ UNCHANGED envs
          [] fault = None /\ index[2] = Len(items[2]) -> LoopEnds
          [] OTHER -> /\ Store(Len(envs), Inst.name, items[2][index[2] + 1])
                      /\ stack' = [s EXCEPT ![Len(s)] = Num(index[2] + 1)]
                      /\ Goes(1)
  /\ UNCHANGED <<maps, memory, callDepth, out, refused>>

CallFault ==
  CASE Misses -> Error("RUNTIME_ERROR")
    [] ~Misses /\ callDepth >= MaxCallDepth -> Error("LIMIT_EXCEEDED")
    [] OTHER -> None

(* A callee's scope hangs under its caller's.                                 *)
CallOp ==
  /\ Step("CALL")
  /\ stack' = Popped(Needs)
  /\ IF CallFault # None
     THEN /\ Raise(CallFault)
          /\ refused' = (refused \/ ~Misses)
          /\ UNCHANGED <<envs, callDepth>>
     ELSE /\ frames' = Append(frames, [Frame("call", Inst.name, 1, Len(program.code[Inst.name]) + 1)
                                       EXCEPT !.kept = Popped(Inst.len)])
          /\ LET params == program.params[Inst.name]
                 args == Operands(Inst.len)
                 index(x) == CHOOSE i \in DOMAIN params : params[i] = x
             IN envs' = Append(envs, [bound |-> [x \in {params[i] : i \in DOMAIN params} |-> args[index(x)]],
                                      clone |-> FALSE])
          /\ callDepth' = callDepth + 1
          /\ UNCHANGED <<panic, refused>>
  /\ UNCHANGED <<maps, memory, out>>

ReturnOp ==
  /\ Step("RETURN")
  /\ stack' = Popped(1)
  /\ Raise(Return(Operand(1)))
  /\ Nothing

ExitOp ==
  /\ Step("EXIT")
  /\ stack' = Popped(1)
  /\ Raise(Exit(Operand(1)))
  /\ Nothing

PrintOp ==
  /\ Step("PRINT")
  /\ out' = Append(out, ShownAll(heap, Operands(Inst.len)))
  /\ stack' = Popped(Inst.len)
  /\ Goes(1)
  /\ UNCHANGED <<envs, maps, memory, callDepth, refused>>

(* The instructions that take n operands and give a value; and those that     *)
(* need memory for it.                                                        *)
Yields(n, answer) ==
  /\ stack' = IF answer.fault = None THEN Append(Popped(n), answer.val) ELSE Popped(n)
  /\ IF answer.fault = None THEN Goes(1) ELSE Raise(answer.fault)
  /\ UNCHANGED <<envs, memory, callDepth, out, refused>>

Charges(slots) == IF Affords(slots) THEN memory' = memory + slots /\ UNCHANGED refused
                  ELSE refused' = TRUE /\ UNCHANGED memory
Within(slots, answer) == IF Affords(slots) THEN answer ELSE Faulty("LIMIT_EXCEEDED")
Allocates(n, answer, slots) ==
  /\ LET given == Within(slots, answer) IN
     /\ stack' = IF given.fault = None THEN Append(Popped(n), given.val) ELSE Popped(n)
     /\ IF given.fault = None THEN Goes(1) ELSE Raise(given.fault)
  /\ Charges(slots)
  /\ UNCHANGED <<envs, callDepth, out>>

Entries(answer) == IF answer.fault = None THEN Len(answer.val[2]) ELSE 0

BinopOp ==
  /\ Step("BINOP")
  /\ Yields(2, Binop(Inst.name[1], Operand(2), Operand(1)))
  /\ UNCHANGED maps

ConvertOp ==
  /\ Step("CONVERT")
  /\ Yields(1, Converted(Inst.name[1], Operand(1)))
  /\ UNCHANGED maps

ListLen ==
  /\ Step("LIST_LEN")
  /\ Yields(1, Length(Operand(1)))
  /\ UNCHANGED maps

IsNil ==
  /\ Step("IS_NIL")
  /\ Yields(1, Fine(Bool(Operand(1) = Nil)))
  /\ UNCHANGED maps

MapKeys ==
  /\ Step("MAP_KEYS")
  /\ LET keys == IF IsDict(Operand(1)) THEN Fine(List(SortedKeys(heap[Operand(1)[2]]))) ELSE Faulty("TYPE_ERROR")
     IN Allocates(1, keys, Entries(keys))
  /\ UNCHANGED maps

StrSplit ==
  /\ Step("STR_SPLIT")
  /\ LET parts == IF IsText(Operand(1)) /\ IsText(Operand(2))
                  THEN Fine(List(Split(Operand(2)[2], Operand(1)[2]))) ELSE Faulty("TYPE_ERROR")
     IN Allocates(2, parts, Entries(parts))
  /\ UNCHANGED maps

StrJoin ==
  /\ Step("STR_JOIN")
  /\ LET texts(list) == [i \in DOMAIN list |-> TextOf(list[i])]
         whole == IF IsList(Operand(2)) /\ IsText(Operand(1))
                  THEN Fine(Text(Joined(texts(Operand(2)[2]), Operand(1)[2]))) ELSE Faulty("TYPE_ERROR")
     IN Yields(2, whole)
  /\ UNCHANGED maps

(* A list that memory refuses leaves its items where they are.                *)
MakeList ==
  /\ Step("MAKE_LIST")
  /\ Allocates(Needs, Fine(List(Operands(Inst.len))), Inst.len)
  /\ UNCHANGED maps
-----------------------------------------------------------------------------
(* The map ledger.  An agent's VM has none.                                   *)
Unrecorded == \E i \in DOMAIN frames : frames[i].kind = "agent"
Fingerprint(v) == IF IsList(v) \/ IsDict(v) THEN <<"none">> ELSE v

(* An event of the whole map names no key, and one of a key names it.         *)
Event(id, op, key, val, before, after, existed) ==
  [id |-> id, op |-> op, key |-> key, val |-> val, before |-> before, after |-> after, existed |-> existed]

(* resourceID, record: the number of a dictionary, and the ledger with the    *)
(* events added to it.                                                        *)
Known(l, place) == \E i \in DOMAIN l.known : l.known[i] = place
Number(l, place) == CHOOSE i \in DOMAIN l.known : l.known[i] = place
Registered(l, place) ==
  IF Known(l, place) THEN l
  ELSE IF Len(l.known) >= MaxMapResources THEN [l EXCEPT !.complete = FALSE]
  ELSE [l EXCEPT !.known = Append(@, place), !.versions = Append(@, 0)]

Recorded_KeepsRoom(l, events) ==
  IF Len(l.events) + Len(events) > MaxMapEvents THEN l ELSE [l EXCEPT !.events = @ \o events]
Recorded(l, events) ==
  IF Len(l.events) + Len(events) > MaxMapEvents THEN [l EXCEPT !.complete = FALSE, !.events = <<>>]
  ELSE [l EXCEPT !.events = @ \o events]

Noted(place, events(_, _)) ==
  LET l == Registered(ledger, place) IN
  ledger' = IF Unrecorded \/ ~ledger.complete THEN ledger
            ELSE IF ~l.complete THEN l
            ELSE Recorded(l, events(l, Number(l, place)))

InitEvents(l, id, keys) ==
  <<Event(id, "INIT", <<>>, <<"none">>, 0, 0, FALSE)>>
    \o [i \in DOMAIN keys |-> Event(id, "INIT", <<keys[i][2]>>, <<"none">>, 0, 0, FALSE)]

(* mutation: a change counts a version whether its event is kept or not.      *)
Mutated(place, op, key, v, existed) ==
  LET l == Registered(ledger, place)
      id == Number(l, place)
      counted == [l EXCEPT !.versions[id] = @ + 1]
  IN ledger' = IF Unrecorded \/ ~ledger.complete THEN ledger
               ELSE IF ~l.complete THEN l
               ELSE Recorded(counted, <<Event(id, op, <<key>>, v, l.versions[id], l.versions[id] + 1, existed)>>)

MakeDict ==
  /\ Step("MAKE_DICT")
  /\ LET dict == FromPairs(Operands(2 * Inst.len))
         place == Len(heap) + 1
         slots == 2 * Cardinality(DOMAIN dict)
         Began(l, id) == InitEvents(l, id, SortedKeys(dict))
     IN /\ Allocates(2 * Inst.len, Fine(Dict(place)), slots)
        /\ IF Affords(slots) THEN heap' = Append(heap, dict) /\ Noted(place, Began) ELSE UNCHANGED maps

(* The instructions on a variable that holds a list or a dictionary.          *)
VariableFault(holds) ==
  CASE Holders(Inst.name) = {} -> Error("UNDEFINED_VAR")
    [] Holders(Inst.name) # {} /\ ~holds -> Error("TYPE_ERROR")
    [] OTHER -> None
HoldsList == Holders(Inst.name) # {} /\ IsList(Lookup(Inst.name))
HoldsDict == Holders(Inst.name) # {} /\ IsDict(Lookup(Inst.name))

(* append makes a new list of what the variable held and the item.            *)
AppendOp ==
  /\ Step("APPEND")
  /\ stack' = Popped(1)
  /\ LET items == Lookup(Inst.name)[2]
         fault == VariableFault(HoldsList)
         slots == Len(items) + 1
     IN CASE fault # None -> Raise(fault) /\ UNCHANGED <<envs, memory, refused>>
          [] fault = None /\ ~Affords(slots) ->
               Raise(Error("LIMIT_EXCEEDED")) /\ refused' = TRUE /\ UNCHANGED <<envs, memory>>
          [] OTHER -> /\ Goes(1)
                      /\ memory' = memory + slots
                      /\ Store(Holder(Inst.name), Inst.name, List(Append(items, Operand(1))))
                      /\ UNCHANGED refused
  /\ UNCHANGED <<maps, callDepth, out>>

ListGetOp ==
  /\ Step("LIST_GET")
  /\ LET index == Sprint(Operand(1))
         fault == IF ~Parses(index) THEN Error("TYPE_ERROR") ELSE VariableFault(HoldsList)
     IN Yields(1, IF fault = None THEN Fine(Element(Lookup(Inst.name)[2], index)) ELSE [fault |-> fault, val |-> Nil])
  /\ UNCHANGED maps

(* The dictionary is changed where it is: every variable that has it sees it. *)
MapSetOp ==
  /\ Step("MAP_SET")
  /\ stack' = Popped(2)
  /\ LET place == Lookup(Inst.name)[2]
         key == Sprint(Operand(2))
         fault == VariableFault(HoldsDict)
         slots == IF key \in DOMAIN heap[place] THEN 0 ELSE 2
     IN CASE fault # None -> Raise(fault) /\ UNCHANGED <<maps, memory, refused>>
          [] fault = None /\ ~Affords(slots) ->
               Raise(Error("LIMIT_EXCEEDED")) /\ refused' = TRUE /\ UNCHANGED <<maps, memory>>
          [] OTHER -> /\ Goes(1)
                      /\ memory' = memory + slots
                      /\ heap' = [heap EXCEPT ![place] = With(@, key, Operand(1))]
                      /\ Mutated(place, "SET", key, Fingerprint(Operand(1)), FALSE)
                      /\ UNCHANGED refused
  /\ UNCHANGED <<envs, callDepth, out>>

MapDeleteOp ==
  /\ Step("MAP_DELETE")
  /\ stack' = Popped(1)
  /\ LET place == Lookup(Inst.name)[2]
         key == Sprint(Operand(1))
         fault == VariableFault(HoldsDict)
     IN IF fault # None THEN Raise(fault) /\ UNCHANGED maps
        ELSE /\ Goes(1)
             /\ heap' = [heap EXCEPT ![place] = Without(@, key)]
             /\ Mutated(place, "DELETE", key, Nil, key \in DOMAIN heap[place])
  /\ UNCHANGED <<envs, memory, callDepth, out, refused>>

(* A named operand reads that variable; an empty one takes the dictionary     *)
(* from the stack.                                                            *)
MapGetOp ==
  /\ Step("MAP_GET")
  /\ LET named == Inst.name # Name("")
         dict == IF named THEN Lookup(Inst.name) ELSE Operand(2)
         key == Sprint(Operand(1))
         fault == IF named THEN VariableFault(HoldsDict) ELSE IF IsDict(Operand(2)) THEN None ELSE Error("TYPE_ERROR")
         val == IF fault = None THEN Held(heap[dict[2]], Operand(1)) ELSE Nil
         Read(l, id) == <<Event(id, "GET", <<key>>, Fingerprint(val), l.versions[id], l.versions[id],
                                key \in DOMAIN heap[dict[2]])>>
     IN /\ Yields(Needs, [fault |-> fault, val |-> val])
        /\ IF fault = None THEN Noted(dict[2], Read) ELSE UNCHANGED ledger
        /\ UNCHANGED heap
-----------------------------------------------------------------------------
(* TRY_LET runs the instructions of its value in an activation of their own;  *)
(* the frame that executes it stays at it until a branch is done.             *)
Fits(n) == n <= Top.upto - Top.ip - 1

TryLet ==
  /\ Step("TRY_LET")
  /\ IF Fits(Inst.len + Inst.catch + Inst.body)
     THEN frames' = Append(frames, Frame("value", Top.fn, Top.ip + 1, Top.ip + 1 + Inst.len)) /\ UNCHANGED panic
     ELSE Raise(Error("RUNTIME_ERROR"))
  /\ UNCHANGED stack /\ Nothing

(* SPAWN_AGENT: the body runs on a copy of every visible variable.            *)
SpawnDepth == Cardinality({i \in DOMAIN frames : frames[i].kind = "agent"})
Seen == [x \in UNION {DOMAIN envs[i].bound : i \in Visible} |-> Lookup(x)]
Snapshot_Shared == [heap |-> heap, bound |-> Seen]
Snapshot == Cloned(heap, Seen)

AgentFault ==
  CASE ~IsText(Operand(1)) -> Error("TYPE_ERROR")
    [] IsText(Operand(1)) /\ SpawnDepth >= MaxCallDepth -> Error("LIMIT_EXCEEDED")
    [] IsText(Operand(1)) /\ SpawnDepth < MaxCallDepth /\ ~Fits(Inst.len) -> Error("RUNTIME_ERROR")
    [] OTHER -> None

SpawnAgent ==
  /\ Step("SPAWN_AGENT")
  /\ CASE AgentFault # None ->
            /\ Raise(AgentFault)
            /\ stack' = Popped(1)
            /\ refused' = (refused \/ AgentFault = Error("LIMIT_EXCEEDED"))
            /\ UNCHANGED <<envs, heap>>
       [] AgentFault = None /\ Inst.len = 0 ->
            Goes(1) /\ stack' = Popped(1) /\ UNCHANGED <<envs, heap, refused>>
       [] OTHER ->
            /\ frames' = Append(frames, [Frame("agent", Top.fn, Top.ip + 1, Top.ip + 1 + Inst.len)
                                         EXCEPT !.kept = Popped(1)])
            /\ stack' = <<>>
            /\ envs' = Append(envs, [bound |-> Snapshot.bound, clone |-> TRUE])
            /\ heap' = Snapshot.heap
            /\ UNCHANGED <<panic, refused>>
  /\ UNCHANGED <<ledger, memory, callDepth, out>>

(* An operand that is not there.  A list has been charged for before its      *)
(* items are popped.                                                          *)
Underflow ==
  /\ AtInstruction /\ ~late /\ ~Ceiling /\ Short
  /\ executed' = executed + 1
  /\ memory' = IF Inst.op = "MAKE_LIST" THEN memory + Inst.len ELSE memory
  /\ stack' = <<>>
  /\ Raise(Error("STACK_UNDERFLOW"))
  /\ UNCHANGED <<program, envs, maps, callDepth, out, late, refused>>

(* checkDeadline and the instruction limit.                                   *)
DeadlineCode == IF program.adapter THEN "HFIR_DEADLINE_EXCEEDED" ELSE "LIMIT_EXCEEDED"

Refuse ==
  /\ AtInstruction /\ (late \/ Ceiling)
  /\ Raise(Error(IF late THEN DeadlineCode ELSE "LIMIT_EXCEEDED"))
  /\ refused' = TRUE
  /\ UNCHANGED <<program, stack, envs, maps, executed, memory, callDepth, out, late>>

Expire ==
  /\ frames # <<>> /\ program.deadline /\ ~late
  /\ late' = TRUE
  /\ UNCHANGED <<program, frames, stack, envs, maps, panic, executed, memory, callDepth, out, refused>>
-----------------------------------------------------------------------------
(* The end of an activation of run: its instructions are done, or a panic     *)
(* goes through it.                                                           *)
Done(kind) == frames # <<>> /\ panic = None /\ Top.ip >= Top.upto /\ Top.kind = kind
Fails(kind) == frames # <<>> /\ panic # None /\ Top.kind = kind
Caller == program.code[Below[Len(Below)].fn][Below[Len(Below)].ip]
Resumes(by) == frames' = [Below EXCEPT ![Len(Below)].ip = @ + by] /\ panic' = None
Restored == Cut(stack, Len(Top.kept))
Same == UNCHANGED <<program, maps, executed, memory, out, late, refused>>

MainEnds ==
  /\ Done("main") \/ Fails("main")
  /\ frames' = <<>>
  /\ UNCHANGED <<stack, envs, panic, callDepth>> /\ Same

Returns(v) ==
  /\ stack' = Append(Restored, v)
  /\ Resumes(1)

CallEnds_NoDefer ==
  /\ \/ Done("call") /\ Returns(Nil)
     \/ Fails("call") /\ panic.kind = "return" /\ Returns(panic.val)
     \/ Fails("call") /\ panic.kind # "return" /\ frames' = Below /\ UNCHANGED <<stack, panic>>
  /\ callDepth' = IF panic.kind = "error" THEN callDepth ELSE callDepth - 1
  /\ envs' = OuterEnvs
  /\ Same

CallEnds ==
  /\ \/ Done("call") /\ Returns(Nil)
     \/ Fails("call") /\ panic.kind = "return" /\ Returns(panic.val)
     \/ Fails("call") /\ panic.kind # "return" /\ frames' = Below /\ UNCHANGED <<stack, panic>>
  /\ callDepth' = callDepth - 1
  /\ envs' = OuterEnvs
  /\ Same

(* The value of a TRY_LET: bound, or its error is, and the branch follows in  *)
(* the same scope.  A return, an exit and an adapter's deadline go through.   *)
Branch(s, from, n) ==
  frames' = Append(Below, [Frame("branch", Top.fn, from, from + n) EXCEPT !.kept = s])

ValueEnds ==
  /\ Done("value")
  /\ IF stack = <<>>
     THEN frames' = Below /\ panic' = Error("STACK_UNDERFLOW") /\ UNCHANGED <<stack, envs>>
     ELSE /\ Store(Len(envs), Caller.name, Operand(1))
          /\ stack' = Cut(Popped(1), Len(Top.kept))
          /\ Branch(stack', Below[Len(Below)].ip + 1 + Caller.len + Caller.catch, Caller.body)
          /\ UNCHANGED panic
  /\ UNCHANGED callDepth /\ Same

Catchable == panic.kind = "error" /\ panic.val # Text("HFIR_DEADLINE_EXCEEDED")

ValueFails ==
  /\ Fails("value")
  /\ IF Catchable
     THEN /\ Store(Len(envs), Caller.err, panic.val)
          /\ stack' = Restored
          /\ Branch(stack', Below[Len(Below)].ip + 1 + Caller.len, Caller.catch)
          /\ panic' = None
     ELSE frames' = Below /\ UNCHANGED <<stack, envs, panic>>
  /\ UNCHANGED callDepth /\ Same

BranchEnds ==
  /\ \/ Done("branch") /\ Resumes(1 + Caller.len + Caller.catch + Caller.body)
     \/ Fails("branch") /\ frames' = Below /\ UNCHANGED panic
  /\ UNCHANGED <<stack, envs, callDepth>> /\ Same

(* An agent that fails does not stop the program that spawned it, unless a    *)
(* limit stopped the agent.                                                   *)
AgentEnds ==
  /\ \/ Done("agent") /\ Resumes(1 + Caller.len)
     \/ Fails("agent") /\ panic # Error("LIMIT_EXCEEDED") /\ Resumes(1 + Caller.len)
     \/ Fails("agent") /\ panic = Error("LIMIT_EXCEEDED") /\ frames' = Below /\ UNCHANGED panic
  /\ stack' = Top.kept
  /\ envs' = OuterEnvs
  /\ UNCHANGED callDepth /\ Same

Run ==
  \/ LoadConst \/ LoadVar \/ StoreVar \/ SetVar \/ JumpIfFalse \/ Jump \/ ForInit \/ ForNext
  \/ CallOp \/ ReturnOp \/ ExitOp \/ PrintOp \/ BinopOp \/ ConvertOp
  \/ ListLen \/ IsNil \/ StrSplit \/ StrJoin \/ MakeList \/ MakeDict \/ AppendOp \/ ListGetOp
  \/ MapKeys \/ MapSetOp \/ MapDeleteOp \/ MapGetOp \/ TryLet \/ SpawnAgent
  \/ Underflow \/ Refuse
  \/ MainEnds \/ CallEnds \/ ValueEnds \/ ValueFails \/ BranchEnds \/ AgentEnds

Next == Run \/ Expire

Spec == Init /\ [][Next]_vars

(* One goroutine runs the program.                                            *)
FairSpec == Spec /\ WF_vars(Run)
-----------------------------------------------------------------------------
(* Every activation runs code that exists, and stays in the code it was given *)
(* to run: a function, or a body of the instruction that waits for it         *)
(* (ValidateProgram: "cannot violate VM invariants (e.g., out-of-bounds       *)
(* jumps ...)").                                                              *)
InItsCode(i) ==
  LET f == frames[i]
      below == frames[i - 1]
  IN IF f.kind \in {"main", "call"} THEN f.ip \in 1..f.upto
     ELSE /\ f.fn = below.fn
          /\ \E b \in Bodies(program.code[f.fn], below.ip) : f.upto = b[2] /\ f.ip \in b[1]..b[2]

FramesInCode ==
  \A i \in DOMAIN frames :
    /\ frames[i].kind \in {"main", "call", "value", "branch", "agent"}
    /\ frames[i].kind = "main" <=> i = 1
    /\ frames[i].fn \in DOMAIN program.code
    /\ frames[i].upto \in 1..(Len(program.code[frames[i].fn]) + 1)
    /\ InItsCode(i)

(* Nothing goes over a limit (VMLimits).                                      *)
LimitsHold == executed \in 0..MaxInstructions /\ memory <= MaxMemory /\ callDepth \in 0..MaxCallDepth

TypeOK ==
  /\ FramesInCode
  /\ LimitsHold /\ memory \in Nat
  /\ panic.kind \in {"none", "error", "return", "exit"}
  /\ late \in BOOLEAN /\ refused \in BOOLEAN

(* The call depth the limit is compared with is the number of calls the       *)
(* program is in, however the earlier ones ended.                             *)
DepthIsCalls ==
  callDepth = Cardinality({i \in DOMAIN frames : frames[i].kind = "call"}) /\ callDepth <= MaxCallDepth

(* What the evidence of a run says of its dictionaries is what happened: each *)
(* holds the keys, and the values, that the last change of them in a complete *)
(* ledger left, and each read found what the last change before it left       *)
(* (mapStateLedger; internal/hfir/localization.go reasons from it).           *)
Changes(events, id, key, n) ==
  {j \in 1..n : events[j].id = id /\ events[j].key = <<key>> /\ events[j].op # "GET"}
LastOf(js) == CHOOSE j \in js : \A i \in js : i <= j
Says(events, id, key, n) ==
  LET js == Changes(events, id, key, n) IN
  IF js = {} \/ events[LastOf(js)].op = "DELETE" THEN [there |-> FALSE, val |-> <<"none">>]
  ELSE [there |-> TRUE, val |-> events[LastOf(js)].val]
Tells(said, there, v) == said.there = there /\ (there => said.val \in {<<"none">>, Fingerprint(v)})
KeysOf(id) == {e.key[1] : e \in {ledger.events[j] : j \in {i \in DOMAIN ledger.events :
                                   ledger.events[i].id = id /\ ledger.events[i].key # <<>>}}}

LedgerTellsTheMaps ==
  ledger.complete =>
    /\ \A id \in DOMAIN ledger.known :
         LET dict == heap[ledger.known[id]] IN
         \A key \in KeysOf(id) \cup DOMAIN dict :
           Tells(Says(ledger.events, id, key, Len(ledger.events)),
                 key \in DOMAIN dict, IF key \in DOMAIN dict THEN dict[key] ELSE Nil)
    /\ \A j \in DOMAIN ledger.events :
         LET e == ledger.events[j] IN
         e.op \in {"GET", "DELETE"} => Says(ledger.events, e.id, e.key[1], j - 1).there = e.existed
=============================================================================
