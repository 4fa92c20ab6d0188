---------------------------- MODULE HfirLowering ----------------------------
(* From an HFIR graph to a bytecode program (internal/hfir/bytecode.go,       *)
(* adapter_limits.go), reusing the fragments of nodes a previous round left   *)
(* in a cache, and the validation of a program (internal/bytecode/artifact.go,*)
(* ValidateProgram).                                                          *)
EXTENDS HfirGraph, Emission

(* The nodes whose code a node is made of, in the order they are compiled; a  *)
(* dictionary's entries and a catch are taken apart in place, and the content *)
(* of parse_json is the variable its operand names.                           *)
Parts(g, n) ==
  CASE n.kind \in {"const", "symbol", "time_now", "parse_json", "type_hint", "type_hints", "type_param"} -> <<>>
    [] n.kind = "dict" -> FlattenSeq([i \in DOMAIN n.inputs |-> Inputs(g.nodes[n.inputs[i].id])])
    [] n.kind = "try" -> <<n.inputs[1].id, n.inputs[2].id>> \o Inputs(g.nodes[n.inputs[3].id])
    [] n.kind = "defun" -> Inputs([n EXCEPT !.inputs = SelectSeq(@, LAMBDA e : e.role = "body")])
    [] OTHER -> Inputs(n)

(* A node the lowerer takes: its children are there, and its kind, roles,     *)
(* value and control successors are those of an executable form.              *)
NeedsName == {"symbol", "let", "set", "for", "try", "catch", "binary", "map_delete", "list_get", "append", "map_set",
              "defun", "call"}
HasItsName(g, n) ==
  CASE n.kind \in NeedsName -> n.value # NoName
    [] n.kind = "map_get" -> Len(n.inputs) = 2 \/ n.value # NoName
    [] n.kind = "parse_json" ->
         LET content == g.nodes[n.inputs[1].id] IN
         content.kind = "symbol" /\ content.value # NoName /\ content.value = n.value
    [] OTHER -> TRUE
(* The control successors are the children, in their order.                   *)
SuccessorsFit(n) == n.kind \in {"if", "for", "while"} => n.ctrl = Inputs(n)
Lowerable(g, id) ==
  LET n == g.nodes[id] IN
  /\ ToSet(Inputs(n)) \subseteq Ids(g)
  /\ \/ n.kind \in {"type_hint", "type_hints", "type_param"}
     \/ /\ WellShaped(n) /\ n.kind \notin {"param", "catch", "dict_entry"}
        /\ HasItsName(g, n)
     \/ n.kind = "defun" /\ n.value # NoName /\ ToSet(Roles(n)) \subseteq {"param", "body"}
  /\ SuccessorsFit(n)
  /\ n.kind = "const" => n.value # NoName
  /\ n.kind = "dict" => \A e \in ToSet(n.inputs) :
       LET entry == g.nodes[e.id] IN
       entry.kind = "dict_entry" /\ WellShaped(entry) /\ ToSet(Inputs(entry)) \subseteq Ids(g)
  /\ n.kind = "try" =>
       LET catch == g.nodes[n.inputs[3].id] IN
       catch.kind = "catch" /\ catch.value # NoName /\ WellShaped(catch) /\ ToSet(Inputs(catch)) \subseteq Ids(g)
  /\ n.kind = "defun" => \A e \in ToSet(n.inputs) :
       e.role = "param" => g.nodes[e.id].kind = "param" /\ g.nodes[e.id].value # NoName

(* The nodes the lowerer comes to: from the entry, and no further than a      *)
(* fragment it reuses.  A defun registers a function, which no fragment       *)
(* records, so its own fragment is never used.  Whether the walk fails: a     *)
(* node it cannot lower, or one that depends on itself.                       *)
Reuses(g, cache, id) == id \in DOMAIN cache /\ cache[id] # <<>> /\ g.nodes[id].kind # "defun"
Below(g, cache, id) ==
  IF Reuses(g, cache, id) \/ ~Lowerable(g, id) THEN {} ELSE ToSet(Parts(g, g.nodes[id]))
Visited(g, cache, ids) ==
  LET closure[sofar \in SUBSET Ids(g)] ==
        LET more == sofar \cup UNION {Below(g, cache, id) : id \in sofar}
        IN IF more = sofar THEN sofar ELSE closure[more]
  IN closure[ids]
Lowered(g, cache) == {id \in Visited(g, cache, {g.entry}) : ~Reuses(g, cache, id)}
Lowers(g, cache) ==
  /\ g.entry \in Ids(g)
  /\ \A id \in Lowered(g, cache) : Lowerable(g, id) /\ id \notin Visited(g, cache, Below(g, cache, id))

(* The opcode of a kind that evaluates its children and then takes them.      *)
Opcode(n) ==
  CASE n.kind = "let" -> "STORE_VAR"
    [] n.kind = "set" -> "SET_VAR"
    [] n.kind = "binary" -> "BINOP"
    [] n.kind = "list" -> "MAKE_LIST"
    [] n.kind = "dict" -> "MAKE_DICT"
    [] n.kind = "print" -> "PRINT"
    [] n.kind = "stderr" -> "STDERR"
    [] n.kind = "exit" -> "EXIT"
    [] n.kind = "convert" -> IF n.value = Name("encode_json") THEN "ENCODE_JSON" ELSE "CONVERT"
    [] n.kind = "list_len" -> "LIST_LEN"
    [] n.kind = "map_keys" -> "MAP_KEYS"
    [] n.kind = "env" -> "ENV"
    [] n.kind = "read_file" -> "READ_FILE"
    [] n.kind = "write_file" -> "WRITE_FILE"
    [] n.kind = "mkdir" -> "MKDIR"
    [] n.kind = "exec" -> "EXEC"
    [] n.kind = "fetch" -> "FETCH"
    [] n.kind = "parse_json" -> "PARSE_JSON"
    [] n.kind = "is_nil" -> "IS_NIL"
    [] n.kind = "html_escape" -> "HTML_ESCAPE"
    [] n.kind = "attr_escape" -> "ATTR_ESCAPE"
    [] n.kind = "regex_match" -> "REGEX_MATCH"
    [] n.kind = "time_now" -> "TIME_NOW"
    [] n.kind = "sleep" -> "SLEEP"
    [] n.kind = "cli_args" -> IF n.inputs = <<>> THEN "CLI_ARGS" ELSE "CLI_ARGS_GET"
    [] n.kind = "req_query" -> "HTTP_REQ_QUERY"
    [] n.kind = "req_header" -> "HTTP_REQ_HEADER"
    [] n.kind = "req_path" -> "HTTP_REQ_PATH"
    [] n.kind = "str_split" -> "STR_SPLIT"
    [] n.kind = "str_join" -> "STR_JOIN"
    [] n.kind = "map_get" -> "MAP_GET"
    [] n.kind = "list_get" -> "LIST_GET"
    [] n.kind = "map_delete" -> "MAP_DELETE"
    [] n.kind = "append" -> "APPEND"
    [] n.kind = "map_set" -> "MAP_SET"
    [] n.kind = "call" -> "CALL"
    [] n.kind = "return" -> "RETURN"
Arguments(n) ==
  CASE n.kind \in {"list", "dict", "print", "call"} -> Len(n.inputs)
    [] n.kind = "exec" -> Len(n.inputs) - 1
    [] OTHER -> 0
(* The opcodes that carry the value of their node.                            *)
CarriesName(n) ==
  \/ n.kind \in {"let", "set", "binary", "stderr", "exit", "convert", "list_len", "map_keys", "env", "parse_json",
                 "list_get", "map_delete", "append", "map_set", "call"}
  \/ n.kind = "map_get" /\ Len(n.inputs) = 1
Operation(n) ==
  [Instruction(Opcode(n)) EXCEPT !.len = Arguments(n), !.name = IF CarriesName(n) THEN n.value ELSE NoName]

(* The code of a node from that of its parts; its own instructions, the ones  *)
(* that have no origin yet, get its id.                                       *)
Assemble(g, n, parts) ==
  CASE n.kind = "const" -> <<Constant(n.value)>>
    [] n.kind = "symbol" -> <<Named("LOAD_VAR", n.value)>>
    [] n.kind \in {"program", "sequence"} -> FlattenSeq(parts)
    [] n.kind \in {"defun", "type_hint", "type_hints", "type_param"} -> <<>>
    [] n.kind = "let" -> parts[1] \o <<Operation(n)>> \o parts[2]
    [] n.kind = "if" -> IF Len(parts) = 2 THEN EmitWhen(parts[1], parts[2]) ELSE EmitIf(parts[1], parts[2], parts[3])
    [] n.kind = "while" -> EmitWhile(parts[1], parts[2])
    [] n.kind = "for" -> EmitFor(n.value, parts[1], parts[2])
    [] n.kind = "try" -> EmitTry(n.value, g.nodes[n.inputs[3].id].value, parts[1], parts[3], parts[2])
    [] n.kind = "binary" /\ n.value \in {Name("and"), Name("or")} -> ShortCircuit(n.value[1], parts[1], parts[2])
    [] n.kind = "fetch" /\ Len(parts) = 3 -> parts[1] \o parts[2] \o FetchWithBody(parts[3])
    [] n.kind = "return" /\ parts = <<>> -> <<Constant(Nil), Operation(n)>>
    [] OTHER -> FlattenSeq(parts) \o <<Operation(n)>>
Stamped(code, id) == [i \in DOMAIN code |-> IF code[i].origin = 0 THEN [code[i] EXCEPT !.origin = id] ELSE code[i]]

(* Expressions without variables that several nodes use are compiled once, as *)
(* functions, for a model's candidate (adapterSharedPure): shared is their    *)
(* ids, and a use of one is a call.                                           *)
SharedName(id) == <<"__hfir_shared", id>>
CallShared(id) == [Named("CALL", SharedName(id)) EXCEPT !.origin = id]

(* What the lowerer leaves: the program (main and functions), and the         *)
(* fragments of the nodes it lowered, which the next round may reuse.         *)
LoweringOf(g, cache, shared, visited) ==
  LET own == {id \in visited : ~Reuses(g, cache, id)}
      body[id \in visited] ==
        IF Reuses(g, cache, id) THEN cache[id]
        ELSE LET n == g.nodes[id]
                 ids == Parts(g, n)
                 part(i) == IF i \in shared THEN <<CallShared(i)>> ELSE body[i]
             IN Stamped(Assemble(g, n, [i \in DOMAIN ids |-> part(ids[i])]), id)
      defuns == {id \in own : g.nodes[id].kind = "defun"}
      code(id) == FlattenSeq([i \in DOMAIN Parts(g, g.nodes[id]) |-> body[Parts(g, g.nodes[id])[i]]])
      named(f) == CHOOSE id \in defuns : g.nodes[id].value = f
      outlined == {SharedName(id) : id \in shared \cap own}
      params(id) == LET ps == SelectSeq(g.nodes[id].inputs, LAMBDA e : e.role = "param")
                    IN [i \in DOMAIN ps |-> g.nodes[ps[i].id].value]
  IN [main |-> body[g.entry],
      functions |->
        [f \in {g.nodes[id].value : id \in defuns} |-> [params |-> params(named(f)), code |-> code(named(f))]]
          @@ [f \in outlined |-> [params |-> <<>>, code |-> body[f[2]] \o <<Instruction("RETURN")>>]],
      fragments |-> [id \in own |-> body[id]]]
Lowering(g, cache, shared) == LoweringOf(g, cache, shared, Visited(g, cache, {g.entry}))

(* ValidateProgram: every jump lands in its code or at its end, the segments  *)
(* of a try fit, and every function called is there.                          *)
Jumps == {"JUMP", "JUMP_IF_FALSE", "FOR_NEXT"}
ValidCode(code, functions) ==
  \A i \in DOMAIN code :
    LET inst == code[i]
        remaining == Len(code) - i
    IN /\ inst.op \in Jumps => inst.len \in -(i - 1)..(Len(code) - (i - 1))
       /\ inst.op \in {"SPAWN_AGENT", "SPAWN", "HTTP_ROUTE"} => inst.len \in 0..remaining
       /\ inst.op = "TRY_LET" => inst.len + inst.catch + inst.body <= remaining
       /\ inst.op = "CALL" => inst.name \in DOMAIN functions
ValidProgram(p) ==
  ValidCode(p.main, p.functions) /\ \A f \in DOMAIN p.functions : ValidCode(p.functions[f].code, p.functions)
=============================================================================
