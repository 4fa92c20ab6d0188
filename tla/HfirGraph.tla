----------------------------- MODULE HfirGraph -----------------------------
(* HFIR graphs (internal/hfir/graph.go, dependency.go, verifier.go).  A graph *)
(* is [entry, nodes], nodes a function from node ids, numbers from 1, to      *)
(* nodes.  A node is [kind, value, inputs, ctrl, effects, mod]: its value is  *)
(* a name, or the value of a const; inputs are edges [role, id]; ctrl lists   *)
(* the control successors; effects the capabilities inferred for it.  The     *)
(* graph's version, the provenance and the types of nodes are left out.       *)
EXTENDS Terms, FiniteSets, SequencesExt

NoName == Name("")
Node(kind, value, inputs) ==
  [kind |-> kind, value |-> value, inputs |-> inputs, effects |-> {}, mod |-> "main",
   ctrl |-> IF kind \in {"if", "for", "while"} THEN [i \in DOMAIN inputs |-> inputs[i].id] ELSE <<>>]
Edge(role, id) == [role |-> role, id |-> id]

Ids(g) == DOMAIN g.nodes
Roles(n) == [i \in DOMAIN n.inputs |-> n.inputs[i].role]
Inputs(n) == [i \in DOMAIN n.inputs |-> n.inputs[i].id]
RoleCount(n, role) == Cardinality({i \in DOMAIN n.inputs : n.inputs[i].role = role})

(* The edges each kind takes, in order: the fixed ones, then at most one of   *)
(* opt, or any number of the roles of many, kept in their order.  The role of *)
(* sleep's edge has no name in a graph and is duration in a transport.        *)
Shape(fixed, opt, many) == [fixed |-> fixed, opt |-> opt, many |-> many]
Shapes(kind) ==
  CASE kind \in {"program", "sequence"} -> {Shape(<<>>, {}, <<"body">>)}
    [] kind \in {"const", "symbol", "time_now", "param"} -> {Shape(<<>>, {}, <<>>)}
    [] kind \in {"set", "stderr", "exit", "convert", "list_len", "env", "map_keys", "is_nil", "html_escape",
                 "attr_escape"} -> {Shape(<<"value">>, {}, <<>>)}
    [] kind = "let" -> {Shape(<<"value", "body">>, {}, <<>>)}
    [] kind = "if" -> {Shape(<<"condition", "then">>, {"else"}, <<>>)}
    [] kind = "binary" -> {Shape(<<"left", "right">>, {}, <<>>)}
    [] kind = "list" -> {Shape(<<>>, {}, <<"item">>)}
    [] kind = "dict" -> {Shape(<<>>, {}, <<"entry">>)}
    [] kind \in {"dict_entry", "map_set"} -> {Shape(<<"key", "value">>, {}, <<>>)}
    [] kind = "print" -> {Shape(<<>>, {}, <<"value">>)}
    [] kind \in {"str_split", "str_join"} -> {Shape(<<"value", "separator">>, {}, <<>>)}
    [] kind = "map_get" -> {Shape(<<"key">>, {}, <<>>), Shape(<<"target", "key">>, {}, <<>>)}
    [] kind = "map_delete" -> {Shape(<<"key">>, {}, <<>>)}
    [] kind = "list_get" -> {Shape(<<"index">>, {}, <<>>)}
    [] kind = "append" -> {Shape(<<"item">>, {}, <<>>)}
    [] kind \in {"read_file", "mkdir"} -> {Shape(<<"path">>, {}, <<>>)}
    [] kind = "write_file" -> {Shape(<<"path", "data">>, {}, <<>>)}
    [] kind = "exec" -> {Shape(<<"cmd">>, {}, <<"arg">>)}
    [] kind = "fetch" -> {Shape(<<"url", "method">>, {"body"}, <<>>)}
    [] kind = "parse_json" -> {Shape(<<"content">>, {}, <<>>)}
    [] kind = "regex_match" -> {Shape(<<"pattern", "string">>, {}, <<>>)}
    [] kind = "sleep" -> {Shape(<<"duration">>, {}, <<>>)}
    [] kind = "cli_args" -> {Shape(<<>>, {"index"}, <<>>)}
    [] kind \in {"req_query", "req_header", "req_path"} -> {Shape(<<"request", "name">>, {}, <<>>)}
    [] kind = "try" -> {Shape(<<"expression", "success_body", "catch">>, {}, <<>>)}
    [] kind = "catch" -> {Shape(<<"body">>, {}, <<>>)}
    [] kind = "for" -> {Shape(<<"iterable", "body">>, {}, <<>>)}
    [] kind = "while" -> {Shape(<<"condition", "body">>, {}, <<>>)}
    [] kind = "defun" -> {Shape(<<>>, {}, <<"param", "body">>)}
    [] kind = "call" -> {Shape(<<>>, {}, <<"arg">>)}
    [] kind = "return" -> {Shape(<<>>, {"value"}, <<>>)}
    [] OTHER -> {}

Fits(roles, shape) ==
  LET k == Len(shape.fixed)
      rest == SubSeq(roles, k + 1, Len(roles))
      place(role) == CHOOSE i \in DOMAIN shape.many : shape.many[i] = role
  IN /\ Len(roles) >= k /\ SubSeq(roles, 1, k) = shape.fixed
     /\ \/ rest = <<>>
        \/ \E role \in shape.opt : rest = <<role>>
        \/ /\ \A i \in DOMAIN rest : \E j \in DOMAIN shape.many : shape.many[j] = rest[i]
           /\ \A i, j \in DOMAIN rest : i < j => place(rest[i]) <= place(rest[j])
WellShaped(n) == \E shape \in Shapes(n.kind) : Fits(Roles(n), shape)

(* Dependencies: a node depends on its inputs and its control successors,     *)
(* present or not.  The closure is what the roots reach, against the          *)
(* dependencies, in as many steps as there are nodes.                         *)
Sources(n) == ToSet(Inputs(n)) \cup ToSet(n.ctrl)
Consumers(g, ids) == {p \in Ids(g) : Sources(g.nodes[p]) \cap ids # {}}
ReverseClosure_OneStep(g, roots) == roots \cup Consumers(g, roots)
ReverseClosure(g, roots) ==
  LET reach[k \in 0..Cardinality(Ids(g))] ==
        IF k = 0 THEN roots ELSE LET sofar == reach[k - 1] IN sofar \cup Consumers(g, sofar)
  IN reach[Cardinality(Ids(g))]
ForwardClosure(g, roots) ==
  LET reach[k \in 0..Cardinality(Ids(g))] ==
        IF k = 0 THEN roots
        ELSE LET sofar == reach[k - 1] IN sofar \cup UNION {Sources(g.nodes[id]) : id \in sofar \cap Ids(g)}
  IN reach[Cardinality(Ids(g))]

(* The verifier: it adds to each node the capability its kind needs, and      *)
(* reports missing and repeated roles, bindings without a name, edges to      *)
(* nodes that are not there, and kinds the target cannot run.                 *)
ForConstruct(kind) ==
  CASE kind \in {"db_connect", "sql_query", "store_open", "store_put", "store_get", "store_delete", "store_keys"} ->
         {"database"}
    [] kind \in {"fetch", "http_request", "http_server_start", "http_route", "http_server_serve", "port_available",
                 "llm_generate", "achieve", "confidence", "neural_circuit", "ephemeral_circuit"} -> {"network"}
    [] kind \in {"read_file", "write_file", "mkdir"} -> {"filesystem"}
    [] kind \in {"exec", "spawn", "spawn_agent"} -> {"process"}
    [] kind = "env" -> {"environment"}
    [] OTHER -> {}
WithEffects(g) == [g EXCEPT !.nodes = [id \in Ids(g) |->
  [g.nodes[id] EXCEPT !.effects = @ \cup ForConstruct(g.nodes[id].kind)]]]

Required(kind) ==
  CASE kind = "try" -> {"expression", "success_body", "catch"}
    [] kind = "catch" -> {"body"}
    [] kind = "for" -> {"iterable", "body"}
    [] kind = "while" -> {"condition", "body"}
    [] kind \in {"read_file", "mkdir"} -> {"path"}
    [] kind = "write_file" -> {"path", "data"}
    [] kind = "exec" -> {"cmd"}
    [] kind = "fetch" -> {"url", "method"}
    [] kind = "parse_json" -> {"content"}
    [] kind \in {"is_nil", "html_escape", "attr_escape"} -> {"value"}
    [] kind = "regex_match" -> {"pattern", "string"}
    [] OTHER -> {}
AtMostOnce(kind) ==
  CASE kind = "fetch" -> {"body"}
    [] kind = "cli_args" -> {"index"}
    [] OTHER -> {}
WasmInfeasibleKinds == {"exec", "spawn_agent", "http_server_start"}
isFeasible(kind, target) == ~(target = "wasm" /\ kind \in WasmInfeasibleKinds)

VerifiedNode(g, n, target) ==
  /\ n.kind \in {"try", "catch", "for"} => n.value # NoName
  /\ \A role \in Required(n.kind) : RoleCount(n, role) = 1
  /\ \A role \in AtMostOnce(n.kind) : RoleCount(n, role) <= 1
  /\ Sources(n) \subseteq Ids(g)
  /\ isFeasible(n.kind, target)
Verifies(g, target) == \A id \in Ids(g) : VerifiedNode(g, g.nodes[id], target)

(* What the hashes of a node and of a graph tell apart: everything but the    *)
(* effects.  The hash a manifest records of a node includes them.             *)
Bare(n) == [n EXCEPT !.effects = {}]
GraphHash(g) == [g EXCEPT !.nodes = [id \in Ids(g) |-> Bare(g.nodes[id])]]
=============================================================================
