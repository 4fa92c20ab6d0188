------------------------------- MODULE MCHfir -------------------------------
(* A small instance of HfirSession: a graph whose deep leaf is edited, gains  *)
(* a node with a capability and moves its entry; a function that is edited    *)
(* under its call, defined at the top or inside a sequence; and graphs that   *)
(* do not verify, do not lower, or do not make a valid program.               *)
EXTENDS HfirSession

Const(n) == Node("const", Num(n), <<>>)
Show(id) == Node("print", NoName, <<Edge("value", id)>>)
Plus(l, r) == Node("binary", Name("+"), <<Edge("left", l), Edge("right", r)>>)
Body(kind, ids) == Node(kind, NoName, [i \in DOMAIN ids |-> Edge("body", ids[i])])
Graph(entry, nodes) == [entry |-> entry, nodes |-> nodes]

(* show(leaf + 2), with one more statement at most.                           *)
Sums(leaf, right, more) ==
  (1 :> Body("program", <<2>> \o more) @@ 2 :> Show(3) @@ 3 :> Plus(4, right) @@ 4 :> Const(leaf) @@ 5 :> Const(2))
Reads == 6 :> Show(7) @@ 7 :> Node("env", NoName, <<Edge("value", 8)>>) @@ 8 :> Node("const", Text("HOME"), <<>>)
Runs == 6 :> Node("exec", NoName, <<Edge("cmd", 7)>>) @@ 7 :> Node("const", Text("ls"), <<>>)

(* A function f that returns its leaf, and a call of it.                      *)
Calls(leaf, at) ==
  1 :> Body("program", <<at, 5>>) @@ 2 :> Node("defun", Name("f"), <<Edge("body", 3)>>)
    @@ 3 :> Node("return", NoName, <<Edge("value", 4)>>) @@ 4 :> Const(leaf)
    @@ 5 :> Show(6) @@ 6 :> Node("call", Name("f"), <<>>)

MCGraphs ==
  {Graph(1, Sums(1, 5, <<>>)), Graph(1, Sums(3, 5, <<>>)), Graph(2, Sums(1, 5, <<>>)),
   Graph(1, Sums(1, 5, <<6>>) @@ Reads), Graph(1, Sums(1, 5, <<6>>) @@ Runs),
   Graph(1, Sums(1, 9, <<>>)), Graph(1, Sums(1, 2, <<>>)),
   Graph(1, Calls(1, 2)), Graph(1, Calls(2, 2)), Graph(1, Calls(1, 7) @@ 7 :> Body("sequence", <<2>>)),
   Graph(1, [id \in {1, 5, 6} |-> IF id = 1 THEN Body("program", <<5>>) ELSE Calls(1, 2)[id]])}
MCReplacements == {Const(7), Plus(4, 5), Plus(4, 4), Plus(5, 3), Show(4)}

ASSUME OnlyTransports
=============================================================================
