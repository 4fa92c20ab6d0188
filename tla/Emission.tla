------------------------------ MODULE Emission ------------------------------
(* The code of each form that jumps, from the code of its parts: shared by    *)
(* the compiler of the AST (internal/bytecode/bytecode.go) and the lowering   *)
(* of HFIR graphs (internal/hfir/bytecode.go).  A jump counts from its own    *)
(* place.                                                                     *)
EXTENDS Terms

EmitWhen(c, a) == c \o <<WithLen("JUMP_IF_FALSE", Len(a) + 1)>> \o a

EmitIf(c, a, b) ==
  c \o <<WithLen("JUMP_IF_FALSE", Len(a) + 2)>> \o a \o <<WithLen("JUMP", Len(b) + 1)>> \o b

ShortCircuit(o, l, r) ==
  LET decides == Named("BINOP", Name(o))
      true == Constant(Bool(TRUE))
      false == Constant(Bool(FALSE))
  IN IF o = "and"
     THEN l \o <<WithLen("JUMP_IF_FALSE", Len(r) + 4)>> \o r \o <<true, decides, WithLen("JUMP", 2), false>>
     ELSE l \o <<WithLen("JUMP_IF_FALSE", 3), true, WithLen("JUMP", Len(r) + 3)>> \o r \o <<false, decides>>

EmitWhile(c, a) ==
  c \o <<WithLen("JUMP_IF_FALSE", Len(a) + 2)>> \o a \o <<WithLen("JUMP", -(Len(c) + 1 + Len(a)))>>

EmitFor(x, e, a) ==
  e \o <<Instruction("FOR_INIT"), [Named("FOR_NEXT", x) EXCEPT !.len = Len(a) + 2]>>
    \o a \o <<WithLen("JUMP", -(1 + Len(a)))>>

EmitTry(x, err, v, h, b) ==
  <<[Named("TRY_LET", x) EXCEPT !.err = err, !.len = Len(v), !.catch = Len(h), !.body = Len(b)]>>
    \o v \o h \o b

(* The response's body, of a request that sends one.                          *)
FetchWithBody(body) ==
  body \o <<Named("CONVERT", Name("to_string")), WithLen("HTTP_REQUEST", 1), Constant(Text(<<"body">>)), Instruction("MAP_GET")>>
=============================================================================
