--------------------------- MODULE MCExecContain ---------------------------
(* Small instances of ExecContain.                                         *)
EXTENDS ExecContain, TLC

CONSTANTS prog, a, b

ProcSymmetry == Permutations(Others)
=============================================================================
