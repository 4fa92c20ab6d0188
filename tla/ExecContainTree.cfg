SPECIFICATION Spec
CONSTANTS
  prog = prog
  a = a
  b = b
  Program = prog
  Others = {a, b}
  Stubborn = {a, b}
  MaxPasses = 3
  Faults = {"deadline", "limit", "no program", "runner dies", "supervisor dies", "sweep times out", "unreadable"}
  Sup = Sup
  InitProc = InitProc
  None = None
SYMMETRY ProcSymmetry
INVARIANTS SweptTreeIsGone GroupIsKilled NotCutShort SuccessIsWhole
CHECK_DEADLOCK FALSE
