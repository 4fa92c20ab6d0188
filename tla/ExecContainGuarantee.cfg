SPECIFICATION Spec
CONSTANTS
  prog = prog
  a = a
  b = b
  Program = prog
  Others = {a}
  Stubborn = {}
  MaxPasses = 4
  Faults = {"deadline"}
  Sup = Sup
  InitProc = InitProc
  None = None
INVARIANTS NothingLeftRunning
CHECK_DEADLOCK FALSE
