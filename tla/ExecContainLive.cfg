SPECIFICATION FairSpec
CONSTANTS
  prog = prog
  a = a
  b = b
  Program = prog
  Others = {a}
  Stubborn = {a}
  MaxPasses = 2
  Faults = {"deadline", "limit", "no program", "runner dies", "supervisor dies", "unreadable"}
  Sup = Sup
  InitProc = InitProc
  None = None
PROPERTIES CallsReturn SupervisorEnds
CHECK_DEADLOCK FALSE
