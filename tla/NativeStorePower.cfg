SPECIFICATION FairSpec
CONSTANTS
  p1 = p1
  p2 = p2
  f1 = f1
  m1 = m1
  Procs = {p1, p2}
  Stores = {f1}
  Persisted = {f1}
  File <- OwnFile
  Keys = {k1}
  Values = {v1, v2}
  Absent = Absent
  Corrupt = Corrupt
  Missing = Missing
  NoProc = NoProc
  CanRead = {p1, p2}
  CanWrite = {p1, p2}
  Faults = {"io", "panic", "power"}
INVARIANTS AnsweredWriteIsDurable
PROPERTIES ImplementsRecordStore FileStaysComplete EveryOperationEnds
