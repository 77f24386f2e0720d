CONSTANTS
  Keys <- MCKeys
  Datas <- MCDatas
  Addrs = {a1, a2, a3, a4}
  Procs = {p1, p2}
SYMMETRY Symmetry
SPECIFICATION Spec
INVARIANTS UniqueKeys LinkedIsAllocated
PROPERTIES FreesOnlyWhatItUnlinks ImplementsStore
\* After a wild pointer nothing is promised: the system may stop.
CHECK_DEADLOCK FALSE
