SPECIFICATION ClientSpec
CONSTANTS
  Procs = {p1}
  Threads = {t1, t2}
  Patterns <- TwoPatterns
  Arrays <- OneArray
  Rows = 2
  Steps = 2
  Written <- Sequences
  Statuses <- AnyStatus
  MaxCalls = 3
  MaxSequences = 1
  MaxFailing = 1
  Clients = {"any", "application2", "application3"}
  DisplayPattern <- FirstLit
SYMMETRY Symmetry
INVARIANTS ShownIsWanted PatternsInSequence DarkWhenDone
PROPERTIES MessageArrives DisplayAdvances ImplementsDisplay
\* The program ends, and so do its displays.
CHECK_DEADLOCK FALSE
