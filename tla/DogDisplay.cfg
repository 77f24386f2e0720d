SPECIFICATION Spec
CONSTANTS
  MaxFiles = 1
  MaxSignals = 2
INVARIANTS MeasuringIsOver OffAtExit DirectionIsKept
PROPERTIES StaysLit CtrlCEnds
\* The process ends.
CHECK_DEADLOCK FALSE
