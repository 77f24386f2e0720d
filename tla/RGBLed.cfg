CONSTANTS
  Procs = {p1, p2}
  Colors <- MCColors
  Pins = {io012, io345}
  DefaultPins = io012
  Intensities <- MCIntensities
SPECIFICATION Spec
INVARIANTS TimerHasHolder TimerIsSafe
PROPERTIES CycleIsComplete ColorIsShown
\* A module that hangs in rmmod, or a wild timer, stops the system.
CHECK_DEADLOCK FALSE
