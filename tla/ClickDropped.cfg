CONSTANTS
  N = 2
  Inputs <- AnyInput
  MaxClicks = 2
SPECIFICATION Spec
INVARIANT ClickReachesHandler
\* The process ends.
CHECK_DEADLOCK FALSE
