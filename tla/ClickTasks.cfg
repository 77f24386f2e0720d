CONSTANTS
  N = 2
  Inputs <- AnyInput
  MaxClicks = 2
SPECIFICATION Spec
INVARIANTS BarrierHolds WakesAreBounded CountsOnlyWaiting
PROPERTIES AllActivated TokensAreTaken Termination
\* The process ends.
CHECK_DEADLOCK FALSE
