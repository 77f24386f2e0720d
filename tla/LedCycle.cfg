CONSTANTS
  Programs = {1, 2, 3}
  DutyCycles <- MCDutyCycles
  NO_OF_CYCLES = 2
  MaxClicks = 3
SPECIFICATION Spec
INVARIANTS SwitchHasCase OnlyShownIsLit ResetTakesEffect SleepsWithinCycle
PROPERTY CycleGoesOn
\* The process ends.
CHECK_DEADLOCK FALSE
