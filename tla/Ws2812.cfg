SPECIFICATION RingSpec
CONSTANTS
  Chips = {"WS2812"}
  Procs = {p1}
  Counts <- MCCounts
  Statuses <- AnyStatus
  Modulus = 1024
INVARIANT
  WindowHasAskedSize
PROPERTY
  WriteEnds
\* After a use of freed memory the kernel may do anything: the system may stop.
CHECK_DEADLOCK FALSE
