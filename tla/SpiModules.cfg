CONSTANTS
  Chips = {"WS2812", "MAX7219"}
  Procs = {p1, p2, p3}
SPECIFICATION Spec
INVARIANTS BindsInAnyOrder NodeFollowsBinding
PROPERTY UnloadingIsSafe
\* After a use of freed memory the kernel may do anything: the system may stop.
CHECK_DEADLOCK FALSE
