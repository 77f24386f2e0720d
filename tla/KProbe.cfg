CONSTANTS
  Procs = {p1, p2}
  Functions = {0, 1}
  Offsets = {0, 3}
  Callers = {4711, 4712}
SYMMETRY Symmetry
SPECIFICATION CarefulSpec
INVARIANT ProbesAreFound
PROPERTY ImplementsProbe
\* After a stray breakpoint the kernel may do anything: the system may stop.
CHECK_DEADLOCK FALSE
