CONSTANTS
  Keys <- MCKeys
  NULL = NULL
SPECIFICATION Spec
INVARIANTS TreeIsSound NothingFreedTwice
PROPERTY ImplementsStore
\* After a wild pointer nothing is promised: the system may stop.
CHECK_DEADLOCK FALSE
