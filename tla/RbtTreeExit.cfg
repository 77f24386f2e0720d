CONSTANTS
  Keys <- MCKeys
  NULL = NULL
SPECIFICATION Spec
INVARIANT AllNodesDeleted
\* After a wild pointer nothing is promised: the system may stop.
CHECK_DEADLOCK FALSE
