SPECIFICATION Spec
CONSTANTS
  Event = {e1, e2, e3}
  MAX_EVENTS = 16
  MAX_EVENTS_NODE = 4
  AllocMayFail = FALSE
INVARIANTS DuplicateIsDuplicate
CHECK_DEADLOCK FALSE
