SPECIFICATION Spec
CONSTANTS
  Event = {e1, e2, e3}
  MAX_EVENTS = 16
  MAX_EVENTS_NODE = 4
  AllocMayFail = TRUE
INVARIANTS TypeOK Packed CountExplained 
PROPERTIES ImplementsBoundedLog
CHECK_DEADLOCK FALSE
