SPECIFICATION Spec
CONSTANTS
  NTopics = 2
  BadTopics = {}
  Timeout = 2
  MaxSignals = 2
INVARIANTS TypeOK CallbackOnLiveData SettledSubscriptions LeavesNothing EndsExplained
PROPERTIES ShutdownAlone TimeoutDecides
CHECK_DEADLOCK FALSE
