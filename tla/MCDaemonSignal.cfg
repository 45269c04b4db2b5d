SPECIFICATION FairSpec
CONSTANTS
  NTopics = 1
  BadTopics = {}
  Timeout = 1
  MaxSignals = 1
PROPERTIES SignalStops
CHECK_DEADLOCK FALSE
