SPECIFICATION FairSpec
CONSTANTS
  NTopics = 2
  BadTopics = {2}
  Timeout = 1
  MaxSignals = 2
PROPERTIES StopHonoured ConnackOrExit SubscribedOrStuck
CHECK_DEADLOCK FALSE
