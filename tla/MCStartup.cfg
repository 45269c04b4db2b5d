SPECIFICATION Spec
CONSTANTS
  Broken = Broken
  Junk = Junk
  MAX_RECIPIENTS = 10
  MAX_EVENTS = 16
  MAX_EVENTS_NODE = 4
  Capacity = 5
  Overrun = 1953720684
  Garbage <- MCGarbage
  Numerals <- MCNumerals
  TopicFiles <- MCTopicFiles
  EventFiles <- MCEventFiles
  CommandLines <- MCCommandLines
INVARIANTS TypeOK AttachedByName ReadBack LoadedAsMeant ConfigCrashExplained
           ReleasedOnce ReleasesAll
CHECK_DEADLOCK FALSE
