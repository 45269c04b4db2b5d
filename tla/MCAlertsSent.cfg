SPECIFICATION Spec
CONSTANTS
  a1 = a1
  a2 = a2
  NoData = NoData
  NoName = NoName
  Broken = Broken
  NoMessage = NoMessage
  TopicLists <- MCTopicLists
  Messages <- MCMessages
  Files <- MCFile
INVARIANTS SentMeansSent
CHECK_DEADLOCK FALSE
