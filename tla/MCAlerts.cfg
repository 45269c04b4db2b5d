SPECIFICATION FairSpec
CONSTANTS
  a1 = a1
  a2 = a2
  NoData = NoData
  NoName = NoName
  Broken = Broken
  NoMessage = NoMessage
  TopicLists <- MCTopicLists
  Messages <- MCMessages
  Files <- MCFiles
INVARIANTS TypeOK CursorsInside Complete CrashBetweenMembers
PROPERTIES KeepsPromise HandledIfMailAnswers
CHECK_DEADLOCK FALSE
