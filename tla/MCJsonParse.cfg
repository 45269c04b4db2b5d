SPECIFICATION FairSpec
CONSTANTS
  Texts <- MCTexts
  Strings <- MCStrings
  Numbers <- MCNumbers
  Rest <- MCRest
  NESTING_LIMIT = 3
  Grammar <- MCGrammar
INVARIANTS TypeOK Inside OneOwner WellLinked NestingBounded ParsesJson MembersAsSent
PROPERTIES Finishes
CHECK_DEADLOCK FALSE
