SPECIFICATION FairSpec
CONSTANTS
  Words <- MCWords
  Asks <- MCAsks
  Answers <- MCAnswers
  MaxBody = 2
  LengthLine <- MCLengthLine
  MaxAsks = 2
  MaxReads = 2
INVARIANTS AcceptedIsAnswer
PROPERTY NoEndlessWait
CHECK_DEADLOCK FALSE
