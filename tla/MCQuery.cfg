SPECIFICATION Spec
CONSTANTS
  IntText <- MCIntText
  FloatText <- MCFloatText
  StringText <- MCStringText
  INT_MAX = 127
  INT64_MAX = 1000
  Db <- MCDb
  NumRecordsPerPage = 4
  JOIN_BUFFER_SIZE = 24
  Column <- MCColumn
  Cell <- MCCell
  Row <- MCRow
  BUFFER_LENGTH = 300
  RECORD_COUNT_LENGTH = 40
  ColPiece = 19
  Text <- MCText
  Contents <- MCContents
  TokenInput <- MCTokenInput
  TextInput <- MCTextInput
  LaterInput <- MCLaterInput
  Statement <- MCStatement
  StackBound = 14
  Explore = {}
INVARIANTS LexExact ParseExact ConditionsPlaced JoinExact AnswerExact AnswerFits
PROPERTY QueryEnds
CHECK_DEADLOCK FALSE
