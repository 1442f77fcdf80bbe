CONSTANTS
  Answers <- SomeAnswers
  BubbleMax = 2
  MessageLimit = 3
  MaxApiErrors = 1
SPECIFICATION ReplySpec
INVARIANT NothingSwallowed
CHECK_DEADLOCK FALSE
