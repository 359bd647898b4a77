SPECIFICATION FairSpec
CONSTANTS
  d1 = d1  d2 = d2
  None = None
  Dispatcher <- MCDispatcher
  MaxChanges = 3
CHECK_DEADLOCK FALSE
INVARIANTS AtMostOnce AnswerIsTrue LockSpansDispatch LockIsGivenBack
PROPERTY AlwaysAnswers
