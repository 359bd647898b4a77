SPECIFICATION FairSpec
CHECK_DEADLOCK FALSE
INVARIANTS NoStrangerHit ReceiptIsTrue
PROPERTIES GoIsFresh AlwaysAnswers
