SPECIFICATION Spec
CONSTANTS
  r1 = r1  r2 = r2  d1 = d1  d2 = d2
  None = None
  Message <- TwoMessages
  Reader <- TwoReaders
  Doorbell <- TwoDoorbells
  Faults = TRUE
SYMMETRY Symmetry
INVARIANTS NeverReturnedTwice LossIsLoud ReceiptIsEarned NoWakeForgotten
CHECK_DEADLOCK FALSE
