SPECIFICATION Spec
CONSTANTS
  r1 = r1  r2 = r2  None = None
  Message <- Messages
  Reader <- Readers
  MaxArms = 2
  MaxOutside = 1
  Faults = TRUE
INVARIANTS UnreadIsCovered NoStaleNotice AdvertisedIsWatched
PROPERTY EverySentIsAnnounced
CHECK_DEADLOCK FALSE
