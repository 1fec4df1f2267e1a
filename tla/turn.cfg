SPECIFICATION Spec
CONSTANTS
  Terminals = {t1, t2}
  Active = {t1}
  Contents = {c1, c2}
  MaxUses = 2
  Primaries = {"Sol", "Terra"}
INVARIANTS
  TypeOK
  DeliveredIsReviewed
  SavedWhenDelivered
  FallbackIsSafe
  ReviewerIsOther
PROPERTIES
  StoredHistoryGrows
  CancelStopsWriters
  TurnEnds
CHECK_DEADLOCK FALSE
