SPECIFICATION Spec
INVARIANTS
  TypeOK
  HonestAnswer
  NoChildAbandoned
  CloseSettles
  QuietAfterAnswer
PROPERTIES
  FirstCauseDecides
  PhaseEnds
CHECK_DEADLOCK FALSE
