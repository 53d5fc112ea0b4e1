SPECIFICATION FairSpec
CONSTANT Requests = {w1, w2, w3, w4}
INVARIANTS
  Contiguous
  HonestLogVerifies
  LostOnlyToAnother
PROPERTIES
  ImplementsLog
  EveryRequestAnswered
CHECK_DEADLOCK FALSE
