\* Orders, actions by hand, faults and recoveries, with two milks and three slots.
SPECIFICATION Spec
CONSTANTS
  None = None
  Milks = {whole, oat}
  FirstMilk = whole
  Slots = 3
  MaxAttempts = 2
  Candidates = 2
  OpenAngle = 2
INVARIANTS
  TypeOK
  RecordedWorldIsReal
  NothingSpilled
  ServedAsOrdered
  OrderEndsAtRest
  FreshSlotFirst
