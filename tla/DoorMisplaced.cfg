\* A sweep of the fridge door that cannot be planned.
SPECIFICATION Spec
CONSTANTS
  None = None
  Milks = {whole, oat}
  FirstMilk = whole
  Slots = 3
  MaxAttempts = 2
  Candidates = 2
  OpenAngle = 2
INVARIANT DoorFrameAtItsRecord
