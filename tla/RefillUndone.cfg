\* A refill between the coffee service's read and its set is undone.
CHECK_DEADLOCK FALSE
SPECIFICATION Spec
CONSTANTS
  Buttons = {cups, water}
  Threshold = 2
  None = none
  MaxBrews = 2
  MaxRefills = 1
  MaxFaults = 0
PROPERTY OtherKeysUntouched
