SPECIFICATION Spec
CONSTANTS
  MaxHeaders = 4
  MaxOthers = 1
  MaxBytes = 2
  MaxFaults = 1
INVARIANTS KeptMeansWhole HeadFirstTermLast HeadHasNoBody
