SPECIFICATION Spec
CONSTANTS
  f1 = f1  f2 = f2  f3 = f3  f4 = f4
  Files <- MCFiles
  Threshold = 1
  LandsAbove = {}
  MaxEdits = 5
SYMMETRY MCSymmetry
INVARIANTS TypeOK DeletionsWithinNumber AllowedIsNotRefused
