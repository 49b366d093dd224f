CONSTANTS
  c1 = c1
  c2 = c2
  c3 = c3
  c4 = c4
  Weeks = {1, 2, 3}
  Capacity = 2
  Corrections = {c1, c2, c3, c4}
  Edits = {e1, e2, e3}
  MaxDouses = 2
  WeekOf <- MCWeekOf
  NoRow = NoRow
  NoRun = NoRun
  NoAsk = NoAsk
SPECIFICATION Spec
SYMMETRY Alike
INVARIANTS TypeOK RebuildParity  ChargedOnce
PROPERTIES BurntForGood
