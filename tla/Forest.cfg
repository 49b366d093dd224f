CONSTANTS
  Receipts = {r1, r2, r3}
  Bought <- MCBought
  LastWeek = 3
  Every = 2
  Window = 2
  Flammable = {1}
  None = None
SPECIFICATION Spec
SYMMETRY Alike
INVARIANTS TypeOK ShredsPaid
CONSTRAINT NotOverwritten
