SPECIFICATION Spec
CONSTANTS
  Receipts = {r1}
  Values <- AmountValues
  First <- TheFirst
  NoCategory = NoCategory
  Deleted = Deleted
  MaxSyncs = 2
  MaxCorrections = 2
  c1 = c1
  c2 = c2
PROPERTIES DriftIsRecorded
