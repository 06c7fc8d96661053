CONSTANTS
  i1 = i1  i2 = i2  d1 = d1  d2 = d2
  Nobody = Nobody
  Items <- TwoItems
  Originals <- None
  Drains <- TwoDrains
  MaxUploadAttempts = 2
  MaxKills = 1
  MaxByHand = 0
  MaxCleaned = 0
SPECIFICATION Spec
CHECK_DEADLOCK FALSE
SYMMETRY Symmetry
INVARIANTS SavedNotLost DiskFollows
