CONSTANTS
  i1 = i1  i2 = i2  d1 = d1  d2 = d2
  Nobody = Nobody
  Items <- OneItem
  Originals <- OneItem
  Drains <- OneDrain
  MaxUploadAttempts = 2
  MaxKills = 0
  MaxByHand = 0
  MaxCleaned = 0
SPECIFICATION Spec
CHECK_DEADLOCK FALSE
INVARIANT OriginalsKept
