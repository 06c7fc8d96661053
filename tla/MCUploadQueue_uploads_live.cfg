CONSTANTS
  i1 = i1  i2 = i2  d1 = d1  d2 = d2
  Nobody = Nobody
  Items <- OneItem
  Originals <- None
  Drains <- TwoDrains
  MaxUploadAttempts = 2
  MaxKills = 1
  MaxByHand = 1
  MaxCleaned = 1
SPECIFICATION FairSpec
CHECK_DEADLOCK FALSE
PROPERTIES SavedSettles
