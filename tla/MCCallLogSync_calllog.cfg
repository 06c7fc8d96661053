CONSTANTS
  s1 = s1  s2 = s2
  MatchWindow = 1
  SuffixDigits = 3
  ShortDigits = 2
  Entries <- ThreeRows
  Recordings <- OneFile
  Syncs <- TwoSyncs
  BatchSize = 1
  LedgerLimit = 1
  MayBeLate = FALSE
  MaxTroubles = 1
SPECIFICATION FairSpec
CHECK_DEADLOCK FALSE
INVARIANTS SkippedOnlyIfFailed ImportedIsQueued
PROPERTIES CallsReported
