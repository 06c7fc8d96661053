CONSTANTS
  s1 = s1  s2 = s2
  MatchWindow = 1
  SuffixDigits = 3
  ShortDigits = 2
  Entries <- TwoCalls
  Recordings <- NoFiles
  Syncs <- OneSync
  BatchSize = 2
  LedgerLimit = 4
  MayBeLate = FALSE
  MaxTroubles = 1
SPECIFICATION Spec
CHECK_DEADLOCK FALSE
INVARIANT NothingSkipped
