CONSTANTS
  u1 = u1  u2 = u2  k1 = k1
  NoAudio = NoAudio  NoKey = NoKey
  Uploads <- TwoUploads
  Keys <- OneKey
  KeyOf <- SameKey
  MayOverlap = FALSE
  MaxReprocess = 1
  MaxFaults = 1
SPECIFICATION FairSpec
CHECK_DEADLOCK FALSE
INVARIANTS TypeOK AcceptedAudioKept PurgedAudioGone TranscriptCurrent InsightCurrent
PROPERTIES JobsKeepLifecycle UploadsAnalyzed
