CONSTANTS
  MatchWindow = 1
  SuffixDigits = 3
  ShortDigits = 2
  Times <- FiveInstants
  Numbers <- LocalAndPrefixed
  MaxCalls = 2
  MaxRecordings = 2
  Day = 2
  Week = 4
  HourlyUpTo = 4
  DailyUpTo = 8
  MaxRange = 12
  MaxBuckets = 6
  Instants <- SomeInstants
  Shapes <- ThreeShapes
  Verdicts0 <- TwoVerdicts
  Rest <- OtherTables
  Now = 10
  Asked <- Requests
  SecondsBelow = 1000
  Chunks <- HeardChunks
  Turns <- HeardTurns
  MaxHeard = 2
  Timelines <- SomeTimelines
  Earlier <- NoneOrOne
  CountryCode <- India
  Trunk <- TrunkZero
  MinPlausible = 4
  MaxDigits = 7
  MinDigits = 3
  Digits <- SomeDigits
  MaxTyped = 7
  NationalLength = 4
SPECIFICATION Spec
CHECK_DEADLOCK FALSE
INVARIANTS MatchIsSound MatchIsComplete PrefixIgnored
  FiguresAgree ChartHasNoHoles TranscriptInOrder InsightsFitTranscript StoredOneWay
