CONSTANTS
  CategoryIds = {c1, c2}
  ParamIds = {p1}
  Names = {"sales", "other"}
  Answers = {"sales", "fraud"}
  Lower <- LowerCase
  Scales <- SomeScales
  Scores = {1, 5}
  Editors = {e1, e2}
  MaxRuns = 2
  MaxActs = 3
  Own = own
  Customers = {n1, n2}
  OwnRows <- SomeOwnRows
  CustomerRows <- SomeCustomerRows
  Changes <- SomeChanges
  Admins = {a1, a2}
  MaxAdmin = 3
  Times = {t1, t2, t3}
SPECIFICATION SettingsSpec
CHECK_DEADLOCK FALSE
SYMMETRY Sym
INVARIANT RecordingPermitted
