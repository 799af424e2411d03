SPECIFICATION FullFairSpec
CONSTANTS
  SPool = {s1}
  PPool = {p1}
  CPool = {c1}
  OPool = {o1}
  Width = 1
  Attempts = {a1, a2}
  Target = 1
  OAuthCap = 1
  ManualOAuth = FALSE
  Expiry = FALSE
  CallsFail = FALSE
  LocalFail = FALSE
  CloseWaits = TRUE
  NoWorker = NoWorker
PROPERTY ReachesTarget
