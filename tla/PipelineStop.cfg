SPECIFICATION FairSpec
CONSTANTS
  SPool = {s1}
  PPool = {p1}
  CPool = {c1}
  OPool = {o1}
  Width = 1
  Attempts = {a1, a2}
  Target = 2
  OAuthCap = 1
  ManualOAuth = TRUE
  Expiry = FALSE
  CallsFail = TRUE
  LocalFail = TRUE
  CloseWaits = TRUE
  NoWorker = NoWorker
INVARIANT ManualStopDrains
PROPERTY StopTerminates
