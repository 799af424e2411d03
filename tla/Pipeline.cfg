SPECIFICATION Spec
CONSTANTS
  SPool = {s1}
  PPool = {p1, p2}
  CPool = {c1}
  OPool = {o1, o2}
  Width = 2
  Attempts = {a1, a2, a3}
  Target = 2
  OAuthCap = 1
  ManualOAuth = FALSE
  Expiry = TRUE
  CallsFail = TRUE
  LocalFail = TRUE
  CloseWaits = TRUE
  NoWorker = NoWorker
SYMMETRY Symmetry
INVARIANTS TypeOK SeatsAccounted SeatsWithinTarget SlotsConserved OneJobPerWorker CrashOnlyAfterTimeout
PROPERTY ImplementsLedger
