SPECIFICATION FairSpec
CONSTANTS
  Accounts = {a1}
  Requests = {r1}
  Sweeps = {s1, s2}
  Limits = {1}
  DefaultLimit = 1
  Renewable = {a1}
  NoAccount = NoAccount
PROPERTIES LeasesReturned SweepEnds
