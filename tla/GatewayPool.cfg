SPECIFICATION Spec
CONSTANTS
  Accounts = {a1}
  Requests = {r1, r2, r3}
  Sweeps = {s1, s2}
  Limits = {1, 2}
  DefaultLimit = 1
  Renewable = {a1}
  NoAccount = NoAccount
SYMMETRY Symmetry
INVARIANTS TypeOK LeasesAccounted AdmissionBound OneCheckPerAccount
PROPERTIES DeletedStaysDeleted UnhealthyUntilChecked
