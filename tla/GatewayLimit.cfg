SPECIFICATION Spec
CONSTANTS
  Accounts = {a1}
  Requests = {r1, r2}
  Sweeps = {s1}
  Limits = {1, 2}
  DefaultLimit = 2
  Renewable = {a1}
  NoAccount = NoAccount
PROPERTY SelectionWithinLimit
