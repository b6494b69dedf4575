\* One note in a digest.
CONSTANTS
  n1 = n1
  a1 = a1
  k1 = k1
  Notes = {n1}
  Digested = {n1}
  Devices = {}
  Accounts = {a1}
  Me = a1
  DigestRuns = {k1}
  Attempts = 1
  MaxFaults = 0
  MaxMails = 2
SPECIFICATION Spec
INVARIANTS DigestReachesUser
CHECK_DEADLOCK FALSE
