SPECIFICATION Spec
CONSTANTS
  w1 = w1
  w2 = w2
  t1 = t1
  t2 = t2
  Cli = Cli
  Nobody = Nobody
  Workers = {w1}
  Owners = {t1}
  Jobs = {1, 2}
  OwnerOf <- OneOwner
  MaxAttempts = 2
  Renewers = {}
  CliPurge = FALSE
  MaxCrashes = 1
CHECK_DEADLOCK FALSE
INVARIANT NoWorkerExits
PROPERTY RefinesLifecycle
