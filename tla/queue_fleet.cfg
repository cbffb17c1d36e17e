SPECIFICATION FairSpec
CONSTANTS
  w1 = w1
  w2 = w2
  t1 = t1
  t2 = t2
  Cli = Cli
  Nobody = Nobody
  Workers = {w1, w2}
  Owners = {t1}
  Jobs = {1}
  OwnerOf <- OneOwner
  MaxAttempts = 2
  Renewers = {w1}
  CliPurge = TRUE
  MaxCrashes = 2
INVARIANT RowsAgree
INVARIANT DraftAndBillAgree
PROPERTY FailedNeverRunsAgain
PROPERTY QueueDrains
CHECK_DEADLOCK FALSE
