SPECIFICATION Spec
CONSTANTS
  tab1 = tab1
  tab2 = tab2
  job1 = job1
  job2 = job2
  NoJob = NoJob
  Tabs = {tab1}
  Jobs = {job1, job2}
  MaxVersions = 5
  MaxWrites = 10
INVARIANT RowSpeaksOfNewest
INVARIANT EditsNewest
INVARIANT InputNeverOlder
INVARIANT AppliedOnce
CHECK_DEADLOCK FALSE
