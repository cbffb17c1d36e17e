SPECIFICATION Spec
CONSTANTS
  tab1 = tab1
  tab2 = tab2
  job1 = job1
  job2 = job2
  NoJob = NoJob
  Tabs = {tab1}
  Jobs = {job1, job2}
  Sections = {"schedule"}
  MaxVersions = 4
  MaxWrites = 8
CHECK_DEADLOCK FALSE
PROPERTY ApprovesWhatIsShown
