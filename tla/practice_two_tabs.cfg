SPECIFICATION Spec
CONSTANTS
  question1 = question1
  set1 = set1
  tab1 = tab1
  tab2 = tab2
  run1 = run1
  run2 = run2
  NoRecord = NoRecord
  Questions = {question1}
  Sets = {set1}
  Tabs = {tab1, tab2}
  Runs = {run1, run2}
  MaxWrites = 7
INVARIANT RecordsAgree
INVARIANT QuotesApproved
PROPERTY ApprovedVersionKept
PROPERTY ReviewsWhatIsShown
SYMMETRY Symmetry
CHECK_DEADLOCK FALSE
