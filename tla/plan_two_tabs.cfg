SPECIFICATION Spec
CONSTANTS
  tab1 = tab1
  tab2 = tab2
  tab3 = tab3
  item1 = item1
  item2 = item2
  Tabs = {tab1, tab2}
  Items = {item1, item2}
  Levels = {"WEAK", "MASTERED"}
  Absent = Absent
  Unlearned = "UNLEARNED"
  Deltas = {0, 1}
  MaxPlan = 4
  MaxEvidence = 3
INVARIANT HistoryAgrees
INVARIANT MinutesCredited
PROPERTY ApprovalsNeverRace
SYMMETRY Symmetry
CHECK_DEADLOCK FALSE
