--------------------------- MODULE MCPlanProgress ---------------------------
(* Values for the constants of PlanProgress.                               *)
EXTENDS PlanProgress, TLC

CONSTANTS tab1, tab2, tab3, item1, item2

Symmetry == Permutations(Tabs) \cup Permutations(Items)
=============================================================================
