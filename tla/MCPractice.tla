----------------------------- MODULE MCPractice -----------------------------
(* Values for the constants of Practice.                                   *)
EXTENDS Practice, TLC

CONSTANTS question1, set1, tab1, tab2, run1, run2

Symmetry == Permutations(Tabs) \cup Permutations(Runs)
=============================================================================
