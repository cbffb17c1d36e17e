-------------------------- MODULE MCLessonDocument --------------------------
(* Values for the constants of LessonDocument.                             *)
EXTENDS LessonDocument, TLC

CONSTANTS tab1, tab2, job1, job2

\* The tabs differ in nothing but their names, and so do the tasks.
Symmetry == Permutations(Tabs) \cup Permutations(Jobs)
=============================================================================
