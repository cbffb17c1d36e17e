----------------------------- MODULE MCBilling -----------------------------
(* Values for the constants of Billing and LessonSchedule.                 *)
EXTENDS Billing, TLC

CONSTANTS request1, request2, student1, student2, subject1, lesson1, lesson2, lesson3, payment1

Symmetry == Permutations(Requests) \cup Permutations(Lessons) \cup Permutations(Students)
=============================================================================
