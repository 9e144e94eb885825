--------------------------- MODULE MCRoutineTable ---------------------------
(* Model-checking instance of RoutineTable: a small id range, so that the  *)
(* counter wraps, and more registrations than there are ids.               *)
EXTENDS RoutineTable, TLC

Symmetry == Permutations(Regs)
=============================================================================
