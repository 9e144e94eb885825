------------------------------ MODULE MCHandle ------------------------------
(* Model-checking instances of Handle: two objects, two coroutines, and    *)
(* descriptors that are used again.                                        *)
EXTENDS Handle, TLC

Symmetry == Permutations(Handles) \cup Permutations(Coros) \cup Permutations(Fds)
=============================================================================
