------------------------------ MODULE MCFuture ------------------------------
(* Model-checking instance of Future: the object names and the addresses   *)
(* are interchangeable.                                                    *)
EXTENDS Future, TLC

Symmetry == Permutations(Promises) \cup Permutations(Futures)
              \cup Permutations(States)
=============================================================================
