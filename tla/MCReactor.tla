------------------------------ MODULE MCReactor ------------------------------
(* A model-checking instance of Reactor: ids that wrap and collide, two     *)
(* functions of the client's own, and Defers of both kinds.                 *)
EXTENDS Reactor, TLC

Symmetry == Permutations(Regs) \cup Permutations(Others)
              \cup Permutations(Typed) \cup Permutations(Erased)
=============================================================================
