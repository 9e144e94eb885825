------------------------------- MODULE MCCopy -------------------------------
(* Model-checking instances of Copy: sources of none to three buffers, with *)
(* and without a remainder.                                                 *)
EXTENDS Copy
=============================================================================
