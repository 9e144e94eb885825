------------------------------ MODULE MCServer ------------------------------
(* A model-checking instance of Server: two sessions and, between them, two *)
(* messages cut up in every way.                                            *)
EXTENDS Server
=============================================================================
