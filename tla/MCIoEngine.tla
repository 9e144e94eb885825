----------------------------- MODULE MCIoEngine -----------------------------
(* Model-checking instance of IoEngine: more requests than the submission  *)
(* queue has entries.                                                      *)
EXTENDS IoEngine
=============================================================================
