----------------------------- MODULE MCExecutor -----------------------------
(* A model-checking instance of Executor: a main coroutine and two that it *)
(* or they may call.                                                       *)
EXTENDS Executor
=============================================================================
