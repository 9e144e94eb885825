---------------------------- MODULE MCSemaphore -----------------------------
(* Model-checking instance of Semaphore: fewer permits than clients, and a *)
(* queue long enough for all to wait behind promises given up.             *)
EXTENDS Semaphore
=============================================================================
