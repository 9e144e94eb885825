------------------------------- MODULE IoSpec -------------------------------
(***************************************************************************)
(* What the IoEngine promises to its clients (lib/reactor/io/io.hh): every *)
(* request that was accepted completes once, unless the engine goes away   *)
(* first, and nothing else completes.                                      *)
(***************************************************************************)
CONSTANT Requests

VARIABLE status   \* "none", "outstanding", "done", or "lost" with the engine

Init == status = [r \in Requests |-> "none"]

Start(r) == /\ status[r] \in {"none", "done"}
            /\ status' = [status EXCEPT ![r] = "outstanding"]

Finish(r) == /\ status[r] = "outstanding"
             /\ status' = [status EXCEPT ![r] = "done"]

Stop == status' = [r \in Requests |-> "lost"]

Next == Stop \/ \E r \in Requests : Start(r) \/ Finish(r)

Safety == Init /\ [][Next]_status

Spec == /\ Safety
        /\ \A r \in Requests : WF_status(Finish(r))

=============================================================================
