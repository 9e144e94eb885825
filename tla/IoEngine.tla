------------------------------ MODULE IoEngine ------------------------------
(***************************************************************************)
(* The io_uring engine (lib/reactor/io/io.cc) and the kernel it talks to.  *)
(*                                                                         *)
(* A request is a name in Requests: the Promise<int> that prepare builds   *)
(* inside the SQE and that travels bitwise to the CQE.  The name may be    *)
(* used again for the next request once this one has completed.  The       *)
(* thread is either in the task loop of Reactor::run (pc = "tasks", where  *)
(* client code prepares requests) or inside the polling routine.  The      *)
(* kernel takes SQEs while the thread is inside io_uring_submit and        *)
(* completes requests at any time, in any order.                           *)
(***************************************************************************)
EXTENDS Integers, FiniteSets

CONSTANTS Requests,
          MaxEvents,   \* entries of the submission queue, 128 in the code
          Signals      \* whether signals interrupt the waiting thread

ASSUME RequestsAssumption  == IsFiniteSet(Requests)
ASSUME MaxEventsAssumption == MaxEvents \in Nat \ {0}
ASSUME SignalsAssumption   == Signals \in BOOLEAN

VARIABLES where,         \* what holds each request's promise
          taken,         \* SQEs the kernel has consumed in the current submit
          pending,       \* IoEngine::_pending
          inflight,      \* IoEngine::_inflight
          pc,            \* where the thread is
          hasProgress,   \* Reactor::_has_progress
          life,          \* "running", "closed" (~IoEngine) or "panicked"
          burst,         \* history: requests prepared since the last poll
          failed         \* history: some submit has failed

vars == <<where, taken, pending, inflight, pc, hasProgress, life, burst, failed>>
history == <<burst, failed>>

In(place) == {r \in Requests : where[r] = place}

Init == /\ where       = [r \in Requests |-> "none"]
        /\ taken       = 0
        /\ pending     = 0
        /\ inflight    = 0
        /\ pc          = "tasks"
        /\ hasProgress = FALSE
        /\ life        = "running"
        /\ burst       = 0
        /\ failed      = FALSE

Goto(from, to) == life = "running" /\ pc = from /\ pc' = to

Moves(r, from, to) == where[r] = from /\ where' = [where EXCEPT ![r] = to]

-----------------------------------------------------------------------------
(* Client code, between two polls                                          *)

\* prepare: a free SQE is filled in, or there is none and the program ends.
\* The kernel frees an SQE when it takes it.
Prepare(r) ==
  /\ life = "running"
  /\ pc = "tasks"
  /\ where[r] \in {"none", "done"}
  /\ IF Cardinality(In("sq")) < MaxEvents
     THEN /\ where'   = [where EXCEPT ![r] = "sq"]
          /\ pending' = pending + 1
          /\ burst'   = burst + 1
          /\ UNCHANGED life
     ELSE /\ life' = "panicked"
          /\ UNCHANGED <<where, pending, burst>>
  /\ UNCHANGED <<taken, inflight, pc, hasProgress, failed>>

\* ~IoEngine: COREY_ASSERT(_pending == 0); the promises in flight are lost.
Shutdown ==
  /\ life = "running"
  /\ pc = "tasks"
  /\ life' = IF pending = 0 THEN "closed" ELSE "panicked"
  /\ UNCHANGED <<where, taken, pending, inflight, pc, hasProgress, history>>

-----------------------------------------------------------------------------
(* submit_pending                                                          *)

\* The reactor calls the routine, which enters io_uring_submit at once if
\* anything is pending.
Poll ==
  /\ Goto("tasks", IF pending > 0 THEN "submitting" ELSE "submitted")
  /\ burst' = 0
  /\ UNCHANGED <<where, taken, pending, inflight, hasProgress, life, failed>>

\* The kernel consumes one SQE of the current io_uring_submit.
KernelTake(r) ==
  /\ life = "running"
  /\ pc = "submitting"
  /\ Moves(r, "sq", "kernel")
  /\ taken' = taken + 1
  /\ UNCHANGED <<pending, inflight, pc, hasProgress, life, history>>

\* Mutant of SubmitReturns: one io_uring_submit is taken to be enough.
SubmitOnce ==
  /\ taken > 0
  /\ pending'  = pending - taken
  /\ inflight' = inflight + taken
  /\ taken'    = 0
  /\ Goto("submitting", "submitted")
  /\ UNCHANGED <<where, hasProgress, life, history>>

\* Mutant of SubmitReturns: everything pending is taken to be in flight.
SubmitAssumesAll ==
  /\ taken > 0
  /\ pending'  = 0
  /\ inflight' = inflight + pending
  /\ taken'    = 0
  /\ Goto("submitting", "submitted")
  /\ UNCHANGED <<where, hasProgress, life, history>>

\* io_uring_submit returns the number of SQEs consumed, and the loop goes
\* on while some are left.
SubmitReturns ==
  /\ taken > 0
  /\ pending'  = pending - taken
  /\ inflight' = inflight + taken
  /\ taken'    = 0
  /\ Goto("submitting", IF pending' > 0 THEN "submitting" ELSE "submitted")
  /\ UNCHANGED <<where, hasProgress, life, history>>

\* io_uring_submit fails having consumed nothing: logged, tried next time.
SubmitFails ==
  /\ taken = 0
  /\ Goto("submitting", "submitted")
  /\ failed' = TRUE
  /\ UNCHANGED <<where, taken, pending, inflight, hasProgress, life, burst>>

-----------------------------------------------------------------------------
(* complete_ready                                                          *)

\* The kernel posts a completion.
KernelComplete(r) ==
  /\ life = "running"
  /\ Moves(r, "kernel", "cq")
  /\ UNCHANGED <<taken, pending, inflight, pc, hasProgress, life, history>>

\* Mutant of DecideToWait: the test forgets what is in flight.
WaitWithoutProgress ==
  /\ Goto("submitted", IF ~hasProgress THEN "waiting" ELSE "peeking")
  /\ UNCHANGED <<where, taken, pending, inflight, hasProgress, life, history>>

\* Block for a completion only if the last run resumed nothing.
DecideToWait ==
  /\ Goto("submitted", IF ~hasProgress /\ inflight > 0 THEN "waiting" ELSE "peeking")
  /\ UNCHANGED <<where, taken, pending, inflight, hasProgress, life, history>>

\* complete_cqe: the promise is set and destroyed, the CQE marked seen.
CompleteCqe(r) ==
  /\ Moves(r, "cq", "done")
  /\ inflight' = inflight - 1

\* io_uring_wait_cqe returns a completion.
WaitCqe(r) ==
  /\ Goto("waiting", "peeking")
  /\ CompleteCqe(r)
  /\ UNCHANGED <<taken, pending, hasProgress, life, history>>

\* A signal makes io_uring_wait_cqe return -EINTR, which the code asserts
\* never happens.
WaitInterrupted ==
  /\ Signals
  /\ life = "running"
  /\ pc = "waiting"
  /\ In("cq") = {}
  /\ life' = "panicked"
  /\ UNCHANGED <<where, taken, pending, inflight, pc, hasProgress, history>>

\* io_uring_peek_cqe returns a completion.
PeekCqe(r) ==
  /\ Goto("peeking", "peeking")
  /\ CompleteCqe(r)
  /\ UNCHANGED <<taken, pending, hasProgress, life, history>>

\* ... or EAGAIN: the routine returns.
PeekEmpty ==
  /\ In("cq") = {}
  /\ Goto("peeking", "tasks")
  /\ UNCHANGED <<where, taken, pending, inflight, hasProgress, life, history>>

\* The task loop ends and Reactor::run notes whether it resumed anything.
TasksRan(progress) ==
  /\ Goto("tasks", "tasks")
  /\ hasProgress' = progress
  /\ UNCHANGED <<where, taken, pending, inflight, life, history>>

-----------------------------------------------------------------------------
Submit   == Poll \/ SubmitReturns \/ SubmitFails
Complete == DecideToWait \/ PeekEmpty \/ \E r \in Requests : WaitCqe(r) \/ PeekCqe(r)

Next == \/ Shutdown \/ Submit \/ Complete \/ WaitInterrupted
        \/ \E progress \in BOOLEAN : TasksRan(progress)
        \/ \E r \in Requests : Prepare(r) \/ KernelTake(r) \/ KernelComplete(r)

Spec == Init /\ [][Next]_vars

(***************************************************************************)
(* Application::run calls Reactor::run over and over, and each call of the *)
(* engine returns; the kernel completes every request it took, and does    *)
(* not refuse an SQE for ever although submit is tried again and again.    *)
(***************************************************************************)
Fairness == /\ WF_vars(Submit) /\ WF_vars(Complete)
            /\ \A r \in Requests : SF_vars(KernelTake(r)) /\ WF_vars(KernelComplete(r))

FairSpec == Spec /\ Fairness

-----------------------------------------------------------------------------
(* Properties                                                              *)

Places == {"none", "sq", "kernel", "cq", "done"}

TypeOK == /\ where       \in [Requests -> Places]
          /\ taken       \in Nat
          /\ pending     \in Nat
          /\ inflight    \in Nat
          /\ pc          \in {"tasks", "submitting", "submitted", "waiting", "peeking"}
          /\ hasProgress \in BOOLEAN
          /\ life        \in {"running", "closed", "panicked"}
          /\ burst       \in Nat
          /\ failed      \in BOOLEAN

(***************************************************************************)
(* _pending and _inflight, kept by three different functions, agree with   *)
(* what the two rings and the kernel hold, through partial submits, failed *)
(* submits and completions that arrive in between.                         *)
(***************************************************************************)
CountersExact ==
  /\ pending = Cardinality(In("sq")) + taken
  /\ inflight + taken = Cardinality(In("kernel")) + Cardinality(In("cq"))

(***************************************************************************)
(* The thread never blocks in io_uring_wait_cqe with nothing left that     *)
(* could complete: it would not come back.                                 *)
(***************************************************************************)
WaitsForSomething ==
  pc = "waiting" => In("kernel") \cup In("cq") # {}

(***************************************************************************)
(* Unless a submit failed, the loop of submit_pending empties the queue,   *)
(* so only a burst of MaxEvents requests within one pass over the tasks    *)
(* can make prepare find no SQE: traffic spread over several passes never  *)
(* adds up to the panic.                                                   *)
(***************************************************************************)
QueueHoldsOneBurst == ~failed /\ pc = "tasks" => Cardinality(In("sq")) = burst

(***************************************************************************)
(* The engine is what IoSpec describes.                                    *)
(***************************************************************************)
Status == [r \in Requests |->
             IF life # "running" THEN "lost"
             ELSE IF where[r] \in {"none", "done"} THEN where[r]
             ELSE "outstanding"]

Abstract == INSTANCE IoSpec WITH status <- Status

ImplementsIoSpec == Abstract!Spec

=============================================================================
