--------------------------- MODULE IoEngineProofs ---------------------------
(***************************************************************************)
(* The engine's counters agree with its rings, it never blocks for nothing *)
(* and it implements the safety part of IoSpec, for any set of requests,   *)
(* any queue size and with or without signals.                             *)
(*                                                                         *)
(* CountersExact needs two facts to be inductive: taken is zero outside    *)
(* io_uring_submit, and the thread only waits with inflight > 0.           *)
(*                                                                         *)
(* The deadlines that IoEngine::timeout is given (module Timer) follow.    *)
(***************************************************************************)
EXTENDS IoEngine, Timer, FiniteSetTheorems, TLAPS

Phases ==
  /\ pc # "submitting" => taken = 0
  /\ pc = "waiting" => inflight > 0

(* While no submit has failed, nothing pending survives submit_pending.    *)
BurstInv ==
  /\ pc # "tasks" => burst = 0
  /\ ~failed /\ pc = "tasks" => pending = burst
  /\ ~failed /\ pc \in {"submitted", "waiting", "peeking"} => pending = 0

IInv == /\ TypeOK
        /\ CountersExact
        /\ Phases
        /\ BurstInv

-----------------------------------------------------------------------------
(* How a request that moves changes the population of the places.          *)

LEMMA InIsFinite ==
  ASSUME NEW place
  PROVE  IsFiniteSet(In(place)) /\ Cardinality(In(place)) \in Nat
<1>1. In(place) \subseteq Requests
  BY DEF In
<1>2. IsFiniteSet(In(place))
  BY <1>1, RequestsAssumption, FS_Subset
<1> QED
  BY <1>2, FS_CardinalityType

LEMMA MoveCounts ==
  ASSUME TypeOK, NEW r \in Requests, NEW from \in Places, NEW to \in Places,
         from # to, Moves(r, from, to)
  PROVE  /\ Cardinality(In(from)') = Cardinality(In(from)) - 1
         /\ Cardinality(In(to)') = Cardinality(In(to)) + 1
         /\ Cardinality(In(from)) > 0
         /\ \A p \in Places : p # from /\ p # to => In(p)' = In(p)
<1>1. /\ In(from)' = In(from) \ {r}
      /\ In(to)'   = In(to) \cup {r}
      /\ r \in In(from) /\ r \notin In(to)
  BY DEF TypeOK, In, Moves
<1>2. \A p \in Places : p # from /\ p # to => In(p)' = In(p)
  BY DEF TypeOK, In, Moves
<1>3. Cardinality(In(from) \ {r}) = Cardinality(In(from)) - 1
  BY <1>1, InIsFinite, FS_RemoveElement
<1>4. Cardinality(In(to) \cup {r}) = Cardinality(In(to)) + 1
  BY <1>1, InIsFinite, FS_AddElement
<1>5. Cardinality(In(from)) > 0
  BY <1>1, InIsFinite, FS_EmptySet
<1> QED
  BY <1>1, <1>2, <1>3, <1>4, <1>5

(* Nothing moves: the populations are the same.                            *)
LEMMA StayCounts ==
  ASSUME where' = where, NEW p PROVE In(p)' = In(p)
BY DEF In

-----------------------------------------------------------------------------
LEMMA InitInv == Init => IInv
<1> SUFFICES ASSUME Init PROVE IInv
  OBVIOUS
<1>1. In("sq") = {} /\ In("kernel") = {} /\ In("cq") = {}
  BY DEF Init, In
<1>2. CountersExact
  BY <1>1, FS_EmptySet, SMT DEF Init, CountersExact
<1>3. TypeOK
  BY DEF Init, TypeOK, Places
<1>4. Phases /\ BurstInv
  BY DEF Init, Phases, BurstInv
<1> QED
  BY <1>2, <1>3, <1>4 DEF IInv

LEMMA PrepareInv ==
  ASSUME IInv, NEW r \in Requests, Prepare(r) PROVE IInv'
<1>1. CASE Cardinality(In("sq")) < MaxEvents
  <2>1. /\ where' = [where EXCEPT ![r] = "sq"]
        /\ pending' = pending + 1
        /\ taken' = taken /\ inflight' = inflight
    BY <1>1 DEF Prepare
  <2>2. /\ Cardinality(In("sq")') = Cardinality(In("sq")) + 1
        /\ In("kernel")' = In("kernel")
        /\ In("cq")' = In("cq")
    <3>1. where[r] \in {"none", "done"} /\ Moves(r, where[r], "sq")
      BY <2>1 DEF Prepare, Moves
    <3> QED
      BY <3>1, MoveCounts DEF IInv, Places
  <2>3. CountersExact'
    BY <2>1, <2>2, InIsFinite, SMT DEF IInv, TypeOK, CountersExact
  <2> QED
    BY <1>1, <2>3, SMT DEF Prepare, IInv, TypeOK, Phases, BurstInv, Places
<1>2. CASE ~(Cardinality(In("sq")) < MaxEvents)
  <2>1. UNCHANGED <<where, taken, pending, inflight, pc, hasProgress, burst, failed>>
        /\ life' = "panicked"
    BY <1>2 DEF Prepare
  <2> QED
    BY <2>1, StayCounts, SMT DEF IInv, TypeOK, CountersExact, Phases, BurstInv
<1> QED
  BY <1>1, <1>2

LEMMA KernelTakeInv ==
  ASSUME IInv, NEW r \in Requests, KernelTake(r) PROVE IInv'
<1>1. /\ Cardinality(In("sq")') = Cardinality(In("sq")) - 1
      /\ Cardinality(In("kernel")') = Cardinality(In("kernel")) + 1
      /\ In("cq")' = In("cq")
  <2>1. Moves(r, "sq", "kernel")
    BY DEF KernelTake
  <2> QED
    BY <2>1, MoveCounts DEF IInv, Places
<1>2. CountersExact'
  BY <1>1, InIsFinite, SMT DEF KernelTake, IInv, TypeOK, CountersExact
<1> QED
  BY <1>2, SMT
     DEF KernelTake, Moves, IInv, TypeOK, Phases, BurstInv, Places, history

LEMMA KernelCompleteInv ==
  ASSUME IInv, NEW r \in Requests, KernelComplete(r) PROVE IInv'
<1>1. /\ Cardinality(In("kernel")') = Cardinality(In("kernel")) - 1
      /\ Cardinality(In("cq")') = Cardinality(In("cq")) + 1
      /\ In("sq")' = In("sq")
  <2>1. Moves(r, "kernel", "cq")
    BY DEF KernelComplete
  <2> QED
    BY <2>1, MoveCounts DEF IInv, Places
<1>2. CountersExact'
  BY <1>1, InIsFinite, SMT DEF KernelComplete, IInv, TypeOK, CountersExact
<1> QED
  BY <1>2, SMT
     DEF KernelComplete, Moves, IInv, TypeOK, Phases, BurstInv, Places, history

LEMMA CompleteCqeInv ==
  ASSUME IInv, NEW r \in Requests, WaitCqe(r) \/ PeekCqe(r) PROVE IInv'
<1>1. /\ Cardinality(In("cq")') = Cardinality(In("cq")) - 1
      /\ Cardinality(In("cq")) > 0
      /\ In("sq")' = In("sq")
      /\ In("kernel")' = In("kernel")
  <2>1. Moves(r, "cq", "done")
    BY DEF WaitCqe, PeekCqe, CompleteCqe
  <2> QED
    BY <2>1, MoveCounts DEF IInv, Places
<1>2. /\ inflight' = inflight - 1 /\ taken' = taken /\ pending' = pending
      /\ taken = 0
  BY DEF WaitCqe, PeekCqe, CompleteCqe, Goto, IInv, Phases
<1>3. CountersExact'
  BY <1>1, <1>2, InIsFinite, SMT DEF IInv, TypeOK, CountersExact
<1>4. inflight' \in Nat
  BY <1>1, <1>2, <1>3, InIsFinite, SMT DEF IInv, TypeOK, CountersExact
<1> QED
  BY <1>2, <1>3, <1>4, SMT
     DEF WaitCqe, PeekCqe, CompleteCqe, Goto, Moves, IInv, TypeOK, Phases,
         BurstInv, Places, history

(* The steps that move no request.                                         *)
LEMMA OtherStepsInv ==
  ASSUME IInv,
         \/ Shutdown \/ Submit \/ DecideToWait \/ PeekEmpty \/ WaitInterrupted
         \/ \E progress \in BOOLEAN : TasksRan(progress)
         \/ UNCHANGED vars
  PROVE  IInv'
<1>1. where' = where
  BY DEF Shutdown, Submit, Poll, SubmitReturns, SubmitFails, DecideToWait,
         PeekEmpty, WaitInterrupted, TasksRan, vars
<1>2. In("sq")' = In("sq") /\ In("kernel")' = In("kernel") /\ In("cq")' = In("cq")
  BY <1>1, StayCounts
<1> USE DEF IInv, TypeOK, CountersExact, Phases, BurstInv, Goto, history
<1>3. CASE Shutdown
  BY <1>2, <1>3, SMT DEF Shutdown
<1>4. CASE Poll
  BY <1>2, <1>4, SMT DEF Poll
<1>5. CASE SubmitReturns
  BY <1>2, <1>5, InIsFinite, SMT DEF SubmitReturns
<1>6. CASE SubmitFails
  BY <1>2, <1>6, SMT DEF SubmitFails
<1>7. CASE DecideToWait
  BY <1>2, <1>7, SMT DEF DecideToWait
<1>8. CASE PeekEmpty
  BY <1>2, <1>8, SMT DEF PeekEmpty
<1>9. CASE WaitInterrupted
  BY <1>2, <1>9, SMT DEF WaitInterrupted
<1>10. ASSUME NEW progress \in BOOLEAN, TasksRan(progress) PROVE IInv'
  BY <1>2, <1>10, SMT DEF TasksRan
<1>11. CASE UNCHANGED vars
  BY <1>2, <1>11, SMT DEF vars
<1> HIDE DEF IInv
<1> QED
  BY <1>3, <1>4, <1>5, <1>6, <1>7, <1>8, <1>9, <1>10, <1>11 DEF Submit

LEMMA StepInv == IInv /\ [Next]_vars => IInv'
BY PrepareInv, KernelTakeInv, KernelCompleteInv, CompleteCqeInv, OtherStepsInv
   DEF Next, Complete

-----------------------------------------------------------------------------
(* The inductive invariant holds in every reachable state.                 *)
THEOREM Invariance == Spec => []IInv
BY InitInv, StepInv, PTL DEF Spec

(* The type invariant: the counters of the engine never go below zero.     *)
THEOREM TypeCorrectness == Spec => []TypeOK
<1>1. IInv => TypeOK
  BY DEF IInv
<1> QED
  BY <1>1, Invariance, PTL

(* _pending and _inflight agree with the rings and the kernel, through     *)
(* partial and failed submits.                                             *)
THEOREM CountersAreExact == Spec => []CountersExact
<1>1. IInv => CountersExact
  BY DEF IInv
<1> QED
  BY <1>1, Invariance, PTL

(* complete_ready never blocks with nothing left that could complete.      *)
THEOREM WaitsAreJustified == Spec => []WaitsForSomething
<1>1. IInv => WaitsForSomething
  <2> SUFFICES ASSUME IInv, pc = "waiting", In("kernel") = {}, In("cq") = {}
               PROVE  FALSE
    BY DEF WaitsForSomething
  <2>1. inflight > 0 /\ taken = 0
    BY DEF IInv, Phases
  <2>2. inflight + taken = 0
    BY FS_EmptySet DEF IInv, CountersExact
  <2> QED
    BY <2>1, <2>2, SMT DEF IInv, TypeOK
<1> QED
  BY <1>1, Invariance, PTL

(* Only the requests of the current pass over the tasks can be waiting for *)
(* submission, as long as no submit failed: prepare's panic needs a burst  *)
(* of MaxEvents in one pass.                                               *)
THEOREM QueueIsEmptiedByEachPoll == Spec => []QueueHoldsOneBurst
<1>1. IInv => QueueHoldsOneBurst
  <2> SUFFICES ASSUME IInv, ~failed, pc = "tasks"
               PROVE  Cardinality(In("sq")) = burst
    BY DEF QueueHoldsOneBurst
  <2>1. taken = 0 /\ pending = burst
    BY DEF IInv, Phases, BurstInv
  <2> QED
    BY <2>1, InIsFinite, SMT DEF IInv, CountersExact
<1> QED
  BY <1>1, Invariance, PTL

-----------------------------------------------------------------------------
(* A request that goes from one place to another, seen by the client.      *)
LEMMA StatusMoves ==
  ASSUME TypeOK, life = "running", life' = life,
         NEW r \in Requests, NEW from, NEW to, Moves(r, from, to)
  PROVE  /\ from \in {"sq", "kernel"} /\ to \in {"kernel", "cq"} => Status' = Status
         /\ from = "cq" /\ to = "done" => Abstract!Finish(r)
         /\ from \in {"none", "done"} /\ to = "sq" => Abstract!Start(r)
<1> DEFINE Seen(place) == IF place \in {"none", "done"} THEN place ELSE "outstanding"
<1>1. Status = [x \in Requests |-> Seen(where[x])]
  BY DEF Status
<1>2. Status' = [x \in Requests |-> Seen(where'[x])]
  BY DEF Status
<1>3. where'[r] = to /\ where[r] = from /\ \A x \in Requests \ {r} : where'[x] = where[x]
  BY DEF TypeOK, Moves
<1>4. Status' = [Status EXCEPT ![r] = Seen(to)] /\ Status[r] = Seen(from)
  <2> HIDE DEF Seen
  <2> QED
    BY <1>1, <1>2, <1>3
<1>5. Seen(from) = Seen(to) => Status' = Status
  <2> HIDE DEF Seen
  <2> QED
    BY <1>1, <1>4
<1> QED
  BY <1>4, <1>5 DEF Abstract!Finish, Abstract!Start

(* Steps that move no request and let the engine live are not seen.        *)
LEMMA StatusStays ==
  ASSUME life' = life, where' = where PROVE Status' = Status
BY DEF Status

(* The end of the engine, by ~IoEngine or by a panic.                      *)
LEMMA StatusLost == ASSUME life' # "running" PROVE Abstract!Stop
BY DEF Status, Abstract!Stop

LEMMA StepRefines == IInv /\ [Next]_vars => [Abstract!Next]_Status
<1> SUFFICES ASSUME IInv, [Next]_vars PROVE [Abstract!Next]_Status
  OBVIOUS
<1>0. TypeOK
  BY DEF IInv
<1>1. CASE Shutdown \/ WaitInterrupted
  BY <1>1, StatusLost DEF Shutdown, WaitInterrupted, Abstract!Next
<1>2. CASE \/ Submit \/ DecideToWait \/ PeekEmpty \/ UNCHANGED vars
           \/ \E progress \in BOOLEAN : TasksRan(progress)
  BY <1>2, StatusStays
     DEF Submit, Poll, SubmitReturns, SubmitFails, DecideToWait, PeekEmpty,
         TasksRan, Goto, vars
<1>3. ASSUME NEW r \in Requests, Prepare(r) PROVE Abstract!Next \/ UNCHANGED Status
  <2>1. CASE Cardinality(In("sq")) < MaxEvents
    <3>1. Moves(r, where[r], "sq") /\ where[r] \in {"none", "done"}
      BY <1>3, <2>1 DEF Prepare, Moves
    <3>2. Abstract!Start(r)
      BY <1>0, <1>3, <2>1, <3>1, StatusMoves DEF Prepare
    <3> QED
      BY <3>2 DEF Abstract!Next
  <2>2. CASE ~(Cardinality(In("sq")) < MaxEvents)
    BY <1>3, <2>2, StatusLost DEF Prepare, Abstract!Next
  <2> QED
    BY <2>1, <2>2
<1>4. ASSUME NEW r \in Requests, KernelTake(r) \/ KernelComplete(r)
      PROVE  UNCHANGED Status
  BY <1>0, <1>4, StatusMoves DEF KernelTake, KernelComplete
<1>5. ASSUME NEW r \in Requests, WaitCqe(r) \/ PeekCqe(r) PROVE Abstract!Next
  BY <1>0, <1>5, StatusMoves
     DEF WaitCqe, PeekCqe, CompleteCqe, Goto, Abstract!Next
<1> QED
  BY <1>1, <1>2, <1>3, <1>4, <1>5 DEF Next, Complete

(* Every request that was accepted completes at most once and nothing else *)
(* completes: the engine implements IoSpec's initial states and steps.     *)
THEOREM Refinement == Spec => Abstract!Safety
<1>1. Init => Abstract!Init
  BY DEF Init, Status, Abstract!Init
<1> QED
  BY <1>1, InitInv, StepInv, StepRefines, PTL DEF Spec, Abstract!Safety

-----------------------------------------------------------------------------
(* The argument of IoEngine::timeout                                       *)

(***************************************************************************)
(* All that the theorems use of the number of nanoseconds in a second.     *)
(***************************************************************************)
LEMMA SecondType == Second \in Nat /\ Second > 0
BY DEF Second

(***************************************************************************)
(* Euclidean division by a second, as the library's operators define it.   *)
(***************************************************************************)
LEMMA Division ==
  ASSUME NEW e \in Nat
  PROVE  /\ e \div Second \in Nat
         /\ e % Second \in 0 .. Second - 1
         /\ e = Second * (e \div Second) + (e % Second)
BY SecondType

(***************************************************************************)
(* The quotient has the sign of the duration, and the remainder as well,   *)
(* with an absolute value of less than a second.                           *)
(***************************************************************************)
LEMMA Truncation ==
  ASSUME NEW d \in Int
  PROVE  /\ Quotient(d, Second) \in Int /\ Remainder(d, Second) \in Int
         /\ d = Second * Quotient(d, Second) + Remainder(d, Second)
         /\ d >= 0 => Quotient(d, Second) >= 0 /\ Remainder(d, Second) \in 0 .. Second - 1
         /\ d < 0  => Quotient(d, Second) <= 0 /\ -Remainder(d, Second) \in 0 .. Second - 1
<1>1. CASE d >= 0
  <2>1. Quotient(d, Second) = d \div Second /\ d \in Nat
    BY <1>1 DEF Quotient
  <2>2. Remainder(d, Second) = d % Second
    BY <2>1, Division, SecondType DEF Remainder
  <2>. QED BY <1>1, <2>1, <2>2, Division, SecondType
<1>2. CASE d < 0
  <2>. DEFINE e == -d
  <2>1. e \in Nat /\ Quotient(d, Second) = -(e \div Second)
    BY <1>2 DEF Quotient
  <2>. DEFINE q == e \div Second
  <2>2. /\ q \in Nat /\ e % Second \in 0 .. Second - 1
        /\ e = Second * q + (e % Second)
    BY <2>1, Division
  <2>. HIDE DEF q
  <2>3. Second * (-q) = -(Second * q) /\ Second * q \in Int
    BY <2>2, SecondType
  <2>4. Remainder(d, Second) = -(e % Second)
    BY <2>1, <2>2, <2>3, SecondType DEF Remainder, q
  <2>. QED BY <1>2, <2>1, <2>2, <2>3, <2>4, SecondType DEF q
<1>. QED BY <1>1, <1>2

(***************************************************************************)
(* The deadline is exactly the duration away from now, for every duration, *)
(* negative ones included, although its fields are not normalised.         *)
(***************************************************************************)
THEOREM DeadlineIsExact ==
  ASSUME NEW now \in Times, NEW d \in Int
  PROVE  Instant(Deadline(now, d)) = Instant(now) + d
<1>. DEFINE q == Quotient(d, Second)
            r == Remainder(d, Second)
<1>1. q \in Int /\ r \in Int /\ d = Second * q + r
  BY Truncation
<1>2. now.sec \in Int /\ now.nsec \in Int /\ Second \in Int
  BY SecondType DEF Times
<1>3. /\ Instant(Deadline(now, d)) = Second * (now.sec + q) + (now.nsec + r)
      /\ Instant(now) = Second * now.sec + now.nsec
  BY DEF Instant, Deadline
<1>. HIDE DEF q, r
<1>4. Second * (now.sec + q) = Second * now.sec + Second * q
  BY <1>1, <1>2
<1>5. Second * now.sec \in Int /\ Second * q \in Int
  BY <1>1, <1>2
<1>. QED BY <1>1, <1>2, <1>3, <1>4, <1>5

(***************************************************************************)
(* A duration that is not negative is always accepted; its tv_nsec stays   *)
(* below two seconds, which fits the field with room to spare.             *)
(***************************************************************************)
THEOREM SleepReturns ==
  ASSUME NEW now \in Times, NEW d \in Nat
  PROVE  /\ Outcome(now, d) = "returns"
         /\ Deadline(now, d).nsec \in 0 .. 2 * Second - 2
<1>. DEFINE q == Quotient(d, Second)
            r == Remainder(d, Second)
<1>1. q \in Int /\ q >= 0 /\ r \in 0 .. Second - 1
  BY Truncation
<1>2. now.sec \in Nat /\ now.nsec \in 0 .. Second - 1 /\ Second \in Nat
  BY SecondType DEF Times
<1>3. Deadline(now, d) = [sec |-> now.sec + q, nsec |-> now.nsec + r]
  BY DEF Deadline
<1>. HIDE DEF q, r
<1>4. now.sec + q >= 0 /\ now.nsec + r >= 0 /\ now.nsec + r \in 0 .. 2 * Second - 2
  BY <1>1, <1>2
<1>. QED BY <1>3, <1>4 DEF Accepted, Outcome

(***************************************************************************)
(* A sleep of a whole negative number of seconds, not before the clock's   *)
(* start, returns at once and throws nothing: the catch of EINVAL in       *)
(* tests/test_app.cc (CheckSleepNegativeTimeout) is never entered.         *)
(***************************************************************************)
THEOREM WholeSecondsBackReturn ==
  ASSUME NEW now \in Times, NEW k \in Nat, k <= now.sec
  PROVE  Outcome(now, -(Second * k)) = "returns"
<1>. DEFINE d == -(Second * k)
<1>1. Second * k \in Nat /\ d \in Int /\ d <= 0 /\ (k = 0 <=> d = 0)
  BY SecondType
<1>2. Quotient(d, Second) = -k
  <2>1. (Second * k) \div Second = k
    BY SecondType
  <2>2. CASE k = 0
    BY <1>1, <2>1, <2>2 DEF Quotient
  <2>3. CASE k > 0
    <3>1. ~(d >= 0) /\ -d = Second * k
      BY <1>1, <2>3
    <3>. QED BY <2>1, <3>1 DEF Quotient
  <2>. QED BY <2>2, <2>3
<1>3. Remainder(d, Second) = 0
  <2>1. Second * (-k) = d
    BY SecondType
  <2>. QED BY <1>1, <1>2, <2>1 DEF Remainder
<1>4. Deadline(now, d) = [sec |-> now.sec - k, nsec |-> now.nsec]
  BY <1>2, <1>3 DEF Deadline, Times
<1>. QED BY <1>4, SecondType DEF Times, Accepted, Outcome

=============================================================================
