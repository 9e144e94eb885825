---------------------------- MODULE FutureProofs ----------------------------
(***************************************************************************)
(* The invariants of Future hold for any number of promises, futures and   *)
(* addresses.                                                              *)
(*                                                                         *)
(* RefCountExact is not inductive alone: it allows two futures of one      *)
(* State, and then get_future's test would not be enough.  The inductive   *)
(* invariant joins it with OneOwnerPerSide, and states the count without   *)
(* Cardinality: one for a promise, one for a future.                       *)
(***************************************************************************)
EXTENDS Future, FiniteSetTheorems, TLAPS

Present(S) == IF S = {} THEN 0 ELSE 1

CountByPresence ==
  \A s \in States :
    /\ refCnt[s] = Present(PromisesOf(s)) + Present(FuturesOf(s))
    /\ (mode[s] = "free") <=> (refCnt[s] = 0)

IInv == /\ TypeOK
        /\ CountByPresence
        /\ OneOwnerPerSide
        /\ PendingHasProducer

-----------------------------------------------------------------------------
USE PointerAssumption
    DEF IInv, TypeOK, CountByPresence, OneOwnerPerSide, PendingHasProducer,
        Present, PromisesOf, FuturesOf, Mode, Ready, Pointer, Exceptions

(* No object exists yet, so there is nothing to count.                     *)
LEMMA InitInv == Init => IInv
BY SMT DEF Init

(* The promise's operations: one lemma for each.                           *)
LEMMA NewPromiseInv ==
  ASSUME IInv, NEW p \in Promises, NewPromise(p) PROVE IInv'
BY SMT DEF NewPromise
LEMMA GetFutureInv ==
  ASSUME IInv, NEW p \in Promises, NEW f \in Futures, GetFuture(p, f) PROVE IInv'
BY SMT DEF GetFuture, Allocate
LEMMA SetInv ==
  ASSUME IInv, NEW p \in Promises, NEW m \in {"value", "error"}, Set(p, m) PROVE IInv'
BY SMT DEF Set, Allocate
LEMMA SetNullExceptionInv ==
  ASSUME IInv, NEW p \in Promises, SetNullException(p) PROVE IInv'
BY SMT DEF SetNullException
LEMMA MovePromiseInv ==
  ASSUME IInv, NEW p \in Promises, NEW q \in Promises, MovePromise(p, q) PROVE IInv'
BY SMT DEF MovePromise
LEMMA AssignPromiseInv ==
  ASSUME IInv, NEW p \in Promises, NEW q \in Promises, AssignPromise(p, q) PROVE IInv'
BY SMT DEF AssignPromise
LEMMA DestroyPromiseInv ==
  ASSUME IInv, NEW p \in Promises, DestroyPromise(p) PROVE IInv'
BY SMT DEF DestroyPromise, ReleasePromise

(* The future's operations.                                                *)
LEMMA MakeFutureInv ==
  ASSUME IInv, NEW f \in Futures, NEW m \in {"value", "error"}, MakeFuture(f, m) PROVE IInv'
BY SMT DEF MakeFuture, Allocate
LEMMA GetInv ==
  ASSUME IInv, NEW f \in Futures, Get(f) PROVE IInv'
BY SMT DEF Get
LEMMA MoveFutureInv ==
  ASSUME IInv, NEW f \in Futures, NEW g \in Futures, MoveFuture(f, g) PROVE IInv'
BY SMT DEF MoveFuture
LEMMA AssignFutureInv ==
  ASSUME IInv, NEW f \in Futures, NEW g \in Futures, AssignFuture(f, g) PROVE IInv'
BY SMT DEF AssignFuture, Release
LEMMA DestroyFutureInv ==
  ASSUME IInv, NEW f \in Futures, DestroyFuture(f) PROVE IInv'
BY SMT DEF DestroyFuture, Release

-----------------------------------------------------------------------------
(* Every step keeps the inductive invariant.                               *)
LEMMA StepInv == IInv /\ [Next]_vars => IInv'
<1> SUFFICES ASSUME IInv, [Next]_vars PROVE IInv'
  OBVIOUS
<1>1. ASSUME NEW p \in Promises, PromiseStep(p) PROVE IInv'
  <2>1. CASE NewPromise(p)
    BY <2>1, NewPromiseInv
  <2>2. CASE SetNullException(p)
    BY <2>2, SetNullExceptionInv
  <2>3. CASE DestroyPromise(p)
    BY <2>3, DestroyPromiseInv
  <2>4. ASSUME NEW m \in {"value", "error"}, Set(p, m) PROVE IInv'
    BY <2>4, SetInv
  <2>5. ASSUME NEW f \in Futures, GetFuture(p, f) PROVE IInv'
    BY <2>5, GetFutureInv
  <2>6. ASSUME NEW q \in Promises, MovePromise(p, q) \/ AssignPromise(p, q)
        PROVE  IInv'
    BY <2>6, MovePromiseInv, AssignPromiseInv
  <2> HIDE DEF IInv
  <2> QED
    BY <1>1, <2>1, <2>2, <2>3, <2>4, <2>5, <2>6 DEF PromiseStep
<1>2. ASSUME NEW f \in Futures, FutureStep(f) PROVE IInv'
  <2>1. CASE Get(f)
    BY <2>1, GetInv
  <2>2. CASE DestroyFuture(f)
    BY <2>2, DestroyFutureInv
  <2>3. ASSUME NEW m \in {"value", "error"}, MakeFuture(f, m) PROVE IInv'
    BY <2>3, MakeFutureInv
  <2>4. ASSUME NEW g \in Futures, MoveFuture(f, g) \/ AssignFuture(f, g)
        PROVE  IInv'
    BY <2>4, MoveFutureInv, AssignFutureInv
  <2> HIDE DEF IInv
  <2> QED
    BY <1>2, <2>1, <2>2, <2>3, <2>4 DEF FutureStep
<1>3. CASE UNCHANGED vars
  BY <1>3, SMT DEF vars
<1> HIDE DEF IInv
<1> QED
  BY <1>1, <1>2, <1>3 DEF Next

(***************************************************************************)
(* A set whose members are all equal has the cardinality Present gives it. *)
(***************************************************************************)
LEMMA CardinalityOfOwners ==
  ASSUME NEW S, \A a, b \in S : a = b
  PROVE  Cardinality(S) = Present(S)
<1>1. CASE S = {}
  BY <1>1, FS_EmptySet DEF Present
<1>2. CASE S # {}
  <2>1. PICK a \in S : TRUE
    BY <1>2
  <2>2. S = {a}
    BY <2>1
  <2>3. Cardinality({a}) = 1
    BY FS_Singleton
  <2> QED
    BY <1>2, <2>2, <2>3 DEF Present
<1> QED
  BY <1>1, <1>2

(* The count by presence is the count RefCountExact states.                *)
LEMMA CountIsExact == IInv => RefCountExact
<1> SUFFICES ASSUME IInv, NEW s \in States
             PROVE  /\ refCnt[s] = Cardinality(PromisesOf(s)) + Cardinality(FuturesOf(s))
                    /\ (mode[s] = "free") <=> (refCnt[s] = 0)
  BY DEF RefCountExact
<1>1. /\ \A p, q \in PromisesOf(s) : p = q
      /\ \A f, g \in FuturesOf(s) : f = g
  BY DEF IInv, OneOwnerPerSide
<1> HIDE DEF PromisesOf, FuturesOf, Present
<1>2. /\ Cardinality(PromisesOf(s)) = Present(PromisesOf(s))
      /\ Cardinality(FuturesOf(s)) = Present(FuturesOf(s))
  BY <1>1, CardinalityOfOwners
<1> QED
  BY <1>2 DEF IInv, CountByPresence

-----------------------------------------------------------------------------
(* The inductive invariant holds in every reachable state.                 *)
THEOREM Invariance == Spec => []IInv
<1> HIDE DEF IInv
<1> QED
  BY InitInv, StepInv, PTL DEF Spec

(* Every variable keeps its C++ type.                                      *)
THEOREM TypeCorrectness == Spec => []TypeOK
<1>1. IInv => TypeOK
  BY DEF IInv
<1> HIDE DEF IInv, TypeOK
<1> QED
  BY <1>1, Invariance, PTL

(* However promises and futures are created, moved and destroyed, ref_cnt  *)
(* is the number of objects that point to the State, and the State is      *)
(* deleted with the last of them (intrusive_ptr_release).                  *)
THEOREM ReferenceCounting == Spec => []RefCountExact
<1> HIDE DEF IInv, RefCountExact
<1> QED
  BY CountIsExact, Invariance, PTL

(* No State ever has two promises or two futures (get_future).             *)
THEOREM SingleOwners == Spec => []OneOwnerPerSide
<1>1. IInv => OneOwnerPerSide
  BY DEF IInv
<1> HIDE DEF IInv, OneOwnerPerSide
<1> QED
  BY <1>1, Invariance, PTL

(* No future is left pending without a promise to complete it (~Promise).  *)
THEOREM NobodyIsLeftBehind == Spec => []PendingHasProducer
<1>1. IInv => PendingHasProducer
  BY DEF IInv
<1> HIDE DEF IInv, PendingHasProducer
<1> QED
  BY <1>1, Invariance, PTL

-----------------------------------------------------------------------------
(* A result is never replaced (set and set_exception throw instead), and   *)
(* goes away only with the last object that points to it.                  *)
LEMMA StepKeepsResults == IInv /\ IInv' /\ [Next]_vars => [KeepsResults]_vars
<1> SUFFICES ASSUME IInv, IInv', Next PROVE KeepsResults
  OBVIOUS
<1>1. ASSUME NEW p \in Promises, PromiseStep(p) PROVE KeepsResults
  <2>1. CASE \/ NewPromise(p) \/ SetNullException(p)
             \/ \E q \in Promises : MovePromise(p, q) \/ AssignPromise(p, q)
    BY <2>1, SMT DEF KeepsResults, NewPromise, SetNullException, MovePromise, AssignPromise
  <2>2. CASE DestroyPromise(p)
    BY <2>2, SMT DEF KeepsResults, DestroyPromise, ReleasePromise
  <2>3. ASSUME NEW m \in {"value", "error"}, Set(p, m) PROVE KeepsResults
    BY <2>3, SMT DEF KeepsResults, Set, Allocate
  <2>4. ASSUME NEW f \in Futures, GetFuture(p, f) PROVE KeepsResults
    BY <2>4, SMT DEF KeepsResults, GetFuture, Allocate
  <2> HIDE DEF IInv
  <2> QED
    BY <1>1, <2>1, <2>2, <2>3, <2>4 DEF PromiseStep
<1>2. ASSUME NEW f \in Futures, FutureStep(f) PROVE KeepsResults
  <2>1. CASE Get(f)
    BY <2>1, SMT DEF KeepsResults, Get
  <2>2. CASE DestroyFuture(f)
    BY <2>2, SMT DEF KeepsResults, DestroyFuture, Release
  <2>3. ASSUME NEW m \in {"value", "error"}, MakeFuture(f, m) PROVE KeepsResults
    BY <2>3, SMT DEF KeepsResults, MakeFuture, Allocate
  <2>4. ASSUME NEW g \in Futures, MoveFuture(f, g) \/ AssignFuture(f, g)
        PROVE  KeepsResults
    BY <2>4, SMT DEF KeepsResults, MoveFuture, AssignFuture, Release
  <2> HIDE DEF IInv
  <2> QED
    BY <1>2, <2>1, <2>2, <2>3, <2>4 DEF FutureStep
<1> QED
  BY <1>1, <1>2 DEF Next

(* A result is final while its State lives.                                *)
THEOREM ResultsAreFinal == Spec => ResultIsFinal
<1> HIDE DEF IInv, KeepsResults
<1> QED
  BY InitInv, StepInv, StepKeepsResults, PTL DEF Spec, ResultIsFinal

(* get_future's count test refuses a second future only: dropping the      *)
(* first one makes the promise usable again.                               *)
THEOREM RefusalsAreJustified == Spec => RefusalIsJustified
<1>1. ASSUME IInv, NEW p \in Promises, NEW f \in Futures,
             GetFuture(p, f), thrown' = "already_retrived"
      PROVE  FuturesOf(promise[p]) # {}
  BY <1>1, SMT DEF GetFuture, Allocate
<1>2. IInv => \A p \in Promises, f \in Futures :
                GetFuture(p, f) /\ thrown' = "already_retrived"
                  => FuturesOf(promise[p]) # {}
  BY <1>1
<1> HIDE DEF IInv, FuturesOf
<1> QED
  BY <1>2, InitInv, StepInv, PTL DEF Spec, RefusalIsJustified
=============================================================================
