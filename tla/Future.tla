------------------------------- MODULE Future -------------------------------
(***************************************************************************)
(* Promise<Data>, Future<Data> and the heap-allocated State<Data> the two  *)
(* share through boost::intrusive_ptr (lib/reactor/future.hh).             *)
(*                                                                         *)
(* A Promise or Future object is a name in Promises or Futures.  Its only  *)
(* member is an intrusive pointer, so the object is Unborn (outside its    *)
(* lifetime), Null (alive, state == nullptr: default-constructed or moved  *)
(* from) or the State it points to.  A State is an address in States; an   *)
(* address that was deleted may be allocated again, so a pointer that      *)
(* outlives its State would be seen pointing to another one's.             *)
(*                                                                         *)
(* Any sequence of calls a client may make on live objects is a behaviour; *)
(* the one operation left to FutureMoveAssign is Promise::operator= onto a *)
(* promise that already has a State.  Calls through a Null future are      *)
(* undefined and are not made.                                             *)
(***************************************************************************)
EXTENDS Naturals, FiniteSets

CONSTANTS Promises, Futures,   \* names of the client's objects
          States,              \* addresses operator new can return
          Null, Unborn

ASSUME PointerAssumption == /\ Null \notin States
                            /\ Unborn \notin States
                            /\ Null # Unborn

VARIABLES mode,      \* what each State holds
          refCnt,    \* State::ref_cnt
          promise,   \* Promise::state
          future,    \* Future::state
          thrown     \* the exception the last call threw, or "none"

vars == <<mode, refCnt, promise, future, thrown>>

Pointer == States \cup {Null, Unborn}

(***************************************************************************)
(* Mode::empty, Mode::data and Mode::exception, with what the bytes hold:  *)
(* data is a value or a moved-from value, an exception is the one the      *)
(* producer set or BrokenPromise.  "free" is an address not allocated.     *)
(***************************************************************************)
Ready == {"value", "moved", "error", "broken"}
Mode  == {"free", "empty"} \cup Ready

Exceptions == {"none", "already_retrived", "already_satisfied", "not_ready",
               "broken_promise", "invalid_argument", "user_error"}

Init == /\ mode    = [s \in States |-> "free"]
        /\ refCnt  = [s \in States |-> 0]
        /\ promise = [p \in Promises |-> Unborn]
        /\ future  = [f \in Futures |-> Unborn]
        /\ thrown  = "none"

-----------------------------------------------------------------------------
(* The shared State: operator new and intrusive_ptr_release.               *)

\* new State(...) of the given mode, referenced by refs intrusive pointers.
Allocate(s, m, refs) == /\ mode[s] = "free"
                        /\ mode'   = [mode EXCEPT ![s] = m]
                        /\ refCnt' = [refCnt EXCEPT ![s] = refs]

\* One intrusive pointer to s goes away; the last one deletes the State.
Release(s) == /\ refCnt' = [refCnt EXCEPT ![s] = @ - 1]
              /\ mode' = [mode EXCEPT ![s] = IF refCnt[s] = 1 THEN "free" ELSE @]

\* Mutant of ReleasePromise: ~Promise = default.
ReleaseSilently(s) == Release(s)

\* ~Promise: a future still waiting gets BrokenPromise, then the release.
ReleasePromise(s) ==
  /\ refCnt' = [refCnt EXCEPT ![s] = @ - 1]
  /\ mode' = [mode EXCEPT ![s] = CASE refCnt[s] = 1 -> "free"
                                   [] refCnt[s] > 1 /\ @ = "empty" -> "broken"
                                   [] OTHER -> @]

-----------------------------------------------------------------------------
(* Promise                                                                 *)

NewPromise(p) == /\ promise[p] = Unborn
                 /\ promise' = [promise EXCEPT ![p] = Null]
                 /\ thrown' = "none"
                 /\ UNCHANGED <<mode, refCnt, future>>

\* Mutant of GetFuture: the reference count is not looked at.
GetFutureUnchecked(p, f) ==
  /\ promise[p] \in States
  /\ future[f] = Unborn
  /\ refCnt' = [refCnt EXCEPT ![promise[p]] = @ + 1]
  /\ future' = [future EXCEPT ![f] = promise[p]]
  /\ thrown' = "none"
  /\ UNCHANGED <<mode, promise>>

\* get_future: a second future is refused as long as the first one lives.
GetFuture(p, f) ==
  /\ promise[p] # Unborn
  /\ future[f] = Unborn
  /\ \/ /\ promise[p] = Null
        /\ \E s \in States : /\ Allocate(s, "empty", 2)
                             /\ promise' = [promise EXCEPT ![p] = s]
                             /\ future'  = [future EXCEPT ![f] = s]
        /\ thrown' = "none"
     \/ /\ promise[p] \in States
        /\ refCnt[promise[p]] <= 1
        /\ refCnt' = [refCnt EXCEPT ![promise[p]] = @ + 1]
        /\ future' = [future EXCEPT ![f] = promise[p]]
        /\ thrown' = "none"
        /\ UNCHANGED <<mode, promise>>
     \/ /\ promise[p] \in States
        /\ refCnt[promise[p]] > 1
        /\ thrown' = "already_retrived"
        /\ UNCHANGED <<mode, refCnt, promise, future>>

\* Mutant of Set: a State that is ready is set again.
SetAgain(p, m) ==
  /\ promise[p] \in States
  /\ mode' = [mode EXCEPT ![promise[p]] = m]
  /\ thrown' = "none"
  /\ UNCHANGED <<refCnt, promise, future>>

\* set(args...) with m = "value" and set_exception(exc) with m = "error".
Set(p, m) ==
  /\ promise[p] # Unborn
  /\ \/ /\ promise[p] = Null
        /\ \E s \in States : /\ Allocate(s, m, 1)
                             /\ promise' = [promise EXCEPT ![p] = s]
        /\ thrown' = "none"
     \/ /\ promise[p] \in States
        /\ mode[promise[p]] = "empty"
        /\ mode' = [mode EXCEPT ![promise[p]] = m]
        /\ thrown' = "none"
        /\ UNCHANGED <<refCnt, promise>>
     \/ /\ promise[p] \in States
        /\ mode[promise[p]] \in Ready
        /\ thrown' = "already_satisfied"
        /\ UNCHANGED <<mode, refCnt, promise>>
  /\ UNCHANGED future

\* set_exception(nullptr) is refused before the State is looked at.
SetNullException(p) == /\ promise[p] # Unborn
                       /\ thrown' = "invalid_argument"
                       /\ UNCHANGED <<mode, refCnt, promise, future>>

\* Mutant of MovePromise: the source keeps its pointer (a bitwise copy).
CopyPromise(p, q) ==
  /\ promise[p] # Unborn
  /\ promise[q] = Unborn
  /\ promise' = [promise EXCEPT ![q] = promise[p]]
  /\ thrown' = "none"
  /\ UNCHANGED <<mode, refCnt, future>>

\* Promise(Promise&&): q is constructed from p.
MovePromise(p, q) ==
  /\ promise[p] # Unborn
  /\ promise[q] = Unborn
  /\ promise' = [promise EXCEPT ![p] = Null, ![q] = promise[p]]
  /\ thrown' = "none"
  /\ UNCHANGED <<mode, refCnt, future>>

\* q = std::move(p) where q has no State yet: ~Promise finds nothing to do.
AssignPromise(p, q) ==
  /\ promise[p] # Unborn
  /\ promise[q] = Null
  /\ p # q
  /\ promise' = [promise EXCEPT ![p] = Null, ![q] = promise[p]]
  /\ thrown' = "none"
  /\ UNCHANGED <<mode, refCnt, future>>

DestroyPromise(p) ==
  /\ promise[p] # Unborn
  /\ IF promise[p] = Null THEN UNCHANGED <<mode, refCnt>>
                          ELSE ReleasePromise(promise[p])
  /\ promise' = [promise EXCEPT ![p] = Unborn]
  /\ thrown' = "none"
  /\ UNCHANGED future

-----------------------------------------------------------------------------
(* Future                                                                  *)

\* make_ready_future (m = "value") and make_exception_future (m = "error").
MakeFuture(f, m) ==
  /\ future[f] = Unborn
  /\ \E s \in States : /\ Allocate(s, m, 1)
                       /\ future' = [future EXCEPT ![f] = s]
  /\ thrown' = "none"
  /\ UNCHANGED promise

\* get: data is moved out and the mode stays data; the rest throws.
Get(f) ==
  /\ future[f] \in States
  /\ mode' = [mode EXCEPT ![future[f]] = IF @ = "value" THEN "moved" ELSE @]
  /\ thrown' = CASE mode[future[f]] = "empty"  -> "not_ready"
                 [] mode[future[f]] = "error"  -> "user_error"
                 [] mode[future[f]] = "broken" -> "broken_promise"
                 [] OTHER -> "none"
  /\ UNCHANGED <<refCnt, promise, future>>

\* Future(Future&&): g is constructed from f.
MoveFuture(f, g) ==
  /\ future[f] # Unborn
  /\ future[g] = Unborn
  /\ future' = [future EXCEPT ![f] = Null, ![g] = future[f]]
  /\ thrown' = "none"
  /\ UNCHANGED <<mode, refCnt, promise>>

\* Mutant of AssignFuture: the pointer is overwritten and nothing released.
OverwriteFuture(f, g) ==
  /\ future[f] # Unborn
  /\ future[g] # Unborn
  /\ future[f] # future[g]
  /\ future' = [future EXCEPT ![f] = Null, ![g] = future[f]]
  /\ thrown' = "none"
  /\ UNCHANGED <<mode, refCnt, promise>>

\* g = std::move(f), skipped when both already point to the same State.
AssignFuture(f, g) ==
  /\ future[f] # Unborn
  /\ future[g] # Unborn
  /\ future[f] # future[g]
  /\ IF future[g] = Null THEN UNCHANGED <<mode, refCnt>> ELSE Release(future[g])
  /\ future' = [future EXCEPT ![f] = Null, ![g] = future[f]]
  /\ thrown' = "none"
  /\ UNCHANGED promise

DestroyFuture(f) ==
  /\ future[f] # Unborn
  /\ IF future[f] = Null THEN UNCHANGED <<mode, refCnt>> ELSE Release(future[f])
  /\ future' = [future EXCEPT ![f] = Unborn]
  /\ thrown' = "none"
  /\ UNCHANGED promise

-----------------------------------------------------------------------------
PromiseStep(p) ==
  \/ NewPromise(p) \/ SetNullException(p) \/ DestroyPromise(p)
  \/ \E m \in {"value", "error"} : Set(p, m)
  \/ \E f \in Futures : GetFuture(p, f)
  \/ \E q \in Promises : MovePromise(p, q) \/ AssignPromise(p, q)

FutureStep(f) ==
  \/ Get(f) \/ DestroyFuture(f)
  \/ \E m \in {"value", "error"} : MakeFuture(f, m)
  \/ \E g \in Futures : MoveFuture(f, g) \/ AssignFuture(f, g)

Next == \/ \E p \in Promises : PromiseStep(p)
        \/ \E f \in Futures : FutureStep(f)

Spec == Init /\ [][Next]_vars

-----------------------------------------------------------------------------
(* Properties                                                              *)

\* Every variable holds a value of its C++ type.
TypeOK == /\ mode    \in [States -> Mode]
          /\ refCnt  \in [States -> Nat]
          /\ promise \in [Promises -> Pointer]
          /\ future  \in [Futures -> Pointer]
          /\ thrown  \in Exceptions

PromisesOf(s) == {p \in Promises : promise[p] = s}
FuturesOf(s)  == {f \in Futures : future[f] = s}

(***************************************************************************)
(* State::ref_cnt counts the objects that point to the State, over every   *)
(* sequence of constructions, moves and destructions, and the State is     *)
(* deleted exactly when the last of them goes: no object ever points to a  *)
(* deleted State and no State is leaked.                                   *)
(***************************************************************************)
RefCountExact ==
  \A s \in States :
    /\ refCnt[s] = Cardinality(PromisesOf(s)) + Cardinality(FuturesOf(s))
    /\ (mode[s] = "free") <=> (refCnt[s] = 0)

(***************************************************************************)
(* One producer and one consumer per State: the test ref_cnt > 1 in        *)
(* get_future, which only looks at a count, is enough to keep a promise    *)
(* from ever having two futures.                                           *)
(***************************************************************************)
OneOwnerPerSide ==
  \A s \in States : /\ \A p, q \in PromisesOf(s) : p = q
                    /\ \A f, g \in FuturesOf(s) : f = g

(***************************************************************************)
(* A future that is still pending has a promise that can complete it, so   *)
(* whoever waits for it is never left behind: a promise that goes away     *)
(* unsatisfied turns it into BrokenPromise (~Promise).                     *)
(***************************************************************************)
PendingHasProducer ==
  \A f \in Futures :
    future[f] \in States /\ mode[future[f]] = "empty"
      => PromisesOf(future[f]) # {}

(***************************************************************************)
(* A result is final: while a State lives, it is completed at most once,   *)
(* and the only change after that is get() moving the value out.           *)
(***************************************************************************)
KeepsResults ==
  \A s \in States : mode[s] \in Ready =>
    \/ mode'[s] = mode[s]
    \/ mode[s] = "value" /\ mode'[s] = "moved"
    \/ mode'[s] = "free" /\ PromisesOf(s)' = {} /\ FuturesOf(s)' = {}

ResultIsFinal == [][KeepsResults]_vars

(***************************************************************************)
(* get_future throws FutureAlreadyRetrived only when some live future      *)
(* does point to the promise's State: dropping the future (also by moving  *)
(* another one over it) makes the promise usable again.                    *)
(***************************************************************************)
RefusalIsJustified ==
  [][\A p \in Promises, f \in Futures :
       GetFuture(p, f) /\ thrown' = "already_retrived"
         => FuturesOf(promise[p]) # {}]_vars

=============================================================================
