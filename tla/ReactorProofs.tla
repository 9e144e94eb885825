---------------------------- MODULE ReactorProofs ----------------------------
(***************************************************************************)
(* The composition of the routine table with the Defers it hands out is    *)
(* safe for every id range and any number of registrations, functions and  *)
(* objects.  Each component keeps its own invariant, and Linked ties them: *)
(* a registration has its id for as long as its Defer has not run.         *)
(***************************************************************************)
EXTENDS Reactor, FiniteSetTheorems, TLAPS

-----------------------------------------------------------------------------
(***************************************************************************)
(* The table on its own: it only holds routines whose handle is alive, and *)
(* keeps one until its handle removes it if no other was given its id, for *)
(* every width of the id counter and any number of registrations.          *)
(***************************************************************************)
(* Some id is always free, so the assertion of the probing loop does not   *)
(* fail.  That is so only because the loop stores next to the id it found  *)
(* free, if need be over another routine.                                  *)
SomeIdIsFree == \E i \in Ids : routines[i] = None

(* A registration that shares its id with no other is at it in the table.  *)
UnsharedStay ==
  \A r \in Regs \ sharing : handle[r] # None =>
    /\ routines[handle[r]] = r
    /\ \A q \in Regs : handle[q] = handle[r] => q = r

IInv == /\ TypeOK
        /\ RoutinesAreOwned
        /\ UnsharedStay
        /\ SomeIdIsFree
        /\ ~panicked

LEMMA InitInv == Init => IInv
<1> SUFFICES ASSUME Init PROVE IInv
  OBVIOUS
<1>1. 0 \in Ids
  BY IdRangeAssumption, SMT DEF Ids
<1>2. SomeIdIsFree
  BY <1>1 DEF Init, SomeIdIsFree
<1>3. TypeOK /\ RoutinesAreOwned /\ UnsharedStay /\ ~panicked
  BY DEF Init, TypeOK, RoutinesAreOwned, UnsharedStay
<1> QED
  BY <1>2, <1>3 DEF IInv

(* Neighbours modulo IdRange are different: otherwise IdRange would divide *)
(* their difference, which is one.                                         *)
LEMMA NeighboursDiffer ==
  ASSUME NEW n \in Nat
  PROVE  /\ n % IdRange \in Ids
         /\ (n + 1) % IdRange # n % IdRange
<1>1. /\ n % IdRange \in Ids
      /\ n \div IdRange \in Int
      /\ n = IdRange * (n \div IdRange) + (n % IdRange)
  BY IdRangeAssumption, SMT DEF Ids
<1>2. /\ (n + 1) \div IdRange \in Int
      /\ n + 1 = IdRange * ((n + 1) \div IdRange) + ((n + 1) % IdRange)
  BY IdRangeAssumption, SMT
<1>3. ASSUME NEW p \in Int, NEW q \in Int, NEW r \in Ids,
             n = IdRange * q + r, n + 1 = IdRange * p + r
      PROVE  FALSE
  <2>1. IdRange * (p - q) = 1
    BY <1>3, IdRangeAssumption, SMT DEF Ids
  <2>2. p - q < 1
    BY <2>1, IdRangeAssumption, SMT
  <2>3. p - q > 0
    BY <2>1, IdRangeAssumption, SMT
  <2> QED
    BY <2>2, <2>3, SMT
<1> QED
  BY <1>1, <1>2, <1>3

(* The id add_routine stores at is not the one it has found free.          *)
LEMMA NextIdIsNotTheProbe ==
  ASSUME NEW start \in Nat, NEW k \in Nat
  PROVE  /\ (start + k) % IdRange \in Ids
         /\ NextId(start, k) \in Ids
         /\ NextId(start, k) # (start + k) % IdRange
<1>1. start + k \in Nat /\ (start + k) + 1 \in Nat
  OBVIOUS
<1> QED
  BY <1>1, NeighboursDiffer DEF NextId

LEMMA SizeIsNat == TypeOK => Size \in Nat
<1>1. IsFiniteSet(Ids)
  BY FS_Interval, IdRangeAssumption DEF Ids
<1>2. IsFiniteSet({i \in Ids : Count(i)})
  BY <1>1, FS_Subset
<1> QED
  BY <1>2, FS_CardinalityType DEF Size

LEMMA AddRoutineInv ==
  ASSUME IInv, NEW r \in Regs, AddRoutine(r) PROVE IInv'
<1> DEFINE start == Size % IdRange
<1>1. start \in Nat
  <2>1. Size \in Nat
    BY SizeIsNat DEF IInv
  <2> QED
    BY <2>1, IdRangeAssumption, SMT
<1>2. ASSUME NEW k \in Ids,
             ~Count((start + k) % IdRange),
             routines' = [routines EXCEPT ![NextId(start, k)] = r],
             handle'   = [handle EXCEPT ![r] = NextId(start, k)],
             sharing'  = IF Holders(NextId(start, k)) = {} THEN sharing
                         ELSE sharing \cup Holders(NextId(start, k)) \cup {r},
             panicked' = panicked
      PROVE  IInv'
  <2>1. k \in Nat
    BY IdRangeAssumption DEF Ids
  <2> DEFINE probe == (start + k) % IdRange
             id    == NextId(start, k)
  <2>2. probe \in Ids /\ id \in Ids /\ id # probe
    BY <1>1, <2>1, NextIdIsNotTheProbe
  <2>3. routines[probe] = None
    BY <1>2 DEF Count
  <2> HIDE DEF probe, id
  <2>4. TypeOK'
    BY <1>2, <2>2, SMT DEF IInv, TypeOK, Holders, id
  <2>5. SomeIdIsFree'
    BY <1>2, <2>2, <2>3, SMT DEF IInv, TypeOK, SomeIdIsFree, id
  <2>6. handle[r] = None
    BY DEF AddRoutine
  <2>7. None \notin Ids
    BY NoneAssumption, IdRangeAssumption DEF Ids
  <2>8. RoutinesAreOwned'
    BY <1>2, <2>2, <2>6, <2>7, SMT DEF IInv, TypeOK, RoutinesAreOwned, id
  <2>9. UnsharedStay'
    <3>1. /\ routines'[id] = r /\ \A i \in Ids : i # id => routines'[i] = routines[i]
          /\ handle'[r] = id   /\ \A q \in Regs : q # r => handle'[q] = handle[q]
      BY <1>2, <2>2 DEF IInv, TypeOK, id
    <3>2. ASSUME NEW q \in Regs \ sharing', q # r
          PROVE  q \notin sharing /\ handle[q] # id
      BY <1>2, <3>2 DEF Holders, id
    <3>3. r \notin sharing' => \A q \in Regs : handle[q] # id
      BY <1>2 DEF Holders, id
    <3>4. \A q \in Regs : handle[q] # None => handle[q] \in Ids
      BY DEF IInv, TypeOK
    <3>. QED BY <2>6, <3>1, <3>2, <3>3, <3>4 DEF IInv, UnsharedStay
  <2> QED
    BY <1>2, <2>4, <2>5, <2>8, <2>9 DEF IInv
<1>3. ~ \A i \in Ids : Count(i)
  BY DEF IInv, SomeIdIsFree, Count
<1> HIDE DEF IInv
<1> QED
  BY <1>2, <1>3 DEF AddRoutine

LEMMA RemoveRoutineInv ==
  ASSUME IInv, NEW r \in Regs, RemoveRoutine(r) PROVE IInv'
<1>1. TypeOK' /\ RoutinesAreOwned' /\ SomeIdIsFree' /\ ~panicked'
  BY NoneAssumption, SMT DEF IInv, TypeOK, RoutinesAreOwned, SomeIdIsFree, RemoveRoutine
<1>2. UnsharedStay'
  <2>1. /\ handle[r] # None /\ handle'[r] = None /\ routines'[handle[r]] = None
        /\ \A i \in Ids : i # handle[r] => routines'[i] = routines[i]
        /\ \A q \in Regs : q # r => handle'[q] = handle[q]
        /\ \A q \in Regs \ sharing' : q # r => q \notin sharing
        /\ \A q \in Regs : handle[q] # None => handle[q] \in Ids
    BY DEF IInv, TypeOK, RemoveRoutine
  <2>. QED BY <2>1 DEF IInv, UnsharedStay
<1>. QED BY <1>1, <1>2 DEF IInv

LEMMA StepInv == IInv /\ [Next]_vars => IInv'
<1>1. IInv /\ UNCHANGED vars => IInv'
  BY DEF IInv, TypeOK, RoutinesAreOwned, UnsharedStay, SomeIdIsFree, vars
<1> QED
  BY <1>1, AddRoutineInv, RemoveRoutineInv DEF Next

-----------------------------------------------------------------------------
(* The inductive invariant holds in every reachable state.                 *)
THEOREM Invariance == Spec => []IInv
BY InitInv, StepInv, PTL DEF Spec

(* The type invariant, for every id range and set of registrations.        *)
THEOREM TypeCorrectness == Spec => []TypeOK
<1>1. IInv => TypeOK
  BY DEF IInv
<1> QED
  BY <1>1, Invariance, PTL

(* The table only holds routines of live handles.                          *)
THEOREM OnlyOwnedRoutines == Spec => []RoutinesAreOwned
<1>1. IInv => RoutinesAreOwned
  BY DEF IInv
<1> QED
  BY <1>1, Invariance, PTL

(* So once every handle is gone, ~Reactor finds the table empty.           *)
THEOREM EmptyWhenReleased ==
  Spec => []((\A r \in Regs : handle[r] = None) => (\A i \in Ids : routines[i] = None))
<1>1. IInv => ((\A r \in Regs : handle[r] = None) => (\A i \in Ids : routines[i] = None))
  BY NoneAssumption DEF IInv, TypeOK, RoutinesAreOwned, Ids
<1> QED
  BY <1>1, Invariance, PTL

-----------------------------------------------------------------------------
(***************************************************************************)
(* The Defers on their own: every function given to one runs at most once  *)
(* and is never lost.  The three parts of the invariant need one another:  *)
(* that a live object's function is "armed" is what lets its destruction   *)
(* run it, and that no other object holds it is what keeps the rest right  *)
(* afterwards.  Regs and Others being any two sets, these are the          *)
(* functions of any program.                                               *)
(***************************************************************************)
DInv == D!TypeOK /\ D!RunsOnce /\ D!HeldByOne

USE DEF D!Slots, D!Empty, D!Objects, D!Holds

LEMMA NoneIsNoFunction == None \notin Regs \cup Others
BY NoneAssumption, DefersAssumption

(***************************************************************************)
(* What a move leaves behind would run nothing.                            *)
(***************************************************************************)
LEMMA MovedFromIsDead ==
  ASSUME D!TypeOK, NEW t \in D!Slots
  PROVE  /\ D!MovedFrom(t) \in D!Objects
         /\ D!MovedFrom(t).cancelled
         /\ D!MovedFrom(t).func = None => D!MovedFrom(t) = D!Empty
         /\ D!MovedFrom(t).func \in {slot[t].func, None}
BY DEF D!TypeOK, D!MovedFrom

(***************************************************************************)
(* A live object in an inductive state holds a function that is armed.     *)
(***************************************************************************)
LEMMA LiveIsArmed ==
  ASSUME DInv, NEW s \in D!Slots, ~slot[s].cancelled
  PROVE  /\ slot[s].func \in Regs \cup Others
         /\ fate[slot[s].func] = "armed"
BY NoneIsNoFunction DEF DInv, D!TypeOK, D!HeldByOne

(***************************************************************************)
(* Nothing has been made in the initial state.                             *)
(***************************************************************************)
LEMMA DeferInitInv == ASSUME D!Init PROVE DInv
BY NoneIsNoFunction DEF D!Init, DInv, D!TypeOK, D!RunsOnce, D!HeldByOne

(***************************************************************************)
(* A new function has one object, the one it was made in.                  *)
(***************************************************************************)
LEMMA MakeInvariant ==
  ASSUME DInv, NEW f \in Regs \cup Others, NEW s \in D!Slots, D!Make(f, s)
  PROVE  DInv'
<1>1. D!TypeOK'
  BY NoneIsNoFunction DEF DInv, D!TypeOK, D!Make
<1>2. D!RunsOnce'
  BY NoneIsNoFunction DEF DInv, D!TypeOK, D!RunsOnce, D!Make
<1>3. D!HeldByOne'
  BY NoneIsNoFunction DEF DInv, D!TypeOK, D!HeldByOne, D!Make
<1>. QED BY <1>1, <1>2, <1>3 DEF DInv

(***************************************************************************)
(* An object that takes what another has is the only one that holds it.    *)
(***************************************************************************)
LEMMA ConstructInvariant ==
  ASSUME DInv, NEW s \in D!Slots, NEW t \in D!Slots, D!Construct(s, t)
  PROVE  DInv'
<1>0. s # t
  BY DEF D!Construct
<1>1. D!TypeOK'
  BY MovedFromIsDead DEF DInv, D!TypeOK, D!Construct
<1>2. D!RunsOnce'
  BY DEF DInv, D!RunsOnce, D!Construct
<1>3. D!HeldByOne'
  <2>1. /\ slot'[s] = slot[t] /\ slot'[t] = D!MovedFrom(t) /\ slot[s].cancelled
        /\ \A u \in D!Slots \ {s, t} : slot'[u] = slot[u]
    BY <1>0 DEF D!Construct, DInv, D!TypeOK
  <2>2. ASSUME NEW f \in Regs \cup Others
        PROVE  /\ D!Holds(s, f)' <=> D!Holds(t, f)
               /\ ~D!Holds(t, f)'
               /\ ~D!Holds(s, f)
               /\ \A u \in D!Slots \ {s, t} : D!Holds(u, f)' <=> D!Holds(u, f)
    BY <2>1, MovedFromIsDead DEF DInv
  <2>3. UNCHANGED fate
    BY DEF D!Construct
  <2>4. ASSUME NEW f \in Regs \cup Others
        PROVE  /\ (\E u \in D!Slots : D!Holds(u, f))' <=> (\E u \in D!Slots : D!Holds(u, f))
               /\ \A u, v \in D!Slots : D!Holds(u, f)' /\ D!Holds(v, f)' => u = v
    BY <1>0, <2>2 DEF DInv, D!HeldByOne
  <2>. QED BY <2>3, <2>4 DEF DInv, D!HeldByOne
<1>. QED BY <1>1, <1>2, <1>3 DEF DInv

(***************************************************************************)
(* A function moved out of an Impl is no longer run by it.                 *)
(***************************************************************************)
LEMMA MoveOutInvariant ==
  ASSUME DInv, NEW s \in D!Slots, NEW t \in D!Slots, D!MoveOut(s, t)
  PROVE  DInv'
<1>0. s # t
  BY DEF D!MoveOut
<1>1. D!TypeOK'
  BY DEF DInv, D!TypeOK, D!MoveOut
<1>2. D!RunsOnce'
  BY DEF DInv, D!RunsOnce, D!MoveOut
<1>3. D!HeldByOne'
  <2>1. /\ slot'[s] = slot[t] /\ slot'[t].cancelled /\ slot[s].cancelled
        /\ \A u \in D!Slots \ {s, t} : slot'[u] = slot[u]
    BY <1>0 DEF D!MoveOut, DInv, D!TypeOK
  <2>2. ASSUME NEW f \in Regs \cup Others
        PROVE  /\ D!Holds(s, f)' <=> D!Holds(t, f)
               /\ ~D!Holds(t, f)'
               /\ ~D!Holds(s, f)
               /\ \A u \in D!Slots \ {s, t} : D!Holds(u, f)' <=> D!Holds(u, f)
    BY <2>1 DEF DInv
  <2>3. UNCHANGED fate
    BY DEF D!MoveOut
  <2>4. ASSUME NEW f \in Regs \cup Others
        PROVE  /\ (\E u \in D!Slots : D!Holds(u, f))' <=> (\E u \in D!Slots : D!Holds(u, f))
               /\ \A u, v \in D!Slots : D!Holds(u, f)' /\ D!Holds(v, f)' => u = v
    BY <1>0, <2>2 DEF DInv, D!HeldByOne
  <2>. QED BY <2>3, <2>4 DEF DInv, D!HeldByOne
<1>. QED BY <1>1, <1>2, <1>3 DEF DInv

(***************************************************************************)
(* An object that goes takes its function with it, which has then run.     *)
(***************************************************************************)
LEMMA RunByInvariant ==
  ASSUME DInv, NEW s \in D!Slots, D!RunBy(slot[s])
  PROVE  /\ fate' \in [Regs \cup Others -> {"unmade", "armed", "ran", "cancelled", "wrong"}]
         /\ D!RunsOnce'
         /\ \A f \in Regs \cup Others : fate'[f] = "armed" <=> fate[f] = "armed" /\ ~D!Holds(s, f)
<1>1. CASE slot[s].cancelled
  BY <1>1 DEF DInv, D!TypeOK, D!RunsOnce, D!RunBy
<1>2. CASE ~slot[s].cancelled
  BY <1>2, LiveIsArmed DEF DInv, D!TypeOK, D!RunsOnce, D!RunBy
<1>. QED BY <1>1, <1>2

(***************************************************************************)
(* An assignment runs what it replaces, then moves.                        *)
(***************************************************************************)
LEMMA AssignInvariant ==
  ASSUME DInv, NEW s \in D!Slots, NEW t \in D!Slots, D!Assign(s, t)
  PROVE  DInv'
<1>0. s # t /\ D!RunBy(slot[s])
  BY DEF D!Assign
<1>1. D!TypeOK'
  BY <1>0, MovedFromIsDead, RunByInvariant DEF DInv, D!TypeOK, D!Assign
<1>2. D!RunsOnce'
  BY <1>0, RunByInvariant
<1>3. D!HeldByOne'
  <2>1. /\ slot'[s] = slot[t] /\ slot'[t] = D!MovedFrom(t)
        /\ \A u \in D!Slots \ {s, t} : slot'[u] = slot[u]
    BY <1>0 DEF D!Assign, DInv, D!TypeOK
  <2>. QED BY <1>0, <2>1, MovedFromIsDead, RunByInvariant DEF DInv, D!HeldByOne
<1>. QED BY <1>1, <1>2, <1>3 DEF DInv

(***************************************************************************)
(* The object in s is destroyed, and the slot is left empty.               *)
(***************************************************************************)
LEMMA DestroyInvariant ==
  ASSUME DInv, NEW s \in D!Slots,
         D!RunBy(slot[s]), slot' = [slot EXCEPT ![s] = D!Empty]
  PROVE  DInv'
<1>1. D!TypeOK'
  BY RunByInvariant DEF DInv, D!TypeOK
<1>2. D!RunsOnce'
  BY RunByInvariant
<1>3. D!HeldByOne'
  <2>1. ASSUME NEW f \in Regs \cup Others
        PROVE  /\ fate'[f] = "armed" <=> fate[f] = "armed" /\ ~D!Holds(s, f)
               /\ \A u \in D!Slots : D!Holds(u, f)' <=> u # s /\ D!Holds(u, f)
    BY RunByInvariant DEF DInv, D!TypeOK
  <2>. QED BY <2>1 DEF DInv, D!HeldByOne
<1>. QED BY <1>1, <1>2, <1>3 DEF DInv

(***************************************************************************)
(* A cancelled object no longer holds its function.                        *)
(***************************************************************************)
LEMMA CancelInvariant ==
  ASSUME DInv, NEW s \in D!Slots, D!Cancel(s)
  PROVE  DInv'
<1>1. D!TypeOK'
  BY NoneIsNoFunction DEF DInv, D!TypeOK, D!Cancel
<1>2. D!RunsOnce'
  BY LiveIsArmed DEF DInv, D!TypeOK, D!RunsOnce, D!Cancel
<1>3. D!HeldByOne'
  <2>1. ASSUME NEW f \in Regs \cup Others
        PROVE  /\ fate'[f] = "armed" <=> fate[f] = "armed" /\ ~D!Holds(s, f)
               /\ \A u \in D!Slots : D!Holds(u, f)' <=> u # s /\ D!Holds(u, f)
    BY LiveIsArmed DEF DInv, D!TypeOK, D!Cancel
  <2>. QED BY <2>1 DEF DInv, D!HeldByOne
<1>. QED BY <1>1, <1>2, <1>3 DEF DInv

(***************************************************************************)
(* The invariant is inductive: one step per operation.                     *)
(***************************************************************************)
LEMMA DeferStepInv ==
  ASSUME DInv, [D!Next]_(D!vars) PROVE DInv'
<1>1. ASSUME NEW f \in Regs \cup Others, NEW s \in D!Slots, D!Make(f, s) PROVE DInv'
  BY <1>1, MakeInvariant
<1>2. ASSUME NEW s \in D!Slots, NEW t \in D!Slots, D!Construct(s, t) PROVE DInv'
  BY <1>2, ConstructInvariant
<1>3. ASSUME NEW s \in D!Slots, NEW t \in D!Slots, D!Assign(s, t) PROVE DInv'
  BY <1>3, AssignInvariant
<1>4. ASSUME NEW s \in D!Slots, NEW t \in D!Slots, D!AssignNull(s, t) PROVE DInv'
  BY <1>4, DestroyInvariant DEF D!AssignNull
<1>5. ASSUME NEW s \in D!Slots, NEW t \in D!Slots, D!MoveOut(s, t) PROVE DInv'
  BY <1>5, MoveOutInvariant
<1>6. ASSUME NEW s \in D!Slots, D!Cancel(s) PROVE DInv'
  BY <1>6, CancelInvariant
<1>7. ASSUME NEW s \in D!Slots, D!Destroy(s) PROVE DInv'
  BY <1>7, DestroyInvariant DEF D!Destroy
<1>8. CASE UNCHANGED D!vars
  BY <1>8 DEF D!vars, DInv, D!TypeOK, D!RunsOnce, D!HeldByOne
<1>. QED BY <1>1, <1>2, <1>3, <1>4, <1>5, <1>6, <1>7, <1>8 DEF D!Next, D!Use

(***************************************************************************)
(* A function runs at most once and never after it was cancelled, and one  *)
(* that is neither run nor cancelled is held by exactly one object.        *)
(***************************************************************************)
THEOREM DefersAreSafe ==
  D!Spec => [](D!RunsOnce /\ D!HeldByOne)
<1>1. D!Init => DInv
  BY DeferInitInv
<1>2. DInv /\ [D!Next]_(D!vars) => DInv'
  BY DeferStepInv
<1>3. DInv => D!RunsOnce /\ D!HeldByOne
  BY DEF DInv
<1>. QED BY <1>1, <1>2, <1>3, PTL DEF D!Spec

HIDE DEF D!Slots, D!Empty, D!Objects, D!Holds

-----------------------------------------------------------------------------
(***************************************************************************)
(* The table and the Defers together                                       *)
(***************************************************************************)
Linked == \A r \in Regs : handle[r] # None <=> fate[r] \in {"armed", "cancelled"}

RInv == IInv /\ DInv /\ Linked

(***************************************************************************)
(* What clients do with their Defers changes the fate of one function at   *)
(* most, from armed to run or cancelled.                                   *)
(***************************************************************************)
LEMMA UseChangesOne ==
  ASSUME DInv, D!Use
  PROVE  \/ fate' = fate
         \/ \E f \in Regs \cup Others : /\ fate[f] = "armed"
                                        /\ \/ fate' = [fate EXCEPT ![f] = "ran"]
                                           \/ fate' = [fate EXCEPT ![f] = "cancelled"]
<1>1. \A s \in D!Slots : ~slot[s].cancelled => /\ slot[s].func \in Regs \cup Others
                                               /\ fate[slot[s].func] = "armed"
  BY LiveIsArmed
<1>2. ASSUME NEW s \in D!Slots, D!RunBy(slot[s])
      PROVE  \/ fate' = fate
             \/ \E f \in Regs \cup Others : /\ fate[f] = "armed"
                                            /\ fate' = [fate EXCEPT ![f] = "ran"]
  <2>1. CASE slot[s].cancelled
    BY <1>2, <2>1 DEF D!RunBy
  <2>2. CASE ~slot[s].cancelled
    BY <1>1, <1>2, <2>2 DEF D!RunBy, DInv, D!TypeOK
  <2>. QED BY <2>1, <2>2
<1>3. ASSUME NEW s \in D!Slots, D!Cancel(s)
      PROVE  \/ fate' = fate
             \/ \E f \in Regs \cup Others : /\ fate[f] = "armed"
                                            /\ fate' = [fate EXCEPT ![f] = "cancelled"]
  BY <1>1, <1>3 DEF D!Cancel
<1>. QED BY <1>2, <1>3 DEF D!Use, D!Destroy, D!Construct, D!Assign, D!AssignNull, D!MoveOut

(***************************************************************************)
(* The invariant holds at the start, when there is nothing.                *)
(***************************************************************************)
LEMMA ReactorInitInv == ReactorInit => RInv
<1>1. ReactorInit => IInv /\ DInv
  BY InitInv, DeferInitInv DEF ReactorInit
<1>2. ReactorInit => Linked
  BY DEF ReactorInit, Init, D!Init, Linked
<1>. QED BY <1>1, <1>2 DEF RInv

(***************************************************************************)
(* add_routine hands out the Defer of the id it stores at.                 *)
(***************************************************************************)
LEMMA RegisterInv ==
  ASSUME RInv, NEW r \in Regs, NEW s \in Erased, Register(r, s)
  PROVE  RInv'
<1>1. AddRoutine(r) /\ s \in D!Slots
  BY DEF Register, D!Slots
<1>2. IInv'
  BY <1>1, AddRoutineInv DEF RInv
<1>3. ~panicked'
  BY <1>2 DEF IInv
<1>4. D!Make(r, s)
  BY <1>3 DEF Register
<1>5. DInv'
  BY <1>1, <1>4, DeferStepInv DEF RInv, D!Next
<1>6. Linked'
  <2>1. fate' = [fate EXCEPT ![r] = "armed"] /\ DOMAIN fate = Regs \cup Others
    BY <1>4 DEF D!Make, RInv, DInv, D!TypeOK
  <2>2. PICK i : handle' = [handle EXCEPT ![r] = i]
    BY <1>1, <1>3 DEF AddRoutine
  <2>3. routines' \in [Ids -> Regs \cup {None}] /\ handle' \in [Regs -> Ids \cup {None}]
    BY <1>2 DEF IInv, TypeOK
  <2>4. handle'[r] # None
    <3>1. PICK k \in Ids : handle' = [handle EXCEPT ![r] = NextId(Size % IdRange, k)]
      BY <1>1, <1>3 DEF AddRoutine
    <3>2. NextId(Size % IdRange, k) \in Ids
      <4>1. k \in Nat /\ Size \in Nat
        BY SizeIsNat, IdRangeAssumption DEF Ids, RInv, IInv
      <4>2. Size % IdRange \in Nat
        BY <4>1, IdRangeAssumption, SMT
      <4>. QED BY <4>1, <4>2, NextIdIsNotTheProbe
    <3>3. None \notin Ids
      BY NoneAssumption, IdRangeAssumption DEF Ids
    <3>. QED BY <3>1, <3>2, <3>3 DEF RInv, IInv, TypeOK
  <2>. QED BY <2>1, <2>2, <2>4 DEF RInv, IInv, TypeOK, Linked
<1>. QED BY <1>2, <1>5, <1>6 DEF RInv

(***************************************************************************)
(* A client's own Defer is of no registration.                             *)
(***************************************************************************)
LEMMA DeferOwnInv ==
  ASSUME RInv, NEW f \in Others, NEW s \in Typed \cup Erased, DeferOwn(f, s)
  PROVE  RInv'
<1>1. D!Make(f, s) /\ s \in D!Slots /\ UNCHANGED vars
  BY DEF DeferOwn, D!Slots
<1>2. IInv'
  BY <1>1, StepInv DEF RInv
<1>3. DInv'
  BY <1>1, DeferStepInv DEF RInv, D!Next
<1>4. Linked'
  BY <1>1, DefersAssumption DEF D!Make, vars, Linked, RInv, DInv, D!TypeOK
<1>. QED BY <1>2, <1>3, <1>4 DEF RInv

(***************************************************************************)
(* A registration's Defer that runs takes the routine with it; any other   *)
(* use of a Defer leaves the table alone.                                  *)
(***************************************************************************)
LEMMA UseDeferInv == ASSUME RInv, UseDefer PROVE RInv'
<1>1. DInv'
  BY DeferStepInv DEF RInv, D!Next, UseDefer
<1>2. IInv'
  BY StepInv, RemoveRoutineInv DEF RInv, UseDefer, Running
<1>3. Linked'
  <2>1. CASE Running = {}
    <3>1. CASE fate' = fate
      BY <2>1, <3>1 DEF UseDefer, vars, RInv, Linked
    <3>2. ASSUME NEW f \in Regs \cup Others, fate[f] = "armed",
                 \/ fate' = [fate EXCEPT ![f] = "ran"]
                 \/ fate' = [fate EXCEPT ![f] = "cancelled"]
          PROVE  Linked'
      <4>1. DOMAIN fate = Regs \cup Others
        BY DEF RInv, DInv, D!TypeOK
      <4>2. f \in Regs => fate' = [fate EXCEPT ![f] = "cancelled"]
        BY <2>1, <3>2, <4>1 DEF Running
      <4>. QED BY <2>1, <3>2, <4>1, <4>2 DEF UseDefer, vars, RInv, Linked
    <3>. QED BY <3>1, <3>2, UseChangesOne DEF UseDefer, RInv
  <2>2. ASSUME NEW r \in Running, RemoveRoutine(r) PROVE Linked'
    <3>1. r \in Regs /\ fate[r] = "armed" /\ fate'[r] = "ran" /\ DOMAIN fate = Regs \cup Others
      BY DEF Running, RInv, DInv, D!TypeOK
    <3>2. fate' = [fate EXCEPT ![r] = "ran"]
      BY <3>1, UseChangesOne DEF UseDefer, RInv
    <3>3. handle' = [handle EXCEPT ![r] = None] /\ DOMAIN handle = Regs
      BY <2>2 DEF RemoveRoutine, RInv, IInv, TypeOK
    <3>. QED BY <3>1, <3>2, <3>3 DEF RInv, Linked
  <2>. QED BY <2>1, <2>2 DEF UseDefer
<1>. QED BY <1>1, <1>2, <1>3 DEF RInv

(***************************************************************************)
(* Every step of the composition preserves the invariant.                  *)
(***************************************************************************)
LEMMA ReactorStepInv == ASSUME RInv, [ReactorNext]_allVars PROVE RInv'
<1>1. ASSUME UNCHANGED allVars PROVE RInv'
  <2>1. IInv'
    BY <1>1, StepInv DEF allVars, RInv
  <2>2. DInv'
    BY <1>1, DeferStepInv DEF allVars, RInv, D!vars
  <2>. QED BY <1>1, <2>1, <2>2 DEF allVars, vars, RInv, Linked
<1>. QED BY <1>1, RegisterInv, DeferOwnInv, UseDeferInv DEF ReactorNext

-----------------------------------------------------------------------------
(***************************************************************************)
(* The inductive invariant of the composition holds throughout.            *)
(***************************************************************************)
THEOREM ReactorInvariance == ReactorSpec => []RInv
BY ReactorInitInv, ReactorStepInv, PTL DEF ReactorSpec

(***************************************************************************)
(* A routine in the table has a Defer that would still remove it, or one   *)
(* that was cancelled: ~Reactor's assertion that _routines is empty holds  *)
(* when the Defers are gone and none was cancelled.                        *)
(***************************************************************************)
THEOREM TableIsEmptiedByDefers == ReactorSpec => []OnlyLiveRoutines
<1>1. ASSUME RInv PROVE OnlyLiveRoutines
  <2>1. ASSUME NEW i \in Ids, routines[i] # None
        PROVE  /\ routines[i] \in Regs
               /\ fate[routines[i]] \in {"armed", "cancelled"}
    <3>1. routines[i] \in Regs /\ handle[routines[i]] = i
      BY <1>1, <2>1 DEF RInv, IInv, TypeOK, RoutinesAreOwned
    <3>2. i # None
      BY NoneAssumption, IdRangeAssumption DEF Ids
    <3>. QED BY <1>1, <3>1, <3>2 DEF RInv, Linked
  <2>2. \A r \in Regs : fate[r] = "armed" => \E s \in D!Slots : D!Holds(s, r)
    BY <1>1 DEF RInv, DInv, D!HeldByOne, D!Holds, D!Slots
  <2>. QED BY <2>1, <2>2 DEF OnlyLiveRoutines
<1>. QED BY <1>1, ReactorInvariance, PTL

(***************************************************************************)
(* No use of a Defer takes a routine out of the table while an object that *)
(* would remove it is alive, if no other registration was given its id:    *)
(* the moves and assignments of Defer leave exactly one object that        *)
(* removes it (lib/common/defer.hh, lib/reactor/reactor.cc).               *)
(***************************************************************************)
THEOREM RoutinesStayWhileHeld == ReactorSpec => []HeldRoutinesStay
<1>1. ASSUME RInv PROVE HeldRoutinesStay
  <2>1. ASSUME NEW r \in Regs, NEW s \in D!Slots, D!Holds(s, r)
        PROVE  handle[r] # None /\ (r \notin sharing => routines[handle[r]] = r)
    <3>1. fate[r] = "armed"
      BY <1>1, <2>1 DEF RInv, DInv, D!HeldByOne, D!Holds, D!Slots
    <3>2. handle[r] # None
      BY <1>1, <3>1 DEF RInv, Linked
    <3>. QED BY <1>1, <3>2 DEF RInv, IInv, UnsharedStay
  <2>. QED BY <2>1 DEF HeldRoutinesStay
<1>. QED BY <1>1, ReactorInvariance, PTL

(***************************************************************************)
(* In the composition too no function runs twice or after it was           *)
(* cancelled, and none that is due to run is lost: remove_routine is       *)
(* called once at most for each registration.                              *)
(***************************************************************************)
THEOREM EveryFunctionRunsOnce == ReactorSpec => []FunctionsRunOnce
<1>1. RInv => FunctionsRunOnce
  BY DEF RInv, DInv, D!RunsOnce, D!HeldByOne, D!Holds, D!Slots, FunctionsRunOnce
<1>. QED BY <1>1, ReactorInvariance, PTL

(***************************************************************************)
(* What add_routine alone guarantees survives the composition.             *)
(***************************************************************************)
THEOREM TableIsSafe == ReactorSpec => []RoutinesAreOwned
<1>1. RInv => RoutinesAreOwned
  BY DEF RInv, IInv
<1>. QED BY <1>1, ReactorInvariance, PTL

(***************************************************************************)
(* The type invariants of the table and of the Defers.                     *)
(***************************************************************************)
THEOREM ReactorTypes == ReactorSpec => []ReactorTypeOK
<1>1. RInv => ReactorTypeOK
  BY DEF RInv, IInv, ReactorTypeOK, DInv, D!TypeOK, D!Slots, D!Objects, D!Empty
<1>. QED BY <1>1, ReactorInvariance, PTL
=============================================================================
