---------------------------- MODULE RoutineTable ----------------------------
(***************************************************************************)
(* The table of polling routines of the Reactor (lib/reactor/reactor.cc,   *)
(* add_routine and remove_routine).                                        *)
(*                                                                         *)
(* add_routine picks an id with a uint16_t that counts modulo IdRange,     *)
(* stores the routine there and hands out a Defer whose destruction erases *)
(* whatever the table holds at that id.  A registration is a name in Regs; *)
(* the name may be used again once its Defer is gone.                      *)
(***************************************************************************)
EXTENDS Integers, FiniteSets

CONSTANTS IdRange,   \* 2^16 in the code
          Regs, None

ASSUME IdRangeAssumption == IdRange \in Nat /\ IdRange >= 2
ASSUME NoneAssumption    == None \notin Regs /\ None \notin Nat

VARIABLES routines,   \* Reactor::_routines, from ids to routines
          handle,     \* the id each registration's Defer captured
          panicked,   \* COREY_ASSERT(id != start) failed
          sharing     \* history: live registrations whose id another one was
                      \* given as well

vars == <<routines, handle, panicked, sharing>>

Ids == 0 .. IdRange - 1

Init == /\ routines = [i \in Ids |-> None]
        /\ handle   = [r \in Regs |-> None]
        /\ panicked = FALSE
        /\ sharing  = {}

Count(i) == routines[i] # None

Size == Cardinality({i \in Ids : Count(i)})

\* The value of id when the loop ends at the k-th probe: the condition
\* increments it once more after the probe.
NextId(start, k) == (start + k + 1) % IdRange

\* The registrations that have an id.
Holders(id) == {r \in Regs : handle[r] = id}

\* add_routine: probe from size() on; the first id not in the table ends
\* the loop, and coming back to start fails the assertion.
AddRoutine(r) ==
  LET start == Size % IdRange
      Probe(k) == (start + k) % IdRange IN
  /\ ~panicked
  /\ handle[r] = None
  /\ \/ \E k \in Ids :
          /\ ~Count(Probe(k))
          /\ \A j \in 0 .. k - 1 : Count(Probe(j))
          /\ routines' = [routines EXCEPT ![NextId(start, k)] = r]
          /\ handle'   = [handle EXCEPT ![r] = NextId(start, k)]
          /\ sharing'  = IF Holders(NextId(start, k)) = {} THEN sharing
                         ELSE sharing \cup Holders(NextId(start, k)) \cup {r}
          /\ UNCHANGED panicked
     \/ /\ \A i \in Ids : Count(i)
        /\ panicked' = TRUE
        /\ UNCHANGED <<routines, handle, sharing>>

\* Mutant of RemoveRoutine: the handle captured the size, not the id.
RemoveLast(r) ==
  /\ handle[r] # None
  /\ routines' = [routines EXCEPT ![Size % IdRange] = None]
  /\ handle'   = [handle EXCEPT ![r] = None]
  /\ sharing'  = sharing \ {r}
  /\ UNCHANGED panicked

\* The Defer of a registration is destroyed: _routines.erase(id).
RemoveRoutine(r) ==
  /\ ~panicked
  /\ handle[r] # None
  /\ routines' = [routines EXCEPT ![handle[r]] = None]
  /\ handle'   = [handle EXCEPT ![r] = None]
  /\ sharing'  = sharing \ {r}
  /\ UNCHANGED panicked

Next == \E r \in Regs : AddRoutine(r) \/ RemoveRoutine(r)

Spec == Init /\ [][Next]_vars

-----------------------------------------------------------------------------
(* Properties                                                              *)

TypeOK == /\ routines \in [Ids -> Regs \cup {None}]
          /\ handle   \in [Regs -> Ids \cup {None}]
          /\ panicked \in BOOLEAN
          /\ sharing \subseteq Regs

(***************************************************************************)
(* Every routine in the table is there under the id of its own live Defer: *)
(* the table is empty when all the handles are gone, as ~Reactor asserts.  *)
(***************************************************************************)
RoutinesAreOwned ==
  \A i \in Ids : routines[i] # None => handle[routines[i]] = i

(***************************************************************************)
(* A registered routine stays in the table until its Defer is destroyed.   *)
(* The loop looks for an id that is not in use, but stores at the next     *)
(* one, which may be.                                                      *)
(***************************************************************************)
RegistrationIsKept ==
  \A r \in Regs : handle[r] # None => routines[handle[r]] = r

=============================================================================
