------------------------------- MODULE Reactor -------------------------------
(***************************************************************************)
(* Reactor::add_routine with the Defer<> it returns: the table of polling  *)
(* routines composed with the objects whose destruction empties it.        *)
(*                                                                         *)
(* The registrations of RoutineTable are functions of Defer: the lambda    *)
(* that add_routine returns calls remove_routine for the id it captured.   *)
(* Clients move, assign, cancel and destroy the Defers they were given,    *)
(* next to Defers of functions of their own.                               *)
(***************************************************************************)
EXTENDS RoutineTable

CONSTANTS Others,        \* the clients' own functions
          Typed, Erased  \* storage for Defers

ASSUME DefersAssumption == None \notin Others /\ Others \cap Regs = {}

VARIABLES slot, fate

D == INSTANCE Defer WITH Funcs <- Regs \cup Others, Private <- Regs

allVars == <<vars, slot, fate>>

ReactorInit == Init /\ D!Init

\* add_routine: the routine is stored, and its Defer<> returned into s.
Register(r, s) ==
  /\ s \in Erased
  /\ AddRoutine(r)
  /\ IF panicked' THEN UNCHANGED <<slot, fate>> ELSE D!Make(r, s)

\* A Defer of the client's own.
DeferOwn(f, s) == ~panicked /\ D!Make(f, s) /\ UNCHANGED vars

\* The registration whose Defer runs in this step, if there is one.
Running == {r \in Regs : fate[r] = "armed" /\ fate'[r] = "ran"}

\* A Defer is moved, assigned, cancelled or destroyed; if that runs the
\* function of a registration, its routine is removed.
UseDefer ==
  /\ ~panicked
  /\ D!Use
  /\ IF Running = {} THEN UNCHANGED vars ELSE \E r \in Running : RemoveRoutine(r)

ReactorNext == \/ \E r \in Regs, s \in Erased : Register(r, s)
               \/ \E f \in Others, s \in Typed \cup Erased : DeferOwn(f, s)
               \/ UseDefer

ReactorSpec == ReactorInit /\ [][ReactorNext]_allVars

-----------------------------------------------------------------------------
(* Properties                                                              *)

(***************************************************************************)
(* The type invariants of both components.                                 *)
(***************************************************************************)
ReactorTypeOK == TypeOK /\ D!TypeOK

(***************************************************************************)
(* What Defer promises holds in the composition: every function, the       *)
(* clients' own and the calls of remove_routine, runs once at most, never  *)
(* when it was cancelled, and until then exactly one object holds it.      *)
(***************************************************************************)
FunctionsRunOnce == D!RunsOnce /\ D!HeldByOne

(***************************************************************************)
(* A routine is in the table only while some Defer would still remove it,  *)
(* or after its Defer was cancelled: when the Defers are gone and none was *)
(* cancelled, ~Reactor finds _routines.empty().                            *)
(***************************************************************************)
OnlyLiveRoutines ==
  \A i \in Ids : routines[i] # None =>
    \/ fate[routines[i]] = "cancelled"
    \/ \E s \in D!Slots : D!Holds(s, routines[i])

(***************************************************************************)
(* A routine stays in the table for as long as some object would still     *)
(* remove it, whichever Defers were moved from, assigned over or destroyed *)
(* meanwhile; unless its id was given to another registration as well, and *)
(* then it is still the id that the object would remove.                   *)
(***************************************************************************)
HeldRoutinesStay ==
  \A r \in Regs : (\E s \in D!Slots : D!Holds(s, r)) =>
    /\ handle[r] # None
    /\ r \notin sharing => routines[handle[r]] = r

=============================================================================
