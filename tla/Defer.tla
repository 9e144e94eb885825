-------------------------------- MODULE Defer --------------------------------
(***************************************************************************)
(* Defer<Func> and the type-erased Defer<> (lib/common/defer.hh): objects  *)
(* that run a function when they are destroyed.                            *)
(*                                                                         *)
(* A slot is storage for one object.  A typed slot has no object or a      *)
(* Defer<Func>; an erased slot has a Defer<> that is null or owns an Impl, *)
(* which is a Defer<Func> again.  Both are a function and a flag, and a    *)
(* moved-from Defer<Func> still has the function: only the flag keeps it   *)
(* from running it.  The function's own effect is left to the module that  *)
(* instantiates this one; it throws nothing and leaves Defers alone.       *)
(***************************************************************************)
CONSTANTS Funcs, None,
          Private,   \* functions of a type only the library can name: they
                     \* are given to clients in a Defer<> and stay in one
          Typed, Erased

VARIABLES slot,   \* the object in each slot
          fate    \* history: what became of each function

vars == <<slot, fate>>

Slots == Typed \cup Erased

\* No object in a typed slot; a null Defer<> in an erased one.
Empty == [func |-> None, cancelled |-> TRUE]

Init == /\ slot = [s \in Slots |-> Empty]
        /\ fate = [f \in Funcs |-> "unmade"]

Fits(f, s) == s \in Typed => f \notin Private

\* ~Defer of that object: the function runs unless it was cancelled or moved.
RunBy(object) ==
  IF object.cancelled THEN UNCHANGED fate
  ELSE fate' = [fate EXCEPT ![object.func] = IF @ = "armed" THEN "ran" ELSE "wrong"]

\* Mutant of MovedFrom: the source is not cancelled.
LeftAsIs(s) == slot[s]

\* What a move leaves behind: a null pointer, or the function and the flag.
MovedFrom(s) == IF s \in Erased THEN Empty ELSE [slot[s] EXCEPT !.cancelled = TRUE]

\* defer(f): a typed object, or an erased one through a temporary.
Make(f, s) ==
  /\ slot[s] = Empty
  /\ Fits(f, s)
  /\ fate[f] \in {"unmade", "ran"} /\ \A t \in Slots : slot[t].func # f
  /\ slot' = [slot EXCEPT ![s] = [func |-> f, cancelled |-> FALSE]]
  /\ fate' = [fate EXCEPT ![f] = "armed"]

\* The move constructors, of either kind, and Defer<> from a Defer<Func>; also
\* an assignment to a null Defer<>.
Construct(s, t) ==
  /\ slot[s] = Empty
  /\ slot[t] # Empty
  /\ s \in Typed => t \in Typed
  /\ slot' = [slot EXCEPT ![s] = slot[t], ![t] = MovedFrom(t)]
  /\ UNCHANGED fate

\* Mutant of Assign: the object that is replaced is not destroyed first.
AssignOver(s, t) ==
  /\ slot[s] # Empty /\ slot[t] # Empty
  /\ s \in Typed => t \in Typed
  /\ s # t
  /\ slot' = [slot EXCEPT ![s] = slot[t], ![t] = MovedFrom(t)]
  /\ UNCHANGED fate

\* The three operator=: what s has runs and goes, and s takes what t has (in
\* this order, but for the defaulted one of Defer<>, which takes first).
\* Assigning an object to itself does nothing; assigning to a Defer<> from
\* inside its own Impl uses freed memory and is left out.
Assign(s, t) ==
  /\ slot[s] # Empty /\ slot[t] # Empty
  /\ s \in Typed => t \in Typed
  /\ s # t
  /\ RunBy(slot[s])
  /\ slot' = [slot EXCEPT ![s] = slot[t], ![t] = MovedFrom(t)]

\* A null Defer<> is assigned: the one of s runs and goes.
AssignNull(s, t) ==
  /\ {s, t} \subseteq Erased
  /\ slot[s] # Empty /\ slot[t] = Empty
  /\ RunBy(slot[s])
  /\ slot' = [slot EXCEPT ![s] = Empty]

\* A Defer<Func> is moved out of the Impl, through operator Defer<Func>&.
MoveOut(s, t) ==
  /\ s \in Typed /\ t \in Erased
  /\ slot[s] = Empty
  /\ slot[t] # Empty /\ Fits(slot[t].func, s)
  /\ slot' = [slot EXCEPT ![s] = slot[t], ![t].cancelled = TRUE]
  /\ UNCHANGED fate

\* cancel(); on a null Defer<> it would dereference the null pointer.
Cancel(s) ==
  /\ slot[s] # Empty
  /\ slot' = [slot EXCEPT ![s].cancelled = TRUE]
  /\ fate' = IF slot[s].cancelled THEN fate ELSE [fate EXCEPT ![slot[s].func] = "cancelled"]

\* The object's life ends.
Destroy(s) ==
  /\ slot[s] # Empty
  /\ RunBy(slot[s])
  /\ slot' = [slot EXCEPT ![s] = Empty]

\* Everything clients do with a Defer they have.
Use == \E s \in Slots : \/ Cancel(s) \/ Destroy(s)
                        \/ \E t \in Slots : \/ Construct(s, t) \/ Assign(s, t)
                                            \/ AssignNull(s, t) \/ MoveOut(s, t)

Next == Use \/ \E f \in Funcs, s \in Slots : Make(f, s)

Spec == Init /\ [][Next]_vars

-----------------------------------------------------------------------------
(* Properties                                                              *)

Objects == [func : Funcs \cup {None}, cancelled : BOOLEAN]

TypeOK == /\ slot \in [Slots -> Objects]
          /\ \A s \in Slots : slot[s].func = None => slot[s] = Empty
          /\ fate \in [Funcs -> {"unmade", "armed", "ran", "cancelled", "wrong"}]

\* The object in s would run f.
Holds(s, f) == slot[s].func = f /\ ~slot[s].cancelled

(***************************************************************************)
(* A function runs at most once, and never once it was cancelled, however  *)
(* often its Defer was moved, assigned, erased and moved out again.        *)
(***************************************************************************)
RunsOnce == \A f \in Funcs : fate[f] # "wrong"

(***************************************************************************)
(* A function that has neither run nor been cancelled is held by exactly   *)
(* one object, and one that has by none: no move loses or doubles it, so   *)
(* it runs when the last of its objects goes.                              *)
(***************************************************************************)
HeldByOne ==
  \A f \in Funcs :
    /\ fate[f] = "armed" <=> \E s \in Slots : Holds(s, f)
    /\ \A s, t \in Slots : Holds(s, f) /\ Holds(t, f) => s = t

=============================================================================
