-------------------------- MODULE FutureMoveAssign --------------------------
(***************************************************************************)
(* Future with the one operation it leaves out: Promise::operator= onto a  *)
(* promise that has a State.  The operator calls this->~Promise(), which   *)
(* also destroys the pointer member, and then move-assigns to that member; *)
(* intrusive_ptr's assignment releases the pointer it overwrites.          *)
(***************************************************************************)
EXTENDS Future

Undefined == {"panic", "heap_damaged"}

\* Reading the member after its destructor is undefined: a build either
\* sees the old pointer and releases it again, or takes it for empty.  The
\* second release of a State already deleted finds a count of zero, or
\* decrements whatever the allocator wrote there.
AssignOver(p, q) ==
  LET s == promise[q] IN
  /\ promise[p] # Unborn
  /\ s \in States
  /\ p # q
  /\ promise' = [promise EXCEPT ![p] = Null, ![q] = promise[p]]
  /\ \/ /\ ReleasePromise(s)
        /\ thrown' = "none"
     \/ /\ refCnt[s] > 1
        /\ refCnt' = [refCnt EXCEPT ![s] = @ - 2]
        /\ mode'   = [mode EXCEPT ![s] = "free"]
        /\ thrown' = "none"
     \/ /\ refCnt[s] = 1
        /\ ReleasePromise(s)
        /\ thrown' \in Undefined
  /\ UNCHANGED future

NextWithAssign == /\ thrown \notin Undefined
                  /\ Next \/ \E p, q \in Promises : AssignOver(p, q)

SpecWithAssign == Init /\ [][NextWithAssign]_vars

(***************************************************************************)
(* intrusive_ptr_release panics with "Invalid release!" on a count of      *)
(* zero: whenever a live promise or future is to let go of its State, the  *)
(* count must be positive.  An assignment onto a promise whose future is   *)
(* alive deletes the State under that future.                              *)
(***************************************************************************)
ReleaseIsValid ==
  /\ \A f \in Futures  : future[f] \in States => refCnt[future[f]] > 0
  /\ \A p \in Promises : promise[p] \in States => refCnt[promise[p]] > 0

=============================================================================
