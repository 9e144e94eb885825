----------------------------- MODULE Semaphore ------------------------------
(***************************************************************************)
(* The coroutine semaphore (lib/reactor/sync.cc).                          *)
(*                                                                         *)
(* A client is one Future<Defer<>> returned by wait() and the permit that  *)
(* comes out of it; its name may be used again when both are gone.  The    *)
(* promise of a client that dropped its pending future stays in _waiters   *)
(* as Gone: a permit handed to it is destroyed with the promise, which     *)
(* signals again from inside the first signal.                             *)
(***************************************************************************)
EXTENDS Integers, Sequences, FiniteSets

CONSTANTS Clients, Gone,
          Count,      \* the constructor's argument, which it does not check
          MaxQueue    \* bound on the length of _waiters

ASSUME ClientsAssumption == IsFiniteSet(Clients) /\ Gone \notin Clients
ASSUME CountAssumption   == Count \in Int

VARIABLES count,     \* Semaphore::_count
          waiters,   \* Semaphore::_waiters, front first
          client,    \* what each client has got
          alive,     \* FALSE after ~Semaphore
          cancelled  \* history: how many permits were cancelled

vars == <<count, waiters, client, alive, cancelled>>

Init == /\ count   = Count
        /\ waiters = <<>>
        /\ client  = [c \in Clients |-> "none"]
        /\ alive   = TRUE
        /\ cancelled = 0

Out == {c \in Clients : client[c] \in {"granted", "holding"}}

-----------------------------------------------------------------------------
(* The Defer of signal_later runs                                          *)

\* Mutant of SignalFrom: a permit handed to an abandoned promise is lost.
SignalFront(c) ==
  IF waiters = <<>>
  THEN /\ count'  = count + 1
       /\ client' = [client EXCEPT ![c] = "none"]
       /\ UNCHANGED waiters
  ELSE /\ waiters' = Tail(waiters)
       /\ client'  = [d \in Clients |-> IF d = Head(waiters) THEN "granted"
                                       ELSE IF d = c THEN "none" ELSE client[d]]
       /\ UNCHANGED count

\* Mutant of SignalFrom: the count goes up although a waiter is served.
SignalTwice(c) ==
  /\ count' = count + 1
  /\ waiters' = IF waiters = <<>> THEN waiters ELSE Tail(waiters)
  /\ client' = [d \in Clients |->
                  IF waiters # <<>> /\ d = Head(waiters) THEN "granted"
                  ELSE IF d = c THEN "none" ELSE client[d]]

\* Mutant of SignalFrom: the youngest waiter is served.
SignalBack(c) ==
  IF waiters = <<>> \/ waiters[Len(waiters)] = Gone
  THEN SignalFront(c)
  ELSE /\ waiters' = SubSeq(waiters, 1, Len(waiters) - 1)
       /\ client'  = [client EXCEPT ![c] = "none",
                                    ![waiters[Len(waiters)]] = "granted"]
       /\ UNCHANGED count

\* c's permit comes back: promises are popped until one has a future to
\* hand the permit to, or none is left.
SignalFrom(c) ==
  \/ /\ \A i \in DOMAIN waiters : waiters[i] = Gone
     /\ count'   = count + 1
     /\ waiters' = <<>>
     /\ client'  = [client EXCEPT ![c] = "none"]
  \/ \E k \in DOMAIN waiters :
       /\ waiters[k] # Gone
       /\ \A i \in 1 .. k - 1 : waiters[i] = Gone
       /\ waiters' = SubSeq(waiters, k + 1, Len(waiters))
       /\ client'  = [client EXCEPT ![c] = "none", ![waiters[k]] = "granted"]
       /\ UNCHANGED count

-----------------------------------------------------------------------------
(* The clients                                                             *)

Wait(c) ==
  /\ alive
  /\ client[c] = "none"
  /\ \/ /\ count > 0
        /\ count'  = count - 1
        /\ client' = [client EXCEPT ![c] = "granted"]
        /\ UNCHANGED waiters
     \/ /\ count <= 0
        /\ Len(waiters) < MaxQueue
        /\ waiters' = Append(waiters, c)
        /\ client'  = [client EXCEPT ![c] = "waiting"]
        /\ UNCHANGED count
  /\ UNCHANGED <<alive, cancelled>>

\* future.get(): the Defer moves out of the State.
GetPermit(c) == /\ client[c] = "granted"
                /\ client' = [client EXCEPT ![c] = "holding"]
                /\ UNCHANGED <<count, waiters, alive, cancelled>>

\* Mutant of Abandon: the promise in the queue still reaches the client.
AbandonInPlace(c) ==
  /\ client[c] = "waiting"
  /\ client'  = [client EXCEPT ![c] = "none"]
  /\ UNCHANGED <<count, waiters, alive, cancelled>>

\* The future is dropped before it is ready.
Abandon(c) ==
  /\ client[c] = "waiting"
  /\ client'  = [client EXCEPT ![c] = "none"]
  /\ waiters' = [i \in DOMAIN waiters |-> IF waiters[i] = c THEN Gone ELSE waiters[i]]
  /\ UNCHANGED <<count, alive, cancelled>>

\* The permit is dropped, in the client's hands or still in the future.
DropPermit(c) == /\ c \in Out
                 /\ SignalFrom(c)
                 /\ UNCHANGED <<alive, cancelled>>

\* Defer<>::cancel: the permit is never given back.
CancelPermit(c) == /\ client[c] = "holding"
                   /\ client'    = [client EXCEPT ![c] = "none"]
                   /\ cancelled' = cancelled + 1
                   /\ UNCHANGED <<count, waiters, alive>>

\* The future of a destroyed semaphore is dropped.
DropBroken(c) == /\ client[c] = "broken"
                 /\ client' = [client EXCEPT ![c] = "none"]
                 /\ UNCHANGED <<count, waiters, alive, cancelled>>

\* ~Semaphore breaks the promises left in the queue.  The client must have
\* dropped every permit: a Defer that runs later would use a dead object.
Destroy ==
  /\ alive
  /\ Out = {}
  /\ alive'   = FALSE
  /\ waiters' = <<>>
  /\ client'  = [c \in Clients |-> IF client[c] = "waiting" THEN "broken" ELSE client[c]]
  /\ UNCHANGED <<count, cancelled>>

Next == \/ Destroy
        \/ \E c \in Clients : \/ Wait(c) \/ GetPermit(c) \/ Abandon(c)
                              \/ DropPermit(c) \/ CancelPermit(c) \/ DropBroken(c)

Spec == Init /\ [][Next]_vars

\* Nobody keeps a permit for ever: the Defer dies with its scope.
FairSpec == Spec /\ \A c \in Clients : WF_vars(DropPermit(c))

-----------------------------------------------------------------------------
(* Properties                                                              *)

TypeOK == /\ count   \in Int
          /\ waiters \in Seq(Clients \cup {Gone})
          /\ client  \in [Clients -> {"none", "waiting", "granted", "holding", "broken"}]
          /\ alive   \in BOOLEAN
          /\ cancelled \in Nat

(***************************************************************************)
(* No permit is made or lost: what is left in _count, what the clients     *)
(* have and what they cancelled add up to what the constructor was given,  *)
(* however many waiters have given up in between.                          *)
(***************************************************************************)
PermitsConserved == count + Cardinality(Out) + cancelled = Count

(***************************************************************************)
(* A free permit and a waiter never coexist, so wait(), which looks at     *)
(* _count alone, never overtakes the queue; and when every permit of a     *)
(* usable semaphore is back, nobody is left waiting.                       *)
(***************************************************************************)
NoIdlePermit == count > 0 => waiters = <<>>

(***************************************************************************)
(* Every pending future has exactly one promise in the queue, and every    *)
(* promise in the queue with a future belongs to a pending one.            *)
(***************************************************************************)
QueueMatchesClients ==
  /\ \A i \in DOMAIN waiters : waiters[i] # Gone => client[waiters[i]] = "waiting"
  /\ \A c \in Clients : client[c] = "waiting" => \E i \in DOMAIN waiters : waiters[i] = c
  /\ \A i, j \in DOMAIN waiters : waiters[i] = waiters[j] /\ waiters[i] # Gone => i = j

\* The clients that wait, and those whose promise is in front of another's.
Pending  == {c \in Clients : client[c] = "waiting"}
Ahead(c) == {d \in Pending : \E i, j \in DOMAIN waiters :
                               i < j /\ waiters[i] = d /\ waiters[j] = c}

(***************************************************************************)
(* The semaphore is first come first served and hands each returned permit *)
(* to one live waiter: it implements SemaphoreSpec, abandoned promises     *)
(* being invisible, and a permit owner returns the permit.                 *)
(***************************************************************************)
Abstract == INSTANCE SemaphoreSpec
              WITH free   <- count,
                   ahead  <- [c \in Pending |-> Ahead(c)],
                   owners <- Out

ImplementsSemaphoreSpec == Abstract!Spec

(***************************************************************************)
(* Whoever waits on a semaphore that has permits is served, or gives up,   *)
(* or is told that the semaphore is gone, unless the clients cancelled     *)
(* every permit.                                                           *)
(***************************************************************************)
WaitersAreServed ==
  Count > 0 => \A c \in Clients : client[c] = "waiting" ~>
                                     client[c] # "waiting" \/ cancelled = Count

=============================================================================
