-------------------------- MODULE SemaphoreProofs ---------------------------
(***************************************************************************)
(* Permits are conserved and never idle while somebody waits, for any      *)
(* number of clients, any initial count and any bound on the queue.        *)
(*                                                                         *)
(* Conservation needs QueueMatchesClients: a permit handed to a client     *)
(* that already had one would be counted once.                             *)
(***************************************************************************)
EXTENDS Semaphore, FiniteSetTheorems, SequenceTheorems, TLAPS

IInv == /\ TypeOK
        /\ PermitsConserved
        /\ NoIdlePermit
        /\ QueueMatchesClients

-----------------------------------------------------------------------------
(* How the number of permits that are out changes.                         *)

LEMMA OutIsFinite ==
  ASSUME NEW S, S \subseteq Clients
  PROVE  IsFiniteSet(S) /\ Cardinality(S) \in Int
<1>1. IsFiniteSet(S)
  BY ClientsAssumption, FS_Subset
<1> QED
  BY <1>1, FS_CardinalityType

LEMMA OutSubset == Out \subseteq Clients
BY DEF Out

LEMMA OutCardinality == Cardinality(Out) \in Int
BY OutIsFinite, OutSubset

LEMMA OneMoreOut ==
  ASSUME NEW c \in Clients, c \notin Out, Out' = Out \cup {c}
  PROVE  Cardinality(Out') = Cardinality(Out) + 1
BY OutIsFinite, OutSubset, FS_AddElement

LEMMA OneLessOut ==
  ASSUME NEW c \in Out, Out' = Out \ {c}
  PROVE  Cardinality(Out') = Cardinality(Out) - 1
BY OutIsFinite, OutSubset, FS_RemoveElement

LEMMA HandedOver ==
  ASSUME NEW c \in Out, NEW d \in Clients, d \notin Out, Out' = (Out \ {c}) \cup {d}
  PROVE  Cardinality(Out') = Cardinality(Out)
<1>1. Cardinality(Out \ {c}) = Cardinality(Out) - 1 /\ IsFiniteSet(Out \ {c})
  BY OutIsFinite, OutSubset, FS_RemoveElement
<1>2. Cardinality(Out') = Cardinality(Out \ {c}) + 1
  BY <1>1, FS_AddElement
<1> QED
  BY <1>1, <1>2, OutIsFinite, OutSubset

-----------------------------------------------------------------------------
LEMMA InitInv == Init => IInv
<1> SUFFICES ASSUME Init PROVE IInv
  OBVIOUS
<1>1. Out = {}
  BY DEF Init, Out
<1>2. PermitsConserved
  BY <1>1, FS_EmptySet, CountAssumption DEF Init, PermitsConserved
<1>3. TypeOK
  BY CountAssumption DEF Init, TypeOK
<1>4. NoIdlePermit /\ QueueMatchesClients
  BY DEF Init, NoIdlePermit, QueueMatchesClients
<1> QED
  BY <1>2, <1>3, <1>4 DEF IInv

(* wait() with a permit to spare.                                          *)
LEMMA WaitGrantedInv ==
  ASSUME IInv, NEW c \in Clients, client[c] = "none", count > 0,
         count' = count - 1, client' = [client EXCEPT ![c] = "granted"],
         UNCHANGED <<waiters, alive, cancelled>>
  PROVE  IInv'
<1>1. TypeOK'
  BY DEF IInv, TypeOK
<1>2. c \notin Out /\ Out' = Out \cup {c}
  BY DEF IInv, TypeOK, Out
<1>3. PermitsConserved'
  <2>1. Cardinality(Out') = Cardinality(Out) + 1
    BY <1>2, OneMoreOut
  <2> QED
    BY <2>1, OutCardinality DEF IInv, TypeOK, PermitsConserved
<1>4. waiters = <<>>
  BY DEF IInv, NoIdlePermit
<1>5. NoIdlePermit' /\ QueueMatchesClients'
  BY <1>4, SMT DEF IInv, TypeOK, NoIdlePermit, QueueMatchesClients
<1> QED
  BY <1>1, <1>3, <1>5 DEF IInv

(* wait() behind the others.                                               *)
LEMMA WaitQueuedInv ==
  ASSUME IInv, NEW c \in Clients, client[c] = "none", count <= 0,
         waiters' = Append(waiters, c), client' = [client EXCEPT ![c] = "waiting"],
         UNCHANGED <<count, alive, cancelled>>
  PROVE  IInv'
<1>1. TypeOK'
  BY SMT DEF IInv, TypeOK
<1>2. Out' = Out
  BY DEF IInv, TypeOK, Out
<1>3. PermitsConserved' /\ NoIdlePermit'
  BY <1>2, SMT DEF IInv, TypeOK, PermitsConserved, NoIdlePermit
<1>4. QueueMatchesClients'
  BY ClientsAssumption, SMT DEF IInv, TypeOK, QueueMatchesClients
<1> QED
  BY <1>1, <1>3, <1>4 DEF IInv

LEMMA GetPermitInv ==
  ASSUME IInv, NEW c \in Clients, GetPermit(c) PROVE IInv'
<1>1. TypeOK'
  BY DEF IInv, TypeOK, GetPermit
<1>2. Out' = Out
  BY DEF IInv, TypeOK, GetPermit, Out
<1>3. PermitsConserved' /\ NoIdlePermit' /\ QueueMatchesClients'
  BY <1>2, SMT DEF IInv, TypeOK, GetPermit, PermitsConserved, NoIdlePermit, QueueMatchesClients
<1> QED
  BY <1>1, <1>3 DEF IInv

LEMMA AbandonInv ==
  ASSUME IInv, NEW c \in Clients, Abandon(c) PROVE IInv'
<1>1. TypeOK'
  BY SMT DEF IInv, TypeOK, Abandon
<1>2. Out' = Out
  BY DEF IInv, TypeOK, Abandon, Out
<1>3. PermitsConserved' /\ NoIdlePermit'
  BY <1>2, SMT DEF IInv, TypeOK, Abandon, PermitsConserved, NoIdlePermit
<1>4. QueueMatchesClients'
  BY ClientsAssumption, SMT DEF IInv, TypeOK, Abandon, QueueMatchesClients
<1> QED
  BY <1>1, <1>3, <1>4 DEF IInv

LEMMA DropBrokenInv ==
  ASSUME IInv, NEW c \in Clients, DropBroken(c) PROVE IInv'
<1>1. TypeOK'
  BY DEF IInv, TypeOK, DropBroken
<1>2. Out' = Out
  BY DEF IInv, TypeOK, DropBroken, Out
<1>3. PermitsConserved' /\ NoIdlePermit' /\ QueueMatchesClients'
  BY <1>2, SMT DEF IInv, TypeOK, DropBroken, PermitsConserved, NoIdlePermit, QueueMatchesClients
<1> QED
  BY <1>1, <1>3 DEF IInv

(* A permit that is cancelled moves from the clients to the cancelled ones. *)
LEMMA CancelPermitInv ==
  ASSUME IInv, NEW c \in Clients, CancelPermit(c) PROVE IInv'
<1>1. TypeOK'
  BY DEF IInv, TypeOK, CancelPermit
<1>2. c \in Out /\ Out' = Out \ {c}
  BY DEF IInv, TypeOK, CancelPermit, Out
<1>3. PermitsConserved'
  <2>1. Cardinality(Out') = Cardinality(Out) - 1
    BY <1>2, OneLessOut
  <2> QED
    BY <2>1, OutCardinality DEF IInv, TypeOK, PermitsConserved, CancelPermit
<1>4. NoIdlePermit' /\ QueueMatchesClients'
  BY SMT DEF IInv, TypeOK, CancelPermit, NoIdlePermit, QueueMatchesClients
<1> QED
  BY <1>1, <1>3, <1>4 DEF IInv

LEMMA DestroyInv == ASSUME IInv, Destroy PROVE IInv'
<1>1. TypeOK'
  <2>1. /\ waiters' = <<>> /\ <<>> \in Seq(Clients \cup {Gone})
        /\ count' \in Int /\ alive' = FALSE /\ cancelled' \in Nat
    BY DEF IInv, TypeOK, Destroy
  <2>2. client' \in [Clients -> {"none", "waiting", "granted", "holding", "broken"}]
    BY DEF IInv, TypeOK, Destroy
  <2> QED
    BY <2>1, <2>2 DEF TypeOK
<1>2. Out' = Out
  BY DEF IInv, TypeOK, Destroy, Out
<1>3. PermitsConserved' /\ NoIdlePermit' /\ QueueMatchesClients'
  BY <1>2, SMT DEF IInv, TypeOK, Destroy, PermitsConserved, NoIdlePermit, QueueMatchesClients
<1> QED
  BY <1>1, <1>3 DEF IInv

-----------------------------------------------------------------------------
(* A permit comes back and nobody is there to take it.                     *)
LEMMA SignalNobodyInv ==
  ASSUME IInv, NEW c \in Out, \A i \in DOMAIN waiters : waiters[i] = Gone,
         count' = count + 1, waiters' = <<>>,
         client' = [client EXCEPT ![c] = "none"], UNCHANGED <<alive, cancelled>>
  PROVE  IInv'
<1>0. c \in Clients
  BY OutSubset
<1>1. TypeOK'
  BY <1>0 DEF IInv, TypeOK
<1>2. Out' = Out \ {c}
  BY <1>0 DEF IInv, TypeOK, Out
<1>3. PermitsConserved'
  <2>1. Cardinality(Out') = Cardinality(Out) - 1
    BY <1>2, OneLessOut
  <2> QED
    BY <2>1, OutCardinality DEF IInv, TypeOK, PermitsConserved
<1>4. \A d \in Clients : client[d] # "waiting"
  BY ClientsAssumption DEF IInv, QueueMatchesClients
<1>5. NoIdlePermit' /\ QueueMatchesClients'
  BY <1>0, <1>4, SMT DEF IInv, TypeOK, NoIdlePermit, QueueMatchesClients
<1> QED
  BY <1>1, <1>3, <1>5 DEF IInv

(* A permit comes back and goes to the first waiter still there.           *)
LEMMA SignalFirstInv ==
  ASSUME IInv, NEW c \in Out, NEW k \in DOMAIN waiters, waiters[k] # Gone,
         \A i \in 1 .. k - 1 : waiters[i] = Gone,
         waiters' = SubSeq(waiters, k + 1, Len(waiters)),
         client' = [client EXCEPT ![c] = "none", ![waiters[k]] = "granted"],
         UNCHANGED <<count, alive, cancelled>>
  PROVE  IInv'
<1> DEFINE d == waiters[k]
<1>0. c \in Clients /\ d \in Clients /\ d \notin Out /\ d # c
  BY OutSubset, SMT DEF IInv, TypeOK, QueueMatchesClients, Out
<1>1. /\ waiters' \in Seq(Clients \cup {Gone})
      /\ DOMAIN waiters = 1 .. Len(waiters) /\ Len(waiters) \in Nat
      /\ k \in 1 .. Len(waiters)
      /\ DOMAIN waiters' = 1 .. Len(waiters) - k
      /\ \A i \in 1 .. Len(waiters) - k : waiters'[i] = waiters[k + i]
  BY SMT DEF IInv, TypeOK
<1>2. TypeOK'
  <2>1. client' \in [Clients -> {"none", "waiting", "granted", "holding", "broken"}]
    BY DEF IInv, TypeOK
  <2> QED
    BY <1>1, <2>1 DEF IInv, TypeOK
<1>3. Out' = (Out \ {c}) \cup {d}
  BY <1>0 DEF IInv, TypeOK, Out
<1>4. PermitsConserved'
  BY <1>0, <1>3, HandedOver DEF IInv, PermitsConserved
<1>5. NoIdlePermit'
  BY <1>1 DEF IInv, NoIdlePermit
<1>6. \A i \in DOMAIN waiters' : waiters'[i] # Gone => client'[waiters'[i]] = "waiting"
  BY <1>0, <1>1, SMT DEF IInv, TypeOK, QueueMatchesClients, Out
<1>7. ASSUME NEW e \in Clients, client'[e] = "waiting"
      PROVE  \E i \in DOMAIN waiters' : waiters'[i] = e
  <2>1. client[e] = "waiting" /\ e # d
    BY <1>0, <1>7 DEF IInv, TypeOK
  <2>2. PICK j \in DOMAIN waiters : waiters[j] = e
    BY <2>1 DEF IInv, QueueMatchesClients
  <2>3. j > k
    BY <1>1, <2>1, <2>2, ClientsAssumption, SMT
  <2>4. j - k \in DOMAIN waiters' /\ waiters'[j - k] = e
    <3>1. j - k \in 1 .. Len(waiters) - k /\ k + (j - k) = j
      BY <1>1, <2>3, SMT
    <3> QED
      BY <1>1, <2>2, <3>1
  <2> QED
    BY <2>4
<1>8. ASSUME NEW i \in DOMAIN waiters', NEW j \in DOMAIN waiters',
             waiters'[i] = waiters'[j], waiters'[i] # Gone
      PROVE  i = j
  <2>1. i \in 1 .. Len(waiters) - k /\ j \in 1 .. Len(waiters) - k
    BY <1>1
  <2>2. waiters[k + i] = waiters[k + j] /\ waiters[k + i] # Gone
    BY <1>1, <1>8, <2>1
  <2>3. k + i \in DOMAIN waiters /\ k + j \in DOMAIN waiters
    BY <1>1, <2>1, SMT
  <2>4. k + i = k + j
    BY <2>2, <2>3 DEF IInv, QueueMatchesClients
  <2> QED
    BY <1>1, <2>1, <2>4, SMT
<1> QED
  BY <1>2, <1>4, <1>5, <1>6, <1>7, <1>8 DEF IInv, QueueMatchesClients

LEMMA StepInv == IInv /\ [Next]_vars => IInv'
<1> SUFFICES ASSUME IInv, [Next]_vars PROVE IInv'
  OBVIOUS
<1>1. ASSUME NEW c \in Clients, Wait(c) PROVE IInv'
  BY <1>1, WaitGrantedInv, WaitQueuedInv DEF Wait
<1>2. ASSUME NEW c \in Clients, DropPermit(c) PROVE IInv'
  BY <1>2, SignalNobodyInv, SignalFirstInv DEF DropPermit, SignalFrom
<1>3. CASE UNCHANGED vars
  BY <1>3 DEF vars, IInv, TypeOK, PermitsConserved, NoIdlePermit, QueueMatchesClients, Out
<1> QED
  BY <1>1, <1>2, <1>3, GetPermitInv, AbandonInv, CancelPermitInv,
     DropBrokenInv, DestroyInv DEF Next

-----------------------------------------------------------------------------
(* The inductive invariant holds in every reachable state.                 *)
THEOREM Invariance == Spec => []IInv
BY InitInv, StepInv, PTL DEF Spec

(* The type invariant, for every set of clients.                           *)
THEOREM TypeCorrectness == Spec => []TypeOK
<1>1. IInv => TypeOK
  BY DEF IInv
<1> QED
  BY <1>1, Invariance, PTL

(* The deque of promises and the clients' futures are one to one, but for  *)
(* the promises whose client has gone.                                     *)
THEOREM QueueIsExact == Spec => []QueueMatchesClients
<1>1. IInv => QueueMatchesClients
  BY DEF IInv
<1> QED
  BY <1>1, Invariance, PTL

(* signal_later never makes or loses a permit, abandoned waiters or not.   *)
THEOREM Conservation == Spec => []PermitsConserved
<1>1. IInv => PermitsConserved
  BY DEF IInv
<1> QED
  BY <1>1, Invariance, PTL

(* wait() may look at _count alone: a free permit means an empty queue.    *)
THEOREM NoOvertaking == Spec => []NoIdlePermit
<1>1. IInv => NoIdlePermit
  BY DEF IInv
<1> QED
  BY <1>1, Invariance, PTL

(* At most Count clients have a permit at a time.                          *)
THEOREM BoundedOwners == Count >= 0 => (Spec => [](Cardinality(Out) <= Count))
<1> DEFINE Bounded == count >= 0 /\ IInv
<1> SUFFICES ASSUME Count >= 0 PROVE Spec => [](Cardinality(Out) <= Count)
  OBVIOUS
<1>1. Init => Bounded
  BY InitInv DEF Init
<1>2. Bounded /\ [Next]_vars => Bounded'
  <2> SUFFICES ASSUME count >= 0, IInv, [Next]_vars PROVE count' >= 0
    BY StepInv
  <2> QED
    BY SMT DEF IInv, TypeOK, Next, Wait, GetPermit, Abandon, DropPermit, SignalFrom,
               CancelPermit, DropBroken, Destroy, vars
<1>3. Bounded => Cardinality(Out) <= Count
  BY OutIsFinite, OutSubset, CountAssumption, SMT DEF IInv, TypeOK, PermitsConserved
<1> HIDE DEF Bounded
<1> QED
  BY <1>1, <1>2, <1>3, PTL DEF Spec

-----------------------------------------------------------------------------
(***************************************************************************)
(* The refinement of SemaphoreSpec.  Its queue is who is ahead of whom,    *)
(* which the deque of promises gives; each step moves it as the            *)
(* specification says because QueueMatchesClients has every client that    *)
(* waits in the deque, once.                                               *)
(***************************************************************************)
Line == [c \in Pending |-> Ahead(c)]

LEMMA InLine ==
  ASSUME IInv
  PROVE  /\ Len(waiters) \in Nat /\ DOMAIN waiters = 1 .. Len(waiters)
         /\ Gone \notin Clients
         /\ \A c \in Pending : \E i \in DOMAIN waiters : waiters[i] = c
         /\ \A i \in DOMAIN waiters : waiters[i] # Gone => waiters[i] \in Pending
         /\ \A i, j \in DOMAIN waiters : waiters[i] = waiters[j] /\ waiters[i] # Gone => i = j
<1>1. /\ Len(waiters) \in Nat /\ DOMAIN waiters = 1 .. Len(waiters)
      /\ \A i \in DOMAIN waiters : waiters[i] \in Clients \cup {Gone}
  BY DEF IInv, TypeOK
<1>. QED BY <1>1, ClientsAssumption DEF IInv, QueueMatchesClients, Pending

\* What does not touch the queue.
LEMMA SameLine ==
  ASSUME Pending' = Pending, waiters' = waiters PROVE Line' = Line
<1>1. \A c : Ahead(c)' = Ahead(c)
  BY DEF Ahead
<1>. QED BY <1>1 DEF Line

\* A new promise has all the others ahead of it.
LEMMA JoinLine ==
  ASSUME IInv, NEW c \in Clients, c \notin Pending,
         waiters' = Append(waiters, c), Pending' = Pending \cup {c}
  PROVE  Line' = [d \in Pending \cup {c} |-> IF d = c THEN Pending ELSE Ahead(d)]
<1>1. /\ DOMAIN waiters' = 1 .. Len(waiters) + 1
      /\ \A i \in DOMAIN waiters : waiters'[i] = waiters[i]
      /\ waiters'[Len(waiters) + 1] = c
  BY DEF IInv, TypeOK
<1>2. \A i \in DOMAIN waiters : waiters[i] # c
  BY InLine
<1>3. ASSUME NEW d \in Pending PROVE Ahead(d)' = Ahead(d)
  <2>1. d # c
    OBVIOUS
  <2>2. ASSUME NEW e \in Ahead(d)' PROVE e \in Ahead(d)
    <3>1. PICK i \in DOMAIN waiters', j \in DOMAIN waiters' :
             i < j /\ waiters'[i] = e /\ waiters'[j] = d
      BY <2>2 DEF Ahead
    <3>2. j # Len(waiters) + 1
      BY <1>1, <2>1, <3>1
    <3>3. i \in DOMAIN waiters /\ j \in DOMAIN waiters
      BY <1>1, <3>1, <3>2, InLine
    <3>4. waiters[i] = e /\ waiters[j] = d /\ e # c
      BY <1>1, <1>2, <3>1, <3>3
    <3>5. e \in Pending
      BY <2>2, <3>4 DEF Ahead
    <3>. QED BY <3>1, <3>3, <3>4, <3>5 DEF Ahead
  <2>3. ASSUME NEW e \in Ahead(d) PROVE e \in Ahead(d)'
    <3>1. PICK i \in DOMAIN waiters, j \in DOMAIN waiters :
             i < j /\ waiters[i] = e /\ waiters[j] = d
      BY <2>3 DEF Ahead
    <3>2. i \in DOMAIN waiters' /\ j \in DOMAIN waiters' /\ waiters'[i] = e /\ waiters'[j] = d
      BY <1>1, <3>1, InLine
    <3>. QED BY <2>3, <3>1, <3>2 DEF Ahead
  <2>. QED BY <2>2, <2>3
<1>4. Ahead(c)' = Pending
  <2>1. ASSUME NEW e \in Ahead(c)' PROVE e \in Pending
    <3>1. PICK i \in DOMAIN waiters', j \in DOMAIN waiters' :
             i < j /\ waiters'[i] = e /\ waiters'[j] = c
      BY <2>1 DEF Ahead
    <3>2. i \in DOMAIN waiters
      BY <1>1, <3>1, InLine
    <3>3. e # c
      BY <1>1, <1>2, <3>1, <3>2
    <3>. QED BY <2>1, <3>3 DEF Ahead
  <2>2. ASSUME NEW e \in Pending PROVE e \in Ahead(c)'
    <3>1. PICK i \in DOMAIN waiters : waiters[i] = e
      BY InLine
    <3>2. /\ i \in DOMAIN waiters' /\ Len(waiters) + 1 \in DOMAIN waiters'
          /\ i < Len(waiters) + 1 /\ waiters'[i] = e
      BY <1>1, <3>1, InLine
    <3>. QED BY <1>1, <3>2 DEF Ahead
  <2>. QED BY <2>1, <2>2
<1>5. Line' = [d \in Pending' |-> Ahead(d)']
  BY DEF Line
<1>6. \A d \in Pending' : Ahead(d)' = IF d = c THEN Pending ELSE Ahead(d)
  BY <1>3, <1>4
<1>. QED BY <1>5, <1>6

\* A client whose promise is taken out of the deque, or given up in it:
\* the others keep their order.
LEMMA LeaveLine ==
  ASSUME NEW c \in Pending, Pending' = Pending \ {c},
         \A d, e \in Pending \ {c} :
            (\E i, j \in DOMAIN waiters' : i < j /\ waiters'[i] = e /\ waiters'[j] = d)
              <=> \E i, j \in DOMAIN waiters : i < j /\ waiters[i] = e /\ waiters[j] = d
  PROVE  Line' = [d \in Pending \ {c} |-> Line[d] \ {c}]
<1>1. ASSUME NEW d \in Pending \ {c} PROVE Ahead(d)' = Ahead(d) \ {c}
  BY DEF Ahead
<1>2. \A d \in Pending \ {c} : Ahead(d)' = Line[d] \ {c}
  BY <1>1 DEF Line
<1>3. Line' = [d \in Pending' |-> Ahead(d)']
  BY DEF Line
<1>. QED BY <1>2, <1>3

LEMMA GiveUpLine ==
  ASSUME IInv, NEW c \in Clients, Abandon(c)
  PROVE  /\ c \in Pending /\ Out' = Out
         /\ Line' = [d \in Pending \ {c} |-> Line[d] \ {c}]
<1>1. c \in Pending /\ Pending' = Pending \ {c} /\ Out' = Out
  BY DEF Abandon, Pending, Out, IInv, TypeOK
<1>2. /\ DOMAIN waiters' = DOMAIN waiters
      /\ \A i \in DOMAIN waiters : waiters'[i] = IF waiters[i] = c THEN Gone ELSE waiters[i]
  BY DEF Abandon
<1>3. \A d \in Pending \ {c} : \A i \in DOMAIN waiters : waiters'[i] = d <=> waiters[i] = d
  BY <1>2, InLine DEF Pending
<1>. QED BY <1>1, <1>2, <1>3, LeaveLine

LEMMA HandOverLine ==
  ASSUME IInv, NEW c \in Out, NEW k \in DOMAIN waiters, waiters[k] # Gone,
         \A i \in 1 .. k - 1 : waiters[i] = Gone,
         waiters' = SubSeq(waiters, k + 1, Len(waiters)),
         client' = [client EXCEPT ![c] = "none", ![waiters[k]] = "granted"]
  PROVE  /\ waiters[k] \in Pending /\ Line[waiters[k]] = {}
         /\ Out' = (Out \ {c}) \cup {waiters[k]}
         /\ Line' = [d \in Pending \ {waiters[k]} |-> Line[d] \ {waiters[k]}]
<1>. DEFINE f == waiters[k]
<1>1. f \in Pending /\ f \in Clients /\ c \in Clients /\ f # c /\ client[c] # "waiting"
  BY InLine DEF Pending, Out
<1>2. /\ DOMAIN waiters = 1 .. Len(waiters) /\ Len(waiters) \in Nat /\ k \in 1 .. Len(waiters)
      /\ DOMAIN waiters' = 1 .. Len(waiters) - k
      /\ \A i \in 1 .. Len(waiters) - k : waiters'[i] = waiters[k + i]
  BY DEF IInv, TypeOK
<1>3. Out' = (Out \ {c}) \cup {f} /\ Pending' = Pending \ {f}
  BY <1>1 DEF IInv, TypeOK, Out, Pending
<1>4. Line[f] = {}
  <2>1. SUFFICES ASSUME NEW e \in Ahead(f) PROVE FALSE
    BY <1>1 DEF Line
  <2>2. PICK i \in DOMAIN waiters, j \in DOMAIN waiters : i < j /\ waiters[i] = e /\ waiters[j] = f
    BY <2>1 DEF Ahead
  <2>3. j = k
    BY <2>2, InLine
  <2>4. waiters[i] = Gone
    BY <1>2, <2>2, <2>3
  <2>. QED BY <2>1, <2>2, <2>4, InLine DEF Ahead, Pending
<1>5. ASSUME NEW d \in Pending \ {f}, NEW i \in DOMAIN waiters, waiters[i] = d
      PROVE  i - k \in DOMAIN waiters' /\ waiters'[i - k] = d
  <2>1. i > k
    <3>1. i # k
      BY <1>5
    <3>2. ~(i < k)
      <4>1. d # Gone
        BY InLine DEF Pending
      <4>2. i < k => i \in 1 .. k - 1
        BY <1>2
      <4>. QED BY <1>5, <4>1, <4>2
    <3>. QED BY <1>2, <3>1, <3>2
  <2>2. i - k \in 1 .. Len(waiters) - k /\ k + (i - k) = i
    BY <1>2, <2>1
  <2>. QED BY <1>2, <1>5, <2>2
<1>6. ASSUME NEW d \in Pending \ {f}, NEW e \in Pending \ {f}
      PROVE  (\E i, j \in DOMAIN waiters' : i < j /\ waiters'[i] = e /\ waiters'[j] = d)
               <=> \E i, j \in DOMAIN waiters : i < j /\ waiters[i] = e /\ waiters[j] = d
  <2>1. ASSUME NEW i \in DOMAIN waiters', NEW j \in DOMAIN waiters',
               i < j, waiters'[i] = e, waiters'[j] = d
        PROVE  \E a, b \in DOMAIN waiters : a < b /\ waiters[a] = e /\ waiters[b] = d
    <3>1. k + i \in DOMAIN waiters /\ k + j \in DOMAIN waiters /\ k + i < k + j
      BY <1>2, <2>1
    <3>2. waiters[k + i] = e /\ waiters[k + j] = d
      BY <1>2, <2>1
    <3>. QED BY <3>1, <3>2
  <2>2. ASSUME NEW i \in DOMAIN waiters, NEW j \in DOMAIN waiters,
               i < j, waiters[i] = e, waiters[j] = d
        PROVE  \E a, b \in DOMAIN waiters' : a < b /\ waiters'[a] = e /\ waiters'[b] = d
    <3>1. /\ i - k \in DOMAIN waiters' /\ waiters'[i - k] = e
          /\ j - k \in DOMAIN waiters' /\ waiters'[j - k] = d
      BY <1>5, <2>2
    <3>2. i - k < j - k
      BY <1>2, <2>2
    <3>. QED BY <3>1, <3>2
  <2>. QED BY <2>1, <2>2
<1>. HIDE DEF f
<1>7. Line' = [d \in Pending \ {f} |-> Line[d] \ {f}]
  BY <1>1, <1>3, <1>6, LeaveLine
<1>. QED BY <1>1, <1>3, <1>4, <1>7 DEF f

LEMMA StepRefines ==
  ASSUME IInv, [Next]_vars
  PROVE  [Abstract!Next]_(Abstract!vars)
<1>0. DOMAIN Line = Pending /\ Line = [c \in Pending |-> Ahead(c)]
  BY DEF Line
<1>. DEFINE AWaiting == DOMAIN Line
<1>1. ASSUME NEW c \in Clients, Wait(c) PROVE Abstract!Acquire(c)
  <2>1. c \notin Out /\ c \notin Pending
    BY <1>1 DEF Wait, Out, Pending
  <2>2. CASE count > 0 /\ count' = count - 1 /\ client' = [client EXCEPT ![c] = "granted"] /\ UNCHANGED waiters
    <3>1. Out' = Out \cup {c} /\ Pending' = Pending
      BY <2>1, <2>2 DEF Out, Pending, IInv, TypeOK
    <3>2. Line' = Line
      BY <2>2, <3>1, SameLine
    <3>. QED BY <2>1, <2>2, <3>1, <3>2 DEF Abstract!Acquire, Abstract!Waiting, Line
  <2>3. CASE /\ count <= 0 /\ waiters' = Append(waiters, c)
             /\ client' = [client EXCEPT ![c] = "waiting"] /\ UNCHANGED count
    <3>1. Out' = Out /\ Pending' = Pending \cup {c}
      BY <2>1, <2>3 DEF Out, Pending, IInv, TypeOK
    <3>2. Line' = [d \in Pending \cup {c} |-> IF d = c THEN Pending ELSE Ahead(d)]
      BY <2>1, <2>3, <3>1, JoinLine
    <3>3. ~(count > 0)
      BY <2>3 DEF IInv, TypeOK
    <3>. QED BY <2>1, <2>3, <3>1, <3>2, <3>3 DEF Abstract!Acquire, Abstract!Waiting, Line
  <2>. QED BY <1>1, <2>2, <2>3 DEF Wait
<1>2. ASSUME NEW c \in Clients, GetPermit(c) \/ DropBroken(c) PROVE UNCHANGED Abstract!vars
  <2>1. Out' = Out /\ Pending' = Pending /\ count' = count /\ waiters' = waiters
    BY <1>2 DEF GetPermit, DropBroken, Out, Pending, IInv, TypeOK
  <2>2. Line' = Line
    BY <2>1, SameLine
  <2>. QED BY <2>1, <2>2 DEF Abstract!vars, Line
<1>3. ASSUME NEW c \in Clients, Abandon(c) PROVE Abstract!GiveUp(c)
  <2>1. count' = count
    BY <1>3 DEF Abandon
  <2>. QED BY <1>3, <2>1, GiveUpLine DEF Abstract!GiveUp, Abstract!Leave, Abstract!Waiting, Line
<1>4. ASSUME NEW c \in Clients, DropPermit(c) PROVE Abstract!Return(c)
  <2>1. c \in Out
    BY <1>4 DEF DropPermit
  <2>2. CASE /\ \A i \in DOMAIN waiters : waiters[i] = Gone
             /\ count' = count + 1 /\ waiters' = <<>> /\ client' = [client EXCEPT ![c] = "none"]
    <3>1. Pending = {}
      BY <2>2, InLine DEF Pending
    <3>2. Out' = Out \ {c} /\ Pending' = {}
      BY <2>1, <2>2, <3>1 DEF Out, Pending, IInv, TypeOK
    <3>3. Line' = Line
      BY <3>1, <3>2 DEF Line
    <3>. QED BY <2>1, <2>2, <3>1, <3>2, <3>3 DEF Abstract!Return, Abstract!Waiting, Line
  <2>3. CASE \E k \in DOMAIN waiters :
               /\ waiters[k] # Gone
               /\ \A i \in 1 .. k - 1 : waiters[i] = Gone
               /\ waiters' = SubSeq(waiters, k + 1, Len(waiters))
               /\ client' = [client EXCEPT ![c] = "none", ![waiters[k]] = "granted"]
               /\ UNCHANGED count
    <3>1. PICK k \in DOMAIN waiters :
               /\ waiters[k] # Gone
               /\ \A i \in 1 .. k - 1 : waiters[i] = Gone
               /\ waiters' = SubSeq(waiters, k + 1, Len(waiters))
               /\ client' = [client EXCEPT ![c] = "none", ![waiters[k]] = "granted"]
               /\ UNCHANGED count
      BY <2>3
    <3>. DEFINE f == waiters[k]
    <3>2. /\ f \in Pending /\ Line[f] = {} /\ Out' = (Out \ {c}) \cup {f}
          /\ Line' = [d \in Pending \ {f} |-> Line[d] \ {f}]
      BY <2>1, <3>1, HandOverLine
    <3>. HIDE DEF f
    <3>. QED BY <2>1, <3>1, <3>2 DEF Abstract!Return, Abstract!Leave, Abstract!Waiting, Line
  <2>. QED BY <1>4, <2>2, <2>3 DEF DropPermit, SignalFrom
<1>5. ASSUME NEW c \in Clients, CancelPermit(c) PROVE Abstract!Cancel(c)
  <2>1. c \in Out /\ Out' = Out \ {c} /\ Pending' = Pending /\ count' = count /\ waiters' = waiters
    BY <1>5 DEF CancelPermit, Out, Pending, IInv, TypeOK
  <2>2. Line' = Line
    BY <2>1, SameLine
  <2>. QED BY <2>1, <2>2 DEF Abstract!Cancel, Line
<1>6. CASE Destroy
  <2>1. Pending' = {} /\ Out' = Out /\ count' = count
    BY <1>6 DEF Destroy, Pending, Out, IInv, TypeOK
  <2>2. Line' = [c \in {} |-> {}]
    BY <2>1 DEF Line
  <2>. QED BY <2>1, <2>2 DEF Abstract!Next, Abstract!Close, Line
<1>7. CASE UNCHANGED vars
  <2>1. Out' = Out /\ Pending' = Pending /\ count' = count /\ waiters' = waiters
    BY <1>7 DEF vars, Out, Pending
  <2>2. Line' = Line
    BY <2>1, SameLine
  <2>. QED BY <2>1, <2>2 DEF Abstract!vars, Line
<1>. QED BY <1>1, <1>2, <1>3, <1>4, <1>5, <1>6, <1>7 DEF Next, Abstract!Next

(***************************************************************************)
(* The semaphore implements SemaphoreSpec, its fairness aside: permits are *)
(* handed out first come first served, each that comes back to one client  *)
(* that still waits, however many promises were given up in between.       *)
(***************************************************************************)
THEOREM Refinement == Spec => Abstract!Safety
<1>1. Init => Abstract!Init
  <2>1. Init => Pending = {} /\ Out = {} /\ count = Count
    BY DEF Init, Pending, Out
  <2>2. Init => Line = [c \in {} |-> {}]
    BY <2>1 DEF Line
  <2>. QED BY <2>1, <2>2 DEF Abstract!Init, Line
<1>. QED BY <1>1, InitInv, StepInv, StepRefines, PTL DEF Spec, Abstract!Safety

=============================================================================
