--------------------------- MODULE SemaphoreSpec ----------------------------
(***************************************************************************)
(* What Semaphore promises (lib/reactor/sync.hh): permits that are handed  *)
(* out in the order they were asked for, one hand-over per permit that     *)
(* comes back, and a client that gives up waiting leaves no trace.         *)
(***************************************************************************)
EXTENDS Integers

CONSTANTS Clients, Count

VARIABLES free,    \* permits nobody has
          ahead,   \* for each client that waits, those who asked before it
          owners   \* clients with a permit

vars == <<free, ahead, owners>>

Waiting == DOMAIN ahead

Init == free = Count /\ ahead = [c \in {} |-> {}] /\ owners = {}

\* One who waits does so no more, and nobody is behind it.
Leave(c) == ahead' = [d \in Waiting \ {c} |-> ahead[d] \ {c}]

Acquire(c) == /\ c \notin owners \cup Waiting
              /\ IF free > 0
                 THEN /\ free'   = free - 1
                      /\ owners' = owners \cup {c}
                      /\ UNCHANGED ahead
                 ELSE /\ ahead' = [d \in Waiting \cup {c} |->
                                     IF d = c THEN Waiting ELSE ahead[d]]
                      /\ UNCHANGED <<free, owners>>

GiveUp(c) == c \in Waiting /\ Leave(c) /\ UNCHANGED <<free, owners>>

Return(c) == /\ c \in owners
             /\ \/ /\ Waiting = {}
                   /\ free'   = free + 1
                   /\ owners' = owners \ {c}
                   /\ UNCHANGED ahead
                \/ \E d \in Waiting :
                     /\ ahead[d] = {}
                     /\ Leave(d)
                     /\ owners' = (owners \ {c}) \cup {d}
                     /\ UNCHANGED free

\* The owner keeps the permit for good.
Cancel(c) == /\ c \in owners
             /\ owners' = owners \ {c}
             /\ UNCHANGED <<free, ahead>>

\* The semaphore goes away: whoever still waits is told so.
Close == ahead' = [c \in {} |-> {}] /\ UNCHANGED <<free, owners>>

Next == Close \/ \E c \in Clients : Acquire(c) \/ GiveUp(c) \/ Return(c) \/ Cancel(c)

Safety == Init /\ [][Next]_vars

Spec == Safety /\ \A c \in Clients : WF_vars(Return(c))

=============================================================================
