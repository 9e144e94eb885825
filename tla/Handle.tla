------------------------------- MODULE Handle -------------------------------
(***************************************************************************)
(* File, Socket, Client and Server (lib/reactor/io/file.cc, socket.cc):    *)
(* objects that own a descriptor, the coroutines that operate on them, and *)
(* the kernel's table of descriptors, which uses numbers again.            *)
(*                                                                         *)
(* The four classes are one here: Client and Server forward to the Socket  *)
(* they hold.  A coroutine reads _fd when it prepares its request and, to  *)
(* close, writes it when it is resumed; anything may happen in between.    *)
(***************************************************************************)
EXTENDS Integers, FiniteSets

CONSTANTS Handles,     \* the objects
          Coros,       \* coroutines, each in one operation at a time
          Fds, NoFd,   \* descriptor numbers, and -1
          MaxOpens,    \* bound on the openings of each number
          Exclusive    \* whether programs close, move and end only objects
                       \* nobody operates on, and leave alone one that closes

ASSUME HandlesAssumption == /\ IsFiniteSet(Handles) /\ IsFiniteSet(Fds)
                            /\ NoFd \notin Fds
                            /\ MaxOpens \in Nat
                            /\ Exclusive \in BOOLEAN

VARIABLES
  fd,       \* _fd of each object
  opened,   \* the numbers that are open
  opens,    \* how often each number was opened: which description it names
  op,       \* the operation of each coroutine
  life,     \* "running" or "panicked"
  strayed,  \* history: an operation has hit a description it was not meant for
  leaked    \* history: open numbers that nobody holds any more

vars == <<fd, opened, opens, op, life, strayed, leaked>>

\* An operation: what it does, how far it is, the object it is called on or
\* whose value it makes, and the descriptor it captured or was given.
Kinds  == {"none", "use", "close", "open", "listen", "socket", "connect"}
Idle   == [kind |-> "none", stage |-> "idle", on |-> NoFd, fd |-> NoFd, nth |-> 0]

Operation(kind, stage, h, f, n) ==
  [kind |-> kind, stage |-> stage, on |-> h, fd |-> f, nth |-> n]

Init == /\ fd      = [h \in Handles |-> NoFd]
        /\ opened  = {}
        /\ opens   = [f \in Fds |-> 0]
        /\ op      = [c \in Coros |-> Idle]
        /\ life    = "running"
        /\ strayed = FALSE
        /\ leaked  = {}

Closing(h) == \E c \in Coros : op[c].kind = "close" /\ op[c].on = h
Busy(h)    == \E c \in Coros : op[c].kind # "none"  /\ op[c].on = h

Nth(f) == IF f = NoFd THEN 0 ELSE opens[f]

Become(c, o) == op' = [op EXCEPT ![c] = o]

-----------------------------------------------------------------------------
(* Calls: each runs up to its first request and suspends                   *)

\* read, write, fsync, fdatasync and accept.
Use(c, h) ==
  /\ life = "running" /\ op[c] = Idle
  /\ Exclusive => ~Closing(h)
  /\ Become(c, Operation("use", "submitted", h, fd[h], Nth(fd[h])))
  /\ UNCHANGED <<fd, opened, opens, life, strayed, leaked>>

\* close; on an object without a descriptor it throws at once.
Close(c, h) ==
  /\ life = "running" /\ op[c] = Idle
  /\ Exclusive => ~Busy(h)
  /\ fd[h] # NoFd
  /\ Become(c, Operation("close", "submitted", h, fd[h], Nth(fd[h])))
  /\ UNCHANGED <<fd, opened, opens, life, strayed, leaked>>

\* File::open and make_accept ("open"), make_tcp_listener ("listen") and
\* make_tcp_connect ("socket"): the value they make goes to h.
Make(c, h, kind) ==
  /\ life = "running" /\ op[c] = Idle
  /\ Exclusive => ~Closing(h)
  /\ kind \in {"open", "listen", "socket"}
  /\ Become(c, Operation(kind, "submitted", h, NoFd, 0))
  /\ UNCHANGED <<fd, opened, opens, life, strayed, leaked>>

-----------------------------------------------------------------------------
(* The kernel carries the requests out in any order                        *)

\* The descriptor is looked up only now.
Hits(o) == o.fd # NoFd => o.fd \in opened /\ opens[o.fd] = o.nth

KernelUse(c) ==
  /\ op[c].kind \in {"use", "connect"} /\ op[c].stage = "submitted"
  /\ \E stage \in {"done", "failed"} : Become(c, [op[c] EXCEPT !.stage = stage])
  /\ strayed' = (strayed \/ ~Hits(op[c]))
  /\ UNCHANGED <<fd, opened, opens, life, leaked>>

\* The number is free again even when close reports an error.
KernelClose(c) ==
  /\ op[c].kind = "close" /\ op[c].stage = "submitted"
  /\ \E stage \in {"done", "failed"} : Become(c, [op[c] EXCEPT !.stage = stage])
  /\ opened'  = opened \ {op[c].fd}
  /\ strayed' = (strayed \/ ~Hits(op[c]))
  /\ UNCHANGED <<fd, opens, life, leaked>>

KernelOpen(c) ==
  /\ op[c].kind \in {"open", "listen", "socket"} /\ op[c].stage = "submitted"
  /\ \/ /\ Become(c, [op[c] EXCEPT !.stage = "failed"])
        /\ UNCHANGED <<opened, opens>>
     \/ \E f \in Fds \ opened :
          /\ opens[f] < MaxOpens
          /\ opened' = opened \cup {f}
          /\ opens'  = [opens EXCEPT ![f] = @ + 1]
          /\ Become(c, [op[c] EXCEPT !.stage = "done", !.fd = f, !.nth = opens'[f]])
  /\ UNCHANGED <<fd, life, strayed, leaked>>

-----------------------------------------------------------------------------
(* The coroutines are resumed                                              *)

\* An object gets the descriptor f: ~File and ~Socket run first.
Assign(h, f) == IF fd[h] = NoFd
                THEN fd' = [fd EXCEPT ![h] = f] /\ UNCHANGED life
                ELSE life' = "panicked" /\ UNCHANGED fd

FinishUse(c) ==
  /\ life = "running"
  /\ op[c].kind = "use" /\ op[c].stage \in {"done", "failed"}
  /\ Become(c, Idle)
  /\ UNCHANGED <<fd, opened, opens, life, strayed, leaked>>

\* Mutant of FinishClose: a close that failed leaves _fd as it is.
FinishCloseOnSuccess(c) ==
  /\ life = "running"
  /\ op[c].kind = "close" /\ op[c].stage \in {"done", "failed"}
  /\ fd' = [fd EXCEPT ![op[c].on] = IF op[c].stage = "done" THEN NoFd ELSE @]
  /\ Become(c, Idle)
  /\ UNCHANGED <<opened, opens, life, strayed, leaked>>

\* _fd is forgotten, then the error, if any, is thrown.
FinishClose(c) ==
  /\ life = "running"
  /\ op[c].kind = "close" /\ op[c].stage \in {"done", "failed"}
  /\ fd' = [fd EXCEPT ![op[c].on] = NoFd]
  /\ Become(c, Idle)
  /\ UNCHANGED <<opened, opens, life, strayed, leaked>>

\* Mutant of FinishMake: the result is not tested.
FinishMakeUnchecked(c) ==
  /\ life = "running"
  /\ op[c].kind \in {"open", "listen", "connect"} /\ op[c].stage \in {"done", "failed"}
  /\ Become(c, Idle)
  /\ Assign(op[c].on, IF op[c].stage = "done" THEN op[c].fd ELSE "errno")
  /\ UNCHANGED <<opened, opens, strayed, leaked>>

\* The last step of make_*: the object, or an exception.  The descriptor a
\* failed connect, setsockopt, bind or listen leaves behind is not closed.
FinishMake(c) ==
  /\ life = "running"
  /\ op[c].kind \in {"open", "listen", "connect"} /\ op[c].stage \in {"done", "failed"}
  /\ Become(c, Idle)
  /\ \/ /\ op[c].stage = "done"
        /\ Assign(op[c].on, op[c].fd)
        /\ UNCHANGED leaked
     \/ /\ op[c].stage = "failed" \/ op[c].kind = "listen"
        /\ leaked' = leaked \cup ({op[c].fd} \ {NoFd})
        /\ UNCHANGED <<fd, life>>
  /\ UNCHANGED <<opened, opens, strayed>>

\* make_tcp_connect has its socket, and goes on to connect it, or throws.
ConnectSocket(c) ==
  /\ life = "running"
  /\ op[c].kind = "socket" /\ op[c].stage \in {"done", "failed"}
  /\ Become(c, IF op[c].stage = "done"
               THEN [op[c] EXCEPT !.kind = "connect", !.stage = "submitted"]
               ELSE Idle)
  /\ UNCHANGED <<fd, opened, opens, life, strayed, leaked>>

-----------------------------------------------------------------------------
(* Values move and end                                                     *)

\* Mutant of Move: the descriptor stays with the source, too.
MoveAsCopy(g, h) ==
  /\ life = "running"
  /\ Exclusive => ~Busy(g) /\ ~Busy(h)
  /\ g # h
  /\ IF fd[g] = NoFd
     THEN fd' = [fd EXCEPT ![g] = fd[h]] /\ UNCHANGED life
     ELSE life' = "panicked" /\ UNCHANGED fd
  /\ UNCHANGED <<opened, opens, op, strayed, leaked>>

\* g = std::move(h): ~File or ~Socket of g, then the move constructor.
Move(g, h) ==
  /\ life = "running"
  /\ Exclusive => ~Busy(g) /\ ~Busy(h)
  /\ g # h
  /\ IF fd[g] = NoFd
     THEN fd' = [fd EXCEPT ![g] = fd[h], ![h] = NoFd] /\ UNCHANGED life
     ELSE life' = "panicked" /\ UNCHANGED fd
  /\ UNCHANGED <<opened, opens, op, strayed, leaked>>

\* ~File, ~Socket and ~Server of an object that has a descriptor; without
\* one they do nothing.
Destroy(h) ==
  /\ life = "running"
  /\ Exclusive => ~Busy(h)
  /\ fd[h] # NoFd
  /\ life' = "panicked"
  /\ UNCHANGED <<fd, opened, opens, op, strayed, leaked>>

-----------------------------------------------------------------------------
Call(c)   == \E h \in Handles :
               \/ Use(c, h) \/ Close(c, h)
               \/ \E kind \in Kinds : Make(c, h, kind)
Kernel(c) == life = "running" /\ (KernelUse(c) \/ KernelClose(c) \/ KernelOpen(c))
Resume(c) == FinishUse(c) \/ FinishClose(c) \/ FinishMake(c) \/ ConnectSocket(c)

Next == \/ \E c \in Coros : Call(c) \/ Kernel(c) \/ Resume(c)
        \/ \E h \in Handles : Destroy(h) \/ \E g \in Handles : Move(g, h)

Spec == Init /\ [][Next]_vars

-----------------------------------------------------------------------------
(* Properties                                                              *)

Operations == [kind : Kinds, stage : {"idle", "submitted", "done", "failed"},
               on : Handles \cup {NoFd}, fd : Fds \cup {NoFd}, nth : 0 .. MaxOpens]

TypeOK == /\ fd      \in [Handles -> Fds \cup {NoFd}]
          /\ opened  \subseteq Fds
          /\ opens   \in [Fds -> 0 .. MaxOpens]
          /\ op      \in [Coros -> Operations]
          /\ life    \in {"running", "panicked"}
          /\ strayed \in BOOLEAN
          /\ leaked  \subseteq Fds

\* Who holds the number f: objects, but for one whose close was carried out
\* and not reported yet, and coroutines that are making one.
Closed(h)  == \E c \in Coros :
                op[c].kind = "close" /\ op[c].stage # "submitted" /\ op[c].on = h
Holders(f) == {h \in Handles : fd[h] = f /\ ~Closed(h)}
Makers(f)  == {c \in Coros : op[c].fd = f /\ op[c].kind \notin {"none", "use", "close"}}

(***************************************************************************)
(* Programs that keep to Exclusive never reach a description that is not   *)
(* theirs, although the kernel gives numbers out again between the call    *)
(* that read _fd and the resumption that forgets it.                       *)
(***************************************************************************)
NoOperationStrays == ~strayed

(***************************************************************************)
(* An open number is held exactly once, unless a failed set-up left it,    *)
(* and a number that is held is open.                                      *)
(***************************************************************************)
HeldOnce ==
  life = "running" => \A f \in Fds :
    /\ f \in opened \ leaked => Cardinality(Holders(f)) + Cardinality(Makers(f)) = 1
    /\ f \notin opened => Holders(f) = {}

=============================================================================
