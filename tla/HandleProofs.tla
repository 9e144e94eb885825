---------------------------- MODULE HandleProofs ----------------------------
(***************************************************************************)
(* Programs that keep to Exclusive never operate on a description that is  *)
(* not theirs, and every open number has one owner, for any number of      *)
(* objects, coroutines and descriptors.                                    *)
(*                                                                         *)
(* The invariant says, for each stage of each operation, what the operation*)
(* knows of the number it captured: a close is alone on its object; a use  *)
(* has the number its object still has; a maker has a number that nobody   *)
(* else has.  It is about running programs only: after a panic nothing     *)
(* happens any more.                                                       *)
(***************************************************************************)
EXTENDS Handle, FiniteSetTheorems, TLAPS

Held(h)   == fd[h] # NoFd /\ ~Closed(h)
Making(c) == op[c].kind \in {"open", "listen", "socket", "connect"}

\* A close is the only operation on its object.
CloseIsAlone ==
  \A c \in Coros : op[c].kind = "close" =>
    /\ op[c].on \in Handles
    /\ op[c].fd # NoFd /\ op[c].fd = fd[op[c].on]
    /\ op[c].stage = "submitted" => op[c].nth = opens[op[c].fd]
    /\ \A d \in Coros : op[d].kind # "none" /\ op[d].on = op[c].on => d = c

\* A use has the number of its object, if it has one.
UseIsCurrent ==
  \A c \in Coros : op[c].kind = "use" =>
    /\ op[c].on \in Handles
    /\ op[c].fd # NoFd => op[c].fd = fd[op[c].on] /\ op[c].nth = opens[op[c].fd]

\* A maker has a number from the moment the kernel gave it one.
MakerIsCurrent ==
  \A c \in Coros : Making(c) =>
    /\ op[c].on \in Handles
    /\ op[c].fd = NoFd <=> op[c].kind # "connect" /\ op[c].stage # "done"
    /\ op[c].fd # NoFd => op[c].fd \in opened /\ op[c].nth = opens[op[c].fd]

\* Nobody holds what another holds, and what is held is open.
OneHolder ==
  /\ \A h \in Handles : Held(h) => fd[h] \in opened
  /\ \A g, h \in Handles : Held(g) /\ Held(h) /\ fd[g] = fd[h] => g = h
  /\ \A c, d \in Coros :
       Making(c) /\ Making(d) /\ op[c].fd = op[d].fd /\ op[c].fd # NoFd => c = d
  /\ \A h \in Handles, c \in Coros : Held(h) /\ Making(c) => fd[h] # op[c].fd

\* What is open is held, or was left behind.
NoneForgotten ==
  \A f \in opened \ leaked : \/ \E h \in Handles : Held(h) /\ fd[h] = f
                             \/ \E c \in Coros : Making(c) /\ op[c].fd = f

Owning == CloseIsAlone /\ UseIsCurrent /\ MakerIsCurrent /\ OneHolder /\ NoneForgotten

IInv == TypeOK /\ NoOperationStrays /\ (life = "running" => Owning)

(***************************************************************************)
(* There is nothing in the initial state.                                  *)
(***************************************************************************)
LEMMA InitInv == Init => IInv
<1>. SUFFICES ASSUME Init PROVE IInv
  OBVIOUS
<1>1. TypeOK
  <2>1. Idle \in Operations
    BY HandlesAssumption DEF Operations, Kinds, Idle
  <2>2. 0 \in 0 .. MaxOpens
    BY HandlesAssumption
  <2>. QED BY <2>1, <2>2 DEF Init, TypeOK
<1>2. /\ \A c \in Coros : op[c].kind = "none"
      /\ \A h \in Handles : fd[h] = NoFd
      /\ opened = {}
  BY DEF Init, Idle
<1>3. Owning
  BY <1>2 DEF Owning, CloseIsAlone, UseIsCurrent, MakerIsCurrent, OneHolder,
              NoneForgotten, Held, Making
<1>. QED BY <1>1, <1>3 DEF Init, IInv, NoOperationStrays

(***************************************************************************)
(* No kernel step that an operation waits for strays.                      *)
(***************************************************************************)
LEMMA OperationsHit ==
  ASSUME TypeOK, Owning, NEW c \in Coros, op[c].stage = "submitted",
         op[c].kind \in {"use", "connect", "close"}
  PROVE  Hits(op[c])
<1>1. CASE op[c].kind = "connect"
  BY <1>1 DEF Owning, MakerIsCurrent, Making, Hits
<1>2. CASE op[c].kind = "close"
  <2>1. ~Closed(op[c].on)
    BY <1>2 DEF Owning, CloseIsAlone, Closed
  <2>. QED BY <1>2, <2>1 DEF Owning, CloseIsAlone, OneHolder, Held, Hits
<1>3. CASE op[c].kind = "use"
  <2>1. ~Closed(op[c].on)
    BY <1>3 DEF Owning, CloseIsAlone, Closed
  <2>. QED BY <1>3, <2>1 DEF Owning, UseIsCurrent, OneHolder, Held, Hits
<1>. QED BY <1>1, <1>2, <1>3

(***************************************************************************)
(* A coroutine begins an operation on an object that is not being closed,  *)
(* with the number the object has or none; a close begins on an object     *)
(* nobody operates on.                                                     *)
(***************************************************************************)
LEMMA UseInv ==
  ASSUME TypeOK, Owning, Exclusive, NEW c \in Coros, NEW h \in Handles, Use(c, h)
  PROVE  (TypeOK /\ Owning)'
<1>1. /\ op[c].kind = "none"
      /\ op' = [op EXCEPT ![c] = Operation("use", "submitted", h, fd[h], Nth(fd[h]))]
      /\ UNCHANGED <<fd, opened, opens, life, strayed, leaked>>
      /\ ~Closing(h)
  BY DEF Use, Become, Idle
<1>2. op'[c] = Operation("use", "submitted", h, fd[h], Nth(fd[h])) /\ \A d \in Coros \ {c} : op'[d] = op[d]
  BY <1>1 DEF TypeOK
<1>3. /\ op'[c].kind = "use" /\ op'[c].stage = "submitted" /\ op'[c].on = h
      /\ op'[c].fd = fd[h] /\ op'[c].nth = Nth(fd[h])
  BY <1>2 DEF Operation
<1>4. TypeOK'
  <2>1. Nth(fd[h]) \in 0 .. MaxOpens
    BY HandlesAssumption DEF TypeOK, Nth
  <2>2. op'[c] \in Operations
    BY <1>2, <2>1 DEF TypeOK, Operations, Operation, Kinds
  <2>. QED BY <1>1, <2>2 DEF TypeOK
<1>5. \A d \in Coros : /\ Making(d)' <=> Making(d)
                       /\ Making(d) => op'[d] = op[d]
                       /\ op'[d].kind = "close" => op'[d] = op[d] /\ op[d].on # h
                       /\ op[d].kind = "close" => op'[d] = op[d]
  BY <1>1, <1>2, <1>3 DEF Making, Closing
<1>6. \A g \in Handles : Held(g)' <=> Held(g)
  BY <1>1, <1>5 DEF Held, Closed
<1>7. CloseIsAlone'
  BY <1>1, <1>2, <1>3, <1>5 DEF Owning, CloseIsAlone
<1>8. UseIsCurrent'
  BY <1>1, <1>2, <1>3 DEF Owning, UseIsCurrent, Nth
<1>9. MakerIsCurrent'
  BY <1>1, <1>5 DEF Owning, MakerIsCurrent
<1>10. OneHolder'
  BY <1>1, <1>5, <1>6 DEF Owning, OneHolder
<1>11. NoneForgotten'
  BY <1>1, <1>5, <1>6 DEF Owning, NoneForgotten
<1>. QED BY <1>4, <1>7, <1>8, <1>9, <1>10, <1>11 DEF Owning

LEMMA CloseInv ==
  ASSUME TypeOK, Owning, Exclusive, NEW c \in Coros, NEW h \in Handles, Close(c, h)
  PROVE  (TypeOK /\ Owning)'
<1>1. /\ op[c].kind = "none" /\ fd[h] # NoFd
      /\ op' = [op EXCEPT ![c] = Operation("close", "submitted", h, fd[h], Nth(fd[h]))]
      /\ UNCHANGED <<fd, opened, opens, life, strayed, leaked>>
      /\ ~Busy(h)
  BY DEF Close, Become, Idle
<1>2. op'[c] = Operation("close", "submitted", h, fd[h], Nth(fd[h])) /\ \A d \in Coros \ {c} : op'[d] = op[d]
  BY <1>1 DEF TypeOK
<1>3. /\ op'[c].kind = "close" /\ op'[c].stage = "submitted" /\ op'[c].on = h
      /\ op'[c].fd = fd[h] /\ op'[c].nth = opens[fd[h]]
  BY <1>1, <1>2 DEF Operation, Nth
<1>4. TypeOK'
  <2>1. Nth(fd[h]) \in 0 .. MaxOpens
    BY HandlesAssumption DEF TypeOK, Nth
  <2>2. op'[c] \in Operations
    BY <1>2, <2>1 DEF TypeOK, Operations, Operation, Kinds
  <2>. QED BY <1>1, <2>2 DEF TypeOK
<1>5. \A d \in Coros : /\ Making(d)' <=> Making(d)
                       /\ Making(d) => op'[d] = op[d]
                       /\ op'[d].kind = "use" => op'[d] = op[d]
                       /\ op[d].kind # "none" => op'[d] = op[d] /\ op[d].on # h
  BY <1>1, <1>2, <1>3 DEF Making, Busy
<1>6. \A g \in Handles : Held(g)' <=> Held(g)
  BY <1>1, <1>2, <1>3 DEF Held, Closed
<1>7. CloseIsAlone'
  BY <1>1, <1>2, <1>3, <1>5 DEF Owning, CloseIsAlone
<1>8. UseIsCurrent'
  BY <1>1, <1>5 DEF Owning, UseIsCurrent
<1>9. MakerIsCurrent'
  BY <1>1, <1>5 DEF Owning, MakerIsCurrent
<1>10. OneHolder'
  BY <1>1, <1>5, <1>6 DEF Owning, OneHolder
<1>11. NoneForgotten'
  BY <1>1, <1>5, <1>6 DEF Owning, NoneForgotten
<1>. QED BY <1>4, <1>7, <1>8, <1>9, <1>10, <1>11 DEF Owning

LEMMA MakeInv ==
  ASSUME TypeOK, Owning, Exclusive, NEW c \in Coros, NEW h \in Handles, NEW kind, Make(c, h, kind)
  PROVE  (TypeOK /\ Owning)'
<1>1. /\ op[c].kind = "none" /\ kind \in {"open", "listen", "socket"}
      /\ op' = [op EXCEPT ![c] = Operation(kind, "submitted", h, NoFd, 0)]
      /\ UNCHANGED <<fd, opened, opens, life, strayed, leaked>>
      /\ ~Closing(h)
  BY DEF Make, Become, Idle
<1>2. op'[c] = Operation(kind, "submitted", h, NoFd, 0) /\ \A d \in Coros \ {c} : op'[d] = op[d]
  BY <1>1 DEF TypeOK
<1>3. /\ op'[c].kind = kind /\ op'[c].stage = "submitted" /\ op'[c].on = h
      /\ op'[c].fd = NoFd
  BY <1>2 DEF Operation
<1>4. TypeOK'
  <2>1. 0 \in 0 .. MaxOpens
    BY HandlesAssumption
  <2>2. op'[c] \in Operations
    BY <1>1, <1>2, <2>1 DEF Operations, Operation, Kinds
  <2>. QED BY <1>1, <2>2 DEF TypeOK
<1>5. \A d \in Coros : /\ Making(d)' /\ op'[d].fd # NoFd => Making(d) /\ op'[d] = op[d]
                       /\ Making(d) => Making(d)' /\ op'[d] = op[d]
                       /\ op'[d].kind \in {"use", "close"} => op'[d] = op[d]
                       /\ op[d].kind \in {"use", "close"} => op'[d] = op[d]
                       /\ op[d].kind = "close" => op[d].on # h
  BY <1>1, <1>2, <1>3 DEF Making, Closing
<1>6. \A g \in Handles : Held(g)' <=> Held(g)
  BY <1>1, <1>5 DEF Held, Closed
<1>7. CloseIsAlone'
  BY <1>1, <1>2, <1>3, <1>5 DEF Owning, CloseIsAlone
<1>8. UseIsCurrent'
  BY <1>1, <1>5 DEF Owning, UseIsCurrent
<1>9. MakerIsCurrent'
  BY <1>1, <1>2, <1>3 DEF Owning, MakerIsCurrent, Making
<1>10. OneHolder'
  BY <1>1, <1>5, <1>6 DEF Owning, OneHolder, Held
<1>11. NoneForgotten'
  BY <1>1, <1>5, <1>6 DEF Owning, NoneForgotten
<1>. QED BY <1>4, <1>7, <1>8, <1>9, <1>10, <1>11 DEF Owning

(***************************************************************************)
(* The kernel carries a use or a connect out: nobody's number changes.     *)
(***************************************************************************)
LEMMA KernelUseInv ==
  ASSUME TypeOK, Owning, NEW c \in Coros, KernelUse(c)
  PROVE  (TypeOK /\ Owning)' /\ strayed' = strayed
<1>1. PICK stage \in {"done", "failed"} :
        /\ op[c].kind \in {"use", "connect"} /\ op[c].stage = "submitted"
        /\ op' = [op EXCEPT ![c] = [op[c] EXCEPT !.stage = stage]]
        /\ UNCHANGED <<fd, opened, opens, life, leaked>>
        /\ strayed' = (strayed \/ ~Hits(op[c]))
  BY DEF KernelUse, Become
<1>2. op'[c] = [op[c] EXCEPT !.stage = stage] /\ \A d \in Coros \ {c} : op'[d] = op[d]
  BY <1>1 DEF TypeOK
<1>3. op[c] \in Operations
  BY DEF TypeOK
<1>4. /\ op'[c].kind = op[c].kind /\ op'[c].stage = stage /\ op'[c].on = op[c].on
      /\ op'[c].fd = op[c].fd /\ op'[c].nth = op[c].nth /\ op'[c] \in Operations
  BY <1>2, <1>3 DEF Operations
<1>5. strayed' = strayed
  BY <1>1, OperationsHit DEF TypeOK
<1>6. TypeOK'
  BY <1>1, <1>4, <1>5 DEF TypeOK
<1>7. \A d \in Coros : /\ Making(d)' <=> Making(d)
                       /\ op'[d].kind = op[d].kind /\ op'[d].on = op[d].on
                       /\ op'[d].fd = op[d].fd /\ op'[d].nth = op[d].nth
                       /\ op[d].kind \notin {"use", "connect"} => op'[d] = op[d]
  BY <1>1, <1>2, <1>4 DEF Making
<1>8. \A g \in Handles : Held(g)' <=> Held(g)
  BY <1>1, <1>7 DEF Held, Closed
<1>9. CloseIsAlone' /\ UseIsCurrent'
  BY <1>1, <1>7 DEF Owning, CloseIsAlone, UseIsCurrent
<1>10. MakerIsCurrent'
  BY <1>1, <1>7 DEF Owning, MakerIsCurrent, Making
<1>11. OneHolder' /\ NoneForgotten'
  BY <1>1, <1>7, <1>8 DEF Owning, OneHolder, NoneForgotten
<1>. QED BY <1>5, <1>6, <1>9, <1>10, <1>11 DEF Owning

(***************************************************************************)
(* A number is closed: its object holds it no more, before it knows.       *)
(***************************************************************************)
LEMMA KernelCloseInv ==
  ASSUME TypeOK, Owning, NEW c \in Coros, KernelClose(c)
  PROVE  (TypeOK /\ Owning)' /\ strayed' = strayed
<1>1. PICK stage \in {"done", "failed"} :
        /\ op[c].kind = "close" /\ op[c].stage = "submitted"
        /\ op' = [op EXCEPT ![c] = [op[c] EXCEPT !.stage = stage]]
        /\ opened' = opened \ {op[c].fd}
        /\ UNCHANGED <<fd, opens, life, leaked>>
        /\ strayed' = (strayed \/ ~Hits(op[c]))
  BY DEF KernelClose, Become
<1>2. op'[c] = [op[c] EXCEPT !.stage = stage] /\ \A d \in Coros \ {c} : op'[d] = op[d]
  BY <1>1 DEF TypeOK
<1>3. op[c] \in Operations
  BY DEF TypeOK
<1>4. /\ op'[c].kind = "close" /\ op'[c].stage = stage /\ op'[c].on = op[c].on
      /\ op'[c].fd = op[c].fd /\ op'[c].nth = op[c].nth /\ op'[c] \in Operations
  BY <1>1, <1>2, <1>3 DEF Operations
<1>5. strayed' = strayed
  BY <1>1, OperationsHit DEF TypeOK
<1>6. TypeOK'
  BY <1>1, <1>4, <1>5 DEF TypeOK
<1> DEFINE h == op[c].on
<1>7. /\ h \in Handles /\ fd[h] = op[c].fd /\ fd[h] # NoFd
      /\ \A d \in Coros : op[d].kind # "none" /\ op[d].on = h => d = c
  BY <1>1 DEF Owning, CloseIsAlone
<1>8. Held(h)
  BY <1>1, <1>7 DEF Held, Closed
<1>9. ~Held(h)' /\ \A g \in Handles \ {h} : Held(g)' <=> Held(g)
  BY <1>1, <1>2, <1>4 DEF Held, Closed
<1>10. \A d \in Coros : /\ Making(d)' <=> Making(d)
                        /\ op'[d].kind = op[d].kind /\ op'[d].on = op[d].on
                        /\ op'[d].fd = op[d].fd /\ op'[d].nth = op[d].nth
                        /\ op[d].kind # "close" => op'[d] = op[d]
  BY <1>1, <1>2, <1>4 DEF Making
<1>11. CloseIsAlone'
  BY <1>1, <1>2, <1>4, <1>10 DEF Owning, CloseIsAlone
<1>12. UseIsCurrent'
  BY <1>1, <1>10 DEF Owning, UseIsCurrent
<1>13. MakerIsCurrent'
  BY <1>1, <1>7, <1>8, <1>10 DEF Owning, MakerIsCurrent, OneHolder
<1>14. OneHolder'
  BY <1>1, <1>7, <1>8, <1>9, <1>10 DEF Owning, OneHolder
<1>15. NoneForgotten'
  BY <1>1, <1>7, <1>9, <1>10 DEF Owning, NoneForgotten
<1>. QED BY <1>5, <1>6, <1>11, <1>12, <1>13, <1>14, <1>15 DEF Owning

(***************************************************************************)
(* A free number is opened for one maker, which nobody can have yet.       *)
(***************************************************************************)
LEMMA KernelOpenInv ==
  ASSUME TypeOK, Owning, NEW c \in Coros, KernelOpen(c)
  PROVE  (TypeOK /\ Owning)'
<1>1. /\ op[c].kind \in {"open", "listen", "socket"} /\ op[c].stage = "submitted"
      /\ UNCHANGED <<fd, life, strayed, leaked>>
      /\ op[c] \in Operations
      /\ op[c].fd = NoFd
  BY DEF KernelOpen, TypeOK, Owning, MakerIsCurrent, Making
<1>2. ASSUME op' = [op EXCEPT ![c] = [op[c] EXCEPT !.stage = "failed"]], UNCHANGED <<opened, opens>>
      PROVE  (TypeOK /\ Owning)'
  <2>1. op'[c] = [op[c] EXCEPT !.stage = "failed"] /\ \A d \in Coros \ {c} : op'[d] = op[d]
    BY <1>2 DEF TypeOK
  <2>2. /\ op'[c].kind = op[c].kind /\ op'[c].stage = "failed" /\ op'[c].on = op[c].on
        /\ op'[c].fd = NoFd /\ op'[c] \in Operations
    BY <1>1, <2>1 DEF Operations
  <2>3. TypeOK'
    BY <1>1, <1>2, <2>2 DEF TypeOK
  <2>4. \A d \in Coros : /\ Making(d)' <=> Making(d)
                         /\ op'[d].kind = op[d].kind /\ op'[d].on = op[d].on
                         /\ op'[d].fd = op[d].fd
                         /\ op[d].kind \in {"use", "close"} => op'[d] = op[d]
    BY <1>1, <2>1, <2>2 DEF Making
  <2>5. \A g \in Handles : Held(g)' <=> Held(g)
    BY <1>1, <2>4 DEF Held, Closed
  <2>6. CloseIsAlone' /\ UseIsCurrent'
    BY <1>1, <1>2, <2>4 DEF Owning, CloseIsAlone, UseIsCurrent
  <2>7. MakerIsCurrent'
    BY <1>1, <1>2, <2>1, <2>2 DEF Owning, MakerIsCurrent, Making
  <2>8. OneHolder' /\ NoneForgotten'
    BY <1>1, <1>2, <2>4, <2>5 DEF Owning, OneHolder, NoneForgotten
  <2>. QED BY <2>3, <2>6, <2>7, <2>8 DEF Owning
<1>3. ASSUME NEW f \in Fds \ opened, opens[f] < MaxOpens,
             opened' = opened \cup {f}, opens' = [opens EXCEPT ![f] = @ + 1],
             op' = [op EXCEPT ![c] = [op[c] EXCEPT !.stage = "done", !.fd = f, !.nth = opens'[f]]]
      PROVE  (TypeOK /\ Owning)'
  <2>1. op'[c] = [op[c] EXCEPT !.stage = "done", !.fd = f, !.nth = opens'[f]]
        /\ \A d \in Coros \ {c} : op'[d] = op[d]
    BY <1>3 DEF TypeOK
  <2>2. opens' \in [Fds -> 0 .. MaxOpens] /\ \A g \in Fds \ {f} : opens'[g] = opens[g]
    BY <1>3, HandlesAssumption DEF TypeOK
  <2>3. /\ op'[c].kind = op[c].kind /\ op'[c].stage = "done" /\ op'[c].on = op[c].on
        /\ op'[c].fd = f /\ op'[c].nth = opens'[f]
    BY <1>1, <2>1 DEF Operations
  <2>4. op'[c] \in Operations
    <3>1. opens'[f] \in 0 .. MaxOpens /\ f \in Fds \cup {NoFd}
      BY <2>2
    <3>2. ASSUME NEW o \in Operations, NEW n \in 0 .. MaxOpens, NEW g \in Fds \cup {NoFd}
          PROVE  [o EXCEPT !.stage = "done", !.fd = g, !.nth = n] \in Operations
      BY DEF Operations
    <3>3. [op[c] EXCEPT !.stage = "done", !.fd = f, !.nth = opens'[f]] \in Operations
      <4> DEFINE n == opens'[f]
      <4>1. n \in 0 .. MaxOpens
        BY <3>1
      <4> HIDE DEF n
      <4>2. [op[c] EXCEPT !.stage = "done", !.fd = f, !.nth = n] \in Operations
        BY <1>1, <3>1, <3>2, <4>1
      <4>. QED BY <4>2 DEF n
    <3>. QED BY <2>1, <3>3
  <2>5. TypeOK'
    BY <1>1, <1>3, <2>2, <2>4 DEF TypeOK
  <2>6. f # NoFd
    BY HandlesAssumption
  <2>7. \A d \in Coros : /\ Making(d)' <=> Making(d)
                         /\ op'[d].kind = op[d].kind /\ op'[d].on = op[d].on
                         /\ d # c => op'[d] = op[d]
    BY <1>1, <2>1, <2>3 DEF Making
  <2>8. \A g \in Handles : /\ Held(g)' <=> Held(g)
                           /\ Held(g) => fd[g] # f
    BY <1>1, <1>3, <2>1, <2>3 DEF Held, Closed, Owning, OneHolder
  <2>9. \A d \in Coros : op[d].kind \in {"use", "close"} => op'[d] = op[d]
    BY <1>1, <2>1
  <2>10. CloseIsAlone'
    <3>1. \A d \in Coros : op[d].kind = "close" /\ op[d].stage = "submitted" => op[d].fd \in opened
      BY OperationsHit DEF Owning, CloseIsAlone, Hits
    <3>2. \A d \in Coros : op[d].kind = "close" /\ op[d].stage = "submitted" =>
                             /\ op[d].fd \in Fds \ {f}
                             /\ op[d].nth = opens'[op[d].fd]
      BY <1>3, <2>2, <3>1 DEF Owning, CloseIsAlone, TypeOK
    <3>. QED BY <1>1, <2>7, <2>9, <3>2 DEF Owning, CloseIsAlone
  <2>11. UseIsCurrent'
    <3>1. \A d \in Coros : op[d].kind = "use" /\ op[d].fd # NoFd => op[d].fd \in opened
      BY DEF Owning, UseIsCurrent, CloseIsAlone, OneHolder, Held, Closed
    <3>2. \A d \in Coros : op[d].kind = "use" /\ op[d].fd # NoFd =>
                             /\ op[d].fd \in Fds \ {f}
                             /\ op[d].nth = opens'[op[d].fd]
      BY <1>3, <2>2, <3>1 DEF Owning, UseIsCurrent, TypeOK
    <3>. QED BY <1>1, <2>7, <2>9, <3>2 DEF Owning, UseIsCurrent
  <2>12. MakerIsCurrent'
    <3>1. \A d \in Coros \ {c} : Making(d) /\ op[d].fd # NoFd =>
                                   /\ op[d].fd \in Fds \ {f}
                                   /\ op[d].nth = opens'[op[d].fd]
      BY <1>3, <2>2 DEF Owning, MakerIsCurrent, TypeOK
    <3>2. MakerIsCurrent!(c)'
      BY <1>1, <1>3, <2>3, <2>6 DEF Owning, MakerIsCurrent, Making
    <3>. QED BY <1>3, <2>7, <3>1, <3>2 DEF Owning, MakerIsCurrent
  <2>13. OneHolder'
    <3>1. \A d \in Coros \ {c} : Making(d) => op[d].fd # f
      BY <1>3, <2>6 DEF Owning, MakerIsCurrent
    <3>. QED BY <1>1, <1>3, <2>3, <2>6, <2>7, <2>8, <3>1 DEF Owning, OneHolder
  <2>14. NoneForgotten'
    BY <1>1, <1>3, <2>3, <2>7, <2>8, HandlesAssumption DEF Owning, NoneForgotten, TypeOK, Making
  <2>. QED BY <2>5, <2>10, <2>11, <2>12, <2>13, <2>14 DEF Owning
<1>. QED BY <1>2, <1>3 DEF KernelOpen, Become

-----------------------------------------------------------------------------
(***************************************************************************)
(* A coroutine ends an operation, and has none then.                       *)
(***************************************************************************)
LEMMA BecomeIdle ==
  ASSUME TypeOK, NEW c \in Coros, Become(c, Idle)
  PROVE  /\ op' \in [Coros -> Operations]
         /\ op'[c].kind = "none"
         /\ \A d \in Coros \ {c} : op'[d] = op[d]
<1>1. Idle \in Operations /\ Idle.kind = "none"
  BY HandlesAssumption DEF Operations, Kinds, Idle
<1>. QED BY <1>1 DEF TypeOK, Become

LEMMA FinishUseInv ==
  ASSUME TypeOK, Owning, NEW c \in Coros, FinishUse(c)
  PROVE  (TypeOK /\ Owning)'
<1>1. /\ op[c].kind = "use" /\ Become(c, Idle)
      /\ UNCHANGED <<fd, opened, opens, life, strayed, leaked>>
  BY DEF FinishUse
<1>2. TypeOK'
  BY <1>1, BecomeIdle DEF TypeOK
<1>3. \A d \in Coros : /\ Making(d)' <=> Making(d)
                       /\ op'[d].kind # "none" => op'[d] = op[d]
                       /\ op[d].kind # "use" => op'[d] = op[d]
  BY <1>1, BecomeIdle DEF Making
<1>4. \A g \in Handles : Held(g)' <=> Held(g)
  BY <1>1, <1>3 DEF Held, Closed
<1>5. CloseIsAlone' /\ UseIsCurrent'
  BY <1>1, <1>3 DEF Owning, CloseIsAlone, UseIsCurrent
<1>6. MakerIsCurrent'
  BY <1>1, <1>3 DEF Owning, MakerIsCurrent, Making
<1>7. OneHolder' /\ NoneForgotten'
  BY <1>1, <1>3, <1>4 DEF Owning, OneHolder, NoneForgotten, Making
<1>. QED BY <1>2, <1>5, <1>6, <1>7 DEF Owning

(***************************************************************************)
(* The object of a close forgets a number it did not hold any more.        *)
(***************************************************************************)
LEMMA FinishCloseInv ==
  ASSUME TypeOK, Owning, NEW c \in Coros, FinishClose(c)
  PROVE  (TypeOK /\ Owning)'
<1>0. PICK h \in Handles : h = op[c].on /\ op[c].kind = "close"
  BY DEF FinishClose, Owning, CloseIsAlone
<1>1. /\ op[c].kind = "close" /\ op[c].stage \in {"done", "failed"}
      /\ Become(c, Idle) /\ fd' = [fd EXCEPT ![h] = NoFd]
      /\ UNCHANGED <<opened, opens, life, strayed, leaked>>
  BY <1>0 DEF FinishClose
<1>2. TypeOK'
  BY <1>1, BecomeIdle DEF TypeOK
<1>3. \A d \in Coros : op[d].kind # "none" /\ op[d].on = h => d = c
  BY <1>0 DEF Owning, CloseIsAlone
<1>4. \A d \in Coros : /\ Making(d)' <=> Making(d)
                       /\ op'[d].kind # "none" => op'[d] = op[d] /\ op[d].on # h
                       /\ op[d].kind # "close" => op'[d] = op[d]
  BY <1>1, <1>3, BecomeIdle DEF Making
<1>5. fd'[h] = NoFd /\ \A g \in Handles \ {h} : fd'[g] = fd[g]
  BY <1>1, <1>3 DEF TypeOK
<1>6. ~Held(h) /\ ~Held(h)'
  BY <1>0, <1>1, <1>3, <1>5 DEF Held, Closed
<1>7. \A g \in Handles : Held(g)' <=> Held(g)
  <2>1. \A g \in Handles \ {h} : Closed(g)' <=> Closed(g)
    BY <1>0, <1>1, <1>4, BecomeIdle DEF Closed
  <2>. QED BY <1>5, <1>6, <2>1 DEF Held
<1>8. CloseIsAlone' /\ UseIsCurrent'
  BY <1>1, <1>4, <1>5 DEF Owning, CloseIsAlone, UseIsCurrent
<1>9. MakerIsCurrent'
  BY <1>1, <1>4 DEF Owning, MakerIsCurrent, Making
<1>10. OneHolder' /\ NoneForgotten'
  BY <1>1, <1>4, <1>5, <1>6, <1>7 DEF Owning, OneHolder, NoneForgotten, Making
<1>. QED BY <1>2, <1>8, <1>9, <1>10 DEF Owning

(***************************************************************************)
(* What a maker made goes to its object, or is left behind.                *)
(***************************************************************************)
LEMMA FinishMakeInv ==
  ASSUME TypeOK, Owning, NEW c \in Coros, FinishMake(c)
  PROVE  TypeOK' /\ (life' = "running" => Owning')
<1>0. PICK h \in Handles, f \in Fds \cup {NoFd} : h = op[c].on /\ f = op[c].fd
  BY DEF FinishMake, Making, Owning, MakerIsCurrent, TypeOK, Operations
<1>1. /\ op[c].kind \in {"open", "listen", "connect"} /\ op[c].stage \in {"done", "failed"}
      /\ Become(c, Idle)
      /\ UNCHANGED <<opened, opens, strayed>>
  BY DEF FinishMake
<1>2. Making(c) /\ ~Making(c)'
  BY <1>1, BecomeIdle DEF Making
<1>3. \A d \in Coros \ {c} : op'[d] = op[d] /\ (Making(d)' <=> Making(d))
  BY <1>1, BecomeIdle DEF Making
<1>4. \A d \in Coros : op'[d].kind # "none" => op'[d] = op[d]
  BY <1>1, BecomeIdle
<1>5. \A g \in Handles : Closed(g)' <=> Closed(g)
  BY <1>1, <1>3, BecomeIdle DEF Closed
<1>6. ASSUME fd[h] = NoFd, fd' = [fd EXCEPT ![h] = f], op[c].stage = "done", UNCHANGED <<life, leaked>>
      PROVE  TypeOK' /\ Owning'
  <2>1. TypeOK'
    BY <1>1, <1>2, <1>6, BecomeIdle DEF TypeOK
  <2>2. fd'[h] = f /\ \A g \in Handles \ {h} : fd'[g] = fd[g]
    BY <1>2, <1>6 DEF TypeOK
  <2>3. f # NoFd /\ f \in opened
    BY <1>0, <1>1, <1>2, <1>6 DEF Owning, MakerIsCurrent
  <2>4. \A d \in Coros : op[d].kind = "close" => op[d].on # h
    BY <1>0, <1>1 DEF Owning, CloseIsAlone
  <2>5. ~Held(h) /\ Held(h)' /\ \A g \in Handles \ {h} : Held(g)' <=> Held(g)
    BY <1>5, <1>6, <2>2, <2>3, <2>4 DEF Held, Closed
  <2>6. CloseIsAlone'
    BY <1>1, <1>4, <2>2, <2>4 DEF Owning, CloseIsAlone
  <2>7. UseIsCurrent'
    BY <1>1, <1>4, <1>6, <2>2 DEF Owning, UseIsCurrent
  <2>8. MakerIsCurrent'
    BY <1>1, <1>2, <1>3, <1>4 DEF Owning, MakerIsCurrent
  <2>9. OneHolder'
    BY <1>0, <1>1, <1>2, <1>3, <2>2, <2>3, <2>5 DEF Owning, OneHolder
  <2>10. NoneForgotten'
    BY <1>0, <1>1, <1>2, <1>3, <1>6, <2>2, <2>5 DEF Owning, NoneForgotten
  <2>. QED BY <2>1, <2>6, <2>7, <2>8, <2>9, <2>10 DEF Owning
<1>7. ASSUME fd[h] # NoFd, life' = "panicked", UNCHANGED <<fd, leaked>>
      PROVE  TypeOK' /\ life' # "running"
  BY <1>1, <1>7, BecomeIdle DEF TypeOK
<1>8. ASSUME leaked' = leaked \cup ({f} \ {NoFd}), UNCHANGED <<fd, life>>
      PROVE  TypeOK' /\ Owning'
  <2>1. TypeOK'
    BY <1>1, <1>2, <1>8, BecomeIdle DEF TypeOK
  <2>2. \A g \in Handles : Held(g)' <=> Held(g)
    BY <1>5, <1>8 DEF Held
  <2>3. CloseIsAlone' /\ UseIsCurrent'
    BY <1>1, <1>4, <1>8 DEF Owning, CloseIsAlone, UseIsCurrent
  <2>4. MakerIsCurrent'
    BY <1>1, <1>2, <1>3, <1>4 DEF Owning, MakerIsCurrent
  <2>5. OneHolder'
    BY <1>1, <1>2, <1>3, <1>8, <2>2 DEF Owning, OneHolder
  <2>6. NoneForgotten'
    BY <1>0, <1>1, <1>2, <1>3, <1>8, <2>2, HandlesAssumption DEF Owning, NoneForgotten, TypeOK
  <2>. QED BY <2>1, <2>3, <2>4, <2>5, <2>6 DEF Owning
<1>. QED BY <1>0, <1>6, <1>7, <1>8 DEF FinishMake, Assign


(***************************************************************************)
(* A socket becomes a connection on its way, with the same number.         *)
(***************************************************************************)
LEMMA ConnectSocketInv ==
  ASSUME TypeOK, Owning, NEW c \in Coros, ConnectSocket(c)
  PROVE  (TypeOK /\ Owning)'
<1>1. /\ op[c].kind = "socket" /\ op[c].stage \in {"done", "failed"}
      /\ UNCHANGED <<fd, opened, opens, life, strayed, leaked>>
      /\ op[c] \in Operations
  BY DEF ConnectSocket, TypeOK
<1>2. ASSUME op[c].stage = "done",
             op' = [op EXCEPT ![c] = [op[c] EXCEPT !.kind = "connect", !.stage = "submitted"]]
      PROVE  (TypeOK /\ Owning)'
  <2>1. /\ op'[c] = [op[c] EXCEPT !.kind = "connect", !.stage = "submitted"]
        /\ \A d \in Coros \ {c} : op'[d] = op[d]
    BY <1>2 DEF TypeOK
  <2>2. /\ op'[c].kind = "connect" /\ op'[c].stage = "submitted" /\ op'[c].on = op[c].on
        /\ op'[c].fd = op[c].fd /\ op'[c].nth = op[c].nth /\ op'[c] \in Operations
    BY <1>1, <2>1 DEF Operations, Kinds
  <2>3. TypeOK'
    BY <1>1, <1>2, <2>2 DEF TypeOK
  <2>4. \A d \in Coros : /\ Making(d)' <=> Making(d)
                         /\ op'[d].kind = "none" <=> op[d].kind = "none"
                         /\ op'[d].on = op[d].on
                         /\ op'[d].fd = op[d].fd /\ op'[d].nth = op[d].nth
                         /\ op'[d].kind \in {"use", "close"} => op'[d] = op[d]
                         /\ op[d].kind \in {"use", "close"} => op'[d] = op[d]
    BY <1>1, <2>1, <2>2 DEF Making
  <2>5. \A g \in Handles : Held(g)' <=> Held(g)
    BY <1>1, <2>4 DEF Held, Closed
  <2>6. CloseIsAlone' /\ UseIsCurrent'
    BY <1>1, <2>4 DEF Owning, CloseIsAlone, UseIsCurrent
  <2>7. MakerIsCurrent'
    BY <1>1, <1>2, <2>1, <2>2 DEF Owning, MakerIsCurrent, Making
  <2>8. OneHolder' /\ NoneForgotten'
    BY <1>1, <2>4, <2>5 DEF Owning, OneHolder, NoneForgotten
  <2>. QED BY <2>3, <2>6, <2>7, <2>8 DEF Owning
<1>3. ASSUME op[c].stage = "failed", Become(c, Idle)
      PROVE  (TypeOK /\ Owning)'
  <2>1. TypeOK'
    BY <1>1, <1>3, BecomeIdle DEF TypeOK
  <2>2. /\ op[c].fd = NoFd
        /\ \A d \in Coros : /\ Making(d)' => Making(d) /\ op'[d] = op[d]
                            /\ Making(d) /\ op[d].fd # NoFd => Making(d)' /\ op'[d] = op[d]
                            /\ op'[d].kind # "none" => op'[d] = op[d]
                            /\ op[d].kind \in {"use", "close"} => op'[d] = op[d]
    BY <1>1, <1>3, BecomeIdle DEF Making, Owning, MakerIsCurrent
  <2>3. \A g \in Handles : Held(g)' <=> Held(g)
    BY <1>1, <2>2 DEF Held, Closed
  <2>4. CloseIsAlone' /\ UseIsCurrent' /\ MakerIsCurrent'
    BY <1>1, <2>2 DEF Owning, CloseIsAlone, UseIsCurrent, MakerIsCurrent
  <2>5. OneHolder'
    BY <1>1, <2>2, <2>3 DEF Owning, OneHolder
  <2>6. NoneForgotten'
    BY <1>1, <2>2, <2>3, HandlesAssumption DEF Owning, NoneForgotten, TypeOK
  <2>. QED BY <2>1, <2>4, <2>5, <2>6 DEF Owning
<1>. QED BY <1>2, <1>3, <1>1 DEF ConnectSocket, Become

(***************************************************************************)
(* A number moves between two objects nobody operates on, or the program   *)
(* panics and nothing moves any more.                                      *)
(***************************************************************************)
LEMMA MoveInv ==
  ASSUME TypeOK, Owning, Exclusive, NEW g \in Handles, NEW h \in Handles, Move(g, h)
  PROVE  TypeOK' /\ (life' = "running" => Owning')
<1>1. /\ UNCHANGED <<opened, opens, op, strayed, leaked>>
      /\ ~Busy(g) /\ ~Busy(h) /\ g # h
  BY DEF Move
<1>2. ASSUME fd[g] = NoFd, fd' = [fd EXCEPT ![g] = fd[h], ![h] = NoFd], UNCHANGED life
      PROVE  TypeOK' /\ Owning'
  <2>1. TypeOK'
    BY <1>1, <1>2 DEF TypeOK
  <2>2. fd'[g] = fd[h] /\ fd'[h] = NoFd /\ \A i \in Handles \ {g, h} : fd'[i] = fd[i]
    BY <1>1, <1>2 DEF TypeOK
  <2>3. \A d \in Coros : /\ Making(d)' <=> Making(d)
                         /\ op[d].kind # "none" => op[d].on # g /\ op[d].on # h
    BY <1>1 DEF Making, Busy
  <2>4. /\ \A i \in Handles : Closed(i)' <=> Closed(i)
        /\ ~Closed(g) /\ ~Closed(h)
    BY <1>1, <2>3 DEF Closed
  <2>5. /\ ~Held(g) /\ ~Held(h)'
        /\ Held(g)' <=> Held(h)
        /\ \A i \in Handles \ {g, h} : Held(i)' <=> Held(i)
    BY <1>2, <2>2, <2>4 DEF Held
  <2>6. CloseIsAlone' /\ UseIsCurrent'
    BY <1>1, <2>2, <2>3 DEF Owning, CloseIsAlone, UseIsCurrent
  <2>7. MakerIsCurrent'
    BY <1>1, <2>3 DEF Owning, MakerIsCurrent
  <2>8. OneHolder'
    BY <1>1, <2>2, <2>3, <2>5 DEF Owning, OneHolder
  <2>9. NoneForgotten'
    BY <1>1, <2>2, <2>3, <2>5 DEF Owning, NoneForgotten
  <2>. QED BY <2>1, <2>6, <2>7, <2>8, <2>9 DEF Owning
<1>3. ASSUME life' = "panicked", UNCHANGED fd
      PROVE  TypeOK' /\ life' # "running"
  BY <1>1, <1>3 DEF TypeOK
<1>. QED BY <1>2, <1>3 DEF Move

-----------------------------------------------------------------------------
(***************************************************************************)
(* Every step preserves the invariant, in programs that keep to Exclusive. *)
(***************************************************************************)
LEMMA StepInv ==
  ASSUME Exclusive, IInv, [Next]_vars
  PROVE  IInv'
<1>1. CASE UNCHANGED vars
  BY <1>1 DEF IInv, vars, TypeOK, NoOperationStrays, Owning, CloseIsAlone, UseIsCurrent,
              MakerIsCurrent, OneHolder, NoneForgotten, Making, Held, Closed
<1>2. ASSUME NEW c \in Coros, Call(c) \/ Kernel(c) \/ Resume(c)
      PROVE  IInv'
  <2>1. TypeOK /\ Owning /\ ~strayed
    BY <1>2 DEF IInv, NoOperationStrays, Call, Use, Close, Make, Kernel,
                Resume, FinishUse, FinishClose, FinishMake, ConnectSocket
  <2>2. CASE Call(c)
    <3>1. strayed' = strayed
      BY <2>2 DEF Call, Use, Close, Make
    <3>2. (TypeOK /\ Owning)'
      BY <2>1, <2>2, UseInv, CloseInv, MakeInv DEF Call
    <3>. QED BY <2>1, <3>1, <3>2 DEF IInv, NoOperationStrays
  <2>3. CASE Kernel(c)
    <3>1. CASE KernelUse(c)
      BY <2>1, <3>1, KernelUseInv DEF IInv, NoOperationStrays
    <3>2. CASE KernelClose(c)
      BY <2>1, <3>2, KernelCloseInv DEF IInv, NoOperationStrays
    <3>3. CASE KernelOpen(c)
      <4>1. strayed' = strayed
        BY <3>3 DEF KernelOpen
      <4>. QED BY <2>1, <3>3, <4>1, KernelOpenInv DEF IInv, NoOperationStrays
    <3>. QED BY <2>3, <3>1, <3>2, <3>3 DEF Kernel
  <2>4. CASE Resume(c)
    <3>1. strayed' = strayed
      BY <2>4 DEF Resume, FinishUse, FinishClose, FinishMake, ConnectSocket
    <3>2. TypeOK' /\ (life' = "running" => Owning')
      BY <2>1, <2>4, FinishUseInv, FinishCloseInv, FinishMakeInv, ConnectSocketInv DEF Resume
    <3>. QED BY <2>1, <3>1, <3>2 DEF IInv, NoOperationStrays
  <2>. QED BY <1>2, <2>2, <2>3, <2>4
<1>3. ASSUME NEW g \in Handles, NEW h \in Handles, Move(g, h)
      PROVE  IInv'
  <2>1. TypeOK /\ Owning /\ ~strayed /\ strayed' = strayed
    BY <1>3 DEF IInv, NoOperationStrays, Move
  <2>. QED BY <1>3, <2>1, MoveInv DEF IInv, NoOperationStrays
<1>4. ASSUME NEW h \in Handles, Destroy(h)
      PROVE  IInv'
  BY <1>4 DEF IInv, NoOperationStrays, Destroy, TypeOK
<1>. QED BY <1>1, <1>2, <1>3, <1>4 DEF Next

\* The invariant holds in every reachable state.
LEMMA Invariant == ASSUME Exclusive PROVE Spec => []IInv
<1>1. Exclusive /\ IInv /\ [Next]_vars => IInv'
  BY StepInv
<1>2. Exclusive
  OBVIOUS
<1>. QED BY InitInv, <1>1, <1>2, PTL DEF Spec

(***************************************************************************)
(* Every variable keeps its type: in particular no descriptor number and   *)
(* no object outside the program's ever gets into an operation.            *)
(***************************************************************************)
THEOREM TypeCorrectness == ASSUME Exclusive PROVE Spec => []TypeOK
<1>1. IInv => TypeOK
  BY DEF IInv
<1>. QED BY Invariant, <1>1, PTL

(***************************************************************************)
(* No request reaches a description it was not meant for, whatever order   *)
(* the kernel carries requests out in and however often it gives a number  *)
(* out again, as long as close, move and destruction wait for the other    *)
(* operations on the object (file.cc, socket.cc capture _fd on the call).  *)
(***************************************************************************)
THEOREM NothingStrays == ASSUME Exclusive PROVE Spec => []NoOperationStrays
<1>1. IInv => NoOperationStrays
  BY DEF IInv
<1>. QED BY Invariant, <1>1, PTL

(***************************************************************************)
(* Every open number is held by one object or one coroutine that makes an  *)
(* object, unless a set-up that failed left it behind, and no object holds *)
(* a number that is not open: move assignment, close and the make_*        *)
(* functions hand numbers over without losing or doubling one.             *)
(***************************************************************************)
THEOREM OneOwner == ASSUME Exclusive PROVE Spec => []HeldOnce
<1>1. ASSUME IInv PROVE HeldOnce
  <2>. SUFFICES ASSUME life = "running", NEW f \in Fds
                PROVE  /\ f \in opened \ leaked => Cardinality(Holders(f)) + Cardinality(Makers(f)) = 1
                       /\ f \notin opened => Holders(f) = {}
    BY DEF HeldOnce
  <2>1. TypeOK /\ Owning /\ f # NoFd
    BY <1>1, HandlesAssumption DEF IInv
  <2>2. /\ Holders(f) = {h \in Handles : Held(h) /\ fd[h] = f}
        /\ Makers(f) = {c \in Coros : Making(c) /\ op[c].fd = f}
    BY <2>1 DEF Holders, Makers, Held, Making, TypeOK, Operations, Kinds
  <2>3. ASSUME f \notin opened PROVE Holders(f) = {}
    BY <2>1, <2>2, <2>3 DEF Owning, OneHolder
  <2>4. ASSUME f \in opened \ leaked
        PROVE  Cardinality(Holders(f)) + Cardinality(Makers(f)) = 1
    <3>1. CASE \E h \in Handles : Held(h) /\ fd[h] = f
      <4>1. PICK h \in Handles : Held(h) /\ fd[h] = f
        BY <3>1
      <4>2. Holders(f) = {h} /\ Makers(f) = {}
        BY <2>1, <2>2, <4>1 DEF Owning, OneHolder
      <4>3. Cardinality(Holders(f)) = 1 /\ Cardinality(Makers(f)) = 0
        BY <4>2, FS_EmptySet, FS_Singleton
      <4>. QED BY <4>3
    <3>2. CASE \E c \in Coros : Making(c) /\ op[c].fd = f
      <4>1. PICK c \in Coros : Making(c) /\ op[c].fd = f
        BY <3>2
      <4>2. Makers(f) = {c} /\ Holders(f) = {}
        BY <2>1, <2>2, <4>1 DEF Owning, OneHolder
      <4>3. Cardinality(Makers(f)) = 1 /\ Cardinality(Holders(f)) = 0
        BY <4>2, FS_EmptySet, FS_Singleton
      <4>. QED BY <4>3
    <3>. QED BY <2>1, <2>4, <3>1, <3>2 DEF Owning, NoneForgotten
  <2>. QED BY <2>3, <2>4
<1>. QED BY Invariant, <1>1, PTL
=============================================================================
