---------------------------- MODULE ExecutorProofs ----------------------------
(***************************************************************************)
(* Coroutines, the loop of Reactor::run and Application::run keep what     *)
(* they owe one another, for any finite set of coroutines, any number of   *)
(* suspensions and any choice of those that only yield.                    *)
(*                                                                         *)
(* The invariant has three parts: the types, the invariant that            *)
(* IoEngineProofs has for the engine alone (P is that module at the        *)
(* Executor's instance of the engine, whose steps the Executor's are or    *)
(* leave alone), and EInv: who has the future of whom, how that gives the  *)
(* stack and the tasks, and what a pass over the tasks without progress    *)
(* has seen, which is what blocking relies on.                             *)
(***************************************************************************)
EXTENDS Executor, SequenceTheorems, FunctionTheorems, FiniteSetTheorems, TLAPS

P == INSTANCE IoEngineProofs WITH Requests  <- Coros,
                                  MaxEvents <- Cardinality(Coros),
                                  Signals   <- FALSE

Outstanding(c) == where[c] \in {"sq", "kernel", "cq"}

\* How the frames, their futures and their tasks belong together.
Frames ==
  \A c \in Coros :
    /\ status[c] = "done" <=> result[c] # "pending"
    /\ owner[c] # None => status[c] # "none"
    /\ owner[c] \in Coros => status[owner[c]] = "live"
    /\ owner[c] = App => c = Main
    /\ owner[Main] \notin Coros
    /\ waits[c] # None => status[c] = "live" /\ ~OnStack(c)
    /\ waits[c] \in Coros => owner[waits[c]] = c
    /\ Outstanding(c) => waits[c] = IoTask

\* The futures that frames have never form a ring.
OwnersAcyclic == \A S \in SUBSET Coros : S = {} \/ \E d \in S : owner[d] \notin S

\* What is on the stack: live frames, each called by the next.
Stack ==
  /\ \A i, j \in DOMAIN stack : stack[i] = stack[j] => i = j
  /\ \A i \in DOMAIN stack : status[stack[i]] = "live"
  /\ \A i \in DOMAIN stack : i + 1 \in DOMAIN stack => owner[stack[i]] = stack[i + 1]
  /\ stack # <<>> => \/ phase = "starting" /\ stack[Len(stack)] = Main /\ owner[Main] = App
                     \/ phase = "executing" /\ stack[Len(stack)] = tasks[task]

Phases ==
  /\ phase = "options" => /\ tasks = <<>> /\ stack = <<>>
                          /\ \A c \in Coros : status[c] = "none"
  /\ phase \in {"options", "starting"} => ~ran
  /\ phase \notin {"options", "exited"} => status[Main] # "none"
  /\ phase = "executing" => task \in DOMAIN tasks
  /\ phase = "routines" <=> pc # "tasks"
  /\ pc = "waiting" => ~hasProgress

\* What a pass without progress has seen, and what is still so when the
\* engine decides whether to block.
Idle ==
  /\ phase = "tasks" /\ ~newProgress =>
       \A i \in DOMAIN tasks : task = End \/ i < task => ~Ready(tasks[i])
  /\ ran /\ ~hasProgress /\ phase \in {"between_runs", "routines"} /\ pc # "peeking" =>
       \A i \in DOMAIN tasks : ~Ready(tasks[i])

EInv == /\ Frames /\ OwnersAcyclic /\ Stack /\ Phases /\ Idle
        /\ OneTaskPerSuspension /\ NoExceptionIsLost /\ CleanExit

IInv == TypeOK /\ P!IInv /\ EInv

-----------------------------------------------------------------------------
(***************************************************************************)
(* The stack and the list of tasks                                         *)
(***************************************************************************)
LEMMA Names == /\ App \notin Coros /\ None \notin Coros /\ YieldTask \notin Coros /\ IoTask \notin Coros
               /\ App # None /\ None # YieldTask /\ None # IoTask /\ YieldTask # IoTask
               /\ Main \in Coros /\ IsFiniteSet(Coros)
<1>1. Main \in Coros /\ IsFiniteSet(Coros)
  BY CorosAssumption
<1>2. App \notin Coros /\ None \notin Coros /\ YieldTask \notin Coros /\ IoTask \notin Coros
  BY CorosAssumption
<1>3. \A a, b, c : IsFiniteSet({a, b, c}) /\ Cardinality({a, b, c}) < 4
  <2>. TAKE a, b, c
  <2>1. IsFiniteSet({a}) /\ Cardinality({a}) = 1
    BY FS_Singleton
  <2>2. IsFiniteSet({a} \cup {b}) /\ Cardinality({a} \cup {b}) \in {1, 2}
    BY <2>1, FS_AddElement
  <2>3. IsFiniteSet(({a} \cup {b}) \cup {c}) /\ Cardinality(({a} \cup {b}) \cup {c}) \in {1, 2, 3}
    BY <2>2, FS_AddElement
  <2>4. {a, b, c} = ({a} \cup {b}) \cup {c}
    OBVIOUS
  <2>. QED BY <2>3, <2>4
<1>4. Cardinality({App, None, YieldTask, IoTask}) = 4
  BY CorosAssumption
<1>5. App # None
  <2>. SUFFICES ASSUME App = None PROVE FALSE
    OBVIOUS
  <2>1. {App, None, YieldTask, IoTask} = {None, YieldTask, IoTask}
    OBVIOUS
  <2>2. Cardinality({None, YieldTask, IoTask}) < 4
    BY <1>3, Zenon
  <2>3. Cardinality({None, YieldTask, IoTask}) = 4
    BY <1>4, <2>1, Zenon
  <2>. QED BY <2>2, <2>3
<1>6. None # YieldTask
  <2>. SUFFICES ASSUME None = YieldTask PROVE FALSE
    OBVIOUS
  <2>1. {App, None, YieldTask, IoTask} = {App, YieldTask, IoTask}
    OBVIOUS
  <2>2. Cardinality({App, YieldTask, IoTask}) < 4
    BY <1>3, Zenon
  <2>3. Cardinality({App, YieldTask, IoTask}) = 4
    BY <1>4, <2>1, Zenon
  <2>. QED BY <2>2, <2>3
<1>7. None # IoTask
  <2>. SUFFICES ASSUME None = IoTask PROVE FALSE
    OBVIOUS
  <2>1. {App, None, YieldTask, IoTask} = {App, YieldTask, IoTask}
    OBVIOUS
  <2>2. Cardinality({App, YieldTask, IoTask}) < 4
    BY <1>3, Zenon
  <2>3. Cardinality({App, YieldTask, IoTask}) = 4
    BY <1>4, <2>1, Zenon
  <2>. QED BY <2>2, <2>3
<1>8. YieldTask # IoTask
  <2>. SUFFICES ASSUME YieldTask = IoTask PROVE FALSE
    OBVIOUS
  <2>1. {App, None, YieldTask, IoTask} = {App, None, IoTask}
    OBVIOUS
  <2>2. Cardinality({App, None, IoTask}) < 4
    BY <1>3, Zenon
  <2>3. Cardinality({App, None, IoTask}) = 4
    BY <1>4, <2>1, Zenon
  <2>. QED BY <2>2, <2>3
<1>. QED BY <1>1, <1>2, <1>5, <1>6, <1>7, <1>8

LEMMA SequenceFacts ==
  ASSUME TypeOK
  PROVE  /\ Len(stack) \in Nat /\ DOMAIN stack = 1 .. Len(stack)
         /\ \A i \in DOMAIN stack : stack[i] \in Coros
         /\ stack # <<>> => Len(stack) > 0 /\ Head(stack) = stack[1]
         /\ Len(tasks) \in Nat /\ DOMAIN tasks = 1 .. Len(tasks)
         /\ \A i \in DOMAIN tasks : tasks[i] \in Coros
<1>1. stack \in Seq(Coros) /\ tasks \in Seq(Coros)
  BY DEF TypeOK
<1>2. \A s \in Seq(Coros) : /\ Len(s) \in Nat /\ DOMAIN s = 1 .. Len(s)
                            /\ \A i \in DOMAIN s : s[i] \in Coros
                            /\ s # <<>> => Len(s) > 0 /\ Head(s) = s[1]
  <2>. TAKE s \in Seq(Coros)
  <2>1. /\ Len(s) \in Nat /\ DOMAIN s = 1 .. Len(s)
        /\ \A i \in DOMAIN s : s[i] \in Coros
    BY LenProperties
  <2>2. s # <<>> => Len(s) > 0
    BY EmptySeq
  <2>. QED BY <2>1, <2>2
<1>. QED BY <1>1, <1>2

(***************************************************************************)
(* Two sequences joined, an element in front of a sequence, and a sequence *)
(* without its k-th element.                                               *)
(***************************************************************************)
LEMMA Joined ==
  ASSUME NEW S, NEW u \in Seq(S), NEW v \in Seq(S)
  PROVE  /\ u \o v \in Seq(S) /\ Len(u \o v) = Len(u) + Len(v)
         /\ \A i \in 1 .. Len(u) : (u \o v)[i] = u[i]
         /\ \A i \in 1 .. Len(v) : (u \o v)[Len(u) + i] = v[i]
OBVIOUS
LEMMA Removed ==
  ASSUME NEW S, NEW s \in Seq(S), NEW k \in 1 .. Len(s)
  PROVE  LET t == SubSeq(s, 1, k - 1) \o SubSeq(s, k + 1, Len(s)) IN
         /\ t \in Seq(S) /\ Len(t) = Len(s) - 1
         /\ \A i \in 1 .. k - 1 : t[i] = s[i]
         /\ \A i \in k .. Len(s) - 1 : t[i] = s[i + 1]
<1>. DEFINE u == SubSeq(s, 1, k - 1)
            v == SubSeq(s, k + 1, Len(s))
            t == u \o v
<1>1. u \in Seq(S) /\ Len(u) = k - 1 /\ \A i \in 1 .. k - 1 : u[i] = s[i]
  OBVIOUS
<1>2. v \in Seq(S) /\ Len(v) = Len(s) - k /\ \A i \in 1 .. Len(s) - k : v[i] = s[k + i]
  OBVIOUS
<1>3. Len(s) \in Nat
  OBVIOUS
<1>. HIDE DEF u, v
<1>4. u \in Seq(S) /\ v \in Seq(S)
  BY <1>1, <1>2
<1>5. /\ t \in Seq(S) /\ Len(t) = Len(u) + Len(v)
      /\ \A i \in 1 .. Len(u) : t[i] = u[i]
      /\ \A i \in 1 .. Len(v) : t[Len(u) + i] = v[i]
  BY <1>4, Joined
<1>. HIDE DEF t
<1>6. t \in Seq(S) /\ Len(t) = Len(s) - 1
  BY <1>1, <1>2, <1>3, <1>5
<1>7. \A i \in 1 .. k - 1 : t[i] = s[i]
  BY <1>1, <1>5
<1>8. ASSUME NEW i \in k .. Len(s) - 1 PROVE t[i] = s[i + 1]
  <2>1. /\ i - (k - 1) \in 1 .. Len(s) - k
        /\ Len(u) + (i - (k - 1)) = i
        /\ k + (i - (k - 1)) = i + 1
    BY <1>1, <1>3
  <2>. DEFINE j == i - (k - 1)
  <2>. HIDE DEF j
  <2>2. v[j] = s[k + j] /\ t[Len(u) + j] = v[j]
    BY <1>2, <1>5, <2>1 DEF j
  <2>. QED BY <2>1, <2>2 DEF j
<1>. QED BY <1>6, <1>7, <1>8 DEF t, u, v

LEMMA Prepended ==
  ASSUME NEW S, NEW s \in Seq(S), NEW e \in S
  PROVE  LET t == <<e>> \o s IN
         /\ t \in Seq(S) /\ Len(t) = Len(s) + 1 /\ t[1] = e
         /\ \A i \in 1 .. Len(s) : t[i + 1] = s[i]
<1>1. Len(s) \in Nat
  OBVIOUS
<1>2. /\ <<e>> \o s \in Seq(S) /\ Len(<<e>> \o s) = Len(s) + 1 /\ (<<e>> \o s)[1] = e
      /\ \A i \in 1 .. Len(s) : (<<e>> \o s)[i + 1] = s[i]
  OBVIOUS
<1>. QED BY <1>2

(***************************************************************************)
(* The running coroutine leaves the stack.                                 *)
(***************************************************************************)
LEMMA PopStack ==
  ASSUME TypeOK, Stack, NEW c, stack # <<>>, Head(stack) = c, stack' = Tail(stack)
  PROVE  /\ stack' \in Seq(Coros)
         /\ \A d : OnStack(d)' <=> OnStack(d) /\ d # c
         /\ \A i, j \in DOMAIN stack' : stack'[i] = stack'[j] => i = j
         /\ \A i \in DOMAIN stack' : i + 1 \in DOMAIN stack /\ stack'[i] = stack[i + 1]
         /\ \A i \in DOMAIN stack' : i + 1 \in DOMAIN stack' => i + 2 \in DOMAIN stack
         /\ stack' # <<>> => Len(stack') \in DOMAIN stack' /\ stack'[Len(stack')] = stack[Len(stack)]
<1>1. stack \in Seq(Coros)
  BY DEF TypeOK
<1>2. /\ stack' \in Seq(Coros) /\ Len(stack') = Len(stack) - 1
      /\ \A i \in 1 .. Len(stack') : stack'[i] = stack[i + 1]
  BY <1>1, HeadTailProperties
<1>3. DOMAIN stack' = 1 .. Len(stack') /\ DOMAIN stack = 1 .. Len(stack) /\ Len(stack) \in Nat
      /\ stack[1] = c /\ Len(stack) > 0
  BY <1>1, <1>2, LenProperties, SequenceFacts
<1>4. \A i \in DOMAIN stack' : i + 1 \in DOMAIN stack /\ stack'[i] = stack[i + 1]
  BY <1>2, <1>3
<1>5. ASSUME NEW d PROVE OnStack(d)' <=> OnStack(d) /\ d # c
  <2>1. ASSUME OnStack(d)' PROVE OnStack(d) /\ d # c
    <3>1. PICK i \in DOMAIN stack' : stack'[i] = d
      BY <2>1 DEF OnStack
    <3>2. i + 1 \in DOMAIN stack /\ stack[i + 1] = d /\ 1 \in DOMAIN stack /\ i + 1 # 1
      BY <1>3, <1>4, <3>1
    <3>. QED BY <1>3, <3>2 DEF OnStack, Stack
  <2>2. ASSUME OnStack(d), d # c PROVE OnStack(d)'
    <3>1. PICK i \in DOMAIN stack : stack[i] = d
      BY <2>2 DEF OnStack
    <3>2. i - 1 \in DOMAIN stack' /\ stack'[i - 1] = stack[i - 1 + 1] /\ i - 1 + 1 = i
      BY <1>2, <1>3, <2>2, <3>1
    <3>. QED BY <3>1, <3>2 DEF OnStack
  <2>. QED BY <2>1, <2>2
<1>6. ASSUME NEW i \in DOMAIN stack', NEW j \in DOMAIN stack', stack'[i] = stack'[j] PROVE i = j
  <2>1. i + 1 = j + 1
    BY <1>4, <1>6 DEF Stack
  <2>. QED BY <1>3, <2>1
<1>7. \A i \in DOMAIN stack' : i + 1 \in DOMAIN stack' => i + 2 \in DOMAIN stack
  BY <1>2, <1>3
<1>8. stack' # <<>> => Len(stack') \in DOMAIN stack' /\ stack'[Len(stack')] = stack[Len(stack)]
  BY <1>2, <1>3, EmptySeq
<1>. QED BY <1>2, <1>4, <1>5, <1>6, <1>7, <1>8

(***************************************************************************)
(* A coroutine is called: it is on top of its caller.                      *)
(***************************************************************************)
LEMMA PushStack ==
  ASSUME TypeOK, NEW d \in Coros, stack' = <<d>> \o stack
  PROVE  /\ stack' \in Seq(Coros) /\ DOMAIN stack' = 1 .. Len(stack) + 1
         /\ stack'[1] = d
         /\ \A i \in DOMAIN stack : i + 1 \in DOMAIN stack' /\ stack'[i + 1] = stack[i]
         /\ \A i \in DOMAIN stack' : i # 1 => i - 1 \in DOMAIN stack /\ stack'[i] = stack[i - 1]
         /\ \A e : OnStack(e)' <=> OnStack(e) \/ e = d
         /\ stack # <<>> => stack'[Len(stack')] = stack[Len(stack)]
         /\ stack' # <<>>
<1>0. stack \in Seq(Coros)
  BY DEF TypeOK
<1>1. /\ stack' \in Seq(Coros) /\ Len(stack') = Len(stack) + 1
      /\ stack'[1] = d
      /\ \A i \in 1 .. Len(stack) : stack'[i + 1] = stack[i]
  BY <1>0, Prepended
<1>2. DOMAIN stack' = 1 .. Len(stack) + 1 /\ DOMAIN stack = 1 .. Len(stack) /\ Len(stack) \in Nat
  BY <1>1, LenProperties, SequenceFacts
<1>3. \A i \in DOMAIN stack : i + 1 \in DOMAIN stack' /\ stack'[i + 1] = stack[i]
  BY <1>1, <1>2
<1>4. ASSUME NEW i \in DOMAIN stack', i # 1
      PROVE  i - 1 \in DOMAIN stack /\ stack'[i] = stack[i - 1]
  <2>1. i - 1 \in DOMAIN stack /\ i - 1 + 1 = i
    BY <1>2, <1>4
  <2>2. stack'[i - 1 + 1] = stack[i - 1]
    BY <1>3, <2>1
  <2>. QED BY <2>1, <2>2
<1>5. ASSUME NEW e PROVE OnStack(e)' <=> OnStack(e) \/ e = d
  <2>1. 1 \in DOMAIN stack'
    BY <1>2
  <2>2. ASSUME OnStack(e) \/ e = d PROVE OnStack(e)'
    BY <1>1, <1>3, <2>1, <2>2 DEF OnStack
  <2>3. ASSUME OnStack(e)' PROVE OnStack(e) \/ e = d
    <3>1. PICK i \in DOMAIN stack' : stack'[i] = e
      BY <2>3 DEF OnStack
    <3>2. CASE i = 1
      BY <1>1, <3>1, <3>2
    <3>3. CASE i # 1
      BY <1>4, <3>1, <3>3 DEF OnStack
    <3>. QED BY <3>2, <3>3
  <2>. QED BY <2>2, <2>3
<1>6. stack # <<>> => stack'[Len(stack')] = stack[Len(stack)]
  <2>. SUFFICES ASSUME stack # <<>> PROVE stack'[Len(stack) + 1] = stack[Len(stack)]
    BY <1>1
  <2>1. Len(stack) \in DOMAIN stack
    BY <1>2, SequenceFacts
  <2>. QED BY <1>3, <2>1
<1>7. stack' # <<>>
  BY <1>1, <1>2, EmptySeq
<1>. QED BY <1>1, <1>2, <1>3, <1>4, <1>5, <1>6, <1>7

(***************************************************************************)
(* A task is appended.                                                     *)
(***************************************************************************)
LEMMA AppendTask ==
  ASSUME TypeOK, NEW c \in Coros, tasks' = Append(tasks, c)
  PROVE  /\ tasks' \in Seq(Coros) /\ Len(tasks') = Len(tasks) + 1
         /\ DOMAIN tasks' = DOMAIN tasks \cup {Len(tasks) + 1}
         /\ Len(tasks) + 1 \notin DOMAIN tasks
         /\ \A i \in DOMAIN tasks : tasks'[i] = tasks[i]
         /\ tasks'[Len(tasks) + 1] = c
<1>1. tasks \in Seq(Coros)
  BY DEF TypeOK
<1>2. /\ tasks' \in Seq(Coros) /\ Len(tasks') = Len(tasks) + 1
      /\ \A i \in 1 .. Len(tasks) : tasks'[i] = tasks[i]
      /\ tasks'[Len(tasks) + 1] = c
  BY <1>1, AppendProperties
<1>3. DOMAIN tasks' = 1 .. Len(tasks) + 1 /\ DOMAIN tasks = 1 .. Len(tasks) /\ Len(tasks) \in Nat
  BY <1>1, <1>2, LenProperties
<1>. QED BY <1>2, <1>3

(***************************************************************************)
(* A task is taken out of the list.                                        *)
(***************************************************************************)
LEMMA RemoveTask ==
  ASSUME TypeOK, task \in DOMAIN tasks,
         tasks' = SubSeq(tasks, 1, task - 1) \o SubSeq(tasks, task + 1, Len(tasks))
  PROVE  /\ tasks' \in Seq(Coros) /\ Len(tasks') = Len(tasks) - 1
         /\ DOMAIN tasks' = 1 .. Len(tasks) - 1
         /\ \A i \in DOMAIN tasks' : tasks'[i] = IF i < task THEN tasks[i] ELSE tasks[i + 1]
<1>1. /\ Len(tasks) \in Nat /\ DOMAIN tasks = 1 .. Len(tasks) /\ tasks \in Seq(Coros)
      /\ task \in 1 .. Len(tasks)
  BY SequenceFacts DEF TypeOK
<1>2. /\ tasks' \in Seq(Coros) /\ Len(tasks') = Len(tasks) - 1
      /\ \A i \in 1 .. task - 1 : tasks'[i] = tasks[i]
      /\ \A i \in task .. Len(tasks) - 1 : tasks'[i] = tasks[i + 1]
  BY <1>1, Removed
<1>3. DOMAIN tasks' = 1 .. Len(tasks) - 1
  BY <1>1, <1>2, LenProperties
<1>4. \A i \in DOMAIN tasks' : IF i < task THEN i \in 1 .. task - 1 ELSE i \in task .. Len(tasks) - 1
  BY <1>1, <1>3
<1>. QED BY <1>2, <1>3, <1>4

-----------------------------------------------------------------------------
(***************************************************************************)
(* The engine: its invariant is kept by whatever the executor does with it *)
(***************************************************************************)
LEMMA SameFinite == \A S : /\ P!IsFiniteSet(S) <=> IsFiniteSet(S)
                           /\ P!Cardinality(S) = Cardinality(S)
                           /\ IO!Cardinality(S) = Cardinality(S)
BY DEF P!IsFiniteSet, IsFiniteSet, P!Cardinality, IO!Cardinality, Cardinality

LEMMA EngineStepInv == P!IInv /\ [P!Next]_ioVars => P!IInv'
<1>1. P!IsFiniteSet(Coros) /\ FALSE \in BOOLEAN
  BY SameFinite, Names
<1>2. Cardinality(Coros) \in Nat \ {0}
  BY Names, FS_CardinalityType, FS_EmptySet
<1>. QED BY <1>1, <1>2, P!StepInv DEF ioVars, P!vars

LEMMA EngineInitInv == IO!Init => P!IInv
<1>1. P!IsFiniteSet(Coros) /\ FALSE \in BOOLEAN
  BY SameFinite, Names
<1>2. Cardinality(Coros) \in Nat \ {0}
  BY Names, FS_CardinalityType, FS_EmptySet
<1>3. IO!Init <=> P!Init
  BY DEF IO!Init, P!Init
<1>. QED BY <1>1, <1>2, <1>3, P!InitInv

LEMMA EngineSteps ==
  /\ IO!TypeOK <=> P!TypeOK
  /\ IO!Poll \/ IO!SubmitReturns \/ IO!SubmitFails => P!Next
  /\ IO!DecideToWait \/ IO!PeekEmpty => P!Next
  /\ \A c \in Coros : IO!WaitCqe(c) \/ IO!PeekCqe(c) => P!Next
  /\ \A c \in Coros : IO!Prepare(c) \/ IO!KernelTake(c) \/ IO!KernelComplete(c) => P!Next
  /\ \A progress \in BOOLEAN : IO!TasksRan(progress) => P!Next
<1>1. IO!TypeOK <=> P!TypeOK
  BY DEF IO!TypeOK, P!TypeOK, IO!Places, P!Places
<1>2. IO!Poll \/ IO!SubmitReturns \/ IO!SubmitFails => P!Next
  <2>1. IO!Poll => P!Poll
    BY DEF IO!Poll, P!Poll, IO!Goto, P!Goto
  <2>2. IO!SubmitReturns => P!SubmitReturns
    BY DEF IO!SubmitReturns, P!SubmitReturns, IO!Goto, P!Goto, IO!history, P!history
  <2>3. IO!SubmitFails => P!SubmitFails
    BY DEF IO!SubmitFails, P!SubmitFails, IO!Goto, P!Goto
  <2>. QED BY <2>1, <2>2, <2>3 DEF P!Next, P!Submit
<1>3. IO!DecideToWait \/ IO!PeekEmpty => P!Next
  <2>1. IO!DecideToWait => P!DecideToWait
    BY DEF IO!DecideToWait, P!DecideToWait, IO!Goto, P!Goto, IO!history, P!history
  <2>2. IO!PeekEmpty => P!PeekEmpty
    BY DEF IO!PeekEmpty, P!PeekEmpty, IO!Goto, P!Goto, IO!In, P!In, IO!history, P!history
  <2>. QED BY <2>1, <2>2 DEF P!Next, P!Complete
<1>4. ASSUME NEW c \in Coros PROVE IO!WaitCqe(c) \/ IO!PeekCqe(c) => P!Next
  <2>1. IO!WaitCqe(c) => P!WaitCqe(c)
    BY DEF IO!WaitCqe, P!WaitCqe, IO!Goto, P!Goto, IO!CompleteCqe, P!CompleteCqe,
           IO!Moves, P!Moves, IO!history, P!history
  <2>2. IO!PeekCqe(c) => P!PeekCqe(c)
    BY DEF IO!PeekCqe, P!PeekCqe, IO!Goto, P!Goto, IO!CompleteCqe, P!CompleteCqe,
           IO!Moves, P!Moves, IO!history, P!history
  <2>. QED BY <2>1, <2>2 DEF P!Next, P!Complete
<1>5. ASSUME NEW c \in Coros
      PROVE  IO!Prepare(c) \/ IO!KernelTake(c) \/ IO!KernelComplete(c) => P!Next
  <2>1. IO!Prepare(c) => P!Prepare(c)
    BY SameFinite DEF IO!Prepare, P!Prepare, IO!In, P!In
  <2>2. IO!KernelTake(c) => P!KernelTake(c)
    BY DEF IO!KernelTake, P!KernelTake, IO!Moves, P!Moves, IO!history, P!history
  <2>3. IO!KernelComplete(c) => P!KernelComplete(c)
    BY DEF IO!KernelComplete, P!KernelComplete, IO!Moves, P!Moves, IO!history, P!history
  <2>. QED BY <2>1, <2>2, <2>3 DEF P!Next
<1>6. ASSUME NEW progress \in BOOLEAN PROVE IO!TasksRan(progress) => P!Next
  <2>1. IO!TasksRan(progress) => P!TasksRan(progress)
    BY DEF IO!TasksRan, P!TasksRan, IO!Goto, P!Goto, IO!history, P!history
  <2>. QED BY <2>1 DEF P!Next
<1>. QED BY <1>1, <1>2, <1>3, <1>4, <1>5, <1>6

-----------------------------------------------------------------------------
(***************************************************************************)
(* Types                                                                   *)
(***************************************************************************)
LEMMA FrameTypes ==
  ASSUME TypeOK
  PROVE  /\ status \in [Coros -> {"none", "live", "done"}]
         /\ result \in [Coros -> {"pending", "value", "error"}]
         /\ owner  \in [Coros -> Coros \cup {App, None}]
         /\ fate   \in [Coros -> {"none", "rethrown", "logged", "dropped"}]
         /\ waits  \in [Coros -> Coros \cup {YieldTask, IoTask, None}]
         /\ fuel   \in [Coros -> 0 .. Fuel]
         /\ stack  \in Seq(Coros)
         /\ tasks  \in Seq(Coros)
         /\ task   \in 0 .. Len(tasks)
         /\ next   \in 0 .. Len(tasks)
         /\ newProgress \in BOOLEAN /\ ran \in BOOLEAN
         /\ phase  \in {"options", "starting", "between_runs", "routines", "tasks", "executing", "exited"}
         /\ where  \in [Coros -> {"none", "sq", "kernel", "cq", "done"}]
         /\ taken \in Nat /\ pending \in Nat /\ inflight \in Nat
         /\ pc \in {"tasks", "submitting", "submitted", "waiting", "peeking"}
         /\ hasProgress \in BOOLEAN
         /\ life \in {"running", "closed", "panicked"}
BY DEF TypeOK, IO!TypeOK, IO!Places

LEMMA TailType == \A s \in Seq(Coros) : s # <<>> => Tail(s) \in Seq(Coros)
OBVIOUS

LEMMA SuspendTypes ==
  ASSUME TypeOK, NEW c \in Coros, NEW what \in Coros \cup {YieldTask, IoTask},
         Running(c), Suspend(c, what)
  PROVE  /\ waits' \in [Coros -> Coros \cup {YieldTask, IoTask, None}]
         /\ stack' \in Seq(Coros) /\ tasks' \in Seq(Coros)
         /\ task \in 0 .. Len(tasks') /\ next \in 0 .. Len(tasks')
<1>1. stack' = Tail(stack) /\ stack # <<>> /\ tasks' = Append(tasks, c)
      /\ waits' = [waits EXCEPT ![c] = what]
  BY DEF Suspend, Running
<1>2. stack' \in Seq(Coros)
  BY <1>1, FrameTypes, TailType
<1>3. tasks' \in Seq(Coros) /\ Len(tasks') = Len(tasks) + 1 /\ Len(tasks) \in Nat
  BY <1>1, AppendTask, SequenceFacts
<1>4. waits' \in [Coros -> Coros \cup {YieldTask, IoTask, None}]
  <2>1. waits \in [Coros -> Coros \cup {YieldTask, IoTask, None}]
    BY FrameTypes
  <2>. QED BY <1>1, <2>1
<1>5. task \in 0 .. Len(tasks) /\ next \in 0 .. Len(tasks)
  BY FrameTypes
<1>. QED BY <1>2, <1>3, <1>4, <1>5

\* Giving up futures, and the exceptions in them.
LEMMA ConsumeTypes ==
  ASSUME TypeOK, NEW D, NEW what \in {"rethrown", "dropped"}
  PROVE  /\ \A d : [owner EXCEPT ![d] = None] \in [Coros -> Coros \cup {App, None}]
         /\ Mark(D, what) => fate' \in [Coros -> {"none", "rethrown", "logged", "dropped"}]
<1>1. /\ owner \in [Coros -> Coros \cup {App, None}]
      /\ fate \in [Coros -> {"none", "rethrown", "logged", "dropped"}]
  BY FrameTypes
<1>. QED BY <1>1 DEF Mark

LEMMA UserTypes ==
  ASSUME TypeOK, IO!TypeOK', NEW c \in Coros, User(c)
  PROVE  TypeOK'
<1>1. CASE AwaitIo(c)
  <2>1. fuel' \in [Coros -> 0 .. Fuel]
    <3>1. fuel \in [Coros -> 0 .. Fuel] /\ Fuel \in Nat /\ fuel[c] > 0
          /\ fuel' = [fuel EXCEPT ![c] = @ - 1]
      BY <1>1, FrameTypes, CorosAssumption DEF AwaitIo
    <3>. QED BY <3>1
  <2>2. Running(c) /\ Suspend(c, IoTask) /\ UNCHANGED <<status, result, owner, fate, runVars>>
    BY <1>1 DEF AwaitIo
  <2>. QED BY <2>1, <2>2, SuspendTypes, FrameTypes DEF TypeOK, runVars
<1>2. CASE Yield(c)
  <2>1. fuel' \in [Coros -> 0 .. Fuel]
    <3>1. fuel \in [Coros -> 0 .. Fuel] /\ Fuel \in Nat
      BY FrameTypes, CorosAssumption
    <3>2. CASE fuel' = fuel
      BY <3>1, <3>2
    <3>3. CASE fuel[c] > 0 /\ fuel' = [fuel EXCEPT ![c] = @ - 1]
      BY <3>1, <3>3
    <3>. QED BY <1>2, <3>2, <3>3 DEF Yield
  <2>2. Running(c) /\ Suspend(c, YieldTask) /\ UNCHANGED <<status, result, owner, fate, runVars>>
    BY <1>2 DEF Yield
  <2>. QED BY <2>1, <2>2, SuspendTypes, FrameTypes DEF TypeOK, runVars
<1>3. ASSUME NEW r \in {"value", "error"}, Finish(c, r) PROVE TypeOK'
  <2>1. /\ stack' = Tail(stack) /\ stack # <<>>
        /\ UNCHANGED <<waits, fuel, tasks, runVars, ioVars>>
    BY <1>3 DEF Finish, Running
  <2>2. stack' \in Seq(Coros)
    BY <2>1, FrameTypes, TailType
  <2>3. /\ result' \in [Coros -> {"pending", "value", "error"}]
        /\ status' \in [Coros -> {"none", "live", "done"}]
    <3>1. result \in [Coros -> {"pending", "value", "error"}] /\ status \in [Coros -> {"none", "live", "done"}]
      BY FrameTypes
    <3>. QED BY <1>3, <3>1 DEF Finish
  <2>4. owner' \in [Coros -> Coros \cup {App, None}]
    <3>1. owner \in [Coros -> Coros \cup {App, None}]
      BY FrameTypes
    <3>. QED BY <1>3, <3>1 DEF Finish, Release
  <2>5. fate' \in [Coros -> {"none", "rethrown", "logged", "dropped"}]
    <3>1. fate \in [Coros -> {"none", "rethrown", "logged", "dropped"}]
      BY FrameTypes
    <3>. QED BY <1>3, <3>1 DEF Finish
  <2>. QED BY <2>1, <2>2, <2>3, <2>4, <2>5, FrameTypes DEF TypeOK, runVars
<1>4. CASE OrphanNotLogged(c)
  <2>1. <<>> \in Seq(Coros)
    OBVIOUS
  <2>. QED BY <1>4, <2>1, FrameTypes DEF OrphanNotLogged, TypeOK
<1>5. ASSUME NEW d \in Coros, Call(c, d) PROVE TypeOK'
  <2>1. /\ stack' = <<d>> \o stack /\ status' = [status EXCEPT ![d] = "live"]
        /\ owner' = [owner EXCEPT ![d] = c]
        /\ UNCHANGED <<result, fate, waits, fuel, tasks, runVars, ioVars>>
    BY <1>5 DEF Call
  <2>2. stack' \in Seq(Coros)
    BY <2>1, PushStack
  <2>3. status' \in [Coros -> {"none", "live", "done"}] /\ owner' \in [Coros -> Coros \cup {App, None}]
    <3>1. status \in [Coros -> {"none", "live", "done"}] /\ owner \in [Coros -> Coros \cup {App, None}]
      BY FrameTypes
    <3>. QED BY <2>1, <3>1
  <2>. QED BY <2>1, <2>2, <2>3, FrameTypes DEF TypeOK, runVars
<1>6. ASSUME NEW d \in Coros, Await(c, d) PROVE TypeOK'
  <2>1. Running(c) /\ UNCHANGED <<status, result, fuel, runVars, ioVars>>
    BY <1>6 DEF Await
  <2>2. CASE Suspend(c, d) /\ UNCHANGED <<owner, fate>>
    BY <2>1, <2>2, SuspendTypes, FrameTypes DEF TypeOK, runVars
  <2>3. CASE /\ owner' = [owner EXCEPT ![d] = None] /\ Mark({d}, "rethrown")
             /\ UNCHANGED <<waits, tasks, stack>>
    BY <2>1, <2>3, ConsumeTypes, FrameTypes DEF TypeOK, runVars
  <2>. QED BY <1>6, <2>2, <2>3 DEF Await
<1>7. ASSUME NEW d \in Coros, DropFuture(c, d) PROVE TypeOK'
  <2>1. /\ owner' = [owner EXCEPT ![d] = None] /\ Mark({d}, "dropped")
        /\ UNCHANGED <<status, result, waits, fuel, stack, tasks, runVars, ioVars>>
    BY <1>7 DEF DropFuture
  <2>. QED BY <2>1, ConsumeTypes, FrameTypes DEF TypeOK, runVars
<1>. QED BY <1>1, <1>2, <1>3, <1>4, <1>5, <1>6, <1>7 DEF User, Return, Throw

LEMMA AfterType ==
  ASSUME TypeOK, NEW i \in 1 .. Len(tasks) PROVE After(i) \in 0 .. Len(tasks)
<1>1. Len(tasks) \in Nat
  BY SequenceFacts
<1>. QED BY <1>1 DEF After, End

LEMMA ThreadTypes ==
  ASSUME TypeOK, IO!TypeOK', Phases,
         \/ AnswerOption \/ Start \/ EnterLoop \/ Exit \/ BeginRun \/ EngineStep
         \/ BeginTasks \/ SkipTask \/ Resume \/ EraseTask \/ EndRun
  PROVE  TypeOK'
<1>1. CASE AnswerOption
  BY <1>1, FrameTypes DEF AnswerOption, Thread, TypeOK, frameVars
<1>2. CASE Start
  <2>1. <<Main>> \in Seq(Coros)
    BY Names
  <2>2. status' \in [Coros -> {"none", "live", "done"}] /\ owner' \in [Coros -> Coros \cup {App, None}]
    <3>1. status \in [Coros -> {"none", "live", "done"}] /\ owner \in [Coros -> Coros \cup {App, None}]
      BY FrameTypes
    <3>. QED BY <1>2, <3>1 DEF Start
  <2>. QED BY <1>2, <2>1, <2>2, FrameTypes DEF Start, Thread, TypeOK
<1>3. CASE EnterLoop
  BY <1>3, FrameTypes DEF EnterLoop, Thread, TypeOK, frameVars
<1>4. CASE Exit
  <2>1. /\ owner' = [owner EXCEPT ![Main] = None] /\ Mark({Main}, "rethrown")
        /\ phase' = "exited"
        /\ UNCHANGED <<status, result, waits, fuel, stack, tasks, task, next, newProgress, ran>>
    BY <1>4 DEF Exit, Thread
  <2>. QED BY <2>1, ConsumeTypes, FrameTypes DEF TypeOK
<1>5. CASE BeginRun
  BY <1>5, FrameTypes DEF BeginRun, Thread, TypeOK, frameVars
<1>6. CASE EngineStep
  BY <1>6, FrameTypes DEF EngineStep, TypeOK, frameVars, runVars
<1>7. CASE BeginTasks
  <2>1. task' \in 0 .. Len(tasks)
    BY <1>7, SequenceFacts, EmptySeq, FrameTypes DEF BeginTasks, End
  <2>. QED BY <1>7, <2>1, FrameTypes DEF BeginTasks, Thread, TypeOK, frameVars
<1>8. CASE SkipTask
  <2>1. task \in 1 .. Len(tasks)
    BY <1>8, FrameTypes, SequenceFacts DEF SkipTask, End
  <2>2. task' \in 0 .. Len(tasks)
    BY <1>8, <2>1, AfterType DEF SkipTask
  <2>. QED BY <1>8, <2>2, FrameTypes DEF SkipTask, Thread, TypeOK, frameVars
<1>9. CASE Resume
  <2>. DEFINE c == tasks[task]
  <2>1. task \in 1 .. Len(tasks)
    BY <1>9, FrameTypes, SequenceFacts DEF Resume, End
  <2>2. next' \in 0 .. Len(tasks)
    BY <1>9, <2>1, AfterType DEF Resume
  <2>3. c \in Coros
    BY <2>1, SequenceFacts
  <2>. HIDE DEF c
  <2>4. /\ stack' = <<c>> /\ waits' = [waits EXCEPT ![c] = None] /\ phase' = "executing"
        /\ \/ owner' = [owner EXCEPT ![waits[c]] = None] /\ Mark({waits[c]}, "rethrown")
           \/ UNCHANGED <<owner, fate>>
        /\ UNCHANGED <<status, result, fuel, tasks, task, newProgress, ran, spinners, ioVars>>
    BY <1>9 DEF Resume, Thread, c
  <2>5. stack' \in Seq(Coros)
    BY <2>3, <2>4
  <2>6. waits' \in [Coros -> Coros \cup {YieldTask, IoTask, None}]
    <3>1. waits \in [Coros -> Coros \cup {YieldTask, IoTask, None}]
      BY FrameTypes
    <3>. QED BY <2>4, <3>1
  <2>7. /\ owner' \in [Coros -> Coros \cup {App, None}]
        /\ fate' \in [Coros -> {"none", "rethrown", "logged", "dropped"}]
    BY <2>4, ConsumeTypes, FrameTypes
  <2>. QED BY <2>2, <2>4, <2>5, <2>6, <2>7, FrameTypes DEF TypeOK
<1>10. CASE EraseTask
  <2>0. task \in DOMAIN tasks
    BY <1>10 DEF EraseTask, Thread, Phases
  <2>1. tasks' \in Seq(Coros) /\ Len(tasks') = Len(tasks) - 1
    BY <1>10, <2>0, RemoveTask DEF EraseTask
  <2>2. task' \in 0 .. Len(tasks') /\ next' \in 0 .. Len(tasks')
    <3>1. Len(tasks) \in Nat /\ Len(tasks) > 0 /\ next \in 0 .. Len(tasks)
      BY <2>0, FrameTypes, SequenceFacts
    <3>2. task' = (IF next = 0 THEN 0 ELSE next - 1) /\ next' = 0
      BY <1>10 DEF EraseTask, End
    <3>. QED BY <2>1, <3>1, <3>2
  <2>. QED BY <1>10, <2>1, <2>2, FrameTypes DEF EraseTask, Thread, TypeOK, frameVars
<1>11. CASE EndRun
  BY <1>11, FrameTypes DEF EndRun, Thread, TypeOK, frameVars
<1>. QED BY <1>1, <1>2, <1>3, <1>4, <1>5, <1>6, <1>7, <1>8, <1>9, <1>10, <1>11

(***************************************************************************)
(* The engine's invariant says nothing of how the program has ended.       *)
(***************************************************************************)
LEMMA EngineEnds ==
  ASSUME P!IInv, life' \in {"running", "closed", "panicked"},
         UNCHANGED <<where, taken, pending, inflight, pc, hasProgress, burst, failed>>
  PROVE  P!IInv'
<1>1. P!TypeOK'
  BY DEF P!IInv, P!TypeOK, P!Places
<1>2. P!CountersExact'
  BY DEF P!IInv, P!CountersExact, P!In
<1>3. P!Phases' /\ P!BurstInv'
  BY DEF P!IInv, P!Phases, P!BurstInv
<1>. QED BY <1>1, <1>2, <1>3 DEF P!IInv

LEMMA EngineInv ==
  ASSUME TypeOK, P!IInv, [Next]_vars PROVE P!IInv' /\ IO!TypeOK'
<1>1. IO!TypeOK' <=> P!TypeOK'
  BY DEF IO!TypeOK, P!TypeOK, IO!Places, P!Places
<1>. SUFFICES P!IInv'
  BY <1>1 DEF P!IInv
<1>2. ASSUME UNCHANGED ioVars PROVE P!IInv'
  BY <1>2, EngineStepInv
<1>3. ASSUME P!Next PROVE P!IInv'
  BY <1>3, EngineStepInv
<1>4. ASSUME NEW c \in Coros, User(c) PROVE P!IInv'
  <2>1. CASE AwaitIo(c)
    BY <1>3, <2>1, EngineSteps DEF AwaitIo
  <2>2. CASE Yield(c)
    BY <1>2, <2>2 DEF Yield
  <2>3. CASE Return(c) \/ Throw(c)
    BY <1>2, <2>3 DEF Return, Throw, Finish
  <2>4. CASE OrphanNotLogged(c)
    BY <2>4, EngineEnds DEF OrphanNotLogged
  <2>5. CASE \E d \in Coros : Call(c, d) \/ Await(c, d) \/ DropFuture(c, d)
    BY <1>2, <2>5 DEF Call, Await, DropFuture
  <2>. QED BY <1>4, <2>1, <2>2, <2>3, <2>4, <2>5 DEF User
<1>5. CASE AnswerOption
  BY <1>5, EngineEnds DEF AnswerOption
<1>6. CASE Exit
  BY <1>6, EngineEnds DEF Exit
<1>7. CASE Start \/ EnterLoop \/ SkipTask \/ Resume \/ EraseTask
  BY <1>2, <1>7 DEF Start, EnterLoop, SkipTask, Resume, EraseTask
<1>8. CASE BeginRun
  BY <1>3, <1>8, EngineSteps DEF BeginRun
<1>9. CASE EngineStep
  BY <1>3, <1>9, EngineSteps DEF EngineStep
<1>10. CASE BeginTasks
  BY <1>3, <1>10, EngineSteps DEF BeginTasks
<1>11. CASE EndRun
  <2>1. newProgress \in BOOLEAN
    BY FrameTypes
  <2>. QED BY <1>3, <1>11, <2>1, EngineSteps DEF EndRun
<1>12. ASSUME NEW c \in Coros, KernelTake(c) \/ KernelComplete(c) PROVE P!IInv'
  BY <1>3, <1>12, EngineSteps DEF KernelTake, KernelComplete
<1>13. CASE UNCHANGED vars
  BY <1>2, <1>13 DEF vars, ioVars
<1>. QED BY <1>4, <1>5, <1>6, <1>7, <1>8, <1>9, <1>10, <1>11, <1>12, <1>13 DEF Next, ThreadStep

LEMMA TypesInv ==
  ASSUME TypeOK, Phases, IO!TypeOK', [Next]_vars PROVE TypeOK'
<1>1. ASSUME NEW c \in Coros, KernelTake(c) \/ KernelComplete(c) PROVE TypeOK'
  BY <1>1, FrameTypes DEF KernelTake, KernelComplete, TypeOK, frameVars, runVars
<1>2. CASE UNCHANGED vars
  BY <1>2, FrameTypes DEF vars, TypeOK, frameVars, runVars
<1>. QED BY <1>1, <1>2, UserTypes, ThreadTypes DEF Next, ThreadStep

-----------------------------------------------------------------------------
(***************************************************************************)
(* What the coroutines do                                                  *)
(***************************************************************************)
LEMMA RunningFacts ==
  ASSUME TypeOK, EInv, NEW c \in Coros, Running(c)
  PROVE  /\ stack # <<>> /\ 1 \in DOMAIN stack /\ stack[1] = c /\ OnStack(c)
         /\ status[c] = "live" /\ result[c] = "pending" /\ waits[c] = None /\ ~Outstanding(c)
         /\ phase \in {"starting", "executing"} /\ pc = "tasks" /\ life = "running"
         /\ \A i \in Queued : tasks[i] # c
         /\ owner[c] # c
<1>1. stack # <<>> /\ 1 \in DOMAIN stack /\ stack[1] = c /\ life = "running"
  BY SequenceFacts DEF Running
<1>2. OnStack(c)
  BY <1>1 DEF OnStack
<1>3. status[c] = "live"
  BY <1>1 DEF EInv, Stack
<1>4. result[c] = "pending" /\ waits[c] = None
  BY <1>2, <1>3 DEF EInv, Frames
<1>5. ~Outstanding(c)
  BY <1>4, Names DEF EInv, Frames
<1>6. phase \in {"starting", "executing"}
  BY <1>1 DEF EInv, Stack
<1>7. pc = "tasks"
  BY <1>6 DEF EInv, Phases
<1>8. \A i \in Queued : tasks[i] # c
  BY <1>2 DEF EInv, OneTaskPerSuspension
<1>9. owner[c] # c
  <2>1. {c} \in SUBSET Coros /\ {c} # {}
    OBVIOUS
  <2>. QED BY <2>1 DEF EInv, OwnersAcyclic
<1>. QED BY <1>1, <1>2, <1>3, <1>4, <1>5, <1>6, <1>7, <1>8, <1>9

\* What no step of a coroutine touches, unless it panics.
LEMMA WhileRunning ==
  ASSUME EInv, phase \in {"starting", "executing"}, task \in DOMAIN tasks => task \in DOMAIN tasks',
         UNCHANGED <<phase, pc, task, ran>>, status[Main] # "none" => status'[Main] # "none"
  PROVE  Phases' /\ Idle' /\ CleanExit'
<1>1. Phases'
  BY DEF EInv, Phases
<1>2. Idle' /\ CleanExit'
  BY DEF EInv, Idle, CleanExit
<1>. QED BY <1>1, <1>2

LEMMA OwnersShrink ==
  ASSUME OwnersAcyclic, \A d \in Coros : owner'[d] = owner[d] \/ owner'[d] \notin Coros
  PROVE  OwnersAcyclic'
<1>. SUFFICES ASSUME NEW S \in SUBSET Coros, S # {} PROVE \E d \in S : owner'[d] \notin S
  BY DEF OwnersAcyclic
<1>1. PICK d \in S : owner[d] \notin S
  BY DEF OwnersAcyclic
<1>. QED BY <1>1

(***************************************************************************)
(* A coroutine suspends: its task is appended and its caller runs on.      *)
(***************************************************************************)
LEMMA SuspendInv ==
  ASSUME TypeOK, EInv, NEW c \in Coros, NEW what \in Coros \cup {YieldTask, IoTask},
         Running(c), Suspend(c, what), what \in Coros => owner[what] = c,
         UNCHANGED <<status, result, owner, fate, task, phase, ran, pc>>,
         \A d \in Coros \ {c} : Outstanding(d)' => Outstanding(d), Outstanding(c)' => what = IoTask
  PROVE  EInv'
<1>1. /\ stack # <<>> /\ 1 \in DOMAIN stack /\ stack[1] = c /\ OnStack(c)
      /\ status[c] = "live" /\ waits[c] = None /\ phase \in {"starting", "executing"}
      /\ \A i \in Queued : tasks[i] # c
  BY RunningFacts
<1>2. /\ waits' = [waits EXCEPT ![c] = what] /\ tasks' = Append(tasks, c)
      /\ stack' = Tail(stack) /\ Head(stack) = c
  BY DEF Suspend, Running
<1>3. Stack /\ Frames /\ OwnersAcyclic /\ NoExceptionIsLost /\ OneTaskPerSuspension
  BY DEF EInv
<1>4. /\ \A d : OnStack(d)' <=> OnStack(d) /\ d # c
      /\ \A i, j \in DOMAIN stack' : stack'[i] = stack'[j] => i = j
      /\ \A i \in DOMAIN stack' : i + 1 \in DOMAIN stack /\ stack'[i] = stack[i + 1]
      /\ \A i \in DOMAIN stack' : i + 1 \in DOMAIN stack' => i + 2 \in DOMAIN stack
      /\ stack' # <<>> => stack'[Len(stack')] = stack[Len(stack)]
  BY <1>1, <1>2, <1>3, PopStack
<1>5. /\ DOMAIN tasks' = DOMAIN tasks \cup {Len(tasks) + 1}
      /\ Len(tasks) + 1 \notin DOMAIN tasks
      /\ \A i \in DOMAIN tasks : tasks'[i] = tasks[i]
      /\ tasks'[Len(tasks) + 1] = c
  BY <1>2, AppendTask
<1>6. \A d \in Coros : waits'[d] = IF d = c THEN what ELSE waits[d]
  BY <1>2, FrameTypes
<1>7. Frames'
  <2>. SUFFICES ASSUME NEW d \in Coros
                PROVE  /\ waits'[d] # None => status[d] = "live" /\ ~OnStack(d)'
                       /\ waits'[d] \in Coros => owner[waits'[d]] = d
                       /\ Outstanding(d)' => waits'[d] = IoTask
    BY <1>3 DEF Frames
  <2>1. CASE d = c
    BY <1>1, <1>3, <1>4, <1>6, <2>1, Names DEF Frames
  <2>2. CASE d # c
    BY <1>3, <1>4, <1>6, <2>2 DEF Frames
  <2>. QED BY <2>1, <2>2
<1>8. Stack'
  <2>1. \A i \in DOMAIN stack' : status[stack'[i]] = "live"
    BY <1>3, <1>4 DEF Stack
  <2>2. ASSUME NEW i \in DOMAIN stack', i + 1 \in DOMAIN stack' PROVE owner[stack'[i]] = stack'[i + 1]
    <3>1. i \in Nat /\ i + 1 \in DOMAIN stack /\ i + 1 + 1 \in DOMAIN stack
      <4>1. stack' \in Seq(Coros)
        BY <1>2, <1>1, FrameTypes, TailType
      <4>2. i \in Nat
        BY <4>1, LenProperties
      <4>. QED BY <1>4, <2>2, <4>2
    <3>2. stack'[i] = stack[i + 1] /\ stack'[i + 1] = stack[i + 1 + 1]
      BY <1>4, <2>2
    <3>. QED BY <1>3, <3>1, <3>2 DEF Stack
  <2>3. stack' # <<>> =>
           \/ phase = "starting" /\ stack'[Len(stack')] = Main /\ owner[Main] = App
           \/ phase = "executing" /\ stack'[Len(stack')] = tasks'[task]
    <3>1. phase = "executing" => task \in DOMAIN tasks
      BY DEF EInv, Phases
    <3>. QED BY <1>1, <1>3, <1>4, <1>5, <3>1 DEF Stack
  <2>. QED BY <1>4, <2>1, <2>2, <2>3 DEF Stack
<1>9. Phases' /\ Idle' /\ CleanExit'
  BY <1>1, <1>5, WhileRunning
<1>10. OneTaskPerSuspension'
  <2>1. Queued' = Queued \cup {Len(tasks) + 1} /\ Queued \subseteq DOMAIN tasks
    <3>1. phase = "executing" => task \in DOMAIN tasks
      BY DEF EInv, Phases
    <3>. QED BY <1>5, <3>1 DEF Queued
  <2>2. ASSUME NEW d \in Coros
        PROVE  /\ (status[d] = "live" /\ ~OnStack(d)') <=> \E i \in Queued' : tasks'[i] = d
               /\ \A i, j \in Queued' : tasks'[i] = d /\ tasks'[j] = d => i = j
    <3>1. \A i \in Queued' : tasks'[i] = d <=> (i \in Queued /\ tasks[i] = d) \/ (i = Len(tasks) + 1 /\ d = c)
      BY <1>5, <2>1
    <3>2. CASE d = c
      BY <1>1, <1>4, <2>1, <3>1, <3>2
    <3>3. CASE d # c
      BY <1>3, <1>4, <2>1, <3>1, <3>3 DEF OneTaskPerSuspension
    <3>. QED BY <3>2, <3>3
  <2>. QED BY <2>2 DEF OneTaskPerSuspension
<1>11. OwnersAcyclic' /\ NoExceptionIsLost'
  BY <1>3 DEF OwnersAcyclic, NoExceptionIsLost
<1>. QED BY <1>7, <1>8, <1>9, <1>10, <1>11 DEF EInv

(***************************************************************************)
(* A coroutine gives a future up, ready or not.                            *)
(***************************************************************************)
LEMMA ConsumeInv ==
  ASSUME TypeOK, EInv, NEW c \in Coros, NEW d \in Coros, NEW what \in {"rethrown", "dropped"},
         Running(c), owner[d] = c,
         owner' = [owner EXCEPT ![d] = None], Mark({d}, what),
         UNCHANGED <<status, result, waits, stack, tasks, runVars, ioVars>>
  PROVE  EInv'
<1>1. /\ stack # <<>> /\ 1 \in DOMAIN stack /\ stack[1] = c
      /\ waits[c] = None /\ phase \in {"starting", "executing"}
  BY RunningFacts
<1>2. Stack /\ Frames /\ OwnersAcyclic /\ NoExceptionIsLost /\ OneTaskPerSuspension
  BY DEF EInv
<1>3. \A x \in Coros : owner'[x] = IF x = d THEN None ELSE owner[x]
  BY FrameTypes
<1>4. \A x \in Coros : result[x] = "error" => fate'[x] = IF x = d THEN what ELSE fate[x]
  BY DEF Mark
<1>5. UNCHANGED <<status, result, waits, stack, tasks, task, phase, ran, pc, where>>
  BY DEF runVars, ioVars
<1>6. \A x : OnStack(x)' <=> OnStack(x)
  BY <1>5 DEF OnStack
<1>7. Frames'
  <2>. SUFFICES ASSUME NEW x \in Coros
                PROVE  /\ owner'[x] # None => status[x] # "none"
                       /\ owner'[x] \in Coros => status[owner'[x]] = "live"
                       /\ owner'[x] = App => x = Main
                       /\ owner'[Main] \notin Coros
                       /\ waits[x] \in Coros => owner'[waits[x]] = x
    BY <1>2, <1>5, <1>6 DEF Frames, Outstanding
  <2>1. owner[d] # App /\ None # App /\ None \notin Coros /\ Main \in Coros
    BY Names
  <2>2. waits[x] \in Coros => waits[x] # d
    BY <1>1, <1>2, Names DEF Frames
  <2>. QED BY <1>2, <1>3, <2>1, <2>2 DEF Frames
<1>8. Stack'
  <2>1. \A i \in DOMAIN stack : i + 1 \in DOMAIN stack => stack[i] # d
    <3>. SUFFICES ASSUME NEW i \in DOMAIN stack, i + 1 \in DOMAIN stack, stack[i] = d PROVE FALSE
      OBVIOUS
    <3>1. stack[i + 1] = stack[1]
      BY <1>1, <1>2 DEF Stack
    <3>2. i + 1 = 1
      BY <1>1, <1>2, <3>1 DEF Stack
    <3>. QED BY <3>2, SequenceFacts
  <2>2. \A i \in DOMAIN stack : stack[i] \in Coros
    BY SequenceFacts
  <2>3. owner[Main] = App => owner'[Main] = App
    BY <1>3, Names
  <2>. QED BY <1>2, <1>3, <1>5, <2>1, <2>2, <2>3 DEF Stack
<1>9. Phases' /\ Idle' /\ CleanExit'
  BY <1>1, <1>5, WhileRunning
<1>10. OneTaskPerSuspension'
  BY <1>2, <1>5, <1>6 DEF OneTaskPerSuspension, Queued
<1>11. OwnersAcyclic'
  BY <1>2, <1>3, Names, OwnersShrink
<1>12. NoExceptionIsLost'
  BY <1>2, <1>3, <1>4, <1>5 DEF NoExceptionIsLost
<1>. QED BY <1>7, <1>8, <1>9, <1>10, <1>11, <1>12 DEF EInv

(***************************************************************************)
(* A coroutine calls another one, which runs at once.                      *)
(***************************************************************************)
LEMMA CallInv ==
  ASSUME TypeOK, EInv, NEW c \in Coros, NEW d \in Coros, Call(c, d)
  PROVE  EInv'
<1>. Running(c)
  BY DEF Call
<1>1. /\ stack # <<>> /\ 1 \in DOMAIN stack /\ stack[1] = c
      /\ status[c] = "live" /\ phase \in {"starting", "executing"}
  BY RunningFacts
<1>2. Stack /\ Frames /\ OwnersAcyclic /\ NoExceptionIsLost /\ OneTaskPerSuspension
  BY DEF EInv
<1>3. /\ status[d] = "none" /\ stack' = <<d>> \o stack
      /\ \A x \in Coros : /\ owner'[x] = IF x = d THEN c ELSE owner[x]
                          /\ status'[x] = IF x = d THEN "live" ELSE status[x]
      /\ UNCHANGED <<result, fate, waits, tasks, task, phase, ran, pc, where>>
  BY FrameTypes DEF Call, runVars, ioVars
<1>4. /\ d # c /\ waits[d] = None /\ owner[d] = None /\ result[d] = "pending" /\ ~Outstanding(d)
      /\ d # Main /\ ~OnStack(d)
      /\ \A x \in Coros : owner[x] # d /\ waits[x] # d
  <2>1. d # c /\ waits[d] = None /\ owner[d] = None /\ ~OnStack(d)
        /\ \A x \in Coros : owner[x] # d /\ waits[x] # d
    BY <1>1, <1>2, <1>3, Names DEF Frames, Stack, OnStack
  <2>2. result[d] = "pending"
    BY <1>2, <1>3 DEF Frames
  <2>3. d # Main
    BY <1>1, <1>3 DEF EInv, Phases
  <2>4. ~Outstanding(d)
    BY <1>2, <2>1, Names DEF Frames
  <2>. QED BY <2>1, <2>2, <2>3, <2>4
<1>5. /\ stack'[1] = d
      /\ \A i \in DOMAIN stack : i + 1 \in DOMAIN stack' /\ stack'[i + 1] = stack[i]
      /\ \A i \in DOMAIN stack' : i # 1 => i - 1 \in DOMAIN stack /\ stack'[i] = stack[i - 1]
      /\ \A e : OnStack(e)' <=> OnStack(e) \/ e = d
      /\ stack'[Len(stack')] = stack[Len(stack)]
      /\ DOMAIN stack' = 1 .. Len(stack) + 1
  BY <1>1, <1>3, PushStack
<1>6. Frames'
  <2>. SUFFICES ASSUME NEW x \in Coros
                PROVE  /\ status'[x] = "done" <=> result[x] # "pending"
                       /\ owner'[x] # None => status'[x] # "none"
                       /\ owner'[x] \in Coros => status'[owner'[x]] = "live"
                       /\ owner'[x] = App => x = Main
                       /\ owner'[Main] \notin Coros
                       /\ waits[x] # None => status'[x] = "live" /\ ~OnStack(x)'
                       /\ waits[x] \in Coros => owner'[waits[x]] = x
                       /\ Outstanding(x) => waits[x] = IoTask
    BY <1>3 DEF Frames, Outstanding
  <2>1. c # App /\ Main \in Coros
    BY Names
  <2>2. CASE x = d
    BY <1>1, <1>2, <1>3, <1>4, <2>1, <2>2, Names DEF Frames
  <2>3. CASE x # d
    BY <1>1, <1>2, <1>3, <1>4, <1>5, <2>1, <2>3 DEF Frames
  <2>. QED BY <2>2, <2>3
<1>7. Stack'
  <2>1. \A i \in DOMAIN stack : stack[i] \in Coros /\ stack[i] # d
    BY <1>4, SequenceFacts DEF OnStack
  <2>2. \A i, j \in DOMAIN stack' : stack'[i] = stack'[j] => i = j
    <3>. SUFFICES ASSUME NEW i \in DOMAIN stack', NEW j \in DOMAIN stack', stack'[i] = stack'[j] PROVE i = j
      OBVIOUS
    <3>1. CASE i = 1 \/ j = 1
      BY <1>5, <2>1, <3>1
    <3>2. CASE i # 1 /\ j # 1
      <4>1. i - 1 = j - 1
        BY <1>2, <1>5, <3>2 DEF Stack
      <4>. QED BY <1>5, <4>1, SequenceFacts
    <3>. QED BY <3>1, <3>2
  <2>3. \A i \in DOMAIN stack' : status'[stack'[i]] = "live"
    BY <1>2, <1>3, <1>5, <2>1 DEF Stack
  <2>4. ASSUME NEW i \in DOMAIN stack', i + 1 \in DOMAIN stack' PROVE owner'[stack'[i]] = stack'[i + 1]
    <3>1. CASE i = 1
      <4>1. stack'[1 + 1] = stack[1]
        BY <1>1, <1>5
      <4>. QED BY <1>1, <1>3, <1>5, <3>1, <4>1
    <3>2. CASE i # 1
      <4>1. i - 1 \in DOMAIN stack /\ i \in DOMAIN stack /\ i - 1 + 1 = i
        BY <1>5, <2>4, <3>2, SequenceFacts
      <4>2. owner[stack[i - 1]] = stack[i]
        BY <1>2, <4>1 DEF Stack
      <4>. QED BY <1>3, <1>5, <2>1, <3>2, <4>1, <4>2
    <3>. QED BY <3>1, <3>2
  <2>5. \/ phase = "starting" /\ stack'[Len(stack')] = Main /\ owner'[Main] = App
        \/ phase = "executing" /\ stack'[Len(stack')] = tasks[task]
    BY <1>1, <1>2, <1>3, <1>4, <1>5, Names DEF Stack
  <2>. QED BY <1>3, <2>2, <2>3, <2>4, <2>5 DEF Stack
<1>8. OwnersAcyclic'
  <2>. SUFFICES ASSUME NEW S \in SUBSET Coros, S # {} PROVE \E x \in S : owner'[x] \notin S
    BY DEF OwnersAcyclic
  <2>1. CASE S \ {d} = {}
    BY <1>3, <1>4, <2>1
  <2>2. CASE S \ {d} # {}
    <3>1. PICK x \in S \ {d} : owner[x] \notin S \ {d}
      BY <1>2, <2>2 DEF OwnersAcyclic
    <3>. QED BY <1>3, <1>4, <3>1
  <2>. QED BY <2>1, <2>2
<1>9. Phases' /\ Idle' /\ CleanExit'
  BY <1>1, <1>3, <1>4, Names, WhileRunning
<1>10. OneTaskPerSuspension'
  BY <1>2, <1>3, <1>5 DEF OneTaskPerSuspension, Queued
<1>11. NoExceptionIsLost'
  BY <1>2, <1>3, <1>4 DEF NoExceptionIsLost
<1>. QED BY <1>6, <1>7, <1>8, <1>9, <1>10, <1>11 DEF EInv

(***************************************************************************)
(* A coroutine ends, and its frame goes with the futures it has.           *)
(***************************************************************************)
LEMMA FinishInv ==
  ASSUME TypeOK, EInv, NEW c \in Coros, NEW r \in {"value", "error"}, Finish(c, r)
  PROVE  EInv'
<1>. Running(c)
  BY DEF Finish
<1>1. /\ stack # <<>> /\ 1 \in DOMAIN stack /\ stack[1] = c /\ OnStack(c)
      /\ status[c] = "live" /\ waits[c] = None /\ phase \in {"starting", "executing"}
      /\ ~Outstanding(c) /\ owner[c] # c
      /\ \A i \in Queued : tasks[i] # c
  BY RunningFacts
<1>2. Stack /\ Frames /\ OwnersAcyclic /\ NoExceptionIsLost /\ OneTaskPerSuspension
  BY DEF EInv
<1>3. /\ stack' = Tail(stack) /\ Head(stack) = c
      /\ UNCHANGED <<waits, tasks, task, phase, ran, pc, where>>
  BY DEF Finish, runVars, ioVars, Running
<1>a. \A x \in Coros : owner'[x] = IF owner[x] = c THEN None ELSE owner[x]
  BY FrameTypes DEF Finish, Release, Owned
<1>b. /\ status'[c] = "done" /\ \A x \in Coros : x # c => status'[x] = status[x]
      /\ result'[c] = r /\ \A x \in Coros : x # c => result'[x] = result[x]
  <2>1. /\ status' = [status EXCEPT ![c] = "done"] /\ result' = [result EXCEPT ![c] = r]
    BY DEF Finish
  <2>2. status \in [Coros -> {"none", "live", "done"}] /\ result \in [Coros -> {"pending", "value", "error"}]
    BY FrameTypes
  <2>. QED BY <2>1, <2>2
<1>c. /\ r = "error" /\ owner[c] = None => fate'[c] = "logged"
      /\ \A x \in Coros : x # c => fate'[x] = IF owner[x] = c /\ result[x] = "error" THEN "dropped"
                                              ELSE fate[x]
  <2>1. fate' = [d \in Coros |->
                  IF d = c /\ r = "error" /\ owner[c] = None THEN "logged"
                  ELSE IF d \in Owned(c) /\ result[d] = "error" THEN "dropped"
                  ELSE fate[d]]
    BY DEF Finish
  <2>. QED BY <2>1 DEF Owned
<1>4. /\ \A d : OnStack(d)' <=> OnStack(d) /\ d # c
      /\ \A i, j \in DOMAIN stack' : stack'[i] = stack'[j] => i = j
      /\ \A i \in DOMAIN stack' : i + 1 \in DOMAIN stack /\ stack'[i] = stack[i + 1]
      /\ \A i \in DOMAIN stack' : i + 1 \in DOMAIN stack' => i + 2 \in DOMAIN stack
      /\ stack' # <<>> => stack'[Len(stack')] = stack[Len(stack)]
      /\ stack' \in Seq(Coros)
  BY <1>1, <1>2, <1>3, PopStack
<1>5. Frames'
  <2>. SUFFICES ASSUME NEW x \in Coros
                PROVE  /\ status'[x] = "done" <=> result'[x] # "pending"
                       /\ owner'[x] # None => status'[x] # "none"
                       /\ owner'[x] \in Coros => status'[owner'[x]] = "live"
                       /\ owner'[x] = App => x = Main
                       /\ owner'[Main] \notin Coros
                       /\ waits[x] # None => status'[x] = "live" /\ ~OnStack(x)'
                       /\ waits[x] \in Coros => owner'[waits[x]] = x
                       /\ Outstanding(x) => waits[x] = IoTask
    BY <1>3 DEF Frames, Outstanding
  <2>1. Main \in Coros /\ None \notin Coros /\ None # App
    BY Names
  <2>2. status'[x] = "done" <=> result'[x] # "pending"
    <3>1. status[x] = "done" <=> result[x] # "pending"
      BY <1>2 DEF Frames
    <3>. QED BY <1>b, <3>1
  <2>3. /\ owner'[x] # None => status'[x] # "none"
        /\ owner'[x] \in Coros => status'[owner'[x]] = "live"
        /\ owner'[x] = App => x = Main
        /\ owner'[Main] \notin Coros
    <3>1. /\ owner[x] # None => status[x] # "none"
          /\ owner[x] \in Coros => status[owner[x]] = "live"
          /\ owner[x] = App => x = Main
          /\ owner[Main] \notin Coros
      BY <1>2 DEF Frames
    <3>. QED BY <1>a, <1>b, <2>1, <3>1
  <2>4. waits[x] # None => x # c /\ status'[x] = "live" /\ ~OnStack(x)'
    <3>1. waits[x] # None => status[x] = "live" /\ ~OnStack(x)
      BY <1>2 DEF Frames
    <3>. QED BY <1>1, <1>b, <1>4, <3>1
  <2>5. waits[x] \in Coros => owner'[waits[x]] = x
    BY <1>2, <1>a, <2>1, <2>4 DEF Frames
  <2>6. Outstanding(x) => waits[x] = IoTask
    BY <1>2 DEF Frames
  <2>. QED BY <2>2, <2>3, <2>4, <2>5, <2>6
<1>6. Stack'
  <2>1. ASSUME NEW i \in DOMAIN stack'
        PROVE  /\ stack'[i] \in Coros /\ stack'[i] # c /\ status'[stack'[i]] = "live"
               /\ i + 1 \in DOMAIN stack' => owner'[stack'[i]] = stack'[i + 1]
    <3>1. i \in Nat /\ i # 0 /\ i + 1 \in DOMAIN stack /\ stack'[i] = stack[i + 1]
      BY <1>4, LenProperties
    <3>2. stack'[i] \in Coros /\ stack'[i] # c
      <4>1. i + 1 # 1
        BY <3>1
      <4>. QED BY <1>1, <1>2, <3>1, <4>1, SequenceFacts DEF Stack
    <3>3. status'[stack'[i]] = "live"
      BY <1>2, <1>b, <3>1, <3>2 DEF Stack
    <3>4. ASSUME i + 1 \in DOMAIN stack' PROVE owner'[stack'[i]] = stack'[i + 1]
      <4>1. i + 1 + 1 \in DOMAIN stack /\ stack'[i + 1] = stack[i + 1 + 1] /\ i + 1 + 1 # 1
        BY <1>4, <3>1, <3>4
      <4>2. owner[stack[i + 1]] = stack[i + 1 + 1] /\ stack[i + 1 + 1] # c
        BY <1>1, <1>2, <3>1, <4>1 DEF Stack
      <4>. QED BY <1>a, <3>1, <3>2, <4>1, <4>2
    <3>. QED BY <3>2, <3>3, <3>4
  <2>2. stack' # <<>> =>
           \/ phase = "starting" /\ stack'[Len(stack')] = Main /\ owner'[Main] = App
           \/ phase = "executing" /\ stack'[Len(stack')] = tasks[task]
    BY <1>1, <1>2, <1>3, <1>a, <1>4, Names DEF Stack
  <2>. QED BY <1>3, <1>4, <2>1, <2>2 DEF Stack
<1>7. Phases' /\ Idle' /\ CleanExit'
  <2>1. status[Main] # "none" => status'[Main] # "none"
    BY <1>b, Names
  <2>. QED BY <1>1, <1>3, <2>1, WhileRunning
<1>8. OneTaskPerSuspension'
  <2>. SUFFICES ASSUME NEW x \in Coros
                PROVE  (status'[x] = "live" /\ ~OnStack(x)') <=> \E i \in Queued : tasks[i] = x
    BY <1>2, <1>3 DEF OneTaskPerSuspension, Queued
  <2>1. CASE x = c
    BY <1>1, <1>b, <2>1
  <2>2. CASE x # c
    <3>1. (status[x] = "live" /\ ~OnStack(x)) <=> \E i \in Queued : tasks[i] = x
      BY <1>2 DEF OneTaskPerSuspension
    <3>. QED BY <1>b, <1>4, <2>2, <3>1
  <2>. QED BY <2>1, <2>2
<1>9. OwnersAcyclic'
  BY <1>2, <1>a, Names, OwnersShrink
<1>10. NoExceptionIsLost'
  <2>. SUFFICES ASSUME NEW x \in Coros, result'[x] = "error", owner'[x] = None PROVE fate'[x] # "none"
    BY DEF NoExceptionIsLost
  <2>1. CASE x = c
    BY <1>1, <1>a, <1>b, <1>c, <2>1
  <2>2. CASE x # c
    <3>1. result[x] = "error" /\ (owner[x] = None \/ owner[x] = c)
      BY <1>a, <1>b, <2>2
    <3>2. owner[x] = None => fate[x] # "none"
      BY <1>2, <3>1 DEF NoExceptionIsLost
    <3>. QED BY <1>c, <2>2, <3>1, <3>2
  <2>. QED BY <2>1, <2>2
<1>. QED BY <1>5, <1>6, <1>7, <1>8, <1>9, <1>10 DEF EInv

(***************************************************************************)
(* The orphan's exception cannot be logged: the program ends with the      *)
(* task of the coroutine still in the reactor.                             *)
(***************************************************************************)
LEMMA OrphanInv ==
  ASSUME TypeOK, EInv, NEW c \in Coros, OrphanNotLogged(c)
  PROVE  EInv'
<1>. Running(c)
  BY DEF OrphanNotLogged
<1>1. /\ stack # <<>> /\ 1 \in DOMAIN stack /\ stack[1] = c /\ OnStack(c)
      /\ status[c] = "live" /\ phase \in {"starting", "executing"} /\ pc = "tasks"
      /\ \A i \in Queued : tasks[i] # c
  BY RunningFacts
<1>2. Stack /\ Frames /\ OwnersAcyclic /\ NoExceptionIsLost /\ OneTaskPerSuspension
  BY DEF EInv
<1>3. /\ owner[c] = None /\ stack' = <<>> /\ phase' = "exited" /\ life' = "panicked"
      /\ UNCHANGED <<status, result, owner, fate, waits, tasks, task, ran, pc, where>>
  BY DEF OrphanNotLogged
<1>4. DOMAIN stack' = {} /\ \A x : ~OnStack(x)'
  BY <1>3 DEF OnStack
<1>5. Len(stack) = 1
  <2>1. ASSUME 2 \in DOMAIN stack PROVE FALSE
    <3>1. 1 + 1 \in DOMAIN stack
      BY <2>1
    <3>2. owner[stack[1]] = stack[1 + 1]
      BY <1>1, <1>2, <3>1 DEF Stack
    <3>3. stack[1 + 1] \in Coros
      BY <3>1, SequenceFacts
    <3>. QED BY <1>1, <1>3, <3>2, <3>3, Names
  <2>. QED BY <1>1, <2>1, SequenceFacts
<1>6. phase = "executing" /\ c = tasks[task] /\ task \in DOMAIN tasks
  BY <1>1, <1>2, <1>3, <1>5, Names DEF EInv, Stack, Phases
<1>7. \A x : OnStack(x) <=> x = c
  BY <1>1, <1>5, SequenceFacts DEF OnStack
<1>8. OneTaskPerSuspension'
  <2>1. Queued' = Queued \cup {task} /\ task \notin Queued
    BY <1>3, <1>6 DEF Queued
  <2>2. ASSUME NEW x \in Coros
        PROVE  /\ status[x] = "live" <=> \E i \in Queued' : tasks[i] = x
               /\ \A i, j \in Queued' : tasks[i] = x /\ tasks[j] = x => i = j
    <3>1. CASE x = c
      BY <1>1, <1>6, <2>1, <3>1
    <3>2. CASE x # c
      BY <1>2, <1>6, <1>7, <2>1, <3>2 DEF OneTaskPerSuspension
    <3>. QED BY <3>1, <3>2
  <2>. QED BY <1>3, <1>4, <2>2 DEF OneTaskPerSuspension
<1>9. Frames'
  BY <1>2, <1>3, <1>4 DEF Frames, Outstanding
<1>10. Stack' /\ OwnersAcyclic' /\ NoExceptionIsLost'
  BY <1>2, <1>3, <1>4 DEF Stack, OwnersAcyclic, NoExceptionIsLost
<1>11. Phases' /\ Idle'
  BY <1>1, <1>3 DEF EInv, Phases, Idle
<1>12. CleanExit'
  BY <1>1, <1>3 DEF CleanExit
<1>. QED BY <1>8, <1>9, <1>10, <1>11, <1>12 DEF EInv

LEMMA UserInv ==
  ASSUME TypeOK, EInv, NEW c \in Coros, User(c)
  PROVE  EInv'
<1>1. CASE AwaitIo(c)
  <2>1. /\ Running(c) /\ Suspend(c, IoTask) /\ IO!Prepare(c)
        /\ UNCHANGED <<status, result, owner, fate, task, phase, ran>>
    BY <1>1 DEF AwaitIo, runVars
  <2>2. pc' = pc /\ \A d \in Coros \ {c} : Outstanding(d)' => Outstanding(d)
    BY <2>1, FrameTypes DEF IO!Prepare, Outstanding
  <2>. QED BY <2>1, <2>2, SuspendInv, Names
<1>2. CASE Yield(c)
  <2>1. /\ Running(c) /\ Suspend(c, YieldTask)
        /\ UNCHANGED <<status, result, owner, fate, task, phase, ran, pc, where>>
    BY <1>2 DEF Yield, runVars, ioVars
  <2>2. ~Outstanding(c)' /\ \A d \in Coros \ {c} : Outstanding(d)' => Outstanding(d)
    BY <2>1, RunningFacts DEF Outstanding
  <2>. QED BY <2>1, <2>2, SuspendInv, Names
<1>3. CASE Return(c) \/ Throw(c)
  BY <1>3, FinishInv DEF Return, Throw
<1>4. CASE OrphanNotLogged(c)
  BY <1>4, OrphanInv
<1>5. ASSUME NEW d \in Coros, Call(c, d) PROVE EInv'
  BY <1>5, CallInv
<1>6. ASSUME NEW d \in Coros, Await(c, d) PROVE EInv'
  <2>1. /\ Running(c) /\ owner[d] = c
        /\ UNCHANGED <<status, result, fuel, runVars, ioVars>>
    BY <1>6 DEF Await
  <2>2. CASE Suspend(c, d) /\ UNCHANGED <<owner, fate>>
    <3>1. UNCHANGED <<task, phase, ran, pc, where>>
      BY <2>1 DEF runVars, ioVars
    <3>2. ~Outstanding(c)' /\ \A x \in Coros \ {c} : Outstanding(x)' => Outstanding(x)
      BY <2>1, <3>1, RunningFacts DEF Outstanding
    <3>. QED BY <2>1, <2>2, <3>1, <3>2, SuspendInv
  <2>3. CASE /\ owner' = [owner EXCEPT ![d] = None] /\ Mark({d}, "rethrown")
             /\ UNCHANGED <<waits, tasks, stack>>
    BY <2>1, <2>3, ConsumeInv
  <2>. QED BY <1>6, <2>2, <2>3 DEF Await
<1>7. ASSUME NEW d \in Coros, DropFuture(c, d) PROVE EInv'
  BY <1>7, ConsumeInv DEF DropFuture
<1>. QED BY <1>1, <1>2, <1>3, <1>4, <1>5, <1>6, <1>7 DEF User

-----------------------------------------------------------------------------
(***************************************************************************)
(* What Reactor::run and Application::run do                               *)
(*                                                                         *)
(* Most of their steps touch neither the frames nor the list of tasks: the *)
(* stack is empty, and all they can disturb is where the thread stands.    *)
(***************************************************************************)
LEMMA NoStack == ASSUME EInv, phase \notin {"starting", "executing"} PROVE stack = <<>>
BY DEF EInv, Stack

LEMMA QuietInv ==
  ASSUME EInv, UNCHANGED <<frameVars, tasks>>,
         \/ phase' = phase /\ task' = task
         \/ stack = <<>> /\ phase # "executing" /\ phase' \notin {"starting", "executing"},
         \A c \in Coros : Outstanding(c)' => Outstanding(c)
  PROVE  Frames' /\ OwnersAcyclic' /\ Stack' /\ OneTaskPerSuspension' /\ NoExceptionIsLost'
<1>1. /\ Stack /\ Frames /\ OwnersAcyclic /\ NoExceptionIsLost /\ OneTaskPerSuspension
      /\ UNCHANGED <<status, result, owner, fate, waits, stack, tasks>>
  BY DEF EInv, frameVars
<1>2. \A x : OnStack(x)' <=> OnStack(x)
  BY <1>1 DEF OnStack
<1>3. Frames'
  BY <1>1, <1>2 DEF Frames
<1>4. OwnersAcyclic' /\ NoExceptionIsLost'
  BY <1>1 DEF OwnersAcyclic, NoExceptionIsLost
<1>5. Stack'
  BY <1>1 DEF Stack
<1>6. Queued' = Queued
  BY <1>1 DEF Queued, Stack
<1>7. OneTaskPerSuspension'
  BY <1>1, <1>2, <1>6 DEF OneTaskPerSuspension
<1>. QED BY <1>3, <1>4, <1>5, <1>7

\* A coroutine is ready or not whatever else changes.
LEMMA ReadyStays ==
  ASSUME NEW c, UNCHANGED <<waits, result>>, where'[c] = "done" <=> where[c] = "done"
  PROVE  Ready(c)' <=> Ready(c)
BY DEF Ready

LEMMA EngineStepKeeps ==
  ASSUME TypeOK, EInv, EngineStep \/ \E c \in Coros : KernelTake(c) \/ KernelComplete(c)
  PROVE  EInv'
<1>1. UNCHANGED <<frameVars, tasks, runVars>>
  BY DEF EngineStep, KernelTake, KernelComplete
<1>2. UNCHANGED <<status, result, waits, stack, tasks, task, newProgress, phase, ran>>
  BY <1>1 DEF frameVars, runVars
<1>3. life = "running" /\ life' = "running" /\ hasProgress' = hasProgress
  BY DEF EngineStep, KernelTake, KernelComplete, IO!SubmitReturns, IO!SubmitFails, IO!DecideToWait,
         IO!WaitCqe, IO!PeekCqe, IO!KernelTake, IO!KernelComplete, IO!Goto, IO!history
<1>4. ASSUME NEW r \in Coros, IO!WaitCqe(r) \/ IO!PeekCqe(r)
      PROVE  /\ pc \in {"waiting", "peeking"} /\ pc' = "peeking"
             /\ \A c \in Coros : Outstanding(c)' => Outstanding(c)
  BY <1>4, FrameTypes DEF IO!WaitCqe, IO!PeekCqe, IO!Goto, IO!CompleteCqe, IO!Moves, Outstanding
<1>5. ASSUME IO!SubmitReturns \/ IO!SubmitFails \/ IO!DecideToWait
      PROVE  /\ pc \in {"submitting", "submitted"} /\ pc' # "tasks" /\ where' = where
             /\ pc' = "waiting" => ~hasProgress
  BY <1>5 DEF IO!SubmitReturns, IO!SubmitFails, IO!DecideToWait, IO!Goto
<1>6. ASSUME NEW r \in Coros, KernelTake(r) \/ KernelComplete(r)
      PROVE  /\ pc' = pc
             /\ \A c \in Coros : Outstanding(c)' => Outstanding(c)
             /\ \A c \in Coros : where'[c] = "done" <=> where[c] = "done"
  BY <1>6, FrameTypes DEF KernelTake, KernelComplete, IO!KernelTake, IO!KernelComplete, IO!Moves, Outstanding
<1>7. ASSUME where' = where PROVE \A c \in Coros : Outstanding(c)' => Outstanding(c)
  BY <1>7 DEF Outstanding
<1>8. \A c \in Coros : Outstanding(c)' => Outstanding(c)
  <2>1. CASE EngineStep
    BY <1>4, <1>5, <1>7, <2>1 DEF EngineStep
  <2>2. ASSUME NEW r \in Coros, KernelTake(r) \/ KernelComplete(r)
        PROVE  \A c \in Coros : Outstanding(c)' => Outstanding(c)
    BY <1>6, <2>2
  <2>. QED BY <2>1, <2>2
<1>9. Frames' /\ OwnersAcyclic' /\ Stack' /\ OneTaskPerSuspension' /\ NoExceptionIsLost'
  BY <1>1, <1>2, <1>8, QuietInv
<1>10. CleanExit'
  BY <1>3 DEF CleanExit
<1>11. EngineStep => phase = "routines" /\ pc' # "tasks" /\ (pc' = "waiting" => ~hasProgress)
  BY <1>4, <1>5 DEF EngineStep
<1>12. Phases'
  <2>1. EngineStep \/ pc' = pc
    BY <1>6
  <2>. QED BY <1>2, <1>3, <1>11, <2>1 DEF EInv, Phases
<1>13. \A i \in DOMAIN tasks : tasks[i] \in Coros
  BY SequenceFacts
<1>14. CASE \A c \in Coros : where'[c] = "done" <=> where[c] = "done"
  <2>1. \A i \in DOMAIN tasks : Ready(tasks[i])' <=> Ready(tasks[i])
    BY <1>2, <1>13, <1>14 DEF Ready
  <2>2. pc # "peeking" \/ pc' = "peeking" \/ pc' = pc
    BY <1>4, <1>5, <1>6 DEF EngineStep
  <2>3. Idle'
    BY <1>2, <1>3, <2>1, <2>2 DEF EInv, Idle
  <2>. QED BY <1>9, <1>10, <1>12, <2>3 DEF EInv
<1>15. CASE EngineStep /\ pc' = "peeking"
  <2>1. Idle'
    BY <1>2, <1>11, <1>15 DEF Idle
  <2>. QED BY <1>9, <1>10, <1>12, <2>1 DEF EInv
<1>16. CASE EngineStep
  BY <1>4, <1>5, <1>14, <1>15, <1>16 DEF EngineStep
<1>17. ASSUME NEW r \in Coros, KernelTake(r) \/ KernelComplete(r) PROVE EInv'
  <2>1. \A c \in Coros : where'[c] = "done" <=> where[c] = "done"
    BY <1>6, <1>17
  <2>. QED BY <1>14, <2>1
<1>. QED BY <1>16, <1>17

LEMMA QuietStepKeeps ==
  ASSUME TypeOK, EInv,
         BeginRun \/ BeginTasks \/ SkipTask \/ EndRun \/ AnswerOption \/ EnterLoop
  PROVE  EInv'
<1>1. /\ UNCHANGED <<frameVars, tasks>> /\ where' = where
      /\ phase # "executing" /\ phase' \notin {"starting", "executing"}
      /\ stack = <<>>
  <2>1. CASE EnterLoop
    BY <2>1 DEF EnterLoop, Thread, ioVars
  <2>2. CASE BeginRun \/ BeginTasks \/ SkipTask \/ EndRun \/ AnswerOption
    BY <2>2, NoStack DEF BeginRun, BeginTasks, SkipTask, EndRun, AnswerOption, Thread,
                         IO!Poll, IO!PeekEmpty, IO!TasksRan, ioVars
  <2>. QED BY <2>1, <2>2
<1>2. \A c \in Coros : Outstanding(c)' => Outstanding(c)
  BY <1>1 DEF Outstanding
<1>3. Frames' /\ OwnersAcyclic' /\ Stack' /\ OneTaskPerSuspension' /\ NoExceptionIsLost'
  BY <1>1, <1>2, QuietInv
<1>4. UNCHANGED <<status, result, waits, stack, tasks>>
  BY <1>1 DEF frameVars
<1>5. \A i \in DOMAIN tasks : Ready(tasks[i])' <=> Ready(tasks[i])
  BY <1>1, <1>4 DEF Ready
<1>6. Phases /\ Idle /\ CleanExit
  BY DEF EInv
<1>7. CASE BeginRun
  <2>1. /\ phase = "between_runs" /\ phase' = "routines" /\ pc = "tasks"
        /\ pc' \in {"submitting", "submitted"} /\ UNCHANGED <<hasProgress, ran>>
    BY <1>7 DEF BeginRun, Thread, IO!Poll, IO!Goto
  <2>. QED BY <1>3, <1>4, <1>5, <1>6, <2>1 DEF EInv, Phases, Idle, CleanExit
<1>8. CASE BeginTasks
  <2>1. /\ phase = "routines" /\ phase' = "tasks" /\ pc' = "tasks" /\ ran' = ran
        /\ task' = IF tasks = <<>> THEN End ELSE 1
    BY <1>8 DEF BeginTasks, Thread, IO!PeekEmpty, IO!Goto
  <2>2. \A i \in DOMAIN tasks : ~(task' = End \/ i < task')
    <3>1. tasks = <<>> => DOMAIN tasks = {}
      OBVIOUS
    <3>. QED BY <2>1, <3>1, SequenceFacts DEF End
  <2>. QED BY <1>3, <1>4, <1>6, <2>1, <2>2 DEF EInv, Phases, Idle, CleanExit
<1>9. CASE SkipTask
  <2>1. /\ phase = "tasks" /\ phase' = "tasks" /\ task # End /\ ~Ready(tasks[task])
        /\ task' = (IF task = Len(tasks) THEN End ELSE task + 1)
        /\ UNCHANGED <<pc, ran, newProgress, hasProgress>>
    BY <1>9 DEF SkipTask, Thread, ioVars, After
  <2>2. task \in 1 .. Len(tasks) /\ DOMAIN tasks = 1 .. Len(tasks) /\ Len(tasks) \in Nat
    BY <2>1, FrameTypes, SequenceFacts DEF End
  <2>3. ASSUME NEW i \in DOMAIN tasks, task' = End \/ i < task' PROVE i < task \/ i = task
    <3>1. CASE task = Len(tasks)
      BY <2>2, <3>1
    <3>2. CASE task # Len(tasks)
      <4>1. task' = task + 1 /\ task' # End
        <5>1. task' = task + 1
          BY <2>1, <3>2
        <5>. QED BY <2>2, <5>1 DEF End
      <4>. QED BY <2>2, <2>3, <4>1
    <3>. QED BY <3>1, <3>2
  <2>4. Idle'
    BY <1>4, <1>5, <1>6, <2>1, <2>3 DEF Idle
  <2>. QED BY <1>3, <1>4, <1>6, <2>1, <2>4 DEF EInv, Phases, CleanExit
<1>10. CASE EndRun
  <2>1. /\ phase = "tasks" /\ phase' = "between_runs" /\ task = End
        /\ pc = "tasks" /\ pc' = "tasks" /\ hasProgress' = newProgress
    BY <1>10 DEF EndRun, Thread, IO!TasksRan, IO!Goto
  <2>2. newProgress \in BOOLEAN
    BY FrameTypes
  <2>3. Idle'
    BY <1>4, <1>5, <1>6, <2>1, <2>2 DEF Idle
  <2>. QED BY <1>3, <1>4, <1>6, <2>1, <2>3 DEF EInv, Phases, CleanExit
<1>11. CASE AnswerOption
  <2>1. /\ phase = "options" /\ phase' = "exited" /\ pc' = pc /\ life' = "closed"
    BY <1>11 DEF AnswerOption, Thread
  <2>. QED BY <1>3, <1>4, <1>6, <2>1 DEF EInv, Phases, Idle, CleanExit
<1>12. CASE EnterLoop
  <2>1. /\ phase = "starting" /\ phase' = "between_runs"
        /\ UNCHANGED <<pc, ran>>
    BY <1>12 DEF EnterLoop, Thread, ioVars
  <2>. QED BY <1>3, <1>4, <1>6, <2>1 DEF EInv, Phases, Idle, CleanExit
<1>. QED BY <1>7, <1>8, <1>9, <1>10, <1>11, <1>12

(***************************************************************************)
(* A task is executed: its coroutine runs, and what it awaited is consumed.*)
(***************************************************************************)
LEMMA ResumeInv ==
  ASSUME TypeOK, EInv, Resume
  PROVE  EInv'
<1>. DEFINE c == tasks[task]
<1>1. /\ phase = "tasks" /\ phase' = "executing" /\ stack' = <<c>>
      /\ Ready(c) /\ waits' = [waits EXCEPT ![c] = None]
      /\ UNCHANGED <<status, result, tasks, task, ran, pc, where>>
  BY DEF Resume, Thread, ioVars
<1>2. task \in DOMAIN tasks /\ c \in Coros
  BY FrameTypes, SequenceFacts DEF Resume, End
<1>3. IF waits[c] \in Coros
      THEN owner' = [owner EXCEPT ![waits[c]] = None] /\ Mark({waits[c]}, "rethrown")
      ELSE UNCHANGED <<owner, fate>>
  BY DEF Resume
<1>. HIDE DEF c
<1>4. Stack /\ Frames /\ OwnersAcyclic /\ NoExceptionIsLost /\ OneTaskPerSuspension /\ Phases
  BY DEF EInv
<1>5. /\ stack = <<>> /\ DOMAIN stack' = {1} /\ stack'[1] = c /\ stack'[Len(stack')] = c
      /\ \A x : ~OnStack(x) /\ (OnStack(x)' <=> x = c)
  <2>1. stack = <<>>
    BY <1>1, NoStack
  <2>2. DOMAIN stack' = {1} /\ stack'[1] = c /\ stack'[Len(stack')] = c
    BY <1>1
  <2>3. DOMAIN stack = {}
    BY <2>1
  <2>. QED BY <2>1, <2>2, <2>3 DEF OnStack
<1>6. \A x \in Coros : /\ waits'[x] = IF x = c THEN None ELSE waits[x]
                       /\ owner'[x] = IF waits[c] \in Coros /\ x = waits[c] THEN None ELSE owner[x]
  <2>1. \A x \in Coros : waits'[x] = IF x = c THEN None ELSE waits[x]
    BY <1>1, FrameTypes
  <2>2. \A x \in Coros : owner'[x] = IF waits[c] \in Coros /\ x = waits[c] THEN None ELSE owner[x]
    BY <1>3, FrameTypes
  <2>. QED BY <2>1, <2>2
<1>7. /\ waits[c] # None /\ status[c] = "live"
      /\ waits[c] = IoTask => where[c] = "done"
      /\ waits[c] \in Coros => result[waits[c]] # "pending" /\ owner[waits[c]] = c
  BY <1>1, <1>2, <1>4, Names DEF Ready, Frames
<1>8. Frames'
  <2>. SUFFICES ASSUME NEW x \in Coros
                PROVE  /\ owner'[x] # None => status[x] # "none"
                       /\ owner'[x] \in Coros => status[owner'[x]] = "live"
                       /\ owner'[x] = App => x = Main
                       /\ owner'[Main] \notin Coros
                       /\ waits'[x] # None => status[x] = "live" /\ ~OnStack(x)'
                       /\ waits'[x] \in Coros => owner'[waits'[x]] = x
                       /\ Outstanding(x) => waits'[x] = IoTask
    BY <1>1, <1>4 DEF Frames, Outstanding
  <2>1. Main \in Coros /\ None \notin Coros /\ None # App
    BY Names
  <2>2. /\ owner'[x] # None => status[x] # "none"
        /\ owner'[x] \in Coros => status[owner'[x]] = "live"
        /\ owner'[x] = App => x = Main
        /\ owner'[Main] \notin Coros
    BY <1>4, <1>6, <2>1 DEF Frames
  <2>3. CASE x = c
    BY <1>4, <1>6, <1>7, <2>1, <2>2, <2>3 DEF Frames, Outstanding
  <2>4. CASE x # c
    BY <1>4, <1>5, <1>6, <1>7, <2>1, <2>2, <2>4 DEF Frames
  <2>. QED BY <2>3, <2>4
<1>9. Stack'
  <2>1. ASSUME NEW i \in DOMAIN stack', NEW j \in DOMAIN stack' PROVE i = j
    BY <1>5
  <2>2. \A i \in DOMAIN stack' : status'[stack'[i]] = "live"
    BY <1>1, <1>5, <1>7
  <2>3. \A i \in DOMAIN stack' : i + 1 \notin DOMAIN stack'
    BY <1>5
  <2>4. phase' = "executing" /\ stack'[Len(stack')] = tasks'[task']
    BY <1>1, <1>5 DEF c
  <2>. QED BY <2>1, <2>2, <2>3, <2>4 DEF Stack
<1>10. Phases' /\ Idle' /\ CleanExit'
  BY <1>1, <1>2, <1>4 DEF Phases, Idle, CleanExit
<1>11. OneTaskPerSuspension'
  <2>1. Queued' = DOMAIN tasks \ {task} /\ Queued = DOMAIN tasks
    BY <1>1 DEF Queued
  <2>. SUFFICES ASSUME NEW x \in Coros
                PROVE  (status[x] = "live" /\ x # c) <=> \E i \in DOMAIN tasks \ {task} : tasks[i] = x
    BY <1>1, <1>4, <1>5, <2>1 DEF OneTaskPerSuspension
  <2>2. /\ status[x] = "live" <=> \E i \in DOMAIN tasks : tasks[i] = x
        /\ \A i, j \in DOMAIN tasks : tasks[i] = x /\ tasks[j] = x => i = j
    BY <1>4, <1>5, <2>1 DEF OneTaskPerSuspension
  <2>. QED BY <1>2, <2>2 DEF c
<1>12. OwnersAcyclic'
  BY <1>4, <1>6, Names, OwnersShrink
<1>13. NoExceptionIsLost'
  <2>1. \A x \in Coros : result[x] = "error" =>
           fate'[x] = IF waits[c] \in Coros /\ x = waits[c] THEN "rethrown" ELSE fate[x]
    BY <1>3 DEF Mark
  <2>. QED BY <1>1, <1>4, <1>6, <2>1 DEF NoExceptionIsLost
<1>. QED BY <1>8, <1>9, <1>10, <1>11, <1>12, <1>13 DEF EInv

(***************************************************************************)
(* The executed task is erased.                                            *)
(***************************************************************************)
LEMMA EraseInv ==
  ASSUME TypeOK, EInv, EraseTask
  PROVE  EInv'
<1>1. /\ phase = "executing" /\ phase' = "tasks" /\ stack = <<>> /\ newProgress' = TRUE
      /\ tasks' = SubSeq(tasks, 1, task - 1) \o SubSeq(tasks, task + 1, Len(tasks))
      /\ UNCHANGED <<status, result, owner, fate, waits, stack, ran, pc, where>>
  BY DEF EraseTask, Thread, ioVars, frameVars
<1>2. Stack /\ Frames /\ OwnersAcyclic /\ NoExceptionIsLost /\ OneTaskPerSuspension /\ Phases
  BY DEF EInv
<1>3. task \in DOMAIN tasks
  BY <1>1, <1>2 DEF Phases
<1>4. /\ DOMAIN tasks' = 1 .. Len(tasks) - 1
      /\ \A i \in DOMAIN tasks' : tasks'[i] = IF i < task THEN tasks[i] ELSE tasks[i + 1]
      /\ DOMAIN tasks = 1 .. Len(tasks) /\ Len(tasks) \in Nat
  BY <1>1, <1>3, RemoveTask, SequenceFacts
<1>5. \A x : OnStack(x)' <=> OnStack(x)
  BY <1>1 DEF OnStack
<1>6. Frames' /\ OwnersAcyclic' /\ NoExceptionIsLost'
  BY <1>1, <1>2, <1>5 DEF Frames, OwnersAcyclic, NoExceptionIsLost, Outstanding
<1>7. Stack'
  BY <1>1, <1>2 DEF Stack
<1>8. Phases' /\ Idle' /\ CleanExit'
  BY <1>1, <1>2 DEF Phases, Idle, CleanExit
<1>9. OneTaskPerSuspension'
  <2>1. Queued = DOMAIN tasks \ {task} /\ Queued' = DOMAIN tasks'
    BY <1>1 DEF Queued
  <2>2. ASSUME NEW i \in DOMAIN tasks'
        PROVE  \E k \in Queued : k = (IF i < task THEN i ELSE i + 1) /\ tasks'[i] = tasks[k]
    BY <1>3, <1>4, <2>1
  <2>3. ASSUME NEW k \in Queued
        PROVE  \E i \in DOMAIN tasks' : tasks'[i] = tasks[k]
    <3>1. CASE k < task
      BY <1>3, <1>4, <2>1, <3>1
    <3>2. CASE k > task
      <4>1. k - 1 \in DOMAIN tasks' /\ ~(k - 1 < task) /\ k - 1 + 1 = k
        BY <1>3, <1>4, <2>1, <3>2
      <4>2. tasks'[k - 1] = tasks[k - 1 + 1]
        BY <1>4, <4>1
      <4>. QED BY <4>1, <4>2
    <3>. QED BY <1>3, <1>4, <2>1, <3>1, <3>2
  <2>4. ASSUME NEW x \in Coros
        PROVE  /\ (status[x] = "live" /\ ~OnStack(x)) <=> \E i \in DOMAIN tasks' : tasks'[i] = x
               /\ \A i, j \in DOMAIN tasks' : tasks'[i] = x /\ tasks'[j] = x => i = j
    <3>1. /\ (status[x] = "live" /\ ~OnStack(x)) <=> \E i \in Queued : tasks[i] = x
          /\ \A i, j \in Queued : tasks[i] = x /\ tasks[j] = x => i = j
      BY <1>2 DEF OneTaskPerSuspension
    <3>2. (\E i \in Queued : tasks[i] = x) <=> \E i \in DOMAIN tasks' : tasks'[i] = x
      BY <2>2, <2>3
    <3>3. ASSUME NEW i \in DOMAIN tasks', NEW j \in DOMAIN tasks', tasks'[i] = x, tasks'[j] = x
          PROVE  i = j
      <4>1. (IF i < task THEN i ELSE i + 1) = (IF j < task THEN j ELSE j + 1)
        BY <2>2, <3>1, <3>3
      <4>. QED BY <1>3, <1>4, <4>1
    <3>. QED BY <3>1, <3>2, <3>3
  <2>. QED BY <1>1, <1>5, <2>1, <2>4 DEF OneTaskPerSuspension
<1>. QED BY <1>6, <1>7, <1>8, <1>9 DEF EInv

(***************************************************************************)
(* func is called, which makes the main coroutine run.                     *)
(***************************************************************************)
LEMMA StartInv ==
  ASSUME TypeOK, EInv, Start
  PROVE  EInv'
<1>1. /\ phase = "options" /\ phase' = "starting" /\ stack' = <<Main>>
      /\ status' = [status EXCEPT ![Main] = "live"] /\ owner' = [owner EXCEPT ![Main] = App]
      /\ UNCHANGED <<result, fate, waits, tasks, task, ran, pc, where>>
  BY DEF Start, Thread, ioVars
<1>2. Stack /\ Frames /\ OwnersAcyclic /\ NoExceptionIsLost /\ OneTaskPerSuspension /\ Phases
  BY DEF EInv
<1>3. /\ tasks = <<>> /\ DOMAIN tasks = {}
      /\ \A c \in Coros : /\ status[c] = "none" /\ owner[c] = None /\ waits[c] = None
                          /\ result[c] = "pending" /\ ~Outstanding(c)
  <2>1. tasks = <<>> /\ \A c \in Coros : status[c] = "none"
    BY <1>1, <1>2 DEF Phases
  <2>. QED BY <1>2, <2>1, Names DEF Frames
<1>4. \A c \in Coros : /\ status'[c] = IF c = Main THEN "live" ELSE "none"
                       /\ owner'[c] = IF c = Main THEN App ELSE None
  BY <1>1, <1>3, FrameTypes
<1>5. /\ DOMAIN stack' = {1} /\ stack'[1] = Main /\ stack'[Len(stack')] = Main
      /\ \A x : OnStack(x)' <=> x = Main
  <2>1. DOMAIN stack' = {1} /\ stack'[1] = Main /\ stack'[Len(stack')] = Main
    BY <1>1
  <2>. QED BY <2>1 DEF OnStack
<1>6. Frames'
  BY <1>1, <1>3, <1>4, Names DEF Frames, Outstanding
<1>7. OwnersAcyclic' /\ NoExceptionIsLost'
  BY <1>1, <1>3, <1>4, Names DEF OwnersAcyclic, NoExceptionIsLost
<1>8. Stack'
  BY <1>1, <1>4, <1>5, Names DEF Stack
<1>9. Phases' /\ Idle' /\ CleanExit'
  BY <1>1, <1>2, <1>4, Names DEF Phases, Idle, CleanExit
<1>10. OneTaskPerSuspension'
  BY <1>1, <1>3, <1>4, <1>5 DEF OneTaskPerSuspension, Queued
<1>. QED BY <1>6, <1>7, <1>8, <1>9, <1>10 DEF EInv

(***************************************************************************)
(* The application ends.  If something is left, some coroutine is alive,   *)
(* and among those that are alive the futures lead to one that nobody has. *)
(***************************************************************************)
LEMMA LeftBehind ==
  ASSUME TypeOK, P!IInv, EInv, phase = "between_runs", pending # 0 \/ tasks # <<>>
  PROVE  \E c \in Coros : status[c] = "live"
<1>1. CASE tasks # <<>>
  <2>1. 1 \in DOMAIN tasks /\ tasks[1] \in Coros
    BY <1>1, FrameTypes, EmptySeq, SequenceFacts
  <2>2. Queued = DOMAIN tasks
    BY DEF Queued
  <2>3. status[tasks[1]] = "live"
    BY <2>1, <2>2 DEF EInv, OneTaskPerSuspension
  <2>. QED BY <2>1, <2>3
<1>2. CASE pending # 0
  <2>1. taken = 0
    BY DEF EInv, Phases, P!IInv, P!Phases
  <2>2. pending = Cardinality(P!In("sq")) + taken
    BY SameFinite DEF P!IInv, P!CountersExact
  <2>3. P!In("sq") # {}
    <3>. SUFFICES ASSUME P!In("sq") = {} PROVE FALSE
      OBVIOUS
    <3>1. Cardinality(P!In("sq")) = 0
      BY FS_EmptySet
    <3>. QED BY <1>2, <2>1, <2>2, <3>1
  <2>4. PICK c \in Coros : where[c] = "sq"
    BY <2>3 DEF P!In
  <2>5. waits[c] # None
    BY <2>4, Names DEF EInv, Frames, Outstanding
  <2>. QED BY <2>5 DEF EInv, Frames
<1>. QED BY <1>1, <1>2

LEMMA OrphanAlive ==
  ASSUME TypeOK, EInv, result[Main] # "pending", NEW c \in Coros, status[c] = "live"
  PROVE  \E d \in Coros : status[d] = "live" /\ owner[d] = None
<1>. DEFINE S == {d \in Coros : status[d] = "live"}
<1>1. S \in SUBSET Coros /\ S # {}
  OBVIOUS
<1>2. PICK d \in S : owner[d] \notin S
  BY <1>1 DEF EInv, OwnersAcyclic
<1>3. owner[d] \notin Coros
  BY <1>2 DEF EInv, Frames
<1>4. owner[d] # App
  <2>1. status[Main] = "done"
    BY Names DEF EInv, Frames
  <2>. QED BY <2>1, <1>2 DEF EInv, Frames
<1>5. owner[d] = None
  BY <1>2, <1>3, <1>4, FrameTypes
<1>. QED BY <1>2, <1>5

LEMMA ExitInv ==
  ASSUME TypeOK, P!IInv, EInv, Exit
  PROVE  EInv'
<1>1. /\ phase = "between_runs" /\ phase' = "exited" /\ result[Main] # "pending"
      /\ life'  = IF pending = 0 /\ tasks = <<>> THEN "closed" ELSE "panicked"
      /\ owner' = [owner EXCEPT ![Main] = None]
      /\ UNCHANGED <<status, result, waits, stack, tasks, task, ran, pc, where, newProgress, hasProgress>>
  BY DEF Exit, Thread
<1>2. Stack /\ Frames /\ OwnersAcyclic /\ NoExceptionIsLost /\ OneTaskPerSuspension /\ Phases
  BY DEF EInv
<1>3. \A x \in Coros : /\ owner'[x] = IF x = Main THEN None ELSE owner[x]
                       /\ result[x] = "error" => fate'[x] = IF x = Main THEN "rethrown" ELSE fate[x]
  <2>1. \A x \in Coros : owner'[x] = IF x = Main THEN None ELSE owner[x]
    BY <1>1, FrameTypes
  <2>2. \A x \in Coros : result[x] = "error" => fate'[x] = IF x = Main THEN "rethrown" ELSE fate[x]
    BY DEF Exit, Mark
  <2>. QED BY <2>1, <2>2
<1>4. stack = <<>> /\ \A x : OnStack(x)' <=> OnStack(x)
  BY <1>1, NoStack DEF OnStack
<1>5. Frames'
  <2>. SUFFICES ASSUME NEW x \in Coros
                PROVE  /\ owner'[x] # None => status[x] # "none"
                       /\ owner'[x] \in Coros => status[owner'[x]] = "live"
                       /\ owner'[x] = App => x = Main
                       /\ owner'[Main] \notin Coros
                       /\ waits[x] \in Coros => owner'[waits[x]] = x
    BY <1>1, <1>2, <1>4 DEF Frames, Outstanding
  <2>. QED BY <1>2, <1>3, Names DEF Frames
<1>6. OwnersAcyclic'
  BY <1>2, <1>3, Names, OwnersShrink
<1>7. NoExceptionIsLost'
  BY <1>1, <1>2, <1>3 DEF NoExceptionIsLost
<1>8. Stack' /\ Phases' /\ Idle' /\ OneTaskPerSuspension'
  BY <1>1, <1>2, <1>4 DEF Stack, Phases, Idle, OneTaskPerSuspension, Queued
<1>9. CleanExit'
  <2>. SUFFICES ASSUME pending # 0 \/ tasks # <<>>
                PROVE  \E c \in Coros : status[c] = "live" /\ owner'[c] = None
    BY <1>1 DEF CleanExit
  <2>1. PICK c \in Coros : status[c] = "live" /\ owner[c] = None
    BY <1>1, LeftBehind, OrphanAlive
  <2>. QED BY <1>3, <2>1
<1>. QED BY <1>5, <1>6, <1>7, <1>8, <1>9 DEF EInv

-----------------------------------------------------------------------------
LEMMA InitInv == Init => IInv
<1>. SUFFICES ASSUME Init PROVE IInv
  OBVIOUS
<1>1. P!IInv
  BY EngineInitInv DEF Init
<1>2. /\ stack = <<>> /\ tasks = <<>> /\ DOMAIN stack = {} /\ DOMAIN tasks = {}
      /\ Len(tasks) = 0 /\ stack \in Seq(Coros) /\ tasks \in Seq(Coros)
  BY DEF Init
<1>3. IO!TypeOK
  BY <1>1, EngineSteps DEF P!IInv
<1>4. TypeOK
  <2>1. fuel = [c \in Coros |-> Fuel] /\ Fuel \in Nat
    BY CorosAssumption DEF Init
  <2>2. fuel \in [Coros -> 0 .. Fuel]
    BY <2>1
  <2>3. /\ status \in [Coros -> {"none", "live", "done"}]
        /\ result \in [Coros -> {"pending", "value", "error"}]
        /\ owner  \in [Coros -> Coros \cup {App, None}]
        /\ fate   \in [Coros -> {"none", "rethrown", "logged", "dropped"}]
        /\ waits  \in [Coros -> Coros \cup {YieldTask, IoTask, None}]
    BY DEF Init
  <2>4. task \in 0 .. Len(tasks) /\ next \in 0 .. Len(tasks)
    BY <1>2 DEF Init, End
  <2>5. stack \in Seq(Coros) /\ tasks \in Seq(Coros)
    BY <1>2
  <2>6. newProgress = FALSE /\ ran = FALSE /\ phase = "options"
    BY DEF Init
  <2>. QED BY <1>3, <2>2, <2>3, <2>4, <2>5, <2>6 DEF TypeOK
<1>5. phase = "options" /\ pc = "tasks" /\ life = "running" /\ ran = FALSE
      /\ \A c \in Coros : /\ status[c] = "none" /\ result[c] = "pending" /\ owner[c] = None
                          /\ waits[c] = None /\ where[c] = "none"
  BY DEF Init, IO!Init
<1>6. Frames
  BY <1>5, Names DEF Frames, Outstanding
<1>7. OwnersAcyclic /\ NoExceptionIsLost
  BY <1>5, Names DEF OwnersAcyclic, NoExceptionIsLost
<1>8. Stack /\ Phases /\ Idle /\ CleanExit
  BY <1>2, <1>5 DEF Stack, Phases, Idle, CleanExit
<1>9. OneTaskPerSuspension
  BY <1>2, <1>5 DEF OneTaskPerSuspension, Queued
<1>. QED BY <1>1, <1>4, <1>6, <1>7, <1>8, <1>9 DEF IInv, EInv

LEMMA StutterKeeps == ASSUME EInv, UNCHANGED vars PROVE EInv'
<1>1. UNCHANGED <<frameVars, tasks>> /\ UNCHANGED <<phase, task>> /\ UNCHANGED where
  BY DEF vars, runVars, ioVars
<1>2. \A c \in Coros : Outstanding(c)' => Outstanding(c)
  BY <1>1 DEF Outstanding
<1>3. Frames' /\ OwnersAcyclic' /\ Stack' /\ OneTaskPerSuspension' /\ NoExceptionIsLost'
  BY <1>1, <1>2, QuietInv
<1>4. Phases' /\ CleanExit' /\ Idle'
  BY DEF EInv, Phases, CleanExit, Idle, Ready, vars, frameVars, runVars, ioVars
<1>. QED BY <1>3, <1>4 DEF EInv

LEMMA StepInv == IInv /\ [Next]_vars => IInv'
<1>. SUFFICES ASSUME TypeOK, P!IInv, EInv, [Next]_vars PROVE IInv'
  BY DEF IInv
<1>1. P!IInv' /\ IO!TypeOK'
  BY EngineInv
<1>2. TypeOK'
  BY <1>1, TypesInv DEF EInv
<1>3. EInv'
  BY UserInv, EngineStepKeeps, QuietStepKeeps, ResumeInv, EraseInv, StartInv, ExitInv, StutterKeeps
     DEF Next, ThreadStep
<1>. QED BY <1>1, <1>2, <1>3 DEF IInv

(***************************************************************************)
(* The theorems                                                            *)
(***************************************************************************)
LEMMA Invariance == Spec => []IInv
BY InitInv, StepInv, PTL DEF Spec

(***************************************************************************)
(* The state of Application::run, Reactor::run and the coroutines has its  *)
(* types: in particular run()'s iterators never leave the list of tasks,   *)
(* although the task under execution appends to it.                        *)
(***************************************************************************)
THEOREM TypeCorrectness == Spec => []TypeOK
<1>1. IInv => TypeOK
  BY DEF IInv
<1>. QED BY <1>1, Invariance, PTL

(***************************************************************************)
(* A suspended coroutine has exactly one resume task, and one that runs or *)
(* is done has none, whatever the coroutines do: no frame is resumed twice,*)
(* after Reactor::run has seen it destroyed, or never.                     *)
(***************************************************************************)
THEOREM FramesAreResumedOnce == Spec => []OneTaskPerSuspension
<1>1. IInv => OneTaskPerSuspension
  BY DEF IInv, EInv
<1>. QED BY <1>1, Invariance, PTL

(***************************************************************************)
(* The awaits of MaybeReadyTask never close on themselves.  Whoever awaits *)
(* a future has it, so the awaits of a chain that closes run through all   *)
(* of it, and so would the futures.                                        *)
(***************************************************************************)
LEMMA NoRing ==
  ASSUME IInv, NEW chain \in SUBSET Coros, chain # {}
  PROVE  \E d \in chain : waits[d] \notin chain
<1>. SUFFICES ASSUME \A d \in chain : waits[d] \in chain PROVE FALSE
  OBVIOUS
<1>. DEFINE f == [d \in chain |-> waits[d]]
<1>1. \A d \in chain : owner[waits[d]] = d
  BY DEF IInv, EInv, Frames
<1>2. f \in Injection(chain, chain)
  BY <1>1, Fun_IsInj
<1>3. IsFiniteSet(chain)
  BY Names, FS_Subset
<1>. HIDE DEF f
<1>4. f \in Surjection(chain, chain)
  BY <1>2, <1>3, FS_Injection
<1>5. \A e \in chain : \E d \in chain : f[d] = e
  BY <1>4, Fun_SurjectionProperties
<1>6. \A e \in chain : owner[e] \in chain
  BY <1>1, <1>5 DEF f
<1>. QED BY <1>6 DEF IInv, EInv, OwnersAcyclic

THEOREM AwaitsEnd == Spec => []AwaitsAreWellFounded
<1>1. ASSUME IInv PROVE AwaitsAreWellFounded
  <2>. SUFFICES ASSUME NEW c \in Coros, waits[c] \in Coros
                PROVE  /\ owner[waits[c]] = c
                       /\ status[waits[c]] = "live" \/ result[waits[c]] # "pending"
                       /\ \A chain \in SUBSET Coros : c \in chain => \E d \in chain : waits[d] \notin chain
    BY DEF AwaitsAreWellFounded
  <2>1. owner[waits[c]] = c
    BY <1>1 DEF IInv, EInv, Frames
  <2>2. status[waits[c]] = "live" \/ result[waits[c]] # "pending"
    <3>1. TypeOK /\ Frames
      BY <1>1 DEF IInv, EInv
    <3>2. status[waits[c]] # "none"
      BY <2>1, <3>1, Names DEF Frames
    <3>. QED BY <3>1, <3>2, FrameTypes DEF Frames
  <2>3. \A chain \in SUBSET Coros : c \in chain => \E d \in chain : waits[d] \notin chain
    BY <1>1, NoRing
  <2>. QED BY <2>1, <2>2, <2>3
<1>. QED BY <1>1, Invariance, PTL

(***************************************************************************)
(* When complete_ready blocks in io_uring_wait_cqe, and Reactor::run has   *)
(* been through its tasks before, no coroutine is ready to be resumed.     *)
(***************************************************************************)
THEOREM BlocksWhenIdle == Spec => []BlocksOnlyWhenIdle
<1>1. ASSUME IInv PROVE BlocksOnlyWhenIdle
  <2>. SUFFICES ASSUME pc = "waiting", ran PROVE \A i \in DOMAIN tasks : ~Ready(tasks[i])
    BY DEF BlocksOnlyWhenIdle
  <2>1. phase = "routines"
    BY <1>1 DEF IInv, EInv, Phases
  <2>2. ~hasProgress
    BY <1>1 DEF IInv, EInv, Phases
  <2>. QED BY <1>1, <2>1, <2>2 DEF IInv, EInv, Idle
<1>. QED BY <1>1, Invariance, PTL

(***************************************************************************)
(* ~Reactor and ~IoEngine find something left only if the program detached *)
(* a coroutine that is still alive.                                        *)
(***************************************************************************)
THEOREM ExitsAreClean == Spec => []CleanExit
<1>1. IInv => CleanExit
  BY DEF IInv, EInv
<1>. QED BY <1>1, Invariance, PTL

(***************************************************************************)
(* unhandled_exception and the futures: an exception is rethrown to whoever*)
(* has the future, or logged, or in a future that the program dropped.     *)
(***************************************************************************)
THEOREM ExceptionsAreSeen == Spec => []NoExceptionIsLost
<1>1. IInv => NoExceptionIsLost
  BY DEF IInv, EInv
<1>. QED BY <1>1, Invariance, PTL

=============================================================================
