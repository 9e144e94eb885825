------------------------------ MODULE Executor ------------------------------
(***************************************************************************)
(* Application::run, Reactor::run and the coroutines they execute          *)
(* (lib/corey.cc, lib/reactor/reactor.cc, task.hh and coroutine.hh), over  *)
(* the IoEngine, whose polling routine is the reactor's only routine.      *)
(*                                                                         *)
(* Everything runs on one thread.  The coroutines' bodies are any program: *)
(* the one that runs may call another coroutine, await or drop the future  *)
(* of one it called, do an IO request, yield, return or throw.  A future   *)
(* is awaited by the coroutine that called for it: promises that coroutines*)
(* pass to one another are left out, and a request is awaited where it is  *)
(* made.                                                                   *)
(***************************************************************************)
EXTENDS Integers, Sequences, FiniteSets

CONSTANTS Coros, Main,     \* coroutine frames; Main is the application's
          Fuel,            \* bound on the suspensions of each coroutine
          SpinnerSets,     \* which coroutines may do nothing but yield, for ever
          App, None,       \* owners of a future besides coroutines
          YieldTask, IoTask  \* what a resume task can be besides an await

ASSUME CorosAssumption ==
  /\ IsFiniteSet(Coros) /\ Main \in Coros
  /\ SpinnerSets \subseteq SUBSET (Coros \ {Main})
  /\ Fuel \in Nat
  /\ Cardinality({App, None, YieldTask, IoTask}) = 4
  /\ {App, None, YieldTask, IoTask} \cap Coros = {}

VARIABLES
  status,       \* "none", "live" or "done" for each frame
  result,       \* its promise: "pending", "value" or "error"
  owner,        \* who has its future; None when it was dropped or consumed
  fate,         \* what became of its exception
  waits,        \* what its resume task waits for; None when it has no task
  fuel,         \* suspensions it has left
  stack,        \* the running coroutine and its callers, innermost first
  tasks,        \* Reactor::_tasks, front first
  task, next,   \* run()'s iterators, as positions in tasks; End is end()
  newProgress,  \* run()'s new_has_progress
  phase,        \* where the thread is
  ran,          \* history: Reactor::run has returned once
  spinners,     \* the coroutines that spin: a choice made once
  where, taken, pending, inflight, pc, hasProgress, life, burst, failed

ioVars     == <<where, taken, pending, inflight, pc, hasProgress, life, burst, failed>>
frameVars  == <<status, result, owner, fate, waits, fuel, stack>>
runVars    == <<task, next, newProgress, phase, ran, spinners>>
vars       == <<frameVars, tasks, runVars, ioVars>>

\* No coroutine has two requests, so the submission queue never fills up.
IO == INSTANCE IoEngine WITH Requests  <- Coros,
                             MaxEvents <- Cardinality(Coros),
                             Signals   <- FALSE

End == 0

Init == /\ status      = [c \in Coros |-> "none"]
        /\ result      = [c \in Coros |-> "pending"]
        /\ owner       = [c \in Coros |-> None]
        /\ fate        = [c \in Coros |-> "none"]
        /\ waits       = [c \in Coros |-> None]
        /\ fuel        = [c \in Coros |-> Fuel]
        /\ stack       = <<>>
        /\ tasks       = <<>>
        /\ task        = End
        /\ next        = End
        /\ newProgress = FALSE
        /\ phase       = "options"
        /\ ran         = FALSE
        /\ spinners    \in SpinnerSets
        /\ IO!Init

Running(c) == life = "running" /\ stack # <<>> /\ Head(stack) = c

-----------------------------------------------------------------------------
(* The coroutine that runs                                                 *)

\* await_suspend: add_task, and control goes back to the caller.
Suspend(c, what) == /\ waits' = [waits EXCEPT ![c] = what]
                    /\ tasks' = Append(tasks, c)
                    /\ stack' = Tail(stack)

\* initial_suspend is suspend_never: the callee runs at once.
Call(c, d) ==
  /\ Running(c)
  /\ c \notin spinners
  /\ status[d] = "none"
  /\ status' = [status EXCEPT ![d] = "live"]
  /\ owner'  = [owner EXCEPT ![d] = c]
  /\ stack'  = <<d>> \o stack
  /\ UNCHANGED <<result, fate, waits, fuel, tasks, runVars, ioVars>>

\* What becomes of the exceptions in the futures of D.
Mark(D, what) == fate' = [d \in Coros |-> IF d \in D /\ result[d] = "error"
                                          THEN what ELSE fate[d]]

\* co_await of the future of d: a ready one is got from without suspending.
Await(c, d) ==
  /\ Running(c)
  /\ owner[d] = c
  /\ IF result[d] = "pending"
     THEN /\ Suspend(c, d)
          /\ UNCHANGED <<owner, fate>>
     ELSE /\ owner' = [owner EXCEPT ![d] = None]
          /\ Mark({d}, "rethrown")
          /\ UNCHANGED <<waits, tasks, stack>>
  /\ UNCHANGED <<status, result, fuel, runVars, ioVars>>

\* The future of d is dropped: d is detached, or its result is ignored.
DropFuture(c, d) ==
  /\ Running(c)
  /\ owner[d] = c
  /\ owner' = [owner EXCEPT ![d] = None]
  /\ Mark({d}, "dropped")
  /\ UNCHANGED <<status, result, waits, fuel, stack, tasks, runVars, ioVars>>

\* co_await of a request that is not ready yet.
AwaitIo(c) ==
  /\ Running(c)
  /\ c \notin spinners
  /\ fuel[c] > 0
  /\ fuel' = [fuel EXCEPT ![c] = @ - 1]
  /\ IO!Prepare(c)
  /\ Suspend(c, IoTask)
  /\ UNCHANGED <<status, result, owner, fate, runVars>>

\* Mutant of Yield: the resume task is not added.
YieldForgotten(c) ==
  /\ Running(c)
  /\ fuel[c] > 0
  /\ fuel'  = [fuel EXCEPT ![c] = @ - 1]
  /\ waits' = [waits EXCEPT ![c] = YieldTask]
  /\ stack' = Tail(stack)
  /\ UNCHANGED <<status, result, owner, fate, tasks, runVars, ioVars>>

Yield(c) ==
  /\ Running(c)
  /\ \/ c \in spinners /\ UNCHANGED fuel
     \/ c \notin spinners /\ fuel[c] > 0 /\ fuel' = [fuel EXCEPT ![c] = @ - 1]
  /\ Suspend(c, YieldTask)
  /\ UNCHANGED <<status, result, owner, fate, runVars, ioVars>>

\* Mutant of Finish: the promise is not satisfied when the frame goes.
FinishSilently(c, r) ==
  /\ Running(c)
  /\ status' = [status EXCEPT ![c] = "done"]
  /\ owner'  = [d \in Coros |-> IF owner[d] = c THEN None ELSE owner[d]]
  /\ stack'  = Tail(stack)
  /\ UNCHANGED <<result, fate, waits, fuel, tasks, runVars, ioVars>>

\* The futures a frame has go with it.
Owned(c) == {d \in Coros : owner[d] = c}
Release(c) == owner' = [d \in Coros |-> IF d \in Owned(c) THEN None ELSE owner[d]]

\* Mutant of Finish: whether there is a future is not asked.
FinishUnlogged(c, r) ==
  /\ Running(c)
  /\ c \notin spinners
  /\ result' = [result EXCEPT ![c] = r]
  /\ Mark(Owned(c), "dropped")
  /\ status' = [status EXCEPT ![c] = "done"]
  /\ Release(c)
  /\ stack'  = Tail(stack)
  /\ UNCHANGED <<waits, fuel, tasks, runVars, ioVars>>

\* The promise is satisfied, then the frame goes with the futures it has.
\* An exception nobody has a future for is logged.
Finish(c, r) ==
  /\ Running(c)
  /\ c \notin spinners
  /\ result' = [result EXCEPT ![c] = r]
  /\ fate'   = [d \in Coros |->
                  IF d = c /\ r = "error" /\ owner[c] = None THEN "logged"
                  ELSE IF d \in Owned(c) /\ result[d] = "error" THEN "dropped"
                  ELSE fate[d]]
  /\ status' = [status EXCEPT ![c] = "done"]
  /\ Release(c)
  /\ stack'  = Tail(stack)
  /\ UNCHANGED <<waits, fuel, tasks, runVars, ioVars>>

\* The sink refuses the log of an orphan: the exception of Console::write
\* leaves the resumption and Application::run, whose reactor still has the
\* task of this coroutine when it is destroyed.
OrphanNotLogged(c) ==
  /\ Running(c)
  /\ c \notin spinners
  /\ owner[c] = None
  /\ life'  = "panicked"
  /\ phase' = "exited"
  /\ stack' = <<>>
  /\ UNCHANGED <<status, result, owner, fate, waits, fuel, tasks,
                 task, next, newProgress, ran, spinners,
                 where, taken, pending, inflight, pc, hasProgress, burst, failed>>

\* return_value and return_void.
Return(c) == Finish(c, "value")

\* unhandled_exception, return_value and co_await of an exception_ptr.
Throw(c) == Finish(c, "error")

-----------------------------------------------------------------------------
(* Reactor::run                                                            *)

Thread(from, to) == life = "running" /\ phase = from /\ phase' = to

\* The routines come first, the engine's being the only one.
BeginRun ==
  /\ result[Main] = "pending"
  /\ Thread("between_runs", "routines")
  /\ IO!Poll
  /\ UNCHANGED <<frameVars, tasks, task, next, newProgress, ran, spinners>>

EngineStep ==
  /\ phase = "routines"
  /\ \/ IO!SubmitReturns \/ IO!SubmitFails \/ IO!DecideToWait
     \/ \E c \in Coros : IO!WaitCqe(c) \/ IO!PeekCqe(c)
  /\ UNCHANGED <<frameVars, tasks, runVars>>

\* Iterators: the task after the i-th, and the first one.
After(i) == IF i = Len(tasks) THEN End ELSE i + 1

BeginTasks ==
  /\ Thread("routines", "tasks")
  /\ IO!PeekEmpty
  /\ task' = IF tasks = <<>> THEN End ELSE 1
  /\ newProgress' = FALSE
  /\ UNCHANGED <<frameVars, tasks, next, ran, spinners>>

\* What MaybeReadyTask polls, and true for the task of a yield.
Ready(c) == \/ waits[c] = YieldTask
            \/ waits[c] = IoTask /\ where[c] = "done"
            \/ waits[c] \in Coros /\ result[waits[c]] # "pending"

SkipTask ==
  /\ Thread("tasks", "tasks")
  /\ task # End
  /\ ~Ready(tasks[task])
  /\ task' = After(task)
  /\ UNCHANGED <<frameVars, tasks, next, newProgress, ran, spinners, ioVars>>

\* next is computed before the task executes; await_resume consumes the
\* future that was awaited.
Resume ==
  LET c == tasks[task] IN
  /\ Thread("tasks", "executing")
  /\ task # End
  /\ Ready(c)
  /\ next'  = After(task)
  /\ stack' = <<c>>
  /\ waits' = [waits EXCEPT ![c] = None]
  /\ IF waits[c] \in Coros
     THEN /\ owner' = [owner EXCEPT ![waits[c]] = None]
          /\ Mark({waits[c]}, "rethrown")
     ELSE UNCHANGED <<owner, fate>>
  /\ UNCHANGED <<status, result, fuel, tasks, task, newProgress, ran, spinners, ioVars>>

\* Mutant of EraseTask: the executed task stays in the list.
KeepTask ==
  /\ Thread("executing", "tasks")
  /\ stack = <<>>
  /\ task' = next
  /\ next' = End
  /\ newProgress' = TRUE
  /\ UNCHANGED <<frameVars, tasks, ran, spinners, ioVars>>

\* Mutant of EraseTask: the task after the erased one is passed over.
ErasePastNext ==
  /\ Thread("executing", "tasks")
  /\ stack = <<>>
  /\ tasks' = SubSeq(tasks, 1, task - 1) \o SubSeq(tasks, task + 1, Len(tasks))
  /\ task'  = next
  /\ next'  = End
  /\ newProgress' = TRUE
  /\ UNCHANGED <<frameVars, ran, spinners, ioVars>>

\* Mutant of EraseTask: progress is not noted.
EraseSilently ==
  /\ Thread("executing", "tasks")
  /\ stack = <<>>
  /\ tasks' = SubSeq(tasks, 1, task - 1) \o SubSeq(tasks, task + 1, Len(tasks))
  /\ task'  = IF next = End THEN End ELSE next - 1
  /\ next'  = End
  /\ UNCHANGED <<frameVars, newProgress, ran, spinners, ioVars>>

\* Mutant of EraseTask: next is computed after the task has executed.
EraseThenNext ==
  /\ Thread("executing", "tasks")
  /\ stack = <<>>
  /\ tasks' = SubSeq(tasks, 1, task - 1) \o SubSeq(tasks, task + 1, Len(tasks))
  /\ task'  = IF task = Len(tasks) THEN End ELSE task
  /\ next'  = End
  /\ newProgress' = TRUE
  /\ UNCHANGED <<frameVars, ran, spinners, ioVars>>

\* execute() returned true: the task is erased, whatever was appended.
EraseTask ==
  /\ Thread("executing", "tasks")
  /\ stack = <<>>
  /\ tasks' = SubSeq(tasks, 1, task - 1) \o SubSeq(tasks, task + 1, Len(tasks))
  /\ task'  = IF next = End THEN End ELSE next - 1
  /\ next'  = End
  /\ newProgress' = TRUE
  /\ UNCHANGED <<frameVars, ran, spinners, ioVars>>

EndRun ==
  /\ Thread("tasks", "between_runs")
  /\ task = End
  /\ IO!TasksRan(newProgress)
  /\ ran' = TRUE
  /\ UNCHANGED <<frameVars, tasks, task, next, newProgress, spinners>>

-----------------------------------------------------------------------------
(* Application::run                                                        *)

\* func(parse_results) is called before the loop.
Start ==
  /\ Thread("options", "starting")
  /\ status' = [status EXCEPT ![Main] = "live"]
  /\ owner'  = [owner EXCEPT ![Main] = App]
  /\ stack'  = <<Main>>
  /\ UNCHANGED <<result, fate, waits, fuel, tasks, task, next, newProgress, ran, spinners, ioVars>>

\* --help, --version, or options that do not parse: func is not called.
AnswerOption ==
  /\ Thread("options", "exited")
  /\ life' = "closed"
  /\ UNCHANGED <<frameVars, tasks, task, next, newProgress, ran, spinners,
                 where, taken, pending, inflight, pc, hasProgress, burst, failed>>

\* The main coroutine has suspended or finished for the first time.
EnterLoop ==
  /\ Thread("starting", "between_runs")
  /\ stack = <<>>
  /\ UNCHANGED <<frameVars, tasks, task, next, newProgress, ran, spinners, ioVars>>

\* task.get(), ~IoEngine and ~Reactor, which assert that nothing is left.
Exit ==
  /\ result[Main] # "pending"
  /\ Thread("between_runs", "exited")
  /\ life'  = IF pending = 0 /\ tasks = <<>> THEN "closed" ELSE "panicked"
  /\ owner' = [owner EXCEPT ![Main] = None]
  /\ Mark({Main}, "rethrown")
  /\ UNCHANGED <<status, result, waits, fuel, stack, tasks, task, next, newProgress, ran, spinners,
                 where, taken, pending, inflight, pc, hasProgress, burst, failed>>

-----------------------------------------------------------------------------
User(c) == \/ AwaitIo(c) \/ Yield(c) \/ Return(c) \/ Throw(c) \/ OrphanNotLogged(c)
           \/ \E d \in Coros : Call(c, d) \/ Await(c, d) \/ DropFuture(c, d)

ThreadStep == \/ AnswerOption \/ Start \/ EnterLoop \/ Exit
              \/ BeginRun \/ EngineStep \/ BeginTasks
              \/ SkipTask \/ Resume \/ EraseTask \/ EndRun
              \/ \E c \in Coros : User(c)

KernelTake(c) == /\ IO!KernelTake(c)
                 /\ UNCHANGED <<frameVars, tasks, runVars>>

KernelComplete(c) == /\ IO!KernelComplete(c)
                     /\ UNCHANGED <<frameVars, tasks, runVars>>

Next == ThreadStep \/ \E c \in Coros : KernelTake(c) \/ KernelComplete(c)

Spec == Init /\ [][Next]_vars

(***************************************************************************)
(* The thread runs; the kernel completes what it can and does not refuse a *)
(* request for ever.  Nothing is assumed about the order the reactor       *)
(* chooses: it is the code's.                                              *)
(***************************************************************************)
Fairness == /\ WF_vars(ThreadStep)
            /\ \A c \in Coros : SF_vars(KernelTake(c)) /\ WF_vars(KernelComplete(c))

FairSpec == Spec /\ Fairness

-----------------------------------------------------------------------------
(* Properties                                                              *)

TypeOK ==
  /\ status \in [Coros -> {"none", "live", "done"}]
  /\ result \in [Coros -> {"pending", "value", "error"}]
  /\ owner  \in [Coros -> Coros \cup {App, None}]
  /\ fate   \in [Coros -> {"none", "rethrown", "logged", "dropped"}]
  /\ waits  \in [Coros -> Coros \cup {YieldTask, IoTask, None}]
  /\ fuel   \in [Coros -> 0 .. Fuel]
  /\ stack  \in Seq(Coros)
  /\ tasks  \in Seq(Coros)
  /\ task   \in 0 .. Len(tasks)
  /\ next   \in 0 .. Len(tasks)
  /\ newProgress \in BOOLEAN /\ ran \in BOOLEAN
  /\ phase  \in {"options", "starting", "between_runs", "routines", "tasks", "executing", "exited"}
  /\ IO!TypeOK

\* The tasks still to be executed: all but the one under execution.
Queued == IF phase = "executing" THEN DOMAIN tasks \ {task} ELSE DOMAIN tasks

OnStack(c) == \E i \in DOMAIN stack : stack[i] = c

(***************************************************************************)
(* A suspended coroutine has exactly one resume task, and a coroutine that *)
(* runs or is done has none: no frame is resumed twice, after it was       *)
(* destroyed, or never.                                                    *)
(***************************************************************************)
OneTaskPerSuspension ==
  \A c \in Coros :
    /\ (status[c] = "live" /\ ~OnStack(c)) <=> \E i \in Queued : tasks[i] = c
    /\ \A i, j \in Queued : tasks[i] = c /\ tasks[j] = c => i = j

(***************************************************************************)
(* Nobody waits for a future that cannot become ready: what a suspended    *)
(* coroutine awaits is done, or alive and itself suspended, running, or    *)
(* further down the same chain, which never closes on itself.              *)
(***************************************************************************)
AwaitsAreWellFounded ==
  \A c \in Coros : waits[c] \in Coros =>
    /\ owner[waits[c]] = c
    /\ status[waits[c]] = "live" \/ result[waits[c]] # "pending"
    /\ ~\E chain \in SUBSET Coros : c \in chain /\ \A d \in chain : waits[d] \in chain

(***************************************************************************)
(* From the second run on, the thread blocks in io_uring_wait_cqe only     *)
(* when no coroutine is ready to be resumed: one pass without progress is  *)
(* enough for complete_ready to conclude it.                               *)
(***************************************************************************)
BlocksOnlyWhenIdle ==
  pc = "waiting" /\ ran => \A i \in DOMAIN tasks : ~Ready(tasks[i])

(***************************************************************************)
(* An application that ends finds its reactor empty unless it detached a   *)
(* coroutine: futures that are awaited keep the whole tree of calls, and   *)
(* its requests, within the life of the main coroutine.                    *)
(***************************************************************************)
CleanExit ==
  phase = "exited" /\ life = "panicked" =>
    \E c \in Coros : status[c] = "live" /\ owner[c] = None

(***************************************************************************)
(* Every exception that leaves a coroutine is rethrown to whoever awaits   *)
(* its future or logged as orphaned; it vanishes only if the program drops *)
(* a future that has already failed, however it detaches its coroutines.   *)
(***************************************************************************)
NoExceptionIsLost ==
  \A c \in Coros : result[c] = "error" /\ owner[c] = None => fate[c] # "none"

\* The application has come to its end, one way or the other.
Over == phase = "exited"

(***************************************************************************)
(* A coroutine that yields or awaits a request is resumed, even if another *)
(* one does nothing but yield: next is taken before the task executes, so  *)
(* one task that is appended again and again does not extend the pass.     *)
(***************************************************************************)
SuspensionsEnd ==
  \A c \in Coros : waits[c] \in {YieldTask, IoTask} ~>
                     waits[c] \notin {YieldTask, IoTask} \/ Over

(***************************************************************************)
(* The application ends, unless somebody awaits a coroutine that does not. *)
(***************************************************************************)
ApplicationEnds == <>(Over \/ \E c \in Coros : waits[c] \in spinners)

=============================================================================
