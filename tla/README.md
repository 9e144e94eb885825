# A specification of corey

corey (`lib/`, demos in `src/`) is a small asynchronous framework: C++20
coroutines, a reactor that resumes them, and an io_uring engine that completes
their requests. Everything runs on one thread; the other party is the kernel.
This directory models that program in TLA+, checks small instances with TLC and
proves the main invariants with TLAPS for every value of the constants.

All line numbers are those of the repository; `PROJECT.json` maps each
definition to the lines it stands for.

## 1. The system

| component | state | operations | talks to |
|---|---|---|---|
| `Promise`, `Future`, `State` (`reactor/future.hh`) | a heap `State` (mode, bytes, `ref_cnt`), shared by one pointer in each | construct, move, assign, destroy; `get_future`, `set`, `set_exception`, `get` | everything below |
| `Reactor`, tasks (`reactor/reactor.cc`, `task.hh`) | `_tasks`, an intrusive list; `_has_progress` | `add_task`, `run` | polls the routines, then executes every task that is ready |
| `Reactor`, routines (same) | `_routines`, a map from 16-bit ids | `add_routine`, `remove_routine` (a `Defer`) | the engine's polling routine |
| `IoEngine` (`reactor/io/io.cc`) | the two rings, `_pending`, `_inflight`; the promise of a request lives in its SQE/CQE | `open` ... `accept` (all `prepare`), `submit_pending`, `complete_ready` | the kernel; reads the reactor's `_has_progress` |
| coroutine glue (`reactor/coroutine.hh`) | a frame with a promise | call, `co_await` of a future, a yield or an exception, return, throw | adds resume tasks to the reactor |
| `Semaphore` (`reactor/sync.cc`) | `_count`, a queue of promises | `wait`, and the `Defer` it hands out | futures |
| `Application` (`corey.cc`, `corey.hh`) | the reactor, the engine | `run` | answers options, else calls `Reactor::run` until the main future is ready |
| `File`, `Socket`, `Client`, `Server` (`reactor/io/`) | `_fd` | open, listen, connect, accept, read, write, close, move, destroy | the engine, the kernel's descriptors |
| `Defer` (`common/defer.hh`) | a function and a flag, in the object or in a heap `Impl` | make, move, assign, erase the type, move out again, cancel, destroy | what `add_routine` and `Semaphore` hand out |
| `sleep` (`reactor/timer.cc`) | an absolute deadline | `sleep` | a timeout request of the engine |
| demo-cp (`src/demo-cp.cc`) | two files, a cursor, a buffer | open, read, write, close | `File` |
| demo-echo, demo-http (`src/`) | a listener, a session per connection | accept, read, write, close | `Server`, `Client`; peers |
| request parser (`src/demo-http-parse.cc`) | a line iterator, a state | `parse_request` | demo-http |
| `Log`, `Sink`, `Console` | levels and devices | `put`, `write` | `log_orphaned_exception` is called by the coroutine glue |

What is hard here is not parallelism, there is none, but re-entrancy and order:
client code runs inside `Reactor::run`'s loop and appends to the list being
walked; what is read before a `co_await` is used after it; a completion arrives
in any order; the thread may block, and then nobody else runs; objects that own
a count, a permit or a descriptor are moved, dropped and destroyed in any order.

What makes each component correct:

- future: one producer and one consumer per `State`; counts exact; a pending
  future always has somebody who can complete it; a result is final.
- reactor: a suspended coroutine has exactly one task and is resumed when what
  it waits for is ready; routines are polled; the thread does not sleep over
  ready work; the table of routines is the set of live handles.
- engine: its counters match the rings; it blocks only if something can come;
  every accepted request completes exactly once.
- semaphore: permits are conserved and handed out first come first served.
- files and sockets: a descriptor has one owner, and an operation reaches the
  description it was called on.
- `Defer`: its function runs once, when the last object that has it goes, and
  never after `cancel`.
- `sleep`: ends at the instant it was asked for.
- demo-cp: what is in the output is a prefix of the input, success means all of
  it, and errors are reported.
- the servers: a session answers its own peer in order and all of it, ends with its
  peer, and closes its connection whatever fails.

The full list of hazards, each at its line, is `hazards` in `PROJECT.json`.

## 2. Modules

| module | what it is |
|---|---|
| `Future` | promises, futures and their states; any sequence of calls on live objects |
| `FutureMoveAssign` | `Future` with `Promise::operator=` onto a promise that has a State |
| `RoutineTable` | `add_routine`, `remove_routine`, ids modulo `IdRange` |
| `IoSpec`, `IoEngine` | what the engine promises; the engine and the kernel |
| `SemaphoreSpec`, `Semaphore` | a first-come-first-served semaphore; the code's |
| `Executor` | `Application::run`, `Reactor::run` and the coroutines, over an instance of `IoEngine` |
| `Handle` | descriptor ownership of `File` and `Socket`, with a kernel that uses numbers again |
| `Defer` | `Defer<Func>` and `Defer<>` in any number of slots |
| `Reactor` | `RoutineTable` composed with an instance of `Defer`: registrations are functions of Defers |
| `Copy` | demo-cp, with requests that fail or fall short |
| `HttpParse` | `parse_request` as a function from tokens to outcomes |
| `Server` | demo-echo and demo-http over `HttpParse`: the listener, sessions, peers |
| `Timer` | the arithmetic of `sleep` |
| `MC...` | instances for TLC |
| `FutureProofs`, `ReactorProofs`, `IoEngineProofs`, `SemaphoreProofs`, `ExecutorProofs`, `HandleProofs`, `CopyProofs`, `ServerProofs` | theorems |

Definitions whose comment starts with "Mutant of" are plausible wrong versions of
the definition below them. No specification uses them; each is there to show
that a property would notice that bug (`mutants` in `PROJECT.json`).

### How they correspond to the code

**Future.** An object is `Unborn`, `Null` (`state == nullptr`) or the address of
its `State`. Addresses are allocated again after deletion, so a dangling
pointer would be seen. The value in a `State` is abstracted to "value", "moved"
(what a second `get()` returns) and an exception to "error" or "broken"; the
exception a call throws is kept in `thrown`. Calls on a future whose pointer is
null are undefined and are not made.

**RoutineTable.** The loop `while(_routines.count(id++))` is one step: its result
is a function of the table. `NextId` has the second increment of the code. A
panic stops the model. `sharing` (history) has the live registrations whose id
was given out again while they lived, both the old and the new holders.

**IoEngine.** A request is `none`, in the submission queue, with the kernel, in
the completion queue, or done. `submit_pending` and `complete_ready` are taken
apart at the points where the kernel can act in between: `io_uring_submit` may
take one SQE or more before it returns, or fail; `io_uring_wait_cqe` and
`io_uring_peek_cqe` see one completion at a time. `Prepare` is every operation
of `io.hh` but the three posix calls, which complete at once. The kernel's own
steps are external. `burst` and `failed` are history variables.

**Semaphore.** A client stands for one `Future<Defer<>>` and its permit. Handing a
permit to a promise nobody has a future for destroys it and signals again from
inside the first signal; `SignalFrom` does the whole recursion in one step, as
nothing else can run in between. `cancelled` (history) counts the permits whose
`Defer` was cancelled: they are gone for good, which is the only way a semaphore
with permits can be destroyed under a waiter (`Destroy`, `DropBroken`). In
`SemaphoreSpec` there are neither promises nor abandoned ones: `ahead` has, for each
client that waits, those who asked before it.

**Executor.** The state is the frames, the stack of the running coroutine and its
callers, `_tasks`, `run()`'s iterators, and the engine's variables through
`IO == INSTANCE IoEngine`. `Suspend` is `await_suspend`; `Finish` is the end of a
coroutine with a value or an exception, including the orphan test `has_future()`
and the futures that die with the frame; `Resume`, `EraseTask`, `SkipTask` are the
loop of `run()`, where tasks appended by the coroutine that runs are seen by the
same pass. `AnswerOption` and `Start` are the two ways through the template
`Application::run`; `OrphanNotLogged` is the sink refusing the log of an orphaned
exception, which then leaves `run()` over live tasks. `spinners`, chosen once
among `SpinnerSets`, are the coroutines that only yield. Coroutine bodies are arbitrary programs; the abstraction is that a
future is awaited by the caller of the coroutine, or dropped, and is not stored
where a third coroutine awaits it. `fate` is a history variable. The reactor has
the engine's routine only, as in `Application`.

**Handle.** `Use`, `Close` and `Make` run up to the first request, capturing `_fd`;
the kernel looks the number up later; the `Finish...` actions are what the
coroutine does when it is resumed. The nth opening of a number identifies the
description. `Exclusive` is the discipline under which the classes can be used
safely, and the one all code in the repository follows: close, move and destroy
only handles nobody operates on, and leave alone one that is being closed. The
classes themselves do not enforce it: with `Exclusive = FALSE` TLC finds a read
that hits a descriptor closed under it. `leaked` is what a failed set-up leaves
open (see the limits below).

**Defer.** A slot is storage for one object: typed for a `Defer<Func>`, erased for a
`Defer<>`. A moved-from `Defer<Func>`, also the one inside an `Impl` that was moved
out of, keeps the function and is `cancelled`; a moved-from `Defer<>` is null.
`Assign` is the three `operator=` at once: what the target had runs and goes, the
target takes the source. `fate` (history) is "wrong" once a function has run that
was not due. A lambda's type can only be named by who wrote it, so a function in
`Private` cannot be moved out of a `Defer<>` by others.

**Reactor.** The registrations of `RoutineTable` are private functions of `Defer`.
`Register` is `add_routine` and the `Defer<>` it returns; `UseDefer` is anything a
client does with the Defers it has, and when that runs a registration's function,
`RemoveRoutine` is part of the same step.

**Copy.** The position in the coroutine is `at`; each action is what happens from
one resumption to the next. The input's bytes are their positions, so that a byte
out of place is seen; the output may be the input. `Leave` is the end of the
frame: with a `File` open it is the panic of `~File`. That is where `co_await` of
an `exception_ptr` goes too, which destroys the frame and reaches no `catch`.

**HttpParse.** Text is a sequence of tokens: line ends byte by byte, as the iterator
looks at them, and request and header lines as one token each. `End` and `Line` are
`iterator::next`: where `_left` starts afterwards, which may be beyond the text, and
`_cur`. The loop over the header lines is not a recursion but the position it stops at:
the first of the `Starts` of lines whose line is no header. The outcome is a set
because an empty first line reads a byte that is not there.

**Server.** One specification for both demos, `proto` saying which: their sessions
differ in `Receive` alone. A read takes any part of what has arrived, a write may
fall short, every request may fail. `stream` is what arrives, `sent` the messages it
is made of and where each ends (`Boundary`). `aligned` and `cut` (history) say which
sessions had reads that matched requests, and writes that fell short.

The log is part of this model, as every call of the logger may throw when the sink
does (`log.cc:73`, `console.cc:11`). Inside a session's `try` that is one more exception
(`Catch`; `eptr` has the sessions whose exception_ptr is set). After it (`LeaveLoop`) the
exception leaves the coroutine with its Client open: it is logged as an orphan, the
frame dies and `~Socket` panics; or that log is refused as well and the exception
leaves `run()` and `main`. In main, between `accept` and the session (`AcceptUnlogged`),
the Client is a local and dies in the unwinding. `process` says how it ended:
"panicked", or "over" when an exception leaves `main`, where nothing catches it;
`Close` may end so too, as what a session caught is rethrown after its close.

**Timer.** No state: `Deadline` and `Outcome` are operators over the two fields of a
`timespec`, with the division of C++, which rounds towards zero.

## 3. Runs

| run | bounds | shows |
|---|---|---|
| `future` | 2 promises, 3 futures, 3 addresses | counts, single owners, broken promises, final results, justified refusals, over all histories |
| `future_move_assign` | 2, 1, 2 | **violated**: see finding 1 |
| `reactor` | 3 ids, 4 registrations, 2 functions of the client, 2 typed and 2 erased slots | every function runs once at most and is held by one object; the table keeps only what a Defer would still remove, and all of it unless an id was given out twice |
| `routine_kept` | 4 ids, 5 registrations | **violated**: finding 2 |
| `io_engine` | 3 requests, 2 queue entries | counters, blocking, queue contents; refines `IoSpec` with its liveness |
| `semaphore` | 4 clients, 2 permits, queue of 5 | conservation, no overtaking, refines `SemaphoreSpec`, waiters are served while a permit is left |
| `executor` | 3 coroutines, 1 suspension each besides awaits, none or one of them yielding for ever | tasks, awaits, blocking, clean exit, exceptions; yields and requests get through, the application ends |
| `handle` | 2 objects, 2 coroutines, 2 numbers, 2 openings each | no stray operation, one holder per number |
| `copy` | sources of 0 to 6 bytes, a buffer of 2 | what is copied is in place, success is complete, trouble has a cause, the copy ends |
| `copy_panics` | the same with 2 bytes | **violated**: finding 3 |
| `server` | 2 connections, 2 messages between them, both programs, any log refused | answers in order, faithful echoes, clean ends are complete, undefined parses, sessions end |
| `server_panics` | 1 connection, 1 message | **violated**: finding 4 |

Invariants of type are checked by the runs of `Executor`, `Handle`, `Copy` and
`Server`; those of `Future`, `IoEngine`, `Semaphore` and `Reactor` are theorems.

Why the bounds are enough to be interesting. Two promises, three futures and
three addresses are what it takes for a promise to lose its future and get
another while a third object still points to a reused address. Four routines
over three ids make ids wrap, collide and be reused, and two slots of each kind let
a Defer be assigned over another of either kind and moved through all of them. With more requests than queue
entries the submission queue fills up and `prepare` can panic. Four clients for
two permits give a queue with a hole in the middle. Three coroutines give a
chain of awaits, a detached sibling and a list of tasks that changes while it is
walked. Two numbers for two objects are reused at once. Three buffers and a
remainder have a first, a middle and a last pass of the copy loop, an exact
multiple and an empty source. Two messages in one connection can be read in one
piece, cut inside the first, or joined across the boundary; in two connections
they show whether sessions meet.

`Fuel`, `MaxQueue`, `MaxOpens`, `MaxSize`, `MaxClients` and `MaxMessages` are bounds on
the models, not of the code: suspensions for yields and requests per coroutine,
the length of `_waiters`, openings per number, the size of a source, connections,
and messages of all peers. `Buf` is 4096 in the code. `IdRange` (65536) and `MaxEvents` (128) are the code's
constants, smaller here; the proofs hold for every value. Deadlock checking is
off where the program may stop: an engine, semaphore or application that is
gone, a panic.

Fairness. `Executor`: the thread takes steps (`WF` of all its steps together,
so nothing is assumed about which coroutine or task goes first); the kernel
completes what it took (`WF`), and does not refuse an
SQE for ever although submit is tried again and again (`SF`, as attempts come and
go). `IoEngine`: `Application::run` calls `Reactor::run` in a loop and every
call returns, hence `WF` of the submit and completion steps. `Semaphore`: a
permit is a scoped object and dies eventually, unless it is cancelled. `Copy`: one
coroutine whose requests the kernel answers, `WF` of its next step. `Server`: `WF`
of each session, as the reactor resumes it and the kernel answers; peers need not
send anything, nor stop, and nothing needs to fail.

### Findings

1. `Promise::operator=` (`future.hh:318`) destroys its pointer member and then
   assigns to it; the `State` is released twice and can be deleted under a live
   future, against the assertion at `future.hh:226`.
2. `add_routine` (`reactor.cc:55-56`) stores at the id after the one it found
   free, and can overwrite a live routine.
3. demo-cp (`demo-cp.cc:44`) reports a short write with `co_await` of an
   `exception_ptr` and expects the `catch` around it to close the files; the frame
   is destroyed instead and `~File` panics. So it does when the second open fails
   (line 33) or the first close (line 52).
4. The servers take care to close every Client, but call the logger, which throws
   when its sink does, where nothing closes it: main between `accept` and the
   session (`demo-http.cc:84`), and a session between its `catch` and its close
   (`demo-http.cc:55`, `demo-echo.cc:25`). `~Socket` panics (`socket.cc:86`), and every
   connection goes with the process. The run stops at the first of them, which
   takes one step; without `AcceptUnlogged` it finds the other.

### Limits the properties have

Each is where the code stops keeping a promise; the runs state the promise up to
there.

- `SuspensionsEnd` allows one coroutine that yields for ever. `next` is taken
  before a task executes, so one task that appends itself does not extend the
  pass; two that alternate do, `Reactor::run` (`reactor.cc:37`) does not leave its
  loop and no IO is done any more. Adding `{a, b}` to `SpinnerSets` shows it.
- `BlocksOnlyWhenIdle` excepts the first `Reactor::run`: `_has_progress` starts out
  false (`reactor.cc:20`), so that run blocks for a completion although coroutines
  that have already run may be ready. Nothing in the repository promises otherwise.
- `HeldRoutinesStay` excepts registrations that were given the same id while both
  lived (finding 2): one of them is overwritten, and the routine of either is
  erased by the Defer of the other.
- `HeldOnce` leaves out `leaked`: `make_tcp_listener` and `make_tcp_connect`
  (`socket.cc:33-57`) leave the descriptor open when a later step fails, and
  `leaked = {}` is not an invariant.
- `CleanExit` allows a panic over detached coroutines: with a session that lives,
  an `accept` that fails takes the whole server down (`demo-http.cc:90`; `AcceptFails` and
  `CloseListener` in `Server`). Nothing promises that the sessions survive it, so no
  property of `Server` does.
- `SuccessIsComplete` excepts a read that fell short (`demo-cp.cc:46`) and a copy onto
  the source itself, which `O_TRUNC` empties: both report success.
- `AnswersInOrder` and `UndefinedNeedsSplit` hold while a read takes exactly one
  request and writes do not fall short: demo-http keeps nothing between reads.
- `CleanEndIsComplete` says that all was answered under the same conditions.
- `OnlyLiveRoutines` excepts a Defer that was cancelled: its routine stays, and
  `~Reactor` panics.

## 4. Proofs

TLAPS proves, from the assumptions on the constants in the modules and nothing
else:

- `FutureProofs`: `TypeOK`, `RefCountExact`, `OneOwnerPerSide`,
  `PendingHasProducer` as invariants, `ResultIsFinal` and `RefusalIsJustified` as
  action properties. `RefCountExact` speaks of cardinalities and is awkward to
  carry through steps. The inductive invariant `IInv` says the same with at most
  one promise and one future per State: the count is the sum of two zero-or-one
  terms, an address is free exactly when both are zero, and a State that is empty
  and has a future has a promise. Each action preserves it (one lemma per
  action); `CardinalityOfOwners` turns it back into cardinalities.
- `ReactorProofs`, in three parts. The table alone: `RoutinesAreOwned`, that an empty set
  of handles means an empty table, and `UnsharedStay`, that a registration with an id
  to itself is in the table at it. As the code stores next to the slot that it found
  free, one slot stays free (`SomeIdIsFree`): it overwrites where the table is full but
  for that one, and never meets its own assertion. The Defers alone:
  `RunsOnce` and `HeldByOne`, which together with the type invariant are inductive: that
  a live object's function is due is what lets its destruction run it, and that no
  other object holds it is what keeps the others right afterwards. Needs
  `None \notin Funcs`. Their composition: a step of it is a step of each or leaves it
  alone (`SameSteps`); `Linked` ties them: a registration has an id exactly until its
  function has run. That needs `UseChangesOne`: nothing a client does with Defers
  changes the fate of two functions. `OnlyLiveRoutines`, `FunctionsRunOnce` and, with
  `UnsharedStay`, `HeldRoutinesStay` follow, for every id range of two or more and any
  number of registrations, functions and slots.
- `Timer` (at the end of `IoEngineProofs`): the deadline stands for now plus the duration (`DeadlineIsExact`), for
  durations of either sign; `sleep` of one that is not negative never throws; nor
  does that of whole seconds back, so the `catch` in the test of `sleep(-1s)`
  (`tests/test_app.cc:347`) is never entered. Division is used through its
  defining equation (`Division`, `Truncation`).
- `IoEngineProofs`: `CountersExact`, `WaitsForSomething`, `QueueHoldsOneBurst` and the
  refinement of the safety part of `IoSpec`, for any finite set of requests and
  any queue size. The inductive invariant adds to the two counter equations what
  each control point knows (nothing taken outside submit, something in flight
  while waiting, an empty queue after a loop that did not fail).
- `SemaphoreProofs`: `PermitsConserved`, `NoIdlePermit`, `QueueMatchesClients`, and that at most `Count`
  clients hold a permit. The cardinality of the owners changes by one in three
  lemmas; the case of a permit handed past abandoned promises is a lemma of its
  own. `Refinement`: the semaphore implements the safety part of `SemaphoreSpec`. The
  abstract queue is a function from each waiting client to those who asked before it,
  so the mapping needs no filtering of `waiters`: as `QueueMatchesClients` has each
  waiting client there exactly once, the client that `SignalFrom` serves is the one
  with nobody before it (`HandOverLine`), a new one has everybody before it
  (`JoinLine`), and a promise given up leaves the order of the others (`GiveUpLine`).
- `HandleProofs`: `TypeOK`, `NoOperationStrays` and `HeldOnce` under the hypothesis
  `Exclusive`, for any numbers of objects, coroutines, descriptors and openings. The
  inductive invariant `Owning` says what each stage of each operation knows: a close
  is alone on its object, a use has the number its object still has, a maker has a
  number that nobody else has. It also says that an object whose close was carried
  out holds its number no more, before its coroutine is told: between those two
  steps the kernel may give the number to somebody else. Without `Exclusive` both
  properties fail, as they do in the code: `_fd` is read when a request is prepared.

- `ExecutorProofs`: `TypeOK`, `OneTaskPerSuspension`, `AwaitsAreWellFounded`,
  `BlocksOnlyWhenIdle`, `CleanExit` and `NoExceptionIsLost`, for any finite set of
  coroutines, any `Fuel` and any choice of those that spin. `IInv` is the types, the
  engine's own invariant (an instance of `IoEngineProofs`: what the Executor does to the
  engine are steps of the engine, `EngineSteps`) and `EInv`. Of that:
  - `Frames` relates status, result, owner and await of each coroutine; whoever awaits
    a future owns it, so `AwaitsAreWellFounded` follows from `OwnersAcyclic`: on a chain
    that closes, `waits` is an injection of a finite set into itself, hence onto it, and
    `owner` its inverse, a ring of futures. `OwnersAcyclic` is kept as a new owner is
    always a coroutine that runs and what it owns is newly born.
  - `Stack` says that the stack is a chain of calls down to the task that executes, or
    to `Main`; with it `OneTaskPerSuspension` survives the walk of a list that is
    appended to and erased from while it is walked.
  - `Idle` says what a pass without progress has seen: none of the tasks before `task`
    is ready, and no step of the kernel can change that, as results are read in
    `complete_ready` alone. `BlocksOnlyWhenIdle` is what is left at `waiting`.
  - `CleanExit`: if nobody detached a live coroutine, the set of the live ones is closed
    under `owner`, and `OwnersAcyclic` makes it empty.
- `CopyProofs`: all four invariants, for every size of the source and of the buffer.
  `Copied` is byte by byte: between two rounds the output is the source up to the
  cursor and the buffer is what follows; a buffer that is not full reaches the end
  unless a read fell short. `Emptied` is the copy onto itself.
- `ServerProofs`: all five invariants, for any number of connections and messages.
  Sessions share nothing, so `IInv` is `SessionInv` of each and a step of one leaves the
  others alone (`SameInv`). `Layout` says that the stream is its messages in a row;
  `Echo` and `Http` that `got` and `reply` answer what was read, byte by byte or message
  by message. That one whole message parses to its own request (`MessagesParse`) is
  proved of `HttpParse` line by line, without induction, as each message has at most
  three lines. `CleanEndIsComplete` is inductive relative to `IInv`: a session comes to a
  clean end from the read that found nothing (`CleanEnds`), where the position is the
  end of the stream, so that got is the stream byte by byte, or one answer per message
  because boundaries grow (`Complete`); afterwards nothing changes it.
  `TextsThatEndAreDefined` is about every text, of any length: `parse_request` stays
  within it if it does not begin with a line end and either ends with one or has an
  empty line. What the headers of such a text must be like to be taken is left to TLC.

Only model-checked: every liveness property (`SuspensionsEnd`, `ApplicationEnds`,
`WaitersAreServed`, `CopyEnds`, `SessionsEnd`) and the fairness parts of the refinements,
which are out of the prover's reach.

## 5. Not modelled

- Formatting, levels and devices (`Log`, `Sink`, `Console`): no behaviour beyond
  output. A sink that throws is in `Executor` for the log of an orphaned exception, and
  in `Server` for every call of the logger; the engine's own log of a failed submit
  (`io.cc:147`), which would take that exception out of `run()`, is left out.
- The parsing of options, which is cxxopts'; what follows from it is in `Executor`.
- Data, offsets, flags and addresses of requests, but for the bytes in `Copy` and
  `Server`. The texts of demo-http's responses are one token each; that the 405
  announces 17 bytes and sends 18 is not visible there.
- Plain tasks and routines of clients, and routines that change the table while
  `run()` walks it: nothing but tests makes them.
- Undefined use: a permit that outlives its semaphore, calls on moved-from
  futures, a `Defer<>` assigned from inside its own function.
- The panic macros have no state; the build and the tests no behaviour.

## 6. Plan

Left to model: futures handed to other coroutines than the caller, in `Executor`; plain
tasks that throw.
