# Verification of concurrency-runtime

TLA+ models of the concurrency runtime in `src/`: thread pools, a strand,
stackful fibers and their synchronisation primitives, spinlocks and lock-free
queues. The models are checked with TLC on small instances, and the properties
that carry most are proved with TLAPS for every instance. Source lines named
below are relative to `src/src/`.

## 1. The system

| Component | State | Operations | Talks to |
|---|---|---|---|
| `QueueSpinLock` (`components/sync/queue_spinlock.h`) | `tail_`; per guard `next`, `is_owner` | `Guard` constructor, `Guard::Release`, `~Guard` | guards live on stacks of threads and fibers |
| `SpinLock` (`components/sync/spinLock.h`) | one atomic flag | `lock`, `unlock`, `try_lock` | `IntrusiveStrand`, `Event`, `ManualExecutor` |
| `IntrusiveList` (`components/intrusive/list.h`) | head, tail, size; `next_` in the nodes | `Push`, `Pop`, `IsEmpty` | every queue of tasks and waiters |
| `Shutdowner`, `IExecutor` (`executor/executor.h`) | `count_tasks`, `shutdown_`, a mutex and a condition variable | `WaitIdle`, `AddTask`, `RemoveTask`, `NotifyAll`, `StartShutdown` | base of all pools |
| `IntrusiveThreadPool` (`executor/pool/intrusive_pool.cpp`) | one list under a mutex, `count_workers_` | `Start`, `Submit`, worker loop, destructor | runs `TaskBase::Run` |
| `DistributedPool`, `Worker` (`executor/pool/`) | global queue, a local queue and a semaphore per worker | `Submit`, `Push`, `Process`, `Loop`, `WaitShutdown` | `SimpleMSQueue`, `Coroutine` |
| `IntrusiveStrand` (`executor/strand/`) | list under a spinlock, atomic `state` | `Submit`, `RunBatch` | submits closures to an underlying executor |
| `AwaiterFiber`, `StoppedFiber` (`fiber/`) | coroutine, awaiter | `Run`, `Suspend`, `Schedule`, `Switch` | executor; awaiters |
| Fiber `AsyncMutex`, `Event`, `WaitGroup` (`fiber/sync`) | a flag or counter, a list of waiters, a spinlock | `Lock`/`Unlock`, `Wait`/`Fire`, `Add`/`Done`/`Wait` | park and schedule fibers |
| Coroutine `AsyncMutex` (`components/async_mutex`) | `lock_flag`, list of awaiters, spinlock | `lock`, `Unlock` | resumes C++20 coroutines inline |
| `SimpleMSQueue`, hazard pointers (`components/lock_free`) | linked nodes, per-thread protected pointer and retired list | `Push`, `TryPop`, `Protect`, `Retire`, `Collect` | `DistributedPool` |
| `ClassicMSQueue` (`components/lock_free/classic_ms_queue.h`) | linked nodes, a counter beside every pointer | `Push`, `TryPop`, destructor | an allocator |
| `UnboundedBlockingQueue` (`components/queue/blocking_queue.h`) | a queue, `close_`, a mutex and a condition variable | `Put`, `Take`, `Close` | threads that take tasks |
| `Task` (`executor/task`), deprecated | `status_`, `ex_error_`, a mutex and a condition variable | `Cancel`, `MarkCompleted`, `MarFailed`, `Wait` | whoever runs it, whoever waits for it |
| `Coroutine` (`coro/coro.cpp`) | caller and own context, `is_completed_`; the thread-local `current_coro` | `Resume`, `Suspend`, `Run` | fibers, `FiberTask`; nests |
| `IntrusiveManualExecutor` (`executor/manual`) | list and count under a spinlock | `Submit`, `RunAtMost`, `Drain` | runs tasks on the calling thread; a strand over it |
| `bench/bench_async_mutex.cpp` (in `src/bench`) | gate (mutex, condition variable, flag), latch | `run`, `StartAll`, `main` | coroutine `AsyncMutex` |

What is hard here: threads that interleave between two atomic accesses
(`IntrusiveStrand::state`, `QueueSpinLock::tail_`), wakeups without the mutex
of the waiter (`WaitIdle`), objects on a stack that two contexts use (the guard
of a parked fiber), values read under a lock and used after it
(`IsTasksEmpty`, the popped task and `IsShutdown`), and termination: everyone
who waits must be woken. `PROJECT.json` lists the hazards by line.

What makes the components correct:

* strand: tasks never overlap, run once, in order, and none is left behind;
* queue spinlock: exclusion, first come first served, no use of a dead guard,
  no starvation;
* fiber mutex: exclusion, hand-over in order, every parked fiber is resumed
  once, the spinlock guard has one user at a time;
* event and wait group: nobody returns early, no waiter is lost or woken twice,
  no awaiter is followed after its fiber has left;
* coroutine mutex: exclusion, hand-over in order, the spinlock goes with the
  awaiter that owns it, a coroutine runs on one stack at a time;
* both pools: `count_tasks` is never 0 while there is a task that can run,
  `WaitIdle` and the destructor return, the destructor leaves no thread and no task behind; in
  `DistributedPool` a task is in one queue and stays with its worker;
* `SimpleMSQueue`: linearizable FIFO, no access to a deleted node, nodes are
  retired once, after they left the queue, and nothing leaks;
* `ClassicMSQueue`: linearizable FIFO, the shape its comment promises (head at
  the dummy, tail at the last node or the one before), a link is set only at the
  end of the list, each node deleted once;
* blocking queue and tasks: what `Put` accepted is taken, unless it came after
  `Close`; after `Close` every `Take` returns; a task has one outcome, and who
  waits for it goes on;
* coroutines: `current_coro` is what executes on the thread, through nested
  `Resume`s and when a coroutine goes on on another thread;
* manual executor: an undisturbed `Drain` runs everything, also what the tasks
  submit.

## 2. Modules

| Module | Models | Composes |
|---|---|---|
| `SerialExecutor` | abstract: tasks run one at a time in order of submission | |
| `IntrusiveStrand` | `intrusive_strand.cpp/.h` | refines `SerialExecutor` |
| `IntrusiveStrandProofs` | proofs | extends `IntrusiveStrand` |
| `ManualExecutor` | `executor/manual` | |
| `ManualStrand` | a strand over a manual executor that others use too | extends `IntrusiveStrand`, `ManualExecutor` |
| `FifoLock` | abstract: a lock with a line | |
| `QueueSpinLock` | `queue_spinlock.h` | refines `FifoLock` |
| `QueueSpinLockProofs` | proofs | extends `QueueSpinLock` |
| `FiberMutex` | `fiber/sync/async_mutex.cpp`, `mutex_awaiter.h`, the part of `awaiter_fiber.cpp` and of the executors that a blocked `Lock` needs | instantiates `QueueSpinLock`, refines `FifoLock` |
| `FiberMutexProofs` | proofs | extends `FiberMutex`, instantiates `QueueSpinLockProofs` |
| `FiberExecutor` | `awaiter_fiber.cpp`, `stopped_fiber.cpp`: how workers run, suspend and resume fibers | |
| `FiberEvent` | `event.cpp`, `event_awaiter.h` | extends `FiberExecutor` |
| `FiberWaitGroup` | `wait_group.cpp`, `wait_group_awaiter.h` | extends `FiberExecutor` |
| `FiberSync` | fibers that use an event and a wait group | extends `FiberEvent`, `FiberWaitGroup` |
| `CoroMutex` | `components/async_mutex` | refines `FifoLock` |
| `BenchAsyncMutex` | `bench/bench_async_mutex.cpp`: a whole program around the mutex | extends `CoroMutex` |
| `SyncProofs` | proofs, of the coroutine mutex and its benchmark, and of the event and the wait group | extends `BenchAsyncMutex`, `FiberSync` |
| `IntrusiveThreadPool` | `intrusive_pool.cpp/.h`, `Shutdowner` of `executor.h` | |
| `IntrusiveThreadPoolProofs` | proofs | extends `IntrusiveThreadPool` |
| `DistributedPool` | `distributed_pool.cpp`, `worker.cpp`, `Shutdowner` | |
| `DistributedPoolProofs` | proofs, of the pool and of the queue in which its workers pass tasks | extends `DistributedPool`, `SimpleMSQueue` |
| `FifoQueue` | abstract: a queue in which an operation takes effect once, between call and return | |
| `HazardManager` | `components/lock_free/hazard`: protected pointers, retired lists, collector | |
| `SimpleMSQueue` | `simple_ms_queue.h` | extends `HazardManager`, refines `FifoQueue` |
| `ClassicMSQueue` | `classic_ms_queue.h` | refines `FifoQueue` if the allocator does what `FreshOnly` says |
| `ClassicMSQueueProofs` | proofs | extends `ClassicMSQueue` |
| `BlockingQueue`, `Task`, `Coroutine` | `blocking_queue.h`; `executor/task`; `coro/coro.cpp` and the switches of `context.cpp` | |
| `TaskQueue` | clients, workers and coroutine-resuming tasks around the three | extends `BlockingQueue`, `Task`, `Coroutine` |
| `TaskQueueProofs` | proofs | extends `TaskQueue` |
| `MC*` | the fibers, clients or threads of a run, symmetry | extends the module |
| `MCSync` | two programs that share nothing, one for each initial state | extends `MCBenchAsyncMutex`, `MCFiberSync` |

Every access to an atomic is a step of its own. A critical section with a
single access to shared data is one step. Memory orders are not modelled: the
atomics are read and written as sequentially consistent, which is how most of
them are declared in the source. Operators whose comment begins with "Fault"
are variations of the definition below them, each the mistake that a property
is there to catch; no specification uses them.

### IntrusiveStrand

`tasks`, `state` and `spinlock` are the members. `Submit` is three steps:
`SubmitPush` (lock and push), `SubmitPlan` (the compare-exchange of `PlanTask`;
a failure unlocks) and `SubmitInternal` (hand the closure to the underlying
executor, unlock). `RunBatch` is `RunBatchStart` (PLAN to RUNNING),
`RunBatchSwap`, the loop `RunTask`/`RunTaskReturn`, `RunBatchCheck`
(`IsTasksEmpty`), then `RunBatchToReady` or `RunBatchReplan` with
`RunBatchSubmitInternal`. A failing `assert` is the program counter "abort".
In this module the underlying executor is abstract: `batches` closures, which any
idle worker may take. `pushed` and `executed` are histories. A task that submits to its
own strand is covered: its Submit is a Submit that happens while a worker is in
`in_task`. A task is submitted once; a fiber that is submitted again is another
task of the model.

### ManualExecutor and ManualStrand

`ManualExecutor` has one step per locked section: `ManualSubmit`, the pop of the
loop, its end. `RunNext` is `RunAtMost` with 1, `Drain` is `RunAtMost` without a
limit. `ManualStrand` takes the steps of `IntrusiveStrand` as they are: a step
that adds to `batches` also puts a closure at the end of the executor's list, one
that takes from it pops the closure from the front, in a thread that is inside
`RunAtMost` or `Drain`; plain tasks lie between the closures. What is proved of
`IntrusiveStrand` therefore holds here. `quiet[w]` is a history: since `w` called
`Drain` nobody else has submitted or run anything, except for Submits that begin
and end while `w` runs a task of the strand, which are those of the task.

### QueueSpinLock

Each operation `Op(a, g)` is a step of actor `a` on guard `g`; in this module
`a = g`. `Exchange` is the construction of the guard together with
`tail_.exchange`: before the exchange the guard is known to nobody. `CasFails`
is enabled also when the compare-exchange could succeed, because the weak form
may fail spuriously. A thread either calls `Release()` and then runs `~Guard`,
or only runs `~Guard`; `in_dtor` tells where `Release` returns to. `line` is the
history of the exchanges.

### FiberMutex

Guards are named after fibers, actors are fibers and workers: `Park` is the
worker calling `AwaitSuspend` and with it `guard.Release()`, `GuardDestroy` is
the fiber running `~Guard`. `Lock` and `Unlock` of a fiber use the same stack
slot. `home` is `TaskBase::worker`, `ready` stands for the executor's queues,
whose order is left open. `Sticky` is TRUE for `DistributedPool` (a fiber that
has run goes back to the queue of its worker, `distributed_pool.cpp:32-33`) and
FALSE for `IntrusiveThreadPool` (one list). A fiber runs `Sections` critical
sections, as the fibers in `test/fiber/test_mutex.cpp` do. `owner` is a
history: the fiber to which the mutex was granted.

Two mappings relate the module to others. `Fifo` is the mutex as a `FifoLock`:
its line (`Line`) is the fiber that was granted the mutex, the list of waiters,
and the fiber that has decided to wait and is not yet in the list. `Guard` is
the spinlock inside the mutex as a `QueueSpinLock` in which every guard is used
by one actor: `GuardPC` says where the operations of a guard are, whether the
fiber or its worker carries them out.

### IntrusiveThreadPool

The owner thread starts the workers, submits, schedules parked fibers, calls
`WaitIdle` any number of times and destroys the pool; the workers loop. A running
task may submit a task that nobody has submitted yet (`Go`), a parked one
(`Schedule`) and itself (`Yield`). Its `Run` returns when it has yielded, has
ended, or is parked by a primitive of `fiber/sync`: the worker calls `RemoveTask`
and `NotifyAll` in each case (`intrusive_pool.cpp:44-46`), so a parked fiber is
not counted until it is scheduled. `MaxStops` bounds how often a task yields or is
parked. Submit from a thread other than the owner and the workers while the pool
is destroyed is outside the contract of the class and not modelled. Spurious
wakeups of the condition variables are left out: they can only help a sleeper.
`status`, `stops` and `waited` are histories.

### DistributedPool

The owner starts the workers, submits, schedules parked tasks, calls `WaitIdle`
and destroys the pool; a running task may submit and schedule others, yield, be
parked or return. `Submit` is `SubmitAdd` (the count), `SubmitRoute` (to the
queue of the task's worker or to `global_tasks`) and, for a worker, the rest of
`Worker::Push`: `PushReset` and `PushRelease`. A turn of `Process` is `PopLocal`
(and the run), `PopGlobal` with `PushOwn`, or `Close`, `Decrease` and `Compare`;
it ends with `NotifyAll`. `LoopClose` and `Sleep` are `Worker::Loop`. The two
queues are the FIFO that `SimpleMSQueue` refines: one step per operation.
`counter_empty_tasks` is 0 or stands near 2^64 (`Wrapped`). `Fibers` are the
tasks that may yield or be parked, `MaxStops` bounds how often; the others are
functions (`TaskFreeFunction`), whose `Run` always completes.

### SimpleMSQueue and HazardManager

Every atomic access of `Push` and `TryPop` is a step, and so is a turn of the
loop of `~SimpleMSQueue`. An address is used again by a later `new`, so that
stale pointers and ABA are in the model. `line` is a history variable: the nodes
from `head` on, in the order of their links. `HazardManager` has the protected
pointer and the list of retired nodes of every thread, the hand-over to the
collector at `LimitFreeList`, `Collect` with its snapshot of the protected
pointers, and the destructor. `CollectorLeft` covers the executions in which the
collector found no mutator and returned (`hazard_manager.cpp:64`): nothing is
reclaimed then until the end. The linearization points, for the refinement of
`FifoQueue`, are the linking of the node in `Push`, the move of `head` in
`TryPop`, and the read of a null `next` for an empty queue.

### FiberExecutor, FiberEvent, FiberWaitGroup, FiberSync

`FiberExecutor` is what `FiberMutex` has for itself: workers take a ready fiber,
switch to it, and after `Suspend` call `AwaitSuspend`. `Code` gives each fiber
its sequence of calls. In `FiberEvent` the awaiter carries a
`std::unique_lock<SpinLock>`, whose `unlock` frees the lock and then clears the
flag: two steps of the worker (`EventUnlock`, `EventDisown`), between which the
fiber may already be scheduled. In `FiberWaitGroup` the awaiters have links and
a lifetime, since `Done` walks the links after it has given up the lock; the
queue spinlock is one variable, as `QueueSpinLock` justifies, with the two steps
of `Guard::Release` kept apart (`GroupRelease`, `GroupDisown`). "spin" is the
second release that does not come back. The counter starts with one for every
`Done` whose fiber does not add it itself. `walk` is a history variable: the
waiters that a `Done` has taken from the list and not yet scheduled. The code
has only the first of them (`wg_waiter`) and the links.

### CoroMutex

`stack[t]` has the coroutines that run on thread `t`, each resumed inside the
`unlock` of the one below. `guards` are the awaiters whose `unique_lock` owns
the spinlock: the one in the frame, or the one in the list after the move.
`Park` moves it, `ParkRelease` unlocks it, and `ParkReturn` is the thread
leaving `await_suspend`: by then another thread may have resumed the coroutine.
Here `release()` precedes `unlock()` (`mutex_awaiter.cpp:45-46`), which is why
the double release of `FiberMutex` cannot happen. A coroutine goes through
`Sections[c]` sections.

### BenchAsyncMutex

The only complete program in the repository around the coroutine mutex. The
jthreads wait at a gate (`GateSleep`, `GatePass`) until `StartAll`, a coroutine
on the main thread, has opened it; `StartAll` locks a `std::mutex` before its
`co_await` and unlocks it when it ends. A jthread ends when its call of `run()`
returns, at the first suspension at the earliest: the coroutine goes on on the
jthread that unlocks the mutex. Counting the latch down is part of the end of the
last section. One turn of the loop of `run()` is modelled. The benchmark of `std::mutex` in the same file
is not modelled.

### ClassicMSQueue

Every atomic access is a step, a `NodePointer` is a pair. A deleted node keeps
its fields and may be read, as the comment of the class wants it of the
allocator. `new` returns any node that is not allocated, as the
comment allows (lines 27-29), also one to which a thread still refers. `FreshOnly`
is a condition on steps that rules this out; it is no part of the specification
but a hypothesis of the theorems. The destructor deletes one node a step (`Destroy`), from the time when nobody is in a
call; `gone` says that it has begun. `line` is a history variable: the nodes from
`head` on, changed where a link or `head` is; `LineInv` says that it is the list
that the pointers make. The refinement reads the elements off `line`.

### BlockingQueue, Task, Coroutine, TaskQueue

`BlockingQueue`: `Put` is the load of `close_` (`PutRefused`), which is outside
the lock, and the locked part (`PutPush`); `Take` is sleeping, taking or finding
nothing, and a notification after the lock. `Task`: one step per locked section;
a failing assert sets `aborted`; `notify_one` wakes one of the sleepers.
`Coroutine`: `coro_stack[a]` is what executes on thread `a`; `Suspend` and `Run`
act on whatever `current_coro` names, as the code does, and `Resume` is two
steps, before the switch and after it. `TaskQueue` puts them together in the way
the tests of the repository do: clients follow a script of cancel, submit, wait
and close; workers take tasks until there are none, leave cancelled ones out, run
a function or resume a coroutine, and mark the task. An outer coroutine drives an
inner one, as in the pipeline of `test/coro`. The thread pool in
`test/executor/test_thread_pool.cpp` that used the queue and the tasks is no
longer in the repository; the loop of the worker is taken from the tests and
marked external. Two tasks that resume one coroutine are submitted one after the
other: resuming a coroutine that runs is outside the contract of `Resume`.

## 3. Runs

| Run | Bounds | Shows |
|---|---|---|
| `strand` | 3 tasks, a plain task, 2 threads that call `RunAtMost(1)` and `Drain` | `StrandInv` (types, spinlock, token, lists, order), the asserts of `RunBatch`, refinement of `SerialExecutor`; a batch runs what was pushed before it starts (`PlannedIsRun`); an undisturbed `Drain` runs all |
| `queue_spinlock` | 3 threads | `LockInv`, no dangling guard, refinement of `FifoLock`, every `Acquire` and `Release` returns |
| `fiber_mutex` | 3 fibers, 2 workers, 2 sections, sticky | `ParkInv` (parked fibers in one place, the mutex granted to one, what fibers and workers do with the guards, `LockInv` of the spinlock); refinement of `FifoLock`, every fiber gets through |
| `thread_pool` | 3 tasks, 2 workers, 1 stop each | `PoolInv` (counts exact, no task lost, `WaitIdle` not early but for parked fibers, the destructor outlives the threads and leaves in the list what is counted), tasks end or are parked, the destructor ends |
| `distributed_pool` | a function and a fiber that stops once, 2 workers | `PoolInv` (tasks in one place, their state right, count exact, `WaitIdle` not early), tasks at home, closing is final, tasks are served, `WaitIdle` and the destructor return |
| `ms_queue` | 1 producer, 1 consumer, 4 nodes, 4 pushes, collector | refinement of `FifoQueue`, `ReclaimInv` (every node at one place, from the list over a retired list to `delete`; `tail` in the list; nothing leaks) |
| `sync` | the benchmark: 3 jthreads and main, 2 sections each, 1 of `StartAll` | `CoroInv` (types, the spinlock has one owner, one activation per coroutine, one owner of the mutex, parked coroutines in one place), refinement of `FifoLock`; the gate's mutex is unlocked by its owner and the mutex is destroyed unused (`BenchInv`), the program ends |
| | the fibers: 4 on 2 workers, sticky, an event and a group | `WaiterInv` (spinlock exclusive, waiters in one place), counter exact and nobody back early, no dangling awaiter, waiters return and `Fire` wakes all |
| `task_queue` | 3 clients, 4 tasks (2 of them on one coroutine, 1 cancelled), 2 workers, a coroutine in a coroutine | one outcome per task (`OneOutcome`: types, `PlaceInv`, `StatusInv`, the asserts), `current_coro` is right through nested `Resume`s (`CurrentIsExecuting` with `FramesInv`), accepted tasks are served and `Take`s end after `Close`, `Wait` returns unless two share it |
| `strand_lost` | 2 tasks, 2 workers | **violated**: when the strand is idle all tasks have run |
| `fiber_mutex_pool` | 2 fibers, 2 workers, 1 section, not sticky | **violated**: every fiber gets through, on `IntrusiveThreadPool` |
| `ms_queue_reclaim` | 1 producer, 2 consumers, 3 pushes, collector | **violated**: the value that `TryPop` reads is still there |
| `classic_ms_queue` | 2 producers, 1 consumer, 3 nodes, 3 pushes | **violated**: `Push` links at the end of the list |

Four more configurations belong to no run of `PROJECT.json`. Three have an execution
that a property excludes (all found within seconds): `IntrusiveThreadPoolIdle.cfg`
(`WaitIdleReturns`), `IntrusiveThreadPoolAssertion.cfg` (`ShutdownAssertion`) and
`SimpleMSQueueProducers.cfg` (`NoUseAfterFree`, two producers). One passes:
`SimpleMSQueueShared.cfg` checks `ImplementsFifoQueue` with three producers, two
consumers and no reclamation, a case of the theorem `QueueRefinement`.

Why the bounds are enough. Strand: with two tasks a Submit meets every point of
a running batch, with three a batch holds two tasks while a third arrives; the
plain task lies before, between or behind the closures; the token invariant
allows one busy worker at a time, so a second worker is all that can make a
difference. Lock: three guards give a
first, a middle and a last one, and guards come back; the proofs cover any
number. Mutex: three fibers on two workers have a holder, a parked waiter and
one that is about to park; the second section lets a fiber come back while
others wait. Thread pool: a task that yields or is parked, one that it spawns and
that schedules it, and one from the owner. `DistributedPool`: one task is parked or yields while the other one
schedules it, submits, or keeps the count up; each may meet its worker awake,
about to sleep or asleep. Queue: with four nodes an address is used again while
a stale pointer to it exists; what takes several producers or consumers is proved
when nothing is reclaimed, and fails when the collector runs. `sync`: two waiters
behind an owner of the coroutine mutex, so that resumptions nest to depth three,
and a jthread may have ended before its coroutine does; two waiters in the event
and in the group, so that `Done` follows a link and `Fire` takes two turns; one
fiber waits for the event twice, so that its first `unlock` can meet its second
`Wait`. `task_queue`: two clients sleep
on one task, a Put overlaps Close, both workers sleep when it comes, and the
second task of the outer coroutine may run on the other worker.

Deadlock checking is off where the system may stop: nobody has to submit
(`strand`), all fibers are done or wait for an event that nobody fires
(`fiber_mutex`, the fibers of `sync`), the pool is destroyed or `WaitIdle` has
missed its wakeup (`thread_pool`), the workers wait for tasks that nobody submits
(`task_queue`). What must not stop is stated as a liveness property. The other
passing runs check for deadlock.

### Fairness

Threads are scheduled by the operating system: weak fairness for each thread's
steps once an operation has begun. Nobody is obliged to call Submit, to lock or
to destroy the pool. `compare_exchange_weak` may fail spuriously but not for
ever: strong fairness for its success (on x86-64, the only target the assembly
in `context/buffer` supports, it does not fail spuriously at all). Critical
sections and tasks end: weak fairness of a thread includes leaving them. A sleep
on the semaphore of a worker ends: `try_acquire_for` has a timeout. The bounds
on yields are also what lets a worker of `DistributedPool` get to the global
queue: it looks there only when its local queue is empty, so fibers that yield
for ever would starve it. The manual executor has no threads: `strand` assumes
that somebody calls `RunAtMost` or `Drain` while it is not empty, not which one.
In `task_queue` the clients follow their scripts, but nobody has to `Close`; the
scripts are finite, so its liveness properties speak of the state in which the
system ends up (`<>[]`). In the benchmark of `sync` main runs, and with it everything is
started.

### Where the code falls short

Four runs show what a test or a comment of the repository says and the code does
not do; each is a finding in `PROJECT.json`.

* `strand_lost`. `RunBatch` reads `IsTasksEmpty()` (line 56) and only then moves
  RUNNING to READY (line 57). A Submit in between pushes its task and leaves,
  because the state is RUNNING. Nothing runs the task until another Submit comes,
  and `WaitIdle` of the pool returns without it. `test_strand.cpp` asserts that all
  tasks have run by then. `PlannedIsRun` says of which tasks this is true: those in
  the list while a batch is planned.
* `fiber_mutex_pool`. `Guard::Release` passes the spinlock on and then stores
  `is_owner = false`. In between the fiber that has the mutex can unlock it
  on another worker and schedule the parked one, which is resumed there; its `~Guard` sees `is_owner`, releases a
  lock it does not hold and never leaves the loop. With `Sticky` TRUE the fiber can
  only be resumed by the worker that is still inside `Release`, so this cannot
  happen (`StickyGuardNotShared`). With `Sticky` FALSE, which is
  `IntrusiveThreadPool`, the pool of all tests in `test_mutex.cpp`, it does.
  `FiberSync` has the same race in its two awaiters and fails `WaiterInv` there:
  what `sync` shows of the event and the group, it shows of `DistributedPool`.
* `ms_queue_reclaim`. `TryPop` moves `head` (line 94) and reads the value of the
  next node afterwards (lines 95-96), when no hazard pointer protects it. With two
  producers a node is used after its deletion in another way: `Push` follows a tail
  that it has not protected (`simple_ms_queue.h:60`), and `Collect` takes its
  snapshot before it detaches the lists (`hazard_manager.cpp:93`). `NoUseAfterFree`
  is therefore no property of a passing run. After such an access the behaviour is
  undefined and the model stops.
* `classic_ms_queue`. `Node(T)` starts the counter of `next` at 0 (line 58). If a
  node comes back while a `Push` still refers to it, the compare-exchange at line
  101 succeeds although the node is not the end of the list; the comment of the
  class says that the counters avoid this, and asks nothing of the allocator that
  would.

In `IntrusiveThreadPool` two more things do not hold, which the passing run does
not claim. `WaitIdle` can miss the last `RemoveTask` and `NotifyAll`, which do not
take its mutex, and sleep for ever (`WaitIdleReturns`). And a worker that has
popped nothing looks at `shutdown_` later, so a task submitted in between, just
before the destructor, is left behind and the assertion of line 24 fails
(`ShutdownAssertion`; `LeftInv` says what is left, and that it is nothing when the
owner has waited). `DistributedPool` has neither: its workers wake up by themselves
and notify, and close only when the count is 0. The count of
`IntrusiveThreadPool` does not include parked fibers, so its `WaitIdle` does not
wait for them as such; that of `DistributedPool` does.

Two gaps that no test or comment denies are exceptions in passing properties:

* Blocking queue. `Put` reads `close_` before it locks, so it can push after
  `Close`, when the workers are gone: `ServedUntilClosed` allows this for the
  tasks in `late`.
* Task. The mark notifies one thread. When two wait for the same task, the other
  sleeps on: `WaitReturnsOrShared` allows this for the tasks in `shared`.

## 4. Proofs

TLAPS proves the following for every value of the constants that satisfies the
assumptions named in the modules or in the theorems. The inductive invariants are,
in all their parts, also checked by runs, with two exceptions. `QueueShape` of
`ClassicMSQueue` holds only under the hypothesis on the allocator, which no run has.
And `KeptInv` of `SimpleMSQueue` is about the queue without reclamation; it takes
several minutes on `SimpleMSQueueShared.cfg`.

* `IntrusiveStrandProofs` (assumes only that NULL is not a task):
  `StrandInv` is invariant. `Serial` alone is not inductive: that no second
  batch starts depends on who has the right to plan one. `TokenInv` says that
  there is one token, held by the Submit that moved READY to PLAN, by the
  closure, or by a worker, and that `state` tells which; `LockInv` ties the
  spinlock to Submits, `ListInv` says when the lists are empty, and `InOrder`
  carries the order across the swap. `AssertionsHold`, `Serial`, `InOrder`,
  `NoLostBatch` and `TypeOK` follow. `StrandRefinement`: the strand implements
  `SerialExecutor`. The abstract queue is the rest of the detached batch followed
  by `tasks`; the swap of the lists leaves it as it is, because by `TokenInv` and
  `ListInv` no other worker has a batch.
* `QueueSpinLockProofs` (assumes that guards are actors and NULL is no guard):
  `LockInv` is invariant: the guards in the lock form a line without
  repetitions, `tail_` is its last element, each waiting guard is linked from
  its predecessor or about to link itself, and only the first is an owner. The
  steps that matter are `Exchange` (a guard appended), `SetNextOwner` (the
  second becomes the first) and `CasSucceeds` (the line had one element).
  Exclusion, order and `NoDanglingGuard` follow, and so does `LockRefinement`:
  the spinlock implements `FifoLock`.
* `FiberMutexProofs` (assumes that NULL is neither fiber nor worker and fibers
  are not workers; every theorem has the hypothesis `Sticky`, without which
  the mutex fails, as above): `ParkInv` is invariant. Its parts
  depend on each other: that the critical parts of `Lock`, `Unlock` and
  `AwaitSuspend` exclude each other rests on `LockInv` of the spinlock, which
  holds of the guards as `GuardPC` sees them; that `GuardPC` moves only as a
  guard of one thread does rests on `StageInv` and `GuardInv` (only its home
  resumes a parked fiber, and not before it has left `Release`); and that an
  Unlock finds a waiter that is parked rests on `ParkedOnce` and `GrantInv`.
  The lemmas of `QueueSpinLockProofs` are used through the instance `Guard`.
  `GuardRefinement` is the corresponding refinement of `QueueSpinLock`, and
  `FifoRefinement` that of `FifoLock`: a `Lock` that finds the mutex taken asks
  at the time of its decision, while it still holds the spinlock, and nobody can
  ask between this and its entry in the list.
* `SyncProofs`, on `CoroMutex` and `BenchAsyncMutex` (assumes finitely many coroutines, at least one section
  each, NULL no coroutine; for the program, in addition, what `BenchAssumption`
  says of its threads): `CoroInv` is invariant. `SpinlockOwned` needs to know
  where each `unique_lock` is (`GuardInv`), which needs that a coroutine is
  active at most once (`OneActivation`), which needs that whoever is resumed
  is parked and has left the list (`ParkedInv`, `OwnerInv`). `FifoRefinement`: the mutex
  implements `FifoLock`. `BenchRefinesMutex`: the benchmark uses the mutex only
  as `CoroMutex` allows, so both results hold in it. `BenchInvariance`:
  `BenchInv` holds; `GateInv` keeps every jthread before the gate while
  `StartAll` has `cv_wait`, and `EndInv` ties the latch to the coroutines that
  are not done.
* `SyncProofs`, on `FiberSync` (assumes finitely many fibers, `nullptr` no fiber
  and no worker, code that consists of the calls the module knows, and
  `WaitGroupAssumption`: who calls `Add` does so before its `Done`; every theorem
  has the hypothesis `Sticky`, without which `WaiterInv` is false): `WaiterInv`,
  `GroupInv` and `NoDanglingWaiter` are invariant, together (`SyncInv`), and
  `FireWakesAll` holds. `RunInv` says that a fiber belongs to one worker; from it
  follows that who resumes a parked fiber has left `AwaitSuspend`, hence that the
  flag of the `unique_lock` and `is_owner` of the guard are clear by then
  (`SpinlockExclusive`, `GuardExclusive`). `ParkedOnce` needs those locks, and
  `LinkInv`: the links lead through the list, and from `wg_waiter` of a `Done`
  through `walk`. `NoDanglingWaiter` follows, because a fiber ahead of a walk is
  in no other place, so nobody can resume it. `CounterMatches` counts the calls
  of `Done` to come as a finite set of pairs of a fiber and an index; that
  `counter_` is 0 only when all of them belong to fibers that add
  (`WaitMeansDone`) takes a one-to-one map from the `Add` to the `Done` of each
  fiber. Each step is split into what it does to the executor (`Kept`), to the
  event and to the group; the steps of one primitive leave the part of the other
  alone (`OutsideEvent`, `OutsideGroup`).
* `IntrusiveThreadPoolProofs` (assumes finitely many tasks and workers, at least
  one worker): `PoolInv` is invariant. The inductive part is `CountMatches` with
  `HeldInv`, `WaitedInv` and `OutlivesInv`; that no task that could run is left
  when `count_tasks` is 0 (`IdleInv`) and that the destructor leaves what is counted
  (`LeftInv`) follow from the sum: in the first case all of its terms are 0, in the
  second all but the length of the list.
* `DistributedPoolProofs` (the same assumptions, and that the owner is no
  worker): `PoolInv`, `RunsAtHome` and `ClosedForGood` are invariant, together:
  `HeldOnce` (a submitted task is in one of four kinds of place, once) and
  `StateInv` make `CountMatches` inductive, because the task that is counted off
  is nowhere else; and as the count includes parked tasks and is 0 when
  `CanCloseWorker` says yes, nothing can make the queues non-empty afterwards.
  `RunsAtHome` is what justifies `Sticky` for this pool in `FiberMutex`.
* `DistributedPoolProofs`, on `SimpleMSQueue` and `HazardManager` (assumes that
  `nullptr` is neither node nor thread, finitely many consumers, and that no
  thread both pushes and pops; every theorem has the hypothesis `CollectorLeft \/
  OneEach`: the collector has left its loop, or there is one producer and one
  consumer; with more threads the collector deletes nodes in use, as above, and
  nothing is proved): `ReclaimInv` is invariant, together with `NoUseAfterFree`
  (`MemoryInv`). `PlaceInv` says that an
  allocated node is in the list, with one thread, in one retired list or with the
  collector, and that a deleted one is nowhere; each action moves at most one node
  from one place to the next (`PlaceMoves`, `PlaceComes`, `PlaceGoes`), except
  `CollectCheck`, which detaches a whole list (`PlaceEmpties`). What the threads
  have loaded is good enough: a node that `Push` or `TryPop` dereferences is in
  the list or has a link (`Known`), so a compare-exchange on a null link succeeds
  only at the last node; and a `TryPop` about to move `head` has seen a link and
  a `tail` elsewhere, so `tail` does not leave the list (`PopKnows`). That these
  nodes are still allocated has a different reason in each regime. When the
  collector has left, nothing is deleted before the destructor (`KeptInv`). When
  it runs, the only producer is at `tail` and the only consumer at `head`, both
  in the list, and the collector deletes only what it has detached (`PairInv`).
  At the end the mutators are counted off and the lists of the threads contain
  all that is left, which gives `NothingLeaks` with the assertions of
  `~HazardManager`. `QueueRefinement`: the queue implements `FifoQueue`; a
  `TryPop` that has moved `head` and not yet read the value has already its
  answer, since no reuse of a node reaches the value before it does.
* `ClassicMSQueueProofs` (every theorem has two hypotheses: `ClassicSetting`, that
  NULL is no node and that no thread both pushes and pops; and `[][FreshOnly]_vars`,
  that `new` returns no node to which a thread refers. The second one is not what
  the code or its comment provides: the theorems say what an allocator would have to
  do, for instance with the hazard pointers that the comment mentions, and that this
  is enough): `QueueShape` is invariant, and `LinksAtEnd` follows. `LineInv` is the comment of the class.
  It is kept because of what the threads know. A successful compare-exchange on
  `next` means that the node is the last one: a node that has left the list keeps
  a link that is not null, as long as a thread has it (`LoadedInv`), and no
  unlinked node of another `Push` has been loaded (`OwnerInv`). A successful one
  on `head` means that the list has a second node and that `tail` is not behind:
  `head` with the same counter has not moved, so what `TryPop` read after it
  still holds (`PopKnows`). A late one on `tail` moves it to the next node or
  fails (`PushKnows`). `OwnerInv` gives `DeletedOnce`. `FifoRefinement`: the
  queue implements `FifoQueue`; `PushLink` appends, `PopCas` removes the first
  element, and the load of a null `next` with `head` unchanged sees no element.
* `TaskQueueProofs`: `OneOutcome` and `CurrentIsExecuting` are invariant, for any
  clients, scripts, workers, tasks and coroutines. The assumptions say how tasks
  and coroutines may be used, as the tests use them. `ScriptAssumption`: a task
  is submitted once and cancelled at most once, by the client that submits it and
  before that (a second `Cancel`, or one of a task that a worker has, does fail
  the asserts). `CoroutineAssumption`: a coroutine is driven by one other
  coroutine or by tasks, and of two tasks with the same coroutine one is
  submitted after a `Wait` for the other. `OneOutcome` is made inductive by
  `PlaceInv` (a task is in the queue once or with one worker) and `StatusInv`
  (its status and number of runs by where it is; a `Wait` has returned only for a
  finished task). `CurrentIsExecuting` needs `FramesInv`: the coroutines on a
  thread form a chain from the body of the worker's task along `Inner`, each with
  the previous one in `caller_coro`, and no coroutine is on two threads. The
  last part holds because a `Resume` meets a coroutine that is on no thread
  (`FreshBody`, which uses `StatusInv`: of two submitted tasks with this body one
  is finished; `FreshInner`, which uses that only one coroutine
  drives it). `Frames` counts the coroutine that is switching back, so `Suspend`
  and the end of a routine leave it as it is.

Only model-checked:

* liveness, since fairness and ENABLED are out of reach of the prover:
  `PlannedIsRun`, `DrainRunsAll`, the properties of the form "returns",
  "ends" or "is served" of every run.

Every invariant and every refinement that a passing run checks is proved.

## 5. Plan

Composition is left: the fiber primitives on the queues of `DistributedPool`
instead of the abstract `ready`; the pointers of `IntrusiveList` against
sequences.

## 6. Not modelled

The assembly stack switch, stack allocation and the sanitizer hooks
(`context/`): machine state below the level of the models; that a switch goes to
the saved context is what `Coroutine` assumes. `BasicFunction`: type erasure
without a protocol. The benchmarks other than that of the coroutine mutex, and
the examples, whose coroutine frames are exercises without shared state. Logging.
`PROJECT.json` gives the status of every component.
