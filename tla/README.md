# A verification development for pthreadpool

pthreadpool is a C library that runs a function over the items of a grid of one
to six dimensions on a pool of threads. This directory holds TLA+ models of its
core, the TLC configurations that check them on small instances, and proofs
that TLAPS checks for every value of the constants.

Paths below are relative to the repository.

## 1. The system

| part | state it keeps | operations | interacts with |
|---|---|---|---|
| interface, `src/portable-api.c` (28 functions `pthreadpool_parallelize_*`) | none of its own; the parameters of a call | decide between nested loops on the calling thread and an operation of the pool; compute the linear range; choose the thread function | calls `pthreadpool_parallelize` of a backend |
| thread functions, `src/portable-api.c`, `src/fastpath.c` (2 x 28) | `range_start`, `range_end`, `range_length` of each `thread_info` | drain the own range, then steal from the others | called by every thread of an operation; share the ranges without a lock |
| backend with futexes, `src/pthreads.c` | `command`, `active_threads`, `has_active_threads`, `execution_mutex`, the arguments and flags of the operation; in each worker the last command and its flags | `pthreadpool_create`, `pthreadpool_parallelize`, `pthreadpool_destroy`, `thread_main` | stores a command, wakes the workers, calls the thread function, waits for the check-in of all workers |
| backend with condition variables, same file | as above, with two mutexes and two condition variables instead of `has_active_threads` | the same | the same |
| Windows events, `src/windows.c` | as above, with two pairs of events | the same | the same |
| Grand Central Dispatch, `src/gcd.c` | a semaphore | `pthreadpool_parallelize` by `dispatch_apply` | the system's queues |
| no threads, `src/shim.c` | none | the nested loops | none |
| deprecated interface, `src/legacy-api.c` | a context on the stack | `pthreadpool_compute_*`: forwards, or linearizes three and four dimensions itself | the interface |
| atomics, helpers, memory: `src/threadpool-atomics.h`, `src/threadpool-utils.h`, `src/memory.c` | none | atomic decrements, `modulo_decrement`, `divide_round_up`, FPU state, allocation | used by all |

What is hard in this code:

* **Concurrency without locks.** The owner of a range takes items from its
  start, thieves take items from its end; `range_length` alone keeps them apart.
  The fast path decrements it without looking, below zero.
* **The handshake.** Two words, `command` and `has_active_threads`, are spun
  on and slept on. Workers may be late for a command, may answer before the
  caller has woken anybody, and may still be inside of `futex_wake_all` when the
  next operation has begun. The arguments are read without a lock. Each backend
  solves this with other means: futexes, condition variables next to spin loops
  that ignore their mutexes, or pairs of events used in turn.
* **Weakly ordered memory.** The arguments are stored relaxed and published by one
  release store; the results of all workers come back through one counter.
* **Failure.** Threads may fail to start; futex calls may end for no reason.
* **Arithmetic.** The linear range is a product, tiles round up, and a thread
  walks through its range with carries where a thief divides: 28 functions, by
  hand, twice.

What makes the parts correct:

* an operation calls the task once for each item of the nested loops that
  `include/pthreadpool.h` shows, and returns after the last of these calls;
* calls on one pool are serialized; workers see the arguments of the operation
  they work for, and nothing is stored while they do;
* no wakeup is lost: create, parallelize and destroy return;
* no thread reads a stale value of what another has stored for it;
* the pool is released only after its last use;
* flags are honoured: denormals are off while tasks run, and as before elsewhere.

## 2. The modules

| module | models | kind |
|---|---|---|
| `ParallelFor` | what `pthreadpool.h` promises of a call | abstract specification |
| `WorkRange` | the thread functions, the split of the linear range, the end of an operation | detailed specification |
| `WorkRangeProofs` | theorems about `WorkRange` | proofs |
| `ForkJoin` | what the handshake promises, whatever it is built from | abstract specification |
| `Atomics` | loads, stores and decrements with their memory orders | part of the handshakes |
| `FutexPool` | the backend with futexes | detailed specification |
| `FutexPoolProofs` | theorems about the control of `FutexPool` | proofs |
| `FutexMemoryProofs` | theorems about what its threads know of the memory | proofs |
| `CondvarPool` | the backend with condition variables | detailed specification |
| `CondvarPoolProofs` | theorems about `CondvarPool` and its memory | proofs |
| `EventPool` | the Windows backend | detailed specification |
| `EventPoolProofs` | theorems about `EventPool` and its memory | proofs |
| `GcdPool` | the backend for Grand Central Dispatch | detailed specification |
| `GcdPoolProofs` | theorems about `GcdPool` | proofs |
| `TaskIndex` | the 28 functions, the deprecated ones and the build without threads: how a linear index becomes the arguments of a task | detailed specification |
| `TaskIndexProofs` | theorems about `TaskIndex` | proofs |
| `MCWorkRange`, `MCFutexPool`, `MCTaskIndex` | definitions that only TLC needs | model checking |

How they fit together. `FutexPool` has the steps `Enter`/`Leave` and
`WorkerEnter`/`WorkerLeave` around the thread function and shows that every
thread of the pool runs it exactly once for an operation, with that operation's
arguments, while nothing is stored. This is what `WorkRange` assumes when its
`Publish` lets every thread enter and its `Return` waits for all. `CondvarPool`
and `EventPool` are shown to implement the same `ForkJoin`; `GcdPool`, where
one thread may run the thread function for several indices one after the other,
is shown to be a `ParallelFor` over the indices of the threads. That is an
interleaving `WorkRange` has, too: nothing there makes a thread start early.
`WorkRange` shows that every linear index is taken exactly once, and `TaskIndex`
that a linear index stands for one and the same item of the nested loops,
whichever thread takes it and however it arrives there.

### WorkRange

Variables `range_start`, `range_end`, `range_length` are the fields of
`struct thread_info`; `cursor`, `victim` and `index` are the locals
`range_start`, `tid` and `index` of the thread functions; `linear_range`, `tid`
and `next_start` belong to `pthreadpool_parallelize`. `pc` tells where a thread
is. `calls` is a history variable: how often the task was called with an index.

| action | code |
|---|---|
| `Parallelize` | guard, threshold and call in `pthreadpool_parallelize_1d` |
| `SpreadWork` | one iteration of the loop in `pthreadpool_parallelize` that spreads the work |
| `Publish` | the command becomes visible |
| `Enter` | load of `range_start` |
| `OwnClaim`, `OwnTask`, `OwnEmpty` | the owner's loop: a decrement that finds an item, the call, a decrement that does not |
| `StealClaim`, `StealIndex`, `StealTask`, `StealEmpty` | the stealing loop: decrement of `range_length`, decrement of `range_end`, the call, the end of the victim's range |
| `Return` | all threads have left the thread function |

Sizes are numbers modulo `M`. `fastpath` is chosen by the range as the interface
does, so that a run with `USE_FASTPATH` also takes the other path for ranges at
or above the threshold `M - N`. A compare-and-swap loop is one step. The fields
of a range are atomic and accessed relaxed: each has one order of its values for
all threads, and a claim on `range_length` carries no knowledge about
`range_end`; `StealIndex` decrements `range_end` itself, in that field's own order.
Up to the last line each thread function has the same
control; what they do with an index is the business of `TaskIndex`.

### FutexPool

`pool` is the stage of the pool's life as its user knows it; `command`,
`active_threads`, `has_active_threads`, `execution_mutex` and `flags` are the
fields. `arguments` and `params` record whose values the fields
`thread_function`, `task`, `argument` and `params` with the ranges hold. The
command is a record of the operation and the bit that `~(old | MASK)` flips.
`last_command` and `local_flags` are locals of `thread_main`;
`last_command` is advanced when the worker sees a command, where
the code does it after the check-in: nothing reads it in between.
`denormals` and `saved_denormals` are the FPU state and its saved copy.

Labels of `pc` are the places between accesses to shared fields. The stores
before the command are in the order of the code, grouped by what readers can
tell apart. `WakeAll` returns every sleeper on one word to its loop; sleeping
compares the word in the same step, which is what the kernel does.
`SpuriousWakeup` is the kernel's freedom to end a wait. `SpawnFails` is the
failure of `pthread_create` that `pthreadpool_create` does not notice. Users
keep the documented rule that nobody uses the pool before it is created or
while and after it is destroyed.

A spin loop of many iterations is one further load: more loads of an unchanged
word change nothing, and a changed word may be seen by any of them.

### Atomics: the memory of the handshakes

A thread *knows* a datum when a load is bound to return what was stored last. A
relaxed store takes this knowledge from all other threads. A location that is
stored with release *carries* what its storer knew, and a load of it with
acquire passes that on; a relaxed store to the location carries nothing; a
decrement adds what the decrementing thread knows to what the location carries
already (a read-modify-write continues the release sequence). Creating and
joining a thread, and what the user does before `pthreadpool_destroy`,
synchronize. Data are the arguments of an operation, the store of the
counters, and for each worker what its tasks have stored. The fences of the code
(`pthreadpool_fence_acquire` after a load, `pthreadpool_fence_release` before
the release store of the command) add nothing to the accesses they stand next
to, except after `wait_for_new_command` of `src/windows.c`, where the last load is
relaxed and the fence makes an acquire of it.

`NothingStaleIsRead` of each backend says that whoever is about to read
knows. What this memory leaves out: a load of the location itself always
returns its last value (a late value is a late load), and there is one
location per field, not per byte.

### CondvarPool

The same fields and labels as `FutexPool`, with `completion_mutex` and
`command_mutex` for the futex word. A call of a mutex or condition variable is
an action; `pthread_cond_wait` gives the mutex away and sleeps in one step,
as POSIX has it, and has to get the mutex again (`relock`) when it is woken, by
`Signal`, by `Broadcast` or for no reason (`SpuriousWakeup`). `AllCheckedIn`
and `SeeCommand` are the loads without the mutex. `StoreActive` holds
`command_mutex` but not `completion_mutex`, whose loop in `wait_worker_threads`
reads the counter: `ActiveThreadsCountsOwers` and `NoLostWakeup` say that this
does no harm. The FPU and failing thread creation are the same code as in
`FutexPool` and are left to it.

### EventPool

`completion_event` and `command_event` say which of the manual-reset events
are set; `event_index` is the local of `pthreadpool_parallelize`. A wait for an
event that is set ends at once (`WaitForCommand`, `WaitForCompletion`);
`SetCommandEvent` and `SetCompletionEvent` end the waits of all who wait for
that event. The code goes on after a wait without looking again, and asserts
that it may: `WaitsEndForAReason` states these assertions.
`EventsOfTheNextOperation` says why they hold: between operations the events
of the next one are reset, and the only late `SetEvent` is of the other
completion event.

### GcdPool

The pool has no threads. `Dispatch` gives `dispatch_apply_f` all indices;
the caller and the threads of libdispatch take one pending index after the
other (`Begin`, `Enter`, `Leave`), in any order and by any of them, and
`AllApplied` is its return. `served` is a history variable: for which operation
an index was last applied.

### TaskIndex

One behaviour is one call. `function` names one of the 28 functions by its
dimensions, its tiled dimensions (always the last), and whether the task gets
the microarchitecture and the thread number, or one of the six deprecated
functions; `build` is the library it is compiled into: with or without
`fastpath.c`, or `shim.c` in its place. Each `pthreadpool_parallelize_*`
is an action with the guard of its sequential path; each
`thread_parallelize_*` is an action that divides a linear index as the code
does, divisor for divisor. The functions of `fastpath.c` differ from those only
in the claim, which is in `WorkRange`; they are taken when the linear range is
below the threshold (`UsesFastpath`), for which `pthreadpool_parallelize_1d_tile_1d`
alone compares its range in items, not in tiles (`ComparedRange`). `WalkOn` is the walk with carries through a thread's
own range, `LoopOn` the nested loops of the sequential path. The action of a
thread function takes any index of the linear range, because `WorkRange` lets
any thread get any index. `position` is the start of the item in each
dimension, `TileLength` the length of its tile there, `min(range - start, tile)`.

`denormals` is the FPU of the calling thread, and a caller may keep denormals
disabled itself (`CallerFpus`). The sequential path saves its state in
`saved_denormals` and disables denormals if the flags ask for it, and sets the saved
state again under the same condition (`DisableDenormals`, `RestoreDenormals`).
What the threads of a pool do with theirs is in `FutexPool` and `GcdPool`.
`caller_denormals`, a history variable, is the state that the call began with.

The deprecated functions of one and two dimensions forward the call
(`Forward`); those of three and four run loops of their own or parallelize a
linear range in one dimension (`Linearize`), and their task divides every index it
gets (`compute_3d_tiled`, `compute_4d_tiled`), in a walk, too. The shim has the loops
only: the functions of each dimension differ in what `range`, `tile` and
`function` say, so one action stands for them. It ignores the flags.

An operation with a linear range of zero makes divisors of its ranges of zero, and its
threads divide the (zero) start of their ranges by them before they find that
there is no item. FXdiv is not part of this repository; what it does with a divisor of
zero is not modelled, and such a call has no division in the model.

## 3. The runs

| run | instance | what it shows |
|---|---|---|
| `work_range_fair` | 2 threads, `M = 8`, fair | types; every operation returns; `WorkRange` implements `ParallelFor`, with its fairness |
| `work_range_fastpath` | 3 threads, `M = 8` | each item at most once, all items at the end, nobody leaves while work is left, wrapped counters stay above the threshold, and are not met off the fast path |
| `work_range_length` | 2 threads, `M = 8` | the documented bound of `range_length` is violated by the fast path |
| `futex_safety` | 2 workers, 2 callers, symmetric | eight safety properties, with failing thread creation and spurious wakeups |
| `futex_liveness` | 2 workers, 1 caller, fair | an operation returns; `FutexPool` implements `ForkJoin`, with its fairness: create, parallelize and destroy end |
| `futex_create` | the same, threads may fail to start | `pthreadpool_create` may wait for ever |
| `condvar` | 2 workers, 1 caller, fair | counter, wakeups, memory; `CondvarPool` implements `ForkJoin`, with its fairness |
| `events` | 2 workers, 2 callers, fair | waits, wakeups, events, memory; `EventPool` implements `ForkJoin`, with its fairness |
| `gcd` | 2 callers, 2 threads of libdispatch, 4 indices, fair | serialization, FPU states; `GcdPool` implements `ParallelFor`, with its fairness |
| `task_index` | all functions, three builds, ranges 1 and 3, tiles 1, 2, 3, microarchitectures 0 and 1, callers with and without denormals | divisions, walks and loops agree, tile lengths included; the number of linear indices is the number of items; identifiers in the bounds the caller gave; the sequential path disables denormals if the flags say so, and the caller finds its own FPU state after the call |
| `task_index_edge` | up to two dimensions, `M = 16`, ranges 0, 1, 2, 7, 14, tiles 4, 5 | types, items and their number at the limits of `size_t`, and the loops end |
| `task_index_assert` | up to two dimensions, ranges 0, 1, 2 | `assert(linear_range > 1)` fails for a range of zero next to one of two |

Bounds, and why they are enough:

* *WorkRange.* Three threads are an owner and two thieves that race with each
  other and with the owner; with `M = 8` ranges go from fewer items than threads
  over uneven splits to ranges above the threshold (5), so that both ways of
  claiming occur, one after the other, and three wrapped decrements of one counter
  fill the whole gap above the threshold. Any number of
  operations follow each other, on the ranges the previous one left behind.
  Beyond these bounds there are the proofs.
* *FutexPool.* With two workers one can be ahead of and one behind the caller.
  Two callers compete for the mutex, and any number of operations follow each
  other; the model has no counter to bound except `ran`, which the properties
  keep at one. The command word is the one bit that flips. The symmetry is that
  of the workers and of the callers; the run checks no liveness. Beyond two workers and
  two callers there are the proofs.
* *CondvarPool.* Two workers, because the last one signals and the others do not.
  One caller: what a second one adds, waiting for `execution_mutex`, is
  the code that `FutexPool` and `EventPool` check with two, and no other thread
  touches the two mutexes of the handshake then. Any number of operations.
* *EventPool.* Two workers and two callers: events alternate from operation to
  operation, whoever calls, and a worker may be one `SetEvent` behind.
* *GcdPool.* Four indices and three threads that may take them: every thread may
  get several, and the caller all. Two callers with different flags; one of
  them keeps denormals disabled itself.
* *TaskIndex.* A range of 1 and one of 3 in each dimension separates the
  dimensions; tiles of 1, 2 and 3 have no, a partial and exactly one tile in a
  range of 3. `M = 1024` is larger than 3^6, so nothing wraps there. In
  `task_index_edge` ranges and tiles reach `M`; the properties are stated for
  calls whose number of items and rounded up ranges are representable
  (`Representable`), which is what the code needs, and with two threads the
  threshold of the fast path is met as well. `linear`, a history variable,
  is not counted beyond `M`. With two
  microarchitectures the one a thread runs on is at, above and below the bound in the call;
  the two other runs fix it and the caller's FPU, on which items do not depend.

`CHECK_DEADLOCK FALSE` is given where the system may stop: a released pool, a
call that has returned.

Fairness. Each thread is scheduled as long as it can take a step (weak fairness
for each thread), as preemptive operating systems do. In `CondvarPool` the
mutexes of the handshake are obtained by a thread that finds them free again and
again (strong fairness of a worker's steps and of the caller's two lock
operations): a sleeping worker that is woken for no reason again and again takes
`command_mutex` each time, and a mutex that never let the caller in would stop the
pool; no implementation of POSIX mutexes excludes that formally, all are built
not to do it. Nothing is assumed of the user, of the outcome of
`pthread_create`, of spurious wakeups, of the threads of libdispatch before they
take an index, or of which caller
gets `execution_mutex`; so an operation is shown to end once it has the mutex, and a
caller may be overtaken for ever, as `pthread_mutex_lock` allows.

## 4. The proofs

`WorkRangeProofs` proves of `WorkRange`, for every number of threads `N > 1`,
every `M > N`, with and without the fast path, and for any number of
operations:

| theorem | statement |
|---|---|
| `TypeCorrect` | `Spec => []TypeOK` |
| `AtMostOnce` | `Spec => []EachItemAtMostOnce` |
| `NothingIsLost` | `Spec => []AllItemsProcessed` |
| `NoWorkLeftBehind` | `Spec => []LeavesNoWorkBehind` |
| `WrapIsBounded` | `Spec => []WrapStaysAboveThreshold` |
| `PortableBoundHolds` | `Spec => []PortableLengthWithinBounds` |
| `ImplementsParallelFor` | `Spec => Loop!Spec`, safety of the refinement |

None of these is inductive by itself: that an item is not processed twice
depends on who holds claims on which range. The inductive invariant `IInv` of the
module says, for the range of each thread, that the items from its start to the
owner's cursor and those from its present end to its original end have been
claimed, that the unclaimed ones lie between, and that their number plus the
claims that thieves hold without an index is the distance between cursor and
end (`TokenInv`); that the processed items are the claimed ones less those held
by threads about to call the task (`CallsInv`, `VictimInv`); and that a wrapped
counter has been decremented once by each thread that has passed it
(`EmptyInv`). The last part is what bounds the wrap: each thread makes one
failing attempt on each range in one operation. Off the fast path the attempts fail
at zero, and `TokenInv` is the documented bound. `SplitInv` says that the ranges
cut the linear range into consecutive pieces.

The assumptions are those of the module: `ThreadsAssumption`, `SizeAssumption`
(the threads fit below the threshold) and `FastpathAssumption`.

`FutexPoolProofs` proves of `FutexPool`, for every finite set of workers, every
set of callers and every combination of flags, with spurious wakeups and with
threads that may fail to start:

| theorem | statement |
|---|---|
| `PoolTypeCorrect` | `Spec => []PoolTypeOK`, the types without the memory |
| `CounterCountsOwers` | `Spec => []ActiveThreadsCountsOwers` |
| `OperationsReturnWhenDone` | `Spec => []NoEarlyReturn` |
| `WorkersWorkOnTheOperation` | `Spec => []WorkersSeeTheOperation` |
| `DenormalsAreRight` | `Spec => []DenormalsFollowTheOperation` |
| `WakeupsAreNotLost` | `Spec => []NoLostWakeup` |
| `ReleasedPoolsAreUnused` | `Spec => []ReleasedOnlyWhenUnused` |
| `StoresAreExclusive` | `Spec => NoStoreWhileBusy` |
| `ImplementsForkJoin` | `Spec => Handshake!Spec`, safety of the refinement |

The invariant `IInv` is the conjunction of what each party may rely on.
`LeaderInv`: at most one caller leads (creates, holds the mutex, or destroys),
and where it can be. `CountInv`, the heart: a worker *owes* an answer from the
store of a command to its check-in; outside of the leader's preparation
`active_threads` is the number of workers that owe one, and the futex word is
zero if and only if none does and nobody is about to clear it; during the
preparation and between operations all workers are at rest. `WorkerInv` and
`CommandInv` say that a busy worker is busy with the last command, so that the
store of a new one, which differs from it, makes all workers owe at once.
`OperationInv` follows the leader's stores and says which workers have run;
`FpuInv` relates each FPU state to its saved copy. The properties follow from
it: a caller that finds the word clear finds everybody at rest. The refinement
takes the leader's store of the command for the beginning of an operation and
the load that finds the word clear for its end; most other steps are invisible.

`FutexMemoryProofs` adds the memory to it:

| theorem | statement |
|---|---|
| `MemoryInvariant` | `Spec => []MemInv` |
| `TypeCorrect` | `Spec => []TypeOK` |
| `NothingIsStale` | `Spec => []NothingStaleIsRead` |

`MemInv` has four parts. `CallersKnow`: the leader knows everything between the
end of the wait and its store of the next command. `CommandCarries`: once a
command is stored, its location carries the arguments and the counters, so a
worker that has seen it knows them. `CountersCarry`: the counter carries what
the workers that have checked in have stored, each decrement adding to the
last, and once the futex word is clear it carries what all of them have. The
invariant of the control, `IInv`, is what makes these inductive: no store takes the
knowledge away in between because nobody stores while a worker is busy.

`ReleasedPoolsAreUnused` is proved and not part of a run: its statement stands in
`FutexPoolProofs`. It goes through `pthread_join` of every thread, and follows
from `LeaderInv` and `WorkerInv`.

The assumptions are `DataAssumption` (a worker is not one of the two names of
data), `WorkersAssumption` (at least one worker: with one thread
the code creates none and never uses the handshake), `CallersAssumption` and
`CreateAssumption`. Those of the two other handshakes are the same three.

`CondvarPoolProofs` proves of `CondvarPool`, for every finite set of workers and
every set of callers, with spurious wakeups:

| theorem | statement |
|---|---|
| `InductiveInvariant` | `Spec => []IInv` |
| `CounterCountsOwers` | `Spec => []ActiveThreadsCountsOwers` |
| `WakeupsAreNotLost` | `Spec => []NoLostWakeup` |
| `ImplementsForkJoin` | `Spec => Handshake!Spec`, safety of the refinement |
| `MemoryInvariant` | `Spec => []MemInv` |
| `TypeCorrect` | `Spec => []TypeOK` |
| `NothingIsStale` | `Spec => []NothingStaleIsRead` |

`LeaderInv`, `CommandInv`, `WorkerInv`, `CountInv` and `OperationInv` are those of
the futexes for the labels of this backend. New are two: `MutexInv` says
that a mutex of the handshake is held by exactly the thread that stands between
the call that locks it and the one that unlocks it (every action leaves each
mutex alone, takes it or gives it away, `CompletionHandled` and
`CommandHandled`); and `WakeupInv` says that what a thread has checked under a
mutex is still true when it goes to sleep, and that from then on a change has
somebody who will signal. For a worker this is so because a command is stored only
under `command_mutex`. For the caller it is so although the counter is
decremented and stored without regard to its loop: `StoreActive` happens when
nobody waits, and the decrement is made under `completion_mutex`. In the memory part the mutexes of
the handshake carry nothing: the command and the counter carry all that
is needed (`CommandCarries`, `CounterCarries`), so the spin loops, which take no
mutex, are as good as the sleeping ones. `execution_mutex` takes what one
leader knows to the next (`CallersKnow`).

`EventPoolProofs` proves of `EventPool`, for every finite set of workers and every
set of callers:

| theorem | statement |
|---|---|
| `InductiveInvariant` | `Spec => []IInv` |
| `WaitsEndRightly` | `Spec => []WaitsEndForAReason` |
| `WakeupsAreNotLost` | `Spec => []NoLostWakeup` |
| `EventsAreReset` | `Spec => []EventsOfTheNextOperation` |
| `ImplementsForkJoin` | `Spec => Handshake!Spec`, safety of the refinement |
| `MemoryInvariant` | `Spec => []MemInv` |
| `TypeCorrect` | `Spec => []TypeOK` |
| `NothingIsStale` | `Spec => []NothingStaleIsRead` |

`EventsOfTheNextOperation` is not inductive. What it rests on is which bit of the
command everybody stands at (`BitInv`): a worker that has not seen the present
command is exactly one behind, and the caller's `event_index` is that bit. Then
`CommandEventInv`: the event at which the workers will wait next is not set, and
that of the present command is set or about to be, as long as somebody has not
seen it. And `CompletionEventInv`: the event of the present operation is set, or
about to be by the last worker, if and only if all have checked in; the
one of the next operation is not set before the next operation begins. A caller
that spins returns without the event, so the last worker may be late with its
`SetEvent`, even by one command; but not by two, because it has to check in for
the next command first, and that command's caller resets the event after that.

`GcdPoolProofs` proves of `GcdPool`, for every number of threads `N > 1`, every
set of callers, of threads of libdispatch, and of threads that keep denormals
disabled themselves:

| theorem | statement |
|---|---|
| `InductiveInvariant` | `Spec => []IInv` |
| `TypeCorrect` | `Spec => []TypeOK` |
| `DenormalsAreRight` | `Spec => []DenormalsFollowTheOperation` |
| `ImplementsParallelFor` | `Spec => Loop!Spec`, safety of the refinement |

`SemaphoreInv`: the semaphore is zero if and only if a caller executes, and then
one does. `IndexInv`: an index is pending, with one thread, or served for the
present caller. `OperationInv`: threads are busy only for a caller that waits in
`dispatch_apply_f`, with what that caller has stored. `FpuInv`: between two indices
the FPU of each thread is as its user left it.

`TaskIndexProofs` proves of `TaskIndex`, for every `M > 1`, all ranges and tiles
below it, every function of the interface, build, number of threads and caller's
FPU state:

| theorem | statement |
|---|---|
| `Invariance` | `Spec => []IInv` |
| `TypeCorrect` | `Spec => []TypeOK` |
| `ItemsRight` | `Spec => []ItemIsTheLoops` |
| `NothingLeftOut` | `Spec => []NothingIsLeftOut` |
| `IdsRight` | `Spec => []IdsAreExpected` |
| `DenormalsRight` | `Spec => []SequentialDenormals` |
| `NoDivisionByZero` | `Spec => []DivisorsAreNotZero` |

The arithmetic comes first, as lemmas. `StepsOfALoop`: a loop in steps of a tile
has as many rounds as `divide_round_up` says. `ItemsFromSteps` and
`LinearRangeCounts`: the number of items of the loops from a dimension inwards
is the product of those rounds, and the linear range is that product modulo `M`.
The two recursive functions are unrolled, there being at most six dimensions, so
no induction is needed. `Digits` and `TwoDigits`: what division by one
range, by several one after the other, or by the product of two gives is the
same number of a tile, `Digit(x, d)`. `NextDigit` and `CarryIsNext`: adding one
to `x` carries from a dimension to the next outer one exactly as the increments of
the walks and of the loops do, and `EndsOfTiles` that their tests for the end of
a range, one by `==` and one by `>=`, are then both right. `TasksDivide`: each of
the divisions, with its own choice of divisors, gives `Digit(x, d)`.
`Divisors`: a thread divides by a product of ranges that may have wrapped; it is
not zero, because the linear range, which is a multiple of it modulo `M`, is not.
`DivisorsAreNotZero` states this in `TaskIndexProofs` and is not part of a run.

The invariant `IInv` has these parts besides `TypeOK` and `IdsAreExpected`. `CallInv`:
what a caller cannot have done (a plain dimension has tile 1, a deprecated function
no flags). `RangeInv`: the linear range is the product modulo `M`, and the linear
index of an item is below it; in the loops, below the number of items.
`ItemInv` is the first half of `ItemIsTheLoops`. `FpuInv`: while the loops run with
denormals disabled for the flags, what is saved is the caller's state, and at any
other time that state is in effect; without the saved copy in it
`SequentialDenormals` is not inductive (`FpuSaved`, `FpuKept`, `FpuRestored`).
`CallSteps` to `DivideSteps` say what the hundred actions have in common: to begin
the loops, to start an operation, to forward, to divide. `TypeCorrect` holds also
where the number of items is not a `size_t`; the agreement of the items needs
`Representable`, without which the linear range has lost items.

Only model-checked: liveness under fairness, which is out of the prover's reach
(`CallReturns` of `TaskIndex` among it).

## 5. What the models found

* `src/threadpool-object.h:57` states a bound of `range_length` that the fast
  path does not keep (`work_range_length`). Nothing depends on it.
* `pthreadpool_create` ignores the result of `pthread_create` and then waits for
  a worker that does not exist, where the header promises NULL (`futex_create`).
* A range of zero in one dimension with more than one item in another passes the
  guard of the sequential path, and the assertion at `src/pthreads.c:307` fails
  (`task_index_assert`). Without assertions the call
  of the model returns with no task called, as it should, provided that FXdiv
  accepts a divisor of zero.

## 6. What is not modelled, and the plan

Done: the modules above, in the order of their importance for users of the
library: work stealing, the handshake with futexes and its memory, index
arithmetic, then the other backends and builds; with proofs about each of the
detailed specifications.

Next: a composition of `FutexPool` with `WorkRange` against `ParallelFor`. The two
meet in `Enter` and `Leave` only, and what each assumes of the other is
stated and proved (`WorkersSeeTheOperation`, `NoStoreWhileBusy`,
`ImplementsForkJoin`), so a joint state space, thousands of times larger,
adds least.

Not modelled: the C++ templates of the header (they pass a callable through the
argument pointer); instruction-level code for the FPU and for spinning;
the fallbacks of `src/threadpool-atomics.h` for compilers without C11 atomics
(among them a release store that is a plain volatile store, line 318); alignment of
memory and failing allocation (`pthreadpool_create` returns NULL before anything
else happens); failing creation of mutexes, condition variables and events, and
failing threads in the backends other than that with futexes; build files, tests, benchmarks and the
example.
