----------------------------- MODULE FutexPool -----------------------------
(***************************************************************************)
(* pthreads.c, the backend with futexes (Linux and Emscripten): the        *)
(* handshake between the threads that call pthreadpool_create,             *)
(* pthreadpool_parallelize and pthreadpool_destroy and the workers they    *)
(* command.                                                                *)
(*                                                                         *)
(* Atomicity: one action per atomic access to a shared field, per futex    *)
(* call and per call of the thread function.  The stores of the arguments  *)
(* are grouped by what their readers can tell apart.  A futex call         *)
(* compares the word and falls asleep in one step.  What the thread        *)
(* function does is the business of module WorkRange.  Memory is that of   *)
(* module Atomics.                                                         *)
(***************************************************************************)
EXTENDS Integers, FiniteSets

CONSTANTS
  Workers,          \* threads[1] ... threads[threads_count - 1]
  Callers,          \* the threads of the user
  Nobody,           \* no thread
  NoDenormals,      \* the threads whose user keeps denormals disabled
  CREATE_MAY_FAIL   \* whether pthread_create may fail

Threads == Workers \cup Callers

ASSUME WorkersAssumption == IsFiniteSet(Workers) /\ Workers # {}
ASSUME CallersAssumption == Callers \cap Workers = {} /\ Nobody \notin Threads
ASSUME CreateAssumption == CREATE_MAY_FAIL \in BOOLEAN
ASSUME DataAssumption == {"operation", "count"} \cap Workers = {}

VARIABLES
  pool,               \* how far the life of the pool has got
  \* the fields of struct pthreadpool
  command, active_threads, has_active_threads, execution_mutex,
  arguments,          \* thread_function, task and argument: whose they are
  params,             \* params and the ranges of the threads: whose they are
  flags,
  \* the threads
  pc,
  last_command,       \* of each worker
  local_flags,        \* of each thread: the flags it works under
  denormals,          \* of each thread: its FPU handles denormals
  saved_denormals,    \* of each thread: its saved_fpu_state
  ran,                \* history: how often a worker ran in this operation
  \* the memory
  knows, carries

fields == <<command, active_threads, has_active_threads, execution_mutex,
            arguments, params, flags>>
fpu == <<denormals, saved_denormals>>
memory == <<knows, carries>>
vars == <<pool, fields, pc, last_command, local_flags, fpu, ran, memory>>

Locations == {"command", "active_threads", "has_active_threads", "execution_mutex"}

(* The arguments, parameters and flags of an operation, the stores of the    *)
(* two words its end is counted by, and for each worker what its tasks have  *)
(* stored.                                                                   *)
Data == {"operation", "count"} \cup Workers

INSTANCE Atomics

Flag == {"DISABLE_DENORMALS", "YIELD_WORKERS"}

-----------------------------------------------------------------------------
(* The command word: an operation in the low bits, and above it bits that *)
(* every new operation flips.                                             *)
InitCommand == [op |-> "init", flip |-> FALSE]
ShutdownCommand == [op |-> "shutdown", flip |-> FALSE]
(* Mutant: the command of an operation is always the same. *)
NewCommandSame(old) == [op |-> "parallelize", flip |-> TRUE]

NewCommand(old) == [op |-> "parallelize", flip |-> ~old.flip]

Goto(t, label) == pc' = [pc EXCEPT ![t] = label]

(* futex_wake_all: every thread asleep on the word returns from its call. *)
WakeAll(S, t, label) ==
  pc' = [s \in Threads |->
           IF s = t THEN label
           ELSE IF s \in S /\ pc[s] = "asleep" THEN "reload" ELSE pc[s]]

(* Before the thread function a thread saves its FPU state and disables *)
(* denormals, if it is told to, and after it restores the state.        *)
(* Mutant: the state is saved after denormals have been disabled. *)
SetFpuTooEarly(t) ==
  IF "DISABLE_DENORMALS" \in local_flags[t]
  THEN /\ saved_denormals' = [saved_denormals EXCEPT ![t] = FALSE]
       /\ denormals' = [denormals EXCEPT ![t] = FALSE]
  ELSE UNCHANGED fpu

SetFpu(t) ==
  IF "DISABLE_DENORMALS" \in local_flags[t]
  THEN /\ saved_denormals' = [saved_denormals EXCEPT ![t] = denormals[t]]
       /\ denormals' = [denormals EXCEPT ![t] = FALSE]
  ELSE UNCHANGED fpu

RestoreFpu(t) ==
  /\ denormals' = IF "DISABLE_DENORMALS" \in local_flags[t]
                  THEN [denormals EXCEPT ![t] = saved_denormals[t]]
                  ELSE denormals
  /\ UNCHANGED saved_denormals

-----------------------------------------------------------------------------
(* pthreadpool_create, by one of the callers. *)
Init ==
  /\ pool = "creating"
  /\ command = InitCommand
  /\ active_threads = Cardinality(Workers)
  /\ has_active_threads = 1
  /\ execution_mutex = Nobody
  /\ arguments = Nobody
  /\ params = Nobody
  /\ flags = {}
  /\ \E creator \in Callers :
       pc = [t \in Threads |-> IF t \in Workers THEN "unborn"
                               ELSE IF t = creator THEN "spawn" ELSE "idle"]
  /\ last_command = [w \in Workers |-> InitCommand]
  /\ local_flags = [t \in Threads |-> {}]
  /\ denormals = [t \in Threads |-> t \notin NoDenormals]
  /\ saved_denormals = [t \in Threads |-> FALSE]
  /\ ran = [w \in Workers |-> 0]
  /\ MemoryInit(Callers)

(* pthread_create starts a worker, ... *)
Spawn(c, w) ==
  /\ pc[c] = "spawn"
  /\ pc[w] = "unborn"
  /\ Goto(w, "checkin")
  /\ synchronize(w, {c})
  /\ UNCHANGED <<pool, fields, last_command, local_flags, fpu, ran>>

(* ... or fails, which pthreadpool_create does not notice. *)
SpawnFails(c, w) ==
  /\ CREATE_MAY_FAIL
  /\ pc[c] = "spawn"
  /\ pc[w] = "unborn"
  /\ Goto(w, "missing")
  /\ UNCHANGED <<pool, fields, last_command, local_flags, fpu, ran, memory>>

AllSpawned(c) ==
  /\ pc[c] = "spawn"
  /\ \A w \in Workers : pc[w] # "unborn"
  /\ Goto(c, "wait")
  /\ UNCHANGED <<pool, fields, last_command, local_flags, fpu, ran, memory>>

-----------------------------------------------------------------------------
(* pthreadpool_parallelize. *)

Parallelize(c, requested) ==
  /\ pool = "ready"
  /\ pc[c] = "idle"
  /\ local_flags' = [local_flags EXCEPT ![c] = requested]
  /\ Goto(c, "lock")
  /\ UNCHANGED <<pool, fields, last_command, fpu, ran, memory>>

(* Mutant: calls are not serialized. *)
LockAnyway(c) ==
  /\ pc[c] = "lock"
  /\ execution_mutex' = c
  /\ ran' = [w \in Workers |-> 0]
  /\ Goto(c, "store_arguments")
  /\ load_acquire(c, "execution_mutex")
  /\ UNCHANGED <<pool, command, active_threads, has_active_threads, arguments,
                 params, flags, last_command, local_flags, fpu>>

Lock(c) ==
  /\ pc[c] = "lock"
  /\ execution_mutex = Nobody
  /\ execution_mutex' = c
  /\ ran' = [w \in Workers |-> 0]
  /\ Goto(c, "store_arguments")
  /\ load_acquire(c, "execution_mutex")
  /\ UNCHANGED <<pool, command, active_threads, has_active_threads, arguments,
                 params, flags, last_command, local_flags, fpu>>

StoreArguments(c) ==
  /\ pc[c] = "store_arguments"
  /\ arguments' = c
  /\ flags' = local_flags[c]
  /\ Goto(c, "store_active")
  /\ store_relaxed(c, {"operation"})
  /\ UNCHANGED <<pool, command, active_threads, has_active_threads, execution_mutex,
                 params, last_command, local_flags, fpu, ran>>

(* Mutant: the caller is subtracted twice. *)
StoreActiveOneLess(c) ==
  /\ pc[c] = "store_active"
  /\ active_threads' = Cardinality(Workers) - 1
  /\ Goto(c, "store_has_active")
  /\ store_relaxed_at(c, "active_threads", "count")
  /\ UNCHANGED <<pool, command, has_active_threads, execution_mutex, arguments,
                 params, flags, last_command, local_flags, fpu, ran>>

(* These two stores are also the first of pthreadpool_destroy. *)
StoreActive(c) ==
  /\ pc[c] = "store_active"
  /\ active_threads' = Cardinality(Workers)
  /\ Goto(c, "store_has_active")
  /\ store_relaxed_at(c, "active_threads", "count")
  /\ UNCHANGED <<pool, command, has_active_threads, execution_mutex, arguments,
                 params, flags, last_command, local_flags, fpu, ran>>

(* Mutant: the futex word is not set again for the next operation. *)
StoreHasActiveForgotten(c) ==
  /\ pc[c] = "store_has_active"
  /\ Goto(c, IF pool = "ready" THEN "store_params" ELSE "store_shutdown")
  /\ UNCHANGED <<pool, fields, last_command, local_flags, fpu, ran, memory>>

StoreHasActive(c) ==
  /\ pc[c] = "store_has_active"
  /\ has_active_threads' = 1
  /\ Goto(c, IF pool = "ready" THEN "store_params" ELSE "store_shutdown")
  /\ store_relaxed_at(c, "has_active_threads", "count")
  /\ UNCHANGED <<pool, command, active_threads, execution_mutex, arguments,
                 params, flags, last_command, local_flags, fpu, ran>>

StoreParams(c) ==
  /\ pc[c] = "store_params"
  /\ params' = c
  /\ Goto(c, "store_command")
  /\ store_relaxed(c, {"operation"})
  /\ UNCHANGED <<pool, command, active_threads, has_active_threads, execution_mutex,
                 arguments, flags, last_command, local_flags, fpu, ran>>

StoreCommand(c) ==
  /\ \/ /\ pc[c] = "store_command"
        /\ command' = NewCommand(command)
     \/ /\ pc[c] = "store_shutdown"
        /\ command' = ShutdownCommand
  /\ Goto(c, "wake")
  /\ store_release(c, "command")
  /\ UNCHANGED <<pool, active_threads, has_active_threads, execution_mutex, arguments,
                 params, flags, last_command, local_flags, fpu, ran>>

(* Mutant: only one worker is woken. *)
WakeOne(c) ==
  /\ pc[c] = "wake"
  /\ \E w \in Workers : WakeAll({w}, c, IF pool = "ready" THEN "enter" ELSE "join")
  /\ UNCHANGED <<pool, fields, last_command, local_flags, fpu, ran, memory>>

Wake(c) ==
  /\ pc[c] = "wake"
  /\ WakeAll(Workers, c, IF pool = "ready" THEN "enter" ELSE "join")
  /\ UNCHANGED <<pool, fields, last_command, local_flags, fpu, ran, memory>>

(* The caller is worker #0 of the operation. *)
Enter(c) ==
  /\ pc[c] = "enter"
  /\ SetFpu(c)
  /\ Goto(c, "run")
  /\ UNCHANGED <<pool, fields, last_command, local_flags, ran, memory>>

Leave(c) ==
  /\ pc[c] = "run"
  /\ RestoreFpu(c)
  /\ Goto(c, "wait")
  /\ UNCHANGED <<pool, fields, last_command, local_flags, ran, memory>>

Unlock(c) ==
  /\ pc[c] = "unlock"
  /\ execution_mutex' = Nobody
  /\ Goto(c, "idle")
  /\ store_release(c, "execution_mutex")
  /\ UNCHANGED <<pool, command, active_threads, has_active_threads, arguments,
                 params, flags, last_command, local_flags, fpu, ran>>

-----------------------------------------------------------------------------
(* wait_worker_threads. *)

(* Mutant: the caller looks at the counter instead of the futex word. *)
WaitIsOverByCount == active_threads = 0

WaitIsOver == has_active_threads = 0

(* It returns to pthreadpool_parallelize or to pthreadpool_create. *)
AllCheckedIn(c) ==
  /\ pc[c] \in {"wait", "spin", "reload"}
  /\ WaitIsOver
  /\ IF pool = "creating" THEN pool' = "ready" /\ Goto(c, "idle")
                          ELSE pool' = pool /\ Goto(c, "unlock")
  /\ load_acquire(c, "has_active_threads")
  /\ UNCHANGED <<fields, last_command, local_flags, fpu, ran>>

(* A load that finds workers active: spin, then fall back to the futex. *)
KeepWaiting(c) ==
  /\ ~WaitIsOver
  /\ \/ pc[c] = "wait" /\ Goto(c, "spin")
     \/ pc[c] = "spin" /\ Goto(c, "reload")
     \/ pc[c] = "reload" /\ Goto(c, "futex")
  /\ UNCHANGED <<pool, fields, last_command, local_flags, fpu, ran, memory>>

FutexWait(c) ==
  /\ pc[c] = "futex"
  /\ Goto(c, IF has_active_threads = 1 THEN "asleep" ELSE "reload")
  /\ UNCHANGED <<pool, fields, last_command, local_flags, fpu, ran, memory>>

-----------------------------------------------------------------------------
(* pthreadpool_destroy, which the user calls after all other calls. *)

Destroy(c) ==
  /\ pool = "ready"
  /\ \A d \in Callers : pc[d] = "idle"
  /\ pool' = "stopping"
  /\ Goto(c, "store_active")
  /\ synchronize(c, Callers)
  /\ UNCHANGED <<fields, last_command, local_flags, fpu, ran>>

(* The last pthread_join returns, and the pool is deallocated. *)
Join(c) ==
  /\ pc[c] = "join"
  /\ \A w \in Workers : pc[w] = "exited"
  /\ pool' = "released"
  /\ Goto(c, "idle")
  /\ synchronize(c, Workers)
  /\ UNCHANGED <<fields, last_command, local_flags, fpu, ran>>

-----------------------------------------------------------------------------
(* thread_main. *)

(* checkin_worker_thread. *)

(* Mutant: the decrement does not acquire. *)
CheckinRelease(w) ==
  /\ pc[w] = "checkin"
  /\ active_threads' = active_threads - 1
  /\ Goto(w, IF active_threads' = 0 THEN "clear" ELSE "wait")
  /\ decrement_fetch_release(w, "active_threads")
  /\ UNCHANGED <<pool, command, has_active_threads, execution_mutex, arguments,
                 params, flags, last_command, local_flags, fpu, ran>>

Checkin(w) ==
  /\ pc[w] = "checkin"
  /\ active_threads' = active_threads - 1
  /\ Goto(w, IF active_threads' = 0 THEN "clear" ELSE "wait")
  /\ decrement_fetch_acquire_release(w, "active_threads")
  /\ UNCHANGED <<pool, command, has_active_threads, execution_mutex, arguments,
                 params, flags, last_command, local_flags, fpu, ran>>

Clear(w) ==
  /\ pc[w] = "clear"
  /\ has_active_threads' = 0
  /\ Goto(w, "notify")
  /\ store_release(w, "has_active_threads")
  /\ UNCHANGED <<pool, command, active_threads, execution_mutex, arguments,
                 params, flags, last_command, local_flags, fpu, ran>>

Notify(w) ==
  /\ pc[w] = "notify"
  /\ WakeAll(Callers, w, "wait")
  /\ UNCHANGED <<pool, fields, last_command, local_flags, fpu, ran, memory>>

(* wait_for_new_command: a load that finds a new command, ... *)
SeeCommand(w) ==
  /\ pc[w] \in {"wait", "spin", "reload"}
  /\ command # last_command[w]
  /\ last_command' = [last_command EXCEPT ![w] = command]
  /\ Goto(w, "dispatch")
  /\ load_acquire(w, "command")
  /\ UNCHANGED <<pool, fields, local_flags, fpu, ran>>

(* ... or one that does not: spin, unless the flags of the last operation *)
(* say to yield, then fall back to the futex.                             *)
SeeNothing(w) ==
  /\ command = last_command[w]
  /\ \/ pc[w] = "wait" /\ "YIELD_WORKERS" \notin local_flags[w] /\ Goto(w, "spin")
     \/ pc[w] = "wait" /\ "YIELD_WORKERS" \in local_flags[w] /\ Goto(w, "futex")
     \/ pc[w] \in {"spin", "reload"} /\ Goto(w, "futex")
  /\ UNCHANGED <<pool, fields, last_command, local_flags, fpu, ran, memory>>

(* Mutant: the futex call does not compare the word. *)
SleepBlindly(w) ==
  /\ pc[w] = "futex"
  /\ Goto(w, "asleep")
  /\ UNCHANGED <<pool, fields, last_command, local_flags, fpu, ran, memory>>

SleepOnCommand(w) ==
  /\ pc[w] = "futex"
  /\ Goto(w, IF command = last_command[w] THEN "asleep" ELSE "reload")
  /\ UNCHANGED <<pool, fields, last_command, local_flags, fpu, ran, memory>>

Dispatch(w) ==
  /\ pc[w] = "dispatch"
  /\ local_flags' = [local_flags EXCEPT ![w] = flags]
  /\ Goto(w, CASE last_command[w].op = "parallelize" -> "enter"
                [] last_command[w].op = "shutdown" -> "exited"
                [] last_command[w].op = "init" -> "checkin")
  /\ UNCHANGED <<pool, fields, last_command, fpu, ran, memory>>

(* The worker loads thread_function and calls it. *)
WorkerEnter(w) ==
  /\ pc[w] = "enter"
  /\ SetFpu(w)
  /\ ran' = [ran EXCEPT ![w] = @ + 1]
  /\ Goto(w, "run")
  /\ store_relaxed(w, {w})
  /\ UNCHANGED <<pool, fields, last_command, local_flags>>

WorkerLeave(w) ==
  /\ pc[w] = "run"
  /\ RestoreFpu(w)
  /\ Goto(w, "checkin")
  /\ UNCHANGED <<pool, fields, last_command, local_flags, ran, memory>>

-----------------------------------------------------------------------------
(* The operating system may end a futex call for no reason. *)
SpuriousWakeup(t) ==
  /\ pc[t] = "asleep"
  /\ Goto(t, "reload")
  /\ UNCHANGED <<pool, fields, last_command, local_flags, fpu, ran, memory>>

WorkerStep(w) ==
  \/ Checkin(w) \/ Clear(w) \/ Notify(w)
  \/ SeeCommand(w) \/ SeeNothing(w) \/ SleepOnCommand(w)
  \/ Dispatch(w) \/ WorkerEnter(w) \/ WorkerLeave(w)

CallerStep(c) ==
  \/ \E w \in Workers : Spawn(c, w)
  \/ AllSpawned(c)
  \/ Lock(c) \/ StoreArguments(c) \/ StoreActive(c) \/ StoreHasActive(c)
  \/ StoreParams(c) \/ StoreCommand(c) \/ Wake(c)
  \/ Enter(c) \/ Leave(c)
  \/ AllCheckedIn(c) \/ KeepWaiting(c) \/ FutexWait(c)
  \/ Unlock(c) \/ Join(c)

(* What the user and the operating system decide. *)
Environment ==
  \/ \E c \in Callers :
       \/ \E requested \in SUBSET Flag : Parallelize(c, requested)
       \/ Destroy(c)
       \/ \E w \in Workers : SpawnFails(c, w)
  \/ \E t \in Threads : SpuriousWakeup(t)

Next ==
  \/ \E w \in Workers : WorkerStep(w)
  \/ \E c \in Callers : CallerStep(c)
  \/ Environment

Spec == Init /\ [][Next]_vars

(* Every thread that can run is scheduled.  The mutex is not fair: which   *)
(* of the waiting callers gets it is not promised, nor does anything make  *)
(* the user call.                                                          *)
Fairness ==
  /\ \A w \in Workers : WF_vars(WorkerStep(w))
  /\ \A c \in Callers : WF_vars(CallerStep(c))

FairSpec == Spec /\ Fairness

-----------------------------------------------------------------------------
CallerLabel ==
  {"idle", "spawn", "lock", "store_arguments", "store_active", "store_has_active",
   "store_params", "store_command", "store_shutdown", "wake", "enter", "run", "wait",
   "spin", "reload", "futex", "asleep", "unlock", "join"}

WorkerLabel ==
  {"unborn", "missing", "checkin", "clear", "notify", "wait", "spin", "futex", "asleep",
   "reload", "dispatch", "enter", "run", "exited"}

(* A worker between its start, or the load of a new command, and its *)
(* check-in.                                                         *)
Busy(w) == pc[w] \in {"unborn", "missing", "dispatch", "enter", "run", "checkin"}

(* A worker that has to check in before the wait for the workers is over. *)
Owes(w) == Busy(w) \/ command # last_command[w]

(* A caller prepares a command that the workers do not see yet. *)
Preparing(c) ==
  pc[c] \in {"store_has_active", "store_params", "store_command", "store_shutdown"}

PoolTypeOK ==
  /\ pool \in {"creating", "ready", "stopping", "released"}
  /\ command \in [op : {"init", "parallelize", "shutdown"}, flip : BOOLEAN]
  /\ active_threads \in 0 .. Cardinality(Workers)
  /\ has_active_threads \in {0, 1}
  /\ execution_mutex \in Callers \cup {Nobody}
  /\ arguments \in Callers \cup {Nobody}
  /\ params \in Callers \cup {Nobody}
  /\ flags \subseteq Flag
  /\ pc \in [Threads -> CallerLabel \cup WorkerLabel]
  /\ \A c \in Callers : pc[c] \in CallerLabel
  /\ \A w \in Workers : pc[w] \in WorkerLabel
  /\ last_command \in [Workers -> [op : {"init", "parallelize", "shutdown"}, flip : BOOLEAN]]
  /\ local_flags \in [Threads -> SUBSET Flag]
  /\ denormals \in [Threads -> BOOLEAN]
  /\ saved_denormals \in [Threads -> BOOLEAN]
  /\ ran \in [Workers -> Nat]

MemoryTypeOK ==
  /\ knows \in [Threads -> SUBSET Data]
  /\ carries \in [Locations -> SUBSET Data]

(* Every variable has a value its C type can hold. *)
TypeOK == PoolTypeOK /\ MemoryTypeOK

(* active_threads is the number of workers that still have to check in,    *)
(* from the store of a command to the next: a worker that is late to see a *)
(* command, or that sees one as soon as it is stored, is neither forgotten *)
(* nor counted twice, and the counter never goes below zero.               *)
ActiveThreadsCountsOwers ==
  pool \in {"creating", "ready"} =>
    active_threads = IF \E c \in Callers : Preparing(c)
                     THEN Cardinality(Workers)
                     ELSE Cardinality({w \in Workers : Owes(w)})

(* When pthreadpool_parallelize is about to return, every worker has run   *)
(* the thread function of this operation once and has nothing left to do   *)
(* for it; when pthreadpool_create has returned, every worker has started. *)
NoEarlyReturn ==
  /\ \A c \in Callers, w \in Workers : pc[c] = "unlock" => ran[w] = 1 /\ ~Owes(w)
  /\ pool = "ready" => \A w \in Workers : pc[w] \notin {"unborn", "missing"}

(* A worker that works on an operation works with the arguments, the       *)
(* parameters and the flags of the one caller that holds the mutex, and    *)
(* that caller has stored them all.                                        *)
WorkersSeeTheOperation ==
  \A w \in Workers : pc[w] \in {"enter", "run"} =>
    /\ execution_mutex \in Callers
    /\ arguments = execution_mutex /\ params = execution_mutex
    /\ local_flags[w] = local_flags[execution_mutex]
    /\ ran[w] = IF pc[w] = "run" THEN 1 ELSE 0

(* No thread can read a stale value.  A worker that has seen a command knows *)
(* what its caller stored for it, all of it with relaxed stores; the caller  *)
(* that returns, and the next one that stores, know what all workers have    *)
(* stored, although only the last of them has told them.                     *)
NothingStaleIsRead ==
  /\ \A w \in Workers :
       pc[w] \in {"dispatch", "enter", "run", "checkin"} => {"operation", "count"} \subseteq knows[w]
  /\ \A c \in Callers :
       pc[c] \in {"store_arguments", "store_active", "store_has_active", "store_params",
                  "store_command", "store_shutdown", "unlock"}
         => Workers \subseteq knows[c]

(* PTHREADPOOL_FLAG_DISABLE_DENORMALS holds on every thread of the         *)
(* operation for as long as the task runs, and only then: outside of it    *)
(* every thread has the FPU state its user left it in.                     *)
DenormalsFollowTheOperation ==
  \A t \in Threads :
    denormals[t] <=>
      /\ t \notin NoDenormals
      /\ ~(pc[t] = "run" /\ "DISABLE_DENORMALS" \in local_flags[execution_mutex])

(* No wakeup is lost: a thread sleeps on a word that has changed only      *)
(* while the thread that changed it has its futex_wake_all before it.      *)
NoLostWakeup ==
  /\ \A w \in Workers : pc[w] = "asleep" /\ command # last_command[w] =>
       \E c \in Callers : pc[c] = "wake"
  /\ \A c \in Callers : pc[c] = "asleep" /\ has_active_threads = 0 =>
       \E w \in Workers : pc[w] = "notify"

(* Nothing a worker reads or counts on is stored while a worker is busy    *)
(* with an operation: the caller and the workers share these fields        *)
(* without a lock.                                                         *)
NoStoreWhileBusy ==
  [][ \/ arguments' # arguments \/ params' # params \/ flags' # flags
      \/ active_threads' > active_threads
      \/ has_active_threads' > has_active_threads
      => \A w \in Workers : ~Busy(w) /\ pc[w] # "clear" ]_vars

(* pthreadpool_create returns a pool (when every thread can be created). *)
CreateReturns == pool = "creating" ~> pool = "ready"

(* An operation that has got the mutex ends: no wakeup is lost for ever    *)
(* and nobody waits for nobody.                                            *)
OperationReturns ==
  \A c \in Callers : execution_mutex = c ~> execution_mutex # c

Published(c) ==
  pc[c] \in {"wake", "enter", "run", "wait", "spin", "reload", "futex", "asleep", "join"}

Phase ==
  IF pool \in {"creating", "released"} THEN pool
  ELSE IF ~\E c \in Callers : Published(c) THEN "ready"
  ELSE IF pool = "ready" THEN "open" ELSE "stopping"

ToDo == {w \in Workers : \/ Phase = "creating" /\ Busy(w)
                         \/ Phase = "open" /\ ran[w] = 0
                         \/ Phase = "stopping" /\ pc[w] # "exited"}

Inside == {w \in Workers : pc[w] = "run"}

Handshake == INSTANCE ForkJoin WITH phase <- Phase, todo <- ToDo, busy <- Inside

(* The handshake is a fork and join of all workers: every worker takes part *)
(* in every operation, in this one and no other, and pthreadpool_create,    *)
(* every operation and pthreadpool_destroy end once they have begun.        *)
IsForkJoin == Handshake!FairSpec
=============================================================================
