----------------------------- MODULE CondvarPool -----------------------------
(***************************************************************************)
(* pthreads.c, the backend without futexes: the handshake of module        *)
(* FutexPool, with a mutex and a condition variable for the command and    *)
(* another pair for the check-in of the workers.                           *)
(*                                                                         *)
(* Both words are also looked at without their mutex: command and          *)
(* active_threads are spun on before they are slept on, and active_threads *)
(* is stored for an operation under command_mutex, not completion_mutex.   *)
(*                                                                         *)
(* One action per atomic access to a shared word, per call of a mutex or a *)
(* condition variable, and per side of the thread function.  Memory is     *)
(* that of module Atomics.  The FPU state and a pthread_create that fails, *)
(* the same code in both backends, are the business of FutexPool.          *)
(***************************************************************************)
EXTENDS Integers, FiniteSets

CONSTANTS
  Workers,   \* threads[1] ... threads[threads_count - 1]
  Callers,   \* the threads of the user
  Nobody     \* no thread

Threads == Workers \cup Callers

ASSUME WorkersAssumption == IsFiniteSet(Workers) /\ Workers # {}
ASSUME CallersAssumption == Callers \cap Workers = {} /\ Nobody \notin Threads
ASSUME DataAssumption == {"operation", "count"} \cap Workers = {}

VARIABLES
  pool,               \* how far the life of the pool has got
  \* the fields of struct pthreadpool
  command, active_threads,
  execution_mutex, completion_mutex, command_mutex,   \* who holds them
  arguments,          \* thread_function, task, argument, params, ranges: whose
  flags,
  \* the threads
  pc,
  last_command,       \* of each worker
  local_flags,        \* of each thread: the flags it works under
  ran,                \* history: how often a worker ran in this operation
  \* the memory
  knows, carries

mutexes == <<execution_mutex, completion_mutex, command_mutex>>
operation == <<arguments, flags>>
locals == <<last_command, local_flags, ran>>
memory == <<knows, carries>>
vars == <<pool, command, active_threads, mutexes, operation, pc, locals, memory>>
Locations == {"command", "active_threads", "execution_mutex", "completion_mutex", "command_mutex"}

(* The arguments and flags of an operation, the store of active_threads, and *)
(* for each worker what its tasks have stored.                               *)
Data == {"operation", "count"} \cup Workers

INSTANCE Atomics

Flag == {"YIELD_WORKERS"}

InitCommand == [op |-> "init", flip |-> FALSE]
ShutdownCommand == [op |-> "shutdown", flip |-> FALSE]
NewCommand(old) == [op |-> "parallelize", flip |-> ~old.flip]

Goto(t, label) == pc' = [pc EXCEPT ![t] = label]

-----------------------------------------------------------------------------
(* Mutexes and condition variables, as POSIX describes them.  A thread that *)
(* is woken has to get the mutex again before its wait returns.             *)

LockCompletionMutex(t, label) ==
  /\ completion_mutex = Nobody
  /\ completion_mutex' = t
  /\ load_acquire(t, "completion_mutex")
  /\ Goto(t, label)
  /\ UNCHANGED <<pool, command, active_threads, execution_mutex, command_mutex,
                 operation, locals>>

UnlockCompletionMutex(t) ==
  /\ completion_mutex' = Nobody
  /\ store_release(t, "completion_mutex")
  /\ UNCHANGED <<command, active_threads, execution_mutex, command_mutex, operation, locals>>

LockCommandMutex(t, label) ==
  /\ command_mutex = Nobody
  /\ command_mutex' = t
  /\ load_acquire(t, "command_mutex")
  /\ Goto(t, label)
  /\ UNCHANGED <<pool, command, active_threads, execution_mutex, completion_mutex,
                 operation, locals>>

UnlockCommandMutex(t, label) ==
  /\ command_mutex' = Nobody
  /\ store_release(t, "command_mutex")
  /\ Goto(t, label)
  /\ UNCHANGED <<pool, command, active_threads, execution_mutex, completion_mutex,
                 operation, locals>>

(* Every thread of S that waits leaves its wait, and t goes on. *)
WakeAll(S, t, label) ==
  pc' = [s \in Threads |-> IF s = t THEN label
                           ELSE IF s \in S /\ pc[s] = "asleep" THEN "relock" ELSE pc[s]]

-----------------------------------------------------------------------------
(* pthreadpool_create, by one of the callers. *)
Init ==
  /\ pool = "creating"
  /\ command = InitCommand
  /\ active_threads = Cardinality(Workers)
  /\ execution_mutex = Nobody /\ completion_mutex = Nobody /\ command_mutex = Nobody
  /\ arguments = Nobody
  /\ flags = {}
  /\ \E creator \in Callers :
       pc = [t \in Threads |-> IF t \in Workers THEN "unborn"
                               ELSE IF t = creator THEN "spawn" ELSE "idle"]
  /\ last_command = [w \in Workers |-> InitCommand]
  /\ local_flags = [t \in Threads |-> {}]
  /\ ran = [w \in Workers |-> 0]
  /\ MemoryInit(Callers)

Spawn(c, w) ==
  /\ pc[c] = "spawn" /\ pc[w] = "unborn"
  /\ Goto(w, "checkin")
  /\ synchronize(w, {c})
  /\ UNCHANGED <<pool, command, active_threads, mutexes, operation, locals>>

AllSpawned(c) ==
  /\ pc[c] = "spawn"
  /\ \A w \in Workers : pc[w] # "unborn"
  /\ Goto(c, "wait")
  /\ UNCHANGED <<pool, command, active_threads, mutexes, operation, locals, memory>>

-----------------------------------------------------------------------------
(* pthreadpool_parallelize. *)

Parallelize(c, requested) ==
  /\ pool = "ready" /\ pc[c] = "idle"
  /\ local_flags' = [local_flags EXCEPT ![c] = requested]
  /\ Goto(c, "lock")
  /\ UNCHANGED <<pool, command, active_threads, mutexes, operation, last_command, ran, memory>>

Lock(c) ==
  /\ pc[c] = "lock" /\ execution_mutex = Nobody
  /\ execution_mutex' = c
  /\ load_acquire(c, "execution_mutex")
  /\ ran' = [w \in Workers |-> 0]
  /\ Goto(c, "lock_command")
  /\ UNCHANGED <<pool, command, active_threads, completion_mutex, command_mutex,
                 operation, last_command, local_flags>>

LockCommand(c) ==
  /\ pc[c] = "lock_command"
  /\ LockCommandMutex(c, IF pool = "ready" THEN "store_operation" ELSE "store_active")

(* The stores before the one of the command.  Nobody reads them earlier, *)
(* in whatever order they are made.                                      *)
StoreOperation(c) ==
  /\ pc[c] = "store_operation"
  /\ arguments' = c /\ flags' = local_flags[c]
  /\ store_relaxed(c, {"operation"})
  /\ Goto(c, "store_active")
  /\ UNCHANGED <<pool, command, active_threads, mutexes, locals>>

(* Mutant: the caller is counted, too. *)
StoreActiveAll(c) ==
  /\ pc[c] = "store_active"
  /\ active_threads' = Cardinality(Workers) + 1
  /\ store_relaxed_at(c, "active_threads", "count")
  /\ Goto(c, "store_command")
  /\ UNCHANGED <<pool, command, mutexes, operation, locals>>

(* Mutant: the caller is subtracted twice. *)
StoreActiveOneLess(c) ==
  /\ pc[c] = "store_active"
  /\ active_threads' = Cardinality(Workers) - 1
  /\ store_relaxed_at(c, "active_threads", "count")
  /\ Goto(c, "store_command")
  /\ UNCHANGED <<pool, command, mutexes, operation, locals>>

(* Without completion_mutex, here and in pthreadpool_destroy. *)
StoreActive(c) ==
  /\ pc[c] = "store_active"
  /\ active_threads' = Cardinality(Workers)
  /\ store_relaxed_at(c, "active_threads", "count")
  /\ Goto(c, "store_command")
  /\ UNCHANGED <<pool, command, mutexes, operation, locals>>

(* Mutant: a store without release. *)
StoreCommandRelaxed(c) ==
  /\ pc[c] = "store_command"
  /\ command' = IF pool = "ready" THEN NewCommand(command) ELSE ShutdownCommand
  /\ store_relaxed_at(c, "command", "operation")
  /\ Goto(c, IF pool = "ready" THEN "unlock_command" ELSE "broadcast")
  /\ UNCHANGED <<pool, active_threads, mutexes, operation, locals>>

StoreCommand(c) ==
  /\ pc[c] = "store_command"
  /\ command' = IF pool = "ready" THEN NewCommand(command) ELSE ShutdownCommand
  /\ store_release(c, "command")
  /\ Goto(c, IF pool = "ready" THEN "unlock_command" ELSE "broadcast")
  /\ UNCHANGED <<pool, active_threads, mutexes, operation, locals>>

(* Before it wakes the workers in pthreadpool_parallelize, after it in *)
(* pthreadpool_destroy.                                                *)
UnlockCommand(c) ==
  /\ pc[c] = "unlock_command"
  /\ UnlockCommandMutex(c, IF pool = "ready" THEN "broadcast" ELSE "join")

Broadcast(c) ==
  /\ pc[c] = "broadcast"
  /\ WakeAll(Workers, c, IF pool = "ready" THEN "run" ELSE "unlock_command")
  /\ UNCHANGED <<pool, command, active_threads, mutexes, operation, locals, memory>>

(* The caller leaves the thread function, which it runs as worker #0. *)
Leave(c) ==
  /\ pc[c] = "run"
  /\ Goto(c, "wait")
  /\ UNCHANGED <<pool, command, active_threads, mutexes, operation, locals, memory>>

Unlock(c) ==
  /\ pc[c] = "unlock"
  /\ execution_mutex' = Nobody
  /\ store_release(c, "execution_mutex")
  /\ local_flags' = [local_flags EXCEPT ![c] = {}]
  /\ Goto(c, "idle")
  /\ UNCHANGED <<pool, command, active_threads, completion_mutex, command_mutex,
                 operation, last_command, ran>>

-----------------------------------------------------------------------------
(* wait_worker_threads. *)

(* It returns to pthreadpool_parallelize or to pthreadpool_create. *)
Returns(c) ==
  IF pool = "creating" THEN pool' = "ready" /\ Goto(c, "idle")
                       ELSE pool' = pool /\ Goto(c, "unlock")

(* A load without the mutex that finds no active thread, ... *)
AllCheckedIn(c) ==
  /\ pc[c] \in {"wait", "spin"} /\ active_threads = 0
  /\ load_acquire(c, "active_threads")
  /\ Returns(c)
  /\ UNCHANGED <<command, active_threads, mutexes, operation, locals>>

(* ... or that finds some: spin, then fall back to the condition variable. *)
KeepWaiting(c) ==
  /\ active_threads # 0
  /\ \/ pc[c] = "wait" /\ Goto(c, "spin")
     \/ pc[c] = "spin" /\ Goto(c, "lock_completion")
  /\ UNCHANGED <<pool, command, active_threads, mutexes, operation, locals, memory>>

LockCompletion(c) ==
  /\ pc[c] \in {"lock_completion", "relock"}
  /\ LockCompletionMutex(c, "check")

CheckCompletion(c) ==
  /\ pc[c] = "check" /\ active_threads = 0
  /\ load_acquire(c, "active_threads")
  /\ Goto(c, "unlock_completion")
  /\ UNCHANGED <<pool, command, active_threads, mutexes, operation, locals>>

CheckFails(c) ==
  /\ pc[c] = "check" /\ active_threads # 0
  /\ Goto(c, "cond_wait")
  /\ UNCHANGED <<pool, command, active_threads, mutexes, operation, locals, memory>>

(* pthread_cond_wait gives the mutex away and sleeps, in one step. *)
WaitForCompletion(c) ==
  /\ pc[c] = "cond_wait"
  /\ UnlockCompletionMutex(c)
  /\ Goto(c, "asleep")
  /\ UNCHANGED pool

UnlockCompletion(c) ==
  /\ pc[c] = "unlock_completion"
  /\ UnlockCompletionMutex(c)
  /\ Returns(c)

-----------------------------------------------------------------------------
(* pthreadpool_destroy, which the user calls after all other calls. *)

Destroy(c) ==
  /\ pool = "ready"
  /\ \A d \in Callers : pc[d] = "idle"
  /\ pool' = "stopping"
  /\ synchronize(c, Callers)
  /\ Goto(c, "lock_command")
  /\ UNCHANGED <<command, active_threads, mutexes, operation, locals>>

(* The last pthread_join returns.  The mutexes and condition variables are *)
(* destroyed and the pool is deallocated.                                  *)
Join(c) ==
  /\ pc[c] = "join"
  /\ \A w \in Workers : pc[w] = "exited"
  /\ pool' = "released"
  /\ synchronize(c, Workers)
  /\ Goto(c, "idle")
  /\ UNCHANGED <<command, active_threads, mutexes, operation, locals>>

-----------------------------------------------------------------------------
(* checkin_worker_thread. *)

(* Mutant: a worker checks in without the mutex. *)
CheckinUnlocked(w) ==
  /\ pc[w] = "checkin"
  /\ Goto(w, "decrement")
  /\ UNCHANGED <<pool, command, active_threads, mutexes, operation, locals, memory>>

CheckinLock(w) ==
  /\ pc[w] = "checkin"
  /\ LockCompletionMutex(w, "decrement")

Decrement(w) ==
  /\ pc[w] = "decrement"
  /\ active_threads' = active_threads - 1
  /\ decrement_fetch_release(w, "active_threads")
  /\ Goto(w, IF active_threads' = 0 THEN "signal" ELSE "unlock_completion")
  /\ UNCHANGED <<pool, command, mutexes, operation, locals>>

(* Mutant: the worker that checks in last does not wake the caller. *)
SignalNobody(w) ==
  /\ pc[w] = "signal"
  /\ Goto(w, "unlock_completion")
  /\ UNCHANGED <<pool, command, active_threads, mutexes, operation, locals, memory>>

(* One thread waits at most: the caller that holds execution_mutex. *)
Signal(w) ==
  /\ pc[w] = "signal"
  /\ WakeAll(Callers, w, "unlock_completion")
  /\ UNCHANGED <<pool, command, active_threads, mutexes, operation, locals, memory>>

CheckinUnlock(w) ==
  /\ pc[w] = "unlock_completion"
  /\ UnlockCompletionMutex(w)
  /\ Goto(w, "wait")
  /\ UNCHANGED pool

-----------------------------------------------------------------------------
(* wait_for_new_command. *)

(* The load that finds a new command, with the mutex or without. *)
LoadCommand(w, label) ==
  /\ command # last_command[w]
  /\ last_command' = [last_command EXCEPT ![w] = command]
  /\ load_acquire(w, "command")
  /\ Goto(w, label)
  /\ UNCHANGED <<pool, command, active_threads, mutexes, operation, local_flags, ran>>

SeeCommand(w) == pc[w] \in {"wait", "spin"} /\ LoadCommand(w, "dispatch")

SeeNothing(w) ==
  /\ command = last_command[w]
  /\ \/ pc[w] = "wait" /\ "YIELD_WORKERS" \notin local_flags[w] /\ Goto(w, "spin")
     \/ pc[w] = "wait" /\ "YIELD_WORKERS" \in local_flags[w] /\ Goto(w, "lock_command")
     \/ pc[w] = "spin" /\ Goto(w, "lock_command")
  /\ UNCHANGED <<pool, command, active_threads, mutexes, operation, locals, memory>>

WorkerLockCommand(w) ==
  /\ pc[w] \in {"lock_command", "relock"}
  /\ LockCommandMutex(w, "check")

ReadCommand(w) == pc[w] = "check" /\ LoadCommand(w, "unlock_command")

ReadNothing(w) ==
  /\ pc[w] = "check" /\ command = last_command[w]
  /\ Goto(w, "cond_wait")
  /\ UNCHANGED <<pool, command, active_threads, mutexes, operation, locals, memory>>

(* pthread_cond_wait gives the mutex away and sleeps, in one step. *)
WaitForCommand(w) == pc[w] = "cond_wait" /\ UnlockCommandMutex(w, "asleep")

WorkerUnlockCommand(w) ==
  /\ pc[w] = "unlock_command"
  /\ UnlockCommandMutex(w, "dispatch")

-----------------------------------------------------------------------------
(* thread_main. *)

Dispatch(w) ==
  /\ pc[w] = "dispatch"
  /\ local_flags' = [local_flags EXCEPT ![w] = flags]
  /\ Goto(w, CASE last_command[w].op = "parallelize" -> "enter"
                [] last_command[w].op = "shutdown" -> "exited"
                [] last_command[w].op = "init" -> "checkin")
  /\ UNCHANGED <<pool, command, active_threads, mutexes, operation, last_command, ran, memory>>

WorkerEnter(w) ==
  /\ pc[w] = "enter"
  /\ ran' = [ran EXCEPT ![w] = @ + 1]
  /\ store_relaxed(w, {w})
  /\ Goto(w, "run")
  /\ UNCHANGED <<pool, command, active_threads, mutexes, operation, last_command, local_flags>>

WorkerLeave(w) ==
  /\ pc[w] = "run"
  /\ Goto(w, "checkin")
  /\ UNCHANGED <<pool, command, active_threads, mutexes, operation, locals, memory>>

-----------------------------------------------------------------------------
(* pthread_cond_wait may return for no reason. *)
SpuriousWakeup(t) ==
  /\ pc[t] = "asleep"
  /\ Goto(t, "relock")
  /\ UNCHANGED <<pool, command, active_threads, mutexes, operation, locals, memory>>

WorkerStep(w) ==
  \/ CheckinLock(w) \/ Decrement(w) \/ Signal(w) \/ CheckinUnlock(w)
  \/ SeeCommand(w) \/ SeeNothing(w)
  \/ WorkerLockCommand(w) \/ ReadCommand(w) \/ ReadNothing(w) \/ WaitForCommand(w) \/ WorkerUnlockCommand(w)
  \/ Dispatch(w) \/ WorkerEnter(w) \/ WorkerLeave(w)

CallerStep(c) ==
  \/ \E w \in Workers : Spawn(c, w)
  \/ AllSpawned(c)
  \/ Lock(c) \/ LockCommand(c) \/ StoreOperation(c) \/ StoreActive(c) \/ StoreCommand(c)
  \/ UnlockCommand(c) \/ Broadcast(c) \/ Leave(c) \/ Unlock(c) \/ Join(c)
  \/ AllCheckedIn(c) \/ KeepWaiting(c) \/ LockCompletion(c) \/ CheckCompletion(c)
  \/ CheckFails(c) \/ WaitForCompletion(c) \/ UnlockCompletion(c)

(* What the user and the operating system decide. *)
Environment ==
  \/ \E c \in Callers :
       \/ \E requested \in SUBSET Flag : Parallelize(c, requested)
       \/ Destroy(c)
  \/ \E t \in Threads : SpuriousWakeup(t)

Next ==
  \/ \E w \in Workers : WorkerStep(w)
  \/ \E c \in Callers : CallerStep(c)
  \/ Environment

Spec == Init /\ [][Next]_vars

(* Every thread that can run is scheduled, and a mutex of the handshake that *)
(* becomes free again and again is obtained: threads that are woken for no   *)
(* reason for ever keep taking it and giving it back.  (A worker that cannot *)
(* run waits for such a mutex or sleeps.)  execution_mutex is not fair, nor  *)
(* does anything make the user call.                                         *)
Fairness ==
  /\ \A w \in Workers : SF_vars(WorkerStep(w))
  /\ \A c \in Callers : /\ WF_vars(CallerStep(c))
                       /\ SF_vars(LockCommand(c) \/ LockCompletion(c))

FairSpec == Spec /\ Fairness

-----------------------------------------------------------------------------
CallerLabel ==
  {"idle", "spawn", "lock", "lock_command", "store_operation", "store_active",
   "store_command", "unlock_command", "broadcast", "run", "wait", "spin",
   "lock_completion", "relock", "check", "cond_wait", "asleep", "unlock_completion", "unlock", "join"}

WorkerLabel ==
  {"unborn", "checkin", "decrement", "signal", "unlock_completion", "wait", "spin",
   "lock_command", "relock", "check", "cond_wait", "asleep", "unlock_command", "dispatch", "enter",
   "run", "exited"}

(* A worker between its start, or the load of a new command, and its *)
(* check-in.                                                         *)
Busy(w) ==
  pc[w] \in {"unborn", "unlock_command", "dispatch", "enter", "run", "checkin", "decrement"}

(* A worker that has to check in before the wait for the workers is over. *)
Owes(w) == Busy(w) \/ command # last_command[w]

Command == [op : {"init", "parallelize", "shutdown"}, flip : BOOLEAN]

(* Every variable has a value its C type can hold. *)
PoolTypeOK ==
  /\ pool \in {"creating", "ready", "stopping", "released"}
  /\ command \in Command
  /\ active_threads \in 0 .. Cardinality(Workers)
  /\ execution_mutex \in Callers \cup {Nobody}
  /\ completion_mutex \in Threads \cup {Nobody}
  /\ command_mutex \in Threads \cup {Nobody}
  /\ arguments \in Callers \cup {Nobody}
  /\ flags \subseteq Flag
  /\ pc \in [Threads -> CallerLabel \cup WorkerLabel]
  /\ \A c \in Callers : pc[c] \in CallerLabel
  /\ \A w \in Workers : pc[w] \in WorkerLabel
  /\ last_command \in [Workers -> Command]
  /\ local_flags \in [Threads -> SUBSET Flag]
  /\ ran \in [Workers -> Nat]

MemoryTypeOK ==
  /\ knows \in [Threads -> SUBSET Data]
  /\ carries \in [Locations -> SUBSET Data]

TypeOK == PoolTypeOK /\ MemoryTypeOK

(* active_threads is the number of workers that still have to check in,     *)
(* although it is stored without completion_mutex, while the worker that    *)
(* checked in last may still hold that mutex or have its signal to send.    *)
ActiveThreadsCountsOwers ==
  pool \in {"creating", "ready"} =>
    active_threads = IF \E c \in Callers : pc[c] = "store_command"
                     THEN Cardinality(Workers)
                     ELSE Cardinality({w \in Workers : Owes(w)})

(* No wakeup is lost: a thread sleeps although what it waits for is there   *)
(* only while somebody has the broadcast or the signal before him, although *)
(* the broadcast comes after command_mutex has been unlocked and the stores *)
(* of active_threads do not hold completion_mutex.                          *)
NoLostWakeup ==
  /\ \A w \in Workers : pc[w] = "asleep" /\ command # last_command[w] =>
       \E c \in Callers :
          \/ pc[c] = "broadcast"
          \/ pc[c] = "unlock_command" /\ pool = "ready"
  /\ \A c \in Callers : pc[c] = "asleep" /\ active_threads = 0 =>
       \E w \in Workers : pc[w] = "signal"

(* No thread can read a stale value.  A worker that has seen a command knows *)
(* what its caller stored for it, in whatever way it saw the command; the    *)
(* caller that returns, and the next one that stores, know what all workers  *)
(* have stored, although these were awaited one by one through a counter.    *)
NothingStaleIsRead ==
  /\ \A w \in Workers : Busy(w) /\ pc[w] # "unborn" => {"operation", "count"} \subseteq knows[w]
  /\ \A c \in Callers :
       pc[c] \in {"store_operation", "store_active", "store_command", "unlock"}
         => Workers \subseteq knows[c]

Published(c) ==
  pc[c] \in {"unlock_command", "broadcast", "run", "wait", "spin", "lock_completion",
             "relock", "check", "cond_wait", "asleep", "unlock_completion", "join"}

Phase ==
  IF pool \in {"creating", "released"} THEN pool
  ELSE IF ~\E c \in Callers : Published(c) THEN "ready"
  ELSE IF pool = "ready" THEN "open" ELSE "stopping"

ToDo == {w \in Workers : \/ Phase = "creating" /\ Busy(w)
                         \/ Phase = "open" /\ ran[w] = 0
                         \/ Phase = "stopping" /\ pc[w] # "exited"}

Inside == {w \in Workers : pc[w] = "run"}

Handshake == INSTANCE ForkJoin WITH phase <- Phase, todo <- ToDo, busy <- Inside

(* This backend keeps the promise of the one with futexes, without waiting  *)
(* for ever for a signal, a broadcast or a mutex.                           *)
IsForkJoin == Handshake!FairSpec
=============================================================================
