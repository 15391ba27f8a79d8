------------------------------ MODULE EventPool ------------------------------
(***************************************************************************)
(* windows.c: the handshake of module FutexPool with two pairs of          *)
(* manual-reset events.  The high bit of the command, which every          *)
(* operation flips, says which event of a pair is in use; the other one is *)
(* reset for the next operation in the meantime.                           *)
(*                                                                         *)
(* SetEvent ends the waits of all threads that wait for the event, and a   *)
(* wait for an event that is set ends at once, until ResetEvent.           *)
(*                                                                         *)
(* One action per atomic access to a shared word, per call on an event or  *)
(* the mutex, and per side of the thread function.  Memory is that of      *)
(* module Atomics.  The FPU state is the business of FutexPool.            *)
(***************************************************************************)
EXTENDS Integers, FiniteSets

CONSTANTS
  Workers,   \* threads[1] ... threads[threads_count - 1]
  Callers,   \* the threads of the user
  Nobody     \* no thread

Threads == Workers \cup Callers

ASSUME WorkersAssumption == IsFiniteSet(Workers) /\ Workers # {}
ASSUME CallersAssumption == Callers \cap Workers = {} /\ Nobody \notin Threads
ASSUME DataAssumption == {"operation", "count"} \cap Workers = {}

VARIABLES
  pool,               \* how far the life of the pool has got
  \* the fields of struct pthreadpool
  command, active_threads, execution_mutex,
  completion_event, command_event,   \* of each event whether it is set
  arguments,          \* thread_function, task, argument, params, ranges: whose
  flags,
  \* the threads
  pc,
  event_index,        \* of each caller
  last_command,       \* of each worker
  local_flags,        \* of each thread: the flags it works under
  ran,                \* history: how often a worker ran in this operation
  \* the memory
  knows, carries

events == <<completion_event, command_event>>
operation == <<arguments, flags>>
locals == <<event_index, last_command, local_flags, ran>>
memory == <<knows, carries>>
vars == <<pool, command, active_threads, execution_mutex, events, operation, pc, locals, memory>>

Bit == {0, 1}

(* An event orders memory between SetEvent and the end of a wait. *)
CompletionEvent == [i \in Bit |-> IF i = 0 THEN "completion_event[0]" ELSE "completion_event[1]"]
Locations == {"command", "active_threads", "execution_mutex"}
               \cup {CompletionEvent[i] : i \in Bit}

(* The arguments and flags of an operation, the store of active_threads, and *)
(* for each worker what its tasks have stored.                               *)
Data == {"operation", "count"} \cup Workers

INSTANCE Atomics

Flag == {"YIELD_WORKERS"}

(* An operation in the low bits, and the high bit. *)
InitCommand == [op |-> "init", bit |-> 0]
ShutdownCommand == [op |-> "shutdown", bit |-> 0]
NewCommand(old) == [op |-> "parallelize", bit |-> 1 - old.bit]

Goto(t, label) == pc' = [pc EXCEPT ![t] = label]

(* SetEvent by t: every thread of S leaves its wait. *)
WakeAll(S, t, label) ==
  pc' = [s \in Threads |-> IF s = t THEN label
                           ELSE IF s \in S /\ pc[s] = "asleep" THEN "awake" ELSE pc[s]]

(* The event that a caller waits for: the one of the new command. *)
CompletionIndex(c) == IF pool = "creating" THEN 0 ELSE 1 - event_index[c]

-----------------------------------------------------------------------------
(* pthreadpool_create, by one of the callers. *)
Init ==
  /\ pool = "creating"
  /\ command = InitCommand
  /\ active_threads = Cardinality(Workers)
  /\ execution_mutex = Nobody
  /\ completion_event = [i \in Bit |-> FALSE]
  /\ command_event = [i \in Bit |-> FALSE]
  /\ arguments = Nobody
  /\ flags = {}
  /\ \E creator \in Callers :
       pc = [t \in Threads |-> IF t \in Workers THEN "unborn"
                               ELSE IF t = creator THEN "spawn" ELSE "idle"]
  /\ event_index = [c \in Callers |-> 0]
  /\ last_command = [w \in Workers |-> InitCommand]
  /\ local_flags = [t \in Threads |-> {}]
  /\ ran = [w \in Workers |-> 0]
  /\ MemoryInit(Callers)

Spawn(c, w) ==
  /\ pc[c] = "spawn" /\ pc[w] = "unborn"
  /\ Goto(w, "checkin")
  /\ synchronize(w, {c})
  /\ UNCHANGED <<pool, command, active_threads, execution_mutex, events, operation, locals>>

AllSpawned(c) ==
  /\ pc[c] = "spawn"
  /\ \A w \in Workers : pc[w] # "unborn"
  /\ Goto(c, "wait")
  /\ UNCHANGED <<pool, command, active_threads, execution_mutex, events, operation,
                 locals, memory>>

-----------------------------------------------------------------------------
(* pthreadpool_parallelize. *)

Parallelize(c, requested) ==
  /\ pool = "ready" /\ pc[c] = "idle"
  /\ local_flags' = [local_flags EXCEPT ![c] = requested]
  /\ Goto(c, "lock")
  /\ UNCHANGED <<pool, command, active_threads, execution_mutex, events, operation,
                 event_index, last_command, ran, memory>>

Lock(c) ==
  /\ pc[c] = "lock" /\ execution_mutex = Nobody
  /\ execution_mutex' = c
  /\ load_acquire(c, "execution_mutex")
  /\ ran' = [w \in Workers |-> 0]
  /\ Goto(c, "store_operation")
  /\ UNCHANGED <<pool, command, active_threads, events, operation, event_index,
                 last_command, local_flags>>

(* The stores before the one of the command.  Nobody reads them earlier, *)
(* in whatever order they are made.                                      *)
StoreOperation(c) ==
  /\ pc[c] = "store_operation"
  /\ arguments' = c /\ flags' = local_flags[c]
  /\ store_relaxed(c, {"operation"})
  /\ Goto(c, "store_active")
  /\ UNCHANGED <<pool, command, active_threads, execution_mutex, events, locals>>

(* Mutant: the caller is counted, too. *)
StoreActiveAll(c) ==
  /\ pc[c] = "store_active"
  /\ active_threads' = Cardinality(Workers) + 1
  /\ event_index' = [event_index EXCEPT ![c] = command.bit]
  /\ store_relaxed_at(c, "active_threads", "count")
  /\ Goto(c, IF pool = "ready" THEN "reset_command" ELSE "store_command")
  /\ UNCHANGED <<pool, command, execution_mutex, events, operation, last_command,
                 local_flags, ran>>

(* pthreadpool_destroy stores active_threads, too, but resets no event. *)
StoreActive(c) ==
  /\ pc[c] = "store_active"
  /\ active_threads' = Cardinality(Workers)
  /\ event_index' = [event_index EXCEPT ![c] = command.bit]
  /\ store_relaxed_at(c, "active_threads", "count")
  /\ Goto(c, IF pool = "ready" THEN "reset_command" ELSE "store_command")
  /\ UNCHANGED <<pool, command, execution_mutex, events, operation, last_command,
                 local_flags, ran>>

(* Mutant: the event of this command is reset, not the one of the next. *)
ResetCommandEventSame(c) ==
  /\ pc[c] = "reset_command"
  /\ command_event' = [command_event EXCEPT ![event_index[c]] = FALSE]
  /\ Goto(c, "store_command")
  /\ UNCHANGED <<pool, command, active_threads, execution_mutex, completion_event,
                 operation, locals, memory>>

(* The workers will wait for the next command at this event. *)
ResetCommandEvent(c) ==
  /\ pc[c] = "reset_command"
  /\ command_event' = [command_event EXCEPT ![1 - event_index[c]] = FALSE]
  /\ Goto(c, "store_command")
  /\ UNCHANGED <<pool, command, active_threads, execution_mutex, completion_event,
                 operation, locals, memory>>

StoreCommand(c) ==
  /\ pc[c] = "store_command"
  /\ command' = IF pool = "ready" THEN NewCommand(command) ELSE ShutdownCommand
  /\ store_release(c, "command")
  /\ Goto(c, "set_command")
  /\ UNCHANGED <<pool, active_threads, execution_mutex, events, operation, locals>>

(* Only workers whose last command was the old one wait for this event. *)
SetCommandEvent(c) ==
  /\ pc[c] = "set_command"
  /\ command_event' = [command_event EXCEPT ![event_index[c]] = TRUE]
  /\ WakeAll({w \in Workers : last_command[w].bit = event_index[c]},
             c, IF pool = "ready" THEN "run" ELSE "join")
  /\ UNCHANGED <<pool, command, active_threads, execution_mutex, completion_event,
                 operation, locals, memory>>

(* The caller leaves the thread function, which it runs as worker #0. *)
Leave(c) ==
  /\ pc[c] = "run"
  /\ Goto(c, "wait")
  /\ UNCHANGED <<pool, command, active_threads, execution_mutex, events, operation,
                 locals, memory>>

(* Mutant: the event that was waited for is reset. *)
ResetCompletionEventSame(c) ==
  /\ pc[c] = "reset_completion"
  /\ completion_event' = [completion_event EXCEPT ![1 - event_index[c]] = FALSE]
  /\ Goto(c, "unlock")
  /\ UNCHANGED <<pool, command, active_threads, execution_mutex, command_event,
                 operation, locals, memory>>

(* The event of the next operation, which is that of the last one. *)
ResetCompletionEvent(c) ==
  /\ pc[c] = "reset_completion"
  /\ completion_event' = [completion_event EXCEPT ![event_index[c]] = FALSE]
  /\ Goto(c, "unlock")
  /\ UNCHANGED <<pool, command, active_threads, execution_mutex, command_event,
                 operation, locals, memory>>

Unlock(c) ==
  /\ pc[c] = "unlock"
  /\ execution_mutex' = Nobody
  /\ store_release(c, "execution_mutex")
  /\ local_flags' = [local_flags EXCEPT ![c] = {}]
  /\ Goto(c, "idle")
  /\ UNCHANGED <<pool, command, active_threads, events, operation, event_index,
                 last_command, ran>>

-----------------------------------------------------------------------------
(* wait_worker_threads. *)

(* It returns to pthreadpool_parallelize or to pthreadpool_create. *)
Returns(c) ==
  IF pool = "creating" THEN pool' = "ready" /\ Goto(c, "idle")
                       ELSE pool' = pool /\ Goto(c, "reset_completion")

AllCheckedIn(c) ==
  /\ pc[c] \in {"wait", "spin"} /\ active_threads = 0
  /\ load_acquire(c, "active_threads")
  /\ Returns(c)
  /\ UNCHANGED <<command, active_threads, execution_mutex, events, operation, locals>>

(* A load that finds active threads: spin, then fall back to the event. *)
KeepWaiting(c) ==
  /\ active_threads # 0
  /\ \/ pc[c] = "wait" /\ Goto(c, "spin")
     \/ pc[c] = "spin" /\ Goto(c, "event")
  /\ UNCHANGED <<pool, command, active_threads, execution_mutex, events, operation,
                 locals, memory>>

WaitForCompletion(c) ==
  /\ pc[c] = "event"
  /\ Goto(c, IF completion_event[CompletionIndex(c)] THEN "awake" ELSE "asleep")
  /\ UNCHANGED <<pool, command, active_threads, execution_mutex, events, operation,
                 locals, memory>>

(* The wait has ended: the code asserts that no thread is active and goes on. *)
CompletionSignalled(c) ==
  /\ pc[c] = "awake"
  /\ load_acquire(c, CompletionEvent[CompletionIndex(c)])
  /\ Returns(c)
  /\ UNCHANGED <<command, active_threads, execution_mutex, events, operation, locals>>

-----------------------------------------------------------------------------
(* pthreadpool_destroy, which the user calls after all other calls. *)

Destroy(c) ==
  /\ pool = "ready"
  /\ \A d \in Callers : pc[d] = "idle"
  /\ pool' = "stopping"
  /\ synchronize(c, Callers)
  /\ Goto(c, "store_active")
  /\ UNCHANGED <<command, active_threads, execution_mutex, events, operation, locals>>

(* The wait for the last thread returns.  All handles are closed and the *)
(* pool is deallocated.                                                  *)
Join(c) ==
  /\ pc[c] = "join"
  /\ \A w \in Workers : pc[w] = "exited"
  /\ pool' = "released"
  /\ synchronize(c, Workers)
  /\ Goto(c, "idle")
  /\ UNCHANGED <<command, active_threads, execution_mutex, events, operation, locals>>

-----------------------------------------------------------------------------
(* checkin_worker_thread. *)

(* Mutant: the decrement does not acquire. *)
CheckinRelease(w) ==
  /\ pc[w] = "checkin"
  /\ active_threads' = active_threads - 1
  /\ decrement_fetch_release(w, "active_threads")
  /\ Goto(w, IF active_threads' = 0 THEN "set_completion" ELSE "wait")
  /\ UNCHANGED <<pool, command, execution_mutex, events, operation, locals>>

Checkin(w) ==
  /\ pc[w] = "checkin"
  /\ active_threads' = active_threads - 1
  /\ decrement_fetch_acquire_release(w, "active_threads")
  /\ Goto(w, IF active_threads' = 0 THEN "set_completion" ELSE "wait")
  /\ UNCHANGED <<pool, command, execution_mutex, events, operation, locals>>

(* Mutant: the event of the next command. *)
SetCompletionEventNext(w) ==
  /\ pc[w] = "set_completion"
  /\ completion_event' = [completion_event EXCEPT ![1 - last_command[w].bit] = TRUE]
  /\ store_release(w, CompletionEvent[1 - last_command[w].bit])
  /\ WakeAll({c \in Callers : CompletionIndex(c) = 1 - last_command[w].bit}, w, "wait")
  /\ UNCHANGED <<pool, command, active_threads, execution_mutex, command_event,
                 operation, locals>>

(* The event of the command that the worker has carried out.  The caller *)
(* may have gone on already: it does not need the event if it spins.     *)
SetCompletionEvent(w) ==
  /\ pc[w] = "set_completion"
  /\ completion_event' = [completion_event EXCEPT ![last_command[w].bit] = TRUE]
  /\ store_release(w, CompletionEvent[last_command[w].bit])
  /\ WakeAll({c \in Callers : CompletionIndex(c) = last_command[w].bit}, w, "wait")
  /\ UNCHANGED <<pool, command, active_threads, execution_mutex, command_event,
                 operation, locals>>

-----------------------------------------------------------------------------
(* wait_for_new_command, with the fence after it. *)

(* A load that finds a new command, or the load after the wait for the *)
(* event, after which the code asserts that it found one.              *)
SeeCommand(w) ==
  /\ \/ pc[w] \in {"wait", "spin"} /\ command # last_command[w]
     \/ pc[w] = "awake"
  /\ last_command' = [last_command EXCEPT ![w] = command]
  /\ load_acquire(w, "command")
  /\ Goto(w, "dispatch")
  /\ UNCHANGED <<pool, command, active_threads, execution_mutex, events, operation,
                 event_index, local_flags, ran>>

SeeNothing(w) ==
  /\ command = last_command[w]
  /\ \/ pc[w] = "wait" /\ "YIELD_WORKERS" \notin local_flags[w] /\ Goto(w, "spin")
     \/ pc[w] = "wait" /\ "YIELD_WORKERS" \in local_flags[w] /\ Goto(w, "event")
     \/ pc[w] = "spin" /\ Goto(w, "event")
  /\ UNCHANGED <<pool, command, active_threads, execution_mutex, events, operation,
                 locals, memory>>

(* Mutant: every worker waits for the same event. *)
WaitForCommandSame(w) ==
  /\ pc[w] = "event"
  /\ Goto(w, IF command_event[0] THEN "awake" ELSE "asleep")
  /\ UNCHANGED <<pool, command, active_threads, execution_mutex, events, operation,
                 locals, memory>>

WaitForCommand(w) ==
  /\ pc[w] = "event"
  /\ Goto(w, IF command_event[last_command[w].bit] THEN "awake" ELSE "asleep")
  /\ UNCHANGED <<pool, command, active_threads, execution_mutex, events, operation,
                 locals, memory>>

-----------------------------------------------------------------------------
(* thread_main. *)

Dispatch(w) ==
  /\ pc[w] = "dispatch"
  /\ local_flags' = [local_flags EXCEPT ![w] = flags]
  /\ Goto(w, CASE last_command[w].op = "parallelize" -> "enter"
                [] last_command[w].op = "shutdown" -> "exited"
                [] last_command[w].op = "init" -> "checkin")
  /\ UNCHANGED <<pool, command, active_threads, execution_mutex, events, operation,
                 event_index, last_command, ran, memory>>

WorkerEnter(w) ==
  /\ pc[w] = "enter"
  /\ ran' = [ran EXCEPT ![w] = @ + 1]
  /\ store_relaxed(w, {w})
  /\ Goto(w, "run")
  /\ UNCHANGED <<pool, command, active_threads, execution_mutex, events, operation,
                 event_index, last_command, local_flags>>

WorkerLeave(w) ==
  /\ pc[w] = "run"
  /\ Goto(w, "checkin")
  /\ UNCHANGED <<pool, command, active_threads, execution_mutex, events, operation,
                 locals, memory>>

-----------------------------------------------------------------------------
WorkerStep(w) ==
  \/ Checkin(w) \/ SetCompletionEvent(w)
  \/ SeeCommand(w) \/ SeeNothing(w) \/ WaitForCommand(w)
  \/ Dispatch(w) \/ WorkerEnter(w) \/ WorkerLeave(w)

CallerStep(c) ==
  \/ \E w \in Workers : Spawn(c, w)
  \/ AllSpawned(c)
  \/ Lock(c) \/ StoreOperation(c) \/ StoreActive(c) \/ ResetCommandEvent(c)
  \/ StoreCommand(c) \/ SetCommandEvent(c) \/ Leave(c)
  \/ AllCheckedIn(c) \/ KeepWaiting(c) \/ WaitForCompletion(c) \/ CompletionSignalled(c)
  \/ ResetCompletionEvent(c) \/ Unlock(c) \/ Join(c)

(* What the user decides. *)
Environment ==
  \E c \in Callers :
    \/ \E requested \in SUBSET Flag : Parallelize(c, requested)
    \/ Destroy(c)

Next ==
  \/ \E w \in Workers : WorkerStep(w)
  \/ \E c \in Callers : CallerStep(c)
  \/ Environment

Spec == Init /\ [][Next]_vars

(* Every thread that can run is scheduled.  execution_mutex is not fair, *)
(* nor does anything make the user call.                                 *)
Fairness ==
  /\ \A w \in Workers : WF_vars(WorkerStep(w))
  /\ \A c \in Callers : WF_vars(CallerStep(c))

FairSpec == Spec /\ Fairness

-----------------------------------------------------------------------------
CallerLabel ==
  {"idle", "spawn", "lock", "store_operation", "store_active", "reset_command",
   "store_command", "set_command", "run", "wait", "spin", "event", "asleep", "awake",
   "reset_completion", "unlock", "join"}

WorkerLabel ==
  {"unborn", "checkin", "set_completion", "wait", "spin", "event", "asleep", "awake",
   "dispatch", "enter", "run", "exited"}

(* A worker between its start, or the load of a new command, and its *)
(* check-in.                                                         *)
Busy(w) == pc[w] \in {"unborn", "dispatch", "enter", "run", "checkin"}

Command == [op : {"init", "parallelize", "shutdown"}, bit : Bit]

(* Every variable has a value its C type can hold. *)
PoolTypeOK ==
  /\ pool \in {"creating", "ready", "stopping", "released"}
  /\ command \in Command
  /\ active_threads \in 0 .. Cardinality(Workers)
  /\ execution_mutex \in Callers \cup {Nobody}
  /\ completion_event \in [Bit -> BOOLEAN]
  /\ command_event \in [Bit -> BOOLEAN]
  /\ arguments \in Callers \cup {Nobody}
  /\ flags \subseteq Flag
  /\ pc \in [Threads -> CallerLabel \cup WorkerLabel]
  /\ \A c \in Callers : pc[c] \in CallerLabel
  /\ \A w \in Workers : pc[w] \in WorkerLabel
  /\ event_index \in [Callers -> Bit]
  /\ last_command \in [Workers -> Command]
  /\ local_flags \in [Threads -> SUBSET Flag]
  /\ ran \in [Workers -> Nat]

MemoryTypeOK ==
  /\ knows \in [Threads -> SUBSET Data]
  /\ carries \in [Locations -> SUBSET Data]

TypeOK == PoolTypeOK /\ MemoryTypeOK

(* The assertions of wait_worker_threads and wait_for_new_command: a wait   *)
(* for an event ends only when there is what it was for.  No event is still *)
(* set from an earlier operation, or set again by a worker that was late.   *)
WaitsEndForAReason ==
  /\ \A c \in Callers : pc[c] = "awake" => active_threads = 0
  /\ \A w \in Workers : pc[w] = "awake" => command # last_command[w]

(* No wakeup is lost: a thread sleeps although what it waits for is there   *)
(* only while somebody has the SetEvent on its event, and not on the other  *)
(* one of the pair, before him.                                             *)
NoLostWakeup ==
  /\ \A w \in Workers : pc[w] = "asleep" /\ command # last_command[w] =>
       \E c \in Callers : pc[c] = "set_command" /\ event_index[c] = last_command[w].bit
  /\ \A c \in Callers : pc[c] = "asleep" /\ active_threads = 0 =>
       \E w \in Workers : pc[w] = "set_completion" /\ last_command[w].bit = CompletionIndex(c)

(* No thread can read a stale value.  A worker that has seen a command knows *)
(* what its caller stored for it, in whatever way it saw the command; the    *)
(* caller that returns, and the next one that stores, know what all workers  *)
(* have stored, be it through the counter or through the event.              *)
NothingStaleIsRead ==
  /\ \A w \in Workers : Busy(w) /\ pc[w] # "unborn" => {"operation", "count"} \subseteq knows[w]
  /\ \A c \in Callers :
       pc[c] \in {"store_operation", "store_active", "reset_command", "store_command",
                  "reset_completion", "unlock"}
         => Workers \subseteq knows[c]

(* The handshake is a fork and join of all workers. *)
Published(c) ==
  pc[c] \in {"set_command", "run", "wait", "spin", "event", "asleep", "awake", "join"}

Phase ==
  IF pool \in {"creating", "released"} THEN pool
  ELSE IF ~\E c \in Callers : Published(c) THEN "ready"
  ELSE IF pool = "ready" THEN "open" ELSE "stopping"

(* Between two operations the events of the next one are not set, and no    *)
(* worker is about to set one: a worker that found the counter at zero may  *)
(* still have its SetEvent to do when the caller, which spun, has returned, *)
(* but it can only be that of the last operation.                           *)
EventsOfTheNextOperation ==
  Phase = "ready" /\ (\A c \in Callers : pc[c] # "reset_completion") =>
    /\ ~command_event[command.bit]
    /\ ~completion_event[1 - command.bit]
    /\ \A w \in Workers : pc[w] = "set_completion" => last_command[w].bit = command.bit

ToDo == {w \in Workers : \/ Phase = "creating" /\ Busy(w)
                         \/ Phase = "open" /\ ran[w] = 0
                         \/ Phase = "stopping" /\ pc[w] # "exited"}

Inside == {w \in Workers : pc[w] = "run"}

Handshake == INSTANCE ForkJoin WITH phase <- Phase, todo <- ToDo, busy <- Inside

(* This backend keeps the promise of the one with futexes: no event is set *)
(* so late, or reset so early, that a thread waits for ever.               *)
IsForkJoin == Handshake!FairSpec
=============================================================================
