-------------------------- MODULE CondvarPoolProofs --------------------------
(***************************************************************************)
(* The handshake of pthreads.c without futexes is right for every number   *)
(* of workers and callers: what its mutexes protect, and what they need    *)
(* not protect.                                                            *)
(***************************************************************************)
EXTENDS CondvarPool, FiniteSetTheorems, TLAPS

(* A caller that is inside of pthreadpool_create, of an operation that has *)
(* the mutex, or of pthreadpool_destroy.                                   *)
Leads(c) == pc[c] \notin {"idle", "lock"}

(* Where a caller waits for the workers, and a worker for a command. *)
Awaiting == {"wait", "spin", "lock_completion", "relock", "check", "cond_wait", "asleep",
             "unlock_completion"}
Resting == {"wait", "spin", "lock_command", "relock", "check", "cond_wait", "asleep",
            "signal", "unlock_completion"}

Storing == {"lock_command", "store_operation", "store_active", "store_command"}
Running == {"unlock_command", "broadcast", "run"} \cup Awaiting
Exclusive == Storing \cup {"unlock"}

(* The leader has commanded the workers and they may still be at it. *)
Open(c) == pc[c] \in {"spawn"} \cup Running

(* The counter has been stored and the command has not. *)
Preparing(c) == pc[c] = "store_command"

(* A broadcast on the condition variable of the command is still to come. *)
Broadcasts(c) == pc[c] = "broadcast" \/ (pc[c] = "unlock_command" /\ pool = "ready")

(* The thread stands where it has a mutex. *)
HoldsCompletion(t) ==
  IF t \in Workers THEN pc[t] \in {"decrement", "signal", "unlock_completion"}
                   ELSE pc[t] \in {"check", "cond_wait", "unlock_completion"}

HoldsCommand(t) ==
  IF t \in Workers THEN pc[t] \in {"check", "cond_wait", "unlock_command"}
  ELSE \/ pc[t] \in {"store_operation", "store_active", "store_command", "unlock_command"}
       \/ pc[t] = "broadcast" /\ pool = "stopping"

(* A thread leaves a mutex alone, takes it or gives it away. *)
CompletionHandled(t) ==
  \/ UNCHANGED completion_mutex /\ (HoldsCompletion(t)' <=> HoldsCompletion(t))
  \/ completion_mutex = Nobody /\ completion_mutex' = t /\ HoldsCompletion(t)'
  \/ completion_mutex = t /\ completion_mutex' = Nobody /\ ~HoldsCompletion(t)'

CommandHandled(t) ==
  \/ UNCHANGED command_mutex /\ (HoldsCommand(t)' <=> HoldsCommand(t))
  \/ command_mutex = Nobody /\ command_mutex' = t /\ HoldsCommand(t)'
  \/ command_mutex = t /\ command_mutex' = Nobody /\ ~HoldsCommand(t)'

(* A worker that has to check in before the wait for the workers is over. *)
Owers == {w \in Workers : Owes(w)}

-----------------------------------------------------------------------------
(* The inductive invariant. *)

(* At most one caller leads, and what it can be doing depends on the pool. *)
LeaderInv ==
  /\ \A c, d \in Callers : Leads(c) /\ Leads(d) => c = d
  /\ pool \in {"creating", "stopping"} => \E c \in Callers : Leads(c)
  /\ pool # "ready" => execution_mutex = Nobody /\ \A c \in Callers : pc[c] # "lock"
  /\ \A c \in Callers :
       /\ pool = "creating" => pc[c] \in {"idle", "spawn"} \cup Awaiting
       /\ pool = "ready" =>
            /\ pc[c] \in {"idle", "lock"} \cup Exclusive \cup Running
            /\ Leads(c) <=> execution_mutex = c
       /\ pool = "stopping" =>
            pc[c] \in {"idle", "lock_command", "store_active", "store_command", "broadcast",
                       "unlock_command", "join"}
       /\ pool = "released" => pc[c] = "idle"

(* The command is init until the first operation and shutdown once the *)
(* leader of pthreadpool_destroy has stored it.                        *)
CommandInv ==
  /\ pool = "creating" => command = InitCommand
  /\ command.op = "init" => command = InitCommand /\ \A w \in Workers : last_command[w] = command
  /\ pool \in {"creating", "ready"} => command.op # "shutdown"
  /\ pool = "stopping" => \A c \in Callers :
       Leads(c) => (command.op = "shutdown" <=> pc[c] \in {"broadcast", "unlock_command", "join"})
  /\ pool = "released" => command.op = "shutdown"

(* A worker is busy only with the last command, and only as it says. *)
WorkerInv ==
  \A w \in Workers :
    /\ Busy(w) \/ pc[w] = "exited" => last_command[w] = command
    /\ pc[w] = "unborn" => pool = "creating"
    /\ pc[w] \in {"unlock_command", "dispatch"} => command.op # "init"
    /\ pc[w] \in {"enter", "run"} => command.op = "parallelize"
    /\ command.op = "shutdown" =>
         IF last_command[w] = command THEN pc[w] \in {"unlock_command", "dispatch", "exited"}
                                      ELSE pc[w] \in Resting
    /\ pc[w] = "exited" => command.op = "shutdown"
    /\ pool = "released" => pc[w] = "exited"

(* The counter counts the workers that have to check in, and is stored when *)
(* there are none.                                                          *)
CountInv ==
  /\ (~\E c \in Callers : Preparing(c)) /\ command.op # "shutdown" =>
       active_threads = Cardinality(Owers)
  /\ (\E c \in Callers : Preparing(c)) => active_threads = Cardinality(Workers)
  /\ command.op # "shutdown" /\ (~\E c \in Callers : Open(c)) => \A w \in Workers : ~Owes(w)

(* Each mutex is held by the thread that stands between the call that locks *)
(* it and the one that unlocks it, or waits.                                *)
MutexInv ==
  \A t \in Threads :
    /\ HoldsCompletion(t) <=> completion_mutex = t
    /\ HoldsCommand(t) <=> command_mutex = t

(* What a thread has checked under a mutex is true until it sleeps; from    *)
(* then on a change has somebody who will wake it.                          *)
WakeupInv ==
  /\ \A w \in Workers :
       /\ pc[w] = "cond_wait" => command = last_command[w]
       /\ pc[w] = "asleep" /\ command # last_command[w] => \E c \in Callers : Broadcasts(c)
  /\ \A c \in Callers :
       /\ pc[c] = "cond_wait" => active_threads # 0
       /\ pc[c] = "unlock_completion" => active_threads = 0
       /\ pc[c] = "asleep" /\ active_threads = 0 => \E w \in Workers : pc[w] = "signal"

(* Every worker runs once in the operation of the leader. *)
OperationInv ==
  \A c \in Callers, w \in Workers : pool = "ready" /\ Leads(c) =>
    ran[w] = IF \/ pc[c] \in Storing \/ command # last_command[w]
                \/ pc[w] \in {"unlock_command", "dispatch", "enter"} THEN 0 ELSE 1

IInv ==
  /\ PoolTypeOK /\ LeaderInv /\ CommandInv /\ WorkerInv
  /\ CountInv /\ MutexInv /\ WakeupInv /\ OperationInv

(* What a caller stores and a worker reads. *)
Handed == {"operation", "count"}

Started(w) == pc[w] # "unborn"
AtWork(w) == pc[w] \in {"unlock_command", "dispatch", "enter", "run", "checkin", "decrement"}

(* The leader waits for the workers, or will. *)
Awaited == pool \in {"creating", "ready"} /\ \E c \in Callers : Open(c)

-----------------------------------------------------------------------------
(* The inductive invariant of the memory. *)

(* Whoever may store knows all there is, and so does the leader when he has *)
(* seen that all workers have checked in, and some caller when none leads.  *)
(* execution_mutex passes that on to the others.                            *)
CallersKnow ==
  /\ \A c \in Callers : pc[c] \in Exclusive \cup {"unlock_completion"} => Data \subseteq knows[c]
  /\ pool = "creating" => \A c \in Callers : Data \subseteq knows[c]
  /\ pool = "ready" => \A c \in Callers : pc[c] \in Running => Handed \subseteq knows[c]
  /\ pool = "ready" /\ (\A c \in Callers : ~Leads(c)) =>
       /\ \A c \in Callers : Data \subseteq knows[c] \cup carries["execution_mutex"]
       /\ \E c \in Callers : Data \subseteq knows[c]

(* The command brings the operation to the workers. *)
CommandCarries ==
  \A w \in Workers :
    /\ Started(w) => w \in knows[w]
    /\ AtWork(w) => Handed \subseteq knows[w]
    /\ command # last_command[w] => Handed \subseteq carries["command"]

(* The counter collects what the workers have stored. *)
CounterCarries ==
  Awaited => \A w \in Workers : Owes(w) \/ w \in carries["active_threads"]

MemInv == MemoryTypeOK /\ CallersKnow /\ CommandCarries /\ CounterCarries
-----------------------------------------------------------------------------
(* The callers are no workers. *)
LEMMA ThreadKinds ==
  Callers \cap Workers = {} /\ Threads = Workers \cup Callers /\ Nobody \notin Threads
  BY CallersAssumption DEF Threads

(* The number of workers, and of those among them that owe a check-in. *)
LEMMA CountWorkers ==
  /\ Cardinality(Workers) \in Nat
  /\ Cardinality(Workers) > 0
  /\ IsFiniteSet(Owers)
  /\ Cardinality(Owers) \in 0 .. Cardinality(Workers)
  /\ Cardinality(Owers) = 0 <=> \A w \in Workers : ~Owes(w)
  <1>1. Owers \in SUBSET Workers /\ (Owers = {} <=> \A w \in Workers : ~Owes(w))
    BY DEF Owers
  <1>2. IsFiniteSet(Workers) /\ Workers # {} /\ Cardinality(Workers) \in Nat
    BY WorkersAssumption, FS_CardinalityType
  <1>3. Cardinality(Workers) # 0
    BY <1>2, FS_EmptySet
  <1>4. IsFiniteSet(Owers) /\ Cardinality(Owers) <= Cardinality(Workers) /\ Cardinality(Owers) \in Nat
    BY <1>1, <1>2, FS_Subset, FS_CardinalityType
  <1>5. Cardinality(Owers) = 0 <=> Owers = {}
    BY <1>4, FS_EmptySet
  <1> QED BY <1>1, <1>2, <1>3, <1>4, <1>5

(* The bit that flips tells a new command from the one before it. *)
LEMMA NewCommandIsNew ==
  ASSUME NEW old \in Command
  PROVE  /\ NewCommand(old) \in Command /\ ShutdownCommand \in Command
         /\ NewCommand(old).op = "parallelize" /\ ShutdownCommand.op = "shutdown"
         /\ NewCommand(old) # old
         /\ old.op # "shutdown" => ShutdownCommand # old
  BY DEF Command, NewCommand, ShutdownCommand

(* A mutex has one holder, and a thread that handles it disturbs no other. *)
LEMMA MutexesAreHandled ==
  ASSUME PoolTypeOK, MutexInv, NEW t \in Threads,
         CompletionHandled(t),
         CommandHandled(t),
         \A s \in Threads : s # t => /\ HoldsCompletion(s)' <=> HoldsCompletion(s)
                                     /\ HoldsCommand(s)' <=> HoldsCommand(s)
  PROVE  /\ MutexInv'
         /\ completion_mutex' \in Threads \cup {Nobody}
         /\ command_mutex' \in Threads \cup {Nobody}
  <1>1. /\ \A s \in Threads : HoldsCompletion(s)' <=> completion_mutex' = s
        /\ completion_mutex' \in Threads \cup {Nobody}
    BY ThreadKinds DEF CompletionHandled, MutexInv, PoolTypeOK
  <1>2. /\ \A s \in Threads : HoldsCommand(s)' <=> command_mutex' = s
        /\ command_mutex' \in Threads \cup {Nobody}
    BY ThreadKinds DEF CommandHandled, MutexInv, PoolTypeOK
  <1> QED BY <1>1, <1>2 DEF MutexInv

(* While a caller stores, or ends its operation, the workers are at rest. *)
LEMMA ExclusiveMeansRest ==
  ASSUME IInv, NEW c \in Callers, pc[c] \in Exclusive
  PROVE  /\ \A d \in Callers : Leads(d) <=> d = c
         /\ \A d \in Callers : ~Open(d)
         /\ pool \in {"ready", "stopping"} /\ command.op # "shutdown"
         /\ \A w \in Workers : ~Owes(w)
  <1>0. PoolTypeOK /\ LeaderInv /\ CommandInv /\ CountInv
    BY DEF IInv
  <1>1. \A d \in Callers : Leads(d) <=> d = c
    BY <1>0 DEF Exclusive, Storing, Leads, LeaderInv
  <1>2. \A d \in Callers : ~Open(d)
    BY <1>1 DEF Exclusive, Storing, Leads, Open, Running, Awaiting
  <1>3. pool \in {"ready", "stopping"} /\ command.op # "shutdown"
    BY <1>0, <1>1 DEF Exclusive, Storing, LeaderInv, CommandInv, PoolTypeOK, Awaiting
  <1> QED BY <1>0, <1>1, <1>2, <1>3 DEF CountInv

(* A caller that waits has commanded the workers or created them, and the *)
(* counter tells whether any of them is still to come.                    *)
LEMMA WaitersCount ==
  ASSUME IInv, NEW c \in Callers, pc[c] \in {"spawn"} \cup Awaiting
  PROVE  /\ pool \in {"creating", "ready"} /\ command.op # "shutdown"
         /\ pool = "ready" => pc[c] \in Awaiting
         /\ \A d \in Callers : Leads(d) <=> d = c
         /\ Open(c)
         /\ active_threads = 0 <=> \A w \in Workers : ~Owes(w)
  <1>0. PoolTypeOK /\ LeaderInv /\ CommandInv /\ CountInv
    BY DEF IInv
  <1>1. pool \in {"creating", "ready"} /\ (pool = "ready" => pc[c] \in Awaiting)
    BY <1>0 DEF PoolTypeOK, LeaderInv, Awaiting, Exclusive, Storing, Running
  <1>2. command.op # "shutdown" /\ Open(c)
    BY <1>0, <1>1 DEF CommandInv, Open, Running
  <1>3. \A d \in Callers : Leads(d) <=> d = c
    BY <1>0 DEF LeaderInv, Leads, Awaiting
  <1>4. active_threads = Cardinality(Owers)
    BY <1>0, <1>2, <1>3 DEF CountInv, Preparing, Leads, Awaiting
  <1> QED BY <1>1, <1>2, <1>3, <1>4, CountWorkers

-----------------------------------------------------------------------------
(* Steps that move one thread and change at most a mutex. *)

(* A worker that owes its check-in before and after the step, or neither. *)
LEMMA WorkerMoves ==
  ASSUME IInv, NEW w \in Workers, NEW label \in WorkerLabel,
         pc' = [pc EXCEPT ![w] = label],
         UNCHANGED <<pool, command, active_threads, execution_mutex, operation, locals>>,
         CompletionHandled(w),
         CommandHandled(w),
         Busy(w)' <=> Busy(w),
         pc[w] \notin {"exited", "signal"},
         label \notin {"unborn", "enter", "run", "exited"},
         label \in {"unlock_command", "dispatch"} <=> pc[w] \in {"unlock_command", "dispatch", "enter"},
         pc[w] \in Resting => label \in Resting,
         label = "cond_wait" => command = last_command[w],
         label = "asleep" => pc[w] = "cond_wait"
  PROVE  IInv'
  <1> USE DEF operation, locals
  <1>0. /\ PoolTypeOK /\ LeaderInv /\ CommandInv /\ WorkerInv
        /\ CountInv /\ MutexInv /\ WakeupInv /\ OperationInv
    BY DEF IInv
  <1>1. /\ \A s \in Threads : pc'[s] = IF s = w THEN label ELSE pc[s]
        /\ \A v \in Workers : pc'[v] = IF v = w THEN label ELSE pc[v]
        /\ \A c \in Callers : pc'[c] = pc[c]
    BY <1>0, ThreadKinds DEF PoolTypeOK
  <1>2. \A v \in Workers : Owes(v)' <=> Owes(v)
    BY <1>1 DEF Owes, Busy
  <1>3. /\ MutexInv'
        /\ completion_mutex' \in Threads \cup {Nobody}
        /\ command_mutex' \in Threads \cup {Nobody}
    <2>1. \A s \in Threads : s # w => /\ HoldsCompletion(s)' <=> HoldsCompletion(s)
                                      /\ HoldsCommand(s)' <=> HoldsCommand(s)
      BY <1>1 DEF HoldsCompletion, HoldsCommand
    <2> QED BY <1>0, <2>1, ThreadKinds, MutexesAreHandled
  <1>4. PoolTypeOK'
    BY <1>0, <1>1, <1>3 DEF PoolTypeOK
  <1>5. LeaderInv' /\ CommandInv'
    BY <1>0, <1>1 DEF LeaderInv, CommandInv, Leads
  <1>6. WorkerInv'
    BY <1>0, <1>1 DEF WorkerInv, Busy, Resting
  <1>7. CountInv'
    <2>1. Owers' = Owers
      BY <1>2 DEF Owers
    <2> QED BY <1>0, <1>1, <1>2, <2>1 DEF CountInv, Preparing, Open
  <1>8. WakeupInv'
    <2>1. \A v \in Workers : pc[v] = "signal" => pc'[v] = "signal"
      BY <1>1
    <2>2. \A c \in Callers : Broadcasts(c)' <=> Broadcasts(c)
      BY <1>1 DEF Broadcasts
    <2> QED BY <1>0, <1>1, <2>1, <2>2 DEF WakeupInv
  <1>9. OperationInv'
    BY <1>0, <1>1 DEF OperationInv, Leads
  <1> QED BY <1>3, <1>4, <1>5, <1>6, <1>7, <1>8, <1>9 DEF IInv

(* A caller that leads before and after the step, or neither. *)
LEMMA CallerMoves ==
  ASSUME IInv, NEW c \in Callers, NEW label \in CallerLabel,
         pc' = [pc EXCEPT ![c] = label],
         UNCHANGED <<pool, command, active_threads, execution_mutex, last_command, ran>>,
         arguments' \in Callers \cup {Nobody}, flags' \subseteq Flag,
         local_flags' \in [Threads -> SUBSET Flag],
         CompletionHandled(c),
         CommandHandled(c),
         Leads(c)' <=> Leads(c),
         command.op # "shutdown" => (Open(c)' <=> Open(c)),
         Broadcasts(c) => Broadcasts(c)',
         pc[c] # "store_command" /\ label # "store_command",
         label \in Storing <=> pc[c] \in Storing,
         pool # "released",
         pool = "creating" => label \in Awaiting,
         pool = "ready" => label \in {"idle", "lock"} \cup Exclusive \cup Running,
         pool = "stopping" =>
           /\ label \in {"store_active", "broadcast", "unlock_command", "join"}
           /\ label = "store_active" <=> pc[c] \notin {"broadcast", "unlock_command", "join"},
         label = "cond_wait" => active_threads # 0,
         label = "unlock_completion" => active_threads = 0,
         label = "asleep" => pc[c] = "cond_wait"
  PROVE  IInv'
  <1>0. /\ PoolTypeOK /\ LeaderInv /\ CommandInv /\ WorkerInv
        /\ CountInv /\ MutexInv /\ WakeupInv /\ OperationInv
    BY DEF IInv
  <1>1. /\ \A s \in Threads : pc'[s] = IF s = c THEN label ELSE pc[s]
        /\ \A w \in Workers : pc'[w] = pc[w]
        /\ \A d \in Callers : pc'[d] = IF d = c THEN label ELSE pc[d]
    BY <1>0, ThreadKinds DEF PoolTypeOK
  <1>2. \A d \in Callers :
          /\ Leads(d)' <=> Leads(d)
          /\ command.op # "shutdown" => (Open(d)' <=> Open(d))
          /\ Broadcasts(d) => Broadcasts(d)'
    BY <1>1 DEF Leads, Preparing, Open, Broadcasts
  <1>3. /\ MutexInv'
        /\ completion_mutex' \in Threads \cup {Nobody}
        /\ command_mutex' \in Threads \cup {Nobody}
    <2>1. \A s \in Threads : s # c => /\ HoldsCompletion(s)' <=> HoldsCompletion(s)
                                      /\ HoldsCommand(s)' <=> HoldsCommand(s)
      BY <1>1 DEF HoldsCompletion, HoldsCommand
    <2> QED BY <1>0, <2>1, ThreadKinds, MutexesAreHandled
  <1>4. PoolTypeOK'
    BY <1>0, <1>1, <1>3 DEF PoolTypeOK
  <1>5. LeaderInv'
    <2>1. \A d \in Callers : pc'[d] = "lock" => pool = "ready"
      BY <1>0, <1>1 DEF PoolTypeOK, LeaderInv, Awaiting
    <2> QED BY <1>0, <1>1, <1>2, <2>1 DEF PoolTypeOK, LeaderInv
  <1>6. CommandInv'
    BY <1>0, <1>1, <1>2 DEF CommandInv
  <1>7. WorkerInv'
    BY <1>0, <1>1 DEF WorkerInv, Busy
  <1>8. CountInv'
    <2>1. \A w \in Workers : Owes(w)' <=> Owes(w)
      BY <1>1 DEF Owes, Busy
    <2>2. Owers' = Owers
      BY <2>1 DEF Owers
    <2>3. \A d \in Callers : Preparing(d)' <=> Preparing(d)
      BY <1>1 DEF Preparing
    <2> QED BY <1>0, <1>2, <2>1, <2>2, <2>3 DEF CountInv
  <1>9. WakeupInv'
    BY <1>0, <1>1, <1>2 DEF WakeupInv
  <1>10. OperationInv'
    BY <1>0, <1>1, <1>2 DEF OperationInv
  <1> QED BY <1>3, <1>4, <1>5, <1>6, <1>7, <1>8, <1>9, <1>10 DEF IInv

(* The worker of pthreadpool_create that starts, the one that leaves the *)
(* thread function, and those that handle a mutex or go to sleep.        *)
LEMMA WorkerMovesKeepInv ==
  ASSUME IInv, NEW w \in Workers,
         \/ \E c \in Callers : Spawn(c, w)
         \/ CheckinLock(w) \/ CheckinUnlock(w) \/ SeeNothing(w) \/ WorkerLockCommand(w)
         \/ ReadNothing(w) \/ WaitForCommand(w) \/ WorkerUnlockCommand(w) \/ WorkerLeave(w)
         \/ SpuriousWakeup(w)
  PROVE  IInv'
  <1> USE DEF Goto, mutexes, operation, locals, LockCompletionMutex, UnlockCompletionMutex,
              LockCommandMutex, UnlockCommandMutex
  <1>0. PoolTypeOK /\ MutexInv /\ w \in Threads /\ w \notin Callers
    BY ThreadKinds DEF IInv
  <1>1. UNCHANGED <<pool, command, active_threads, execution_mutex, operation, locals>>
    BY DEF Spawn, CheckinLock, CheckinUnlock, SeeNothing, WorkerLockCommand, ReadNothing,
           WaitForCommand, WorkerUnlockCommand, WorkerLeave, SpuriousWakeup
  <1>2. PICK label \in WorkerLabel :
          /\ pc' = [pc EXCEPT ![w] = label] /\ pc'[w] = label
          /\ <<pc[w], label>> \in
               {<<"unborn", "checkin">>, <<"checkin", "decrement">>, <<"unlock_completion", "wait">>,
                <<"wait", "spin">>, <<"wait", "lock_command">>, <<"spin", "lock_command">>,
                <<"lock_command", "check">>, <<"relock", "check">>, <<"check", "cond_wait">>,
                <<"cond_wait", "asleep">>, <<"unlock_command", "dispatch">>, <<"run", "checkin">>,
                <<"asleep", "relock">>}
          /\ label = "cond_wait" => command = last_command[w]
    BY <1>0 DEF Spawn, CheckinLock, CheckinUnlock, SeeNothing, WorkerLockCommand, ReadNothing,
           WaitForCommand, WorkerUnlockCommand, WorkerLeave, SpuriousWakeup, PoolTypeOK, WorkerLabel
  <1>3. CompletionHandled(w)
    <2>1. HoldsCompletion(w) => completion_mutex = w
      BY <1>0 DEF MutexInv
    <2> QED BY <1>0, <1>2, <2>1
            DEF CompletionHandled, HoldsCompletion, Spawn, CheckinLock, CheckinUnlock, SeeNothing,
                WorkerLockCommand, ReadNothing, WaitForCommand, WorkerUnlockCommand, WorkerLeave,
                SpuriousWakeup
  <1>4. CommandHandled(w)
    <2>1. HoldsCommand(w) => command_mutex = w
      BY <1>0 DEF MutexInv
    <2> QED BY <1>0, <1>2, <2>1
            DEF CommandHandled, HoldsCommand, Spawn, CheckinLock, CheckinUnlock, SeeNothing,
                WorkerLockCommand, ReadNothing, WaitForCommand, WorkerUnlockCommand, WorkerLeave,
                SpuriousWakeup
  <1>5. /\ Busy(w)' <=> Busy(w)
        /\ pc[w] \notin {"exited", "signal"}
        /\ label \notin {"unborn", "enter", "run", "exited"}
        /\ label \in {"unlock_command", "dispatch"} <=> pc[w] \in {"unlock_command", "dispatch", "enter"}
        /\ pc[w] \in Resting => label \in Resting
        /\ label = "asleep" => pc[w] = "cond_wait"
    BY <1>2 DEF Busy, Resting
  <1> QED BY <1>1, <1>2, <1>3, <1>4, <1>5, WorkerMoves

(* A caller that begins to wait, keeps waiting or checks the counter, and *)
(* one that is woken: it goes to sleep only after a check that failed.    *)
LEMMA WaitingKeepsInv ==
  ASSUME IInv, NEW c \in Callers,
         \/ AllSpawned(c) \/ KeepWaiting(c) \/ LockCompletion(c) \/ CheckCompletion(c)
         \/ CheckFails(c) \/ WaitForCompletion(c) \/ SpuriousWakeup(c)
  PROVE  IInv'
  <1> USE DEF Goto, mutexes, operation, locals, LockCompletionMutex, UnlockCompletionMutex
  <1>0. PoolTypeOK /\ MutexInv /\ LeaderInv /\ c \in Threads /\ c \notin Workers
    BY ThreadKinds DEF IInv
  <1>1. UNCHANGED <<pool, command, active_threads, execution_mutex, command_mutex, operation, locals>>
    BY DEF AllSpawned, KeepWaiting, LockCompletion, CheckCompletion, CheckFails, WaitForCompletion,
           SpuriousWakeup
  <1>2. PICK label \in Awaiting :
          /\ pc' = [pc EXCEPT ![c] = label] /\ pc'[c] = label
          /\ <<pc[c], label>> \in
               {<<"spawn", "wait">>, <<"wait", "spin">>, <<"spin", "lock_completion">>,
                <<"lock_completion", "check">>, <<"relock", "check">>,
                <<"check", "unlock_completion">>, <<"check", "cond_wait">>,
                <<"cond_wait", "asleep">>, <<"asleep", "relock">>}
          /\ label = "cond_wait" => active_threads # 0
          /\ label = "unlock_completion" => active_threads = 0
    BY <1>0 DEF AllSpawned, KeepWaiting, LockCompletion, CheckCompletion, CheckFails,
           WaitForCompletion, SpuriousWakeup, PoolTypeOK, Awaiting
  <1>3. CompletionHandled(c)
    <2>1. HoldsCompletion(c) => completion_mutex = c
      BY <1>0 DEF MutexInv
    <2> QED BY <1>0, <1>2, <2>1
            DEF CompletionHandled, HoldsCompletion, AllSpawned, KeepWaiting, LockCompletion,
                CheckCompletion, CheckFails, WaitForCompletion, SpuriousWakeup
  <1>4. CommandHandled(c)
    BY <1>0, <1>1, <1>2 DEF CommandHandled, HoldsCommand
  <1>5. pc[c] \in {"spawn"} \cup Awaiting
    BY <1>2 DEF Awaiting
  <1>6. pool \in {"creating", "ready"} /\ (pool = "ready" => pc[c] \in Awaiting)
    BY <1>5, WaitersCount
  <1>7. /\ Leads(c)' <=> Leads(c)
        /\ Open(c)' <=> Open(c)
        /\ ~Broadcasts(c) /\ label \in CallerLabel
        /\ pc[c] # "store_command" /\ label # "store_command"
        /\ label \notin Storing /\ pc[c] \notin Storing
        /\ label = "asleep" => pc[c] = "cond_wait"
    BY <1>2 DEF Leads, Open, Running, Awaiting, Broadcasts, Storing, CallerLabel
  <1>8. label \in Running
    BY DEF Running
  <1>9. arguments' \in Callers \cup {Nobody} /\ flags' \subseteq Flag /\ local_flags' \in [Threads -> SUBSET Flag]
    BY <1>0, <1>1 DEF PoolTypeOK
  <1> HIDE DEF operation, locals
  <1>10. UNCHANGED <<last_command, ran>>
    BY <1>1 DEF locals
  <1> QED BY <1>1, <1>2, <1>3, <1>4, <1>6, <1>7, <1>8, <1>9, <1>10, CallerMoves

(* What a caller does with the workers at rest, or already commanded: he     *)
(* takes command_mutex, stores the arguments, and gives the mutex away again *)
(* before his broadcast, or after it if he destroys the pool.                *)
LEMMA CallerMovesKeepInv ==
  ASSUME IInv, NEW c \in Callers,
         \/ \E requested \in SUBSET Flag : Parallelize(c, requested)
         \/ LockCommand(c) \/ StoreOperation(c) \/ UnlockCommand(c) \/ Leave(c)
  PROVE  IInv'
  <1> USE DEF Goto, mutexes, operation, locals, LockCommandMutex, UnlockCommandMutex
  <1>0. PoolTypeOK /\ MutexInv /\ LeaderInv /\ CommandInv /\ c \in Threads /\ c \notin Workers
    BY ThreadKinds DEF IInv
  <1>1. UNCHANGED <<pool, command, active_threads, execution_mutex, completion_mutex, last_command, ran>>
    BY DEF Parallelize, LockCommand, StoreOperation, UnlockCommand, Leave
  <1>2. PICK label \in CallerLabel :
          /\ pc' = [pc EXCEPT ![c] = label] /\ pc'[c] = label
          /\ <<pc[c], label>> \in
               {<<"idle", "lock">>, <<"lock_command", "store_operation">>,
                <<"lock_command", "store_active">>, <<"store_operation", "store_active">>,
                <<"unlock_command", "broadcast">>, <<"unlock_command", "join">>,
                <<"run", "wait">>}
          /\ pc[c] = "idle" => pool = "ready"
          /\ <<pc[c], label>> = <<"unlock_command", "broadcast">> => pool = "ready"
          /\ pc[c] = "lock_command" => label = IF pool = "ready" THEN "store_operation" ELSE "store_active"
          /\ label = "join" => pool # "ready"
    BY <1>0 DEF Parallelize, LockCommand, StoreOperation, UnlockCommand, Leave, PoolTypeOK, CallerLabel
  <1>3. CompletionHandled(c)
    BY <1>0, <1>1, <1>2 DEF CompletionHandled, HoldsCompletion
  <1>4. CommandHandled(c)
    <2>1. HoldsCommand(c) => command_mutex = c
      BY <1>0 DEF MutexInv
    <2> QED BY <1>0, <1>1, <1>2, <2>1
            DEF CommandHandled, HoldsCommand, Parallelize, LockCommand, StoreOperation,
                UnlockCommand, Leave
  <1>5. /\ pool \in {"ready", "stopping"}
        /\ pool = "stopping" =>
             <<pc[c], label>> \in {<<"lock_command", "store_active">>, <<"unlock_command", "join">>}
    BY <1>0, <1>2 DEF PoolTypeOK, LeaderInv, Awaiting
  <1>6. command.op # "shutdown" => pool = "ready" \/ pc[c] = "lock_command"
    BY <1>0, <1>2, <1>5 DEF CommandInv, Leads
  <1>7. /\ Leads(c)' <=> Leads(c)
        /\ command.op # "shutdown" => (Open(c)' <=> Open(c))
        /\ Broadcasts(c) => Broadcasts(c)'
        /\ pc[c] # "store_command" /\ label # "store_command"
        /\ label \in Storing <=> pc[c] \in Storing
        /\ label \notin {"cond_wait", "unlock_completion", "asleep"}
    BY <1>1, <1>2, <1>5, <1>6 DEF Leads, Open, Running, Awaiting, Broadcasts, Storing
  <1>8. pool = "ready" => label \in {"idle", "lock"} \cup Exclusive \cup Running
    BY <1>2 DEF Exclusive, Storing, Running, Awaiting
  <1>9. pool = "stopping" =>
          /\ label \in {"store_active", "broadcast", "unlock_command", "join"}
          /\ label = "store_active" <=> pc[c] \notin {"broadcast", "unlock_command", "join"}
    BY <1>5
  <1>10. /\ arguments' \in Callers \cup {Nobody} /\ flags' \subseteq Flag
         /\ local_flags' \in [Threads -> SUBSET Flag]
    BY <1>0 DEF Parallelize, LockCommand, StoreOperation, UnlockCommand, Leave, PoolTypeOK
  <1> HIDE DEF operation, locals
  <1> QED BY <1>1, <1>2, <1>3, <1>4, <1>5, <1>7, <1>8, <1>9, <1>10, CallerMoves

-----------------------------------------------------------------------------
(* The other steps of a worker. *)

(* The worker that checks in owes nothing any more; the one that finds no *)
(* other to come has to signal.                                           *)
LEMMA DecrementKeepsInv ==
  ASSUME IInv, NEW w \in Workers, Decrement(w)
  PROVE  IInv'
  <1> USE DEF Decrement, Goto, mutexes, operation, locals
  <1>0. /\ PoolTypeOK /\ LeaderInv /\ CommandInv /\ WorkerInv
        /\ CountInv /\ MutexInv /\ WakeupInv /\ OperationInv
    BY DEF IInv
  <1> DEFINE label == IF active_threads' = 0 THEN "signal" ELSE "unlock_completion"
  <1>1. /\ pc[w] = "decrement" /\ label \in {"signal", "unlock_completion"}
        /\ \A s \in Threads : pc'[s] = IF s = w THEN label ELSE pc[s]
        /\ \A v \in Workers : pc'[v] = IF v = w THEN label ELSE pc[v]
        /\ \A c \in Callers : pc'[c] = pc[c]
    BY <1>0, ThreadKinds DEF PoolTypeOK
  <1>2. /\ UNCHANGED <<pool, command, execution_mutex, completion_mutex, command_mutex, arguments,
                       flags, last_command, local_flags, ran>>
        /\ active_threads' = active_threads - 1 /\ pc' = [pc EXCEPT ![w] = label]
    OBVIOUS
  <1> HIDE DEF Decrement, label
  <1>3. /\ w \in Owers /\ last_command[w] = command /\ command.op # "shutdown"
        /\ \A c \in Callers : ~Preparing(c)
        /\ active_threads = Cardinality(Owers) /\ active_threads > 0
    <2>1. w \in Owers /\ last_command[w] = command /\ command.op # "shutdown"
      BY <1>0, <1>1 DEF WorkerInv, Owers, Owes, Busy
    <2>2. \A c \in Callers : ~Preparing(c)
      BY <2>1, ExclusiveMeansRest DEF Owers, Preparing, Exclusive, Storing
    <2>3. active_threads = Cardinality(Owers)
      BY <1>0, <2>1, <2>2 DEF CountInv
    <2> QED BY <2>1, <2>2, <2>3, CountWorkers DEF Owers
  <1>4. \A v \in Workers : Owes(v)' <=> Owes(v) /\ v # w
    BY <1>1, <1>2, <1>3 DEF Owes, Busy
  <1>5. \A c \in Callers : /\ Leads(c)' <=> Leads(c)
                           /\ Preparing(c)' <=> Preparing(c)
                           /\ Open(c)' <=> Open(c)
                           /\ Broadcasts(c)' <=> Broadcasts(c)
    BY <1>1, <1>2 DEF Leads, Preparing, Open, Broadcasts
  <1>6. PoolTypeOK'
    <2>1. label \in WorkerLabel
      BY <1>1 DEF WorkerLabel
    <2>2. active_threads' \in 0 .. Cardinality(Workers)
      BY <1>0, <1>2, <1>3, CountWorkers DEF PoolTypeOK
    <2> QED BY <1>0, <1>1, <1>2, <2>1, <2>2 DEF PoolTypeOK
  <1>7. LeaderInv' /\ CommandInv'
    BY <1>0, <1>1, <1>2, <1>5 DEF LeaderInv, CommandInv
  <1>8. WorkerInv'
    BY <1>0, <1>1, <1>2, <1>3 DEF WorkerInv, Busy
  <1>9. CountInv'
    <2>1. Owers' = Owers \ {w}
      BY <1>4 DEF Owers
    <2>2. Cardinality(Owers') = Cardinality(Owers) - 1
      BY <1>3, <2>1, CountWorkers, FS_RemoveElement
    <2> QED BY <1>0, <1>2, <1>3, <1>4, <1>5, <2>2 DEF CountInv
  <1>10. MutexInv'
    BY <1>0, <1>1, <1>2 DEF MutexInv, HoldsCompletion, HoldsCommand
  <1>11. WakeupInv'
    <2>1. \A c \in Callers : pc[c] \notin {"cond_wait", "unlock_completion"}
      BY <1>0, <1>1, ThreadKinds DEF MutexInv, HoldsCompletion
    <2>2. active_threads' = 0 => pc'[w] = "signal"
      BY <1>1 DEF label
    <2> QED BY <1>0, <1>1, <1>2, <1>5, <2>1, <2>2 DEF WakeupInv
  <1>12. OperationInv'
    BY <1>0, <1>1, <1>2, <1>5 DEF OperationInv
  <1> QED BY <1>6, <1>7, <1>8, <1>9, <1>10, <1>11, <1>12 DEF IInv

(* The signal wakes the caller, if he sleeps. *)
LEMMA SignalKeepsInv ==
  ASSUME IInv, NEW w \in Workers, Signal(w)
  PROVE  IInv'
  <1> USE DEF Signal, WakeAll, mutexes, operation, locals
  <1>0. /\ PoolTypeOK /\ LeaderInv /\ CommandInv /\ WorkerInv
        /\ CountInv /\ MutexInv /\ WakeupInv /\ OperationInv
    BY DEF IInv
  <1>1. /\ pc[w] = "signal"
        /\ \A v \in Workers : pc'[v] = IF v = w THEN "unlock_completion" ELSE pc[v]
        /\ \A c \in Callers : pc'[c] = IF pc[c] = "asleep" THEN "relock" ELSE pc[c]
    BY <1>0, ThreadKinds DEF PoolTypeOK
  <1>2. PoolTypeOK'
    <2>1. pc' \in [Threads -> CallerLabel \cup WorkerLabel]
      BY <1>0 DEF PoolTypeOK, CallerLabel, WorkerLabel
    <2> QED BY <1>0, <1>1, <2>1 DEF PoolTypeOK, CallerLabel, WorkerLabel
  <1>3. UNCHANGED <<pool, command, active_threads, execution_mutex, completion_mutex, command_mutex,
                    last_command, ran>>
    OBVIOUS
  <1> HIDE DEF Signal, WakeAll
  <1>4. \A v \in Workers : Owes(v)' <=> Owes(v)
    BY <1>1, <1>3 DEF Owes, Busy
  <1>5. \A c \in Callers : /\ Leads(c)' <=> Leads(c)
                           /\ Preparing(c)' <=> Preparing(c)
                           /\ Open(c)' <=> Open(c)
                           /\ Broadcasts(c)' <=> Broadcasts(c)
    BY <1>1, <1>3 DEF Leads, Preparing, Open, Running, Awaiting, Broadcasts
  <1>6. LeaderInv'
    <2>1. \A c \in Callers : pool \in {"stopping", "released"} => pc[c] # "asleep"
      BY <1>0 DEF LeaderInv
    <2>2. \A c \in Callers : pc'[c] = pc[c] \/ (pc[c] = "asleep" /\ pc'[c] \in Awaiting \cap Running)
      BY <1>1 DEF Awaiting, Running
    <2> QED BY <1>0, <1>1, <1>3, <1>5, <2>1, <2>2 DEF LeaderInv
  <1>7. CommandInv'
    BY <1>0, <1>1, <1>3, <1>5 DEF CommandInv
  <1>8. WorkerInv'
    BY <1>0, <1>1, <1>3 DEF WorkerInv, Busy, Resting
  <1>9. CountInv'
    <2>1. Owers' = Owers
      BY <1>4 DEF Owers
    <2> QED BY <1>0, <1>3, <1>4, <1>5, <2>1 DEF CountInv
  <1>10. MutexInv'
    BY <1>0, <1>1, <1>3, ThreadKinds DEF MutexInv, HoldsCompletion, HoldsCommand
  <1>11. WakeupInv'
    BY <1>0, <1>1, <1>3, <1>5 DEF WakeupInv
  <1>12. OperationInv'
    BY <1>0, <1>1, <1>3, <1>5 DEF OperationInv, Storing
  <1> QED BY <1>2, <1>6, <1>7, <1>8, <1>9, <1>10, <1>11, <1>12 DEF IInv

(* A worker that sees the new command, with the mutex or without, owes its *)
(* check-in before and after.                                              *)
LEMMA LoadCommandKeepsInv ==
  ASSUME IInv, NEW w \in Workers, SeeCommand(w) \/ ReadCommand(w)
  PROVE  IInv'
  <1> USE DEF SeeCommand, ReadCommand, LoadCommand, Goto, mutexes, operation
  <1>0. /\ PoolTypeOK /\ LeaderInv /\ CommandInv /\ WorkerInv
        /\ CountInv /\ MutexInv /\ WakeupInv /\ OperationInv
    BY DEF IInv
  <1>1. PICK label \in {"dispatch", "unlock_command"} :
          /\ pc' = [pc EXCEPT ![w] = label]
          /\ pc[w] \in {"wait", "spin", "check"} /\ (pc[w] = "check" <=> label = "unlock_command")
    OBVIOUS
  <1>2. /\ UNCHANGED <<pool, command, active_threads, execution_mutex, completion_mutex, command_mutex,
                       arguments, flags, local_flags, ran>>
        /\ command # last_command[w] /\ last_command' = [last_command EXCEPT ![w] = command]
    OBVIOUS
  <1> HIDE DEF SeeCommand, ReadCommand
  <1>3. /\ \A v \in Workers : pc'[v] = IF v = w THEN label ELSE pc[v]
        /\ \A v \in Workers : last_command'[v] = IF v = w THEN command ELSE last_command[v]
        /\ \A c \in Callers : pc'[c] = pc[c]
    BY <1>0, <1>1, <1>2, ThreadKinds DEF PoolTypeOK
  <1>4. \A v \in Workers : Owes(v)' <=> Owes(v)
    BY <1>1, <1>2, <1>3 DEF Owes, Busy
  <1>5. \A c \in Callers : /\ Leads(c)' <=> Leads(c)
                           /\ Preparing(c)' <=> Preparing(c)
                           /\ Open(c)' <=> Open(c)
                           /\ Broadcasts(c)' <=> Broadcasts(c)
    BY <1>2, <1>3 DEF Leads, Preparing, Open, Broadcasts
  <1>6. PoolTypeOK'
    BY <1>0, <1>1, <1>2, <1>3 DEF PoolTypeOK, WorkerLabel
  <1>7. LeaderInv' /\ CommandInv'
    BY <1>0, <1>2, <1>3, <1>5 DEF LeaderInv, CommandInv
  <1>8. WorkerInv'
    BY <1>0, <1>1, <1>2, <1>3 DEF WorkerInv, CommandInv, Busy
  <1>9. CountInv'
    <2>1. Owers' = Owers
      BY <1>4 DEF Owers
    <2> QED BY <1>0, <1>2, <1>4, <1>5, <2>1 DEF CountInv
  <1>10. MutexInv'
    BY <1>0, <1>1, <1>2, <1>3, ThreadKinds DEF MutexInv, HoldsCompletion, HoldsCommand
  <1>11. WakeupInv'
    BY <1>0, <1>1, <1>2, <1>3, <1>5 DEF WakeupInv
  <1>12. OperationInv'
    BY <1>0, <1>1, <1>2, <1>3, <1>5 DEF OperationInv
  <1> QED BY <1>6, <1>7, <1>8, <1>9, <1>10, <1>11, <1>12 DEF IInv

(* A worker obeys the command it has seen, which is the present one. *)
LEMMA DispatchKeepsInv ==
  ASSUME IInv, NEW w \in Workers, Dispatch(w)
  PROVE  IInv'
  <1>0. /\ PoolTypeOK /\ LeaderInv /\ CommandInv /\ WorkerInv
        /\ CountInv /\ MutexInv /\ WakeupInv /\ OperationInv
    BY DEF IInv
  <1> DEFINE label == IF command.op = "shutdown" THEN "exited" ELSE "enter"
  <1>1. /\ pc[w] = "dispatch" /\ last_command[w] = command
        /\ command.op \in {"parallelize", "shutdown"}
    BY <1>0 DEF Dispatch, PoolTypeOK, Command, WorkerInv, Busy
  <1>2. /\ UNCHANGED <<pool, command, active_threads, execution_mutex, completion_mutex, command_mutex,
                       arguments, flags, last_command, ran>>
        /\ local_flags' = [local_flags EXCEPT ![w] = flags]
        /\ pc' = [pc EXCEPT ![w] = label]
    BY <1>1 DEF Dispatch, Goto, mutexes, operation
  <1> HIDE DEF label
  <1>3. /\ \A v \in Workers : pc'[v] = IF v = w THEN label ELSE pc[v]
        /\ \A c \in Callers : pc'[c] = pc[c]
        /\ label \in {"enter", "exited"} /\ (label = "exited" <=> command.op = "shutdown")
    BY <1>0, <1>2, ThreadKinds DEF PoolTypeOK, label
  <1>4. command.op # "shutdown" => \A v \in Workers : Owes(v)' <=> Owes(v)
    BY <1>1, <1>2, <1>3 DEF Owes, Busy
  <1>5. \A c \in Callers : /\ Leads(c)' <=> Leads(c)
                           /\ Preparing(c)' <=> Preparing(c)
                           /\ Open(c)' <=> Open(c)
                           /\ Broadcasts(c)' <=> Broadcasts(c)
    BY <1>2, <1>3 DEF Leads, Preparing, Open, Broadcasts
  <1>6. PoolTypeOK'
    <2>1. label \in WorkerLabel
      BY <1>3 DEF WorkerLabel
    <2>2. local_flags' \in [Threads -> SUBSET Flag]
      BY <1>0, <1>2 DEF PoolTypeOK
    <2> QED BY <1>0, <1>2, <1>3, <2>1, <2>2 DEF PoolTypeOK
  <1>7. LeaderInv' /\ CommandInv'
    BY <1>0, <1>2, <1>3, <1>5 DEF LeaderInv, CommandInv
  <1>8. WorkerInv'
    BY <1>0, <1>1, <1>2, <1>3 DEF WorkerInv, Busy
  <1>9. CountInv'
    <2>1. command.op # "shutdown" => Owers' = Owers
      BY <1>4 DEF Owers
    <2> QED BY <1>0, <1>2, <1>4, <1>5, <2>1 DEF CountInv
  <1>10. MutexInv'
    BY <1>0, <1>1, <1>2, <1>3, ThreadKinds DEF MutexInv, HoldsCompletion, HoldsCommand
  <1>11. WakeupInv'
    BY <1>0, <1>1, <1>2, <1>3, <1>5 DEF WakeupInv
  <1>12. OperationInv'
    <2>1. pool = "ready" => command.op # "shutdown"
      BY <1>0 DEF CommandInv
    <2> QED BY <1>0, <1>1, <1>2, <1>3, <1>5, <2>1 DEF OperationInv
  <1> QED BY <1>6, <1>7, <1>8, <1>9, <1>10, <1>11, <1>12 DEF IInv

(* A worker calls the thread function once in an operation. *)
LEMMA WorkerEnterKeepsInv ==
  ASSUME IInv, NEW w \in Workers, WorkerEnter(w)
  PROVE  IInv'
  <1>0. /\ PoolTypeOK /\ LeaderInv /\ CommandInv /\ WorkerInv
        /\ CountInv /\ MutexInv /\ WakeupInv /\ OperationInv
    BY DEF IInv
  <1>1. /\ UNCHANGED <<pool, command, active_threads, execution_mutex, completion_mutex, command_mutex,
                       arguments, flags, last_command, local_flags>>
        /\ pc[w] = "enter" /\ pc' = [pc EXCEPT ![w] = "run"] /\ ran' = [ran EXCEPT ![w] = @ + 1]
    BY DEF WorkerEnter, Goto, mutexes, operation
  <1>2. /\ \A v \in Workers : pc'[v] = IF v = w THEN "run" ELSE pc[v]
        /\ \A c \in Callers : pc'[c] = pc[c]
        /\ \A v \in Workers : ran'[v] = IF v = w THEN ran[w] + 1 ELSE ran[v]
    BY <1>0, <1>1, ThreadKinds DEF PoolTypeOK
  <1>3. \A v \in Workers : Owes(v)' <=> Owes(v)
    BY <1>1, <1>2 DEF Owes, Busy
  <1>4. \A c \in Callers : /\ Leads(c)' <=> Leads(c)
                           /\ Preparing(c)' <=> Preparing(c)
                           /\ Open(c)' <=> Open(c)
                           /\ Broadcasts(c)' <=> Broadcasts(c)
    BY <1>1, <1>2 DEF Leads, Preparing, Open, Broadcasts
  <1>5. PoolTypeOK'
    BY <1>0, <1>1, <1>2 DEF PoolTypeOK, WorkerLabel
  <1>6. LeaderInv' /\ CommandInv'
    BY <1>0, <1>1, <1>2, <1>4 DEF LeaderInv, CommandInv
  <1>7. WorkerInv'
    BY <1>0, <1>1, <1>2 DEF WorkerInv, Busy
  <1>8. CountInv'
    <2>1. Owers' = Owers
      BY <1>3 DEF Owers
    <2> QED BY <1>0, <1>1, <1>3, <1>4, <2>1 DEF CountInv
  <1>9. MutexInv'
    BY <1>0, <1>1, <1>2, ThreadKinds DEF MutexInv, HoldsCompletion, HoldsCommand
  <1>10. WakeupInv'
    BY <1>0, <1>1, <1>2, <1>4 DEF WakeupInv
  <1>11. OperationInv'
    <2>1. \A c \in Callers : pc[c] \notin Storing
      BY <1>1, ExclusiveMeansRest DEF Exclusive, Owes, Busy
    <2>2. last_command[w] = command
      BY <1>0, <1>1 DEF WorkerInv, Busy
    <2> QED BY <1>0, <1>1, <1>2, <1>4, <2>1, <2>2 DEF OperationInv
  <1> QED BY <1>5, <1>6, <1>7, <1>8, <1>9, <1>10, <1>11 DEF IInv

-----------------------------------------------------------------------------
(* The other steps of a caller. *)

(* Whoever gets the mutex becomes the leader. *)
LEMMA LockKeepsInv ==
  ASSUME IInv, NEW c \in Callers, Lock(c)
  PROVE  IInv'
  <1>0. /\ PoolTypeOK /\ LeaderInv /\ CommandInv /\ WorkerInv
        /\ CountInv /\ MutexInv /\ WakeupInv /\ OperationInv
    BY DEF IInv
  <1>1. /\ UNCHANGED <<pool, command, active_threads, completion_mutex, command_mutex,
                       arguments, flags, last_command, local_flags>>
        /\ pc[c] = "lock" /\ pc' = [pc EXCEPT ![c] = "lock_command"]
        /\ execution_mutex = Nobody /\ execution_mutex' = c /\ ran' = [w \in Workers |-> 0]
    BY DEF Lock, Goto, operation
  <1>2. /\ \A w \in Workers : pc'[w] = pc[w]
        /\ \A d \in Callers : pc'[d] = IF d = c THEN "lock_command" ELSE pc[d]
    BY <1>0, <1>1, ThreadKinds DEF PoolTypeOK
  <1>3. /\ pool = "ready" /\ \A d \in Callers : ~Leads(d)
        /\ \A d \in Callers : Leads(d)' <=> d = c
    BY <1>0, <1>1, <1>2, ThreadKinds DEF PoolTypeOK, LeaderInv, Leads
  <1>4. \A d \in Callers : /\ Preparing(d)' <=> Preparing(d)
                           /\ Open(d)' <=> Open(d)
                           /\ Broadcasts(d)' <=> Broadcasts(d)
    BY <1>1, <1>2 DEF Preparing, Open, Running, Awaiting, Broadcasts
  <1>5. \A w \in Workers : Owes(w)' <=> Owes(w)
    BY <1>1, <1>2 DEF Owes, Busy
  <1>6. PoolTypeOK'
    BY <1>0, <1>1, <1>2 DEF PoolTypeOK, CallerLabel
  <1>7. LeaderInv'
    BY <1>0, <1>1, <1>2, <1>3 DEF LeaderInv, Exclusive, Storing
  <1>8. CommandInv'
    BY <1>0, <1>1, <1>3 DEF CommandInv
  <1>9. WorkerInv'
    BY <1>0, <1>1, <1>2 DEF WorkerInv, Busy
  <1>10. CountInv'
    <2>1. Owers' = Owers
      BY <1>5 DEF Owers
    <2> QED BY <1>0, <1>1, <1>4, <1>5, <2>1 DEF CountInv
  <1>11. MutexInv'
    BY <1>0, <1>1, <1>2, ThreadKinds DEF MutexInv, HoldsCompletion, HoldsCommand
  <1>12. WakeupInv'
    BY <1>0, <1>1, <1>2, <1>4 DEF WakeupInv
  <1>13. OperationInv'
    BY <1>1, <1>2, <1>3 DEF OperationInv, Storing
  <1> QED BY <1>6, <1>7, <1>8, <1>9, <1>10, <1>11, <1>12, <1>13 DEF IInv

(* The counter is set while all workers are at rest, whoever holds           *)
(* completion_mutex: it counts them all, before any of them owes a check-in. *)
LEMMA StoreActiveKeepsInv ==
  ASSUME IInv, NEW c \in Callers, StoreActive(c)
  PROVE  IInv'
  <1>0. /\ PoolTypeOK /\ LeaderInv /\ CommandInv /\ WorkerInv
        /\ CountInv /\ MutexInv /\ WakeupInv /\ OperationInv
    BY DEF IInv
  <1>1. /\ UNCHANGED <<pool, command, execution_mutex, completion_mutex, command_mutex,
                       arguments, flags, last_command, local_flags, ran>>
        /\ pc[c] = "store_active" /\ pc' = [pc EXCEPT ![c] = "store_command"]
        /\ active_threads' = Cardinality(Workers)
    BY DEF StoreActive, Goto, mutexes, operation, locals
  <1>2. /\ \A w \in Workers : pc'[w] = pc[w]
        /\ \A d \in Callers : pc'[d] = IF d = c THEN "store_command" ELSE pc[d]
    BY <1>0, <1>1, ThreadKinds DEF PoolTypeOK
  <1>3. /\ \A d \in Callers : Leads(d) <=> d = c
        /\ \A d \in Callers : ~Open(d)
        /\ pool \in {"ready", "stopping"} /\ command.op # "shutdown"
        /\ \A w \in Workers : ~Owes(w)
    BY <1>1, ExclusiveMeansRest DEF Exclusive, Storing
  <1>4. \A d \in Callers : /\ Leads(d)' <=> d = c
                           /\ Preparing(d)' <=> d = c
                           /\ Broadcasts(d) <=> Broadcasts(d)'
    BY <1>1, <1>2, <1>3 DEF Leads, Preparing, Broadcasts
  <1>5. \A w \in Workers : ~Owes(w)'
    BY <1>1, <1>2, <1>3 DEF Owes, Busy
  <1>6. PoolTypeOK'
    BY <1>0, <1>1, <1>2, CountWorkers DEF PoolTypeOK, CallerLabel
  <1>7. LeaderInv'
    BY <1>0, <1>1, <1>2, <1>3, <1>4 DEF LeaderInv, Exclusive, Storing
  <1>8. CommandInv'
    BY <1>0, <1>1, <1>2, <1>3, <1>4 DEF CommandInv
  <1>9. WorkerInv'
    BY <1>0, <1>1, <1>2 DEF WorkerInv, Busy
  <1>10. CountInv'
    BY <1>1, <1>4, <1>5 DEF CountInv
  <1>11. MutexInv'
    BY <1>0, <1>1, <1>2, ThreadKinds DEF MutexInv, HoldsCompletion, HoldsCommand
  <1>12. WakeupInv'
    <2>1. \A d \in Callers : pc'[d] \notin {"cond_wait", "unlock_completion", "asleep"}
      BY <1>2, <1>3 DEF Leads
    <2> QED BY <1>0, <1>1, <1>2, <1>4, <2>1 DEF WakeupInv
  <1>13. OperationInv'
    BY <1>0, <1>1, <1>2, <1>3, <1>4 DEF OperationInv, Storing
  <1> QED BY <1>6, <1>7, <1>8, <1>9, <1>10, <1>11, <1>12, <1>13 DEF IInv

(* The store of the command makes every worker owe a check-in at once,    *)
(* because it differs from the last command of each of them.  Those that  *)
(* sleep will be woken; none is between its check and its sleep.          *)
LEMMA StoreCommandKeepsInv ==
  ASSUME IInv, NEW c \in Callers, StoreCommand(c)
  PROVE  IInv'
  <1>0. /\ PoolTypeOK /\ LeaderInv /\ CommandInv /\ WorkerInv
        /\ CountInv /\ MutexInv /\ WakeupInv /\ OperationInv
    BY DEF IInv
  <1> DEFINE label == IF pool = "ready" THEN "unlock_command" ELSE "broadcast"
  <1>1. /\ UNCHANGED <<pool, active_threads, execution_mutex, completion_mutex, command_mutex,
                       arguments, flags, last_command, local_flags, ran>>
        /\ pc[c] = "store_command" /\ pc' = [pc EXCEPT ![c] = label]
        /\ command' = IF pool = "ready" THEN NewCommand(command) ELSE ShutdownCommand
    BY DEF StoreCommand, Goto, mutexes, operation, locals
  <1>2. /\ \A w \in Workers : pc'[w] = pc[w]
        /\ \A d \in Callers : pc'[d] = IF d = c THEN label ELSE pc[d]
    BY <1>0, <1>1, ThreadKinds DEF PoolTypeOK
  <1>3. /\ \A d \in Callers : Leads(d) <=> d = c
        /\ pool \in {"ready", "stopping"} /\ command.op # "shutdown"
        /\ \A w \in Workers : ~Busy(w) /\ last_command[w] = command
    BY <1>1, ExclusiveMeansRest DEF Exclusive, Storing, Owes
  <1>4. /\ command' \in Command /\ command' # command
        /\ pool = "ready" => command'.op = "parallelize"
        /\ pool = "stopping" => command'.op = "shutdown"
    BY <1>0, <1>1, <1>3, NewCommandIsNew DEF PoolTypeOK
  <1>5. /\ \A d \in Callers : (Leads(d)' <=> d = c) /\ ~Preparing(d)'
        /\ Open(c)' /\ Broadcasts(c)'
    BY <1>1, <1>2, <1>3 DEF Leads, Preparing, Open, Running, Broadcasts
  <1>6. \A w \in Workers : Owes(w)' /\ pc[w] # "cond_wait" /\ pc[w] \in Resting
    <2>1. command_mutex = c
      BY <1>0, <1>1, ThreadKinds DEF MutexInv, HoldsCommand
    <2>2. \A w \in Workers : pc[w] # "cond_wait"
      BY <1>0, <2>1, ThreadKinds DEF MutexInv, HoldsCommand
    <2>3. \A w \in Workers : pc[w] \in Resting
      BY <1>0, <1>3 DEF PoolTypeOK, WorkerInv, WorkerLabel, Busy, Resting
    <2> QED BY <1>1, <1>3, <1>4, <2>2, <2>3 DEF Owes
  <1>7. PoolTypeOK'
    <2>1. label \in CallerLabel
      BY DEF CallerLabel
    <2> QED BY <1>0, <1>1, <1>2, <1>4, <2>1 DEF PoolTypeOK
  <1>8. LeaderInv'
    BY <1>0, <1>1, <1>2, <1>3, <1>5 DEF LeaderInv, Running
  <1>9. CommandInv'
    BY <1>0, <1>1, <1>2, <1>3, <1>4, <1>5 DEF CommandInv
  <1>10. WorkerInv'
    BY <1>0, <1>1, <1>2, <1>3, <1>4, <1>6 DEF WorkerInv, Busy
  <1>11. CountInv'
    <2>1. Owers' = Workers
      BY <1>6 DEF Owers
    <2>2. active_threads = Cardinality(Workers)
      BY <1>0, <1>1 DEF CountInv, Preparing
    <2> QED BY <1>1, <1>5, <2>1, <2>2 DEF CountInv
  <1>12. MutexInv'
    BY <1>0, <1>1, <1>2, <1>3, ThreadKinds DEF MutexInv, HoldsCompletion, HoldsCommand
  <1>13. WakeupInv'
    <2>1. \A d \in Callers : pc'[d] \notin {"cond_wait", "unlock_completion", "asleep"}
      BY <1>2, <1>3 DEF Leads
    <2> QED BY <1>2, <1>5, <1>6, <2>1 DEF WakeupInv
  <1>14. OperationInv'
    <2>1. \A w \in Workers : pool = "ready" => ran[w] = 0
      BY <1>0, <1>1, <1>3 DEF OperationInv, Storing
    <2> QED BY <1>1, <1>3, <1>4, <1>5, <2>1 DEF OperationInv
  <1> QED BY <1>7, <1>8, <1>9, <1>10, <1>11, <1>12, <1>13, <1>14 DEF IInv

(* The broadcast wakes all workers that sleep. *)
LEMMA BroadcastKeepsInv ==
  ASSUME IInv, NEW c \in Callers, Broadcast(c)
  PROVE  IInv'
  <1> USE DEF Broadcast, WakeAll, mutexes, operation, locals
  <1>0. /\ PoolTypeOK /\ LeaderInv /\ CommandInv /\ WorkerInv
        /\ CountInv /\ MutexInv /\ WakeupInv /\ OperationInv
    BY DEF IInv
  <1> DEFINE label == IF pool = "ready" THEN "run" ELSE "unlock_command"
  <1>1. /\ pc[c] = "broadcast"
        /\ \A w \in Workers : pc'[w] = IF pc[w] = "asleep" THEN "relock" ELSE pc[w]
        /\ \A d \in Callers : pc'[d] = IF d = c THEN label ELSE pc[d]
    BY <1>0, ThreadKinds DEF PoolTypeOK
  <1>2. PoolTypeOK'
    <2>1. pc' \in [Threads -> CallerLabel \cup WorkerLabel]
      BY <1>0 DEF PoolTypeOK, CallerLabel, WorkerLabel
    <2> QED BY <1>0, <1>1, <2>1 DEF PoolTypeOK, CallerLabel, WorkerLabel
  <1>3. UNCHANGED <<pool, command, active_threads, execution_mutex, completion_mutex, command_mutex,
                    last_command, ran>>
    OBVIOUS
  <1> HIDE DEF Broadcast, WakeAll
  <1>4. /\ pool \in {"ready", "stopping"}
        /\ \A d \in Callers : Leads(d) <=> d = c
        /\ pool = "stopping" => command.op = "shutdown"
    BY <1>0, <1>1 DEF PoolTypeOK, LeaderInv, CommandInv, Leads, Awaiting
  <1>5. \A w \in Workers : Owes(w)' <=> Owes(w)
    BY <1>1, <1>3 DEF Owes, Busy
  <1>6. \A d \in Callers : /\ Leads(d)' <=> Leads(d)
                           /\ ~Preparing(d)' /\ ~Preparing(d)
                           /\ Open(d)' <=> Open(d)
    BY <1>1, <1>4 DEF Leads, Preparing, Open, Running
  <1>7. LeaderInv'
    BY <1>0, <1>1, <1>3, <1>4, <1>6 DEF LeaderInv, Running
  <1>8. CommandInv'
    BY <1>0, <1>1, <1>3, <1>4, <1>6 DEF CommandInv
  <1>9. WorkerInv'
    BY <1>0, <1>1, <1>3 DEF WorkerInv, Busy, Resting
  <1>10. CountInv'
    <2>1. Owers' = Owers
      BY <1>5 DEF Owers
    <2> QED BY <1>0, <1>3, <1>5, <1>6, <2>1 DEF CountInv
  <1>11. MutexInv'
    BY <1>0, <1>1, <1>3, <1>4, ThreadKinds DEF MutexInv, HoldsCompletion, HoldsCommand
  <1>12. WakeupInv'
    BY <1>0, <1>1, <1>3 DEF WakeupInv
  <1>13. OperationInv'
    BY <1>0, <1>1, <1>3, <1>6 DEF OperationInv, Storing
  <1> QED BY <1>2, <1>7, <1>8, <1>9, <1>10, <1>11, <1>12, <1>13 DEF IInv

(* The wait for the workers is over when the counter says so, by a load of a *)
(* caller that spins, or of one that has completion_mutex and gives it away. *)
LEMMA WaitEndsKeepsInv ==
  ASSUME IInv, NEW c \in Callers, AllCheckedIn(c) \/ UnlockCompletion(c)
  PROVE  IInv'
  <1> USE DEF AllCheckedIn, UnlockCompletion, UnlockCompletionMutex, Returns, Goto, mutexes,
              operation, locals
  <1>0. /\ PoolTypeOK /\ LeaderInv /\ CommandInv /\ WorkerInv
        /\ CountInv /\ MutexInv /\ WakeupInv /\ OperationInv
    BY DEF IInv
  <1>1. pc[c] \in {"wait", "spin", "unlock_completion"} /\ active_threads = 0
    BY <1>0 DEF WakeupInv
  <1>2. /\ pool \in {"creating", "ready"} /\ command.op # "shutdown"
        /\ \A d \in Callers : Leads(d) <=> d = c
        /\ \A w \in Workers : ~Owes(w)
    BY <1>1, WaitersCount DEF Awaiting
  <1> DEFINE label == IF pool = "creating" THEN "idle" ELSE "unlock"
  <1>3. /\ UNCHANGED <<command, active_threads, execution_mutex, command_mutex, arguments, flags,
                       last_command, local_flags, ran>>
        /\ pool' = "ready" /\ pc' = [pc EXCEPT ![c] = label]
    BY <1>2
  <1>4. /\ \A s \in Threads : pc'[s] = IF s = c THEN label ELSE pc[s]
        /\ \A w \in Workers : pc'[w] = pc[w]
        /\ \A d \in Callers : pc'[d] = IF d = c THEN label ELSE pc[d]
    BY <1>0, <1>3, ThreadKinds DEF PoolTypeOK
  <1>5. /\ MutexInv'
        /\ completion_mutex' \in Threads \cup {Nobody}
        /\ command_mutex' \in Threads \cup {Nobody}
    <2>1. CommandHandled(c)
      BY <1>1, <1>3, <1>4, ThreadKinds DEF CommandHandled, HoldsCommand
    <2>2. HoldsCompletion(c) => completion_mutex = c
      BY <1>0, ThreadKinds DEF MutexInv
    <2>3. CompletionHandled(c)
      BY <1>1, <1>4, <2>2, ThreadKinds DEF CompletionHandled, HoldsCompletion
    <2>4. \A s \in Threads : s # c => (HoldsCompletion(s)' <=> HoldsCompletion(s))
      BY <1>4 DEF HoldsCompletion
    <2>5. \A s \in Threads : s # c => (HoldsCommand(s)' <=> HoldsCommand(s))
      BY <1>2, <1>3, <1>4 DEF HoldsCommand
    <2> QED BY <1>0, <2>1, <2>3, <2>4, <2>5, ThreadKinds, MutexesAreHandled
  <1> HIDE DEF AllCheckedIn, UnlockCompletion
  <1>6. \A d \in Callers : /\ Leads(d)' <=> d = c /\ pool = "ready"
                           /\ ~Preparing(d)' /\ ~Open(d)'
    BY <1>2, <1>4 DEF Leads, Preparing, Open, Running, Awaiting
  <1>7. \A w \in Workers : ~Owes(w)' /\ last_command[w] = command /\ ~Busy(w)
    BY <1>2, <1>3, <1>4 DEF Owes, Busy
  <1>8. PoolTypeOK'
    <2>1. label \in CallerLabel
      BY DEF CallerLabel
    <2> QED BY <1>0, <1>3, <1>4, <1>5, <2>1 DEF PoolTypeOK
  <1>9. LeaderInv'
    <2>1. \A d \in Callers : d # c => pc'[d] \in {"idle", "lock"}
      BY <1>2, <1>4 DEF Leads
    <2>2. execution_mutex = IF pool = "creating" THEN Nobody ELSE c
      BY <1>0, <1>2 DEF LeaderInv
    <2> QED BY <1>2, <1>3, <1>4, <1>6, <2>1, <2>2, ThreadKinds DEF LeaderInv, Exclusive
  <1>10. CommandInv'
    BY <1>0, <1>2, <1>3 DEF CommandInv
  <1>11. WorkerInv'
    BY <1>0, <1>2, <1>3, <1>4, <1>7 DEF WorkerInv, Busy
  <1>12. CountInv'
    <2>1. Owers' = {} /\ Owers = {}
      BY <1>2, <1>7 DEF Owers
    <2>2. \A d \in Callers : ~Preparing(d)
      BY <1>1, <1>2 DEF Leads, Preparing
    <2> QED BY <1>0, <1>2, <1>3, <1>6, <1>7, <2>1, <2>2 DEF CountInv
  <1>13. WakeupInv'
    <2>1. \A d \in Callers : pc'[d] \notin {"cond_wait", "unlock_completion", "asleep"}
      BY <1>2, <1>4 DEF Leads
    <2> QED BY <1>0, <1>3, <1>4, <1>7, <2>1 DEF WakeupInv
  <1>14. OperationInv'
    BY <1>0, <1>1, <1>2, <1>3, <1>4, <1>6 DEF OperationInv, Storing
  <1> QED BY <1>5, <1>8, <1>9, <1>10, <1>11, <1>12, <1>13, <1>14 DEF IInv

(* The mutex is given back while all workers are at rest. *)
LEMMA UnlockKeepsInv ==
  ASSUME IInv, NEW c \in Callers, Unlock(c)
  PROVE  IInv'
  <1>0. /\ PoolTypeOK /\ LeaderInv /\ CommandInv /\ WorkerInv
        /\ CountInv /\ MutexInv /\ WakeupInv /\ OperationInv
    BY DEF IInv
  <1>1. /\ UNCHANGED <<pool, command, active_threads, completion_mutex, command_mutex,
                       arguments, flags, last_command, ran>>
        /\ pc[c] = "unlock" /\ pc' = [pc EXCEPT ![c] = "idle"]
        /\ execution_mutex' = Nobody /\ local_flags' = [local_flags EXCEPT ![c] = {}]
    BY DEF Unlock, Goto, operation
  <1>2. /\ \A w \in Workers : pc'[w] = pc[w]
        /\ \A d \in Callers : pc'[d] = IF d = c THEN "idle" ELSE pc[d]
    BY <1>0, <1>1, ThreadKinds DEF PoolTypeOK
  <1>3. /\ \A d \in Callers : Leads(d) <=> d = c
        /\ pool = "ready" /\ \A d \in Callers : ~Leads(d)'
    BY <1>0, <1>1, <1>2, ExclusiveMeansRest DEF LeaderInv, Leads, Exclusive
  <1>4. \A d \in Callers : /\ Preparing(d)' <=> Preparing(d)
                           /\ Open(d)' <=> Open(d)
                           /\ Broadcasts(d)' <=> Broadcasts(d)
    BY <1>1, <1>2 DEF Preparing, Open, Running, Awaiting, Broadcasts
  <1>5. \A w \in Workers : Owes(w)' <=> Owes(w)
    BY <1>1, <1>2 DEF Owes, Busy
  <1>6. PoolTypeOK'
    BY <1>0, <1>1, <1>2 DEF PoolTypeOK, CallerLabel
  <1>7. LeaderInv'
    BY <1>0, <1>1, <1>2, <1>3, ThreadKinds DEF LeaderInv
  <1>8. CommandInv'
    BY <1>0, <1>1, <1>3 DEF CommandInv
  <1>9. WorkerInv'
    BY <1>0, <1>1, <1>2 DEF WorkerInv, Busy
  <1>10. CountInv'
    <2>1. Owers' = Owers
      BY <1>5 DEF Owers
    <2> QED BY <1>0, <1>1, <1>4, <1>5, <2>1 DEF CountInv
  <1>11. MutexInv'
    BY <1>0, <1>1, <1>2, ThreadKinds DEF MutexInv, HoldsCompletion, HoldsCommand
  <1>12. WakeupInv'
    BY <1>0, <1>1, <1>2, <1>4 DEF WakeupInv
  <1>13. OperationInv'
    BY <1>3 DEF OperationInv
  <1> QED BY <1>6, <1>7, <1>8, <1>9, <1>10, <1>11, <1>12, <1>13 DEF IInv

(* No caller is in an operation when the user destroys the pool. *)
LEMMA DestroyKeepsInv ==
  ASSUME IInv, NEW c \in Callers, Destroy(c)
  PROVE  IInv'
  <1>0. /\ PoolTypeOK /\ LeaderInv /\ CommandInv /\ WorkerInv
        /\ CountInv /\ MutexInv /\ WakeupInv /\ OperationInv
    BY DEF IInv
  <1>1. /\ UNCHANGED <<command, active_threads, execution_mutex, completion_mutex, command_mutex,
                       arguments, flags, last_command, local_flags, ran>>
        /\ \A d \in Callers : pc[d] = "idle"
        /\ pool = "ready" /\ pool' = "stopping" /\ pc' = [pc EXCEPT ![c] = "lock_command"]
    BY DEF Destroy, Goto, mutexes, operation, locals
  <1>2. /\ \A w \in Workers : pc'[w] = pc[w]
        /\ \A d \in Callers : pc'[d] = IF d = c THEN "lock_command" ELSE "idle"
    BY <1>0, <1>1, ThreadKinds DEF PoolTypeOK
  <1>3. /\ \A d \in Callers : Leads(d)' <=> d = c
        /\ \A d \in Callers : ~Preparing(d)' /\ ~Preparing(d) /\ ~Open(d)' /\ ~Open(d)
    BY <1>1, <1>2 DEF Leads, Preparing, Open, Running, Awaiting
  <1>4. /\ command.op # "shutdown" /\ execution_mutex = Nobody
        /\ \A w \in Workers : ~Owes(w)
    <2>1. \A d \in Callers : ~Leads(d)
      BY <1>1 DEF Leads
    <2> QED BY <1>0, <1>1, <1>3, <2>1 DEF PoolTypeOK, LeaderInv, CommandInv, CountInv
  <1>5. \A w \in Workers : Owes(w)' <=> Owes(w)
    BY <1>1, <1>2 DEF Owes, Busy
  <1>6. PoolTypeOK'
    BY <1>0, <1>1, <1>2 DEF PoolTypeOK, CallerLabel
  <1>7. LeaderInv'
    BY <1>1, <1>2, <1>3, <1>4 DEF LeaderInv
  <1>8. CommandInv'
    BY <1>0, <1>1, <1>2, <1>3, <1>4 DEF CommandInv
  <1>9. WorkerInv'
    BY <1>0, <1>1, <1>2, <1>4 DEF WorkerInv, Busy, Owes
  <1>10. CountInv'
    <2>1. Owers' = Owers
      BY <1>5 DEF Owers
    <2> QED BY <1>0, <1>1, <1>3, <1>4, <1>5, <2>1 DEF CountInv
  <1>11. MutexInv'
    BY <1>0, <1>1, <1>2, ThreadKinds DEF MutexInv, HoldsCompletion, HoldsCommand
  <1>12. WakeupInv'
    BY <1>0, <1>1, <1>2, <1>4 DEF WakeupInv, Owes
  <1>13. OperationInv'
    BY <1>1 DEF OperationInv
  <1> QED BY <1>6, <1>7, <1>8, <1>9, <1>10, <1>11, <1>12, <1>13 DEF IInv

(* The pool is released when all workers have gone. *)
LEMMA JoinKeepsInv ==
  ASSUME IInv, NEW c \in Callers, Join(c)
  PROVE  IInv'
  <1>0. /\ PoolTypeOK /\ LeaderInv /\ CommandInv /\ WorkerInv
        /\ CountInv /\ MutexInv /\ WakeupInv /\ OperationInv
    BY DEF IInv
  <1>1. /\ UNCHANGED <<command, active_threads, execution_mutex, completion_mutex, command_mutex,
                       arguments, flags, last_command, local_flags, ran>>
        /\ \A w \in Workers : pc[w] = "exited"
        /\ pc[c] = "join" /\ pool' = "released" /\ pc' = [pc EXCEPT ![c] = "idle"]
    BY DEF Join, Goto, mutexes, operation, locals
  <1>2. /\ \A w \in Workers : pc'[w] = pc[w]
        /\ \A d \in Callers : pc'[d] = IF d = c THEN "idle" ELSE pc[d]
    BY <1>0, <1>1, ThreadKinds DEF PoolTypeOK
  <1>3. /\ pool = "stopping" /\ command.op = "shutdown"
        /\ \A d \in Callers : (Leads(d) <=> d = c) /\ pc'[d] = "idle"
    <2>1. pool = "stopping"
      BY <1>0, <1>1 DEF PoolTypeOK, LeaderInv, Awaiting, Exclusive, Storing, Running
    <2>2. \A d \in Callers : Leads(d) <=> d = c
      BY <1>0, <1>1 DEF LeaderInv, Leads
    <2>3. \A d \in Callers : pc'[d] = "idle"
      BY <1>0, <1>2, <2>1, <2>2 DEF LeaderInv, Leads
    <2> QED BY <1>0, <1>1, <2>1, <2>2, <2>3 DEF CommandInv
  <1>4. \A d \in Callers : ~Leads(d)' /\ ~Preparing(d)'
    BY <1>3 DEF Leads, Preparing
  <1>5. PoolTypeOK'
    BY <1>0, <1>1, <1>2 DEF PoolTypeOK, CallerLabel
  <1>6. LeaderInv'
    BY <1>0, <1>1, <1>3, <1>4 DEF LeaderInv
  <1>7. CommandInv'
    BY <1>0, <1>1, <1>3 DEF CommandInv
  <1>8. WorkerInv'
    BY <1>0, <1>1, <1>2, <1>3 DEF WorkerInv, Busy
  <1>9. CountInv'
    BY <1>1, <1>3, <1>4 DEF CountInv
  <1>10. MutexInv'
    <2>1. HoldsCompletion(c)' <=> HoldsCompletion(c)
      BY <1>1, <1>2, ThreadKinds DEF HoldsCompletion
    <2> QED BY <1>0, <1>1, <1>2, <1>3, <2>1, ThreadKinds DEF MutexInv, HoldsCompletion, HoldsCommand
  <1>11. WakeupInv'
    BY <1>1, <1>2, <1>3 DEF WakeupInv
  <1>12. OperationInv'
    BY <1>1 DEF OperationInv
  <1> QED BY <1>5, <1>6, <1>7, <1>8, <1>9, <1>10, <1>11, <1>12 DEF IInv

-----------------------------------------------------------------------------
(* The invariant holds initially ... *)
LEMMA InitEstablishesInv ==
  ASSUME Init
  PROVE  IInv
  <1> USE DEF Init
  <1>1. PICK creator \in Callers :
          pc = [t \in Threads |-> IF t \in Workers THEN "unborn"
                                  ELSE IF t = creator THEN "spawn" ELSE "idle"]
    OBVIOUS
  <1>2. /\ \A w \in Workers : pc[w] = "unborn" /\ last_command[w] = command
        /\ \A c \in Callers : pc[c] = IF c = creator THEN "spawn" ELSE "idle"
        /\ pool = "creating" /\ command = InitCommand
    BY <1>1, ThreadKinds
  <1>3. PoolTypeOK
    <2>1. command \in Command
      BY <1>2 DEF Command, InitCommand
    <2>2. pc \in [Threads -> CallerLabel \cup WorkerLabel]
      BY <1>1 DEF CallerLabel, WorkerLabel
    <2>3. /\ \A c \in Callers : pc[c] \in CallerLabel
          /\ \A w \in Workers : pc[w] \in WorkerLabel
      BY <1>2 DEF CallerLabel, WorkerLabel
    <2>4. active_threads \in 0 .. Cardinality(Workers)
      BY CountWorkers
    <2> QED BY <1>2, <2>1, <2>2, <2>3, <2>4 DEF PoolTypeOK
  <1>4. LeaderInv /\ CommandInv
    <2>1. \A c \in Callers : Leads(c) <=> c = creator
      BY <1>2 DEF Leads
    <2>2. LeaderInv
      BY <1>2, <2>1 DEF LeaderInv
    <2> QED BY <1>2, <2>2 DEF CommandInv, InitCommand
  <1>5. WorkerInv
    BY <1>2 DEF WorkerInv, InitCommand
  <1>6. CountInv
    <2>1. Owers = Workers /\ Open(creator) /\ \A c \in Callers : ~Preparing(c)
      BY <1>2 DEF Owers, Owes, Busy, Open, Preparing
    <2> QED BY <2>1 DEF CountInv
  <1>7. MutexInv
    BY <1>2, ThreadKinds DEF MutexInv, HoldsCompletion, HoldsCommand
  <1>8. WakeupInv /\ OperationInv
    BY <1>2 DEF WakeupInv, OperationInv
  <1> QED BY <1>3, <1>4, <1>5, <1>6, <1>7, <1>8 DEF IInv

(* ... a step that changes nothing keeps it ... *)
LEMMA StutteringKeepsInv ==
  ASSUME IInv, UNCHANGED vars
  PROVE  IInv'
  <1> USE DEF vars, mutexes, operation, locals
  <1>1. PoolTypeOK' /\ LeaderInv' /\ CommandInv' /\ OperationInv'
    BY DEF IInv, PoolTypeOK, LeaderInv, CommandInv, OperationInv, Leads
  <1>2. WorkerInv' /\ MutexInv' /\ WakeupInv'
    BY DEF IInv, WorkerInv, Busy, MutexInv, HoldsCompletion, HoldsCommand, WakeupInv, Broadcasts
  <1>3. CountInv'
    <2>1. Owers' = Owers
      BY DEF Owers, Owes, Busy
    <2> QED BY <2>1 DEF IInv, CountInv, Owes, Busy, Preparing, Open
  <1> QED BY <1>1, <1>2, <1>3 DEF IInv

(* ... and so does every step of a thread or of its surroundings. *)
LEMMA NextKeepsInv ==
  ASSUME IInv, Next
  PROVE  IInv'
  <1>1. ASSUME NEW w \in Workers, WorkerStep(w)
        PROVE  IInv'
    BY <1>1, WorkerMovesKeepInv, DecrementKeepsInv, SignalKeepsInv, LoadCommandKeepsInv,
       DispatchKeepsInv, WorkerEnterKeepsInv DEF WorkerStep
  <1>2. ASSUME NEW c \in Callers, CallerStep(c)
        PROVE  IInv'
    BY <1>2, WorkerMovesKeepInv, WaitingKeepsInv, CallerMovesKeepInv, LockKeepsInv,
       StoreActiveKeepsInv, StoreCommandKeepsInv, BroadcastKeepsInv, WaitEndsKeepsInv,
       UnlockKeepsInv, JoinKeepsInv DEF CallerStep
  <1>3. CASE Environment
    <2>1. ASSUME NEW t \in Threads, SpuriousWakeup(t)
          PROVE  IInv'
      BY <2>1, ThreadKinds, WorkerMovesKeepInv, WaitingKeepsInv
    <2> QED BY <1>3, <2>1, CallerMovesKeepInv, DestroyKeepsInv DEF Environment
  <1> QED BY <1>1, <1>2, <1>3 DEF Next

(* The invariant holds in every state the handshake can reach. *)
THEOREM InductiveInvariant == Spec => []IInv
  <1>1. IInv /\ [Next]_vars => IInv'
    BY NextKeepsInv, StutteringKeepsInv
  <1> QED BY <1>1, InitEstablishesInv, PTL DEF Spec

-----------------------------------------------------------------------------
(* The theorems about the counter and the wakeups. *)

(* The counter is right at any time between two stores of it. *)
LEMMA InvActiveThreadsCountsOwers ==
  ASSUME IInv
  PROVE  ActiveThreadsCountsOwers
  <1>1. CommandInv /\ CountInv
    BY DEF IInv
  <1>2. ASSUME pool \in {"creating", "ready"}
        PROVE  command.op # "shutdown"
    BY <1>1, <1>2 DEF CommandInv
  <1> QED BY <1>1, <1>2 DEF ActiveThreadsCountsOwers, CountInv, Preparing, Owers

(* active_threads is the number of workers that still have to check in, *)
(* whether or not the store of it held completion_mutex.                *)
THEOREM CounterCountsOwers == Spec => []ActiveThreadsCountsOwers
  BY InvActiveThreadsCountsOwers, InductiveInvariant, PTL

(* Whoever sleeps in vain is about to be woken. *)
LEMMA InvNoLostWakeup ==
  ASSUME IInv
  PROVE  NoLostWakeup
  BY DEF IInv, WakeupInv, NoLostWakeup, Broadcasts

(* A thread sleeps on for nothing at most until the broadcast or the signal *)
(* that somebody has before him.                                            *)
THEOREM WakeupsAreNotLost == Spec => []NoLostWakeup
  BY InvNoLostWakeup, InductiveInvariant, PTL

-----------------------------------------------------------------------------
(* The handshake implements a fork and join. *)

(* A step that ForkJoin does not see. *)
LEMMA InvisibleStep ==
  ASSUME pool' = pool,
         \/ pool = "creating"
         \/ \A c \in Callers : Published(c)' <=> Published(c),
         \A w \in Workers :
           /\ Phase = "creating" => (Busy(w)' <=> Busy(w))
           /\ Phase = "open" => (ran'[w] = 0 <=> ran[w] = 0)
           /\ Phase = "stopping" => (pc'[w] = "exited" <=> pc[w] = "exited")
           /\ pc'[w] = "run" <=> pc[w] = "run"
  PROVE  UNCHANGED <<Phase, ToDo, Inside>>
  <1>1. Phase' = Phase
    BY DEF Phase
  <1>2. ToDo' = ToDo
    BY <1>1 DEF ToDo
  <1>3. Inside' = Inside
    BY DEF Inside
  <1> QED BY <1>1, <1>2, <1>3

(* Most steps of the callers are of this kind, ... *)
LEMMA InvisibleCallerSteps ==
  ASSUME IInv, NEW c \in Callers,
         \/ AllSpawned(c) \/ KeepWaiting(c) \/ LockCompletion(c) \/ CheckCompletion(c)
         \/ CheckFails(c) \/ WaitForCompletion(c) \/ SpuriousWakeup(c)
         \/ \E requested \in SUBSET Flag : Parallelize(c, requested)
         \/ LockCommand(c) \/ StoreOperation(c) \/ StoreActive(c) \/ UnlockCommand(c)
         \/ Leave(c) \/ Unlock(c)
  PROVE  UNCHANGED <<Phase, ToDo, Inside>>
  <1>1. PoolTypeOK /\ LeaderInv
    BY DEF IInv
  <1>2. pool' = pool /\ ran' = ran
    BY DEF AllSpawned, KeepWaiting, LockCompletion, LockCompletionMutex, CheckCompletion, CheckFails,
           WaitForCompletion, UnlockCompletionMutex, SpuriousWakeup, Parallelize, LockCommand,
           LockCommandMutex, StoreOperation, StoreActive, UnlockCommand, UnlockCommandMutex,
           Leave, Unlock, locals
  <1>3. PICK label \in CallerLabel :
          /\ pc' = [pc EXCEPT ![c] = label]
          /\ \/ pc[c] = "spawn"
             \/ Published(c) /\
                label \in {"broadcast", "run", "wait", "spin", "lock_completion", "relock", "check",
                           "cond_wait", "asleep", "unlock_completion", "join"}
             \/ ~Published(c) /\
                label \in {"idle", "lock", "store_operation", "store_active", "store_command"}
    BY DEF AllSpawned, KeepWaiting, LockCompletion, LockCompletionMutex, CheckCompletion, CheckFails,
           WaitForCompletion, SpuriousWakeup, Parallelize, LockCommand,
           LockCommandMutex, StoreOperation, StoreActive, UnlockCommand, UnlockCommandMutex,
           Leave, Unlock, Goto, CallerLabel, Published
  <1>4. /\ \A w \in Workers : pc'[w] = pc[w]
        /\ \A d \in Callers : pc'[d] = IF d = c THEN label ELSE pc[d]
    BY <1>1, <1>3, ThreadKinds DEF PoolTypeOK
  <1>5. pool = "creating" \/ \A d \in Callers : Published(d)' <=> Published(d)
    <2>1. CASE pc[c] = "spawn"
      BY <1>1, <2>1, WaitersCount DEF Awaiting
    <2>2. CASE pc[c] # "spawn"
      BY <1>3, <1>4, <2>2 DEF Published
    <2> QED BY <2>1, <2>2
  <1> QED BY <1>2, <1>4, <1>5, InvisibleStep DEF Busy

(* ... also the broadcast and the lock, ... *)
LEMMA InvisibleBroadcast ==
  ASSUME IInv, NEW c \in Callers, Broadcast(c)
  PROVE  UNCHANGED <<Phase, ToDo, Inside>>
  <1>1. PoolTypeOK
    BY DEF IInv
  <1>2. /\ \A d \in Callers :
             pc'[d] = IF d # c THEN pc[d] ELSE IF pool = "ready" THEN "run" ELSE "unlock_command"
        /\ \A w \in Workers : pc'[w] = pc[w] \/ (pc[w] = "asleep" /\ pc'[w] = "relock")
        /\ pc[c] = "broadcast" /\ pool' = pool /\ ran' = ran
    BY <1>1, ThreadKinds DEF Broadcast, WakeAll, PoolTypeOK, locals
  <1>3. \A d \in Callers : Published(d)' <=> Published(d)
    BY <1>2 DEF Published
  <1> QED BY <1>2, <1>3, InvisibleStep DEF Busy

LEMMA InvisibleLock ==
  ASSUME IInv, NEW c \in Callers, Lock(c)
  PROVE  UNCHANGED <<Phase, ToDo, Inside>>
  <1>1. PoolTypeOK /\ LeaderInv
    BY DEF IInv
  <1>2. /\ pool' = pool /\ pc[c] = "lock" /\ pc' = [pc EXCEPT ![c] = "lock_command"]
        /\ execution_mutex = Nobody
    BY DEF Lock, Goto
  <1>3. pool = "ready" /\ \A d \in Callers : ~Leads(d)
    BY <1>1, <1>2, ThreadKinds DEF PoolTypeOK, LeaderInv
  <1>4. /\ \A d \in Callers : ~Published(d) /\ ~Published(d)'
        /\ \A w \in Workers : pc'[w] = pc[w]
    BY <1>1, <1>2, <1>3, ThreadKinds DEF PoolTypeOK, Published, Leads
  <1>5. Phase = "ready"
    BY <1>3, <1>4 DEF Phase
  <1> QED BY <1>2, <1>4, <1>5, InvisibleStep

(* ... and most of the workers. *)
LEMMA InvisibleWorkerSteps ==
  ASSUME IInv, NEW w \in Workers,
         \/ \E c \in Callers : Spawn(c, w)
         \/ CheckinLock(w) \/ CheckinUnlock(w) \/ SeeNothing(w) \/ WorkerLockCommand(w)
         \/ ReadNothing(w) \/ WaitForCommand(w) \/ WorkerUnlockCommand(w) \/ SpuriousWakeup(w)
         \/ SeeCommand(w) \/ ReadCommand(w)
  PROVE  UNCHANGED <<Phase, ToDo, Inside>>
  <1> USE DEF Goto, locals, LockCompletionMutex, UnlockCompletionMutex, LockCommandMutex,
              UnlockCommandMutex, LoadCommand
  <1>1. PoolTypeOK /\ CommandInv
    BY DEF IInv
  <1>2. pool' = pool /\ ran' = ran
    BY DEF Spawn, CheckinLock, CheckinUnlock, SeeNothing, WorkerLockCommand, ReadNothing,
           WaitForCommand, WorkerUnlockCommand, SpuriousWakeup, SeeCommand, ReadCommand
  <1>3. PICK label \in WorkerLabel :
          /\ pc' = [pc EXCEPT ![w] = label]
          /\ pc[w] \notin {"run", "exited"} /\ label \notin {"run", "exited"}
          /\ \/ pc[w] = "unborn" /\ label = "checkin"
             \/ pc[w] = "checkin" /\ label = "decrement"
             \/ pc[w] = "unlock_command" /\ label = "dispatch"
             \/ pc[w] \in Resting /\ label \in Resting
             \/ pc[w] \in Resting /\ label \in {"unlock_command", "dispatch"} /\ command # last_command[w]
    BY DEF Spawn, CheckinLock, CheckinUnlock, SeeNothing, WorkerLockCommand, ReadNothing,
           WaitForCommand, WorkerUnlockCommand, SpuriousWakeup, SeeCommand, ReadCommand,
           WorkerLabel, Resting
  <1>4. /\ \A v \in Workers : pc'[v] = IF v = w THEN label ELSE pc[v]
        /\ \A c \in Callers : pc'[c] = pc[c]
    BY <1>1, <1>3, ThreadKinds DEF PoolTypeOK
  <1>5. Phase = "creating" => \A v \in Workers : Busy(v)' <=> Busy(v)
    <2>1. Phase = "creating" => command = last_command[w]
      BY <1>1 DEF Phase, CommandInv, InitCommand
    <2> QED BY <1>3, <1>4, <2>1 DEF Busy, Resting
  <1>6. \A c \in Callers : Published(c)' <=> Published(c)
    BY <1>4 DEF Published
  <1> QED BY <1>2, <1>3, <1>4, <1>5, <1>6, InvisibleStep

LEMMA InvisibleSignal ==
  ASSUME IInv, NEW w \in Workers, Signal(w)
  PROVE  UNCHANGED <<Phase, ToDo, Inside>>
  <1>1. PoolTypeOK
    BY DEF IInv
  <1>2. /\ \A c \in Callers : pc'[c] = IF pc[c] = "asleep" THEN "relock" ELSE pc[c]
        /\ \A v \in Workers : pc'[v] = IF v = w THEN "unlock_completion" ELSE pc[v]
        /\ pc[w] = "signal" /\ pool' = pool /\ ran' = ran
    BY <1>1, ThreadKinds DEF Signal, WakeAll, PoolTypeOK, locals
  <1>3. \A c \in Callers : Published(c)' <=> Published(c)
    BY <1>2 DEF Published
  <1> QED BY <1>2, <1>3, InvisibleStep DEF Busy

(* The start of an operation and of the end of the pool. *)
LEMMA StoreCommandOpens ==
  ASSUME IInv, NEW c \in Callers, StoreCommand(c)
  PROVE  Handshake!Open \/ Handshake!Stop
  <1>1. PoolTypeOK /\ WorkerInv /\ OperationInv
    BY DEF IInv
  <1>2. /\ pool' = pool /\ ran' = ran /\ pc[c] = "store_command"
        /\ pc' = [pc EXCEPT ![c] = IF pool = "ready" THEN "unlock_command" ELSE "broadcast"]
    BY DEF StoreCommand, Goto, locals
  <1>3. /\ \A d \in Callers : Leads(d) <=> d = c
        /\ pool \in {"ready", "stopping"} /\ command.op # "shutdown"
    BY <1>2, ExclusiveMeansRest DEF Exclusive, Storing
  <1>4. \A d \in Callers : ~Published(d)
    BY <1>2, <1>3 DEF Leads, Published
  <1>5. Published(c)' /\ \A w \in Workers : pc'[w] = pc[w]
    BY <1>1, <1>2, ThreadKinds DEF PoolTypeOK, Published
  <1>6. Phase = "ready" /\ Phase' = IF pool = "ready" THEN "open" ELSE "stopping"
    BY <1>2, <1>3, <1>4, <1>5 DEF Phase
  <1>7. pool = "ready" => \A w \in Workers : ran[w] = 0
    BY <1>1, <1>2, <1>3 DEF OperationInv, Storing
  <1>8. \A w \in Workers : pc[w] # "exited"
    BY <1>1, <1>3 DEF WorkerInv
  <1>9. ToDo' = Workers
    BY <1>2, <1>3, <1>5, <1>6, <1>7, <1>8 DEF ToDo
  <1>10. Inside' = Inside
    BY <1>5 DEF Inside
  <1> QED BY <1>3, <1>6, <1>9, <1>10 DEF Handshake!Open, Handshake!Stop

(* The end of pthreadpool_create and of an operation. *)
LEMMA WaitIsOverCloses ==
  ASSUME IInv, NEW c \in Callers, AllCheckedIn(c) \/ UnlockCompletion(c)
  PROVE  Handshake!Created \/ Handshake!Close
  <1>1. PoolTypeOK /\ WakeupInv /\ OperationInv
    BY DEF IInv
  <1>2. pc[c] \in {"wait", "spin", "unlock_completion"} /\ active_threads = 0
    BY <1>1 DEF AllCheckedIn, UnlockCompletion, WakeupInv
  <1>3. /\ pool \in {"creating", "ready"}
        /\ \A d \in Callers : Leads(d) <=> d = c
        /\ \A w \in Workers : ~Owes(w)
    BY <1>2, WaitersCount DEF Awaiting
  <1>4. /\ pool' = "ready" /\ ran' = ran
        /\ pc' = [pc EXCEPT ![c] = IF pool = "creating" THEN "idle" ELSE "unlock"]
    BY <1>3 DEF AllCheckedIn, UnlockCompletion, UnlockCompletionMutex, Returns, Goto, locals
  <1>5. Phase = IF pool = "creating" THEN "creating" ELSE "open"
    BY <1>2, <1>3 DEF Phase, Published
  <1>6. \A d \in Callers : ~Published(d)'
    BY <1>1, <1>3, <1>4, ThreadKinds DEF PoolTypeOK, Leads, Published
  <1>7. Phase' = "ready"
    BY <1>4, <1>6 DEF Phase
  <1>8. \A w \in Workers : pc'[w] = pc[w] /\ pc[w] # "run" /\ ~Busy(w)
    BY <1>1, <1>3, <1>4, ThreadKinds DEF PoolTypeOK, Owes, Busy
  <1>9. Inside = {} /\ Inside' = {}
    BY <1>8 DEF Inside
  <1>10. pool = "ready" => \A w \in Workers : ran[w] = 1
    BY <1>1, <1>2, <1>3, <1>8 DEF OperationInv, Owes, Busy, Storing
  <1>11. ToDo = {} /\ ToDo' = {}
    BY <1>3, <1>5, <1>7, <1>8, <1>10 DEF ToDo
  <1> QED BY <1>3, <1>5, <1>7, <1>9, <1>11 DEF Handshake!Created, Handshake!Close

(* pthreadpool_destroy begins unseen. *)
LEMMA DestroyIsInvisible ==
  ASSUME IInv, NEW c \in Callers, Destroy(c)
  PROVE  UNCHANGED <<Phase, ToDo, Inside>>
  <1>1. PoolTypeOK
    BY DEF IInv
  <1>2. /\ pool = "ready" /\ pool' = "stopping"
        /\ pc' = [pc EXCEPT ![c] = "lock_command"]
        /\ \A d \in Callers : pc[d] = "idle"
    BY DEF Destroy, Goto
  <1>3. \A d \in Callers : ~Published(d) /\ ~Published(d)'
    BY <1>1, <1>2, ThreadKinds DEF PoolTypeOK, Published
  <1>4. Phase = "ready" /\ Phase' = "ready"
    BY <1>2, <1>3 DEF Phase
  <1>5. \A w \in Workers : pc'[w] = pc[w]
    BY <1>1, <1>2, ThreadKinds DEF PoolTypeOK
  <1> QED BY <1>4, <1>5 DEF ToDo, Inside

(* The pool is released when all workers have gone. *)
LEMMA JoinReleases ==
  ASSUME IInv, NEW c \in Callers, Join(c)
  PROVE  Handshake!Release
  <1>1. PoolTypeOK /\ LeaderInv
    BY DEF IInv
  <1>2. /\ pc[c] = "join" /\ pool' = "released" /\ pc' = [pc EXCEPT ![c] = "idle"]
        /\ \A w \in Workers : pc[w] = "exited"
    BY DEF Join, Goto
  <1>3. pool = "stopping"
    BY <1>1, <1>2 DEF PoolTypeOK, LeaderInv, Awaiting, Exclusive, Storing, Running
  <1>4. Phase = "stopping" /\ Phase' = "released"
    BY <1>2, <1>3 DEF Phase, Published
  <1>5. \A w \in Workers : pc'[w] = pc[w]
    BY <1>1, <1>2, ThreadKinds DEF PoolTypeOK
  <1>6. ToDo = {} /\ ToDo' = {} /\ Inside' = Inside
    BY <1>2, <1>4, <1>5 DEF ToDo, Inside
  <1> QED BY <1>4, <1>6 DEF Handshake!Release

(* A worker's first check-in is its answer to pthreadpool_create; those *)
(* after it are not seen.                                               *)
LEMMA DecrementAnswers ==
  ASSUME IInv, NEW w \in Workers, Decrement(w)
  PROVE  Handshake!Start(w) \/ UNCHANGED <<Phase, ToDo, Inside>>
  <1>1. PoolTypeOK
    BY DEF IInv
  <1>2. PICK label \in {"signal", "unlock_completion"} : pc' = [pc EXCEPT ![w] = label]
    BY DEF Decrement, Goto
  <1>3. pc[w] = "decrement" /\ pool' = pool /\ ran' = ran
    BY DEF Decrement, locals
  <1>4. /\ \A c \in Callers : pc'[c] = pc[c]
        /\ \A v \in Workers : pc'[v] = IF v = w THEN label ELSE pc[v]
    BY <1>1, <1>2, ThreadKinds DEF PoolTypeOK
  <1>5. CASE pool = "creating"
    <2>1. Phase = "creating" /\ Phase' = "creating"
      BY <1>3, <1>5 DEF Phase
    <2>2. ToDo' = ToDo \ {w} /\ w \in ToDo /\ Inside' = Inside
      BY <1>3, <1>4, <2>1 DEF ToDo, Inside, Busy
    <2> QED BY <2>1, <2>2 DEF Handshake!Start
  <1>6. CASE pool # "creating"
    <2>1. Phase # "creating"
      BY <1>6 DEF Phase
    <2> QED BY <1>3, <1>4, <2>1, InvisibleStep DEF Published
  <1> QED BY <1>5, <1>6

(* A worker that obeys the shutdown command exits; to dispatch an operation *)
(* is not seen.                                                             *)
LEMMA DispatchAnswers ==
  ASSUME IInv, NEW w \in Workers, Dispatch(w)
  PROVE  Handshake!Exit(w) \/ UNCHANGED <<Phase, ToDo, Inside>>
  <1>1. PoolTypeOK /\ LeaderInv /\ WorkerInv /\ CommandInv
    BY DEF IInv
  <1>2. pc[w] = "dispatch" /\ pool' = pool /\ ran' = ran
    BY DEF Dispatch
  <1>3. last_command[w] = command /\ command.op \in {"parallelize", "shutdown"}
    BY <1>1, <1>2 DEF PoolTypeOK, Command, WorkerInv, Busy
  <1>4. pc' = [pc EXCEPT ![w] = IF command.op = "shutdown" THEN "exited" ELSE "enter"]
    BY <1>3 DEF Dispatch, Goto
  <1>5. /\ \A c \in Callers : pc'[c] = pc[c]
        /\ \A v \in Workers :
             pc'[v] = IF v # w THEN pc[v]
                      ELSE IF command.op = "shutdown" THEN "exited" ELSE "enter"
    BY <1>1, <1>4, ThreadKinds DEF PoolTypeOK
  <1>6. CASE command.op = "shutdown"
    <2>1. pool = "stopping"
      BY <1>1, <1>2, <1>6 DEF PoolTypeOK, CommandInv, WorkerInv
    <2>2. \E c \in Callers : Published(c)
      BY <1>1, <1>6, <2>1 DEF LeaderInv, CommandInv, Published
    <2>3. Phase = "stopping" /\ Phase' = "stopping"
      BY <1>2, <1>5, <2>1, <2>2 DEF Phase, Published
    <2>4. ToDo' = ToDo \ {w} /\ w \in ToDo /\ Inside' = Inside
      BY <1>2, <1>5, <1>6, <2>3 DEF ToDo, Inside
    <2> QED BY <2>3, <2>4 DEF Handshake!Exit
  <1>7. CASE command.op # "shutdown"
    <2>1. \A v \in Workers : Busy(v)' <=> Busy(v)
      BY <1>2, <1>5, <1>7 DEF Busy
    <2> QED BY <1>2, <1>5, <1>7, <2>1, InvisibleStep DEF Published
  <1> QED BY <1>6, <1>7

(* A worker in the thread function has a caller that waits for it, or will. *)
LEMMA WorkerHasCaller ==
  ASSUME IInv, NEW w \in Workers, pc[w] \in {"enter", "run"}
  PROVE  pool = "ready" /\ \E c \in Callers : Leads(c) /\ pc[c] \in Running
  <1>1. PoolTypeOK /\ LeaderInv /\ CountInv /\ CommandInv /\ WorkerInv
    BY DEF IInv
  <1>2. Owes(w) /\ command.op = "parallelize"
    BY <1>1 DEF Owes, Busy, WorkerInv
  <1>3. PICK c \in Callers : Open(c)
    BY <1>1, <1>2 DEF CountInv
  <1>4. Leads(c)
    BY <1>3 DEF Leads, Open, Running, Awaiting
  <1>5. pool = "ready"
    BY <1>1, <1>2, <1>3, <1>4
       DEF PoolTypeOK, LeaderInv, CommandInv, InitCommand, Open, Running, Awaiting
  <1>6. pc[c] \in Running
    BY <1>1, <1>3, <1>5 DEF LeaderInv, Open, Exclusive, Storing
  <1> QED BY <1>4, <1>5, <1>6

(* A worker takes part in the operation when it calls the thread function ... *)
LEMMA WorkerEnterAnswers ==
  ASSUME IInv, NEW w \in Workers, WorkerEnter(w)
  PROVE  Handshake!Begin(w)
  <1>1. PoolTypeOK /\ OperationInv
    BY DEF IInv
  <1>2. /\ pc[w] = "enter" /\ pool' = pool
        /\ ran' = [ran EXCEPT ![w] = @ + 1]
        /\ pc' = [pc EXCEPT ![w] = "run"]
    BY DEF WorkerEnter, Goto
  <1>3. PICK c \in Callers : pool = "ready" /\ Leads(c) /\ pc[c] \in Running
    BY <1>2, WorkerHasCaller
  <1>4. ran[w] = 0
    BY <1>1, <1>2, <1>3 DEF OperationInv
  <1>5. /\ \A d \in Callers : pc'[d] = pc[d]
        /\ \A v \in Workers : pc'[v] = IF v = w THEN "run" ELSE pc[v]
        /\ \A v \in Workers : ran'[v] = IF v = w THEN 1 ELSE ran[v]
    BY <1>1, <1>2, <1>4, ThreadKinds DEF PoolTypeOK
  <1>6. Phase = "open" /\ Phase' = "open"
    BY <1>2, <1>3, <1>5 DEF Phase, Published, Running, Awaiting
  <1>7. w \in ToDo /\ ToDo' = ToDo \ {w}
    BY <1>4, <1>5, <1>6 DEF ToDo
  <1>8. Inside' = Inside \cup {w}
    BY <1>5 DEF Inside
  <1> QED BY <1>6, <1>7, <1>8 DEF Handshake!Begin

(* ... and has left it when it returns. *)
LEMMA WorkerLeaveAnswers ==
  ASSUME IInv, NEW w \in Workers, WorkerLeave(w)
  PROVE  Handshake!Finish(w)
  <1>1. PoolTypeOK
    BY DEF IInv
  <1>2. /\ pc[w] = "run" /\ pool' = pool /\ ran' = ran
        /\ pc' = [pc EXCEPT ![w] = "checkin"]
    BY DEF WorkerLeave, Goto, locals
  <1>3. /\ \A c \in Callers : pc'[c] = pc[c]
        /\ \A v \in Workers : pc'[v] = IF v = w THEN "checkin" ELSE pc[v]
    BY <1>1, <1>2, ThreadKinds DEF PoolTypeOK
  <1>4. Phase' = Phase
    BY <1>2, <1>3 DEF Phase, Published
  <1>5. ToDo' = ToDo
    BY <1>2, <1>3, <1>4 DEF ToDo, Busy
  <1>6. w \in Inside /\ Inside' = Inside \ {w}
    BY <1>2, <1>3 DEF Inside
  <1> QED BY <1>4, <1>5, <1>6 DEF Handshake!Finish

(* Every step is one of ForkJoin or invisible to it. *)
LEMMA StepSimulation ==
  ASSUME IInv, [Next]_vars
  PROVE  [Handshake!Next]_(Handshake!vars)
  <1> USE DEF Handshake!vars
  <1>1. CASE UNCHANGED vars
    BY <1>1 DEF vars, locals, Phase, Published, ToDo, Inside, Busy
  <1>2. ASSUME NEW w \in Workers, WorkerStep(w)
        PROVE  Handshake!Next \/ UNCHANGED <<Phase, ToDo, Inside>>
    <2>1. Handshake!Answer(w) \/ UNCHANGED <<Phase, ToDo, Inside>>
      BY <1>2, DecrementAnswers, DispatchAnswers, WorkerEnterAnswers, WorkerLeaveAnswers,
         InvisibleWorkerSteps, InvisibleSignal DEF WorkerStep, Handshake!Answer
    <2> QED BY <2>1 DEF Handshake!Next
  <1>3. ASSUME NEW c \in Callers, CallerStep(c)
        PROVE  Handshake!Next \/ UNCHANGED <<Phase, ToDo, Inside>>
    <2>1. CASE StoreCommand(c) \/ AllCheckedIn(c) \/ UnlockCompletion(c) \/ Join(c)
      BY <2>1, StoreCommandOpens, WaitIsOverCloses, JoinReleases DEF Handshake!Next
    <2>2. CASE ~(StoreCommand(c) \/ AllCheckedIn(c) \/ UnlockCompletion(c) \/ Join(c))
      BY <1>3, <2>2, InvisibleCallerSteps, InvisibleBroadcast, InvisibleLock, InvisibleWorkerSteps
         DEF CallerStep
    <2> QED BY <2>1, <2>2
  <1>4. CASE Environment
    <2>1. ASSUME NEW t \in Threads, SpuriousWakeup(t)
          PROVE  UNCHANGED <<Phase, ToDo, Inside>>
      BY <2>1, ThreadKinds, InvisibleCallerSteps, InvisibleWorkerSteps
    <2> QED BY <1>4, <2>1, InvisibleCallerSteps, DestroyIsInvisible DEF Environment
  <1> QED BY <1>1, <1>2, <1>3, <1>4 DEF Next

(* The handshake with mutexes and condition variables implements the fork *)
(* and join of module ForkJoin, as the one with futexes does: every worker *)
(* takes part in every operation once, no operation ends before all        *)
(* workers have left it, and the pool is released after all have gone.     *)
THEOREM ImplementsForkJoin == Spec => Handshake!Spec
  <1>1. Init => Handshake!Init
    <2> SUFFICES ASSUME Init PROVE Handshake!Init
      OBVIOUS
    <2>1. Phase = "creating"
      BY DEF Init, Phase
    <2>2. \A w \in Workers : pc[w] = "unborn"
      BY ThreadKinds DEF Init
    <2>3. ToDo = Workers /\ Inside = {}
      BY <2>1, <2>2 DEF ToDo, Inside, Busy
    <2> QED BY <2>1, <2>3 DEF Handshake!Init
  <1>2. IInv /\ [Next]_vars => [Handshake!Next]_(Handshake!vars)
    BY StepSimulation
  <1> QED BY <1>1, <1>2, InductiveInvariant, PTL DEF Spec, Handshake!Spec

-----------------------------------------------------------------------------
(* The memory.  First the data, the locations and the operations on them. *)
LEMMA DataKinds ==
  /\ Data = Handed \cup Workers /\ Handed \cap Workers = {}
  /\ "operation" \in Handed /\ "count" \in Handed
  /\ {"command", "active_threads", "execution_mutex"} \subseteq Locations
  /\ {"completion_mutex", "command_mutex"} \subseteq Locations
  BY DataAssumption DEF Data, Handed, Locations

LEMMA MemoryOperationTypes ==
  ASSUME MemoryTypeOK, NEW t \in Threads,
         \/ UNCHANGED memory
         \/ \E D \in SUBSET Data : store_relaxed(t, D)
         \/ \E l \in Locations, d \in Data : store_relaxed_at(t, l, d)
         \/ \E l \in Locations : store_release(t, l) \/ load_acquire(t, l)
         \/ \E l \in Locations : decrement_fetch_release(t, l)
         \/ \E S \in SUBSET Threads : synchronize(t, S)
  PROVE  MemoryTypeOK'
  <1> USE DEF MemoryTypeOK
  <1>1. CASE UNCHANGED memory
    BY <1>1 DEF memory
  <1>2. ASSUME NEW D \in SUBSET Data, store_relaxed(t, D)
        PROVE  MemoryTypeOK'
    BY <1>2 DEF store_relaxed
  <1>3. ASSUME NEW l \in Locations, NEW d \in Data, store_relaxed_at(t, l, d)
        PROVE  MemoryTypeOK'
    BY <1>3 DEF store_relaxed_at
  <1>4. ASSUME NEW l \in Locations, store_release(t, l) \/ load_acquire(t, l)
        PROVE  MemoryTypeOK'
    BY <1>4 DEF store_release, load_acquire
  <1>5. ASSUME NEW l \in Locations, decrement_fetch_release(t, l)
        PROVE  MemoryTypeOK'
    BY <1>5 DEF decrement_fetch_release
  <1>6. ASSUME NEW S \in SUBSET Threads, synchronize(t, S)
        PROVE  MemoryTypeOK'
    <2>1. UNION {knows[s] : s \in S} \subseteq Data
      OBVIOUS
    <2> QED BY <1>6, <2>1 DEF synchronize
  <1> QED BY <1>1, <1>2, <1>3, <1>4, <1>5, <1>6

(* What a step leaves that only passes knowledge on, and not by what the *)
(* invariant speaks of: nobody forgets, and the three locations keep     *)
(* what they carry.                                                      *)
Keeps ==
  /\ MemoryTypeOK'
  /\ \A t \in Threads : knows[t] \subseteq knows'[t]
  /\ carries'["command"] = carries["command"]
  /\ carries'["active_threads"] = carries["active_threads"]
  /\ carries'["execution_mutex"] = carries["execution_mutex"]

(* The mutexes of the handshake pass knowledge on, but nothing rests on that. *)
LEMMA KeepingOperations ==
  ASSUME MemoryTypeOK, NEW t \in Threads,
         \/ UNCHANGED memory
         \/ \E l \in Locations : load_acquire(t, l)
         \/ \E l \in {"completion_mutex", "command_mutex"} : store_release(t, l)
         \/ \E S \in SUBSET Threads : synchronize(t, S)
  PROVE  Keeps
  <1>1. CASE UNCHANGED memory
    <2>1. MemoryTypeOK'
      BY <1>1, MemoryOperationTypes
    <2> QED BY <1>1, <2>1 DEF memory, Keeps
  <1>2. ASSUME NEW l \in Locations, load_acquire(t, l)
        PROVE  Keeps
    <2>1. MemoryTypeOK'
      BY <1>2, MemoryOperationTypes
    <2> QED BY <1>2, <2>1 DEF load_acquire, Keeps, MemoryTypeOK
  <1>3. ASSUME NEW l \in {"completion_mutex", "command_mutex"}, store_release(t, l)
        PROVE  Keeps
    <2>1. MemoryTypeOK'
      BY <1>3, DataKinds, MemoryOperationTypes
    <2> QED BY <1>3, <2>1, DataKinds DEF store_release, Keeps, MemoryTypeOK
  <1>4. ASSUME NEW S \in SUBSET Threads, synchronize(t, S)
        PROVE  Keeps
    <2>1. MemoryTypeOK'
      BY <1>4, MemoryOperationTypes
    <2> QED BY <1>4, <2>1 DEF synchronize, Keeps, MemoryTypeOK
  <1> QED BY <1>1, <1>2, <1>3, <1>4

(* While a caller stores, or ends its operation, all workers have seen the *)
(* last command and are done with it.                                      *)
LEMMA ExclusiveMeansIdleWorkers ==
  ASSUME IInv, NEW c \in Callers, pc[c] \in Exclusive
  PROVE  /\ \A d \in Callers : Leads(d) <=> d = c
         /\ ~Awaited
         /\ \A w \in Workers : ~AtWork(w) /\ Started(w) /\ command = last_command[w]
  BY ExclusiveMeansRest DEF Awaited, Owes, Busy, AtWork, Started

(* A worker that owes its check-in is awaited, and until it has checked in *)
(* nobody stores and nobody has seen that all workers have checked in.     *)
LEMMA OwingMeansAwaited ==
  ASSUME IInv, NEW w \in Workers, Owes(w), command.op # "shutdown"
  PROVE  /\ Awaited
         /\ \A c \in Callers : pc[c] \notin Exclusive \cup {"unlock_completion"}
  <1>0. PoolTypeOK /\ LeaderInv /\ CommandInv /\ CountInv /\ WakeupInv
    BY DEF IInv
  <1>1. \A c \in Callers : pc[c] \notin Exclusive
    BY ExclusiveMeansRest
  <1>2. PICK c \in Callers : Open(c)
    BY <1>0 DEF CountInv
  <1>3. Leads(c) /\ pool \notin {"stopping", "released"}
    BY <1>0, <1>2 DEF Open, Running, Awaiting, Leads, LeaderInv, CommandInv
  <1>4. \A d \in Callers : pc[d] # "unlock_completion"
    BY <1>0, WaitersCount DEF WakeupInv, Awaiting
  <1> QED BY <1>0, <1>1, <1>2, <1>3, <1>4 DEF Awaited, PoolTypeOK

(* Who knows more does not mind, unless workers have to know more, too. *)
LEMMA WorkersKeepMemory ==
  ASSUME MemInv, Keeps, UNCHANGED command,
         Awaited' => Awaited,
         \A w \in Workers :
           /\ last_command'[w] = last_command[w]
           /\ Awaited' /\ Owes(w) => Owes(w)'
           /\ Started(w)' => Started(w)
           /\ AtWork(w)' => AtWork(w)
  PROVE  CommandCarries' /\ CounterCarries'
  <1>0. CommandCarries /\ CounterCarries
    BY DEF MemInv
  <1>1. CommandCarries'
    BY <1>0, ThreadKinds DEF CommandCarries, Keeps
  <1>2. CounterCarries'
    BY <1>0 DEF CounterCarries, Keeps
  <1> QED BY <1>1, <1>2

(* A step that does not move a thread to where it would have to know more. *)
LEMMA QuietStep ==
  ASSUME MemInv, Keeps, UNCHANGED <<pool, command, last_command>>,
         \A c \in Callers :
           /\ Leads(c)' <=> Leads(c)
           /\ Open(c)' => Open(c)
           /\ pc'[c] \in Exclusive \cup {"unlock_completion"} =>
                pc[c] \in Exclusive \cup {"unlock_completion"}
           /\ pool = "ready" /\ pc'[c] \in Running => pc[c] \in Running,
         \A w \in Workers :
           /\ pool \in {"creating", "ready"} /\ Owes(w) => Owes(w)'
           /\ Started(w)' => Started(w)
           /\ AtWork(w)' => AtWork(w)
  PROVE  MemInv'
  <1>0. CallersKnow
    BY DEF MemInv
  <1>1. CallersKnow'
    <2>1. \A c \in Callers : knows[c] \subseteq knows'[c]
      BY ThreadKinds DEF Keeps
    <2> QED BY <1>0, <2>1 DEF CallersKnow, Keeps
  <1>2. CommandCarries' /\ CounterCarries'
    <2>1. Awaited' => Awaited /\ pool \in {"creating", "ready"}
      BY DEF Awaited
    <2> QED BY <2>1, WorkersKeepMemory
  <1> QED BY <1>1, <1>2 DEF MemInv, Keeps

LEMMA QuietCallerSteps ==
  ASSUME IInv, MemInv, NEW c \in Callers,
         \/ \E requested \in SUBSET Flag : Parallelize(c, requested)
         \/ AllSpawned(c) \/ LockCommand(c) \/ UnlockCommand(c) \/ Leave(c) \/ KeepWaiting(c)
         \/ LockCompletion(c) \/ CheckFails(c) \/ WaitForCompletion(c) \/ SpuriousWakeup(c)
  PROVE  MemInv'
  <1> USE DEF Goto, locals, LockCompletionMutex, UnlockCompletionMutex, LockCommandMutex,
              UnlockCommandMutex
  <1>0. PoolTypeOK /\ LeaderInv /\ MemoryTypeOK /\ c \in Threads /\ c \notin Workers
    BY ThreadKinds DEF IInv, MemInv
  <1>1. UNCHANGED <<pool, command, last_command>>
    BY DEF Parallelize, AllSpawned, LockCommand, UnlockCommand, Leave, KeepWaiting, LockCompletion,
           CheckFails, WaitForCompletion, SpuriousWakeup
  <1>2. PICK label \in CallerLabel :
          /\ pc' = [pc EXCEPT ![c] = label]
          /\ <<pc[c], label>> \in
               {<<"idle", "lock">>, <<"spawn", "wait">>, <<"lock_command", "store_operation">>,
                <<"lock_command", "store_active">>, <<"unlock_command", "broadcast">>,
                <<"unlock_command", "join">>, <<"run", "wait">>, <<"wait", "spin">>,
                <<"spin", "lock_completion">>, <<"lock_completion", "check">>,
                <<"relock", "check">>, <<"check", "cond_wait">>, <<"cond_wait", "asleep">>,
                <<"asleep", "relock">>}
    BY <1>0 DEF Parallelize, AllSpawned, LockCommand, UnlockCommand, Leave, KeepWaiting,
           LockCompletion, CheckFails, WaitForCompletion, SpuriousWakeup, PoolTypeOK, CallerLabel
  <1>3. \/ UNCHANGED memory
        \/ \E l \in {"completion_mutex", "command_mutex"} : load_acquire(c, l) \/ store_release(c, l)
    BY DEF Parallelize, AllSpawned, LockCommand, UnlockCommand, Leave, KeepWaiting, LockCompletion,
           CheckFails, WaitForCompletion, SpuriousWakeup
  <1>4. Keeps
    BY <1>0, <1>3, DataKinds, KeepingOperations
  <1> HIDE DEF Goto, locals
  <1>5. /\ \A w \in Workers : pc'[w] = pc[w]
        /\ \A d \in Callers : pc'[d] = IF d = c THEN label ELSE pc[d]
    BY <1>0, <1>2, ThreadKinds DEF PoolTypeOK
  <1>6. /\ Leads(c)' <=> Leads(c)
        /\ Open(c)' => Open(c)
        /\ label \in Exclusive \cup {"unlock_completion"} => pc[c] \in Exclusive
        /\ pool = "ready" /\ label \in Running => pc[c] \in Running
    <2>1. pc[c] = "spawn" => pool # "ready"
      BY <1>0 DEF LeaderInv, Exclusive, Storing, Running, Awaiting
    <2> QED BY <1>2, <1>5, <2>1 DEF Leads, Open, Exclusive, Storing, Running, Awaiting
  <1>7. \A d \in Callers :
          /\ Leads(d)' <=> Leads(d)
          /\ Open(d)' => Open(d)
          /\ pc'[d] \in Exclusive \cup {"unlock_completion"} =>
               pc[d] \in Exclusive \cup {"unlock_completion"}
          /\ pool = "ready" /\ pc'[d] \in Running => pc[d] \in Running
    BY <1>5, <1>6 DEF Leads, Open
  <1>8. \A w \in Workers : /\ Owes(w) => Owes(w)'
                           /\ Started(w)' => Started(w)
                           /\ AtWork(w)' => AtWork(w)
    BY <1>1, <1>5 DEF Owes, Busy, Started, AtWork
  <1> QED BY <1>1, <1>4, <1>7, <1>8, QuietStep

LEMMA BroadcastKeepsMemory ==
  ASSUME IInv, MemInv, NEW c \in Callers, Broadcast(c)
  PROVE  MemInv'
  <1>0. PoolTypeOK /\ MemoryTypeOK /\ c \in Threads
    BY ThreadKinds DEF IInv, MemInv
  <1>1. UNCHANGED <<pool, command, last_command>> /\ UNCHANGED memory /\ pc[c] = "broadcast"
    BY DEF Broadcast, locals
  <1>2. /\ \A w \in Workers : pc'[w] = IF pc[w] = "asleep" THEN "relock" ELSE pc[w]
        /\ \A d \in Callers :
             pc'[d] = IF d # c THEN pc[d] ELSE IF pool = "ready" THEN "run" ELSE "unlock_command"
    BY <1>0, ThreadKinds DEF Broadcast, WakeAll, PoolTypeOK
  <1>3. Keeps
    BY <1>0, <1>1, KeepingOperations
  <1>4. \A d \in Callers :
          /\ Leads(d)' <=> Leads(d)
          /\ Open(d)' => Open(d)
          /\ pc'[d] \in Exclusive \cup {"unlock_completion"} =>
               pc[d] \in Exclusive \cup {"unlock_completion"}
          /\ pool = "ready" /\ pc'[d] \in Running => pc[d] \in Running
    BY <1>1, <1>2 DEF Leads, Open, Exclusive, Storing, Running
  <1>5. \A w \in Workers : /\ Owes(w) => Owes(w)'
                           /\ Started(w)' => Started(w)
                           /\ AtWork(w)' => AtWork(w)
    BY <1>1, <1>2 DEF Owes, Busy, Started, AtWork
  <1> QED BY <1>1, <1>3, <1>4, <1>5, QuietStep

LEMMA QuietWorkerSteps ==
  ASSUME IInv, MemInv, NEW w \in Workers,
         \/ CheckinLock(w) \/ CheckinUnlock(w) \/ SeeNothing(w) \/ WorkerLockCommand(w)
         \/ ReadNothing(w) \/ WaitForCommand(w) \/ WorkerUnlockCommand(w) \/ Dispatch(w)
         \/ WorkerLeave(w) \/ SpuriousWakeup(w)
  PROVE  MemInv'
  <1> USE DEF Goto, locals, LockCompletionMutex, UnlockCompletionMutex, LockCommandMutex,
              UnlockCommandMutex
  <1>0. PoolTypeOK /\ WorkerInv /\ CommandInv /\ MemoryTypeOK /\ w \in Threads /\ w \notin Callers
    BY ThreadKinds DEF IInv, MemInv
  <1>1. UNCHANGED <<pool, command, last_command>>
    BY DEF CheckinLock, CheckinUnlock, SeeNothing, WorkerLockCommand, ReadNothing, WaitForCommand,
           WorkerUnlockCommand, Dispatch, WorkerLeave, SpuriousWakeup
  <1>2. Dispatch(w) => \/ pc' = [pc EXCEPT ![w] = "enter"]
                       \/ command.op = "shutdown" /\ pc' = [pc EXCEPT ![w] = "exited"]
    <2>1. Dispatch(w) => last_command[w] = command /\ command.op \in {"parallelize", "shutdown"}
      BY <1>0 DEF Dispatch, WorkerInv, Busy, PoolTypeOK, Command
    <2> QED BY <1>0, <2>1 DEF Dispatch, PoolTypeOK
  <1>3. PICK label \in WorkerLabel :
          /\ pc' = [pc EXCEPT ![w] = label]
          /\ <<pc[w], label>> \in
               {<<"checkin", "decrement">>, <<"unlock_completion", "wait">>,
                <<"wait", "spin">>, <<"wait", "lock_command">>, <<"spin", "lock_command">>,
                <<"lock_command", "check">>, <<"relock", "check">>, <<"check", "cond_wait">>,
                <<"cond_wait", "asleep">>, <<"unlock_command", "dispatch">>,
                <<"dispatch", "enter">>, <<"dispatch", "exited">>, <<"run", "checkin">>,
                <<"asleep", "relock">>}
          /\ label = "exited" => command.op = "shutdown"
    <2>1. CASE Dispatch(w)
      <3>1. pc[w] = "dispatch"
        BY <2>1 DEF Dispatch
      <3> QED BY <1>0, <1>2, <2>1, <3>1 DEF PoolTypeOK, WorkerLabel
    <2>2. CASE ~Dispatch(w)
      BY <1>0, <2>2
         DEF CheckinLock, CheckinUnlock, SeeNothing, WorkerLockCommand, ReadNothing,
             WaitForCommand, WorkerUnlockCommand, WorkerLeave, SpuriousWakeup, PoolTypeOK,
             WorkerLabel
    <2> QED BY <2>1, <2>2
  <1>4. \/ UNCHANGED memory
        \/ \E l \in {"completion_mutex", "command_mutex"} : load_acquire(w, l) \/ store_release(w, l)
    BY DEF CheckinLock, CheckinUnlock, SeeNothing, WorkerLockCommand, ReadNothing, WaitForCommand,
           WorkerUnlockCommand, Dispatch, WorkerLeave, SpuriousWakeup
  <1>5. Keeps
    BY <1>0, <1>4, DataKinds, KeepingOperations
  <1> HIDE DEF Goto, locals
  <1>6. /\ \A d \in Callers : pc'[d] = pc[d]
        /\ \A v \in Workers : pc'[v] = IF v = w THEN label ELSE pc[v]
    BY <1>0, <1>3, ThreadKinds DEF PoolTypeOK
  <1>7. \A d \in Callers : (Leads(d)' <=> Leads(d)) /\ (Open(d)' => Open(d))
    BY <1>6 DEF Leads, Open
  <1>8. /\ pool \in {"creating", "ready"} /\ Owes(w) => Owes(w)'
        /\ Started(w)' => Started(w)
        /\ AtWork(w)' => AtWork(w)
    <2>1. pool \in {"creating", "ready"} => label # "exited"
      BY <1>0, <1>3 DEF CommandInv
    <2> QED BY <1>1, <1>3, <1>6, <2>1 DEF Owes, Busy, Started, AtWork
  <1>9. \A v \in Workers :
          /\ pool \in {"creating", "ready"} /\ Owes(v) => Owes(v)'
          /\ Started(v)' => Started(v)
          /\ AtWork(v)' => AtWork(v)
    BY <1>1, <1>6, <1>8 DEF Owes, Busy, Started, AtWork
  <1> QED BY <1>1, <1>5, <1>6, <1>7, <1>9, QuietStep

LEMMA SignalKeepsMemory ==
  ASSUME IInv, MemInv, NEW w \in Workers, Signal(w)
  PROVE  MemInv'
  <1>0. PoolTypeOK /\ MemoryTypeOK /\ w \in Threads
    BY ThreadKinds DEF IInv, MemInv
  <1>1. UNCHANGED <<pool, command, last_command>> /\ UNCHANGED memory /\ pc[w] = "signal"
    BY DEF Signal, locals
  <1>2. /\ \A v \in Workers : pc'[v] = IF v = w THEN "unlock_completion" ELSE pc[v]
        /\ \A d \in Callers : pc'[d] = IF pc[d] = "asleep" THEN "relock" ELSE pc[d]
    BY <1>0, ThreadKinds DEF Signal, WakeAll, PoolTypeOK
  <1>3. Keeps
    BY <1>0, <1>1, KeepingOperations
  <1>4. \A d \in Callers :
          /\ Leads(d)' <=> Leads(d)
          /\ Open(d)' => Open(d)
          /\ pc'[d] \in Exclusive \cup {"unlock_completion"} =>
               pc[d] \in Exclusive \cup {"unlock_completion"}
          /\ pc'[d] \in Running => pc[d] \in Running
    BY <1>1, <1>2 DEF Leads, Open, Exclusive, Storing, Running, Awaiting
  <1>5. \A v \in Workers : /\ Owes(v) => Owes(v)'
                           /\ Started(v)' => Started(v)
                           /\ AtWork(v)' => AtWork(v)
    BY <1>1, <1>2 DEF Owes, Busy, Started, AtWork
  <1> QED BY <1>1, <1>3, <1>4, <1>5, QuietStep

-----------------------------------------------------------------------------
(* The stores of a caller: nobody else is there to lose what he stores. *)
LEMMA StoresKeepMemory ==
  ASSUME IInv, MemInv, NEW c \in Callers, StoreOperation(c) \/ StoreActive(c)
  PROVE  MemInv'
  <1>0. PoolTypeOK /\ LeaderInv /\ MemoryTypeOK /\ CallersKnow /\ CommandCarries /\ c \in Threads
    BY ThreadKinds DEF IInv, MemInv
  <1>1. PICK label \in Exclusive :
          /\ UNCHANGED <<pool, command, last_command>>
          /\ pc[c] \in Exclusive /\ pc' = [pc EXCEPT ![c] = label]
    BY DEF StoreOperation, StoreActive, Goto, locals, Exclusive, Storing
  <1>2. PICK d \in Handed :
          knows' = [s \in Threads |-> IF s = c THEN knows[s] \cup {d} ELSE knows[s] \ {d}]
    BY DataKinds DEF StoreOperation, StoreActive, store_relaxed, store_relaxed_at
  <1>3. MemoryTypeOK'
    <2>1. CASE store_relaxed(c, {"operation"})
      <3>1. {"operation"} \in SUBSET Data
        BY DataKinds
      <3> QED BY <1>0, <2>1, <3>1, MemoryOperationTypes
    <2>2. CASE store_relaxed_at(c, "active_threads", "count")
      <3>1. "active_threads" \in Locations /\ "count" \in Data
        BY DataKinds
      <3> QED BY <1>0, <2>2, <3>1, MemoryOperationTypes
    <2> QED BY <2>1, <2>2 DEF StoreOperation, StoreActive
  <1>4. /\ \A b \in Callers : Leads(b) <=> b = c
        /\ \A w \in Workers : ~AtWork(w) /\ Started(w) /\ command = last_command[w]
    BY <1>1, ExclusiveMeansIdleWorkers
  <1>5. /\ \A b \in Callers : pc'[b] = IF b = c THEN label ELSE pc[b]
        /\ \A w \in Workers : pc'[w] = pc[w]
    BY <1>0, <1>1, ThreadKinds DEF PoolTypeOK
  <1>6. /\ \A b \in Callers : Leads(b)' <=> b = c
        /\ \A b \in Callers : ~Open(b)' /\ pc'[b] \notin Running
        /\ \A b \in Callers : pc'[b] \in Exclusive \cup {"unlock_completion"} => b = c
    BY <1>4, <1>5 DEF Leads, Open, Exclusive, Storing, Running, Awaiting
  <1>7. pool # "creating"
    BY <1>0, <1>1 DEF LeaderInv, Exclusive, Storing, Awaiting
  <1>8. CallersKnow'
    <2>1. Data \subseteq knows'[c]
      BY <1>0, <1>1, <1>2 DEF CallersKnow
    <2> QED BY <1>1, <1>6, <1>7, <2>1 DEF CallersKnow
  <1>9. CommandCarries'
    <2>1. \A w \in Workers : ~AtWork(w)' /\ (Started(w)' <=> Started(w))
      BY <1>4, <1>5 DEF AtWork, Started
    <2>2. \A w \in Workers : w \in knows[w] => w \in knows'[w]
      BY <1>2, ThreadKinds, DataKinds
    <2> QED BY <1>0, <1>1, <1>4, <2>1, <2>2 DEF CommandCarries
  <1>10. CounterCarries'
    BY <1>6 DEF CounterCarries, Awaited
  <1> QED BY <1>3, <1>8, <1>9, <1>10 DEF MemInv

(* The release store of the command takes along all that was stored. *)
LEMMA StoreCommandKeepsMemory ==
  ASSUME IInv, MemInv, NEW c \in Callers, StoreCommand(c)
  PROVE  MemInv'
  <1>0. /\ PoolTypeOK /\ LeaderInv /\ CommandInv
        /\ MemoryTypeOK /\ CallersKnow /\ CommandCarries
    BY DEF IInv, MemInv
  <1> DEFINE label == IF pool = "ready" THEN "unlock_command" ELSE "broadcast"
  <1>1. /\ UNCHANGED <<pool, last_command, knows>>
        /\ pc[c] \in Exclusive /\ pc' = [pc EXCEPT ![c] = label]
        /\ command' = IF pool = "ready" THEN NewCommand(command) ELSE ShutdownCommand
        /\ carries' = [carries EXCEPT !["command"] = knows[c]]
    BY DEF StoreCommand, Goto, Exclusive, Storing, store_release, locals
  <1>2. /\ \A b \in Callers : Leads(b) <=> b = c
        /\ \A w \in Workers : ~AtWork(w) /\ Started(w) /\ command = last_command[w]
        /\ pool \in {"ready", "stopping"} /\ command.op # "shutdown"
    BY <1>1, ExclusiveMeansIdleWorkers, ExclusiveMeansRest
  <1>3. /\ \A w \in Workers : pc'[w] = pc[w]
        /\ \A b \in Callers : pc'[b] = IF b = c THEN label ELSE pc[b]
    BY <1>0, <1>1, ThreadKinds DEF PoolTypeOK
  <1>4. Data \subseteq knows[c] /\ carries'["command"] = knows[c]
    BY <1>0, <1>1, DataKinds DEF CallersKnow, MemoryTypeOK
  <1>5. MemoryTypeOK'
    <2>1. "command" \in Locations /\ c \in Threads /\ store_release(c, "command")
      BY DataKinds, ThreadKinds DEF StoreCommand
    <2> QED BY <1>0, <2>1, MemoryOperationTypes
  <1>6. CallersKnow'
    <2>1. \A b \in Callers : Leads(b)' <=> b = c
      BY <1>2, <1>3 DEF Leads
    <2>2. \A b \in Callers : pc'[b] \notin Exclusive \cup {"unlock_completion"}
      BY <1>2, <1>3 DEF Leads, Exclusive, Storing
    <2>3. \A b \in Callers : pc'[b] \in Running => b = c
      BY <2>1 DEF Leads, Running, Awaiting
    <2> QED BY <1>1, <1>2, <1>4, <2>1, <2>2, <2>3, DataKinds DEF CallersKnow
  <1>7. CommandCarries'
    <2>1. \A w \in Workers : ~AtWork(w)' /\ (Started(w)' <=> Started(w))
      BY <1>2, <1>3 DEF AtWork, Started
    <2> QED BY <1>0, <1>1, <1>4, <2>1, DataKinds DEF CommandCarries
  <1>8. CounterCarries'
    <2>1. command' # command
      BY <1>0, <1>1, <1>2, NewCommandIsNew DEF PoolTypeOK
    <2> QED BY <1>1, <1>2, <2>1 DEF CounterCarries, Owes
  <1> QED BY <1>5, <1>6, <1>7, <1>8 DEF MemInv

-----------------------------------------------------------------------------
(* The steps by which callers pass on what they know. *)

(* The creator knows all there is, and what it starts begins with that. *)
LEMMA SpawnKeepsMemory ==
  ASSUME IInv, MemInv, NEW c \in Callers, NEW w \in Workers, Spawn(c, w)
  PROVE  MemInv'
  <1>0. PoolTypeOK /\ WorkerInv /\ MemoryTypeOK /\ CallersKnow /\ CommandCarries /\ CounterCarries
    BY DEF IInv, MemInv
  <1>1. pool = "creating" /\ Data \subseteq knows[c]
    BY <1>0 DEF Spawn, WorkerInv, CallersKnow
  <1>2. /\ pc' = [pc EXCEPT ![w] = "checkin"] /\ pc[w] = "unborn"
        /\ knows' = [knows EXCEPT ![w] = @ \cup knows[c]]
        /\ UNCHANGED <<pool, command, last_command>>
    <2>1. UNION {knows[s] : s \in {c}} = knows[c]
      OBVIOUS
    <2> QED BY <2>1 DEF Spawn, Goto, synchronize, locals
  <1>3. Keeps
    <2>1. {c} \in SUBSET Threads /\ w \in Threads /\ synchronize(w, {c})
      BY ThreadKinds DEF Spawn
    <2> QED BY <1>0, <2>1, KeepingOperations
  <1>4. Data \subseteq knows'[w]
    BY <1>0, <1>1, <1>2, ThreadKinds DEF MemoryTypeOK
  <1>5. /\ \A b \in Callers : pc'[b] = pc[b]
        /\ \A v \in Workers : pc'[v] = IF v = w THEN "checkin" ELSE pc[v]
    BY <1>0, <1>2, ThreadKinds DEF PoolTypeOK
  <1>6. CallersKnow'
    BY <1>0, <1>1, <1>2, <1>3, <1>5, ThreadKinds DEF CallersKnow, Keeps
  <1>7. CommandCarries'
    <2>1. Handed \subseteq knows'[w] /\ w \in knows'[w]
      BY <1>4, DataKinds
    <2>2. \A v \in Workers : knows[v] \subseteq knows'[v]
      BY <1>3, ThreadKinds DEF Keeps
    <2> QED BY <1>0, <1>2, <1>3, <1>5, <2>1, <2>2 DEF CommandCarries, Started, AtWork, Keeps
  <1>8. CounterCarries'
    <2>1. \A v \in Workers : Owes(v)' <=> Owes(v)
      BY <1>2, <1>5 DEF Owes, Busy
    <2>2. Awaited' <=> Awaited
      BY <1>2, <1>5 DEF Awaited, Open
    <2> QED BY <1>0, <1>3, <2>1, <2>2 DEF CounterCarries, Keeps
  <1> QED BY <1>3, <1>6, <1>7, <1>8 DEF MemInv, Keeps

(* Whoever gets execution_mutex gets with it what its last holder knew. *)
LEMMA LockKeepsMemory ==
  ASSUME IInv, MemInv, NEW c \in Callers, Lock(c)
  PROVE  MemInv'
  <1>0. PoolTypeOK /\ LeaderInv /\ MemoryTypeOK /\ CallersKnow
    BY DEF IInv, MemInv
  <1>1. /\ pc[c] = "lock" /\ pc' = [pc EXCEPT ![c] = "lock_command"]
        /\ knows' = [knows EXCEPT ![c] = @ \cup carries["execution_mutex"]]
        /\ UNCHANGED <<pool, command, last_command>>
    BY DEF Lock, Goto, load_acquire
  <1>2. pool = "ready" /\ \A b \in Callers : ~Leads(b)
    BY <1>0, <1>1, ThreadKinds DEF Lock, LeaderInv
  <1>3. Data \subseteq knows'[c]
    BY <1>0, <1>1, <1>2, ThreadKinds DEF CallersKnow, MemoryTypeOK
  <1>4. Keeps
    <2>1. "execution_mutex" \in Locations /\ c \in Threads /\ load_acquire(c, "execution_mutex")
      BY DataKinds, ThreadKinds DEF Lock
    <2> QED BY <1>0, <2>1, KeepingOperations
  <1>5. /\ \A w \in Workers : pc'[w] = pc[w]
        /\ \A b \in Callers : pc'[b] = IF b = c THEN "lock_command" ELSE pc[b]
    BY <1>0, <1>1, ThreadKinds DEF PoolTypeOK
  <1>6. /\ Leads(c)'
        /\ \A b \in Callers : ~Open(b)' /\ pc'[b] \notin Running
        /\ \A b \in Callers : pc'[b] \in Exclusive \cup {"unlock_completion"} => b = c
    BY <1>2, <1>5 DEF Leads, Open, Running, Awaiting, Exclusive, Storing
  <1>7. CallersKnow'
    BY <1>1, <1>2, <1>3, <1>6 DEF CallersKnow
  <1>8. CommandCarries' /\ CounterCarries'
    <2>1. ~Awaited'
      BY <1>6 DEF Awaited
    <2> QED BY <1>1, <1>4, <1>5, <2>1, WorkersKeepMemory DEF Started, AtWork
  <1> QED BY <1>4, <1>7, <1>8 DEF MemInv, Keeps

(* The load with acquire that finds the counter at zero makes known what all *)
(* workers did, with completion_mutex or without.                            *)
LEMMA ZeroMeansAllIsKnown ==
  ASSUME IInv, MemInv, NEW c \in Callers, pc[c] \in Awaiting, active_threads = 0,
         load_acquire(c, "active_threads")
  PROVE  Keeps /\ Data \subseteq knows'[c]
  <1>0. MemoryTypeOK /\ CallersKnow /\ CounterCarries
    BY DEF MemInv
  <1>1. Keeps
    BY <1>0, DataKinds, ThreadKinds, KeepingOperations
  <1>2. /\ pool \in {"creating", "ready"}
        /\ Open(c)
        /\ \A w \in Workers : ~Owes(w)
    BY WaitersCount
  <1>3. Workers \subseteq carries["active_threads"]
    BY <1>0, <1>2 DEF CounterCarries, Awaited
  <1>4. knows'[c] = knows[c] \cup carries["active_threads"]
    BY <1>0, ThreadKinds DEF load_acquire, MemoryTypeOK
  <1>5. Handed \subseteq knows[c]
    BY <1>0, <1>2, DataKinds DEF CallersKnow, Running
  <1> QED BY <1>1, <1>3, <1>4, <1>5, DataKinds

LEMMA CheckCompletionKeepsMemory ==
  ASSUME IInv, MemInv, NEW c \in Callers, CheckCompletion(c)
  PROVE  MemInv'
  <1>0. PoolTypeOK /\ CallersKnow
    BY DEF IInv, MemInv
  <1>1. /\ pc[c] = "check" /\ pc' = [pc EXCEPT ![c] = "unlock_completion"]
        /\ UNCHANGED <<pool, command, last_command>>
    BY DEF CheckCompletion, Goto, locals
  <1>2. Keeps /\ Data \subseteq knows'[c]
    BY <1>1, ZeroMeansAllIsKnown DEF CheckCompletion, Awaiting
  <1>3. /\ \A w \in Workers : pc'[w] = pc[w]
        /\ \A b \in Callers : pc'[b] = IF b = c THEN "unlock_completion" ELSE pc[b]
    BY <1>0, <1>1, ThreadKinds DEF PoolTypeOK
  <1>4. \A b \in Callers : /\ Leads(b)' <=> Leads(b)
                           /\ Open(b)' <=> Open(b)
                           /\ pc'[b] \in Running => pc[b] \in Running
    BY <1>1, <1>3 DEF Leads, Open, Running, Awaiting
  <1>5. CallersKnow'
    <2>1. \A b \in Callers : knows[b] \subseteq knows'[b]
      BY <1>2, ThreadKinds DEF Keeps
    <2>2. \A b \in Callers : pc'[b] \in Exclusive \cup {"unlock_completion"} => Data \subseteq knows'[b]
      BY <1>0, <1>2, <1>3, <2>1 DEF CallersKnow
    <2> QED BY <1>0, <1>1, <1>2, <1>4, <2>1, <2>2 DEF CallersKnow, Keeps
  <1>6. CommandCarries' /\ CounterCarries'
    <2>1. Awaited' => Awaited
      BY <1>1, <1>4 DEF Awaited
    <2> QED BY <1>1, <1>2, <1>3, <2>1, WorkersKeepMemory DEF Owes, Busy, Started, AtWork
  <1> QED BY <1>2, <1>5, <1>6 DEF MemInv, Keeps

(* The caller whose wait is over knows what all workers did. *)
LEMMA WaitEndsKeepsMemory ==
  ASSUME IInv, MemInv, NEW c \in Callers, AllCheckedIn(c) \/ UnlockCompletion(c)
  PROVE  MemInv'
  <1>0. PoolTypeOK /\ WakeupInv /\ MemoryTypeOK /\ CallersKnow
    BY DEF IInv, MemInv
  <1>1. /\ pc[c] \in {"wait", "spin", "unlock_completion"}
        /\ UNCHANGED <<command, last_command>>
    BY DEF AllCheckedIn, UnlockCompletion, UnlockCompletionMutex, locals
  <1>2. pool \in {"creating", "ready"} /\ \A b \in Callers : Leads(b) <=> b = c
    BY <1>1, WaitersCount DEF Awaiting
  <1>3. Keeps /\ Data \subseteq knows'[c]
    <2>1. CASE AllCheckedIn(c)
      BY <1>1, <2>1, ZeroMeansAllIsKnown DEF AllCheckedIn, Awaiting
    <2>2. CASE UnlockCompletion(c)
      <3>1. Keeps
        BY <1>0, <2>2, ThreadKinds, KeepingOperations DEF UnlockCompletion, UnlockCompletionMutex
      <3>2. Data \subseteq knows[c]
        BY <1>0, <2>2 DEF UnlockCompletion, CallersKnow
      <3> QED BY <3>1, <3>2, ThreadKinds DEF Keeps
    <2> QED BY <2>1, <2>2
  <1>4. /\ pool' = "ready"
        /\ pc' = [pc EXCEPT ![c] = IF pool = "creating" THEN "idle" ELSE "unlock"]
    BY <1>2 DEF AllCheckedIn, UnlockCompletion, Returns, Goto
  <1>5. /\ \A w \in Workers : pc'[w] = pc[w]
        /\ \A b \in Callers :
             pc'[b] = IF b # c THEN pc[b] ELSE IF pool = "creating" THEN "idle" ELSE "unlock"
    BY <1>0, <1>4, ThreadKinds DEF PoolTypeOK
  <1>6. /\ \A b \in Callers : ~Open(b)' /\ pc'[b] \notin Running
        /\ \A b \in Callers : pc'[b] \in Exclusive \cup {"unlock_completion"} => b = c
        /\ pool = "ready" => Leads(c)'
    BY <1>2, <1>5 DEF Open, Running, Awaiting, Leads, Exclusive, Storing
  <1>7. CallersKnow'
    <2>1. pool = "creating" => \A b \in Callers : Data \subseteq knows'[b]
      BY <1>0, <1>3, ThreadKinds DEF CallersKnow, Keeps
    <2> QED BY <1>2, <1>3, <1>4, <1>6, <2>1 DEF CallersKnow
  <1>8. CommandCarries' /\ CounterCarries'
    <2>1. ~Awaited'
      BY <1>6 DEF Awaited
    <2> QED BY <1>1, <1>3, <1>5, <2>1, WorkersKeepMemory DEF Started, AtWork
  <1> QED BY <1>3, <1>7, <1>8 DEF MemInv, Keeps

(* execution_mutex is given back with all its holder knows. *)
LEMMA UnlockKeepsMemory ==
  ASSUME IInv, MemInv, NEW c \in Callers, Unlock(c)
  PROVE  MemInv'
  <1>0. PoolTypeOK /\ LeaderInv /\ MemoryTypeOK /\ CallersKnow /\ CommandCarries
    BY DEF IInv, MemInv
  <1>1. /\ pc[c] = "unlock" /\ pc' = [pc EXCEPT ![c] = "idle"]
        /\ carries' = [carries EXCEPT !["execution_mutex"] = knows[c]]
        /\ UNCHANGED <<pool, command, last_command, knows>>
    BY DEF Unlock, Goto, store_release
  <1>2. /\ \A b \in Callers : Leads(b) <=> b = c
        /\ \A w \in Workers : ~AtWork(w) /\ Started(w) /\ command = last_command[w]
    BY <1>1, ExclusiveMeansIdleWorkers DEF Exclusive
  <1>3. Data \subseteq knows[c] /\ carries'["execution_mutex"] = knows[c]
    BY <1>0, <1>1, DataKinds DEF CallersKnow, MemoryTypeOK, Exclusive
  <1>4. pool = "ready"
    BY <1>0, <1>1 DEF LeaderInv, PoolTypeOK, Awaiting
  <1>5. MemoryTypeOK'
    <2>1. "execution_mutex" \in Locations /\ c \in Threads /\ store_release(c, "execution_mutex")
      BY DataKinds, ThreadKinds DEF Unlock
    <2> QED BY <1>0, <2>1, MemoryOperationTypes
  <1>6. /\ \A w \in Workers : pc'[w] = pc[w]
        /\ \A b \in Callers : pc'[b] = IF b = c THEN "idle" ELSE pc[b]
    BY <1>0, <1>1, ThreadKinds DEF PoolTypeOK
  <1>7. \A b \in Callers : /\ ~Leads(b)' /\ ~Open(b)'
                           /\ pc'[b] \notin Exclusive \cup Running \cup {"unlock_completion"}
    BY <1>2, <1>6 DEF Leads, Open, Exclusive, Storing, Running, Awaiting
  <1>8. CallersKnow'
    BY <1>1, <1>3, <1>4, <1>7 DEF CallersKnow
  <1>9. CommandCarries'
    <2>1. \A w \in Workers : ~AtWork(w)' /\ (Started(w)' <=> Started(w))
      BY <1>2, <1>6 DEF AtWork, Started
    <2> QED BY <1>0, <1>1, <1>2, <2>1 DEF CommandCarries
  <1>10. CounterCarries'
    BY <1>7 DEF CounterCarries, Awaited
  <1> QED BY <1>5, <1>8, <1>9, <1>10 DEF MemInv

(* The user that destroys the pool has waited for all its calls. *)
LEMMA DestroyKeepsMemory ==
  ASSUME IInv, MemInv, NEW c \in Callers, Destroy(c)
  PROVE  MemInv'
  <1>0. PoolTypeOK /\ MemoryTypeOK /\ CallersKnow
    BY DEF IInv, MemInv
  <1>1. /\ pool = "ready" /\ pool' = "stopping" /\ \A b \in Callers : ~Leads(b) /\ pc[b] = "idle"
        /\ pc' = [pc EXCEPT ![c] = "lock_command"]
        /\ knows' = [knows EXCEPT ![c] = @ \cup UNION {knows[b] : b \in Callers}]
        /\ UNCHANGED <<command, last_command>>
    BY DEF Destroy, Goto, synchronize, locals, Leads
  <1>2. Data \subseteq knows'[c]
    <2>1. PICK b \in Callers : Data \subseteq knows[b]
      BY <1>0, <1>1 DEF CallersKnow
    <2>2. Data \subseteq UNION {knows[d] : d \in Callers}
      BY <2>1
    <2> QED BY <1>0, <1>1, <2>2, ThreadKinds DEF MemoryTypeOK
  <1>3. Keeps
    <2>1. Callers \in SUBSET Threads /\ c \in Threads /\ synchronize(c, Callers)
      BY ThreadKinds DEF Destroy
    <2> QED BY <1>0, <2>1, KeepingOperations
  <1>4. /\ \A w \in Workers : pc'[w] = pc[w]
        /\ \A b \in Callers : pc'[b] = IF b = c THEN "lock_command" ELSE "idle"
    BY <1>0, <1>1, ThreadKinds DEF PoolTypeOK
  <1>5. CommandCarries' /\ CounterCarries'
    <2>1. ~Awaited'
      BY <1>1 DEF Awaited
    <2> QED BY <1>1, <1>3, <1>4, <2>1, WorkersKeepMemory DEF Started, AtWork
  <1>6. CallersKnow'
    BY <1>1, <1>2, <1>4 DEF CallersKnow, Exclusive, Storing
  <1> QED BY <1>3, <1>5, <1>6 DEF MemInv, Keeps

LEMMA JoinKeepsMemory ==
  ASSUME IInv, MemInv, NEW c \in Callers, Join(c)
  PROVE  MemInv'
  <1>0. PoolTypeOK /\ LeaderInv /\ MemoryTypeOK
    BY DEF IInv, MemInv
  <1>1. /\ pc[c] = "join" /\ pc' = [pc EXCEPT ![c] = "idle"] /\ pool' = "released"
        /\ UNCHANGED <<command, last_command>>
    BY DEF Join, Goto, locals
  <1>2. Keeps
    <2>1. Workers \in SUBSET Threads /\ c \in Threads /\ synchronize(c, Workers)
      BY ThreadKinds DEF Join
    <2> QED BY <1>0, <2>1, KeepingOperations
  <1>3. /\ \A w \in Workers : pc'[w] = pc[w]
        /\ \A b \in Callers : pc'[b] = IF b = c THEN "idle" ELSE pc[b]
    BY <1>0, <1>1, ThreadKinds DEF PoolTypeOK
  <1>4. \A b \in Callers : pc'[b] \notin Exclusive \cup {"unlock_completion"}
    BY <1>0, <1>1, <1>3 DEF LeaderInv, Leads, Exclusive, Storing
  <1>5. CommandCarries' /\ CounterCarries'
    <2>1. ~Awaited'
      BY <1>1 DEF Awaited
    <2> QED BY <1>1, <1>2, <1>3, <2>1, WorkersKeepMemory DEF Started, AtWork
  <1>6. CallersKnow'
    BY <1>1, <1>4 DEF CallersKnow
  <1> QED BY <1>2, <1>5, <1>6 DEF MemInv, Keeps

-----------------------------------------------------------------------------
(* The steps by which workers pass on what they know. *)

(* The decrement adds what the worker stored to what the counter carries. *)
LEMMA DecrementKeepsMemory ==
  ASSUME IInv, MemInv, NEW w \in Workers, Decrement(w)
  PROVE  MemInv'
  <1>0. /\ PoolTypeOK
        /\ MemoryTypeOK /\ CallersKnow /\ CommandCarries /\ CounterCarries
    BY DEF IInv, MemInv
  <1>1. /\ UNCHANGED <<pool, command, last_command, knows>> /\ pc[w] = "decrement"
        /\ pc' = [pc EXCEPT ![w] = IF active_threads' = 0 THEN "signal" ELSE "unlock_completion"]
        /\ carries' = [carries EXCEPT !["active_threads"] = @ \cup knows[w]]
    BY DEF Decrement, Goto, decrement_fetch_release, locals
  <1>2. /\ \A b \in Callers : pc'[b] = pc[b]
        /\ \A v \in Workers :
             pc'[v] = IF v # w THEN pc[v]
                      ELSE IF active_threads' = 0 THEN "signal" ELSE "unlock_completion"
        /\ carries'["execution_mutex"] = carries["execution_mutex"]
        /\ carries'["command"] = carries["command"]
        /\ carries'["active_threads"] = carries["active_threads"] \cup knows[w]
    BY <1>0, <1>1, ThreadKinds, DataKinds DEF PoolTypeOK, MemoryTypeOK
  <1>3. MemoryTypeOK'
    <2>1. /\ "active_threads" \in Locations /\ w \in Threads
          /\ decrement_fetch_release(w, "active_threads")
      BY DataKinds, ThreadKinds DEF Decrement
    <2> QED BY <1>0, <2>1, MemoryOperationTypes
  <1>4. CallersKnow'
    BY <1>0, <1>1, <1>2 DEF CallersKnow, Leads
  <1>5. CommandCarries'
    BY <1>0, <1>1, <1>2 DEF CommandCarries, Started, AtWork
  <1>6. CounterCarries'
    <2>1. Awaited' <=> Awaited
      BY <1>1, <1>2 DEF Awaited, Open
    <2>2. w \in carries'["active_threads"]
      BY <1>0, <1>1, <1>2 DEF CommandCarries, Started
    <2>3. \A v \in Workers : v # w => (Owes(v)' <=> Owes(v))
      BY <1>1, <1>2 DEF Owes, Busy
    <2> QED BY <1>0, <1>2, <2>1, <2>2, <2>3 DEF CounterCarries
  <1> QED BY <1>3, <1>4, <1>5, <1>6 DEF MemInv

(* With the command comes what was stored before it. *)
LEMMA LoadCommandKeepsMemory ==
  ASSUME IInv, MemInv, NEW w \in Workers, SeeCommand(w) \/ ReadCommand(w)
  PROVE  MemInv'
  <1>0. PoolTypeOK /\ MemoryTypeOK /\ CallersKnow /\ CommandCarries /\ CounterCarries
    BY DEF IInv, MemInv
  <1>1. /\ UNCHANGED <<pool, command>> /\ load_acquire(w, "command")
        /\ pc[w] \in {"wait", "spin", "check"}
        /\ \E label \in {"dispatch", "unlock_command"} : pc' = [pc EXCEPT ![w] = label]
        /\ command # last_command[w] /\ last_command' = [last_command EXCEPT ![w] = command]
    BY DEF SeeCommand, ReadCommand, LoadCommand, Goto
  <1>2. Keeps
    BY <1>0, <1>1, ThreadKinds, DataKinds, KeepingOperations
  <1>3. /\ \A b \in Callers : pc'[b] = pc[b]
        /\ \A v \in Workers : v # w => pc'[v] = pc[v] /\ last_command'[v] = last_command[v]
        /\ pc'[w] \in {"dispatch", "unlock_command"} /\ last_command'[w] = command
        /\ knows'[w] = knows[w] \cup carries["command"]
    BY <1>0, <1>1, ThreadKinds DEF PoolTypeOK, MemoryTypeOK, load_acquire
  <1>4. CallersKnow'
    BY <1>0, <1>1, <1>2, <1>3, ThreadKinds DEF CallersKnow, Leads, Keeps
  <1>5. CommandCarries'
    <2>1. \A v \in Workers : knows[v] \subseteq knows'[v]
      BY <1>2, ThreadKinds DEF Keeps
    <2>2. Handed \subseteq knows'[w] /\ w \in knows'[w]
      BY <1>0, <1>1, <1>3 DEF CommandCarries, Started
    <2> QED BY <1>0, <1>1, <1>2, <1>3, <2>1, <2>2 DEF CommandCarries, Started, AtWork, Keeps
  <1>6. CounterCarries'
    <2>1. Awaited' <=> Awaited
      BY <1>1, <1>3 DEF Awaited, Open
    <2>2. \A v \in Workers : Owes(v)' <=> Owes(v)
      BY <1>1, <1>3 DEF Owes, Busy
    <2> QED BY <1>0, <1>2, <2>1, <2>2 DEF CounterCarries, Keeps
  <1> QED BY <1>2, <1>4, <1>5, <1>6 DEF MemInv, Keeps

(* What the tasks of a worker store is news to everybody else. *)
LEMMA WorkerEnterKeepsMemory ==
  ASSUME IInv, MemInv, NEW w \in Workers, WorkerEnter(w)
  PROVE  MemInv'
  <1>0. /\ PoolTypeOK /\ CommandInv /\ WorkerInv
        /\ MemoryTypeOK /\ CallersKnow /\ CommandCarries /\ CounterCarries
    BY DEF IInv, MemInv
  <1>1. Owes(w) /\ command.op = "parallelize"
    BY <1>0 DEF WorkerEnter, Owes, Busy, WorkerInv
  <1>2. Awaited /\ \A c \in Callers : pc[c] \notin Exclusive \cup {"unlock_completion"}
    BY <1>1, OwingMeansAwaited
  <1>3. /\ UNCHANGED <<pool, command, last_command>>
        /\ pc[w] = "enter" /\ pc' = [pc EXCEPT ![w] = "run"]
        /\ knows' = [t \in Threads |-> IF t = w THEN knows[t] \cup {w} ELSE knows[t] \ {w}]
        /\ carries' = [l \in Locations |-> carries[l] \ {w}]
    BY DEF WorkerEnter, Goto, store_relaxed
  <1>4. /\ \A b \in Callers : pc'[b] = pc[b]
        /\ \A v \in Workers : v # w => pc'[v] = pc[v]
        /\ pc'[w] = "run"
    BY <1>0, <1>3, ThreadKinds DEF PoolTypeOK
  <1>5. w \in Data /\ w \notin Handed
    BY DataKinds
  <1>6. MemoryTypeOK'
    <2>1. {w} \in SUBSET Data /\ w \in Threads /\ store_relaxed(w, {w})
      BY <1>5, ThreadKinds DEF WorkerEnter
    <2> QED BY <1>0, <2>1, MemoryOperationTypes
  <1>7. CallersKnow'
    <2>1. pool # "creating"
      BY <1>0, <1>1 DEF CommandInv, InitCommand
    <2>2. \E c \in Callers : Leads(c)'
      BY <1>2, <1>4 DEF Awaited, Open, Running, Awaiting, Leads
    <2>3. \A c \in Callers : Handed \subseteq knows[c] => Handed \subseteq knows'[c]
      BY <1>3, <1>5, ThreadKinds
    <2> QED BY <1>0, <1>2, <1>3, <1>4, <2>1, <2>2, <2>3 DEF CallersKnow
  <1>8. CommandCarries'
    <2>1. \A v \in Workers : v \in knows[v] => v \in knows'[v]
      BY <1>3, ThreadKinds
    <2>2. \A v \in Workers : Handed \subseteq knows[v] => Handed \subseteq knows'[v]
      BY <1>3, <1>5, ThreadKinds
    <2>3. Handed \subseteq carries["command"] => Handed \subseteq carries'["command"]
      BY <1>3, <1>5, DataKinds
    <2> QED BY <1>0, <1>3, <1>4, <2>1, <2>2, <2>3 DEF CommandCarries, Started, AtWork
  <1>9. CounterCarries'
    <2>1. \A v \in Workers : Owes(v)' <=> Owes(v)
      BY <1>3, <1>4 DEF Owes, Busy
    <2>2. \A v \in Workers : v # w /\ v \in carries["active_threads"] => v \in carries'["active_threads"]
      BY <1>3, DataKinds
    <2> QED BY <1>0, <1>1, <1>2, <1>3, <2>1, <2>2 DEF CounterCarries
  <1> QED BY <1>6, <1>7, <1>8, <1>9 DEF MemInv

-----------------------------------------------------------------------------
LEMMA InitEstablishesMemory == Init => MemInv
  <1> SUFFICES ASSUME Init PROVE MemInv
    OBVIOUS
  <1>1. /\ \A c \in Callers : knows[c] = Data
        /\ MemoryTypeOK
    BY ThreadKinds DEF Init, MemoryInit, MemoryTypeOK
  <1>2. /\ \A c \in Callers : pc[c] \in {"spawn", "idle"}
        /\ \A w \in Workers : pc[w] = "unborn" /\ command = last_command[w]
        /\ pool = "creating"
    BY ThreadKinds DEF Init
  <1>3. CallersKnow
    BY <1>1, <1>2, DataKinds DEF CallersKnow, Exclusive, Storing
  <1>4. CommandCarries /\ CounterCarries
    BY <1>2 DEF CommandCarries, CounterCarries, Started, AtWork, Owes, Busy
  <1> QED BY <1>1, <1>3, <1>4 DEF MemInv

LEMMA NextKeepsMemory ==
  ASSUME IInv, MemInv, [Next]_vars
  PROVE  MemInv'
  <1>1. ASSUME NEW w \in Workers, WorkerStep(w)
        PROVE  MemInv'
    BY <1>1, DecrementKeepsMemory, SignalKeepsMemory, LoadCommandKeepsMemory,
       WorkerEnterKeepsMemory, QuietWorkerSteps DEF WorkerStep
  <1>2. ASSUME NEW c \in Callers, CallerStep(c)
        PROVE  MemInv'
    BY <1>2, SpawnKeepsMemory, LockKeepsMemory, StoresKeepMemory, StoreCommandKeepsMemory,
       BroadcastKeepsMemory, CheckCompletionKeepsMemory, WaitEndsKeepsMemory, UnlockKeepsMemory,
       JoinKeepsMemory, QuietCallerSteps
       DEF CallerStep
  <1>3. CASE Environment
    <2>1. ASSUME NEW t \in Threads, SpuriousWakeup(t)
          PROVE  MemInv'
      BY <2>1, ThreadKinds, QuietCallerSteps, QuietWorkerSteps
    <2> QED BY <1>3, <2>1, DestroyKeepsMemory, QuietCallerSteps DEF Environment
  <1>4. CASE UNCHANGED vars
    <2>1. UNCHANGED memory /\ UNCHANGED <<pool, command, last_command, pc>>
      BY <1>4 DEF vars, locals
    <2>2. PICK w \in Workers : w \in Threads
      BY WorkersAssumption, ThreadKinds
    <2>3. Keeps
      BY <2>1, <2>2, KeepingOperations DEF MemInv
    <2> QED BY <2>1, <2>3, QuietStep DEF Leads, Open, Owes, Busy, Started, AtWork
  <1> QED BY <1>1, <1>2, <1>3, <1>4 DEF Next

(* The invariant of the memory holds in every state. *)
THEOREM MemoryInvariant == Spec => []MemInv
  <1>1. IInv /\ MemInv /\ [Next]_vars => MemInv'
    BY NextKeepsMemory
  <1> QED BY <1>1, InitEstablishesMemory, InductiveInvariant, PTL DEF Spec

(* All variables of the handshake keep a value they can have, the memory *)
(* among them; active_threads, in particular, never goes below zero.     *)
THEOREM TypeCorrect == Spec => []TypeOK
  <1>1. IInv /\ MemInv => TypeOK
    BY DEF IInv, MemInv, TypeOK
  <1> QED BY <1>1, InductiveInvariant, MemoryInvariant, PTL

(* No thread of the backend without futexes reads a stale value: what the    *)
(* atomic words and execution_mutex order is enough.  A worker that sees the *)
(* command without command_mutex, and a caller that sees the counter without *)
(* completion_mutex, know as much as those that take the mutex.              *)
THEOREM NothingIsStale == Spec => []NothingStaleIsRead
  <1>1. MemInv => NothingStaleIsRead
    BY DataKinds
       DEF MemInv, CallersKnow, CommandCarries, NothingStaleIsRead, Busy, AtWork, Exclusive,
           Storing, Handed
  <1> QED BY <1>1, MemoryInvariant, PTL

=============================================================================
