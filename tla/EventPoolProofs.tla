-------------------------- MODULE EventPoolProofs --------------------------
(***************************************************************************)
(* The handshake of windows.c is right for every number of workers and     *)
(* callers: of its two pairs of events the right one is set and reset.     *)
(***************************************************************************)
EXTENDS EventPool, FiniteSetTheorems, TLAPS

(* A caller that is inside of pthreadpool_create, of an operation that has *)
(* the mutex, or of pthreadpool_destroy.                                   *)
Leads(c) == pc[c] \notin {"idle", "lock"}

Waiting == {"wait", "spin", "event", "asleep", "awake"}
Storing == {"store_operation", "store_active", "reset_command", "store_command"}
Running == {"set_command", "run"} \cup Waiting
Ending == {"reset_completion", "unlock"}

(* The counter has been stored and the command has not. *)
Preparing(c) == pc[c] \in {"reset_command", "store_command"}

(* The leader has commanded the workers and they may still be at it. *)
Open(c) == pc[c] \in {"spawn"} \cup Running

(* A worker that has to check in before the wait for the workers is over. *)
Owes(w) == Busy(w) \/ command # last_command[w]

Owers == {w \in Workers : Owes(w)}

(* A worker that is about to set the event of the present command. *)
Notifies(w) == pc[w] = "set_completion" /\ last_command[w] = command

-----------------------------------------------------------------------------
(* The inductive invariant. *)

(* At most one caller leads, and what it can be doing depends on the pool. *)
LeaderInv ==
  /\ \A c, d \in Callers : Leads(c) /\ Leads(d) => c = d
  /\ pool \in {"creating", "stopping"} => \E c \in Callers : Leads(c)
  /\ pool # "ready" => execution_mutex = Nobody /\ \A c \in Callers : pc[c] # "lock"
  /\ \A c \in Callers :
       /\ pool = "creating" => pc[c] \in {"idle", "spawn"} \cup Waiting
       /\ pool = "ready" =>
            /\ pc[c] \in {"idle", "lock"} \cup Storing \cup Running \cup Ending
            /\ Leads(c) <=> execution_mutex = c
       /\ pool = "stopping" =>
            pc[c] \in {"idle", "store_active", "store_command", "set_command", "join"}
       /\ pool = "released" => pc[c] = "idle"

(* The command is init until the first operation and shutdown once the *)
(* leader of pthreadpool_destroy has stored it.                        *)
CommandInv ==
  /\ pool = "creating" => command = InitCommand
  /\ command.op = "init" => command = InitCommand /\ \A w \in Workers : last_command[w] = command
  /\ pool \in {"creating", "ready"} => command.op # "shutdown"
  /\ pool = "stopping" => \A c \in Callers :
       Leads(c) => (command.op = "shutdown" <=> pc[c] \in {"set_command", "join"})
  /\ pool = "released" => command.op = "shutdown"

(* A worker is busy only with the last command, and only as it says. *)
WorkerInv ==
  \A w \in Workers :
    /\ Busy(w) \/ pc[w] = "exited" => last_command[w] = command
    /\ pc[w] = "unborn" => pool = "creating"
    /\ pc[w] = "dispatch" => command.op # "init"
    /\ pc[w] \in {"enter", "run"} => command.op = "parallelize"
    /\ command.op = "shutdown" =>
         IF last_command[w] = command THEN pc[w] \in {"dispatch", "exited"}
                                      ELSE pc[w] \in Waiting \cup {"set_completion"}
    /\ pc[w] = "exited" => command.op = "shutdown"
    /\ pool = "released" => pc[w] = "exited"

(* The counter counts the workers that have to check in, and is stored when *)
(* there are none.                                                          *)
CountInv ==
  /\ (~\E c \in Callers : Preparing(c)) /\ command.op # "shutdown" =>
       active_threads = Cardinality(Owers)
  /\ (\E c \in Callers : Preparing(c)) => active_threads = Cardinality(Workers)
  /\ command.op # "shutdown" /\ (~\E c \in Callers : Open(c)) => \A w \in Workers : ~Owes(w)

(* The high bit tells the present command from the one before it. *)
BitInv ==
  /\ command.op # "shutdown" =>
       \A w \in Workers : command # last_command[w] => last_command[w].bit = 1 - command.bit
  /\ \A c \in Callers :
       /\ Preparing(c) => event_index[c] = command.bit
       /\ pool = "ready" /\ pc[c] \in Running \cup {"reset_completion"} =>
            event_index[c] = 1 - command.bit
       /\ pool = "stopping" /\ pc[c] = "set_command" =>
            \A w \in Workers : command # last_command[w] => last_command[w].bit = event_index[c]

(* The event at which the workers will wait for the next command is not set, *)
(* the one of the present command is, or is about to be.                     *)
CommandEventInv ==
  /\ command.op # "shutdown" => ~command_event[command.bit]
  /\ \A c \in Callers : pool = "ready" /\ pc[c] = "store_command" =>
       ~command_event[1 - command.bit]
  /\ \A w \in Workers :
       /\ command # last_command[w] =>
            \/ command_event[last_command[w].bit]
            \/ \E c \in Callers : pc[c] = "set_command"
       /\ pc[w] = "asleep" => ~command_event[last_command[w].bit]
       /\ pc[w] = "awake" => command # last_command[w]

(* The event of the present operation is set only after the last check-in, *)
(* and the one of the next operation not before the next operation.        *)
CompletionEventInv ==
  /\ /\ command.op # "shutdown"
     /\ completion_event[command.bit] \/ \E w \in Workers : Notifies(w)
     => \A w \in Workers : ~Owes(w)
  /\ command.op # "shutdown" /\ (\A w \in Workers : ~Owes(w)) /\ (\E c \in Callers : Open(c)) =>
       completion_event[command.bit] \/ \E w \in Workers : Notifies(w)
  /\ \/ pool = "creating"
     \/ command.op # "shutdown" /\ \A c \in Callers : pc[c] \notin Running \cup {"reset_completion"}
     => ~completion_event[1 - command.bit]
  /\ \A c \in Callers :
       /\ pc[c] = "asleep" => ~completion_event[command.bit]
       /\ pc[c] = "awake" => completion_event[command.bit]

(* Every worker runs once in the operation of the leader. *)
OperationInv ==
  \A c \in Callers, w \in Workers : pool = "ready" /\ Leads(c) =>
    ran[w] = IF \/ pc[c] \in Storing
                \/ command # last_command[w] \/ pc[w] \in {"dispatch", "enter"} THEN 0 ELSE 1

IInv ==
  /\ PoolTypeOK /\ LeaderInv /\ CommandInv /\ WorkerInv /\ CountInv
  /\ BitInv /\ CommandEventInv /\ CompletionEventInv /\ OperationInv

(* What a caller stores and a worker reads. *)
Handed == {"operation", "count"}

Exclusive == Storing \cup Ending
Started(w) == pc[w] # "unborn"
AtWork(w) == pc[w] \in {"dispatch", "enter", "run", "checkin"}

(* The leader waits for the workers, or will. *)
Awaited == pool \in {"creating", "ready"} /\ \E c \in Callers : Open(c)

-----------------------------------------------------------------------------
(* The inductive invariant of the memory. *)

(* Whoever may store knows all there is, and so does some caller when none *)
(* leads; the mutex passes that on to the others.                          *)
CallersKnow ==
  /\ \A c \in Callers : pc[c] \in Exclusive => Data \subseteq knows[c]
  /\ pool = "creating" => \A c \in Callers : Data \subseteq knows[c]
  /\ pool = "ready" => \A c \in Callers : pc[c] \in Running => Handed \subseteq knows[c]
  /\ pool = "ready" /\ (\A c \in Callers : ~Leads(c)) =>
       /\ \A c \in Callers : Data \subseteq knows[c] \cup carries["execution_mutex"]
       /\ \E c \in Callers : Data \subseteq knows[c]

(* The command brings the operation to the workers. *)
CommandCarries ==
  \A w \in Workers :
    /\ Started(w) => w \in knows[w]
    /\ AtWork(w) => Handed \subseteq knows[w]
    /\ command # last_command[w] => Handed \subseteq carries["command"]

(* The counter collects what the workers have stored, and brings it to the *)
(* leader, or to the last worker, who passes it on with the event.         *)
CounterCarries ==
  /\ Awaited => \A w \in Workers : Owes(w) \/ w \in carries["active_threads"]
  /\ \A w \in Workers : Notifies(w) => Workers \subseteq knows[w]
  /\ Awaited /\ completion_event[command.bit] =>
       Workers \subseteq carries[CompletionEvent[command.bit]]

MemInv == MemoryTypeOK /\ CallersKnow /\ CommandCarries /\ CounterCarries
-----------------------------------------------------------------------------
(* The callers are no workers. *)
LEMMA ThreadKinds ==
  Callers \cap Workers = {} /\ Threads = Workers \cup Callers /\ Nobody \notin Threads
  BY CallersAssumption DEF Threads

(* The number of workers, and of those among them that owe an answer. *)
LEMMA CountWorkers ==
  /\ Cardinality(Workers) \in Nat
  /\ Cardinality(Workers) > 0
  /\ IsFiniteSet(Owers)
  /\ Cardinality(Owers) \in 0 .. Cardinality(Workers)
  <1>1. Owers \in SUBSET Workers
    BY DEF Owers
  <1>2. IsFiniteSet(Workers) /\ Workers # {} /\ Cardinality(Workers) \in Nat
    BY WorkersAssumption, FS_CardinalityType
  <1>3. Cardinality(Workers) # 0
    BY <1>2, FS_EmptySet
  <1>4. IsFiniteSet(Owers) /\ Cardinality(Owers) <= Cardinality(Workers) /\ Cardinality(Owers) \in Nat
    BY <1>1, <1>2, FS_Subset, FS_CardinalityType
  <1> QED BY <1>2, <1>3, <1>4

(* The high bit tells a new command from the one before it. *)
LEMMA NewCommandIsNew ==
  ASSUME NEW old \in Command
  PROVE  /\ NewCommand(old) \in Command /\ ShutdownCommand \in Command
         /\ NewCommand(old).op = "parallelize" /\ ShutdownCommand.op = "shutdown"
         /\ NewCommand(old).bit = 1 - old.bit /\ old.bit = 1 - NewCommand(old).bit
         /\ NewCommand(old) # old
         /\ old.op # "shutdown" => ShutdownCommand # old
  BY DEF Command, Bit, NewCommand, ShutdownCommand

(* The bit of a command is one of two. *)
LEMMA Bits ==
  ASSUME PoolTypeOK
  PROVE  /\ command.bit \in Bit /\ 1 - command.bit \in Bit /\ 1 - command.bit # command.bit
         /\ \A w \in Workers : last_command[w].bit \in Bit /\ 1 - last_command[w].bit \in Bit
         /\ \A c \in Callers : event_index[c] \in Bit /\ 1 - event_index[c] \in Bit
  BY DEF PoolTypeOK, Command, Bit

(* While a caller stores, or ends its operation, the workers are at rest. *)
LEMMA ExclusiveMeansRest ==
  ASSUME IInv, NEW c \in Callers, pc[c] \in Storing \cup Ending
  PROVE  /\ \A d \in Callers : Leads(d) <=> d = c
         /\ \A d \in Callers : ~Open(d)
         /\ command.op # "shutdown"
         /\ \A w \in Workers : ~Owes(w)
  <1>0. PoolTypeOK /\ LeaderInv /\ CommandInv /\ CountInv
    BY DEF IInv
  <1>1. \A d \in Callers : Leads(d) <=> d = c
    BY <1>0 DEF Storing, Ending, Leads, LeaderInv
  <1>2. \A d \in Callers : ~Open(d)
    BY <1>1 DEF Storing, Ending, Leads, Open, Running, Waiting
  <1>3. command.op # "shutdown"
    BY <1>0, <1>1 DEF Storing, Ending, LeaderInv, CommandInv, PoolTypeOK, Running, Waiting
  <1> QED BY <1>0, <1>1, <1>2, <1>3 DEF CountInv

(* The event that a caller waits for is the one of the present command. *)
LEMMA CallersWaitForThePresent ==
  ASSUME IInv, NEW c \in Callers, pc[c] \in Waiting
  PROVE  pool \in {"creating", "ready"} /\ CompletionIndex(c) = command.bit
  <1>0. PoolTypeOK /\ LeaderInv /\ CommandInv /\ BitInv
    BY DEF IInv
  <1>1. pool \in {"creating", "ready"}
    BY <1>0 DEF PoolTypeOK, LeaderInv, Waiting
  <1>2. CASE pool = "creating"
    BY <1>0, <1>2 DEF CommandInv, InitCommand, CompletionIndex
  <1>3. CASE pool = "ready"
    BY <1>0, <1>3 DEF PoolTypeOK, Command, Bit, BitInv, Running, CompletionIndex
  <1> QED BY <1>1, <1>2, <1>3

-----------------------------------------------------------------------------
(* The steps of pthreadpool_create. *)

(* A worker starts: it owes its check-in before and after. *)
LEMMA SpawnKeepsInv ==
  ASSUME IInv, NEW c \in Callers, NEW w \in Workers, Spawn(c, w)
  PROVE  IInv'
  <1> USE DEF Spawn, Goto, events, operation, locals
  <1>0. /\ PoolTypeOK /\ LeaderInv /\ CommandInv /\ WorkerInv /\ CountInv
        /\ BitInv /\ CommandEventInv /\ CompletionEventInv /\ OperationInv
    BY DEF IInv
  <1>1. (\A d \in Callers : pc'[d] = pc[d]) /\ (\A v \in Workers : v # w => pc'[v] = pc[v])
    BY <1>0, ThreadKinds DEF PoolTypeOK
  <1>2. pc[w] = "unborn" /\ pc'[w] = "checkin"
    BY <1>0, ThreadKinds DEF PoolTypeOK
  <1>3. Owers' = Owers
    BY <1>0, <1>1, <1>2 DEF Owers, Owes, Busy
  <1>4. PoolTypeOK'
    BY <1>0, ThreadKinds DEF PoolTypeOK, WorkerLabel
  <1>5. LeaderInv'
    BY <1>0, <1>1 DEF LeaderInv, Leads
  <1>6. CommandInv'
    BY <1>0, <1>1 DEF CommandInv, Leads
  <1>7. WorkerInv'
    BY <1>0, <1>1, <1>2 DEF WorkerInv, Busy
  <1>8. CountInv'
    BY <1>0, <1>1, <1>2, <1>3 DEF CountInv, Owes, Busy, Preparing, Open
  <1>9. BitInv'
    BY <1>0, <1>1 DEF BitInv, Preparing
  <1>10. CommandEventInv'
    BY <1>0, <1>1, <1>2 DEF CommandEventInv
  <1>11. CompletionEventInv'
    BY <1>0, <1>1, <1>2 DEF CompletionEventInv, Notifies, Owes, Busy, Open
  <1>12. OperationInv'
    BY <1>0, <1>1, <1>2 DEF OperationInv, Leads
  <1> QED BY <1>4, <1>5, <1>6, <1>7, <1>8, <1>9, <1>10, <1>11, <1>12 DEF IInv

(* The creator begins to wait, or a caller keeps waiting: it falls asleep *)
(* only if the event of the present command is not set.                   *)
LEMMA WaitKeepsInv ==
  ASSUME IInv, NEW c \in Callers, AllSpawned(c) \/ KeepWaiting(c) \/ WaitForCompletion(c)
  PROVE  IInv'
  <1> USE DEF AllSpawned, KeepWaiting, WaitForCompletion, Goto, events, operation, locals
  <1>0. /\ PoolTypeOK /\ LeaderInv /\ CommandInv /\ WorkerInv /\ CountInv
        /\ BitInv /\ CommandEventInv /\ CompletionEventInv /\ OperationInv
    BY DEF IInv
  <1>1. \A w \in Workers : pc'[w] = pc[w]
    BY <1>0, ThreadKinds DEF PoolTypeOK
  <1>2. /\ \A d \in Callers : d # c => pc'[d] = pc[d]
        /\ pc[c] \in {"spawn"} \cup Waiting /\ pc'[c] \in Waiting
        /\ pool = "ready" => pc[c] \in Waiting
        /\ pool # "stopping"
    BY <1>0, ThreadKinds DEF PoolTypeOK, LeaderInv, Waiting, Storing, Running, Ending
  <1>3. Owers' = Owers
    BY <1>0, <1>1 DEF Owers, Owes, Busy
  <1>4. PoolTypeOK'
    BY <1>0, ThreadKinds DEF PoolTypeOK, CallerLabel
  <1>5. LeaderInv'
    BY <1>0, ThreadKinds DEF PoolTypeOK, LeaderInv, Leads, Storing, Running, Waiting, Ending
  <1>6. CommandInv'
    BY <1>0, ThreadKinds DEF PoolTypeOK, LeaderInv, CommandInv, Leads
  <1>7. WorkerInv'
    BY <1>0, <1>1 DEF WorkerInv, Busy
  <1>8. CountInv'
    BY <1>0, <1>3, ThreadKinds DEF PoolTypeOK, CountInv, Owes, Busy, Preparing, Open, Running, Waiting
  <1>9. BitInv'
    BY <1>0, <1>1, <1>2 DEF BitInv, Preparing, Running, Waiting
  <1>10. CommandEventInv'
    BY <1>0, ThreadKinds DEF PoolTypeOK, CommandEventInv
  <1>11. CompletionEventInv'
    <2>1. /\ pc'[c] = "asleep" => ~completion_event[command.bit]
          /\ pc'[c] = "awake" => completion_event[command.bit]
      BY <1>0, <1>2, CallersWaitForThePresent DEF PoolTypeOK, Waiting
    <2> QED BY <1>0, <1>1, <1>2, <2>1
            DEF CompletionEventInv, Notifies, Owes, Busy, Open, Running, Waiting
  <1>12. OperationInv'
    BY <1>0, ThreadKinds DEF PoolTypeOK, OperationInv, Leads, Storing
  <1> QED BY <1>4, <1>5, <1>6, <1>7, <1>8, <1>9, <1>10, <1>11, <1>12 DEF IInv

-----------------------------------------------------------------------------
(* The steps of an operation's caller. *)

(* A caller that waits for the mutex has stored nothing yet. *)
LEMMA ParallelizeKeepsInv ==
  ASSUME IInv, NEW c \in Callers, NEW requested \in SUBSET Flag, Parallelize(c, requested)
  PROVE  IInv'
  <1> USE DEF Parallelize, Goto, events, operation, locals
  <1>0. /\ PoolTypeOK /\ LeaderInv /\ CommandInv /\ WorkerInv /\ CountInv
        /\ BitInv /\ CommandEventInv /\ CompletionEventInv /\ OperationInv
    BY DEF IInv
  <1>1. \A w \in Workers : pc'[w] = pc[w]
    BY <1>0, ThreadKinds DEF PoolTypeOK
  <1>2. Owers' = Owers
    BY <1>0, <1>1 DEF Owers, Owes, Busy
  <1>3. PoolTypeOK'
    BY <1>0, ThreadKinds DEF PoolTypeOK, CallerLabel
  <1>4. LeaderInv'
    BY <1>0, ThreadKinds DEF PoolTypeOK, LeaderInv, Leads, Storing, Running, Waiting, Ending
  <1>5. CommandInv'
    BY <1>0, ThreadKinds DEF PoolTypeOK, LeaderInv, CommandInv, Leads
  <1>6. WorkerInv'
    BY <1>0, <1>1 DEF WorkerInv, Busy
  <1>7. CountInv'
    BY <1>0, <1>2, ThreadKinds DEF PoolTypeOK, CountInv, Owes, Busy, Preparing, Open, Running, Waiting
  <1>8. BitInv'
    BY <1>0, ThreadKinds DEF PoolTypeOK, BitInv, Preparing, Running, Waiting
  <1>9. CommandEventInv'
    BY <1>0, ThreadKinds DEF PoolTypeOK, CommandEventInv
  <1>10. CompletionEventInv'
    BY <1>0, ThreadKinds DEF PoolTypeOK, CompletionEventInv, Notifies, Owes, Busy, Open, Running, Waiting
  <1>11. OperationInv'
    BY <1>0, ThreadKinds DEF PoolTypeOK, OperationInv, Leads, Storing
  <1> QED BY <1>3, <1>4, <1>5, <1>6, <1>7, <1>8, <1>9, <1>10, <1>11 DEF IInv

(* Whoever gets the mutex becomes the leader. *)
LEMMA LockKeepsInv ==
  ASSUME IInv, NEW c \in Callers, Lock(c)
  PROVE  IInv'
  <1> USE DEF Lock, Goto, events, operation, locals
  <1>0. /\ PoolTypeOK /\ LeaderInv /\ CommandInv /\ WorkerInv /\ CountInv
        /\ BitInv /\ CommandEventInv /\ CompletionEventInv /\ OperationInv
    BY DEF IInv
  <1>1. \A w \in Workers : pc'[w] = pc[w]
    BY <1>0, ThreadKinds DEF PoolTypeOK
  <1>2. Owers' = Owers
    BY <1>0, <1>1 DEF Owers, Owes, Busy
  <1>3. PoolTypeOK'
    BY <1>0, ThreadKinds DEF PoolTypeOK, CallerLabel
  <1>4. LeaderInv'
    BY <1>0, ThreadKinds DEF PoolTypeOK, LeaderInv, Leads, Storing, Running, Waiting, Ending
  <1>5. CommandInv'
    BY <1>0, ThreadKinds DEF PoolTypeOK, LeaderInv, CommandInv, Leads
  <1>6. WorkerInv'
    BY <1>0, <1>1 DEF WorkerInv, Busy
  <1>7. CountInv'
    BY <1>0, <1>2, ThreadKinds DEF PoolTypeOK, CountInv, Owes, Busy, Preparing, Open, Running, Waiting
  <1>8. BitInv'
    BY <1>0, ThreadKinds DEF PoolTypeOK, BitInv, Preparing, Running, Waiting
  <1>9. CommandEventInv'
    BY <1>0, ThreadKinds DEF PoolTypeOK, CommandEventInv
  <1>10. CompletionEventInv'
    BY <1>0, ThreadKinds DEF PoolTypeOK, CompletionEventInv, Notifies, Owes, Busy, Open, Running, Waiting
  <1>11. OperationInv'
    BY <1>0, <1>1, ThreadKinds DEF PoolTypeOK, LeaderInv, OperationInv, Leads, Storing
  <1> QED BY <1>3, <1>4, <1>5, <1>6, <1>7, <1>8, <1>9, <1>10, <1>11 DEF IInv

(* The arguments are stored before the counter. *)
LEMMA StoreOperationKeepsInv ==
  ASSUME IInv, NEW c \in Callers, StoreOperation(c)
  PROVE  IInv'
  <1> USE DEF StoreOperation, Goto, events, operation, locals
  <1>0. /\ PoolTypeOK /\ LeaderInv /\ CommandInv /\ WorkerInv /\ CountInv
        /\ BitInv /\ CommandEventInv /\ CompletionEventInv /\ OperationInv
    BY DEF IInv
  <1>1. \A w \in Workers : pc'[w] = pc[w]
    BY <1>0, ThreadKinds DEF PoolTypeOK
  <1>2. Owers' = Owers
    BY <1>0, <1>1 DEF Owers, Owes, Busy
  <1>3. PoolTypeOK'
    BY <1>0, ThreadKinds DEF PoolTypeOK, CallerLabel
  <1>4. LeaderInv'
    BY <1>0, ThreadKinds DEF PoolTypeOK, LeaderInv, Leads, Storing, Running, Waiting, Ending
  <1>5. CommandInv'
    BY <1>0, ThreadKinds DEF PoolTypeOK, LeaderInv, CommandInv, Leads
  <1>6. WorkerInv'
    BY <1>0, <1>1 DEF WorkerInv, Busy
  <1>7. CountInv'
    BY <1>0, <1>2, ThreadKinds DEF PoolTypeOK, CountInv, Owes, Busy, Preparing, Open, Running, Waiting
  <1>8. BitInv'
    BY <1>0, ThreadKinds DEF PoolTypeOK, BitInv, Preparing, Running, Waiting
  <1>9. CommandEventInv'
    BY <1>0, ThreadKinds DEF PoolTypeOK, CommandEventInv
  <1>10. CompletionEventInv'
    BY <1>0, ThreadKinds DEF PoolTypeOK, CompletionEventInv, Notifies, Owes, Busy, Open, Running, Waiting
  <1>11. OperationInv'
    BY <1>0, ThreadKinds DEF PoolTypeOK, OperationInv, Leads, Storing
  <1> QED BY <1>3, <1>4, <1>5, <1>6, <1>7, <1>8, <1>9, <1>10, <1>11 DEF IInv

(* The counter is set while all workers are at rest: it counts them all, *)
(* before any of them owes anything.                                     *)
LEMMA StoreActiveKeepsInv ==
  ASSUME IInv, NEW c \in Callers, StoreActive(c)
  PROVE  IInv'
  <1> USE DEF StoreActive, Goto, events, operation, locals
  <1>0. /\ PoolTypeOK /\ LeaderInv /\ CommandInv /\ WorkerInv /\ CountInv
        /\ BitInv /\ CommandEventInv /\ CompletionEventInv /\ OperationInv
    BY DEF IInv
  <1>1. \A w \in Workers : pc'[w] = pc[w]
    BY <1>0, ThreadKinds DEF PoolTypeOK
  <1>2. Owers' = Owers
    BY <1>0, <1>1 DEF Owers, Owes, Busy
  <1>3. PoolTypeOK'
    BY <1>0, ThreadKinds, CountWorkers, Bits DEF PoolTypeOK, CallerLabel
  <1>4. LeaderInv'
    BY <1>0, ThreadKinds DEF PoolTypeOK, LeaderInv, Leads, Storing, Running, Waiting, Ending
  <1>5. CommandInv'
    BY <1>0, ThreadKinds DEF PoolTypeOK, LeaderInv, CommandInv, Leads
  <1>6. WorkerInv'
    BY <1>0, <1>1 DEF WorkerInv, Busy
  <1>7. CountInv'
    BY <1>0, <1>2, ThreadKinds DEF PoolTypeOK, CountInv, Owes, Busy, Preparing, Open, Running, Waiting
  <1>8. BitInv'
    BY <1>0, ThreadKinds DEF PoolTypeOK, BitInv, Preparing, Running, Waiting
  <1>9. CommandEventInv'
    BY <1>0, ThreadKinds DEF PoolTypeOK, CommandEventInv
  <1>10. CompletionEventInv'
    BY <1>0, ThreadKinds DEF PoolTypeOK, CompletionEventInv, Notifies, Owes, Busy, Open, Running, Waiting
  <1>11. OperationInv'
    BY <1>0, ThreadKinds DEF PoolTypeOK, OperationInv, Leads, Storing
  <1> QED BY <1>3, <1>4, <1>5, <1>6, <1>7, <1>8, <1>9, <1>10, <1>11 DEF IInv

(* The event that is reset is not the one that the workers wait for now. *)
LEMMA ResetCommandEventKeepsInv ==
  ASSUME IInv, NEW c \in Callers, ResetCommandEvent(c)
  PROVE  IInv'
  <1> USE DEF ResetCommandEvent, Goto, events, operation, locals
  <1>0. /\ PoolTypeOK /\ LeaderInv /\ CommandInv /\ WorkerInv /\ CountInv
        /\ BitInv /\ CommandEventInv /\ CompletionEventInv /\ OperationInv
    BY DEF IInv
  <1>1. \A w \in Workers : pc'[w] = pc[w]
    BY <1>0, ThreadKinds DEF PoolTypeOK
  <1>2. Owers' = Owers
    BY <1>0, <1>1 DEF Owers, Owes, Busy
  <1>3. PoolTypeOK'
    BY <1>0, ThreadKinds DEF PoolTypeOK, CallerLabel
  <1>4. LeaderInv'
    BY <1>0, ThreadKinds DEF PoolTypeOK, LeaderInv, Leads, Storing, Running, Waiting, Ending
  <1>5. CommandInv'
    BY <1>0, ThreadKinds DEF PoolTypeOK, LeaderInv, CommandInv, Leads
  <1>6. WorkerInv'
    BY <1>0, <1>1 DEF WorkerInv, Busy
  <1>7. CountInv'
    BY <1>0, <1>2, ThreadKinds DEF PoolTypeOK, CountInv, Owes, Busy, Preparing, Open, Running, Waiting
  <1>8. BitInv'
    BY <1>0, ThreadKinds DEF PoolTypeOK, BitInv, Preparing, Running, Waiting
  <1>9. CommandEventInv'
    <2>1. event_index[c] = command.bit
      BY <1>0 DEF BitInv, Preparing
    <2>2. \A w \in Workers : command = last_command[w]
      BY ExclusiveMeansRest DEF Storing, Owes
    <2>3. /\ ~command_event'[1 - command.bit]
          /\ command_event'[command.bit] = command_event[command.bit]
      BY <1>0, <2>1, Bits DEF PoolTypeOK
    <2>4. \A d \in Callers : pc'[d] = "store_command" => d = c \/ pc[d] = "store_command"
      BY <1>0, ThreadKinds DEF PoolTypeOK
    <2> QED BY <1>0, <1>1, <2>2, <2>3 DEF CommandEventInv
  <1>10. CompletionEventInv'
    BY <1>0, ThreadKinds DEF PoolTypeOK, CompletionEventInv, Notifies, Owes, Busy, Open, Running, Waiting
  <1>11. OperationInv'
    BY <1>0, ThreadKinds DEF PoolTypeOK, OperationInv, Leads, Storing
  <1> QED BY <1>3, <1>4, <1>5, <1>6, <1>7, <1>8, <1>9, <1>10, <1>11 DEF IInv

(* The store of the command makes every worker owe an answer at once, *)
(* because it differs from the last command of each of them.          *)
LEMMA StoreCommandKeepsInv ==
  ASSUME IInv, NEW c \in Callers, StoreCommand(c)
  PROVE  IInv'
  <1> USE DEF StoreCommand, Goto, events, operation, locals
  <1>0. /\ PoolTypeOK /\ LeaderInv /\ CommandInv /\ WorkerInv /\ CountInv
        /\ BitInv /\ CommandEventInv /\ CompletionEventInv /\ OperationInv
    BY DEF IInv
  <1>1. \A w \in Workers : pc'[w] = pc[w]
    BY <1>0, ThreadKinds DEF PoolTypeOK
  <1>2. /\ \A d \in Callers : pc'[d] = IF d = c THEN "set_command" ELSE pc[d]
        /\ pool' = pool
    BY <1>0, ThreadKinds DEF PoolTypeOK
  <1>3. /\ \A d \in Callers : Leads(d) <=> d = c
        /\ \A w \in Workers : ~Busy(w) /\ last_command[w] = command
        /\ command.op # "shutdown" /\ pool \in {"ready", "stopping"}
    BY <1>0, ExclusiveMeansRest DEF LeaderInv, PoolTypeOK, Storing, Owes, Waiting, Leads
  <1>4. /\ command' \in Command /\ \A w \in Workers : command' # last_command[w]
        /\ pool = "ready" => command'.op = "parallelize" /\ command'.bit = 1 - command.bit
                            /\ command.bit = 1 - command'.bit
        /\ pool # "ready" => command'.op = "shutdown"
    BY <1>0, <1>3, NewCommandIsNew DEF PoolTypeOK
  <1>5. \A w \in Workers : pc[w] \in Waiting \cup {"set_completion"}
    BY <1>0, <1>3 DEF PoolTypeOK, WorkerLabel, Waiting, Busy, WorkerInv
  <1>6. PoolTypeOK'
    BY <1>0, <1>4, ThreadKinds DEF PoolTypeOK, CallerLabel
  <1>7. LeaderInv'
    BY <1>0, <1>2 DEF LeaderInv, Leads, Storing, Running, Waiting, Ending
  <1>8. CommandInv'
    BY <1>0, <1>2, <1>3, <1>4 DEF LeaderInv, CommandInv, Leads
  <1>9. WorkerInv'
    BY <1>0, <1>1, <1>3, <1>4, <1>5 DEF WorkerInv, Busy, CommandInv
  <1>10. CountInv'
    <2>1. \A d \in Callers : ~Preparing(d)'
      BY <1>2, <1>3 DEF Preparing, Leads
    <2>2. Owers' = Workers
      BY <1>4 DEF Owers, Owes
    <2>3. active_threads = Cardinality(Workers)
      BY <1>0 DEF CountInv, Preparing
    <2>4. Open(c)'
      BY <1>2 DEF Open, Running
    <2> QED BY <2>1, <2>2, <2>3, <2>4 DEF CountInv
  <1>11. BitInv'
    <2>1. event_index[c] = command.bit
      BY <1>0 DEF BitInv, Preparing
    <2>2. \A d \in Callers : d # c => ~Preparing(d)' /\ pc'[d] \notin Running \cup {"reset_completion"}
      BY <1>2, <1>3 DEF Preparing, Leads, Running, Waiting
    <2> QED BY <1>0, <1>2, <1>3, <1>4, <2>1, <2>2, Bits DEF BitInv, Preparing, Running
  <1>12. CommandEventInv'
    <2>1. command.op # "shutdown" /\ ~command_event[command.bit]
      BY <1>0, <1>3 DEF CommandEventInv
    <2>2. pool = "ready" => ~command_event[1 - command.bit]
      BY <1>0 DEF CommandEventInv
    <2>3. \A w \in Workers : pc[w] # "awake"
      BY <1>0, <1>3 DEF CommandEventInv
    <2> QED BY <1>0, <1>1, <1>2, <1>3, <1>4, <2>1, <2>2, <2>3 DEF CommandEventInv
  <1>13. CompletionEventInv'
    <2>1. ~completion_event[1 - command.bit]
      BY <1>0, <1>3 DEF CompletionEventInv, Leads, Running, Waiting
    <2>2. \A w \in Workers : Owes(w)' /\ ~Notifies(w)'
      BY <1>4 DEF Owes, Notifies
    <2>3. \A d \in Callers : pc'[d] \notin {"asleep", "awake"}
      BY <1>2, <1>3 DEF Leads
    <2>4. pool # "creating"
      BY <1>0 DEF LeaderInv, Waiting
    <2>5. pc'[c] \in Running /\ pool' = pool
      BY <1>2 DEF Running
    <2>6. pool = "ready" => command'.op # "shutdown" /\ ~completion_event[command'.bit]
      BY <1>4, <2>1
    <2>7. pool # "ready" => command'.op = "shutdown"
      BY <1>4
    <2> QED BY <1>0, <2>2, <2>3, <2>4, <2>5, <2>6, <2>7, WorkersAssumption DEF CompletionEventInv
  <1>14. OperationInv'
    <2>1. \A d \in Callers : Leads(d)' => d = c
      BY <1>2, <1>3 DEF Leads
    <2>2. \A w \in Workers : pool = "ready" => ran[w] = 0
      BY <1>0 DEF OperationInv, LeaderInv, Leads, Storing
    <2> QED BY <1>2, <1>4, <2>1, <2>2 DEF OperationInv, Storing
  <1> QED BY <1>6, <1>7, <1>8, <1>9, <1>10, <1>11, <1>12, <1>13, <1>14 DEF IInv

(* SetEvent wakes those who have not seen the new command, and only them. *)
LEMMA SetCommandEventKeepsInv ==
  ASSUME IInv, NEW c \in Callers, SetCommandEvent(c)
  PROVE  IInv'
  <1> USE DEF SetCommandEvent, WakeAll, Goto, events, operation, locals
  <1>0. /\ PoolTypeOK /\ LeaderInv /\ CommandInv /\ WorkerInv /\ CountInv
        /\ BitInv /\ CommandEventInv /\ CompletionEventInv /\ OperationInv
    BY DEF IInv
  <1>1. \A w \in Workers :
          pc'[w] = IF pc[w] = "asleep" /\ last_command[w].bit = event_index[c] THEN "awake" ELSE pc[w]
    BY <1>0, ThreadKinds DEF PoolTypeOK
  <1>2. \A d \in Callers : pc'[d] = IF d # c THEN pc[d] ELSE IF pool = "ready" THEN "run" ELSE "join"
    BY <1>0, ThreadKinds DEF PoolTypeOK
  <1>3. /\ \A d \in Callers : Leads(d) <=> d = c
        /\ pool = IF command.op = "shutdown" THEN "stopping" ELSE "ready"
    BY <1>0 DEF PoolTypeOK, LeaderInv, CommandInv, Leads, Waiting
  <1>4. \A d \in Callers :
          /\ Leads(d)' <=> Leads(d)
          /\ Preparing(d)' <=> Preparing(d)
          /\ command.op # "shutdown" => (Open(d)' <=> Open(d))
    BY <1>2, <1>3 DEF Leads, Preparing, Open, Running
  <1>5. Owers' = Owers
    BY <1>1 DEF Owers, Owes, Busy
  <1>6. PoolTypeOK'
    <2>1. pc' \in [Threads -> CallerLabel \cup WorkerLabel]
      BY <1>0 DEF PoolTypeOK, CallerLabel, WorkerLabel
    <2> QED BY <1>0, <1>1, <1>2, <2>1, Bits DEF PoolTypeOK, CallerLabel, WorkerLabel
  <1>7. LeaderInv'
    <2>1. pool = "ready" => pc'[c] \in Running
      BY <1>2 DEF Running
    <2>2. pool # "ready" => pc'[c] = "join"
      BY <1>2
    <2> QED BY <1>0, <1>2, <1>3, <1>4, <2>1, <2>2 DEF LeaderInv
  <1>8. CommandInv'
    BY <1>0, <1>2 DEF LeaderInv, CommandInv, Leads
  <1>9. WorkerInv'
    BY <1>0, <1>1 DEF WorkerInv, Busy, Waiting
  <1>10. CountInv'
    <2>1. UNCHANGED <<command, active_threads>>
      OBVIOUS
    <2>2. \A w \in Workers : Owes(w)' <=> Owes(w)
      BY <1>1 DEF Owes, Busy
    <2> HIDE DEF SetCommandEvent, WakeAll
    <2> QED BY <1>0, <1>4, <1>5, <2>1, <2>2 DEF CountInv
  <1>11. BitInv'
    BY <1>0, <1>2 DEF BitInv, Preparing, Running, Waiting
  <1>12. CommandEventInv'
    <2>1. /\ command_event'[event_index[c]]
          /\ \A b \in Bit : b # event_index[c] => command_event'[b] = command_event[b]
      BY <1>0, Bits DEF PoolTypeOK
    <2>2. \A w \in Workers : command # last_command[w] => last_command[w].bit = event_index[c]
      BY <1>0, <1>3 DEF BitInv, Running
    <2>3. command.op # "shutdown" => event_index[c] = 1 - command.bit
      BY <1>0, <1>3 DEF BitInv, Running
    <2>4. \A w \in Workers : pc[w] = "asleep" /\ last_command[w].bit = event_index[c] =>
            command # last_command[w]
      BY <1>0, <2>3, Bits DEF WorkerInv
    <2>5. \A d \in Callers : pc'[d] # "store_command"
      BY <1>2, <1>3 DEF Leads
    <2>6. \A w \in Workers : pc[w] = "asleep" \/ pc[w] = "awake" => last_command[w].bit \in Bit
      BY <1>0, Bits
    <2> QED BY <1>0, <1>1, <2>1, <2>2, <2>3, <2>4, <2>5, <2>6, Bits DEF CommandEventInv
  <1>13. CompletionEventInv'
    <2>1. UNCHANGED <<command, pool, completion_event>>
      OBVIOUS
    <2>2. \A w \in Workers : (Owes(w)' <=> Owes(w)) /\ (Notifies(w)' <=> Notifies(w))
      BY <1>1 DEF Owes, Busy, Notifies
    <2>3. \A d \in Callers : pc'[d] \in {"asleep", "awake"} => pc'[d] = pc[d]
      BY <1>2
    <2>4. command.op # "shutdown" => \A d \in Callers :
            pc'[d] \in Running \cup {"reset_completion"} <=> pc[d] \in Running \cup {"reset_completion"}
      BY <1>2, <1>3 DEF Running
    <2> HIDE DEF SetCommandEvent, WakeAll
    <2> QED BY <1>0, <1>4, <2>1, <2>2, <2>3, <2>4 DEF CompletionEventInv
  <1>14. OperationInv'
    BY <1>0, <1>1, <1>2 DEF OperationInv, Leads, Storing
  <1> QED BY <1>6, <1>7, <1>8, <1>9, <1>10, <1>11, <1>12, <1>13, <1>14 DEF IInv

(* The caller leaves the thread function and begins to wait. *)
LEMMA LeaveKeepsInv ==
  ASSUME IInv, NEW c \in Callers, Leave(c)
  PROVE  IInv'
  <1> USE DEF Leave, Goto, events, operation, locals
  <1>0. /\ PoolTypeOK /\ LeaderInv /\ CommandInv /\ WorkerInv /\ CountInv
        /\ BitInv /\ CommandEventInv /\ CompletionEventInv /\ OperationInv
    BY DEF IInv
  <1>1. \A w \in Workers : pc'[w] = pc[w]
    BY <1>0, ThreadKinds DEF PoolTypeOK
  <1>2. Owers' = Owers
    BY <1>0, <1>1 DEF Owers, Owes, Busy
  <1>3. PoolTypeOK'
    BY <1>0, ThreadKinds DEF PoolTypeOK, CallerLabel
  <1>4. LeaderInv'
    BY <1>0, ThreadKinds DEF PoolTypeOK, LeaderInv, Leads, Storing, Running, Waiting, Ending
  <1>5. CommandInv'
    BY <1>0, ThreadKinds DEF PoolTypeOK, LeaderInv, CommandInv, Leads
  <1>6. WorkerInv'
    BY <1>0, <1>1 DEF WorkerInv, Busy
  <1>7. CountInv'
    BY <1>0, <1>2, ThreadKinds DEF PoolTypeOK, CountInv, Owes, Busy, Preparing, Open, Running, Waiting
  <1>8. BitInv'
    BY <1>0, ThreadKinds DEF PoolTypeOK, BitInv, Preparing, Running, Waiting
  <1>9. CommandEventInv'
    BY <1>0, ThreadKinds DEF PoolTypeOK, CommandEventInv
  <1>10. CompletionEventInv'
    BY <1>0, ThreadKinds DEF PoolTypeOK, CompletionEventInv, Notifies, Owes, Busy, Open, Running, Waiting
  <1>11. OperationInv'
    BY <1>0, ThreadKinds DEF PoolTypeOK, OperationInv, Leads, Storing
  <1> QED BY <1>3, <1>4, <1>5, <1>6, <1>7, <1>8, <1>9, <1>10, <1>11 DEF IInv

(* The wait for the workers is over, because the counter says so or *)
(* because the event of the present command has been set.           *)
LEMMA WaitEndsKeepsInv ==
  ASSUME IInv, NEW c \in Callers, AllCheckedIn(c) \/ CompletionSignalled(c)
  PROVE  IInv'
  <1> USE DEF AllCheckedIn, CompletionSignalled, Returns, Goto, events, operation, locals
  <1>0. /\ PoolTypeOK /\ LeaderInv /\ CommandInv /\ WorkerInv /\ CountInv
        /\ BitInv /\ CommandEventInv /\ CompletionEventInv /\ OperationInv
    BY DEF IInv
  <1>1. \A w \in Workers : pc'[w] = pc[w]
    BY <1>0, ThreadKinds DEF PoolTypeOK
  <1>2. /\ \A d \in Callers : d # c => pc'[d] = pc[d] /\ ~Leads(d) /\ ~Leads(d)'
        /\ pool \in {"creating", "ready"} /\ pool' = "ready" /\ pc[c] \in Waiting
        /\ pc'[c] = IF pool = "creating" THEN "idle" ELSE "reset_completion"
        /\ command.op # "shutdown"
    <2>1. pool \in {"creating", "ready"} /\ pc[c] \in Waiting
      BY CallersWaitForThePresent DEF Waiting
    <2> QED BY <1>0, <2>1, ThreadKinds DEF PoolTypeOK, LeaderInv, CommandInv, Leads, Waiting
  <1>3. \A w \in Workers : ~Owes(w)
    <2>1. CASE AllCheckedIn(c)
      <3>1. Cardinality(Owers) = 0
        BY <1>0, <1>2, <2>1 DEF CountInv, Preparing, Leads, Waiting
      <3> QED BY <3>1, CountWorkers, FS_EmptySet DEF Owers
    <2>2. CASE CompletionSignalled(c)
      BY <1>0, <1>2, <2>2 DEF CompletionEventInv
    <2> QED BY <2>1, <2>2
  <1>4. Owers' = Owers
    BY <1>0, <1>1 DEF Owers, Owes, Busy
  <1>5. PoolTypeOK'
    BY <1>0, ThreadKinds DEF PoolTypeOK, CallerLabel
  <1>6. LeaderInv'
    BY <1>0, ThreadKinds DEF PoolTypeOK, LeaderInv, Leads, Storing, Running, Waiting, Ending
  <1>7. CommandInv'
    BY <1>0, <1>2 DEF CommandInv
  <1>8. WorkerInv'
    BY <1>0, <1>1, <1>2, <1>3 DEF WorkerInv, Busy, Owes
  <1>9. CountInv'
    BY <1>0, <1>1, <1>2, <1>3, <1>4 DEF CountInv, Owes, Busy, Preparing, CommandInv
  <1>10. BitInv'
    <2>1. UNCHANGED <<command, event_index, last_command>>
      OBVIOUS
    <2>2. \A d \in Callers : d # c => ~Preparing(d)' /\ pc'[d] \notin Running \cup {"reset_completion"}
      BY <1>2 DEF Preparing, Leads, Running, Waiting
    <2>3. /\ ~Preparing(c)' /\ pc'[c] \notin Running
          /\ pc'[c] = "reset_completion" => pool = "ready" /\ pc[c] \in Running
      BY <1>2 DEF Preparing, Running, Waiting
    <2> HIDE DEF AllCheckedIn, CompletionSignalled, Returns
    <2> QED BY <1>0, <1>2, <2>1, <2>2, <2>3 DEF BitInv
  <1>11. CommandEventInv'
    <2>1. UNCHANGED <<command, command_event, last_command>>
      OBVIOUS
    <2>2. \A d \in Callers : pc'[d] # "store_command" /\ pc[d] # "set_command"
      BY <1>2 DEF Leads, Waiting
    <2> HIDE DEF AllCheckedIn, CompletionSignalled, Returns
    <2> QED BY <1>0, <1>1, <2>1, <2>2 DEF CommandEventInv
  <1>12. CompletionEventInv'
    <2>1. \A d \in Callers : d # c => ~Open(d)' /\ pc[d] \notin Running \cup {"reset_completion"}
      BY <1>2 DEF Leads, Open, Running, Waiting
    <2>2. ~Open(c)' /\ pc'[c] \notin Waiting
      BY <1>2 DEF Open, Running, Waiting
    <2> QED BY <1>0, <1>1, <1>2, <1>3, <2>1, <2>2
            DEF CompletionEventInv, Notifies, Owes, Busy, Open, Running, Waiting
  <1>13. OperationInv'
    BY <1>0, <1>1, <1>2 DEF OperationInv, Leads, Storing, Waiting
  <1> QED BY <1>5, <1>6, <1>7, <1>8, <1>9, <1>10, <1>11, <1>12, <1>13 DEF IInv

(* The event that is reset is the one of the next operation. *)
LEMMA ResetCompletionEventKeepsInv ==
  ASSUME IInv, NEW c \in Callers, ResetCompletionEvent(c)
  PROVE  IInv'
  <1> USE DEF ResetCompletionEvent, Goto, events, operation, locals
  <1>0. /\ PoolTypeOK /\ LeaderInv /\ CommandInv /\ WorkerInv /\ CountInv
        /\ BitInv /\ CommandEventInv /\ CompletionEventInv /\ OperationInv
    BY DEF IInv
  <1>1. \A w \in Workers : pc'[w] = pc[w]
    BY <1>0, ThreadKinds DEF PoolTypeOK
  <1>2. Owers' = Owers
    BY <1>0, <1>1 DEF Owers, Owes, Busy
  <1>3. PoolTypeOK'
    BY <1>0, ThreadKinds DEF PoolTypeOK, CallerLabel
  <1>4. LeaderInv'
    BY <1>0, ThreadKinds DEF PoolTypeOK, LeaderInv, Leads, Storing, Running, Waiting, Ending
  <1>5. CommandInv'
    BY <1>0, ThreadKinds DEF PoolTypeOK, LeaderInv, CommandInv, Leads
  <1>6. WorkerInv'
    BY <1>0, <1>1 DEF WorkerInv, Busy
  <1>7. CountInv'
    BY <1>0, <1>2, ThreadKinds DEF PoolTypeOK, CountInv, Owes, Busy, Preparing, Open, Running, Waiting
  <1>8. BitInv'
    BY <1>0, ThreadKinds DEF PoolTypeOK, BitInv, Preparing, Running, Waiting
  <1>9. CommandEventInv'
    BY <1>0, ThreadKinds DEF PoolTypeOK, CommandEventInv
  <1>10. CompletionEventInv'
    <2>1. /\ \A d \in Callers : Leads(d) <=> d = c
          /\ command.op # "shutdown" /\ pool = "ready"
          /\ \A w \in Workers : ~Owes(w)
      BY <1>0, ExclusiveMeansRest DEF Ending, LeaderInv, PoolTypeOK, Waiting
    <2>2. \A d \in Callers : pc'[d] = IF d = c THEN "unlock" ELSE pc[d]
      BY <1>0, ThreadKinds DEF PoolTypeOK
    <2>3. \A d \in Callers : ~Open(d)' /\ pc'[d] \notin Waiting
      BY <2>1, <2>2 DEF Leads, Open, Running, Waiting
    <2>4. /\ ~completion_event'[1 - command.bit]
          /\ completion_event'[command.bit] = completion_event[command.bit]
      BY <1>0, <2>1, Bits DEF PoolTypeOK, BitInv
    <2> QED BY <1>0, <1>1, <2>1, <2>3, <2>4
            DEF CompletionEventInv, Notifies, Owes, Busy, Waiting
  <1>11. OperationInv'
    BY <1>0, ThreadKinds DEF PoolTypeOK, OperationInv, Leads, Storing
  <1> QED BY <1>3, <1>4, <1>5, <1>6, <1>7, <1>8, <1>9, <1>10, <1>11 DEF IInv

(* The mutex is given back while all workers are at rest. *)
LEMMA UnlockKeepsInv ==
  ASSUME IInv, NEW c \in Callers, Unlock(c)
  PROVE  IInv'
  <1> USE DEF Unlock, Goto, events, operation, locals
  <1>0. /\ PoolTypeOK /\ LeaderInv /\ CommandInv /\ WorkerInv /\ CountInv
        /\ BitInv /\ CommandEventInv /\ CompletionEventInv /\ OperationInv
    BY DEF IInv
  <1>1. \A w \in Workers : pc'[w] = pc[w]
    BY <1>0, ThreadKinds DEF PoolTypeOK
  <1>2. Owers' = Owers
    BY <1>0, <1>1 DEF Owers, Owes, Busy
  <1>3. PoolTypeOK'
    BY <1>0, ThreadKinds DEF PoolTypeOK, CallerLabel
  <1>4. LeaderInv'
    BY <1>0, ThreadKinds DEF PoolTypeOK, LeaderInv, Leads, Storing, Running, Waiting, Ending
  <1>5. CommandInv'
    BY <1>0, ThreadKinds DEF PoolTypeOK, LeaderInv, CommandInv, Leads
  <1>6. WorkerInv'
    BY <1>0, <1>1 DEF WorkerInv, Busy
  <1>7. CountInv'
    BY <1>0, <1>2, ThreadKinds DEF PoolTypeOK, CountInv, Owes, Busy, Preparing, Open, Running, Waiting
  <1>8. BitInv'
    BY <1>0, ThreadKinds DEF PoolTypeOK, BitInv, Preparing, Running, Waiting
  <1>9. CommandEventInv'
    BY <1>0, ThreadKinds DEF PoolTypeOK, CommandEventInv
  <1>10. CompletionEventInv'
    BY <1>0, ThreadKinds DEF PoolTypeOK, CompletionEventInv, Notifies, Owes, Busy, Open, Running, Waiting
  <1>11. OperationInv'
    BY <1>0, ThreadKinds DEF PoolTypeOK, OperationInv, Leads, Storing
  <1> QED BY <1>3, <1>4, <1>5, <1>6, <1>7, <1>8, <1>9, <1>10, <1>11 DEF IInv

-----------------------------------------------------------------------------
(* The steps of pthreadpool_destroy. *)

(* No caller is in an operation when the user destroys the pool. *)
LEMMA DestroyKeepsInv ==
  ASSUME IInv, NEW c \in Callers, Destroy(c)
  PROVE  IInv'
  <1> USE DEF Destroy, Goto, events, operation, locals
  <1>0. /\ PoolTypeOK /\ LeaderInv /\ CommandInv /\ WorkerInv /\ CountInv
        /\ BitInv /\ CommandEventInv /\ CompletionEventInv /\ OperationInv
    BY DEF IInv
  <1>1. \A w \in Workers : pc'[w] = pc[w]
    BY <1>0, ThreadKinds DEF PoolTypeOK
  <1>2. Owers' = Owers
    BY <1>0, <1>1 DEF Owers, Owes, Busy
  <1>3. PoolTypeOK'
    BY <1>0, ThreadKinds DEF PoolTypeOK, CallerLabel
  <1>4. LeaderInv'
    BY <1>0, ThreadKinds DEF PoolTypeOK, LeaderInv, Leads, Storing, Running, Waiting, Ending
  <1>5. CommandInv'
    BY <1>0, ThreadKinds DEF PoolTypeOK, LeaderInv, CommandInv, Leads
  <1>6. WorkerInv'
    BY <1>0, <1>1 DEF WorkerInv, Busy
  <1>7. CountInv'
    BY <1>0, <1>2, ThreadKinds DEF PoolTypeOK, CountInv, Owes, Busy, Preparing, Open, Running, Waiting
  <1>8. BitInv'
    BY <1>0, ThreadKinds DEF PoolTypeOK, BitInv, Preparing, Running, Waiting
  <1>9. CommandEventInv'
    BY <1>0, ThreadKinds DEF PoolTypeOK, CommandEventInv
  <1>10. CompletionEventInv'
    BY <1>0, ThreadKinds DEF PoolTypeOK, CompletionEventInv, Notifies, Owes, Busy, Open, Running, Waiting
  <1>11. OperationInv'
    BY <1>0, ThreadKinds DEF PoolTypeOK, OperationInv, Leads, Storing
  <1> QED BY <1>3, <1>4, <1>5, <1>6, <1>7, <1>8, <1>9, <1>10, <1>11 DEF IInv

(* The pool is released when all workers have gone. *)
LEMMA JoinKeepsInv ==
  ASSUME IInv, NEW c \in Callers, Join(c)
  PROVE  IInv'
  <1> USE DEF Join, Goto, events, operation, locals
  <1>0. /\ PoolTypeOK /\ LeaderInv /\ CommandInv /\ WorkerInv /\ CountInv
        /\ BitInv /\ CommandEventInv /\ CompletionEventInv /\ OperationInv
    BY DEF IInv
  <1>1. \A w \in Workers : pc'[w] = pc[w]
    BY <1>0, ThreadKinds DEF PoolTypeOK
  <1>2. Owers' = Owers
    BY <1>0, <1>1 DEF Owers, Owes, Busy
  <1>3. PoolTypeOK'
    BY <1>0, ThreadKinds DEF PoolTypeOK, CallerLabel
  <1>4. LeaderInv'
    BY <1>0, ThreadKinds DEF PoolTypeOK, LeaderInv, Leads, Storing, Running, Waiting, Ending
  <1>5. CommandInv'
    BY <1>0 DEF PoolTypeOK, LeaderInv, CommandInv, Leads, Waiting, Storing, Running, Ending
  <1>6. WorkerInv'
    BY <1>0, <1>1 DEF WorkerInv, Busy
  <1>7. CountInv'
    BY <1>0, <1>2, ThreadKinds DEF PoolTypeOK, CountInv, Owes, Busy, Preparing, Open, Running, Waiting
  <1>8. BitInv'
    BY <1>0, ThreadKinds DEF PoolTypeOK, BitInv, Preparing, Running, Waiting
  <1>9. CommandEventInv'
    BY <1>0, ThreadKinds DEF PoolTypeOK, CommandEventInv
  <1>10. CompletionEventInv'
    BY <1>0, ThreadKinds DEF PoolTypeOK, CompletionEventInv, Notifies, Owes, Busy, Open, Running, Waiting
  <1>11. OperationInv'
    BY <1>0, ThreadKinds DEF PoolTypeOK, OperationInv, Leads, Storing
  <1> QED BY <1>3, <1>4, <1>5, <1>6, <1>7, <1>8, <1>9, <1>10, <1>11 DEF IInv

-----------------------------------------------------------------------------
(* The steps of a worker. *)

(* The worker that checks in owes nothing any more; the last one will set *)
(* the event of the present command.                                      *)
LEMMA CheckinKeepsInv ==
  ASSUME IInv, NEW w \in Workers, Checkin(w)
  PROVE  IInv'
  <1> USE DEF Checkin, Goto, events, operation, locals
  <1>0. /\ PoolTypeOK /\ LeaderInv /\ CommandInv /\ WorkerInv /\ CountInv
        /\ BitInv /\ CommandEventInv /\ CompletionEventInv /\ OperationInv
    BY DEF IInv
  <1>1. (\A d \in Callers : pc'[d] = pc[d]) /\ (\A v \in Workers : v # w => pc'[v] = pc[v])
    BY <1>0, ThreadKinds DEF PoolTypeOK
  <1>2. pc[w] = "checkin" /\ pc'[w] = IF active_threads' = 0 THEN "set_completion" ELSE "wait"
    BY <1>0, ThreadKinds DEF PoolTypeOK
  <1>3. /\ w \in Owers /\ last_command[w] = command /\ command.op # "shutdown"
        /\ \A c \in Callers : ~Preparing(c)
        /\ active_threads = Cardinality(Owers) /\ active_threads > 0
    <2>1. w \in Owers /\ last_command[w] = command /\ command.op # "shutdown"
      BY <1>0 DEF WorkerInv, Owers, Owes, Busy
    <2>2. \A c \in Callers : ~Preparing(c)
      BY <2>1, ExclusiveMeansRest DEF Owers, Preparing, Storing
    <2>3. active_threads = Cardinality(Owers)
      BY <1>0, <2>1, <2>2 DEF CountInv
    <2> QED BY <2>1, <2>2, <2>3, CountWorkers, FS_EmptySet
  <1>4. PoolTypeOK'
    BY <1>0, <1>2, <1>3, CountWorkers, ThreadKinds DEF PoolTypeOK, WorkerLabel
  <1>5. LeaderInv'
    BY <1>0, <1>1 DEF LeaderInv, Leads
  <1>6. CommandInv'
    BY <1>0, <1>1 DEF CommandInv, Leads
  <1>7. WorkerInv'
    BY <1>0, <1>1 DEF WorkerInv, Busy, Waiting
  <1>8. CountInv'
    <2>1. Owers' = Owers \ {w}
      BY <1>1, <1>2, <1>3 DEF Owers, Owes, Busy
    <2>2. Cardinality(Owers') = Cardinality(Owers) - 1
      BY <1>3, <2>1, CountWorkers, FS_RemoveElement
    <2>3. active_threads' = active_threads - 1 /\ UNCHANGED command
      OBVIOUS
    <2>4. \A d \in Callers : (Preparing(d)' <=> Preparing(d)) /\ (Open(d)' <=> Open(d))
      BY <1>1 DEF Preparing, Open
    <2>5. \A v \in Workers : Owes(v)' => Owes(v)
      BY <1>1, <1>2 DEF Owes, Busy
    <2> HIDE DEF Checkin
    <2> QED BY <1>0, <1>3, <2>2, <2>3, <2>4, <2>5 DEF CountInv
  <1>9. BitInv'
    BY <1>0, <1>1 DEF BitInv, Preparing
  <1>10. CommandEventInv'
    BY <1>0, <1>1, <1>2 DEF CommandEventInv
  <1>11. CompletionEventInv'
    <2>1. Owers' = Owers \ {w}
      BY <1>1, <1>2, <1>3 DEF Owers, Owes, Busy
    <2>2. Cardinality(Owers') = active_threads' /\ IsFiniteSet(Owers')
      BY <1>3, <2>1, CountWorkers, FS_RemoveElement
    <2>3. active_threads' = 0 <=> Owers' = {}
      BY <2>2, FS_EmptySet
    <2>4. Notifies(w)' <=> active_threads' = 0
      BY <1>2, <1>3 DEF Notifies
    <2>5. ~completion_event[command.bit] /\ \A v \in Workers : ~Notifies(v)
      BY <1>0, <1>3 DEF CompletionEventInv, Owers
    <2>6. \A v \in Workers : v # w => ~Notifies(v)'
      BY <1>1, <2>5 DEF Notifies
    <2> QED BY <1>0, <1>1, <2>3, <2>4, <2>5, <2>6 DEF CompletionEventInv, Owers, Open
  <1>12. OperationInv'
    BY <1>0, <1>1, <1>2 DEF OperationInv, Leads
  <1> QED BY <1>4, <1>5, <1>6, <1>7, <1>8, <1>9, <1>10, <1>11, <1>12 DEF IInv

(* The event of the present command may end waits of this operation; one *)
(* that is set late ends none.                                           *)
LEMMA SetCompletionEventKeepsInv ==
  ASSUME IInv, NEW w \in Workers, SetCompletionEvent(w)
  PROVE  IInv'
  <1> USE DEF SetCompletionEvent, WakeAll, Goto, events, operation, locals
  <1>0. /\ PoolTypeOK /\ LeaderInv /\ CommandInv /\ WorkerInv /\ CountInv
        /\ BitInv /\ CommandEventInv /\ CompletionEventInv /\ OperationInv
    BY DEF IInv
  <1>1. \A d \in Callers :
          pc'[d] = IF pc[d] = "asleep" /\ CompletionIndex(d) = last_command[w].bit THEN "awake" ELSE pc[d]
    BY <1>0, ThreadKinds DEF PoolTypeOK
  <1>2. pc[w] = "set_completion" /\ \A v \in Workers : pc'[v] = IF v = w THEN "wait" ELSE pc[v]
    BY <1>0, ThreadKinds DEF PoolTypeOK
  <1>3. \A d \in Callers :
          /\ Leads(d)' <=> Leads(d)
          /\ Preparing(d)' <=> Preparing(d)
          /\ Open(d)' <=> Open(d)
    BY <1>1 DEF Leads, Preparing, Open, Running, Waiting
  <1>4. Owers' = Owers
    BY <1>2 DEF Owers, Owes, Busy
  <1>5. PoolTypeOK'
    <2>1. pc' \in [Threads -> CallerLabel \cup WorkerLabel]
      BY <1>0 DEF PoolTypeOK, CallerLabel, WorkerLabel
    <2> QED BY <1>0, <1>1, <1>2, <2>1, Bits DEF PoolTypeOK, CallerLabel, WorkerLabel
  <1>6. LeaderInv'
    <2>1. \A d \in Callers : pc'[d] = pc[d] \/ (pc[d] = "asleep" /\ pc'[d] = "awake")
      BY <1>1
    <2>2. UNCHANGED <<pool, execution_mutex>>
      OBVIOUS
    <2> HIDE DEF SetCompletionEvent, WakeAll
    <2>3. /\ \A b, d \in Callers : Leads(b)' /\ Leads(d)' => b = d
          /\ pool' \in {"creating", "stopping"} => \E d \in Callers : Leads(d)'
          /\ pool' # "ready" => execution_mutex' = Nobody /\ \A d \in Callers : pc'[d] # "lock"
      BY <1>0, <1>3, <2>1, <2>2 DEF LeaderInv
    <2>4. ASSUME NEW d \in Callers
          PROVE  /\ pool' = "creating" => pc'[d] \in {"idle", "spawn"} \cup Waiting
                 /\ pool' = "ready" =>
                      /\ pc'[d] \in {"idle", "lock"} \cup Storing \cup Running \cup Ending
                      /\ Leads(d)' <=> execution_mutex' = d
                 /\ pool' = "stopping" =>
                      pc'[d] \in {"idle", "store_active", "store_command", "set_command", "join"}
                 /\ pool' = "released" => pc'[d] = "idle"
      <3>1. CASE pc'[d] = pc[d]
        BY <1>0, <1>3, <2>2, <3>1 DEF LeaderInv
      <3>2. CASE pc[d] = "asleep" /\ pc'[d] = "awake"
        BY <1>0, <1>3, <2>2, <3>2 DEF PoolTypeOK, LeaderInv, Waiting, Running
      <3> QED BY <2>1, <3>1, <3>2
    <2> QED BY <2>3, <2>4 DEF LeaderInv
  <1>7. CommandInv'
    BY <1>0, <1>1 DEF CommandInv, Leads
  <1>8. WorkerInv'
    BY <1>0, <1>2 DEF WorkerInv, Busy, Waiting
  <1>9. CountInv'
    <2>1. UNCHANGED <<command, active_threads>>
      OBVIOUS
    <2>2. \A v \in Workers : Owes(v)' <=> Owes(v)
      BY <1>2 DEF Owes, Busy
    <2> HIDE DEF SetCompletionEvent, WakeAll
    <2> QED BY <1>0, <1>3, <1>4, <2>1, <2>2 DEF CountInv
  <1>10. BitInv'
    BY <1>0, <1>1 DEF BitInv, Preparing, Running, Waiting
  <1>11. CommandEventInv'
    <2>1. UNCHANGED <<pool, command, command_event, last_command>>
      OBVIOUS
    <2>2. \A d \in Callers :
            /\ pc'[d] = "store_command" <=> pc[d] = "store_command"
            /\ pc'[d] = "set_command" <=> pc[d] = "set_command"
      BY <1>1
    <2>3. \A v \in Workers : pc'[v] \in {"asleep", "awake"} => pc'[v] = pc[v]
      BY <1>2
    <2> HIDE DEF SetCompletionEvent, WakeAll
    <2> QED BY <1>0, <2>1, <2>2, <2>3 DEF CommandEventInv
  <1>12. CompletionEventInv'
    <2>1. /\ completion_event'[last_command[w].bit]
          /\ \A b \in Bit : b # last_command[w].bit => completion_event'[b] = completion_event[b]
      BY <1>0, Bits DEF PoolTypeOK
    <2>2. \A d \in Callers : Open(d)' <=> Open(d)
      BY <1>1 DEF Open, Running, Waiting
    <2>3. \A v \in Workers : (Owes(v)' <=> Owes(v)) /\ (Notifies(v)' <=> Notifies(v) /\ v # w)
      BY <1>2 DEF Owes, Busy, Notifies
    <2>4. \A d \in Callers :
            pc[d] = "asleep" => CompletionIndex(d) = command.bit /\ command.op # "shutdown"
      BY <1>0, CallersWaitForThePresent DEF Waiting, CommandInv
    <2>5. \A d \in Callers : pc'[d] \in Running \cup {"reset_completion"} <=>
                            pc[d] \in Running \cup {"reset_completion"}
      BY <1>1 DEF Running, Waiting
    <2>6. CASE last_command[w] = command
      <3>1. command.op # "shutdown" => \A v \in Workers : ~Owes(v)
        BY <1>0, <2>6 DEF CompletionEventInv, Notifies
      <3>2. completion_event'[command.bit] /\
            completion_event'[1 - command.bit] = completion_event[1 - command.bit]
        BY <1>0, <2>1, <2>6, Bits
      <3>3. \A d \in Callers : pc'[d] # "asleep"
        BY <1>1, <2>4, <2>6
      <3> QED BY <1>0, <2>2, <2>3, <2>5, <3>1, <3>2, <3>3 DEF CompletionEventInv
    <2>7. CASE last_command[w] # command
      <3>1. Owes(w) /\ pool # "creating"
        BY <1>0, <2>7 DEF Owes, CommandInv, InitCommand
      <3>2. CASE command.op = "shutdown"
        <4>1. \A d \in Callers : pc'[d] \notin {"asleep", "awake"}
          BY <1>0, <1>1, <2>4, <3>2 DEF LeaderInv, CommandInv, PoolTypeOK
        <4> QED BY <3>1, <3>2, <4>1 DEF CompletionEventInv
      <3>3. CASE command.op # "shutdown"
        <4>1. last_command[w].bit = 1 - command.bit
          BY <1>0, <2>7, <3>3 DEF BitInv
        <4>2. completion_event'[command.bit] = completion_event[command.bit]
          BY <1>0, <2>1, <4>1, Bits
        <4>3. \A d \in Callers : pc'[d] = pc[d]
          BY <1>0, <1>1, <2>4, <4>1, Bits
        <4>4. ~Notifies(w)
          BY <2>7 DEF Notifies
        <4>5. PICK d \in Callers : Open(d)
          BY <1>0, <3>1, <3>3 DEF CountInv
        <4>6. pc[d] \in Running
          BY <1>0, <3>1, <4>5 DEF Open, LeaderInv, PoolTypeOK, Running, Waiting, Storing, Ending
        <4> QED BY <1>0, <2>2, <2>3, <2>5, <3>1, <3>3, <4>2, <4>3, <4>4, <4>6
                DEF CompletionEventInv
      <3> QED BY <3>2, <3>3
    <2> QED BY <2>6, <2>7
  <1>13. OperationInv'
    BY <1>0, <1>1, <1>2 DEF OperationInv, Leads, Storing
  <1> QED BY <1>5, <1>6, <1>7, <1>8, <1>9, <1>10, <1>11, <1>12, <1>13 DEF IInv

(* A worker that sees the new command owes its check-in before and after. *)
LEMMA SeeCommandKeepsInv ==
  ASSUME IInv, NEW w \in Workers, SeeCommand(w)
  PROVE  IInv'
  <1> USE DEF SeeCommand, Goto, events, operation, locals
  <1>0. /\ PoolTypeOK /\ LeaderInv /\ CommandInv /\ WorkerInv /\ CountInv
        /\ BitInv /\ CommandEventInv /\ CompletionEventInv /\ OperationInv
    BY DEF IInv
  <1>1. (\A d \in Callers : pc'[d] = pc[d]) /\ (\A v \in Workers : v # w => pc'[v] = pc[v])
    BY <1>0, ThreadKinds DEF PoolTypeOK
  <1>2. /\ pc[w] \in {"wait", "spin", "awake"} /\ pc'[w] = "dispatch"
        /\ command # last_command[w] /\ last_command'[w] = command
        /\ \A v \in Workers : v # w => last_command'[v] = last_command[v]
    BY <1>0, ThreadKinds DEF PoolTypeOK, CommandEventInv
  <1>3. Owers' = Owers
    BY <1>1, <1>2 DEF Owers, Owes, Busy
  <1>4. PoolTypeOK'
    BY <1>0, ThreadKinds DEF PoolTypeOK, WorkerLabel
  <1>5. LeaderInv'
    BY <1>0, <1>1 DEF LeaderInv, Leads
  <1>6. CommandInv'
    BY <1>0, <1>1, <1>2 DEF CommandInv, Leads
  <1>7. WorkerInv'
    BY <1>0, <1>1, <1>2 DEF WorkerInv, Busy, CommandInv
  <1>8. CountInv'
    BY <1>0, <1>1, <1>3 DEF CountInv, Owers, Preparing, Open
  <1>9. BitInv'
    BY <1>0, <1>1, <1>2 DEF BitInv, Preparing
  <1>10. CommandEventInv'
    BY <1>0, <1>1, <1>2 DEF CommandEventInv
  <1>11. CompletionEventInv'
    <2>1. \A v \in Workers : (Owes(v)' <=> Owes(v)) /\ (Notifies(v)' <=> Notifies(v))
      BY <1>1, <1>2 DEF Owes, Busy, Notifies
    <2> QED BY <1>0, <1>1, <2>1 DEF CompletionEventInv, Open
  <1>12. OperationInv'
    BY <1>0, <1>1, <1>2 DEF OperationInv, Leads
  <1> QED BY <1>4, <1>5, <1>6, <1>7, <1>8, <1>9, <1>10, <1>11, <1>12 DEF IInv

(* A worker keeps waiting: it falls asleep only if the event after its last *)
(* command is not set.                                                      *)
LEMMA WaitForCommandKeepsInv ==
  ASSUME IInv, NEW w \in Workers, SeeNothing(w) \/ WaitForCommand(w)
  PROVE  IInv'
  <1> USE DEF SeeNothing, WaitForCommand, Goto, events, operation, locals
  <1>0. /\ PoolTypeOK /\ LeaderInv /\ CommandInv /\ WorkerInv /\ CountInv
        /\ BitInv /\ CommandEventInv /\ CompletionEventInv /\ OperationInv
    BY DEF IInv
  <1>1. (\A d \in Callers : pc'[d] = pc[d]) /\ (\A v \in Workers : v # w => pc'[v] = pc[v])
    BY <1>0, ThreadKinds DEF PoolTypeOK
  <1>2. /\ pc[w] \in {"wait", "spin", "event"} /\ pc'[w] \in {"spin", "event", "asleep", "awake"}
        /\ pc'[w] = "asleep" => ~command_event[last_command[w].bit]
        /\ pc'[w] = "awake" => command_event[last_command[w].bit] /\ pc[w] = "event"
    BY <1>0, ThreadKinds DEF PoolTypeOK
  <1>3. Owers' = Owers
    BY <1>1, <1>2 DEF Owers, Owes, Busy
  <1>4. PoolTypeOK'
    BY <1>0, ThreadKinds DEF PoolTypeOK, WorkerLabel
  <1>5. LeaderInv'
    BY <1>0, <1>1 DEF LeaderInv, Leads
  <1>6. CommandInv'
    BY <1>0, <1>1 DEF CommandInv, Leads
  <1>7. WorkerInv'
    BY <1>0, <1>1, <1>2 DEF WorkerInv, Busy, Waiting
  <1>8. CountInv'
    BY <1>0, <1>1, <1>3 DEF CountInv, Owers, Preparing, Open
  <1>9. BitInv'
    BY <1>0, <1>1 DEF BitInv, Preparing
  <1>10. CommandEventInv'
    <2>1. pc'[w] = "awake" => command # last_command[w]
      BY <1>0, <1>2 DEF CommandEventInv, WorkerInv
    <2> QED BY <1>0, <1>1, <1>2, <2>1 DEF CommandEventInv
  <1>11. CompletionEventInv'
    BY <1>0, <1>1, <1>2 DEF CompletionEventInv, Notifies, Owes, Busy, Open
  <1>12. OperationInv'
    BY <1>0, <1>1, <1>2 DEF OperationInv, Leads
  <1> QED BY <1>4, <1>5, <1>6, <1>7, <1>8, <1>9, <1>10, <1>11, <1>12 DEF IInv

(* A worker obeys the command it has seen, which is the present one. *)
LEMMA DispatchKeepsInv ==
  ASSUME IInv, NEW w \in Workers, Dispatch(w)
  PROVE  IInv'
  <1> USE DEF Dispatch, Goto, events, operation, locals
  <1>0. /\ PoolTypeOK /\ LeaderInv /\ CommandInv /\ WorkerInv /\ CountInv
        /\ BitInv /\ CommandEventInv /\ CompletionEventInv /\ OperationInv
    BY DEF IInv
  <1>1. (\A d \in Callers : pc'[d] = pc[d]) /\ (\A v \in Workers : v # w => pc'[v] = pc[v])
    BY <1>0, ThreadKinds DEF PoolTypeOK
  <1>2. /\ pc[w] = "dispatch" /\ last_command[w] = command
        /\ command.op \in {"parallelize", "shutdown"}
        /\ pc' = [pc EXCEPT ![w] = IF command.op = "shutdown" THEN "exited" ELSE "enter"]
        /\ pc'[w] = IF command.op = "shutdown" THEN "exited" ELSE "enter"
    <2>1. last_command[w] = command /\ command.op \in {"parallelize", "shutdown"}
      BY <1>0 DEF PoolTypeOK, Command, WorkerInv, Busy
    <2> QED BY <1>0, <2>1, ThreadKinds DEF PoolTypeOK
  <1>3. PoolTypeOK'
    <2>1. pc'[w] \in WorkerLabel /\ pc' \in [Threads -> CallerLabel \cup WorkerLabel]
      BY <1>0, <1>2 DEF PoolTypeOK, WorkerLabel
    <2> QED BY <1>0, <1>1, <2>1, ThreadKinds DEF PoolTypeOK
  <1>4. LeaderInv'
    BY <1>0, <1>1 DEF LeaderInv, Leads
  <1>5. CommandInv'
    BY <1>0, <1>1 DEF CommandInv, Leads
  <1>6. WorkerInv'
    BY <1>0, <1>1, <1>2 DEF WorkerInv, Busy
  <1>7. CountInv'
    <2>1. command.op # "shutdown" => Owers' = Owers
      BY <1>1, <1>2 DEF Owers, Owes, Busy
    <2> QED BY <1>0, <1>1, <2>1 DEF CountInv, Owers, Preparing, Open
  <1>8. BitInv'
    BY <1>0, <1>1 DEF BitInv, Preparing
  <1>9. CommandEventInv'
    BY <1>0, <1>1, <1>2 DEF CommandEventInv
  <1>10. CompletionEventInv'
    <2>1. \A v \in Workers :
            /\ command.op # "shutdown" => (Owes(v)' <=> Owes(v))
            /\ Notifies(v)' <=> Notifies(v)
      BY <1>1, <1>2 DEF Owes, Busy, Notifies
    <2>2. command.op = "shutdown" => pool # "creating"
      BY <1>0 DEF CommandInv, InitCommand
    <2>3. \A d \in Callers : Open(d)' <=> Open(d)
      BY <1>1 DEF Open
    <2>4. UNCHANGED <<command, pool, completion_event>>
      OBVIOUS
    <2> HIDE DEF Dispatch
    <2> QED BY <1>0, <1>1, <2>1, <2>2, <2>3, <2>4 DEF CompletionEventInv
  <1>11. OperationInv'
    <2>1. pool = "ready" => command.op # "shutdown"
      BY <1>0 DEF CommandInv
    <2> QED BY <1>0, <1>1, <1>2, <2>1 DEF OperationInv, Leads
  <1> QED BY <1>3, <1>4, <1>5, <1>6, <1>7, <1>8, <1>9, <1>10, <1>11 DEF IInv

(* A worker calls the thread function once in an operation. *)
LEMMA WorkerEnterKeepsInv ==
  ASSUME IInv, NEW w \in Workers, WorkerEnter(w)
  PROVE  IInv'
  <1> USE DEF WorkerEnter, Goto, events, operation, locals
  <1>0. /\ PoolTypeOK /\ LeaderInv /\ CommandInv /\ WorkerInv /\ CountInv
        /\ BitInv /\ CommandEventInv /\ CompletionEventInv /\ OperationInv
    BY DEF IInv
  <1>1. (\A d \in Callers : pc'[d] = pc[d]) /\ (\A v \in Workers : v # w => pc'[v] = pc[v])
    BY <1>0, ThreadKinds DEF PoolTypeOK
  <1>2. pc[w] = "enter" /\ pc'[w] = "run"
    BY <1>0, ThreadKinds DEF PoolTypeOK
  <1>3. Owers' = Owers
    BY <1>0, <1>1 DEF Owers, Owes, Busy
  <1>4. PoolTypeOK'
    BY <1>0, ThreadKinds DEF PoolTypeOK, WorkerLabel
  <1>5. LeaderInv'
    BY <1>0, ThreadKinds DEF PoolTypeOK, LeaderInv, Leads
  <1>6. CommandInv'
    BY <1>0, ThreadKinds DEF PoolTypeOK, CommandInv, Leads
  <1>7. WorkerInv'
    BY <1>0, <1>1 DEF WorkerInv, Busy, Waiting
  <1>8. CountInv'
    BY <1>0, <1>3, ThreadKinds DEF PoolTypeOK, CountInv, Owes, Busy, Preparing, Open, Running, Waiting
  <1>9. BitInv'
    BY <1>0, ThreadKinds DEF PoolTypeOK, BitInv, Preparing, Running, Waiting
  <1>10. CommandEventInv'
    BY <1>0, ThreadKinds DEF PoolTypeOK, CommandEventInv
  <1>11. CompletionEventInv'
    BY <1>0, ThreadKinds DEF PoolTypeOK, CompletionEventInv, Notifies, Owes, Busy, Open, Running, Waiting
  <1>12. OperationInv'
    <2>1. \A c \in Callers : pc[c] \notin Storing
      BY <1>2, ExclusiveMeansRest DEF Owes, Busy
    <2>2. \A v \in Workers : ran'[v] = IF v = w THEN ran[w] + 1 ELSE ran[v]
      BY <1>0 DEF PoolTypeOK
    <2>3. last_command[w] = command
      BY <1>0, <1>2 DEF WorkerInv, Busy
    <2> QED BY <1>0, <1>1, <1>2, <2>1, <2>2, <2>3 DEF OperationInv, Leads
  <1> QED BY <1>4, <1>5, <1>6, <1>7, <1>8, <1>9, <1>10, <1>11, <1>12 DEF IInv

(* A worker that returns from the thread function has to check in. *)
LEMMA WorkerLeaveKeepsInv ==
  ASSUME IInv, NEW w \in Workers, WorkerLeave(w)
  PROVE  IInv'
  <1> USE DEF WorkerLeave, Goto, events, operation, locals
  <1>0. /\ PoolTypeOK /\ LeaderInv /\ CommandInv /\ WorkerInv /\ CountInv
        /\ BitInv /\ CommandEventInv /\ CompletionEventInv /\ OperationInv
    BY DEF IInv
  <1>1. (\A d \in Callers : pc'[d] = pc[d]) /\ (\A v \in Workers : v # w => pc'[v] = pc[v])
    BY <1>0, ThreadKinds DEF PoolTypeOK
  <1>2. Owers' = Owers
    BY <1>0, <1>1 DEF Owers, Owes, Busy
  <1>3. PoolTypeOK'
    BY <1>0, ThreadKinds DEF PoolTypeOK, WorkerLabel
  <1>4. LeaderInv'
    BY <1>0, ThreadKinds DEF PoolTypeOK, LeaderInv, Leads
  <1>5. CommandInv'
    BY <1>0, ThreadKinds DEF PoolTypeOK, CommandInv, Leads
  <1>6. WorkerInv'
    BY <1>0, <1>1 DEF WorkerInv, Busy, Waiting
  <1>7. CountInv'
    BY <1>0, <1>2, ThreadKinds DEF PoolTypeOK, CountInv, Owes, Busy, Preparing, Open, Running, Waiting
  <1>8. BitInv'
    BY <1>0, ThreadKinds DEF PoolTypeOK, BitInv, Preparing, Running, Waiting
  <1>9. CommandEventInv'
    BY <1>0, ThreadKinds DEF PoolTypeOK, CommandEventInv
  <1>10. CompletionEventInv'
    BY <1>0, ThreadKinds DEF PoolTypeOK, CompletionEventInv, Notifies, Owes, Busy, Open, Running, Waiting
  <1>11. OperationInv'
    BY <1>0, ThreadKinds DEF PoolTypeOK, OperationInv, Leads, Storing
  <1> QED BY <1>3, <1>4, <1>5, <1>6, <1>7, <1>8, <1>9, <1>10, <1>11 DEF IInv

-----------------------------------------------------------------------------
(* The invariant holds initially ... *)
LEMMA InitEstablishesInv ==
  ASSUME Init
  PROVE  IInv
  <1> USE DEF Init
  <1>0. PICK creator \in Callers :
          pc = [t \in Threads |-> IF t \in Workers THEN "unborn"
                                  ELSE IF t = creator THEN "spawn" ELSE "idle"]
    OBVIOUS
  <1>1. /\ \A w \in Workers : pc[w] = "unborn" /\ last_command[w] = command
        /\ \A c \in Callers : pc[c] = IF c = creator THEN "spawn" ELSE "idle"
        /\ pool = "creating" /\ command = InitCommand
    BY <1>0, ThreadKinds
  <1>2. PoolTypeOK
    <2>1. command \in Command
      BY <1>1 DEF Command, InitCommand, Bit
    <2>2. pc \in [Threads -> CallerLabel \cup WorkerLabel]
      BY <1>0 DEF CallerLabel, WorkerLabel
    <2>3. /\ completion_event \in [Bit -> BOOLEAN] /\ command_event \in [Bit -> BOOLEAN]
          /\ event_index \in [Callers -> Bit] /\ last_command \in [Workers -> Command]
          /\ local_flags \in [Threads -> SUBSET Flag] /\ ran \in [Workers -> Nat]
      BY <2>1 DEF Bit
    <2>4. /\ \A c \in Callers : pc[c] \in CallerLabel
          /\ \A w \in Workers : pc[w] \in WorkerLabel
      BY <1>1 DEF CallerLabel, WorkerLabel
    <2>5. active_threads \in 0 .. Cardinality(Workers)
      BY CountWorkers
    <2> QED BY <1>1, <2>1, <2>2, <2>3, <2>4, <2>5 DEF PoolTypeOK
  <1>3. LeaderInv /\ CommandInv
    <2>1. \A c \in Callers : Leads(c) <=> c = creator
      BY <1>1 DEF Leads
    <2>2. LeaderInv
      BY <1>1, <2>1 DEF LeaderInv
    <2> QED BY <1>1, <2>2 DEF CommandInv, InitCommand
  <1>4. WorkerInv
    BY <1>1 DEF WorkerInv, InitCommand
  <1>5. Owers = Workers /\ (\A w \in Workers : Owes(w)) /\ Open(creator)
        /\ (\A c \in Callers : ~Preparing(c)) /\ \A w \in Workers : ~Notifies(w)
    BY <1>1 DEF Owers, Owes, Busy, Open, Preparing, Notifies
  <1>6. CountInv
    BY <1>5 DEF CountInv
  <1>7. ~completion_event[0] /\ ~completion_event[1] /\ ~command_event[0] /\ ~command_event[1]
    BY DEF Bit
  <1>8. BitInv /\ CommandEventInv
    BY <1>1, <1>5, <1>7 DEF BitInv, CommandEventInv, InitCommand
  <1>9. CompletionEventInv
    BY <1>1, <1>5, <1>7, WorkersAssumption DEF CompletionEventInv, InitCommand
  <1>10. OperationInv
    BY <1>1 DEF OperationInv
  <1> QED BY <1>2, <1>3, <1>4, <1>6, <1>8, <1>9, <1>10 DEF IInv

(* ... a step that changes nothing keeps it ... *)
LEMMA StutteringKeepsInv ==
  ASSUME IInv, UNCHANGED vars
  PROVE  IInv'
  <1> USE DEF vars, events, operation, locals
  <1>1. PoolTypeOK' /\ CommandEventInv'
    BY DEF IInv, PoolTypeOK, CommandEventInv
  <1>2. LeaderInv' /\ CommandInv' /\ OperationInv'
    BY DEF IInv, LeaderInv, CommandInv, OperationInv, Leads
  <1>3. WorkerInv'
    BY DEF IInv, WorkerInv, Busy
  <1>4. Owers' = Owers
    BY DEF Owers, Owes, Busy
  <1>5. CountInv' /\ BitInv'
    BY <1>4 DEF IInv, CountInv, BitInv, Owes, Busy, Preparing, Open
  <1>6. CompletionEventInv'
    BY DEF IInv, CompletionEventInv, Notifies, Owes, Busy, Open
  <1> QED BY <1>1, <1>2, <1>3, <1>5, <1>6 DEF IInv

(* ... and so does every step of a thread or of the user. *)
LEMMA NextKeepsInv ==
  ASSUME IInv, Next
  PROVE  IInv'
  <1>1. CASE \E w \in Workers : WorkerStep(w)
    <2>1. PICK w \in Workers : WorkerStep(w)
      BY <1>1
    <2> QED BY <2>1, CheckinKeepsInv, SetCompletionEventKeepsInv, SeeCommandKeepsInv,
               WaitForCommandKeepsInv, DispatchKeepsInv, WorkerEnterKeepsInv, WorkerLeaveKeepsInv
            DEF WorkerStep
  <1>2. CASE \E c \in Callers : CallerStep(c)
    <2>1. PICK c \in Callers : CallerStep(c)
      BY <1>2
    <2> QED BY <2>1, SpawnKeepsInv, WaitKeepsInv, LockKeepsInv, StoreOperationKeepsInv,
               StoreActiveKeepsInv, ResetCommandEventKeepsInv, StoreCommandKeepsInv,
               SetCommandEventKeepsInv, LeaveKeepsInv, WaitEndsKeepsInv,
               ResetCompletionEventKeepsInv, UnlockKeepsInv, JoinKeepsInv
            DEF CallerStep
  <1>3. CASE Environment
    BY <1>3, ParallelizeKeepsInv, DestroyKeepsInv DEF Environment
  <1> QED BY <1>1, <1>2, <1>3 DEF Next

(* The invariant holds in every state the handshake can reach. *)
THEOREM InductiveInvariant == Spec => []IInv
  <1>1. IInv /\ [Next]_vars => IInv'
    BY NextKeepsInv, StutteringKeepsInv
  <1> QED BY <1>1, InitEstablishesInv, PTL DEF Spec

-----------------------------------------------------------------------------
(* The theorems about the events. *)

(* A caller that waits has commanded the workers or created them, and the *)
(* counter tells whether any of them is still to come.                    *)
LEMMA WaitersCount ==
  ASSUME IInv, NEW c \in Callers, pc[c] \in Waiting
  PROVE  /\ pool \in {"creating", "ready"} /\ command.op # "shutdown"
         /\ CompletionIndex(c) = command.bit
         /\ Open(c)
         /\ active_threads = 0 <=> \A w \in Workers : ~Owes(w)
  <1>0. PoolTypeOK /\ LeaderInv /\ CommandInv /\ CountInv
    BY DEF IInv
  <1>1. pool \in {"creating", "ready"} /\ CompletionIndex(c) = command.bit
    BY CallersWaitForThePresent
  <1>2. command.op # "shutdown"
    BY <1>0, <1>1 DEF CommandInv
  <1>3. Open(c) /\ \A d \in Callers : ~Preparing(d)
    BY <1>0 DEF LeaderInv, Open, Running, Waiting, Preparing, Leads
  <1>4. active_threads = Cardinality(Owers)
    BY <1>0, <1>2, <1>3 DEF CountInv
  <1>5. active_threads = 0 <=> Owers = {}
    BY <1>4, CountWorkers, FS_EmptySet
  <1> QED BY <1>1, <1>2, <1>3, <1>5 DEF Owers

(* The events of the present operation end the waits, and no others. *)
LEMMA InvWaitsEndForAReason ==
  ASSUME IInv
  PROVE  WaitsEndForAReason
  <1>0. CommandEventInv /\ CompletionEventInv
    BY DEF IInv
  <1>1. ASSUME NEW c \in Callers, pc[c] = "awake"
        PROVE  active_threads = 0
    <2>1. pc[c] \in Waiting
      BY <1>1 DEF Waiting
    <2>2. \A w \in Workers : ~Owes(w)
      BY <1>0, <1>1, <2>1, WaitersCount DEF CompletionEventInv
    <2> QED BY <2>1, <2>2, WaitersCount
  <1>2. \A w \in Workers : pc[w] = "awake" => command # last_command[w]
    BY <1>0 DEF CommandEventInv
  <1> QED BY <1>1, <1>2 DEF WaitsEndForAReason

(* The assertions after the waits of windows.c never fail. *)
THEOREM WaitsEndRightly == Spec => []WaitsEndForAReason
  BY InvWaitsEndForAReason, InductiveInvariant, PTL

(* Whoever sleeps in vain is about to be woken. *)
LEMMA InvNoLostWakeup ==
  ASSUME IInv
  PROVE  NoLostWakeup
  <1>0. PoolTypeOK /\ LeaderInv /\ CommandInv /\ BitInv /\ CommandEventInv /\ CompletionEventInv
    BY DEF IInv
  <1>1. ASSUME NEW w \in Workers, pc[w] = "asleep", command # last_command[w]
        PROVE  \E c \in Callers : pc[c] = "set_command" /\ event_index[c] = last_command[w].bit
    <2>1. PICK c \in Callers : pc[c] = "set_command"
      BY <1>0, <1>1 DEF CommandEventInv
    <2>2. pool \in {"ready", "stopping"}
      BY <1>0, <2>1 DEF PoolTypeOK, LeaderInv, Waiting
    <2>3. CASE pool = "ready"
      BY <1>0, <1>1, <2>1, <2>3 DEF CommandInv, BitInv, Running
    <2>4. CASE pool = "stopping"
      BY <1>0, <1>1, <2>1, <2>4 DEF BitInv
    <2> QED BY <2>1, <2>2, <2>3, <2>4
  <1>2. ASSUME NEW c \in Callers, pc[c] = "asleep", active_threads = 0
        PROVE  \E w \in Workers :
                 pc[w] = "set_completion" /\ last_command[w].bit = CompletionIndex(c)
    <2>1. pc[c] \in Waiting
      BY <1>2 DEF Waiting
    <2>2. PICK w \in Workers : Notifies(w)
      BY <1>0, <1>2, <2>1, WaitersCount DEF CompletionEventInv
    <2> QED BY <2>1, <2>2, WaitersCount DEF Notifies
  <1> QED BY <1>1, <1>2 DEF NoLostWakeup

(* A thread sleeps on for nothing at most until the SetEvent, on its own *)
(* event of the pair, that somebody has before him.                      *)
THEOREM WakeupsAreNotLost == Spec => []NoLostWakeup
  BY InvNoLostWakeup, InductiveInvariant, PTL

(* Between two operations the events of the next one are as it needs them. *)
LEMMA InvEventsOfTheNextOperation ==
  ASSUME IInv
  PROVE  EventsOfTheNextOperation
  <1>0. /\ PoolTypeOK /\ LeaderInv /\ CommandInv /\ CountInv
        /\ CommandEventInv /\ CompletionEventInv
    BY DEF IInv
  <1> SUFFICES ASSUME Phase = "ready", \A c \in Callers : pc[c] # "reset_completion"
               PROVE  /\ ~command_event[command.bit]
                      /\ ~completion_event[1 - command.bit]
                      /\ \A w \in Workers :
                           pc[w] = "set_completion" => last_command[w].bit = command.bit
    BY DEF EventsOfTheNextOperation
  <1>1. pool \in {"ready", "stopping"} /\ \A c \in Callers : ~Published(c)
    BY <1>0 DEF Phase, PoolTypeOK
  <1>2. command.op # "shutdown"
    BY <1>0, <1>1 DEF LeaderInv, CommandInv, Published
  <1>3. \A c \in Callers : pc[c] \notin Running \cup {"reset_completion"}
    BY <1>1 DEF Published, Running, Waiting
  <1>4. \A c \in Callers : ~Open(c)
    BY <1>0, <1>1, <1>3 DEF LeaderInv, Open, Storing, Ending
  <1>5. \A w \in Workers : command = last_command[w]
    BY <1>0, <1>2, <1>4 DEF CountInv, Owes
  <1> QED BY <1>0, <1>2, <1>3, <1>5 DEF CommandEventInv, CompletionEventInv

(* No event is still set from an earlier operation, or set by a worker that *)
(* was late, when the next one begins.                                      *)
THEOREM EventsAreReset == Spec => []EventsOfTheNextOperation
  BY InvEventsOfTheNextOperation, InductiveInvariant, PTL

-----------------------------------------------------------------------------
(* The handshake implements a fork and join. *)

(* A step that ForkJoin does not see. *)
LEMMA InvisibleStep ==
  ASSUME pool' = pool,
         \/ pool = "creating"
         \/ \A c \in Callers : Published(c)' <=> Published(c),
         \A w \in Workers :
           /\ Phase = "creating" => (Busy(w)' <=> Busy(w))
           /\ Phase = "open" => (ran'[w] = 0 <=> ran[w] = 0)
           /\ Phase = "stopping" => (pc'[w] = "exited" <=> pc[w] = "exited")
           /\ pc'[w] = "run" <=> pc[w] = "run"
  PROVE  UNCHANGED <<Phase, ToDo, Inside>>
  <1>1. Phase' = Phase
    BY DEF Phase
  <1>2. ToDo' = ToDo
    BY <1>1 DEF ToDo
  <1>3. Inside' = Inside
    BY DEF Inside
  <1> QED BY <1>1, <1>2, <1>3

(* Most steps of the callers are of this kind, ... *)
LEMMA InvisibleCallerSteps ==
  ASSUME IInv, NEW c \in Callers,
         \/ \E w \in Workers : Spawn(c, w)
         \/ AllSpawned(c) \/ Lock(c) \/ StoreOperation(c) \/ StoreActive(c)
         \/ ResetCommandEvent(c) \/ SetCommandEvent(c) \/ Leave(c) \/ KeepWaiting(c)
         \/ WaitForCompletion(c) \/ ResetCompletionEvent(c) \/ Unlock(c)
         \/ \E requested \in SUBSET Flag : Parallelize(c, requested)
  PROVE  UNCHANGED <<Phase, ToDo, Inside>>
  <1>1. PoolTypeOK /\ LeaderInv /\ CommandInv /\ WorkerInv
    BY DEF IInv
  <1>2. pool' = pool
    BY DEF Spawn, AllSpawned, Lock, StoreOperation, StoreActive, ResetCommandEvent,
           SetCommandEvent, Leave, KeepWaiting, WaitForCompletion, ResetCompletionEvent, Unlock,
           Parallelize
  <1>3. ASSUME NEW w \in Workers, Spawn(c, w)
        PROVE  UNCHANGED <<Phase, ToDo, Inside>>
    <2>1. pool = "creating" /\ Phase = "creating"
      BY <1>1, <1>3 DEF Spawn, PoolTypeOK, WorkerInv, Phase
    <2>2. pc' = [pc EXCEPT ![w] = "checkin"] /\ pc[w] = "unborn"
      BY <1>3 DEF Spawn, Goto
    <2> QED BY <1>1, <1>2, <2>1, <2>2, InvisibleStep, ThreadKinds DEF PoolTypeOK, Busy
  <1>4. CASE Lock(c)
    <2>1. pool = "ready" /\ pc[c] = "lock" /\ ~Leads(c)
      BY <1>1, <1>4 DEF Lock, PoolTypeOK, LeaderInv, Leads
    <2>2. \A d \in Callers : ~Leads(d)
      BY <1>1, <1>4, <2>1, ThreadKinds DEF Lock, LeaderInv
    <2>3. pc' = [pc EXCEPT ![c] = "store_operation"]
      BY <1>4 DEF Lock, Goto
    <2>4. /\ \A d \in Callers : ~Published(d) /\ ~Published(d)'
          /\ \A w \in Workers : pc'[w] = pc[w]
      BY <1>1, <2>1, <2>2, <2>3, ThreadKinds DEF PoolTypeOK, Published, Leads
    <2>5. Phase = "ready"
      BY <2>1, <2>4 DEF Phase
    <2> QED BY <1>2, <2>1, <2>4, <2>5, InvisibleStep
  <1>5. CASE SetCommandEvent(c)
    <2>1. /\ \A d \in Callers : pc'[d] = IF d # c THEN pc[d] ELSE IF pool = "ready" THEN "run" ELSE "join"
          /\ \A w \in Workers : pc'[w] = pc[w] \/ (pc[w] = "asleep" /\ pc'[w] = "awake")
          /\ pc[c] = "set_command" /\ ran' = ran
      BY <1>1, <1>5, ThreadKinds DEF SetCommandEvent, WakeAll, PoolTypeOK, locals
    <2>2. \A d \in Callers : Published(d)' <=> Published(d)
      BY <2>1 DEF Published
    <2> QED BY <1>2, <2>1, <2>2, InvisibleStep DEF Busy
  <1>6. CASE AllSpawned(c)
    <2>1. pool = "creating"
      BY <1>1, <1>6 DEF PoolTypeOK, LeaderInv, Storing, Running, Waiting, Ending, AllSpawned
    <2>2. ran' = ran /\ \A w \in Workers : pc'[w] = pc[w]
      BY <1>1, <1>6, ThreadKinds DEF PoolTypeOK, AllSpawned, Goto, locals
    <2> QED BY <1>2, <2>1, <2>2, InvisibleStep DEF Busy
  <1>7. ASSUME \/ KeepWaiting(c) \/ WaitForCompletion(c)
               \/ \E requested \in SUBSET Flag : Parallelize(c, requested)
               \/ StoreOperation(c) \/ StoreActive(c) \/ ResetCommandEvent(c)
               \/ Leave(c) \/ ResetCompletionEvent(c) \/ Unlock(c)
        PROVE  UNCHANGED <<Phase, ToDo, Inside>>
    <2>1. PICK label \in CallerLabel :
            /\ pc' = [pc EXCEPT ![c] = label]
            /\ ran' = ran
            /\ label \in {"set_command", "run", "wait", "spin", "event", "asleep", "awake", "join"}
               <=> Published(c)
      BY <1>7 DEF KeepWaiting, WaitForCompletion, Parallelize, StoreOperation, StoreActive,
           ResetCommandEvent, Leave, ResetCompletionEvent, Unlock, Goto, locals, CallerLabel,
           Published
    <2>2. \A d \in Callers : Published(d)' <=> Published(d)
      BY <2>1, <1>1, ThreadKinds DEF PoolTypeOK, Published
    <2>3. \A w \in Workers : pc'[w] = pc[w]
      BY <2>1, <1>1, ThreadKinds DEF PoolTypeOK
    <2> QED BY <1>2, <2>1, <2>2, <2>3, InvisibleStep DEF Busy
  <1> QED BY <1>3, <1>4, <1>5, <1>6, <1>7

(* ... and most of the workers. *)
LEMMA InvisibleWorkerSteps ==
  ASSUME IInv, NEW w \in Workers,
         SetCompletionEvent(w) \/ SeeCommand(w) \/ SeeNothing(w) \/ WaitForCommand(w)
  PROVE  UNCHANGED <<Phase, ToDo, Inside>>
  <1>1. PoolTypeOK /\ LeaderInv /\ CommandInv /\ WorkerInv /\ CommandEventInv
    BY DEF IInv
  <1>2. pool' = pool /\ ran' = ran
    BY DEF SetCompletionEvent, SeeCommand, SeeNothing, WaitForCommand, locals
  <1>3. CASE SetCompletionEvent(w)
    <2>1. \A c \in Callers : pc'[c] = pc[c] \/ (pc[c] = "asleep" /\ pc'[c] = "awake")
      BY <1>1, <1>3, ThreadKinds DEF PoolTypeOK, SetCompletionEvent, WakeAll
    <2>2. \A c \in Callers : Published(c)' <=> Published(c)
      BY <2>1 DEF Published
    <2>3. pc[w] = "set_completion"
          /\ \A v \in Workers : pc'[v] = IF v = w THEN "wait" ELSE pc[v]
      BY <1>1, <1>3, ThreadKinds DEF PoolTypeOK, SetCompletionEvent, WakeAll
    <2> QED BY <1>2, <2>2, <2>3, InvisibleStep DEF Busy
  <1>4. CASE SeeCommand(w)
    <2>1. pc[w] \in Waiting /\ command # last_command[w]
      BY <1>1, <1>4 DEF SeeCommand, Waiting, CommandEventInv
    <2>2. Phase # "creating"
      BY <1>1, <2>1 DEF Phase, CommandInv, InitCommand
    <2>3. \A c \in Callers : pc'[c] = pc[c]
      BY <1>1, <1>4, ThreadKinds DEF PoolTypeOK, SeeCommand, Goto
    <2>4. \A v \in Workers : pc'[v] = IF v = w THEN "dispatch" ELSE pc[v]
      BY <1>1, <1>4, ThreadKinds DEF PoolTypeOK, SeeCommand, Goto
    <2> QED BY <1>2, <2>1, <2>2, <2>3, <2>4, InvisibleStep DEF Published, Waiting
  <1>5. CASE SeeNothing(w) \/ WaitForCommand(w)
    <2>1. \A c \in Callers : pc'[c] = pc[c]
      BY <1>1, <1>5, ThreadKinds DEF PoolTypeOK, SeeNothing, WaitForCommand, Goto
    <2>2. PICK label \in {"spin", "event", "asleep", "awake"} :
            \A v \in Workers : pc'[v] = IF v = w THEN label ELSE pc[v]
      BY <1>1, <1>5, ThreadKinds DEF PoolTypeOK, SeeNothing, WaitForCommand, Goto
    <2>3. pc[w] \in Waiting
      BY <1>5 DEF SeeNothing, WaitForCommand, Waiting
    <2> QED BY <1>2, <2>1, <2>2, <2>3, InvisibleStep DEF Published, Waiting, Busy
  <1> QED BY <1>3, <1>4, <1>5

(* The start of an operation and of the end of the pool. *)
LEMMA StoreCommandOpens ==
  ASSUME IInv, NEW c \in Callers, StoreCommand(c)
  PROVE  Handshake!Open \/ Handshake!Stop
  <1>1. PoolTypeOK /\ LeaderInv /\ CountInv /\ WorkerInv /\ CommandInv /\ OperationInv
    BY DEF IInv
  <1>2. /\ pool' = pool /\ ran' = ran
        /\ pc[c] = "store_command"
        /\ pc' = [pc EXCEPT ![c] = "set_command"]
    BY DEF StoreCommand, Goto, locals
  <1>3. Leads(c) /\ pool \in {"ready", "stopping"}
    BY <1>1, <1>2 DEF PoolTypeOK, LeaderInv, Leads, Storing, Running, Waiting
  <1>4. \A d \in Callers : ~Published(d)
    BY <1>1, <1>2, <1>3 DEF LeaderInv, Leads, Published
  <1>5. pc'[c] = "set_command" /\ \A w \in Workers : pc'[w] = pc[w]
    BY <1>1, <1>2, ThreadKinds DEF PoolTypeOK
  <1>6. Phase = "ready" /\ Phase' = IF pool = "ready" THEN "open" ELSE "stopping"
    BY <1>2, <1>3, <1>4, <1>5 DEF Phase, Published
  <1>7. pool = "ready" => \A w \in Workers : ran[w] = 0
    BY <1>1, <1>2, <1>3 DEF OperationInv, Storing
  <1>8. \A w \in Workers : pc[w] # "exited"
    BY <1>1, <1>2, <1>3 DEF WorkerInv, CommandInv
  <1>9. ToDo' = Workers
    BY <1>2, <1>3, <1>5, <1>6, <1>7, <1>8 DEF ToDo
  <1>10. Inside' = Inside
    BY <1>5 DEF Inside
  <1> QED BY <1>3, <1>6, <1>9, <1>10 DEF Handshake!Open, Handshake!Stop

(* When the wait for the workers is over, they are at rest. *)
LEMMA WaitIsOver ==
  ASSUME IInv, NEW c \in Callers, AllCheckedIn(c) \/ CompletionSignalled(c)
  PROVE  pc[c] \in Waiting /\ \A w \in Workers : ~Owes(w)
  <1>1. pc[c] \in Waiting
    BY DEF AllCheckedIn, CompletionSignalled, Waiting
  <1>2. active_threads = 0
    BY InvWaitsEndForAReason DEF AllCheckedIn, CompletionSignalled, WaitsEndForAReason
  <1> QED BY <1>1, <1>2, WaitersCount

(* The end of pthreadpool_create and of an operation. *)
LEMMA WaitIsOverCloses ==
  ASSUME IInv, NEW c \in Callers, AllCheckedIn(c) \/ CompletionSignalled(c)
  PROVE  Handshake!Created \/ Handshake!Close
  <1>1. PoolTypeOK /\ LeaderInv /\ OperationInv
    BY DEF IInv
  <1>2. pc[c] \in Waiting /\ pool \in {"creating", "ready"} /\ \A w \in Workers : ~Owes(w)
    BY WaitIsOver, WaitersCount
  <1>3. /\ pool' = "ready" /\ ran' = ran
        /\ pc' = [pc EXCEPT ![c] = IF pool = "creating" THEN "idle" ELSE "reset_completion"]
    BY <1>2 DEF AllCheckedIn, CompletionSignalled, Returns, Goto, locals
  <1>4. Leads(c) /\ Published(c)
    BY <1>2 DEF Leads, Published, Waiting
  <1>5. Phase = IF pool = "creating" THEN "creating" ELSE "open"
    BY <1>2, <1>4 DEF Phase
  <1>6. \A d \in Callers : ~Published(d)'
    BY <1>1, <1>3, <1>4, ThreadKinds DEF PoolTypeOK, LeaderInv, Leads, Published
  <1>7. Phase' = "ready"
    BY <1>3, <1>6 DEF Phase
  <1>8. \A w \in Workers : pc'[w] = pc[w] /\ pc[w] # "run" /\ ~Busy(w)
    BY <1>1, <1>2, <1>3, ThreadKinds DEF PoolTypeOK, Owes, Busy
  <1>9. Inside = {} /\ Inside' = {}
    BY <1>8 DEF Inside
  <1>10. pool = "ready" => \A w \in Workers : ran[w] = 1
    <2>1. pc[c] \notin Storing
      BY <1>2 DEF Storing, Waiting
    <2> QED BY <1>1, <1>2, <1>4, <1>8, <2>1 DEF OperationInv, Owes, Busy
  <1>11. ToDo = {} /\ ToDo' = {}
    BY <1>2, <1>5, <1>7, <1>8, <1>10 DEF ToDo
  <1> QED BY <1>2, <1>5, <1>7, <1>9, <1>11 DEF Handshake!Created, Handshake!Close

(* pthreadpool_destroy begins unseen. *)
LEMMA DestroyIsInvisible ==
  ASSUME IInv, NEW c \in Callers, Destroy(c)
  PROVE  UNCHANGED <<Phase, ToDo, Inside>>
  <1>1. PoolTypeOK
    BY DEF IInv
  <1>2. /\ pool = "ready" /\ pool' = "stopping"
        /\ pc' = [pc EXCEPT ![c] = "store_active"]
        /\ \A d \in Callers : pc[d] = "idle"
    BY DEF Destroy, Goto
  <1>3. \A d \in Callers : ~Published(d) /\ ~Published(d)'
    BY <1>1, <1>2, ThreadKinds DEF PoolTypeOK, Published
  <1>4. Phase = "ready" /\ Phase' = "ready"
    BY <1>2, <1>3 DEF Phase
  <1>5. \A w \in Workers : pc'[w] = pc[w]
    BY <1>1, <1>2, ThreadKinds DEF PoolTypeOK
  <1> QED BY <1>4, <1>5 DEF ToDo, Inside

(* The pool is released when all workers have gone. *)
LEMMA JoinReleases ==
  ASSUME IInv, NEW c \in Callers, Join(c)
  PROVE  Handshake!Release
  <1>1. PoolTypeOK /\ LeaderInv
    BY DEF IInv
  <1>2. /\ pc[c] = "join" /\ pool' = "released"
        /\ pc' = [pc EXCEPT ![c] = "idle"]
        /\ \A w \in Workers : pc[w] = "exited"
    BY DEF Join, Goto
  <1>3. pool = "stopping"
    BY <1>1, <1>2 DEF PoolTypeOK, LeaderInv, Storing, Running, Waiting, Ending
  <1>4. Phase = "stopping" /\ Phase' = "released"
    BY <1>2, <1>3 DEF Phase, Published
  <1>5. \A w \in Workers : pc'[w] = pc[w]
    BY <1>1, <1>2, ThreadKinds DEF PoolTypeOK
  <1>6. ToDo = {} /\ ToDo' = {} /\ Inside' = Inside
    BY <1>2, <1>4, <1>5 DEF ToDo, Inside
  <1> QED BY <1>4, <1>6 DEF Handshake!Release

(* A worker's first check-in is its answer to pthreadpool_create; those *)
(* after it are not seen.                                               *)
LEMMA CheckinAnswers ==
  ASSUME IInv, NEW w \in Workers, Checkin(w)
  PROVE  Handshake!Start(w) \/ UNCHANGED <<Phase, ToDo, Inside>>
  <1>1. PoolTypeOK
    BY DEF IInv
  <1>2. PICK label \in {"set_completion", "wait"} : pc' = [pc EXCEPT ![w] = label]
    BY DEF Checkin, Goto
  <1>3. pc[w] = "checkin" /\ pool' = pool /\ ran' = ran
    BY DEF Checkin, locals
  <1>4. /\ \A c \in Callers : pc'[c] = pc[c]
        /\ \A v \in Workers : pc'[v] = IF v = w THEN label ELSE pc[v]
    BY <1>1, <1>2, ThreadKinds DEF PoolTypeOK
  <1>5. CASE pool = "creating"
    <2>1. Phase = "creating" /\ Phase' = "creating"
      BY <1>3, <1>5 DEF Phase
    <2>2. ToDo' = ToDo \ {w} /\ w \in ToDo /\ Inside' = Inside
      BY <1>3, <1>4, <2>1 DEF ToDo, Inside, Busy
    <2> QED BY <2>1, <2>2 DEF Handshake!Start
  <1>6. CASE pool # "creating"
    <2>1. Phase # "creating"
      BY <1>6 DEF Phase
    <2> QED BY <1>3, <1>4, <2>1, InvisibleStep DEF Published
  <1> QED BY <1>5, <1>6

(* A worker that obeys the shutdown command exits; to dispatch an operation *)
(* is not seen.                                                             *)
LEMMA DispatchAnswers ==
  ASSUME IInv, NEW w \in Workers, Dispatch(w)
  PROVE  Handshake!Exit(w) \/ UNCHANGED <<Phase, ToDo, Inside>>
  <1>1. PoolTypeOK /\ LeaderInv /\ WorkerInv /\ CommandInv
    BY DEF IInv
  <1>2. pc[w] = "dispatch" /\ pool' = pool /\ ran' = ran
    BY DEF Dispatch
  <1>3. last_command[w] = command /\ command.op \in {"parallelize", "shutdown"}
    BY <1>1, <1>2 DEF PoolTypeOK, Command, WorkerInv, Busy
  <1>4. pc' = [pc EXCEPT ![w] = IF command.op = "shutdown" THEN "exited" ELSE "enter"]
    BY <1>3 DEF Dispatch, Goto
  <1>5. /\ \A c \in Callers : pc'[c] = pc[c]
        /\ \A v \in Workers :
             pc'[v] = IF v # w THEN pc[v]
                      ELSE IF command.op = "shutdown" THEN "exited" ELSE "enter"
    BY <1>1, <1>4, ThreadKinds DEF PoolTypeOK
  <1>6. CASE command.op = "shutdown"
    <2>1. pool = "stopping"
      BY <1>1, <1>2, <1>6 DEF PoolTypeOK, CommandInv, WorkerInv
    <2>2. \E c \in Callers : Published(c)
      BY <1>1, <1>6, <2>1 DEF LeaderInv, CommandInv, Published
    <2>3. Phase = "stopping" /\ Phase' = "stopping"
      BY <1>2, <1>5, <2>1, <2>2 DEF Phase, Published
    <2>4. ToDo' = ToDo \ {w} /\ w \in ToDo /\ Inside' = Inside
      BY <1>2, <1>5, <1>6, <2>3 DEF ToDo, Inside
    <2> QED BY <2>3, <2>4 DEF Handshake!Exit
  <1>7. CASE command.op # "shutdown"
    <2>1. \A v \in Workers : Busy(v)' <=> Busy(v)
      BY <1>2, <1>5, <1>7 DEF Busy
    <2> QED BY <1>2, <1>5, <1>7, <2>1, InvisibleStep DEF Published
  <1> QED BY <1>6, <1>7

(* A worker in the thread function has a caller that waits for it, or will. *)
LEMMA WorkerHasCaller ==
  ASSUME IInv, NEW w \in Workers, pc[w] \in {"enter", "run"}
  PROVE  pool = "ready" /\ \E c \in Callers : Leads(c) /\ pc[c] \in Running
  <1>1. PoolTypeOK /\ LeaderInv /\ CountInv /\ CommandInv /\ WorkerInv
    BY DEF IInv
  <1>2. Owes(w) /\ command.op = "parallelize"
    BY <1>1 DEF Owes, Busy, WorkerInv
  <1>3. PICK c \in Callers : Open(c)
    BY <1>1, <1>2 DEF CountInv
  <1>4. Leads(c)
    BY <1>3 DEF Leads, Open, Running, Waiting
  <1>5. pool = "ready"
    BY <1>1, <1>2, <1>3, <1>4
       DEF PoolTypeOK, LeaderInv, CommandInv, InitCommand, Open, Running, Waiting
  <1>6. pc[c] \in Running
    BY <1>1, <1>3, <1>5 DEF LeaderInv, Open, Storing, Ending
  <1> QED BY <1>4, <1>5, <1>6

(* A worker takes part in the operation when it calls the thread function ... *)
LEMMA WorkerEnterAnswers ==
  ASSUME IInv, NEW w \in Workers, WorkerEnter(w)
  PROVE  Handshake!Begin(w)
  <1>1. PoolTypeOK /\ OperationInv
    BY DEF IInv
  <1>2. /\ pc[w] = "enter" /\ pool' = pool
        /\ ran' = [ran EXCEPT ![w] = @ + 1]
        /\ pc' = [pc EXCEPT ![w] = "run"]
    BY DEF WorkerEnter, Goto
  <1>3. PICK c \in Callers : pool = "ready" /\ Leads(c) /\ pc[c] \in Running
    BY <1>2, WorkerHasCaller
  <1>4. ran[w] = 0
    BY <1>1, <1>2, <1>3 DEF OperationInv
  <1>5. /\ \A d \in Callers : pc'[d] = pc[d]
        /\ \A v \in Workers : pc'[v] = IF v = w THEN "run" ELSE pc[v]
        /\ \A v \in Workers : ran'[v] = IF v = w THEN 1 ELSE ran[v]
    BY <1>1, <1>2, <1>4, ThreadKinds DEF PoolTypeOK
  <1>6. Phase = "open" /\ Phase' = "open"
    BY <1>2, <1>3, <1>5 DEF Phase, Published, Running, Waiting
  <1>7. w \in ToDo /\ ToDo' = ToDo \ {w}
    BY <1>4, <1>5, <1>6 DEF ToDo
  <1>8. Inside' = Inside \cup {w}
    BY <1>5 DEF Inside
  <1> QED BY <1>6, <1>7, <1>8 DEF Handshake!Begin

(* ... and has left it when it returns. *)
LEMMA WorkerLeaveAnswers ==
  ASSUME IInv, NEW w \in Workers, WorkerLeave(w)
  PROVE  Handshake!Finish(w)
  <1>1. PoolTypeOK
    BY DEF IInv
  <1>2. /\ pc[w] = "run" /\ pool' = pool /\ ran' = ran
        /\ pc' = [pc EXCEPT ![w] = "checkin"]
    BY DEF WorkerLeave, Goto, locals
  <1>3. /\ \A c \in Callers : pc'[c] = pc[c]
        /\ \A v \in Workers : pc'[v] = IF v = w THEN "checkin" ELSE pc[v]
    BY <1>1, <1>2, ThreadKinds DEF PoolTypeOK
  <1>4. Phase' = Phase
    BY <1>2, <1>3 DEF Phase, Published
  <1>5. ToDo' = ToDo
    BY <1>2, <1>3, <1>4 DEF ToDo, Busy
  <1>6. w \in Inside /\ Inside' = Inside \ {w}
    BY <1>2, <1>3 DEF Inside
  <1> QED BY <1>4, <1>5, <1>6 DEF Handshake!Finish

(* Every step is one of ForkJoin or invisible to it. *)
LEMMA StepSimulation ==
  ASSUME IInv, [Next]_vars
  PROVE  [Handshake!Next]_(Handshake!vars)
  <1> USE DEF Handshake!vars
  <1>1. CASE UNCHANGED vars
    BY <1>1 DEF vars, locals, Phase, Published, ToDo, Inside, Busy
  <1>2. CASE \E w \in Workers : WorkerStep(w)
    <2>1. PICK w \in Workers : WorkerStep(w)
      BY <1>2
    <2>2. Handshake!Answer(w) \/ UNCHANGED <<Phase, ToDo, Inside>>
      BY <2>1, CheckinAnswers, DispatchAnswers, WorkerEnterAnswers, WorkerLeaveAnswers,
         InvisibleWorkerSteps DEF WorkerStep, Handshake!Answer
    <2> QED BY <2>2 DEF Handshake!Next
  <1>3. CASE \E c \in Callers : CallerStep(c)
    <2>1. PICK c \in Callers : CallerStep(c)
      BY <1>3
    <2>2. CASE StoreCommand(c) \/ AllCheckedIn(c) \/ CompletionSignalled(c) \/ Join(c)
      BY <2>2, StoreCommandOpens, WaitIsOverCloses, JoinReleases DEF Handshake!Next
    <2>3. CASE ~(StoreCommand(c) \/ AllCheckedIn(c) \/ CompletionSignalled(c) \/ Join(c))
      BY <2>1, <2>3, InvisibleCallerSteps DEF CallerStep
    <2> QED BY <2>2, <2>3
  <1>4. CASE Environment
    BY <1>4, InvisibleCallerSteps, DestroyIsInvisible DEF Environment
  <1> QED BY <1>1, <1>2, <1>3, <1>4 DEF Next

(* The handshake of windows.c implements the fork and join of module     *)
(* ForkJoin, as the one with futexes does: every worker takes part in    *)
(* every operation once, no operation ends before all workers have left  *)
(* it, and the pool is released after all of them have gone.             *)
THEOREM ImplementsForkJoin == Spec => Handshake!Spec
  <1>1. Init => Handshake!Init
    <2> SUFFICES ASSUME Init PROVE Handshake!Init
      OBVIOUS
    <2>1. Phase = "creating"
      BY DEF Init, Phase
    <2>2. \A w \in Workers : pc[w] = "unborn"
      BY ThreadKinds DEF Init
    <2>3. ToDo = Workers /\ Inside = {}
      BY <2>1, <2>2 DEF ToDo, Inside, Busy
    <2> QED BY <2>1, <2>3 DEF Handshake!Init
  <1>2. IInv /\ [Next]_vars => [Handshake!Next]_(Handshake!vars)
    BY StepSimulation
  <1> QED BY <1>1, <1>2, InductiveInvariant, PTL DEF Spec, Handshake!Spec

-----------------------------------------------------------------------------
(* The memory.  First the data and the locations. *)
LEMMA DataKinds ==
  /\ Data = Handed \cup Workers /\ Handed \cap Workers = {}
  /\ "operation" \in Handed /\ "count" \in Handed
  /\ {"command", "active_threads", "execution_mutex"} \subseteq Locations
  /\ \A i \in Bit : /\ CompletionEvent[i] \in Locations
                    /\ CompletionEvent[i] \notin {"command", "active_threads", "execution_mutex"}
                    /\ \A j \in Bit : CompletionEvent[i] = CompletionEvent[j] => i = j
  BY DataAssumption DEF Data, Handed, Locations, CompletionEvent, Bit

(* The operations on memory keep its types. *)
LEMMA MemoryOperationTypes ==
  ASSUME MemoryTypeOK, NEW t \in Threads,
         \/ UNCHANGED memory
         \/ \E D \in SUBSET Data : store_relaxed(t, D)
         \/ \E l \in Locations, d \in Data : store_relaxed_at(t, l, d)
         \/ \E l \in Locations : store_release(t, l) \/ load_acquire(t, l)
         \/ \E l \in Locations : decrement_fetch_acquire_release(t, l)
         \/ \E S \in SUBSET Threads : synchronize(t, S)
  PROVE  MemoryTypeOK'
  <1> USE DEF MemoryTypeOK
  <1>1. CASE UNCHANGED memory
    BY <1>1 DEF memory
  <1>2. ASSUME NEW D \in SUBSET Data, store_relaxed(t, D)
        PROVE  MemoryTypeOK'
    BY <1>2 DEF store_relaxed
  <1>3. ASSUME NEW l \in Locations, NEW d \in Data, store_relaxed_at(t, l, d)
        PROVE  MemoryTypeOK'
    BY <1>3 DEF store_relaxed_at
  <1>4. ASSUME NEW l \in Locations, store_release(t, l) \/ load_acquire(t, l)
        PROVE  MemoryTypeOK'
    BY <1>4 DEF store_release, load_acquire
  <1>5. ASSUME NEW l \in Locations, decrement_fetch_acquire_release(t, l)
        PROVE  MemoryTypeOK'
    BY <1>5 DEF decrement_fetch_acquire_release
  <1>6. ASSUME NEW S \in SUBSET Threads, synchronize(t, S)
        PROVE  MemoryTypeOK'
    <2>1. UNION {knows[s] : s \in S} \subseteq Data
      OBVIOUS
    <2> QED BY <1>6, <2>1 DEF synchronize
  <1> QED BY <1>1, <1>2, <1>3, <1>4, <1>5, <1>6

(* While a caller stores, or ends its operation, all workers have seen the *)
(* last command and are done with it.                                      *)
LEMMA ExclusiveMeansIdleWorkers ==
  ASSUME IInv, NEW c \in Callers, pc[c] \in Exclusive
  PROVE  /\ \A d \in Callers : Leads(d) <=> d = c
         /\ ~Awaited
         /\ \A w \in Workers : ~AtWork(w) /\ Started(w) /\ command = last_command[w]
  BY ExclusiveMeansRest DEF Exclusive, Awaited, Owes, Busy, AtWork, Started

(* A worker that owes its check-in is awaited, and until it has checked in *)
(* nobody stores and the event of the present operation is not set.        *)
LEMMA OwingMeansAwaited ==
  ASSUME IInv, NEW w \in Workers, Owes(w), command.op # "shutdown"
  PROVE  /\ Awaited /\ ~completion_event[command.bit]
         /\ \A c \in Callers : pc[c] \notin Exclusive
         /\ \A v \in Workers : ~Notifies(v)
  <1>0. PoolTypeOK /\ LeaderInv /\ CommandInv /\ CountInv /\ CompletionEventInv
    BY DEF IInv
  <1>1. \A c \in Callers : pc[c] \notin Exclusive
    BY ExclusiveMeansRest DEF Exclusive
  <1>2. PICK c \in Callers : Open(c)
    BY <1>0 DEF CountInv
  <1>3. Leads(c) /\ pool \notin {"stopping", "released"}
    BY <1>0, <1>2 DEF Open, Running, Waiting, Leads, LeaderInv, CommandInv
  <1> QED BY <1>0, <1>1, <1>2, <1>3 DEF Awaited, PoolTypeOK, CompletionEventInv

(* A step that leaves the memory alone and does not move a thread to where *)
(* it would have to know more.                                             *)
LEMMA QuietStep ==
  ASSUME MemInv, UNCHANGED <<memory, pool, command, last_command>>,
         Awaited' /\ completion_event'[command.bit] => completion_event[command.bit],
         \A c \in Callers :
           /\ Leads(c)' <=> Leads(c)
           /\ Open(c)' => Open(c)
           /\ pc'[c] \in Exclusive => pc[c] \in Exclusive
           /\ pool = "ready" /\ pc'[c] \in Running => pc[c] \in Running,
         \A w \in Workers :
           /\ pool \in {"creating", "ready"} /\ Owes(w) => Owes(w)'
           /\ Started(w)' => Started(w)
           /\ AtWork(w)' => AtWork(w)
           /\ pc'[w] = "set_completion" => pc[w] = "set_completion"
  PROVE  MemInv'
  <1>0. MemoryTypeOK /\ CallersKnow /\ CommandCarries /\ CounterCarries
    BY DEF MemInv
  <1>1. MemoryTypeOK'
    BY <1>0 DEF MemoryTypeOK, memory
  <1>2. CallersKnow'
    BY <1>0 DEF CallersKnow, memory
  <1>3. CommandCarries'
    BY <1>0 DEF CommandCarries, memory
  <1>4. CounterCarries'
    <2>1. Awaited' => Awaited /\ pool \in {"creating", "ready"}
      BY DEF Awaited
    <2>2. \A w \in Workers : Notifies(w)' => Notifies(w)
      BY DEF Notifies
    <2>3. knows' = knows /\ carries' = carries /\ command' = command
      BY DEF memory
    <2> QED BY <1>0, <2>1, <2>2, <2>3 DEF CounterCarries
  <1> QED BY <1>1, <1>2, <1>3, <1>4 DEF MemInv

(* The steps that do not touch the memory. *)
LEMMA QuietCallerSteps ==
  ASSUME IInv, MemInv, NEW c \in Callers,
         \/ \E requested \in SUBSET Flag : Parallelize(c, requested)
         \/ AllSpawned(c) \/ ResetCommandEvent(c) \/ SetCommandEvent(c) \/ Leave(c)
         \/ KeepWaiting(c) \/ WaitForCompletion(c) \/ ResetCompletionEvent(c)
  PROVE  MemInv'
  <1> USE DEF Goto, events, locals, Leads, Open, Exclusive, Storing, Running, Waiting, Ending,
              Owes, Busy, Started, AtWork
  <1>0. PoolTypeOK /\ LeaderInv /\ WorkerInv
    BY DEF IInv
  <1>1. ASSUME NEW requested \in SUBSET Flag, Parallelize(c, requested)
        PROVE  MemInv'
    BY <1>0, <1>1, ThreadKinds, QuietStep DEF Parallelize, PoolTypeOK
  <1>2. CASE AllSpawned(c)
    <2>1. pool = "creating"
      BY <1>0, <1>2 DEF AllSpawned, PoolTypeOK, LeaderInv
    <2> QED BY <1>0, <1>2, <2>1, ThreadKinds, QuietStep DEF AllSpawned, PoolTypeOK
  <1>3. CASE ResetCommandEvent(c)
    BY <1>0, <1>3, ThreadKinds, QuietStep DEF ResetCommandEvent, PoolTypeOK
  <1>4. CASE SetCommandEvent(c)
    <2>1. /\ UNCHANGED <<memory, pool, command, last_command, completion_event>>
          /\ pc[c] = "set_command"
          /\ \A d \in Callers : pc'[d] = IF d # c THEN pc[d] ELSE IF pool = "ready" THEN "run" ELSE "join"
          /\ \A w \in Workers : pc'[w] = pc[w] \/ (pc[w] = "asleep" /\ pc'[w] = "awake")
      BY <1>0, <1>4, ThreadKinds DEF SetCommandEvent, WakeAll, PoolTypeOK
    <2> QED BY <2>1, QuietStep
  <1>5. CASE Leave(c)
    BY <1>0, <1>5, ThreadKinds, QuietStep DEF Leave, PoolTypeOK
  <1>6. CASE KeepWaiting(c)
    BY <1>0, <1>6, ThreadKinds, QuietStep DEF KeepWaiting, PoolTypeOK
  <1>7. CASE WaitForCompletion(c)
    BY <1>0, <1>7, ThreadKinds, QuietStep DEF WaitForCompletion, PoolTypeOK
  <1>8. CASE ResetCompletionEvent(c)
    <2>1. \A i \in Bit : completion_event'[i] => completion_event[i]
      BY <1>0, <1>8, Bits DEF ResetCompletionEvent, PoolTypeOK
    <2>2. completion_event'[command.bit] => completion_event[command.bit]
      BY <1>0, <2>1, Bits
    <2> QED BY <1>0, <1>8, <2>2, ThreadKinds, QuietStep DEF ResetCompletionEvent, PoolTypeOK
  <1> QED BY <1>1, <1>2, <1>3, <1>4, <1>5, <1>6, <1>7, <1>8

LEMMA QuietWorkerSteps ==
  ASSUME IInv, MemInv, NEW w \in Workers,
         SeeNothing(w) \/ WaitForCommand(w) \/ Dispatch(w) \/ WorkerLeave(w)
  PROVE  MemInv'
  <1> USE DEF Goto, events, locals, Leads, Open, Exclusive, Storing, Running, Waiting, Ending,
              Owes, Busy, Started, AtWork
  <1>0. PoolTypeOK /\ WorkerInv /\ CommandInv
    BY DEF IInv
  <1>1. CASE SeeNothing(w)
    BY <1>0, <1>1, ThreadKinds, QuietStep DEF SeeNothing, PoolTypeOK
  <1>2. CASE WaitForCommand(w)
    BY <1>0, <1>2, ThreadKinds, QuietStep DEF WaitForCommand, PoolTypeOK
  <1>3. CASE Dispatch(w)
    <2>1. last_command[w] = command /\ last_command[w].op \in {"parallelize", "shutdown"}
      BY <1>0, <1>3 DEF Dispatch, WorkerInv, PoolTypeOK, Command
    <2>2. pc' = [pc EXCEPT ![w] = IF last_command[w].op = "parallelize" THEN "enter" ELSE "exited"]
      BY <1>0, <1>3, <2>1 DEF Dispatch, PoolTypeOK
    <2>3. pool \in {"creating", "ready"} => last_command[w].op = "parallelize"
      BY <1>0, <2>1 DEF PoolTypeOK, CommandInv
    <2>4. UNCHANGED <<memory, pool, command, last_command, completion_event>> /\ pc[w] = "dispatch"
      BY <1>3 DEF Dispatch
    <2> QED BY <1>0, <2>2, <2>3, <2>4, ThreadKinds, QuietStep DEF PoolTypeOK
  <1>4. CASE WorkerLeave(w)
    BY <1>0, <1>4, ThreadKinds, QuietStep DEF WorkerLeave, PoolTypeOK
  <1> QED BY <1>1, <1>2, <1>3, <1>4

-----------------------------------------------------------------------------
(* The stores of a caller: nobody else is there to lose what he stores. *)
LEMMA ExclusiveStore ==
  ASSUME IInv, MemInv, MemoryTypeOK', NEW c \in Callers, NEW label \in Exclusive,
         pc[c] \in Exclusive, pc' = [pc EXCEPT ![c] = label],
         NEW d \in Handed,
         knows' = [s \in Threads |-> IF s = c THEN knows[s] \cup {d} ELSE knows[s] \ {d}],
         UNCHANGED <<pool, command, last_command>>
  PROVE  MemInv'
  <1>0. PoolTypeOK /\ LeaderInv /\ MemoryTypeOK /\ CallersKnow /\ CommandCarries /\ CounterCarries
    BY DEF IInv, MemInv
  <1>1. /\ \A b \in Callers : Leads(b) <=> b = c
        /\ \A w \in Workers : ~AtWork(w) /\ Started(w) /\ command = last_command[w]
    BY ExclusiveMeansIdleWorkers
  <1>2. /\ \A b \in Callers : Leads(b)' <=> b = c
        /\ \A b \in Callers : ~Open(b)' /\ pc'[b] \notin Running
    BY <1>0, <1>1, ThreadKinds DEF PoolTypeOK, Leads, Open, Exclusive, Storing, Running, Waiting,
                                   Ending
  <1>3. \A b \in Callers : pc'[b] \in Exclusive => b = c
    BY <1>2 DEF Leads, Exclusive, Storing, Ending
  <1>4. pool # "creating"
    BY <1>0 DEF LeaderInv, Exclusive, Storing, Waiting, Ending
  <1>5. CallersKnow'
    <2>1. Data \subseteq knows'[c]
      BY <1>0, ThreadKinds DEF CallersKnow
    <2> QED BY <1>2, <1>3, <1>4, <2>1 DEF CallersKnow
  <1>6. \A w \in Workers : pc'[w] = pc[w] /\ ~AtWork(w)' /\ Started(w)'
    BY <1>0, <1>1, ThreadKinds DEF PoolTypeOK, AtWork, Started
  <1>7. CommandCarries'
    BY <1>0, <1>1, <1>6, ThreadKinds, DataKinds DEF CommandCarries
  <1>8. CounterCarries'
    <2>1. ~Awaited'
      BY <1>2 DEF Awaited
    <2>2. \A w \in Workers : Notifies(w)' => Notifies(w)
      BY <1>6 DEF Notifies
    <2>3. \A w \in Workers : Workers \subseteq knows[w] => Workers \subseteq knows'[w]
      BY ThreadKinds, DataKinds
    <2> QED BY <1>0, <2>1, <2>2, <2>3 DEF CounterCarries
  <1> QED BY <1>5, <1>7, <1>8 DEF MemInv

LEMMA StoresKeepMemory ==
  ASSUME IInv, MemInv, NEW c \in Callers, StoreOperation(c) \/ StoreActive(c)
  PROVE  MemInv'
  <1>0. PoolTypeOK /\ MemoryTypeOK /\ c \in Threads
    BY ThreadKinds DEF IInv, MemInv
  <1>1. /\ UNCHANGED <<pool, command, last_command>>
        /\ pc[c] \in Exclusive
        /\ \E label \in Exclusive : pc' = [pc EXCEPT ![c] = label]
    BY DEF StoreOperation, StoreActive, Goto, locals, Exclusive, Storing
  <1>2. \E d \in Handed :
          knows' = [s \in Threads |-> IF s = c THEN knows[s] \cup {d} ELSE knows[s] \ {d}]
    BY DataKinds DEF StoreOperation, StoreActive, store_relaxed, store_relaxed_at
  <1>3. MemoryTypeOK'
    <2>1. CASE store_relaxed(c, {"operation"})
      <3>1. {"operation"} \in SUBSET Data
        BY DataKinds
      <3> QED BY <1>0, <2>1, <3>1, MemoryOperationTypes
    <2>2. CASE store_relaxed_at(c, "active_threads", "count")
      <3>1. "active_threads" \in Locations /\ "count" \in Data
        BY DataKinds
      <3> QED BY <1>0, <2>2, <3>1, MemoryOperationTypes
    <2> QED BY <2>1, <2>2 DEF StoreOperation, StoreActive
  <1> QED BY <1>1, <1>2, <1>3, ExclusiveStore

(* The release store of the command takes along all that was stored. *)
LEMMA StoreCommandKeepsMemory ==
  ASSUME IInv, MemInv, NEW c \in Callers, StoreCommand(c)
  PROVE  MemInv'
  <1>0. /\ PoolTypeOK /\ LeaderInv /\ CommandInv
        /\ MemoryTypeOK /\ CallersKnow /\ CommandCarries
    BY DEF IInv, MemInv
  <1>1. pc[c] \in Exclusive /\ pc' = [pc EXCEPT ![c] = "set_command"]
    BY DEF StoreCommand, Goto, Exclusive, Storing
  <1>2. /\ \A b \in Callers : Leads(b) <=> b = c
        /\ \A w \in Workers : ~AtWork(w) /\ Started(w) /\ command = last_command[w]
    BY <1>1, ExclusiveMeansIdleWorkers
  <1>3. /\ UNCHANGED <<pool, last_command, knows>>
        /\ carries' = [carries EXCEPT !["command"] = knows[c]]
    BY DEF StoreCommand, store_release, locals
  <1>4. Data \subseteq knows[c] /\ carries'["command"] = knows[c]
    BY <1>0, <1>1, <1>3, DataKinds DEF CallersKnow, MemoryTypeOK
  <1>5. pool # "creating"
    BY <1>0, <1>1 DEF LeaderInv, Exclusive, Storing, Waiting, Ending
  <1>6. MemoryTypeOK'
    <2>1. "command" \in Locations /\ c \in Threads /\ store_release(c, "command")
      BY DataKinds, ThreadKinds DEF StoreCommand
    <2> QED BY <1>0, <2>1, MemoryOperationTypes
  <1>7. CallersKnow'
    <2>1. \A b \in Callers : Leads(b)' <=> b = c
      BY <1>0, <1>1, <1>2, ThreadKinds DEF PoolTypeOK, Leads
    <2>2. \A b \in Callers : pc'[b] \notin Exclusive
      BY <1>0, <1>1, <2>1, ThreadKinds DEF PoolTypeOK, Leads, Exclusive, Storing, Ending
    <2>3. \A b \in Callers : pc'[b] \in Running => b = c
      BY <2>1 DEF Leads, Running, Waiting
    <2> QED BY <1>3, <1>4, <1>5, <2>1, <2>2, <2>3, DataKinds DEF CallersKnow
  <1>8. \A w \in Workers : ~AtWork(w)' /\ (Started(w)' <=> Started(w))
    BY <1>0, <1>1, <1>2, ThreadKinds DEF PoolTypeOK, AtWork, Started
  <1>9. CommandCarries'
    BY <1>0, <1>3, <1>4, <1>8, DataKinds DEF CommandCarries
  <1>10. CounterCarries'
    <2>1. CompletionEventInv' /\ CommandInv'
      BY StoreCommandKeepsInv DEF IInv
    <2>2. Awaited' => command'.op # "shutdown"
      BY <2>1 DEF CommandInv, Awaited
    <2>3. command' # command
      <3>1. command.op # "shutdown"
        BY <1>1, ExclusiveMeansRest DEF Exclusive
      <3> QED BY <1>0, <3>1, NewCommandIsNew DEF PoolTypeOK, StoreCommand
    <2>4. \A w \in Workers : Owes(w)' /\ ~Notifies(w)'
      BY <1>2, <1>3, <2>3 DEF Owes, Notifies
    <2>5. Awaited' => ~completion_event'[command'.bit]
      BY <2>1, <2>2, <2>4, WorkersAssumption DEF CompletionEventInv
    <2> QED BY <2>4, <2>5 DEF CounterCarries
  <1> QED BY <1>6, <1>7, <1>9, <1>10 DEF MemInv

-----------------------------------------------------------------------------
(* The steps by which callers pass on what they know. *)

(* The creator knows all there is, and what it starts begins with that. *)
LEMMA SpawnKeepsMemory ==
  ASSUME IInv, MemInv, NEW c \in Callers, NEW w \in Workers, Spawn(c, w)
  PROVE  MemInv'
  <1>0. PoolTypeOK /\ WorkerInv /\ MemoryTypeOK /\ CallersKnow /\ CommandCarries /\ CounterCarries
    BY DEF IInv, MemInv
  <1>1. pool = "creating" /\ Data \subseteq knows[c]
    BY <1>0 DEF Spawn, WorkerInv, CallersKnow
  <1>2. /\ pc' = [pc EXCEPT ![w] = "checkin"] /\ pc[w] = "unborn"
        /\ knows' = [knows EXCEPT ![w] = @ \cup knows[c]]
        /\ UNCHANGED <<pool, command, last_command, completion_event, carries>>
    <2>1. UNION {knows[s] : s \in {c}} = knows[c]
      OBVIOUS
    <2> QED BY <2>1 DEF Spawn, Goto, synchronize, events, locals
  <1>3. Data \subseteq knows'[w] /\ \A t \in Threads : knows[t] \subseteq knows'[t]
    BY <1>0, <1>1, <1>2, ThreadKinds DEF MemoryTypeOK
  <1>4. MemoryTypeOK'
    <2>1. {c} \in SUBSET Threads /\ w \in Threads /\ synchronize(w, {c})
      BY ThreadKinds DEF Spawn
    <2> QED BY <1>0, <2>1, MemoryOperationTypes
  <1>5. /\ \A b \in Callers : pc'[b] = pc[b]
        /\ \A v \in Workers : v # w => pc'[v] = pc[v]
        /\ pc'[w] = "checkin"
    BY <1>0, <1>2, ThreadKinds DEF PoolTypeOK
  <1>6. CallersKnow'
    BY <1>0, <1>1, <1>2, <1>3, <1>5, ThreadKinds DEF CallersKnow, Leads
  <1>7. CommandCarries'
    <2>1. Handed \subseteq knows'[w] /\ w \in knows'[w]
      BY <1>3, DataKinds
    <2>2. \A v \in Workers : knows[v] \subseteq knows'[v]
      BY <1>3, ThreadKinds
    <2> QED BY <1>0, <1>2, <1>5, <2>1, <2>2 DEF CommandCarries, Started, AtWork
  <1>8. CounterCarries'
    <2>1. \A v \in Workers : (Owes(v)' <=> Owes(v)) /\ (Notifies(v)' => Notifies(v))
      BY <1>2, <1>5 DEF Owes, Busy, Notifies
    <2>2. Awaited' <=> Awaited
      BY <1>2, <1>5 DEF Awaited, Open
    <2>3. \A v \in Workers : knows[v] \subseteq knows'[v]
      BY <1>3, ThreadKinds
    <2> QED BY <1>0, <1>2, <2>1, <2>2, <2>3 DEF CounterCarries
  <1> QED BY <1>4, <1>6, <1>7, <1>8 DEF MemInv

(* Steps of a caller that add to what it knows and do not change what the  *)
(* workers see.                                                            *)
LEMMA CallerLearns ==
  ASSUME PoolTypeOK, MemInv, MemoryTypeOK', NEW c \in Callers, NEW label \in CallerLabel,
         pc' = [pc EXCEPT ![c] = label], NEW D \in SUBSET Data,
         knows' = [knows EXCEPT ![c] = @ \cup D],
         UNCHANGED <<command, last_command, completion_event, carries>>,
         Awaited' => Awaited
  PROVE  CommandCarries' /\ CounterCarries' /\ \A b \in Callers : knows[b] \subseteq knows'[b]
  <1>0. MemoryTypeOK /\ CommandCarries /\ CounterCarries
    BY DEF MemInv
  <1>1. /\ \A w \in Workers : pc'[w] = pc[w] /\ knows'[w] = knows[w]
        /\ \A b \in Callers : knows[b] \subseteq knows'[b]
    BY <1>0, ThreadKinds DEF PoolTypeOK, MemoryTypeOK
  <1>2. CommandCarries'
    BY <1>0, <1>1 DEF CommandCarries, Started, AtWork
  <1>3. CounterCarries'
    BY <1>0, <1>1 DEF CounterCarries, Owes, Busy, Notifies
  <1> QED BY <1>1, <1>2, <1>3

(* Whoever gets the mutex gets with it what its last holder knew. *)
LEMMA LockKeepsMemory ==
  ASSUME IInv, MemInv, NEW c \in Callers, Lock(c)
  PROVE  MemInv'
  <1>0. PoolTypeOK /\ LeaderInv /\ MemoryTypeOK /\ CallersKnow
    BY DEF IInv, MemInv
  <1>1. /\ pc[c] = "lock" /\ pc' = [pc EXCEPT ![c] = "store_operation"]
        /\ knows' = [knows EXCEPT ![c] = @ \cup carries["execution_mutex"]]
        /\ UNCHANGED <<pool, command, last_command, completion_event, carries>>
    BY DEF Lock, Goto, load_acquire, events
  <1>2. pool = "ready" /\ \A b \in Callers : ~Leads(b)
    BY <1>0, <1>1, ThreadKinds DEF Lock, LeaderInv
  <1>3. Data \subseteq knows'[c]
    BY <1>0, <1>1, <1>2, ThreadKinds DEF CallersKnow, MemoryTypeOK
  <1>4. MemoryTypeOK' /\ carries["execution_mutex"] \in SUBSET Data
    <2>1. "execution_mutex" \in Locations /\ c \in Threads /\ load_acquire(c, "execution_mutex")
      BY DataKinds, ThreadKinds DEF Lock
    <2> QED BY <1>0, <2>1, MemoryOperationTypes DEF MemoryTypeOK
  <1>5. /\ Leads(c)'
        /\ \A b \in Callers : b # c => pc'[b] = pc[b]
        /\ \A b \in Callers : ~Open(b)' /\ pc'[b] \notin Running
    BY <1>0, <1>1, <1>2, ThreadKinds DEF PoolTypeOK, Leads, Open, Running, Waiting
  <1>6. \A b \in Callers : pc'[b] \in Exclusive => b = c
    BY <1>2, <1>5 DEF Leads, Exclusive, Storing, Ending
  <1>7. CallersKnow'
    BY <1>1, <1>2, <1>3, <1>5, <1>6 DEF CallersKnow
  <1>8. CommandCarries' /\ CounterCarries'
    <2>1. ~Awaited' /\ "store_operation" \in CallerLabel
      BY <1>5 DEF Awaited, CallerLabel
    <2> QED BY <1>0, <1>1, <1>4, <2>1, CallerLearns
  <1> QED BY <1>4, <1>7, <1>8 DEF MemInv

(* The caller whose wait is over knows what all workers did, be it from *)
(* the counter or from the event.                                       *)
LEMMA WaitEndsKeepsMemory ==
  ASSUME IInv, MemInv, NEW c \in Callers, AllCheckedIn(c) \/ CompletionSignalled(c)
  PROVE  MemInv'
  <1>0. /\ PoolTypeOK /\ LeaderInv /\ CompletionEventInv
        /\ MemoryTypeOK /\ CallersKnow /\ CounterCarries
    BY DEF IInv, MemInv
  <1>1. /\ pc[c] \in Waiting /\ pool \in {"creating", "ready"}
        /\ CompletionIndex(c) = command.bit
        /\ \A w \in Workers : ~Owes(w)
    BY WaitIsOver, WaitersCount
  <1>2. /\ pool' = "ready"
        /\ pc' = [pc EXCEPT ![c] = IF pool = "creating" THEN "idle" ELSE "reset_completion"]
        /\ UNCHANGED <<command, last_command, completion_event, carries>>
    BY <1>1 DEF AllCheckedIn, CompletionSignalled, Returns, Goto, load_acquire, events, locals
  <1>3. Awaited /\ Leads(c) /\ \A b \in Callers : Leads(b) <=> b = c
    BY <1>0, <1>1 DEF Awaited, Open, Running, Waiting, Leads, LeaderInv
  <1>4. PICK l \in Locations : load_acquire(c, l) /\ Workers \subseteq carries[l]
    <2>1. CASE AllCheckedIn(c)
      BY <1>0, <1>1, <1>3, <2>1, DataKinds DEF AllCheckedIn, CounterCarries
    <2>2. CASE CompletionSignalled(c)
      <3>1. completion_event[command.bit]
        BY <1>0, <2>2 DEF CompletionSignalled, CompletionEventInv
      <3>2. Workers \subseteq carries[CompletionEvent[command.bit]]
        BY <1>0, <1>3, <3>1 DEF CounterCarries
      <3>3. CompletionEvent[command.bit] \in Locations
        BY <1>0, Bits, DataKinds
      <3> QED BY <1>1, <2>2, <3>2, <3>3 DEF CompletionSignalled
    <2> QED BY <2>1, <2>2
  <1>5. knows' = [knows EXCEPT ![c] = @ \cup carries[l]]
    BY <1>4 DEF load_acquire
  <1>6. MemoryTypeOK' /\ carries[l] \in SUBSET Data
    BY <1>0, <1>4, ThreadKinds, MemoryOperationTypes DEF MemoryTypeOK
  <1>7. /\ \A b \in Callers : b # c => pc'[b] = pc[b]
        /\ pc'[c] = IF pool = "creating" THEN "idle" ELSE "reset_completion"
    BY <1>0, <1>2, ThreadKinds DEF PoolTypeOK
  <1>8. \A b \in Callers : ~Open(b)' /\ pc'[b] \notin Running /\ (Leads(b)' => b = c)
    BY <1>3, <1>7 DEF Open, Running, Waiting, Leads
  <1>9. CommandCarries' /\ CounterCarries' /\ \A b \in Callers : knows[b] \subseteq knows'[b]
    <2>1. ~Awaited'
      BY <1>8 DEF Awaited
    <2>2. PICK label \in CallerLabel : pc' = [pc EXCEPT ![c] = label]
      BY <1>2 DEF CallerLabel
    <2> QED BY <1>0, <1>2, <1>5, <1>6, <2>1, <2>2, CallerLearns
  <1>10. pool = "ready" => Data \subseteq knows'[c]
    <2>1. pool = "ready" => Handed \subseteq knows[c]
      BY <1>0, <1>1 DEF CallersKnow, Running
    <2>2. knows'[c] = knows[c] \cup carries[l]
      BY <1>0, <1>5, ThreadKinds DEF MemoryTypeOK
    <2> QED BY <1>4, <2>1, <2>2, DataKinds
  <1>11. CallersKnow'
    <2>1. CASE pool = "creating"
      <3>1. \A b \in Callers : Data \subseteq knows'[b]
        BY <1>0, <1>9, <2>1 DEF CallersKnow
      <3>2. \A b \in Callers : pc'[b] \notin Exclusive
        BY <1>7, <1>8, <2>1 DEF Leads, Exclusive, Storing, Ending
      <3> QED BY <1>2, <1>8, <3>1, <3>2 DEF CallersKnow
    <2>2. CASE pool = "ready"
      <3>1. \A b \in Callers : pc'[b] \in Exclusive => b = c
        BY <1>8 DEF Leads, Exclusive, Storing, Ending
      <3>2. Leads(c)'
        BY <1>7, <2>2 DEF Leads
      <3> QED BY <1>2, <1>8, <1>10, <2>2, <3>1, <3>2 DEF CallersKnow
    <2> QED BY <1>1, <2>1, <2>2
  <1> QED BY <1>6, <1>9, <1>11 DEF MemInv

(* The mutex is given back with all its holder knows. *)
LEMMA UnlockKeepsMemory ==
  ASSUME IInv, MemInv, NEW c \in Callers, Unlock(c)
  PROVE  MemInv'
  <1>0. /\ PoolTypeOK /\ LeaderInv
        /\ MemoryTypeOK /\ CallersKnow /\ CommandCarries /\ CounterCarries
    BY DEF IInv, MemInv
  <1>1. /\ pc[c] \in Exclusive /\ pc' = [pc EXCEPT ![c] = "idle"]
        /\ carries' = [carries EXCEPT !["execution_mutex"] = knows[c]]
        /\ UNCHANGED <<pool, command, last_command, knows>>
    BY DEF Unlock, Goto, store_release, Exclusive, Ending
  <1>2. /\ \A b \in Callers : Leads(b) <=> b = c
        /\ \A w \in Workers : ~AtWork(w) /\ Started(w) /\ command = last_command[w]
    BY <1>1, ExclusiveMeansIdleWorkers
  <1>3. Data \subseteq knows[c] /\ carries'["execution_mutex"] = knows[c]
    BY <1>0, <1>1, DataKinds DEF CallersKnow, MemoryTypeOK
  <1>4. pool = "ready"
    BY <1>0 DEF Unlock, LeaderInv, PoolTypeOK, Waiting
  <1>5. MemoryTypeOK'
    <2>1. "execution_mutex" \in Locations /\ c \in Threads /\ store_release(c, "execution_mutex")
      BY DataKinds, ThreadKinds DEF Unlock
    <2> QED BY <1>0, <2>1, MemoryOperationTypes
  <1>6. \A b \in Callers : ~Leads(b)' /\ ~Open(b)' /\ pc'[b] \notin Exclusive \cup Running
    BY <1>0, <1>1, <1>2, ThreadKinds
       DEF PoolTypeOK, Leads, Open, Exclusive, Storing, Running, Waiting, Ending
  <1>7. CallersKnow'
    BY <1>1, <1>3, <1>4, <1>6 DEF CallersKnow
  <1>8. \A w \in Workers : pc'[w] = pc[w] /\ ~AtWork(w)'
    BY <1>0, <1>1, <1>2, ThreadKinds DEF PoolTypeOK, AtWork
  <1>9. CommandCarries'
    BY <1>0, <1>1, <1>2, <1>8 DEF CommandCarries
  <1>10. CounterCarries'
    BY <1>0, <1>1, <1>6, <1>8 DEF CounterCarries, Awaited, Notifies
  <1> QED BY <1>5, <1>7, <1>9, <1>10 DEF MemInv

(* The user that destroys the pool has waited for all its calls. *)
LEMMA DestroyKeepsMemory ==
  ASSUME IInv, MemInv, NEW c \in Callers, Destroy(c)
  PROVE  MemInv'
  <1>0. PoolTypeOK /\ MemoryTypeOK /\ CallersKnow
    BY DEF IInv, MemInv
  <1>1. /\ pool = "ready" /\ pool' = "stopping" /\ \A b \in Callers : ~Leads(b) /\ pc[b] = "idle"
        /\ pc' = [pc EXCEPT ![c] = "store_active"]
        /\ knows' = [knows EXCEPT ![c] = @ \cup UNION {knows[b] : b \in Callers}]
        /\ UNCHANGED <<command, last_command, completion_event, carries>>
    BY DEF Destroy, Goto, synchronize, events, locals, Leads
  <1>2. UNION {knows[b] : b \in Callers} \in SUBSET Data
    BY <1>0, ThreadKinds DEF MemoryTypeOK
  <1>3. Data \subseteq knows'[c]
    <2>1. PICK b \in Callers : Data \subseteq knows[b]
      BY <1>0, <1>1 DEF CallersKnow
    <2>2. Data \subseteq UNION {knows[d] : d \in Callers}
      BY <2>1
    <2> QED BY <1>0, <1>1, <2>2, ThreadKinds DEF MemoryTypeOK
  <1>4. MemoryTypeOK'
    <2>1. Callers \in SUBSET Threads /\ c \in Threads /\ synchronize(c, Callers)
      BY ThreadKinds DEF Destroy
    <2> QED BY <1>0, <2>1, MemoryOperationTypes
  <1>5. CommandCarries' /\ CounterCarries'
    <2>1. ~Awaited' /\ "store_active" \in CallerLabel
      BY <1>1 DEF Awaited, CallerLabel
    <2> QED BY <1>0, <1>1, <1>2, <1>4, <2>1, CallerLearns
  <1>6. \A b \in Callers : pc'[b] \in Exclusive => b = c
    BY <1>1 DEF Exclusive, Storing, Ending
  <1>7. CallersKnow'
    BY <1>1, <1>3, <1>6 DEF CallersKnow
  <1> QED BY <1>4, <1>5, <1>7 DEF MemInv

LEMMA JoinKeepsMemory ==
  ASSUME IInv, MemInv, NEW c \in Callers, Join(c)
  PROVE  MemInv'
  <1>0. PoolTypeOK /\ LeaderInv /\ MemoryTypeOK
    BY DEF IInv, MemInv
  <1>1. /\ pc' = [pc EXCEPT ![c] = "idle"] /\ pool' = "released"
        /\ knows' = [knows EXCEPT ![c] = @ \cup UNION {knows[w] : w \in Workers}]
        /\ UNCHANGED <<command, last_command, completion_event, carries>>
    BY DEF Join, Goto, synchronize, events, locals
  <1>2. \A b \in Callers : pc'[b] \notin Exclusive
    <2>1. Leads(c)
      BY DEF Join, Leads
    <2>2. \A b \in Callers : b # c => ~Leads(b)
      BY <1>0, <2>1 DEF LeaderInv
    <2> QED BY <1>0, <1>1, <2>2, ThreadKinds DEF PoolTypeOK, Leads, Exclusive, Storing, Ending
  <1>3. UNION {knows[w] : w \in Workers} \in SUBSET Data
    BY <1>0, ThreadKinds DEF MemoryTypeOK
  <1>4. MemoryTypeOK'
    <2>1. Workers \in SUBSET Threads /\ c \in Threads /\ synchronize(c, Workers)
      BY ThreadKinds DEF Join
    <2> QED BY <1>0, <2>1, MemoryOperationTypes
  <1>5. CommandCarries' /\ CounterCarries'
    <2>1. ~Awaited' /\ "idle" \in CallerLabel
      BY <1>1 DEF Awaited, CallerLabel
    <2> QED BY <1>0, <1>1, <1>3, <1>4, <2>1, CallerLearns
  <1>6. CallersKnow'
    BY <1>1, <1>2 DEF CallersKnow
  <1> QED BY <1>4, <1>5, <1>6 DEF MemInv

-----------------------------------------------------------------------------
(* The steps by which workers pass on what they know. *)

(* The decrement adds what the worker stored to what the counter carries; *)
(* the last one reads from it what all the others stored.                 *)
LEMMA CheckinKeepsMemory ==
  ASSUME IInv, MemInv, NEW w \in Workers, Checkin(w)
  PROVE  MemInv'
  <1>0. /\ PoolTypeOK /\ WorkerInv /\ CountInv
        /\ MemoryTypeOK /\ CallersKnow /\ CommandCarries /\ CounterCarries
    BY DEF IInv, MemInv
  <1>1. Owes(w) /\ w \in Owers /\ command.op # "shutdown" /\ command = last_command[w]
    BY <1>0 DEF Checkin, Owes, Owers, Busy, WorkerInv, Waiting
  <1>2. /\ Awaited /\ ~completion_event[command.bit]
        /\ \A c \in Callers : pc[c] \notin Exclusive
        /\ \A v \in Workers : ~Notifies(v)
    BY <1>1, OwingMeansAwaited
  <1>3. /\ UNCHANGED <<pool, command, last_command, completion_event>>
        /\ pc[w] = "checkin" /\ active_threads' = active_threads - 1
        /\ pc' = [pc EXCEPT ![w] = IF active_threads' = 0 THEN "set_completion" ELSE "wait"]
        /\ carries' = [carries EXCEPT !["active_threads"] = @ \cup knows[w]]
        /\ knows' = [knows EXCEPT ![w] = @ \cup carries["active_threads"]]
    BY DEF Checkin, Goto, decrement_fetch_acquire_release, events, locals
  <1>4. /\ \A b \in Callers : pc'[b] = pc[b]
        /\ \A v \in Workers : v # w => pc'[v] = pc[v]
        /\ pc'[w] = IF active_threads' = 0 THEN "set_completion" ELSE "wait"
        /\ \A t \in Threads : knows[t] \subseteq knows'[t]
        /\ \A l \in Locations : carries[l] \subseteq carries'[l]
        /\ knows'[w] = knows[w] \cup carries["active_threads"]
        /\ carries'["active_threads"] = carries["active_threads"] \cup knows[w]
    BY <1>0, <1>3, ThreadKinds, DataKinds DEF PoolTypeOK, MemoryTypeOK
  <1>5. MemoryTypeOK'
    <2>1. /\ "active_threads" \in Locations /\ w \in Threads
          /\ decrement_fetch_acquire_release(w, "active_threads")
      BY DataKinds, ThreadKinds DEF Checkin
    <2> QED BY <1>0, <2>1, MemoryOperationTypes
  <1>6. CallersKnow'
    BY <1>0, <1>3, <1>4, ThreadKinds, DataKinds DEF CallersKnow, Leads
  <1>7. CommandCarries'
    BY <1>0, <1>3, <1>4, ThreadKinds, DataKinds DEF CommandCarries, Started, AtWork
  <1>8. CounterCarries'
    <2>1. Awaited' <=> Awaited
      BY <1>3, <1>4 DEF Awaited, Open
    <2>2. \A v \in Workers : Owes(v)' \/ v \in carries'["active_threads"]
      <3>1. w \in carries'["active_threads"]
        BY <1>0, <1>3, <1>4 DEF CommandCarries, Started
      <3>2. \A v \in Workers : v # w => (Owes(v)' <=> Owes(v))
        BY <1>3, <1>4 DEF Owes, Busy
      <3> QED BY <1>0, <1>2, <1>4, <3>1, <3>2, DataKinds DEF CounterCarries
    <2>3. pc'[w] = "set_completion" => Workers \subseteq knows'[w]
      <3>1. active_threads = Cardinality(Owers)
        BY <1>0, <1>1, <1>2 DEF CountInv, Preparing, Exclusive, Storing
      <3>2. IsFiniteSet(Owers \ {w}) /\ Cardinality(Owers \ {w}) = Cardinality(Owers) - 1
        BY <1>1, CountWorkers, FS_RemoveElement
      <3>3. pc'[w] = "set_completion" => Owers \ {w} = {}
        BY <1>3, <1>4, <3>1, <3>2, FS_EmptySet
      <3>4. \A v \in Workers : Owes(v) \/ v \in carries["active_threads"]
        BY <1>0, <1>2 DEF CounterCarries
      <3>5. w \in knows[w]
        BY <1>0, <1>3 DEF CommandCarries, Started
      <3> QED BY <1>4, <3>3, <3>4, <3>5 DEF Owers
    <2>4. \A v \in Workers : v # w => ~Notifies(v)'
      BY <1>2, <1>3, <1>4 DEF Notifies
    <2> QED BY <1>2, <1>3, <2>1, <2>2, <2>3, <2>4 DEF CounterCarries, Notifies
  <1> QED BY <1>5, <1>6, <1>7, <1>8 DEF MemInv

(* The event takes on what the last worker knows. *)
LEMMA SetCompletionEventKeepsMemory ==
  ASSUME IInv, MemInv, NEW w \in Workers, SetCompletionEvent(w)
  PROVE  MemInv'
  <1>0. /\ PoolTypeOK /\ BitInv /\ CommandInv
        /\ MemoryTypeOK /\ CallersKnow /\ CommandCarries /\ CounterCarries
    BY DEF IInv, MemInv
  <1>1. /\ UNCHANGED <<pool, command, last_command, knows>>
        /\ completion_event' = [completion_event EXCEPT ![last_command[w].bit] = TRUE]
        /\ carries' = [carries EXCEPT ![CompletionEvent[last_command[w].bit]] = knows[w]]
    BY DEF SetCompletionEvent, store_release, locals
  <1>2. /\ \A b \in Callers : pc'[b] = pc[b] \/ (pc[b] = "asleep" /\ pc'[b] = "awake")
        /\ \A v \in Workers : pc'[v] = IF v = w THEN "wait" ELSE pc[v]
        /\ pc[w] = "set_completion"
    BY <1>0, ThreadKinds DEF SetCompletionEvent, WakeAll, PoolTypeOK
  <1>3. last_command[w].bit \in Bit /\ command.bit \in Bit
    BY <1>0, Bits
  <1>4. /\ carries'["execution_mutex"] = carries["execution_mutex"]
        /\ carries'["command"] = carries["command"]
        /\ carries'["active_threads"] = carries["active_threads"]
    BY <1>0, <1>1, <1>3, DataKinds DEF MemoryTypeOK
  <1>5. MemoryTypeOK'
    <2>1. w \in Threads /\ CompletionEvent[last_command[w].bit] \in Locations
      BY <1>3, DataKinds, ThreadKinds
    <2> QED BY <1>0, <2>1, MemoryOperationTypes DEF SetCompletionEvent
  <1>6. CallersKnow'
    <2>1. \A b \in Callers : /\ Leads(b)' <=> Leads(b)
                             /\ pc'[b] \in Exclusive => pc[b] \in Exclusive
                             /\ pc'[b] \in Running => pc[b] \in Running
      BY <1>2 DEF Leads, Exclusive, Storing, Ending, Running, Waiting
    <2> QED BY <1>0, <1>1, <1>4, <2>1 DEF CallersKnow
  <1>7. CommandCarries'
    BY <1>0, <1>1, <1>2, <1>4 DEF CommandCarries, Started, AtWork
  <1>8. CounterCarries'
    <2>1. Awaited' <=> Awaited
      BY <1>1, <1>2 DEF Awaited, Open, Running, Waiting
    <2>2. \A v \in Workers : (Owes(v)' <=> Owes(v)) /\ (Notifies(v)' => Notifies(v))
      BY <1>1, <1>2 DEF Owes, Busy, Notifies
    <2>3. ASSUME Awaited, completion_event'[command.bit]
          PROVE  Workers \subseteq carries'[CompletionEvent[command.bit]]
      <3>1. CASE last_command[w].bit = command.bit
        <4>1. last_command[w] = command
          BY <1>0, <1>3, <2>3, <3>1 DEF Awaited, CommandInv, BitInv, Bit
        <4>2. Workers \subseteq knows[w]
          BY <1>0, <1>2, <4>1 DEF CounterCarries, Notifies
        <4> QED BY <1>0, <1>1, <1>3, <3>1, <4>2, DataKinds DEF MemoryTypeOK
      <3>2. CASE last_command[w].bit # command.bit
        <4>1. completion_event[command.bit]
          BY <1>0, <1>1, <1>3, <2>3, <3>2 DEF PoolTypeOK
        <4>2. carries'[CompletionEvent[command.bit]] = carries[CompletionEvent[command.bit]]
          BY <1>0, <1>1, <1>3, <3>2, DataKinds DEF MemoryTypeOK
        <4> QED BY <1>0, <2>3, <4>1, <4>2 DEF CounterCarries
      <3> QED BY <3>1, <3>2
    <2> QED BY <1>0, <1>1, <1>4, <2>1, <2>2, <2>3 DEF CounterCarries
  <1> QED BY <1>5, <1>6, <1>7, <1>8 DEF MemInv

(* With the command comes what was stored before it. *)
LEMMA SeeCommandKeepsMemory ==
  ASSUME IInv, MemInv, NEW w \in Workers, SeeCommand(w)
  PROVE  MemInv'
  <1>0. PoolTypeOK /\ CommandEventInv /\ MemoryTypeOK /\ CallersKnow /\ CommandCarries /\ CounterCarries
    BY DEF IInv, MemInv
  <1>1. /\ UNCHANGED <<pool, command, completion_event, carries>>
        /\ pc[w] \in {"wait", "spin", "awake"} /\ pc' = [pc EXCEPT ![w] = "dispatch"]
        /\ command # last_command[w] /\ last_command' = [last_command EXCEPT ![w] = command]
        /\ knows' = [knows EXCEPT ![w] = @ \cup carries["command"]]
    BY <1>0 DEF SeeCommand, Goto, load_acquire, events, CommandEventInv
  <1>2. /\ \A b \in Callers : pc'[b] = pc[b]
        /\ \A v \in Workers : v # w => pc'[v] = pc[v] /\ last_command'[v] = last_command[v]
        /\ pc'[w] = "dispatch" /\ last_command'[w] = command
        /\ \A t \in Threads : knows[t] \subseteq knows'[t]
        /\ knows'[w] = knows[w] \cup carries["command"]
    BY <1>0, <1>1, ThreadKinds DEF PoolTypeOK, MemoryTypeOK
  <1>3. MemoryTypeOK'
    <2>1. "command" \in Locations /\ w \in Threads /\ load_acquire(w, "command")
      BY DataKinds, ThreadKinds DEF SeeCommand
    <2> QED BY <1>0, <2>1, MemoryOperationTypes
  <1>4. CallersKnow'
    BY <1>0, <1>1, <1>2, ThreadKinds DEF CallersKnow, Leads
  <1>5. CommandCarries'
    BY <1>0, <1>1, <1>2, ThreadKinds DEF CommandCarries, Started, AtWork
  <1>6. CounterCarries'
    <2>1. Awaited' <=> Awaited
      BY <1>1, <1>2 DEF Awaited, Open
    <2>2. \A v \in Workers : (Owes(v)' <=> Owes(v)) /\ (Notifies(v)' => Notifies(v))
      BY <1>1, <1>2 DEF Owes, Busy, Notifies
    <2> QED BY <1>0, <1>1, <1>2, <2>1, <2>2, ThreadKinds DEF CounterCarries
  <1> QED BY <1>3, <1>4, <1>5, <1>6 DEF MemInv

(* What the tasks of a worker store is news to everybody else. *)
LEMMA WorkerEnterKeepsMemory ==
  ASSUME IInv, MemInv, NEW w \in Workers, WorkerEnter(w)
  PROVE  MemInv'
  <1>0. /\ PoolTypeOK /\ CommandInv /\ WorkerInv
        /\ MemoryTypeOK /\ CallersKnow /\ CommandCarries /\ CounterCarries
    BY DEF IInv, MemInv
  <1>1. Owes(w) /\ command.op = "parallelize"
    BY <1>0 DEF WorkerEnter, Owes, Busy, WorkerInv
  <1>2. /\ Awaited /\ ~completion_event[command.bit]
        /\ \A c \in Callers : pc[c] \notin Exclusive
        /\ \A v \in Workers : ~Notifies(v)
    BY <1>1, OwingMeansAwaited
  <1>3. /\ UNCHANGED <<pool, command, last_command, completion_event>>
        /\ pc[w] = "enter" /\ pc' = [pc EXCEPT ![w] = "run"]
        /\ knows' = [t \in Threads |-> IF t = w THEN knows[t] \cup {w} ELSE knows[t] \ {w}]
        /\ carries' = [l \in Locations |-> carries[l] \ {w}]
    BY DEF WorkerEnter, Goto, store_relaxed, events
  <1>4. /\ \A b \in Callers : pc'[b] = pc[b]
        /\ \A v \in Workers : v # w => pc'[v] = pc[v]
        /\ pc'[w] = "run"
    BY <1>0, <1>3, ThreadKinds DEF PoolTypeOK
  <1>5. w \in Data /\ w \notin Handed
    BY DataKinds
  <1>6. MemoryTypeOK'
    <2>1. {w} \in SUBSET Data /\ w \in Threads /\ store_relaxed(w, {w})
      BY <1>5, ThreadKinds DEF WorkerEnter
    <2> QED BY <1>0, <2>1, MemoryOperationTypes
  <1>7. CallersKnow'
    <2>1. pool # "creating"
      BY <1>0, <1>1 DEF CommandInv, InitCommand
    <2>2. \E c \in Callers : Leads(c)'
      BY <1>2, <1>4 DEF Awaited, Open, Running, Waiting, Leads
    <2>3. \A c \in Callers : Handed \subseteq knows[c] => Handed \subseteq knows'[c]
      BY <1>3, <1>5, ThreadKinds
    <2> QED BY <1>0, <1>2, <1>3, <1>4, <2>1, <2>2, <2>3 DEF CallersKnow
  <1>8. CommandCarries'
    <2>1. \A v \in Workers : v \in knows[v] => v \in knows'[v]
      BY <1>3, ThreadKinds
    <2>2. \A v \in Workers : Handed \subseteq knows[v] => Handed \subseteq knows'[v]
      BY <1>3, <1>5, ThreadKinds
    <2>3. Handed \subseteq carries["command"] => Handed \subseteq carries'["command"]
      BY <1>3, <1>5, DataKinds
    <2> QED BY <1>0, <1>3, <1>4, <2>1, <2>2, <2>3 DEF CommandCarries, Started, AtWork
  <1>9. CounterCarries'
    <2>1. \A v \in Workers : (Owes(v)' <=> Owes(v)) /\ ~Notifies(v)'
      BY <1>2, <1>3, <1>4 DEF Owes, Busy, Notifies
    <2>2. \A v \in Workers : v # w /\ v \in carries["active_threads"] => v \in carries'["active_threads"]
      BY <1>3, DataKinds
    <2> QED BY <1>0, <1>1, <1>2, <1>3, <2>1, <2>2 DEF CounterCarries
  <1> QED BY <1>6, <1>7, <1>8, <1>9 DEF MemInv

-----------------------------------------------------------------------------
LEMMA InitEstablishesMemory == Init => MemInv
  <1> SUFFICES ASSUME Init PROVE MemInv
    OBVIOUS
  <1>1. /\ \A c \in Callers : knows[c] = Data
        /\ MemoryTypeOK
    BY ThreadKinds DEF Init, MemoryInit, MemoryTypeOK
  <1>2. /\ \A c \in Callers : pc[c] \in {"spawn", "idle"}
        /\ \A w \in Workers : pc[w] = "unborn" /\ command = last_command[w]
        /\ pool = "creating" /\ ~completion_event[command.bit]
    BY ThreadKinds DEF Init, InitCommand, Bit
  <1>3. CallersKnow
    BY <1>1, <1>2, DataKinds DEF CallersKnow, Exclusive, Storing, Ending
  <1>4. CommandCarries /\ CounterCarries
    BY <1>2 DEF CommandCarries, CounterCarries, Started, AtWork, Owes, Busy, Notifies
  <1> QED BY <1>1, <1>3, <1>4 DEF MemInv

LEMMA NextKeepsMemory ==
  ASSUME IInv, MemInv, [Next]_vars
  PROVE  MemInv'
  <1>1. ASSUME NEW w \in Workers, WorkerStep(w)
        PROVE  MemInv'
    BY <1>1, CheckinKeepsMemory, SetCompletionEventKeepsMemory, SeeCommandKeepsMemory,
       WorkerEnterKeepsMemory, QuietWorkerSteps DEF WorkerStep
  <1>2. ASSUME NEW c \in Callers, CallerStep(c)
        PROVE  MemInv'
    BY <1>2, SpawnKeepsMemory, LockKeepsMemory, StoresKeepMemory, StoreCommandKeepsMemory,
       WaitEndsKeepsMemory, UnlockKeepsMemory, JoinKeepsMemory, QuietCallerSteps
       DEF CallerStep
  <1>3. CASE Environment
    BY <1>3, DestroyKeepsMemory, QuietCallerSteps DEF Environment
  <1>4. CASE UNCHANGED vars
    <2>1. UNCHANGED <<memory, pool, command, last_command, completion_event, pc>>
      BY <1>4 DEF vars, events, locals
    <2> QED BY <2>1, QuietStep DEF Leads, Open, Owes, Busy, Started, AtWork
  <1> QED BY <1>1, <1>2, <1>3, <1>4 DEF Next

(* The invariant of the memory holds in every state. *)
THEOREM MemoryInvariant == Spec => []MemInv
  <1>1. IInv /\ MemInv /\ [Next]_vars => MemInv'
    BY NextKeepsMemory
  <1> QED BY <1>1, InitEstablishesMemory, InductiveInvariant, PTL DEF Spec

(* All variables of the handshake keep a value they can have, the memory *)
(* among them; active_threads, in particular, never goes below zero.     *)
THEOREM TypeCorrect == Spec => []TypeOK
  <1>1. IInv /\ MemInv => TypeOK
    BY DEF IInv, MemInv, TypeOK
  <1> QED BY <1>1, InductiveInvariant, MemoryInvariant, PTL

(* No thread of windows.c reads a stale value: the orders that its loads,   *)
(* stores and decrements ask for are enough, together with what SetEvent    *)
(* and the waits for an event order.                                        *)
THEOREM NothingIsStale == Spec => []NothingStaleIsRead
  <1>1. MemInv => NothingStaleIsRead
    BY DataKinds
       DEF MemInv, CallersKnow, CommandCarries, NothingStaleIsRead, Busy, AtWork, Exclusive,
           Storing, Ending, Handed
  <1> QED BY <1>1, MemoryInvariant, PTL
=============================================================================
