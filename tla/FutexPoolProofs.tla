-------------------------- MODULE FutexPoolProofs --------------------------
(***************************************************************************)
(* The handshake of the futex backend is right for every number of workers *)
(* and callers, whatever flags they ask for and whichever of the threads   *)
(* pthreadpool_create manages to start.                                    *)
(***************************************************************************)
EXTENDS FutexPool, FiniteSetTheorems, TLAPS

(* A caller that is inside of pthreadpool_create, of an operation that has *)
(* the mutex, or of pthreadpool_destroy.                                   *)
Leads(c) == pc[c] \notin {"idle", "lock"}

Waiting == {"wait", "spin", "reload", "futex", "asleep"}
Storing == {"store_arguments", "store_active", "store_has_active", "store_params",
            "store_command"}
Running == {"wake", "enter", "run"} \cup Waiting

(* The values of the command word. *)
Command == [op : {"init", "parallelize", "shutdown"}, flip : BOOLEAN]

(* The leader has commanded the workers and they may still be at it. *)
Open(c) == pc[c] \in {"spawn"} \cup Running

Owers == {w \in Workers : Owes(w)}

(* Nothing is left to do for the workers, apart from a futex_wake_all. *)
AtRest(w) == ~Owes(w) /\ pc[w] # "clear"

-----------------------------------------------------------------------------
(* The inductive invariant. *)

(* At most one caller leads, and what it can be doing depends on the pool. *)
LeaderInv ==
  /\ \A c, d \in Callers : Leads(c) /\ Leads(d) => c = d
  /\ pool \in {"creating", "stopping"} => \E c \in Callers : Leads(c)
  /\ pool # "ready" => execution_mutex = Nobody /\ \A c \in Callers : pc[c] # "lock"
  /\ \A c \in Callers :
       /\ pool = "creating" => pc[c] \in {"idle", "spawn"} \cup Waiting
       /\ pool = "ready" =>
            /\ pc[c] \in {"idle", "lock", "unlock"} \cup Storing \cup Running
            /\ Leads(c) <=> execution_mutex = c
       /\ pool = "stopping" =>
            pc[c] \in {"idle", "store_active", "store_has_active", "store_shutdown",
                       "wake", "join"}
       /\ pool = "released" => pc[c] = "idle"

(* The command is init until the first operation and shutdown once the *)
(* leader of pthreadpool_destroy has stored it.                        *)
CommandInv ==
  /\ pool = "creating" => command = InitCommand
  /\ command.op = "init" => command = InitCommand /\ \A w \in Workers : last_command[w] = command
  /\ pool \in {"creating", "ready"} => command.op # "shutdown"
  /\ pool = "stopping" => \A c \in Callers :
       Leads(c) => (command.op = "shutdown" <=> pc[c] \in {"wake", "join"})
  /\ pool = "released" => command.op = "shutdown"

(* A worker is busy only with the last command, and only as it says. *)
WorkerInv ==
  \A w \in Workers :
    /\ Busy(w) \/ pc[w] \in {"clear", "exited"} => last_command[w] = command
    /\ pc[w] \in {"unborn", "missing"} => pool = "creating"
    /\ pc[w] = "dispatch" => command.op # "init"
    /\ pc[w] \in {"enter", "run"} => command.op = "parallelize"
    /\ command.op = "shutdown" => pc[w] \in Waiting \cup {"notify", "dispatch", "exited"}
    /\ pc[w] = "exited" => command.op = "shutdown"
    /\ pool = "released" => pc[w] = "exited"

(* The counter and the futex word, and who may still change them. *)
CountInv ==
  /\ \A v, w \in Workers : pc[w] = "clear" => ~Owes(v) /\ (pc[v] = "clear" => v = w)
  /\ (~\E c \in Callers : Preparing(c)) /\ command.op # "shutdown" =>
       /\ active_threads = Cardinality(Owers)
       /\ has_active_threads = 0 <=> \A w \in Workers : AtRest(w)
  /\ (\E c \in Callers : Preparing(c)) =>
       active_threads = Cardinality(Workers) /\ \A w \in Workers : AtRest(w)
  /\ \A c \in Callers : Preparing(c) /\ pc[c] # "store_has_active" => has_active_threads = 1
  /\ command.op # "shutdown" /\ (~\E c \in Callers : Open(c)) => \A w \in Workers : AtRest(w)

(* The operation of the leader is stored step by step, and every worker *)
(* that has left its wait since works on it.                            *)
OperationInv ==
  /\ \A c \in Callers : pool = "ready" /\ Leads(c) =>
       /\ pc[c] # "store_arguments" => arguments = c /\ flags = local_flags[c]
       /\ pc[c] \in {"store_command", "unlock"} \cup Running => params = c
       /\ pc[c] \in Storing => \A w \in Workers : ran[w] = 0
       /\ pc[c] \in {"unlock"} \cup Running => \A w \in Workers :
            ran[w] = IF command # last_command[w] \/ pc[w] \in {"dispatch", "enter"}
                     THEN 0 ELSE 1
  /\ \A w \in Workers : pc[w] \in {"enter", "run"} => local_flags[w] = flags

(* Between its two calls a thread's FPU is as its user left it, and what *)
(* it has saved is what it will restore.                                 *)
FpuInv ==
  \A t \in Threads :
    /\ denormals[t] <=> /\ t \notin NoDenormals
                        /\ ~(pc[t] = "run" /\ "DISABLE_DENORMALS" \in local_flags[t])
    /\ pc[t] = "run" /\ "DISABLE_DENORMALS" \in local_flags[t] =>
         (saved_denormals[t] <=> t \notin NoDenormals)

IInv ==
  /\ PoolTypeOK /\ LeaderInv /\ CommandInv /\ WorkerInv /\ CountInv
  /\ OperationInv /\ FpuInv /\ NoLostWakeup

-----------------------------------------------------------------------------
(* The callers are no workers. *)
LEMMA ThreadKinds ==
  Callers \cap Workers = {} /\ Threads = Workers \cup Callers /\ Nobody \notin Threads
  BY CallersAssumption DEF Threads

(* The number of workers, and of those among them that owe an answer. *)
LEMMA CountWorkers ==
  /\ Cardinality(Workers) \in Nat
  /\ Cardinality(Workers) > 0
  /\ IsFiniteSet(Owers)
  /\ Cardinality(Owers) \in 0 .. Cardinality(Workers)
  <1>1. Owers \in SUBSET Workers
    BY DEF Owers
  <1>2. IsFiniteSet(Workers) /\ Workers # {} /\ Cardinality(Workers) \in Nat
    BY WorkersAssumption, FS_CardinalityType
  <1>3. Cardinality(Workers) # 0
    BY <1>2, FS_EmptySet
  <1>4. IsFiniteSet(Owers) /\ Cardinality(Owers) <= Cardinality(Workers) /\ Cardinality(Owers) \in Nat
    BY <1>1, <1>2, FS_Subset, FS_CardinalityType
  <1> QED BY <1>2, <1>3, <1>4

(* A new command differs from the one before it, as a word of memory. *)
LEMMA NewCommandIsNew ==
  ASSUME NEW old \in Command
  PROVE  /\ NewCommand(old) \in Command /\ ShutdownCommand \in Command
         /\ NewCommand(old).op = "parallelize" /\ ShutdownCommand.op = "shutdown"
         /\ NewCommand(old) # old
         /\ old.op # "shutdown" => ShutdownCommand # old
  <1>1. CASE old.flip = TRUE
    BY <1>1 DEF Command, NewCommand, ShutdownCommand
  <1>2. CASE old.flip = FALSE
    BY <1>2 DEF Command, NewCommand, ShutdownCommand
  <1> QED BY <1>1, <1>2 DEF Command

-----------------------------------------------------------------------------
(* The steps of pthreadpool_create. *)

(* A worker starts, or fails to: it owes its check-in either way. *)
LEMMA SpawnKeepsInv ==
  ASSUME IInv, NEW c \in Callers, NEW w \in Workers, Spawn(c, w) \/ SpawnFails(c, w)
  PROVE  IInv'
  <1> USE DEF Spawn, SpawnFails, Goto, fields, fpu
  <1>0. /\ PoolTypeOK /\ LeaderInv /\ CommandInv /\ WorkerInv
        /\ CountInv /\ OperationInv /\ FpuInv /\ NoLostWakeup
    BY DEF IInv
  <1>1. PoolTypeOK'
    BY <1>0, ThreadKinds DEF PoolTypeOK, WorkerLabel
  <1>2. LeaderInv'
    BY <1>0, ThreadKinds DEF PoolTypeOK, LeaderInv, Leads
  <1>3. CommandInv'
    BY <1>0 DEF LeaderInv, CommandInv
  <1>4. WorkerInv'
    BY <1>0, ThreadKinds DEF PoolTypeOK, WorkerInv, CommandInv, Busy
  <1>5. Owers' = Owers
    BY <1>0, ThreadKinds DEF PoolTypeOK, Owers, Owes, Busy
  <1>6. CountInv'
    BY <1>0, ThreadKinds, <1>5 DEF PoolTypeOK, CountInv, AtRest, Owes, Busy, Preparing, Open
  <1>7. OperationInv'
    BY <1>0, ThreadKinds DEF PoolTypeOK, OperationInv, WorkerInv
  <1>8. FpuInv'
    BY <1>0 DEF PoolTypeOK, FpuInv
  <1>9. NoLostWakeup'
    BY <1>0, ThreadKinds DEF PoolTypeOK, NoLostWakeup
  <1> QED BY <1>1, <1>2, <1>3, <1>4, <1>6, <1>7, <1>8, <1>9 DEF IInv

(* The creator begins to wait, or a caller goes on waiting: a caller       *)
(* falls asleep only if the futex word still says that workers are active. *)
LEMMA WaitKeepsInv ==
  ASSUME IInv, NEW c \in Callers, AllSpawned(c) \/ KeepWaiting(c) \/ FutexWait(c)
  PROVE  IInv'
  <1> USE DEF AllSpawned, KeepWaiting, FutexWait, WaitIsOver, Goto, fields, fpu
  <1>0. /\ PoolTypeOK /\ LeaderInv /\ CommandInv /\ WorkerInv
        /\ CountInv /\ OperationInv /\ FpuInv /\ NoLostWakeup
    BY DEF IInv
  <1>1. PoolTypeOK'
    <2>1. PICK label \in {"wait", "spin", "reload", "futex", "asleep"} :
            pc' = [pc EXCEPT ![c] = label]
      OBVIOUS
    <2>2. label \in CallerLabel
      BY DEF CallerLabel
    <2> QED BY <2>1, <2>2, <1>0, ThreadKinds DEF PoolTypeOK
  <1>2. LeaderInv'
    BY <1>0, ThreadKinds DEF PoolTypeOK, LeaderInv, Leads, Waiting, Running
  <1>3. CommandInv'
    BY <1>0 DEF LeaderInv, CommandInv
  <1>4. WorkerInv'
    BY <1>0, ThreadKinds DEF PoolTypeOK, WorkerInv, Busy
  <1>5. Owers' = Owers
    BY <1>0, ThreadKinds DEF PoolTypeOK, Owers, Owes, Busy
  <1>6. CountInv'
    BY <1>0, ThreadKinds, <1>5
       DEF PoolTypeOK, CountInv, AtRest, Owes, Busy, Preparing, Open, Running, Waiting
  <1>7. OperationInv'
    BY <1>0, ThreadKinds DEF PoolTypeOK, OperationInv, LeaderInv, Leads, Storing
  <1>8. FpuInv'
    BY <1>0 DEF PoolTypeOK, FpuInv
  <1>9. NoLostWakeup'
    BY <1>0, ThreadKinds DEF PoolTypeOK, NoLostWakeup
  <1> QED BY <1>1, <1>2, <1>3, <1>4, <1>6, <1>7, <1>8, <1>9 DEF IInv

(* A thread that wakes up for no reason looks at its word again. *)
LEMMA SpuriousWakeupKeepsInv ==
  ASSUME IInv, NEW t \in Threads, SpuriousWakeup(t)
  PROVE  IInv'
  <1> USE DEF SpuriousWakeup, Goto, fields, fpu
  <1>0. /\ PoolTypeOK /\ LeaderInv /\ CommandInv /\ WorkerInv
        /\ CountInv /\ OperationInv /\ FpuInv /\ NoLostWakeup
    BY DEF IInv
  <1>1. PoolTypeOK'
    BY <1>0 DEF PoolTypeOK, CallerLabel, WorkerLabel
  <1>2. LeaderInv'
    BY <1>0 DEF LeaderInv, Leads, Waiting, Running
  <1>3. CommandInv'
    BY <1>0 DEF CommandInv, Leads
  <1>4. WorkerInv'
    BY <1>0 DEF WorkerInv, Busy, Waiting
  <1>5. Owers' = Owers
    BY <1>0 DEF Owers, Owes, Busy
  <1>6. CountInv'
    BY <1>0, <1>5 DEF CountInv, AtRest, Owes, Busy, Preparing, Open, Running, Waiting
  <1>7. OperationInv'
    BY <1>0 DEF OperationInv, LeaderInv, Leads, Storing
  <1>8. FpuInv'
    BY <1>0 DEF FpuInv
  <1>9. NoLostWakeup'
    BY <1>0 DEF NoLostWakeup
  <1> QED BY <1>1, <1>2, <1>3, <1>4, <1>6, <1>7, <1>8, <1>9 DEF IInv

-----------------------------------------------------------------------------
(* The steps of an operation's caller. *)

(* A caller that waits for the mutex has stored nothing yet. *)
LEMMA ParallelizeKeepsInv ==
  ASSUME IInv, NEW c \in Callers, NEW requested \in SUBSET Flag, Parallelize(c, requested)
  PROVE  IInv'
  <1> USE DEF Parallelize, Goto, fields, fpu
  <1>0. /\ PoolTypeOK /\ LeaderInv /\ CommandInv /\ WorkerInv
        /\ CountInv /\ OperationInv /\ FpuInv /\ NoLostWakeup
    BY DEF IInv
  <1>1. PoolTypeOK'
    BY <1>0, ThreadKinds DEF PoolTypeOK, CallerLabel
  <1>2. LeaderInv'
    BY <1>0 DEF LeaderInv, Leads
  <1>3. CommandInv'
    BY <1>0 DEF CommandInv
  <1>4. WorkerInv'
    BY <1>0, ThreadKinds DEF WorkerInv, Busy
  <1>5. Owers' = Owers
    BY <1>0 DEF Owers, Owes, Busy
  <1>6. CountInv'
    BY <1>0, <1>5 DEF CountInv, AtRest, Owes, Busy, Preparing, Open, Running, Waiting
  <1>7. OperationInv'
    BY <1>0 DEF OperationInv, Leads
  <1>8. FpuInv'
    BY <1>0 DEF FpuInv
  <1>9. NoLostWakeup'
    BY <1>0 DEF NoLostWakeup
  <1> QED BY <1>1, <1>2, <1>3, <1>4, <1>6, <1>7, <1>8, <1>9 DEF IInv

(* Whoever gets the mutex becomes the leader. *)
LEMMA LockKeepsInv ==
  ASSUME IInv, NEW c \in Callers, Lock(c)
  PROVE  IInv'
  <1> USE DEF Lock, Goto, fields, fpu
  <1>0. /\ PoolTypeOK /\ LeaderInv /\ CommandInv /\ WorkerInv
        /\ CountInv /\ OperationInv /\ FpuInv /\ NoLostWakeup
    BY DEF IInv
  <1>1. PoolTypeOK'
    BY <1>0, ThreadKinds DEF PoolTypeOK, CallerLabel
  <1>2. LeaderInv'
    BY <1>0, ThreadKinds DEF PoolTypeOK, LeaderInv, Leads, Storing
  <1>3. CommandInv'
    BY <1>0 DEF LeaderInv, CommandInv
  <1>4. WorkerInv'
    BY <1>0, ThreadKinds DEF WorkerInv, Busy
  <1>5. Owers' = Owers
    BY <1>0 DEF Owers, Owes, Busy
  <1>6. CountInv'
    BY <1>0, <1>5 DEF CountInv, AtRest, Owes, Busy, Preparing, Open, Running, Waiting
  <1>7. OperationInv'
    BY <1>0, ThreadKinds DEF OperationInv, LeaderInv, Leads, Waiting, Running
  <1>8. FpuInv'
    BY <1>0 DEF FpuInv
  <1>9. NoLostWakeup'
    BY <1>0 DEF NoLostWakeup
  <1> QED BY <1>1, <1>2, <1>3, <1>4, <1>6, <1>7, <1>8, <1>9 DEF IInv

(* The arguments and the flags change while all workers are at rest. *)
LEMMA StoreArgumentsKeepsInv ==
  ASSUME IInv, NEW c \in Callers, StoreArguments(c)
  PROVE  IInv'
  <1> USE DEF StoreArguments, Goto, fields, fpu
  <1>0. /\ PoolTypeOK /\ LeaderInv /\ CommandInv /\ WorkerInv
        /\ CountInv /\ OperationInv /\ FpuInv /\ NoLostWakeup
    BY DEF IInv
  <1>1. PoolTypeOK'
    BY <1>0, ThreadKinds DEF PoolTypeOK, CallerLabel
  <1>2. LeaderInv'
    BY <1>0 DEF LeaderInv, Leads, Waiting, Storing
  <1>3. CommandInv'
    BY <1>0 DEF LeaderInv, CommandInv
  <1>4. WorkerInv'
    BY <1>0, ThreadKinds DEF WorkerInv, Busy
  <1>5. Owers' = Owers
    BY <1>0 DEF Owers, Owes, Busy
  <1>6. CountInv'
    BY <1>0, <1>5 DEF CountInv, AtRest, Owes, Busy, Preparing, Open, Running, Waiting
  <1>7. OperationInv'
    <2>1. \A w \in Workers : AtRest(w)
      BY <1>0 DEF PoolTypeOK, CountInv, LeaderInv, CommandInv, Leads, Open, Running, Waiting
    <2>2. \A w \in Workers : pc'[w] \notin {"enter", "run"}
      BY <2>1, <1>0 DEF AtRest, Owes, Busy
    <2> QED BY <2>2, <1>0 DEF OperationInv, LeaderInv, Leads, Waiting, Running
  <1>8. FpuInv'
    BY <1>0 DEF FpuInv
  <1>9. NoLostWakeup'
    BY <1>0 DEF NoLostWakeup
  <1> QED BY <1>1, <1>2, <1>3, <1>4, <1>6, <1>7, <1>8, <1>9 DEF IInv

(* The counter is set while all workers are at rest: it counts them all, *)
(* before any of them owes anything.                                     *)
LEMMA StoreActiveKeepsInv ==
  ASSUME IInv, NEW c \in Callers, StoreActive(c)
  PROVE  IInv'
  <1> USE DEF StoreActive, Goto, fields, fpu
  <1>0. /\ PoolTypeOK /\ LeaderInv /\ CommandInv /\ WorkerInv
        /\ CountInv /\ OperationInv /\ FpuInv /\ NoLostWakeup
    BY DEF IInv
  <1>1. PoolTypeOK'
    BY <1>0, ThreadKinds, CountWorkers DEF PoolTypeOK, CallerLabel
  <1>2. LeaderInv'
    BY <1>0 DEF LeaderInv, Leads, Waiting, Storing
  <1>3. CommandInv'
    BY <1>0 DEF CommandInv, Leads
  <1>4. WorkerInv'
    BY <1>0, ThreadKinds DEF WorkerInv, Busy
  <1>5. Owers' = Owers
    BY <1>0 DEF Owers, Owes, Busy
  <1>6. CountInv'
    <2>1. \A w \in Workers : AtRest(w)
      BY <1>0 DEF PoolTypeOK, CountInv, LeaderInv, CommandInv, Leads, Open, Running, Waiting
    <2>2. \A w \in Workers : AtRest(w)'
      BY <2>1, <1>0 DEF AtRest, Owes, Busy
    <2>3. \A d \in Callers : Preparing(d)' => d = c
      BY <1>0 DEF LeaderInv, Leads, Preparing
    <2> QED BY <2>2, <2>3, <1>0, ThreadKinds DEF PoolTypeOK, CountInv, AtRest, Preparing
  <1>7. OperationInv'
    BY <1>0 DEF OperationInv, LeaderInv, Leads, Waiting, Running
  <1>8. FpuInv'
    BY <1>0 DEF FpuInv
  <1>9. NoLostWakeup'
    BY <1>0 DEF NoLostWakeup
  <1> QED BY <1>1, <1>2, <1>3, <1>4, <1>6, <1>7, <1>8, <1>9 DEF IInv

(* The futex word is set while all workers are at rest. *)
LEMMA StoreHasActiveKeepsInv ==
  ASSUME IInv, NEW c \in Callers, StoreHasActive(c)
  PROVE  IInv'
  <1> USE DEF StoreHasActive, Goto, fields, fpu
  <1>0. /\ PoolTypeOK /\ LeaderInv /\ CommandInv /\ WorkerInv
        /\ CountInv /\ OperationInv /\ FpuInv /\ NoLostWakeup
    BY DEF IInv
  <1>1. PoolTypeOK'
    BY <1>0, ThreadKinds DEF PoolTypeOK, CallerLabel
  <1>2. LeaderInv'
    BY <1>0 DEF LeaderInv, Leads, Waiting, Storing
  <1>3. CommandInv'
    BY <1>0 DEF CommandInv, Leads
  <1>4. WorkerInv'
    BY <1>0, ThreadKinds DEF WorkerInv, Busy
  <1>5. Owers' = Owers
    BY <1>0 DEF Owers, Owes, Busy
  <1>6. CountInv'
    BY <1>0 DEF CountInv, AtRest, Owes, Busy, Preparing
  <1>7. OperationInv'
    BY <1>0 DEF OperationInv, LeaderInv, Leads, Waiting, Running
  <1>8. FpuInv'
    BY <1>0 DEF FpuInv
  <1>9. NoLostWakeup'
    BY <1>0 DEF NoLostWakeup
  <1> QED BY <1>1, <1>2, <1>3, <1>4, <1>6, <1>7, <1>8, <1>9 DEF IInv

(* The parameters are stored while all workers are at rest. *)
LEMMA StoreParamsKeepsInv ==
  ASSUME IInv, NEW c \in Callers, StoreParams(c)
  PROVE  IInv'
  <1> USE DEF StoreParams, Goto, fields, fpu
  <1>0. /\ PoolTypeOK /\ LeaderInv /\ CommandInv /\ WorkerInv
        /\ CountInv /\ OperationInv /\ FpuInv /\ NoLostWakeup
    BY DEF IInv
  <1>1. PoolTypeOK'
    BY <1>0, ThreadKinds DEF PoolTypeOK, CallerLabel
  <1>2. LeaderInv'
    BY <1>0 DEF LeaderInv, Leads, Waiting, Storing
  <1>3. CommandInv'
    BY <1>0 DEF LeaderInv, CommandInv
  <1>4. WorkerInv'
    BY <1>0, ThreadKinds DEF WorkerInv, Busy
  <1>5. Owers' = Owers
    BY <1>0 DEF Owers, Owes, Busy
  <1>6. CountInv'
    BY <1>0 DEF CountInv, AtRest, Owes, Busy, Preparing
  <1>7. OperationInv'
    BY <1>0 DEF OperationInv, LeaderInv, Leads, Waiting, Running
  <1>8. FpuInv'
    BY <1>0 DEF FpuInv
  <1>9. NoLostWakeup'
    BY <1>0 DEF NoLostWakeup
  <1> QED BY <1>1, <1>2, <1>3, <1>4, <1>6, <1>7, <1>8, <1>9 DEF IInv

(* The store of the command makes every worker owe an answer at once, *)
(* because it differs from the last command of each of them.          *)
LEMMA StoreCommandKeepsInv ==
  ASSUME IInv, NEW c \in Callers, StoreCommand(c)
  PROVE  IInv'
  <1> USE DEF StoreCommand, Goto, fields, fpu
  <1>0. /\ PoolTypeOK /\ LeaderInv /\ CommandInv /\ WorkerInv
        /\ CountInv /\ OperationInv /\ FpuInv /\ NoLostWakeup
    BY DEF IInv
  <1>b. Preparing(c) /\ pc[c] # "store_has_active" /\ \A w \in Workers : AtRest(w)
    BY <1>0 DEF CountInv, Preparing
  <1>c. /\ command' \in Command /\ command' # command
        /\ command'.op \in {"parallelize", "shutdown"} /\ command.op # "shutdown"
        /\ command'.op = "shutdown" <=> pool = "stopping"
    <2>1. command \in Command
      BY <1>0 DEF PoolTypeOK, Command
    <2>2. command.op # "shutdown"
      BY <1>0 DEF PoolTypeOK, LeaderInv, CommandInv, Leads
    <2>3. CASE pc[c] = "store_command" /\ command' = NewCommand(command)
      <3>1. pool # "stopping"
        BY <2>3, <1>0 DEF LeaderInv
      <3> QED BY <2>1, <2>2, <2>3, <3>1, NewCommandIsNew
    <2>4. CASE pc[c] = "store_shutdown" /\ command' = ShutdownCommand
      <3>1. pool = "stopping"
        BY <2>4, <1>0 DEF PoolTypeOK, LeaderInv, Storing, Running, Waiting
      <3> QED BY <2>1, <2>2, <2>4, <3>1, NewCommandIsNew
    <2> QED BY <2>3, <2>4
  <1>d. \A w \in Workers : /\ last_command[w] = command
                           /\ pc'[w] = pc[w]
                           /\ pc[w] \in Waiting \cup {"notify"}
    <2>1. \A w \in Workers : last_command[w] = command /\ pc[w] # "clear" /\ ~Busy(w)
      BY <1>b DEF AtRest, Owes
    <2>2. \A w \in Workers : pc[w] # "exited"
      BY <1>0, <1>c DEF WorkerInv
    <2>3. \A w \in Workers : pc'[w] = pc[w]
      BY <1>0, ThreadKinds
    <2>4. \A w \in Workers : pc[w] \in WorkerLabel
      BY <1>0 DEF PoolTypeOK
    <2> QED BY <2>1, <2>2, <2>3, <2>4 DEF WorkerLabel, Busy, Waiting
  <1>1. PoolTypeOK'
    BY <1>0, ThreadKinds, <1>c DEF Command, PoolTypeOK, CallerLabel
  <1>2. LeaderInv'
    BY <1>0 DEF LeaderInv, Leads, Waiting, Running
  <1>3. CommandInv'
    BY <1>0, ThreadKinds, <1>c DEF PoolTypeOK, LeaderInv, CommandInv, Leads, Waiting
  <1>4. WorkerInv'
    BY <1>0, <1>c, <1>d DEF WorkerInv, Busy, Waiting
  <1>5. Owers' = Workers /\ \A w \in Workers : Owes(w)'
    BY <1>c, <1>d DEF Owers, Owes
  <1>6. CountInv'
    <2>1. \A d \in Callers : ~Preparing(d)'
      BY <1>0, ThreadKinds, <1>b DEF PoolTypeOK, LeaderInv, Leads, Preparing
    <2>2. active_threads' = Cardinality(Workers) /\ has_active_threads' = 1
      BY <1>0, <1>b DEF CountInv
    <2>3. Open(c)' /\ \A w \in Workers : pc'[w] # "clear" /\ ~AtRest(w)'
      BY <1>0, ThreadKinds, <1>d, <1>5 DEF PoolTypeOK, Open, Running, Waiting, AtRest
    <2>4. Workers # {}
      BY WorkersAssumption
    <2> QED BY <2>1, <2>2, <2>3, <2>4, <1>5 DEF CountInv
  <1>7. OperationInv'
    <2>1. \A d \in Callers : Leads(d)' => d = c
      BY <1>0 DEF LeaderInv, Leads
    <2>2. pool = "ready" => /\ arguments = c /\ flags = local_flags[c] /\ params = c
                            /\ \A w \in Workers : ran[w] = 0
      BY <1>0 DEF OperationInv, LeaderInv, Leads, Storing, Running, Waiting
    <2> QED BY <2>1, <2>2, <1>0, <1>c, <1>d DEF OperationInv
  <1>8. FpuInv'
    BY <1>0 DEF FpuInv
  <1>9. NoLostWakeup'
    BY <1>0, ThreadKinds DEF PoolTypeOK, NoLostWakeup
  <1> QED BY <1>1, <1>2, <1>3, <1>4, <1>6, <1>7, <1>8, <1>9 DEF IInv

(* The wakeup that the sleeping workers depend on. *)
LEMMA WakeKeepsInv ==
  ASSUME IInv, NEW c \in Callers, Wake(c)
  PROVE  IInv'
  <1> USE DEF Wake, WakeAll, fields, fpu
  <1>0. /\ PoolTypeOK /\ LeaderInv /\ CommandInv /\ WorkerInv
        /\ CountInv /\ OperationInv /\ FpuInv /\ NoLostWakeup
    BY DEF IInv
  <1>1. PoolTypeOK'
    BY <1>0, ThreadKinds DEF PoolTypeOK, CallerLabel, WorkerLabel
  <1>2. LeaderInv'
    BY <1>0, ThreadKinds DEF LeaderInv, Leads, Waiting, Running
  <1>3. CommandInv'
    BY <1>0, ThreadKinds DEF CommandInv, Leads
  <1>4. WorkerInv'
    BY <1>0, ThreadKinds DEF WorkerInv, Busy, Waiting
  <1>5. Owers' = Owers
    BY <1>0, ThreadKinds DEF Owers, Owes, Busy
  <1>6. CountInv'
    <2>1. pool = "stopping" => command.op = "shutdown"
      BY <1>0 DEF CommandInv, Leads
    <2>2. pool \in {"ready", "stopping"}
      BY <1>0 DEF PoolTypeOK, LeaderInv, Waiting
    <2>3. pool = "ready" => Open(c)'
      BY <1>0, ThreadKinds DEF Open, Running
    <2>4. \A d \in Callers : Preparing(d)' <=> Preparing(d)
      BY <1>0, ThreadKinds DEF Preparing
    <2>5. \A w \in Workers : (Owes(w)' <=> Owes(w)) /\ (AtRest(w)' <=> AtRest(w))
                             /\ (pc'[w] = "clear" <=> pc[w] = "clear")
      BY <1>0, ThreadKinds DEF AtRest, Owes, Busy
    <2>6. \A d \in Callers : Preparing(d) => pc'[d] = "store_has_active" <=> pc[d] = "store_has_active"
      BY <1>0, ThreadKinds
    <2> QED BY <1>0, <1>5, <2>1, <2>2, <2>3, <2>4, <2>5, <2>6 DEF CountInv
  <1>7. OperationInv'
    BY <1>0, ThreadKinds DEF OperationInv, LeaderInv, Leads, Storing
  <1>8. FpuInv'
    BY <1>0 DEF FpuInv
  <1>9. NoLostWakeup'
    BY <1>0, ThreadKinds DEF NoLostWakeup
  <1> QED BY <1>1, <1>2, <1>3, <1>4, <1>6, <1>7, <1>8, <1>9 DEF IInv

(* The caller sets up its FPU ... *)
LEMMA EnterKeepsInv ==
  ASSUME IInv, NEW c \in Callers, Enter(c)
  PROVE  IInv'
  <1> USE DEF Enter, Goto, fields, fpu
  <1>0. /\ PoolTypeOK /\ LeaderInv /\ CommandInv /\ WorkerInv
        /\ CountInv /\ OperationInv /\ FpuInv /\ NoLostWakeup
    BY DEF IInv
  <1>1. PoolTypeOK'
    <2>1. denormals' \in [Threads -> BOOLEAN] /\ saved_denormals' \in [Threads -> BOOLEAN]
      BY <1>0 DEF PoolTypeOK, SetFpu
    <2>2. ran' \in [Workers -> Nat]
      BY <1>0 DEF PoolTypeOK
    <2> QED BY <2>1, <2>2, <1>0, ThreadKinds DEF PoolTypeOK, CallerLabel
  <1>2. LeaderInv'
    BY <1>0 DEF LeaderInv, Leads, Waiting, Running
  <1>3. CommandInv'
    BY <1>0 DEF LeaderInv, CommandInv
  <1>4. WorkerInv'
    BY <1>0 DEF WorkerInv, Busy
  <1>5. Owers' = Owers
    BY <1>0 DEF Owers, Owes, Busy
  <1>6. CountInv'
    BY <1>0, <1>5 DEF CountInv, AtRest, Owes, Busy, Preparing, Open, Running
  <1>7. OperationInv'
    BY <1>0, ThreadKinds DEF OperationInv, LeaderInv, Leads, Storing
  <1>8. FpuInv'
    <2>1. CASE "DISABLE_DENORMALS" \in local_flags[c]
      BY <2>1, <1>0 DEF PoolTypeOK, FpuInv, SetFpu
    <2>2. CASE "DISABLE_DENORMALS" \notin local_flags[c]
      BY <2>2, <1>0 DEF FpuInv, SetFpu
    <2> QED BY <2>1, <2>2
  <1>9. NoLostWakeup'
    BY <1>0 DEF NoLostWakeup
  <1> QED BY <1>1, <1>2, <1>3, <1>4, <1>6, <1>7, <1>8, <1>9 DEF IInv

(* ... and restores it. *)
LEMMA LeaveKeepsInv ==
  ASSUME IInv, NEW c \in Callers, Leave(c)
  PROVE  IInv'
  <1> USE DEF Leave, RestoreFpu, Goto, fields, fpu
  <1>0. /\ PoolTypeOK /\ LeaderInv /\ CommandInv /\ WorkerInv
        /\ CountInv /\ OperationInv /\ FpuInv /\ NoLostWakeup
    BY DEF IInv
  <1>1. PoolTypeOK'
    BY <1>0, ThreadKinds DEF PoolTypeOK, CallerLabel
  <1>2. LeaderInv'
    BY <1>0 DEF LeaderInv, Leads, Waiting, Running
  <1>3. CommandInv'
    BY <1>0 DEF LeaderInv, CommandInv
  <1>4. WorkerInv'
    BY <1>0 DEF WorkerInv, Busy
  <1>5. Owers' = Owers
    BY <1>0, ThreadKinds DEF Owers, Owes, Busy
  <1>6. CountInv'
    BY <1>0, ThreadKinds, <1>5
       DEF CountInv, AtRest, Owes, Busy, Preparing, Open, Running, Waiting
  <1>7. OperationInv'
    BY <1>0 DEF OperationInv, LeaderInv, Leads, Storing
  <1>8. FpuInv'
    BY <1>0 DEF PoolTypeOK, FpuInv
  <1>9. NoLostWakeup'
    BY <1>0 DEF NoLostWakeup
  <1> QED BY <1>1, <1>2, <1>3, <1>4, <1>6, <1>7, <1>8, <1>9 DEF IInv

(* A caller that finds the futex word clear finds all workers at rest. *)
LEMMA AllCheckedInKeepsInv ==
  ASSUME IInv, NEW c \in Callers, AllCheckedIn(c)
  PROVE  IInv'
  <1> USE DEF AllCheckedIn, WaitIsOver, Goto, fields, fpu
  <1>0. /\ PoolTypeOK /\ LeaderInv /\ CommandInv /\ WorkerInv
        /\ CountInv /\ OperationInv /\ FpuInv /\ NoLostWakeup
    BY DEF IInv
  <1>1. PoolTypeOK'
    BY <1>0, ThreadKinds DEF PoolTypeOK, CallerLabel
  <1>2. LeaderInv'
    BY <1>0, ThreadKinds DEF PoolTypeOK, LeaderInv, Leads
  <1>3. CommandInv'
    BY <1>0 DEF LeaderInv, CommandInv
  <1>4. WorkerInv'
    <2>1. pool = "creating" => \A w \in Workers : AtRest(w)
      BY <1>0 DEF CountInv, CommandInv
    <2> QED BY <2>1, <1>0, ThreadKinds DEF PoolTypeOK, WorkerInv, AtRest, Owes, Busy
  <1>5. Owers' = Owers
    BY <1>0, ThreadKinds DEF PoolTypeOK, Owers, Owes, Busy
  <1>6. CountInv'
    BY <1>0, ThreadKinds, <1>5 DEF PoolTypeOK, CountInv, AtRest, Owes, Busy, Preparing
  <1>7. OperationInv'
    BY <1>0, ThreadKinds DEF PoolTypeOK, OperationInv, LeaderInv, Leads, Storing
  <1>8. FpuInv'
    BY <1>0 DEF PoolTypeOK, FpuInv
  <1>9. NoLostWakeup'
    BY <1>0, ThreadKinds DEF PoolTypeOK, NoLostWakeup
  <1> QED BY <1>1, <1>2, <1>3, <1>4, <1>6, <1>7, <1>8, <1>9 DEF IInv

(* The leader leaves, all workers are at rest. *)
LEMMA UnlockKeepsInv ==
  ASSUME IInv, NEW c \in Callers, Unlock(c)
  PROVE  IInv'
  <1> USE DEF Unlock, Goto, fields, fpu
  <1>0. /\ PoolTypeOK /\ LeaderInv /\ CommandInv /\ WorkerInv
        /\ CountInv /\ OperationInv /\ FpuInv /\ NoLostWakeup
    BY DEF IInv
  <1>1. PoolTypeOK'
    BY <1>0, ThreadKinds DEF PoolTypeOK, CallerLabel
  <1>2. LeaderInv'
    BY <1>0, ThreadKinds DEF PoolTypeOK, LeaderInv, Leads, Waiting
  <1>3. CommandInv'
    BY <1>0 DEF LeaderInv, CommandInv
  <1>4. WorkerInv'
    BY <1>0, ThreadKinds DEF WorkerInv, Busy
  <1>5. Owers' = Owers
    BY <1>0 DEF Owers, Owes, Busy
  <1>6. CountInv'
    BY <1>0, <1>5 DEF CountInv, AtRest, Owes, Busy, Preparing, Open, Running, Waiting
  <1>7. OperationInv'
    BY <1>0 DEF OperationInv, Leads
  <1>8. FpuInv'
    BY <1>0 DEF FpuInv
  <1>9. NoLostWakeup'
    BY <1>0 DEF NoLostWakeup
  <1> QED BY <1>1, <1>2, <1>3, <1>4, <1>6, <1>7, <1>8, <1>9 DEF IInv

-----------------------------------------------------------------------------
(* The steps of pthreadpool_destroy. *)

(* The last call of the user: its thread becomes the leader. *)
LEMMA DestroyKeepsInv ==
  ASSUME IInv, NEW c \in Callers, Destroy(c)
  PROVE  IInv'
  <1> USE DEF Destroy, Goto, fields, fpu
  <1>0. /\ PoolTypeOK /\ LeaderInv /\ CommandInv /\ WorkerInv
        /\ CountInv /\ OperationInv /\ FpuInv /\ NoLostWakeup
    BY DEF IInv
  <1>1. PoolTypeOK'
    BY <1>0, ThreadKinds DEF PoolTypeOK, CallerLabel
  <1>2. LeaderInv'
    BY <1>0, ThreadKinds DEF PoolTypeOK, LeaderInv, Leads
  <1>3. CommandInv'
    BY <1>0 DEF CommandInv
  <1>4. WorkerInv'
    BY <1>0, ThreadKinds DEF WorkerInv, Busy
  <1>5. Owers' = Owers
    BY <1>0 DEF Owers, Owes, Busy
  <1>6. CountInv'
    BY <1>0, <1>5 DEF CountInv, AtRest, Owes, Busy, Preparing, Open, Running, Waiting
  <1>7. OperationInv'
    BY <1>0 DEF OperationInv
  <1>8. FpuInv'
    BY <1>0 DEF FpuInv
  <1>9. NoLostWakeup'
    BY <1>0 DEF NoLostWakeup
  <1> QED BY <1>1, <1>2, <1>3, <1>4, <1>6, <1>7, <1>8, <1>9 DEF IInv

(* The pool is released. *)
LEMMA JoinKeepsInv ==
  ASSUME IInv, NEW c \in Callers, Join(c)
  PROVE  IInv'
  <1> USE DEF Join, Goto, fields, fpu
  <1>0. /\ PoolTypeOK /\ LeaderInv /\ CommandInv /\ WorkerInv
        /\ CountInv /\ OperationInv /\ FpuInv /\ NoLostWakeup
    BY DEF IInv
  <1>1. PoolTypeOK'
    BY <1>0, ThreadKinds DEF PoolTypeOK, CallerLabel
  <1>2. LeaderInv'
    BY <1>0, ThreadKinds DEF PoolTypeOK, LeaderInv, Leads, Waiting, Storing, Running
  <1>3. CommandInv'
    BY <1>0 DEF PoolTypeOK, LeaderInv, CommandInv, Leads, Waiting, Storing, Running
  <1>4. WorkerInv'
    BY <1>0 DEF WorkerInv
  <1>5. Owers' = Owers
    BY <1>0 DEF Owers, Owes, Busy
  <1>6. CountInv'
    BY <1>0, <1>5 DEF CountInv, AtRest, Owes, Busy, Preparing, Open, Running, Waiting
  <1>7. OperationInv'
    BY <1>0 DEF OperationInv
  <1>8. FpuInv'
    BY <1>0 DEF FpuInv
  <1>9. NoLostWakeup'
    BY <1>0 DEF NoLostWakeup
  <1> QED BY <1>1, <1>2, <1>3, <1>4, <1>6, <1>7, <1>8, <1>9 DEF IInv

-----------------------------------------------------------------------------
(* The steps of a worker. *)

(* A worker that checks in owes nothing any more, and only the last one *)
(* finds the counter at zero.                                           *)
LEMMA CheckinKeepsInv ==
  ASSUME IInv, NEW w \in Workers, Checkin(w)
  PROVE  IInv'
  <1> USE DEF Checkin, Goto, fields, fpu
  <1>0. /\ PoolTypeOK /\ LeaderInv /\ CommandInv /\ WorkerInv
        /\ CountInv /\ OperationInv /\ FpuInv /\ NoLostWakeup
    BY DEF IInv
  <1>b. Owes(w) /\ w \in Owers /\ ~AtRest(w) /\ command.op # "shutdown"
    BY <1>0 DEF Owes, Owers, Busy, AtRest, WorkerInv, Waiting
  <1>c. /\ \A c \in Callers : ~Preparing(c)
        /\ active_threads = Cardinality(Owers) /\ has_active_threads = 1
        /\ \A v \in Workers : pc[v] # "clear"
    BY <1>0, <1>b DEF PoolTypeOK, CountInv
  <1>d. /\ active_threads' = Cardinality(Owers \ {w}) /\ active_threads' \in 0 .. Cardinality(Workers)
        /\ active_threads' = 0 <=> Owers \ {w} = {}
    <2>1. IsFiniteSet(Owers \ {w}) /\ Cardinality(Owers \ {w}) = Cardinality(Owers) - 1
      BY <1>b, CountWorkers, FS_RemoveElement
    <2>2. Cardinality(Owers \ {w}) = 0 <=> Owers \ {w} = {}
      BY <2>1, FS_EmptySet
    <2>3. Cardinality(Owers \ {w}) \in Nat
      BY <2>1, FS_CardinalityType
    <2> QED BY <2>1, <2>2, <2>3, <1>c, CountWorkers
  <1>1. PoolTypeOK'
    BY <1>0, ThreadKinds, <1>d DEF PoolTypeOK, WorkerLabel
  <1>2. LeaderInv'
    BY <1>0, ThreadKinds DEF LeaderInv, Leads
  <1>3. CommandInv'
    BY <1>0 DEF CommandInv, Leads
  <1>4. WorkerInv'
    BY <1>0 DEF WorkerInv, Busy, Waiting
  <1>5. /\ Owers' = Owers \ {w} /\ \A v \in Workers : Owes(v)' <=> v \in Owers \ {w}
    <2>1. ~Owes(w)'
      BY <1>0, ThreadKinds DEF PoolTypeOK, WorkerInv, Owes, Busy
    <2>2. \A v \in Workers : v # w => (Owes(v)' <=> Owes(v))
      BY <1>0 DEF Owes, Busy
    <2> QED BY <2>1, <2>2 DEF Owers
  <1>6. CountInv'
    <2>1. \A c \in Callers : ~Preparing(c)' /\ (Open(c)' <=> Open(c))
      BY <1>0, ThreadKinds, <1>c DEF Preparing, Open
    <2>2. \A v \in Workers : pc'[v] = "clear" <=> v = w /\ Owers' = {}
      BY <1>0, ThreadKinds, <1>c, <1>d, <1>5 DEF PoolTypeOK
    <2>3. \E c \in Callers : Open(c)
      BY <1>0, <1>b DEF CountInv
    <2>4. ~\A v \in Workers : AtRest(v)'
      BY <2>2 DEF AtRest, Owers
    <2> QED BY <1>5, <1>c, <1>d, <2>1, <2>2, <2>3, <2>4 DEF CountInv
  <1>7. OperationInv'
    BY <1>0, ThreadKinds DEF OperationInv, Leads
  <1>8. FpuInv'
    BY <1>0 DEF FpuInv
  <1>9. NoLostWakeup'
    BY <1>0 DEF NoLostWakeup
  <1> QED BY <1>1, <1>2, <1>3, <1>4, <1>6, <1>7, <1>8, <1>9 DEF IInv

(* The last worker clears the futex word, on which the caller may sleep ... *)
LEMMA ClearKeepsInv ==
  ASSUME IInv, NEW w \in Workers, Clear(w)
  PROVE  IInv'
  <1> USE DEF Clear, Goto, fields, fpu
  <1>0. /\ PoolTypeOK /\ LeaderInv /\ CommandInv /\ WorkerInv
        /\ CountInv /\ OperationInv /\ FpuInv /\ NoLostWakeup
    BY DEF IInv
  <1>1. PoolTypeOK'
    BY <1>0, ThreadKinds DEF PoolTypeOK, WorkerLabel
  <1>2. LeaderInv'
    BY <1>0, ThreadKinds DEF LeaderInv, Leads
  <1>3. CommandInv'
    BY <1>0 DEF CommandInv, Leads
  <1>4. WorkerInv'
    BY <1>0 DEF WorkerInv, Busy
  <1>5. Owers' = Owers
    BY <1>0 DEF Owers, Owes, Busy
  <1>6. CountInv'
    BY <1>0, ThreadKinds, <1>5 DEF PoolTypeOK, CountInv, AtRest, Owes, Busy, Preparing
  <1>7. OperationInv'
    BY <1>0, ThreadKinds DEF OperationInv, Leads
  <1>8. FpuInv'
    BY <1>0 DEF FpuInv
  <1>9. NoLostWakeup'
    BY <1>0, ThreadKinds DEF PoolTypeOK, NoLostWakeup
  <1> QED BY <1>1, <1>2, <1>3, <1>4, <1>6, <1>7, <1>8, <1>9 DEF IInv

(* ... and wakes the caller up. *)
LEMMA NotifyKeepsInv ==
  ASSUME IInv, NEW w \in Workers, Notify(w)
  PROVE  IInv'
  <1> USE DEF Notify, WakeAll, fields, fpu
  <1>0. /\ PoolTypeOK /\ LeaderInv /\ CommandInv /\ WorkerInv
        /\ CountInv /\ OperationInv /\ FpuInv /\ NoLostWakeup
    BY DEF IInv
  <1>1. PoolTypeOK'
    BY <1>0, ThreadKinds DEF PoolTypeOK, CallerLabel, WorkerLabel
  <1>2. LeaderInv'
    BY <1>0, ThreadKinds DEF LeaderInv, Leads, Waiting, Running
  <1>3. CommandInv'
    BY <1>0, ThreadKinds DEF CommandInv, Leads
  <1>4. WorkerInv'
    BY <1>0, ThreadKinds DEF WorkerInv, Busy, Waiting
  <1>5. Owers' = Owers
    BY <1>0, ThreadKinds DEF Owers, Owes, Busy
  <1>6. CountInv'
    BY <1>0, ThreadKinds, <1>5
       DEF CountInv, AtRest, Owes, Busy, Preparing, Open, Running, Waiting
  <1>7. OperationInv'
    BY <1>0, ThreadKinds DEF OperationInv, LeaderInv, Leads, Storing
  <1>8. FpuInv'
    BY <1>0 DEF FpuInv
  <1>9. NoLostWakeup'
    BY <1>0, ThreadKinds DEF NoLostWakeup
  <1> QED BY <1>1, <1>2, <1>3, <1>4, <1>6, <1>7, <1>8, <1>9 DEF IInv

(* A worker that sees a new command owes its check-in as before. *)
LEMMA SeeCommandKeepsInv ==
  ASSUME IInv, NEW w \in Workers, SeeCommand(w)
  PROVE  IInv'
  <1> USE DEF SeeCommand, Goto, fields, fpu
  <1>0. /\ PoolTypeOK /\ LeaderInv /\ CommandInv /\ WorkerInv
        /\ CountInv /\ OperationInv /\ FpuInv /\ NoLostWakeup
    BY DEF IInv
  <1>1. PoolTypeOK'
    BY <1>0, ThreadKinds DEF PoolTypeOK, WorkerLabel
  <1>2. LeaderInv'
    BY <1>0, ThreadKinds DEF LeaderInv, Leads
  <1>3. CommandInv'
    BY <1>0 DEF CommandInv, Leads
  <1>4. WorkerInv'
    BY <1>0 DEF PoolTypeOK, WorkerInv, CommandInv, Busy
  <1>5. Owers' = Owers
    BY <1>0, ThreadKinds DEF PoolTypeOK, Owers, Owes, Busy
  <1>6. CountInv'
    BY <1>0, ThreadKinds, <1>5 DEF PoolTypeOK, CountInv, AtRest, Owes, Busy, Preparing, Open
  <1>7. OperationInv'
    BY <1>0, ThreadKinds DEF PoolTypeOK, OperationInv, Leads
  <1>8. FpuInv'
    BY <1>0 DEF FpuInv
  <1>9. NoLostWakeup'
    BY <1>0 DEF NoLostWakeup
  <1> QED BY <1>1, <1>2, <1>3, <1>4, <1>6, <1>7, <1>8, <1>9 DEF IInv

(* A worker that sees no new command falls asleep only if there is none. *)
LEMMA SleepKeepsInv ==
  ASSUME IInv, NEW w \in Workers, SeeNothing(w) \/ SleepOnCommand(w)
  PROVE  IInv'
  <1> USE DEF SeeNothing, SleepOnCommand, Goto, fields, fpu
  <1>0. /\ PoolTypeOK /\ LeaderInv /\ CommandInv /\ WorkerInv
        /\ CountInv /\ OperationInv /\ FpuInv /\ NoLostWakeup
    BY DEF IInv
  <1>1. PoolTypeOK'
    BY <1>0, ThreadKinds DEF PoolTypeOK, WorkerLabel
  <1>2. LeaderInv'
    BY <1>0, ThreadKinds DEF PoolTypeOK, LeaderInv, Leads
  <1>3. CommandInv'
    BY <1>0, ThreadKinds DEF PoolTypeOK, CommandInv, Leads
  <1>4. WorkerInv'
    BY <1>0, ThreadKinds DEF PoolTypeOK, WorkerInv, Busy, Waiting
  <1>5. Owers' = Owers
    BY <1>0, ThreadKinds DEF PoolTypeOK, Owers, Owes, Busy
  <1>6. CountInv'
    BY <1>0, ThreadKinds, <1>5 DEF PoolTypeOK, CountInv, AtRest, Owes, Busy, Preparing, Open
  <1>7. OperationInv'
    BY <1>0, ThreadKinds DEF PoolTypeOK, OperationInv, Leads
  <1>8. FpuInv'
    BY <1>0 DEF PoolTypeOK, FpuInv
  <1>9. NoLostWakeup'
    BY <1>0, ThreadKinds DEF PoolTypeOK, NoLostWakeup
  <1> QED BY <1>1, <1>2, <1>3, <1>4, <1>6, <1>7, <1>8, <1>9 DEF IInv

(* A worker does what the command says. *)
LEMMA DispatchKeepsInv ==
  ASSUME IInv, NEW w \in Workers, Dispatch(w)
  PROVE  IInv'
  <1> USE DEF Dispatch, Goto, fields, fpu
  <1>0. /\ PoolTypeOK /\ LeaderInv /\ CommandInv /\ WorkerInv
        /\ CountInv /\ OperationInv /\ FpuInv /\ NoLostWakeup
    BY DEF IInv
  <1>1. PoolTypeOK'
    BY <1>0, ThreadKinds DEF PoolTypeOK, WorkerLabel
  <1>2. LeaderInv'
    BY <1>0, ThreadKinds DEF LeaderInv, Leads
  <1>3. CommandInv'
    BY <1>0, ThreadKinds DEF CommandInv, Leads
  <1>4. WorkerInv'
    BY <1>0 DEF PoolTypeOK, WorkerInv, Busy
  <1>5. command.op # "shutdown" => Owers' = Owers
    <2>1. last_command[w] = command /\ command.op \in {"parallelize", "shutdown"}
      BY <1>0 DEF PoolTypeOK, WorkerInv, Busy
    <2> QED BY <2>1, <1>0 DEF Owers, Owes, Busy
  <1>6. CountInv'
    BY <1>0, ThreadKinds, <1>5 DEF PoolTypeOK, CountInv, AtRest, Owes, Busy, Preparing, Open
  <1>7. OperationInv'
    BY <1>0, ThreadKinds DEF PoolTypeOK, OperationInv, WorkerInv, CommandInv, Leads
  <1>8. FpuInv'
    BY <1>0 DEF PoolTypeOK, FpuInv
  <1>9. NoLostWakeup'
    BY <1>0 DEF PoolTypeOK, NoLostWakeup
  <1> QED BY <1>1, <1>2, <1>3, <1>4, <1>6, <1>7, <1>8, <1>9 DEF IInv

(* A worker calls the thread function, for the first time in this operation. *)
LEMMA WorkerEnterKeepsInv ==
  ASSUME IInv, NEW w \in Workers, WorkerEnter(w)
  PROVE  IInv'
  <1> USE DEF WorkerEnter, Goto, fields, fpu
  <1>0. /\ PoolTypeOK /\ LeaderInv /\ CommandInv /\ WorkerInv
        /\ CountInv /\ OperationInv /\ FpuInv /\ NoLostWakeup
    BY DEF IInv
  <1>1. PoolTypeOK'
    <2>1. denormals' \in [Threads -> BOOLEAN] /\ saved_denormals' \in [Threads -> BOOLEAN]
      BY <1>0 DEF PoolTypeOK, SetFpu
    <2>2. ran' \in [Workers -> Nat]
      BY <1>0 DEF PoolTypeOK
    <2> QED BY <2>1, <2>2, <1>0, ThreadKinds DEF PoolTypeOK, WorkerLabel
  <1>2. LeaderInv'
    BY <1>0, ThreadKinds DEF LeaderInv, Leads
  <1>3. CommandInv'
    BY <1>0 DEF CommandInv, Leads
  <1>4. WorkerInv'
    BY <1>0 DEF WorkerInv, Busy
  <1>5. Owers' = Owers
    BY <1>0 DEF Owers, Owes, Busy
  <1>6. CountInv'
    BY <1>0, ThreadKinds, <1>5 DEF CountInv, AtRest, Owes, Busy, Preparing, Open
  <1>7. OperationInv'
    <2>1. command = last_command[w] /\ last_command' = last_command /\ command' = command
      BY <1>0 DEF WorkerInv, Busy
    <2>2. \A c \in Callers : pool = "ready" /\ Leads(c) =>
            pc[c] \in {"unlock"} \cup Running /\ ran[w] = 0
      <3>1. SUFFICES ASSUME NEW c \in Callers, pool = "ready", Leads(c)
                     PROVE  pc[c] \in {"unlock"} \cup Running /\ ran[w] = 0
        OBVIOUS
      <3>2. ~AtRest(w) /\ command.op # "shutdown"
        BY <1>0 DEF AtRest, Owes, Busy, WorkerInv
      <3>3. PICK d \in Callers : Open(d)
        BY <3>2, <1>0 DEF CountInv
      <3>4. d = c
        BY <3>1, <3>3, <1>0 DEF LeaderInv, Leads, Open, Running, Waiting
      <3>5. pc[c] \in {"unlock"} \cup Running
        BY <3>1, <3>3, <3>4, <1>0 DEF LeaderInv, Open, Storing
      <3> QED BY <3>1, <3>5, <1>0 DEF OperationInv
    <2>3. ran'[w] = ran[w] + 1 /\ \A v \in Workers : v # w => ran'[v] = ran[v] /\ pc'[v] = pc[v]
      BY <1>0 DEF PoolTypeOK
    <2>4. pc'[w] = "run" /\ \A c \in Callers : pc'[c] = pc[c]
      BY <1>0, ThreadKinds DEF PoolTypeOK
    <2>5. \A c \in Callers : pool' = "ready" /\ Leads(c)' => pool = "ready" /\ Leads(c)
      BY <2>4 DEF Leads
    <2> QED BY <2>1, <2>2, <2>3, <2>4, <2>5, <1>0
           DEF OperationInv, Storing, Running, Waiting
  <1>8. FpuInv'
    <2>1. CASE "DISABLE_DENORMALS" \in local_flags[w]
      BY <2>1, <1>0 DEF PoolTypeOK, FpuInv, SetFpu
    <2>2. CASE "DISABLE_DENORMALS" \notin local_flags[w]
      BY <2>2, <1>0 DEF FpuInv, SetFpu
    <2> QED BY <2>1, <2>2
  <1>9. NoLostWakeup'
    BY <1>0 DEF NoLostWakeup
  <1> QED BY <1>1, <1>2, <1>3, <1>4, <1>6, <1>7, <1>8, <1>9 DEF IInv

(* A worker returns from the thread function. *)
LEMMA WorkerLeaveKeepsInv ==
  ASSUME IInv, NEW w \in Workers, WorkerLeave(w)
  PROVE  IInv'
  <1> USE DEF WorkerLeave, RestoreFpu, Goto, fields, fpu
  <1>0. /\ PoolTypeOK /\ LeaderInv /\ CommandInv /\ WorkerInv
        /\ CountInv /\ OperationInv /\ FpuInv /\ NoLostWakeup
    BY DEF IInv
  <1>1. PoolTypeOK'
    BY <1>0, ThreadKinds DEF PoolTypeOK, WorkerLabel
  <1>2. LeaderInv'
    BY <1>0, ThreadKinds DEF LeaderInv, Leads
  <1>3. CommandInv'
    BY <1>0 DEF CommandInv, Leads
  <1>4. WorkerInv'
    BY <1>0 DEF WorkerInv, Busy
  <1>5. Owers' = Owers
    BY <1>0 DEF Owers, Owes, Busy
  <1>6. CountInv'
    BY <1>0, ThreadKinds, <1>5 DEF CountInv, AtRest, Owes, Busy, Preparing, Open
  <1>7. OperationInv'
    BY <1>0, ThreadKinds DEF OperationInv, Leads
  <1>8. FpuInv'
    BY <1>0 DEF PoolTypeOK, FpuInv
  <1>9. NoLostWakeup'
    BY <1>0 DEF NoLostWakeup
  <1> QED BY <1>1, <1>2, <1>3, <1>4, <1>6, <1>7, <1>8, <1>9 DEF IInv

-----------------------------------------------------------------------------
(* The invariant holds initially ... *)
LEMMA InitEstablishesInv ==
  ASSUME Init
  PROVE  IInv
  <1> USE DEF Init
  <1>0. PICK creator \in Callers :
          pc = [t \in Threads |-> IF t \in Workers THEN "unborn"
                                  ELSE IF t = creator THEN "spawn" ELSE "idle"]
    OBVIOUS
  <1>1. PoolTypeOK
    BY <1>0, ThreadKinds, CountWorkers DEF PoolTypeOK, CallerLabel, WorkerLabel, InitCommand
  <1>2. LeaderInv
    BY <1>0, ThreadKinds DEF LeaderInv, Leads
  <1>3. CommandInv
    BY <1>0 DEF CommandInv, InitCommand
  <1>4. WorkerInv
    BY <1>0, ThreadKinds DEF WorkerInv, InitCommand
  <1>5. Owers = Workers /\ \A w \in Workers : Owes(w)
    BY <1>0, ThreadKinds DEF Owers, Owes, Busy
  <1>6. CountInv
    <2>1. \A c \in Callers : ~Preparing(c)
      BY <1>0, ThreadKinds DEF Preparing
    <2>2. Open(creator)
      BY <1>0, ThreadKinds DEF Open
    <2>3. ~\A w \in Workers : AtRest(w)
      BY <1>5, WorkersAssumption DEF AtRest
    <2>4. \A w \in Workers : pc[w] # "clear"
      BY <1>0, ThreadKinds
    <2> QED BY <1>5, <2>1, <2>2, <2>3, <2>4 DEF CountInv
  <1>7. OperationInv
    BY <1>0, ThreadKinds DEF OperationInv
  <1>8. FpuInv
    BY <1>0 DEF FpuInv
  <1>9. NoLostWakeup
    BY <1>0 DEF NoLostWakeup
  <1> QED BY <1>1, <1>2, <1>3, <1>4, <1>6, <1>7, <1>8, <1>9 DEF IInv

(* ... a step that changes nothing keeps it ... *)
LEMMA StutteringKeepsInv ==
  ASSUME IInv, UNCHANGED vars
  PROVE  IInv'
  <1> USE DEF vars, fields, fpu
  <1>1. PoolTypeOK' /\ FpuInv' /\ NoLostWakeup'
    BY DEF IInv, PoolTypeOK, FpuInv, NoLostWakeup
  <1>2. LeaderInv' /\ CommandInv'
    BY DEF IInv, LeaderInv, CommandInv, Leads
  <1>3. WorkerInv' /\ OperationInv'
    BY DEF IInv, WorkerInv, OperationInv, Busy, Leads
  <1>4. Owers' = Owers
    BY DEF Owers, Owes, Busy
  <1>5. CountInv'
    BY <1>4 DEF IInv, CountInv, AtRest, Owes, Busy, Preparing, Open
  <1> QED BY <1>1, <1>2, <1>3, <1>5 DEF IInv

(* ... and so does every step of a thread, the user or the system. *)
LEMMA NextKeepsInv ==
  ASSUME IInv, Next
  PROVE  IInv'
  <1>1. CASE \E w \in Workers : WorkerStep(w)
    <2>1. PICK w \in Workers : WorkerStep(w)
      BY <1>1
    <2> QED BY <2>1, CheckinKeepsInv, ClearKeepsInv, NotifyKeepsInv, SeeCommandKeepsInv,
               SleepKeepsInv, DispatchKeepsInv, WorkerEnterKeepsInv, WorkerLeaveKeepsInv
            DEF WorkerStep
  <1>2. CASE \E c \in Callers : CallerStep(c)
    <2>1. PICK c \in Callers : CallerStep(c)
      BY <1>2
    <2> QED BY <2>1, SpawnKeepsInv, WaitKeepsInv, LockKeepsInv, StoreArgumentsKeepsInv,
               StoreActiveKeepsInv, StoreHasActiveKeepsInv, StoreParamsKeepsInv,
               StoreCommandKeepsInv, WakeKeepsInv, EnterKeepsInv, LeaveKeepsInv,
               AllCheckedInKeepsInv, UnlockKeepsInv, JoinKeepsInv
            DEF CallerStep
  <1>3. CASE Environment
    BY <1>3, ParallelizeKeepsInv, DestroyKeepsInv, SpawnKeepsInv, SpuriousWakeupKeepsInv
       DEF Environment
  <1> QED BY <1>1, <1>2, <1>3 DEF Next

(* The invariant holds in every state the handshake can reach. *)
THEOREM InductiveInvariant == Spec => []IInv
  <1>1. IInv /\ [Next]_vars => IInv'
    BY NextKeepsInv, StutteringKeepsInv
  <1> QED BY <1>1, InitEstablishesInv, PTL DEF Spec

-----------------------------------------------------------------------------
(* The theorems. *)

(* Every field and every label has a value it can have: active_threads, in *)
(* particular, never goes below zero.                                      *)
THEOREM PoolTypeCorrect == Spec => []PoolTypeOK
  <1>1. IInv => PoolTypeOK
    BY DEF IInv
  <1> QED BY <1>1, InductiveInvariant, PTL

(* Every wakeup that a sleeping thread depends on is still to come. *)
THEOREM WakeupsAreNotLost == Spec => []NoLostWakeup
  <1>1. IInv => NoLostWakeup
    BY DEF IInv
  <1> QED BY <1>1, InductiveInvariant, PTL

(* active_threads counts the workers that still have to check in. *)
LEMMA InvCountsOwers ==
  ASSUME IInv
  PROVE  ActiveThreadsCountsOwers
  <1>1. pool \in {"creating", "ready"} => command.op # "shutdown"
    BY DEF IInv, CommandInv
  <1>2. CountInv
    BY DEF IInv
  <1> QED BY <1>1, <1>2 DEF CountInv, ActiveThreadsCountsOwers, Owers

(* A worker is neither forgotten nor counted twice in active_threads. *)
THEOREM CounterCountsOwers == Spec => []ActiveThreadsCountsOwers
  BY InvCountsOwers, InductiveInvariant, PTL

(* When an operation is about to return every worker has run it and is at *)
(* rest, and none is missing when a pool has been created.                *)
LEMMA InvNoEarlyReturn ==
  ASSUME IInv
  PROVE  NoEarlyReturn
  <1>1. PoolTypeOK /\ LeaderInv /\ CountInv /\ CommandInv /\ WorkerInv /\ OperationInv
    BY DEF IInv
  <1>2. ASSUME NEW c \in Callers, NEW w \in Workers, pc[c] = "unlock"
        PROVE  ran[w] = 1 /\ ~Owes(w)
    <2>1. pool = "ready" /\ Leads(c)
      BY <1>1, <1>2 DEF PoolTypeOK, LeaderInv, Leads, Waiting
    <2>2. \A d \in Callers : ~Open(d)
      BY <1>1, <1>2, <2>1 DEF LeaderInv, Leads, Open, Running, Waiting
    <2>3. AtRest(w)
      BY <1>1, <2>1, <2>2 DEF CountInv, CommandInv
    <2> QED BY <1>1, <1>2, <2>1, <2>3 DEF OperationInv, AtRest, Owes, Busy
  <1>3. pool = "ready" => \A w \in Workers : pc[w] \notin {"unborn", "missing"}
    BY <1>1 DEF WorkerInv
  <1> QED BY <1>2, <1>3 DEF NoEarlyReturn

(* pthreadpool_parallelize returns when every worker has run the operation *)
(* once, and pthreadpool_create when every worker has started.             *)
THEOREM OperationsReturnWhenDone == Spec => []NoEarlyReturn
  BY InvNoEarlyReturn, InductiveInvariant, PTL

(* A busy worker's caller is the one that holds the mutex, and waits for it. *)
LEMMA WorkerHasCaller ==
  ASSUME IInv, NEW w \in Workers, pc[w] \in {"enter", "run"}
  PROVE  /\ pool = "ready"
         /\ execution_mutex \in Callers
         /\ Leads(execution_mutex)
         /\ pc[execution_mutex] \in Running
  <1>1. PoolTypeOK /\ LeaderInv /\ CountInv /\ CommandInv /\ WorkerInv
    BY DEF IInv
  <1>2. ~AtRest(w) /\ command.op = "parallelize"
    BY <1>1 DEF AtRest, Owes, Busy, WorkerInv
  <1>3. PICK c \in Callers : Open(c)
    BY <1>1, <1>2 DEF CountInv
  <1>4. Leads(c)
    BY <1>3 DEF Leads, Open, Running, Waiting
  <1>5. pool = "ready"
    BY <1>1, <1>2, <1>3, <1>4
       DEF PoolTypeOK, LeaderInv, CommandInv, InitCommand, Open, Running, Waiting
  <1>6. execution_mutex = c
    BY <1>1, <1>4, <1>5 DEF LeaderInv
  <1>7. pc[c] \in Running
    BY <1>1, <1>3, <1>5 DEF LeaderInv, Open, Storing
  <1> QED BY <1>4, <1>5, <1>6, <1>7

(* Workers work with what the caller that holds the mutex has stored. *)
LEMMA InvWorkersSeeTheOperation ==
  ASSUME IInv
  PROVE  WorkersSeeTheOperation
  <1>1. PoolTypeOK /\ OperationInv /\ WorkerInv
    BY DEF IInv
  <1> SUFFICES ASSUME NEW w \in Workers, pc[w] \in {"enter", "run"}
               PROVE  /\ execution_mutex \in Callers
                      /\ arguments = execution_mutex /\ params = execution_mutex
                      /\ local_flags[w] = local_flags[execution_mutex]
                      /\ ran[w] = IF pc[w] = "run" THEN 1 ELSE 0
    BY DEF WorkersSeeTheOperation
  <1>2. /\ pool = "ready" /\ execution_mutex \in Callers
        /\ Leads(execution_mutex) /\ pc[execution_mutex] \in Running
    BY WorkerHasCaller
  <1>3. command = last_command[w]
    BY <1>1 DEF WorkerInv, Busy
  <1> QED BY <1>1, <1>2, <1>3 DEF OperationInv, Running, Waiting

(* No worker runs with the arguments, parameters or flags of another call. *)
THEOREM WorkersWorkOnTheOperation == Spec => []WorkersSeeTheOperation
  BY InvWorkersSeeTheOperation, InductiveInvariant, PTL

(* Denormals are disabled where and while the operation says so. *)
LEMMA InvDenormals ==
  ASSUME IInv
  PROVE  DenormalsFollowTheOperation
  <1>1. PoolTypeOK /\ FpuInv /\ LeaderInv
    BY DEF IInv
  <1>2. ASSUME NEW t \in Threads, pc[t] = "run"
        PROVE  local_flags[t] = local_flags[execution_mutex]
    <2>1. CASE t \in Workers
      BY <1>2, <2>1, InvWorkersSeeTheOperation DEF WorkersSeeTheOperation
    <2>2. CASE t \in Callers
      <3>1. pool = "ready" /\ Leads(t)
        BY <1>1, <1>2, <2>2 DEF PoolTypeOK, LeaderInv, Leads, Waiting
      <3> QED BY <1>1, <2>2, <3>1 DEF LeaderInv
    <2> QED BY <2>1, <2>2 DEF Threads
  <1> QED BY <1>1, <1>2 DEF FpuInv, DenormalsFollowTheOperation

(* The thread function runs with denormals disabled if and only if the flags *)
(* of the operation say so, and every thread gets its FPU state back.        *)
THEOREM DenormalsAreRight == Spec => []DenormalsFollowTheOperation
  BY InvDenormals, InductiveInvariant, PTL

(* When the pool is released no thread will use it again, not even a worker *)
(* that had only its futex_wake_all left.                                   *)
ReleasedOnlyWhenUnused ==
  pool = "released" => /\ \A w \in Workers : pc[w] = "exited"
                       /\ \A c \in Callers : pc[c] = "idle"

(* Nobody uses a pool that has been released. *)
LEMMA InvReleased ==
  ASSUME IInv
  PROVE  ReleasedOnlyWhenUnused
  BY DEF IInv, WorkerInv, LeaderInv, ReleasedOnlyWhenUnused

(* pthreadpool_destroy deallocates a pool that no thread uses any more. *)
THEOREM ReleasedPoolsAreUnused == Spec => []ReleasedOnlyWhenUnused
  BY InvReleased, InductiveInvariant, PTL

(* What the workers read and count on is stored only while they are at rest. *)
LEMMA StepsStoreAtRest ==
  ASSUME IInv, [Next]_vars,
         \/ arguments' # arguments \/ params' # params \/ flags' # flags
         \/ active_threads' > active_threads
         \/ has_active_threads' > has_active_threads
  PROVE  \A w \in Workers : ~Busy(w) /\ pc[w] # "clear"
  <1>1. PoolTypeOK /\ LeaderInv /\ CountInv /\ CommandInv
    BY DEF IInv
  <1>2. active_threads \in Int /\ has_active_threads \in Int
    BY <1>1, CountWorkers DEF PoolTypeOK
  <1>3. PICK c \in Callers : \/ StoreArguments(c) \/ StoreActive(c)
                             \/ StoreHasActive(c) \/ StoreParams(c)
    <2>1. CASE UNCHANGED vars
      BY <2>1, <1>2 DEF vars, fields
    <2>2. CASE \E w \in Workers : WorkerStep(w)
      <3>1. PICK w \in Workers : WorkerStep(w)
        BY <2>2
      <3>2. CASE Checkin(w)
        BY <3>2, <1>2 DEF Checkin
      <3>3. CASE Clear(w)
        BY <3>3, <1>1 DEF Clear, PoolTypeOK
      <3>4. ASSUME UNCHANGED fields
            PROVE  FALSE
        BY <3>4, <1>2 DEF fields
      <3> QED BY <3>1, <3>2, <3>3, <3>4
              DEF WorkerStep, Notify, SeeCommand, SeeNothing, SleepOnCommand,
                  Dispatch, WorkerEnter, WorkerLeave, fields
    <2>3. CASE \E c \in Callers : CallerStep(c)
      <3>1. PICK c \in Callers : CallerStep(c)
        BY <2>3
      <3> QED BY <3>1, <1>2
           DEF CallerStep, Spawn, AllSpawned, Lock, StoreCommand, Wake, Enter,
           Leave, AllCheckedIn, KeepWaiting, FutexWait, Unlock, Join, fields
    <2>4. CASE Environment
      BY <2>4, <1>2
         DEF Environment, Parallelize, Destroy, SpawnFails, SpuriousWakeup, fields
    <2> QED BY <2>1, <2>2, <2>3, <2>4 DEF Next
  <1>4. pc[c] \in {"store_arguments", "store_active", "store_has_active", "store_params"}
    BY <1>3 DEF StoreArguments, StoreActive, StoreHasActive, StoreParams
  <1>5. \A w \in Workers : AtRest(w)
    <2>1. CASE Preparing(c)
      BY <2>1, <1>1 DEF CountInv
    <2>2. CASE ~Preparing(c)
      <3>1. \A d \in Callers : ~Open(d)
        BY <2>2, <1>1, <1>4 DEF LeaderInv, Leads, Preparing, Open, Running, Waiting
      <3>2. command.op # "shutdown"
        BY <1>1, <1>4 DEF PoolTypeOK, LeaderInv, CommandInv, Leads
      <3> QED BY <3>1, <3>2, <1>1 DEF CountInv
    <2> QED BY <2>1, <2>2
  <1> QED BY <1>5 DEF AtRest, Owes

(* The caller stores what the workers read, and resets what they count on, *)
(* only while they are at rest: no lock is needed for these fields.        *)
THEOREM StoresAreExclusive == Spec => NoStoreWhileBusy
  <1>1. IInv /\ [Next]_vars =>
          [\/ arguments' # arguments \/ params' # params \/ flags' # flags
           \/ active_threads' > active_threads
           \/ has_active_threads' > has_active_threads
           => \A w \in Workers : ~Busy(w) /\ pc[w] # "clear"]_vars
    BY StepsStoreAtRest
  <1> QED BY <1>1, InductiveInvariant, PTL DEF Spec, NoStoreWhileBusy

-----------------------------------------------------------------------------
(* The handshake implements a fork and join. *)

(* A step that ForkJoin does not see. *)
LEMMA InvisibleStep ==
  ASSUME pool' = pool,
         \/ pool = "creating"
         \/ \A c \in Callers : Published(c)' <=> Published(c),
         \A w \in Workers :
           /\ Phase = "creating" => (Busy(w)' <=> Busy(w))
           /\ Phase = "open" => (ran'[w] = 0 <=> ran[w] = 0)
           /\ Phase = "stopping" => (pc'[w] = "exited" <=> pc[w] = "exited")
           /\ pc'[w] = "run" <=> pc[w] = "run"
  PROVE  UNCHANGED <<Phase, ToDo, Inside>>
  <1>1. Phase' = Phase
    BY DEF Phase
  <1>2. ToDo' = ToDo
    BY <1>1 DEF ToDo
  <1>3. Inside' = Inside
    BY DEF Inside
  <1> QED BY <1>1, <1>2, <1>3

(* Most steps of the callers are of this kind, ... *)
LEMMA InvisibleCallerSteps ==
  ASSUME IInv, NEW c \in Callers,
         \/ \E w \in Workers : Spawn(c, w) \/ SpawnFails(c, w)
         \/ AllSpawned(c) \/ KeepWaiting(c) \/ FutexWait(c)
         \/ \E requested \in SUBSET Flag : Parallelize(c, requested)
         \/ Lock(c) \/ StoreArguments(c) \/ StoreActive(c) \/ StoreHasActive(c)
         \/ StoreParams(c) \/ Wake(c) \/ Enter(c) \/ Leave(c) \/ Unlock(c)
  PROVE  UNCHANGED <<Phase, ToDo, Inside>>
  <1>1. PoolTypeOK /\ LeaderInv
    BY DEF IInv
  <1>2. pool' = pool
    BY DEF Spawn, SpawnFails, AllSpawned, KeepWaiting, FutexWait, Parallelize, Lock,
           StoreArguments, StoreActive, StoreHasActive, StoreParams, Wake, Enter, Leave, Unlock
  <1>3. CASE \E w \in Workers : Spawn(c, w) \/ SpawnFails(c, w)
    <2>1. pool = "creating"
          /\ \A w \in Workers : (Busy(w)' <=> Busy(w)) /\ (pc'[w] = "run" <=> pc[w] = "run")
      BY <1>1, <1>3, ThreadKinds DEF PoolTypeOK, LeaderInv, Leads, Storing, Running, Waiting,
         Spawn, SpawnFails, Goto, Busy
    <2>2. Phase = "creating"
      BY <2>1 DEF Phase
    <2> QED BY <1>2, <2>1, <2>2, InvisibleStep
  <1>4. CASE Lock(c)
    <2>1. \A d \in Callers : ~Published(d) /\ ~Published(d)'
      BY <1>1, <1>4, ThreadKinds
         DEF PoolTypeOK, LeaderInv, Leads, Published, Waiting, Lock, Goto
    <2>2. pool = "ready"
      BY <1>1, <1>4 DEF PoolTypeOK, LeaderInv, Lock
    <2>3. Phase = "ready"
      BY <2>1, <2>2 DEF Phase
    <2>4. \A w \in Workers : pc'[w] = pc[w]
      BY <1>1, <1>4, ThreadKinds DEF PoolTypeOK, Lock, Goto
    <2> QED BY <1>2, <2>1, <2>2, <2>3, <2>4, InvisibleStep
  <1>5. CASE Wake(c)
    <2>1. \A d \in Callers : Published(d)' <=> Published(d)
      BY <1>1, <1>5, ThreadKinds DEF PoolTypeOK, Wake, WakeAll, Published
    <2>2. ran' = ran
          /\ \A w \in Workers : pc'[w] = IF pc[w] = "asleep" THEN "reload" ELSE pc[w]
      BY <1>1, <1>5, ThreadKinds DEF PoolTypeOK, Wake, WakeAll
    <2> QED BY <1>2, <2>1, <2>2, InvisibleStep DEF Busy
  <1>6. CASE AllSpawned(c)
    <2>1. pool = "creating"
      BY <1>1, <1>6 DEF PoolTypeOK, LeaderInv, Leads, Storing, Running, Waiting, AllSpawned
    <2>2. ran' = ran /\ \A w \in Workers : pc'[w] = pc[w]
      BY <1>1, <1>6, ThreadKinds DEF PoolTypeOK, AllSpawned, Goto
    <2> QED BY <1>2, <2>1, <2>2, InvisibleStep DEF Busy
  <1>7. ASSUME \/ KeepWaiting(c) \/ FutexWait(c)
               \/ \E requested \in SUBSET Flag : Parallelize(c, requested)
               \/ StoreArguments(c) \/ StoreActive(c) \/ StoreHasActive(c)
               \/ StoreParams(c) \/ Enter(c) \/ Leave(c) \/ Unlock(c)
        PROVE  UNCHANGED <<Phase, ToDo, Inside>>
    <2>1. PICK label \in CallerLabel :
            /\ pc' = [pc EXCEPT ![c] = label]
            /\ ran' = ran
            /\ label \in {"wake", "enter", "run", "wait", "spin", "reload", "futex", "asleep", "join"}
               <=> Published(c)
      BY <1>7 DEF KeepWaiting, FutexWait, Parallelize, StoreArguments, StoreActive,
           StoreHasActive, StoreParams, Enter, Leave, Unlock, Goto, CallerLabel, Published
    <2>2. \A d \in Callers : Published(d)' <=> Published(d)
      BY <2>1, <1>1, ThreadKinds DEF PoolTypeOK, Published
    <2>3. \A w \in Workers : pc'[w] = pc[w]
      BY <2>1, <1>1, ThreadKinds DEF PoolTypeOK
    <2> QED BY <1>2, <2>1, <2>2, <2>3, InvisibleStep DEF Busy
  <1> QED BY <1>3, <1>4, <1>5, <1>6, <1>7

(* ... and most of the workers. *)
LEMMA InvisibleWorkerSteps ==
  ASSUME IInv, NEW w \in Workers,
         Clear(w) \/ Notify(w) \/ SeeCommand(w) \/ SeeNothing(w) \/ SleepOnCommand(w)
  PROVE  UNCHANGED <<Phase, ToDo, Inside>>
  <1>1. PoolTypeOK /\ LeaderInv /\ CommandInv /\ WorkerInv
    BY DEF IInv
  <1>2. pool' = pool /\ ran' = ran
    BY DEF Clear, Notify, SeeCommand, SeeNothing, SleepOnCommand, fields
  <1>3. CASE Notify(w)
    <2>1. \A c \in Callers : Published(c)' <=> Published(c)
      BY <1>1, <1>3, ThreadKinds DEF PoolTypeOK, Notify, WakeAll, Published
    <2>2. pc[w] = "notify"
          /\ \A v \in Workers : pc'[v] = IF v = w THEN "wait" ELSE pc[v]
      BY <1>1, <1>3, ThreadKinds DEF PoolTypeOK, Notify, WakeAll
    <2> QED BY <1>2, <2>1, <2>2, InvisibleStep DEF Busy
  <1>4. CASE SeeCommand(w)
    <2>1. Phase # "creating"
      BY <1>1, <1>4 DEF Phase, CommandInv, InitCommand, SeeCommand
    <2>2. \A c \in Callers : pc'[c] = pc[c]
      BY <1>1, <1>4, ThreadKinds DEF PoolTypeOK, SeeCommand, Goto
    <2>3. pc[w] \in Waiting /\ \A v \in Workers : pc'[v] = IF v = w THEN "dispatch" ELSE pc[v]
      BY <1>1, <1>4, ThreadKinds DEF PoolTypeOK, SeeCommand, Goto, Waiting
    <2> QED BY <1>2, <2>1, <2>2, <2>3, InvisibleStep DEF Published, Waiting
  <1>5. CASE Clear(w) \/ SeeNothing(w) \/ SleepOnCommand(w)
    <2>1. \A c \in Callers : pc'[c] = pc[c]
      BY <1>1, <1>5, ThreadKinds DEF PoolTypeOK, Clear, SeeNothing, SleepOnCommand, Goto
    <2>2. PICK label \in {"notify", "spin", "futex", "asleep", "reload"} :
            \A v \in Workers : pc'[v] = IF v = w THEN label ELSE pc[v]
      BY <1>1, <1>5, ThreadKinds DEF PoolTypeOK, Clear, SeeNothing, SleepOnCommand, Goto
    <2>3. pc[w] \in {"clear"} \cup Waiting
      BY <1>5 DEF Clear, SeeNothing, SleepOnCommand, Waiting
    <2> QED BY <1>2, <2>1, <2>2, <2>3, InvisibleStep DEF Published, Waiting, Busy
  <1> QED BY <1>3, <1>4, <1>5

(* The start of an operation and of the end of the pool. *)
LEMMA StoreCommandOpens ==
  ASSUME IInv, NEW c \in Callers, StoreCommand(c)
  PROVE  Handshake!Open \/ Handshake!Stop
  <1>1. PoolTypeOK /\ LeaderInv /\ CountInv /\ WorkerInv /\ CommandInv /\ OperationInv
    BY DEF IInv
  <1>2. /\ pool' = pool /\ ran' = ran
        /\ pc[c] \in {"store_command", "store_shutdown"}
        /\ pc' = [pc EXCEPT ![c] = "wake"]
    BY DEF StoreCommand, Goto
  <1>3. Leads(c) /\ pool = IF pc[c] = "store_command" THEN "ready" ELSE "stopping"
    BY <1>1, <1>2 DEF PoolTypeOK, LeaderInv, Leads, Storing, Running, Waiting
  <1>4. \A d \in Callers : ~Published(d)
    BY <1>1, <1>2, <1>3 DEF LeaderInv, Leads, Published
  <1>5. pc'[c] = "wake" /\ \A w \in Workers : pc'[w] = pc[w]
    BY <1>1, <1>2, ThreadKinds DEF PoolTypeOK
  <1>6. Phase = "ready" /\ Phase' = IF pool = "ready" THEN "open" ELSE "stopping"
    BY <1>2, <1>3, <1>4, <1>5 DEF Phase, Published
  <1>7. pool = "ready" => \A w \in Workers : ran[w] = 0
    BY <1>1, <1>2, <1>3 DEF OperationInv, Storing
  <1>8. \A w \in Workers : pc[w] # "exited"
    BY <1>1, <1>2, <1>3 DEF WorkerInv, CommandInv
  <1>9. ToDo' = Workers
    BY <1>2, <1>5, <1>6, <1>7, <1>8 DEF ToDo
  <1>10. Inside' = Inside
    BY <1>5 DEF Inside
  <1> QED BY <1>3, <1>6, <1>9, <1>10 DEF Handshake!Open, Handshake!Stop

(* The end of pthreadpool_create and of an operation. *)
LEMMA AllCheckedInCloses ==
  ASSUME IInv, NEW c \in Callers, AllCheckedIn(c)
  PROVE  Handshake!Created \/ Handshake!Close
  <1>1. PoolTypeOK /\ LeaderInv /\ CountInv /\ WorkerInv /\ CommandInv /\ OperationInv
    BY DEF IInv
  <1>2. /\ has_active_threads = 0 /\ Leads(c) /\ Open(c) /\ ~Preparing(c)
        /\ pool' = (IF pool = "creating" THEN "ready" ELSE pool)
        /\ pc' = [pc EXCEPT ![c] = IF pool = "creating" THEN "idle" ELSE "unlock"]
        /\ ran' = ran /\ command' = command
    BY DEF AllCheckedIn, WaitIsOver, Goto, fields, Leads, Open, Running, Waiting, Preparing
  <1>3. pool \in {"creating", "ready"}
    BY <1>1 DEF PoolTypeOK, LeaderInv, AllCheckedIn
  <1>4. \A w \in Workers : AtRest(w)
    BY <1>1, <1>2, <1>3 DEF CountInv, CommandInv, LeaderInv, Leads, Preparing
  <1>5. Phase = IF pool = "creating" THEN "creating" ELSE "open"
    BY <1>3 DEF Phase, Published, AllCheckedIn
  <1>6. \A d \in Callers : ~Published(d)'
    BY <1>1, <1>2, ThreadKinds DEF PoolTypeOK, LeaderInv, Leads, Published
  <1>7. Phase' = "ready"
    BY <1>2, <1>3, <1>6 DEF Phase
  <1>8. \A w \in Workers : pc'[w] = pc[w] /\ pc[w] # "run" /\ ~Busy(w)
    BY <1>1, <1>2, <1>4, ThreadKinds DEF PoolTypeOK, AtRest, Owes, Busy
  <1>9. Inside = {} /\ Inside' = {}
    BY <1>8 DEF Inside
  <1>10. pool = "ready" => \A w \in Workers : ran[w] = 1
    <2>1. pc[c] \in Running
      BY DEF AllCheckedIn, Running, Waiting
    <2> QED BY <2>1, <1>1, <1>2, <1>4, <1>8 DEF OperationInv, AtRest, Owes, Busy
  <1>11. ToDo = {} /\ ToDo' = {}
    BY <1>3, <1>5, <1>7, <1>8, <1>10 DEF ToDo
  <1> QED BY <1>3, <1>5, <1>7, <1>9, <1>11 DEF Handshake!Created, Handshake!Close

(* pthreadpool_destroy begins unseen. *)
LEMMA DestroyIsInvisible ==
  ASSUME IInv, NEW c \in Callers, Destroy(c)
  PROVE  UNCHANGED <<Phase, ToDo, Inside>>
  <1>1. PoolTypeOK
    BY DEF IInv
  <1>2. /\ pool = "ready" /\ pool' = "stopping"
        /\ pc' = [pc EXCEPT ![c] = "store_active"]
        /\ \A d \in Callers : pc[d] = "idle"
    BY DEF Destroy, Goto
  <1>3. \A d \in Callers : ~Published(d) /\ ~Published(d)'
    BY <1>1, <1>2, ThreadKinds DEF PoolTypeOK, Published
  <1>4. Phase = "ready" /\ Phase' = "ready"
    BY <1>2, <1>3 DEF Phase
  <1>5. \A w \in Workers : pc'[w] = pc[w]
    BY <1>1, <1>2, ThreadKinds DEF PoolTypeOK
  <1> QED BY <1>4, <1>5 DEF ToDo, Inside

(* The pool is released when all workers have gone. *)
LEMMA JoinReleases ==
  ASSUME IInv, NEW c \in Callers, Join(c)
  PROVE  Handshake!Release
  <1>1. PoolTypeOK /\ LeaderInv
    BY DEF IInv
  <1>2. /\ pc[c] = "join" /\ pool' = "released"
        /\ pc' = [pc EXCEPT ![c] = "idle"]
        /\ \A w \in Workers : pc[w] = "exited"
    BY DEF Join, Goto
  <1>3. pool = "stopping"
    BY <1>1, <1>2 DEF PoolTypeOK, LeaderInv, Storing, Running, Waiting
  <1>4. Phase = "stopping" /\ Phase' = "released"
    BY <1>2, <1>3 DEF Phase, Published
  <1>5. \A w \in Workers : pc'[w] = pc[w]
    BY <1>1, <1>2, ThreadKinds DEF PoolTypeOK
  <1>6. ToDo = {} /\ ToDo' = {} /\ Inside' = Inside
    BY <1>2, <1>4, <1>5 DEF ToDo, Inside
  <1> QED BY <1>4, <1>6 DEF Handshake!Release

(* A worker's first check-in is its answer to pthreadpool_create; those *)
(* after it are not seen.                                               *)
LEMMA CheckinAnswers ==
  ASSUME IInv, NEW w \in Workers, Checkin(w)
  PROVE  Handshake!Start(w) \/ UNCHANGED <<Phase, ToDo, Inside>>
  <1>1. PoolTypeOK
    BY DEF IInv
  <1>2. PICK label \in {"clear", "wait"} : pc' = [pc EXCEPT ![w] = label]
    BY DEF Checkin, Goto
  <1>3. pc[w] = "checkin" /\ pool' = pool /\ ran' = ran
    BY DEF Checkin
  <1>4. /\ \A c \in Callers : pc'[c] = pc[c]
        /\ \A v \in Workers : pc'[v] = IF v = w THEN label ELSE pc[v]
    BY <1>1, <1>2, ThreadKinds DEF PoolTypeOK
  <1>5. CASE pool = "creating"
    <2>1. Phase = "creating" /\ Phase' = "creating"
      BY <1>3, <1>5 DEF Phase
    <2>2. ToDo' = ToDo \ {w} /\ w \in ToDo /\ Inside' = Inside
      BY <1>3, <1>4, <2>1 DEF ToDo, Inside, Busy
    <2> QED BY <2>1, <2>2 DEF Handshake!Start
  <1>6. CASE pool # "creating"
    <2>1. Phase # "creating"
      BY <1>6 DEF Phase
    <2> QED BY <1>3, <1>4, <2>1, InvisibleStep DEF Published
  <1> QED BY <1>5, <1>6

(* A worker that obeys the shutdown command exits; to dispatch an operation *)
(* is not seen.                                                             *)
LEMMA DispatchAnswers ==
  ASSUME IInv, NEW w \in Workers, Dispatch(w)
  PROVE  Handshake!Exit(w) \/ UNCHANGED <<Phase, ToDo, Inside>>
  <1>1. PoolTypeOK /\ LeaderInv /\ WorkerInv /\ CommandInv
    BY DEF IInv
  <1>2. pc[w] = "dispatch" /\ pool' = pool /\ ran' = ran
    BY DEF Dispatch, fields
  <1>3. last_command[w] = command /\ command.op \in {"parallelize", "shutdown"}
    BY <1>1, <1>2 DEF PoolTypeOK, WorkerInv, Busy
  <1>4. pc' = [pc EXCEPT ![w] = IF command.op = "shutdown" THEN "exited" ELSE "enter"]
    BY <1>3 DEF Dispatch, Goto
  <1>5. /\ \A c \in Callers : pc'[c] = pc[c]
        /\ \A v \in Workers :
             pc'[v] = IF v # w THEN pc[v]
                      ELSE IF command.op = "shutdown" THEN "exited" ELSE "enter"
    BY <1>1, <1>4, ThreadKinds DEF PoolTypeOK
  <1>6. CASE command.op = "shutdown"
    <2>1. pool = "stopping"
      BY <1>1, <1>2, <1>6 DEF PoolTypeOK, CommandInv, WorkerInv
    <2>2. \E c \in Callers : Published(c)
      BY <1>1, <1>6, <2>1 DEF LeaderInv, CommandInv, Published
    <2>3. Phase = "stopping" /\ Phase' = "stopping"
      BY <1>2, <1>5, <2>1, <2>2 DEF Phase, Published
    <2>4. ToDo' = ToDo \ {w} /\ w \in ToDo /\ Inside' = Inside
      BY <1>2, <1>5, <1>6, <2>3 DEF ToDo, Inside
    <2> QED BY <2>3, <2>4 DEF Handshake!Exit
  <1>7. CASE command.op # "shutdown"
    <2>1. \A v \in Workers : Busy(v)' <=> Busy(v)
      BY <1>2, <1>5, <1>7 DEF Busy
    <2> QED BY <1>2, <1>5, <1>7, <2>1, InvisibleStep DEF Published
  <1> QED BY <1>6, <1>7

(* A worker takes part in the operation when it calls the thread function ... *)
LEMMA WorkerEnterAnswers ==
  ASSUME IInv, NEW w \in Workers, WorkerEnter(w)
  PROVE  Handshake!Begin(w)
  <1>1. PoolTypeOK
    BY DEF IInv
  <1>2. /\ pc[w] = "enter" /\ pool' = pool
        /\ ran' = [ran EXCEPT ![w] = @ + 1]
        /\ pc' = [pc EXCEPT ![w] = "run"]
    BY DEF WorkerEnter, Goto, fields
  <1>3. pool = "ready" /\ execution_mutex \in Callers /\ pc[execution_mutex] \in Running
    BY <1>2, WorkerHasCaller
  <1>4. ran[w] = 0
    BY <1>2, InvWorkersSeeTheOperation DEF WorkersSeeTheOperation
  <1>5. /\ \A c \in Callers : pc'[c] = pc[c]
        /\ \A v \in Workers : pc'[v] = IF v = w THEN "run" ELSE pc[v]
        /\ \A v \in Workers : ran'[v] = IF v = w THEN 1 ELSE ran[v]
    BY <1>1, <1>2, <1>4, ThreadKinds DEF PoolTypeOK
  <1>6. Phase = "open" /\ Phase' = "open"
    BY <1>2, <1>3, <1>5 DEF Phase, Published, Running, Waiting
  <1>7. w \in ToDo /\ ToDo' = ToDo \ {w}
    BY <1>4, <1>5, <1>6 DEF ToDo
  <1>8. Inside' = Inside \cup {w}
    BY <1>5 DEF Inside
  <1> QED BY <1>6, <1>7, <1>8 DEF Handshake!Begin

(* ... and has left it when it returns. *)
LEMMA WorkerLeaveAnswers ==
  ASSUME IInv, NEW w \in Workers, WorkerLeave(w)
  PROVE  Handshake!Finish(w)
  <1>1. PoolTypeOK
    BY DEF IInv
  <1>2. /\ pc[w] = "run" /\ pool' = pool /\ ran' = ran
        /\ pc' = [pc EXCEPT ![w] = "checkin"]
    BY DEF WorkerLeave, Goto, fields
  <1>3. /\ \A c \in Callers : pc'[c] = pc[c]
        /\ \A v \in Workers : pc'[v] = IF v = w THEN "checkin" ELSE pc[v]
    BY <1>1, <1>2, ThreadKinds DEF PoolTypeOK
  <1>4. Phase' = Phase
    BY <1>2, <1>3 DEF Phase, Published
  <1>5. ToDo' = ToDo
    BY <1>2, <1>3, <1>4 DEF ToDo, Busy
  <1>6. w \in Inside /\ Inside' = Inside \ {w}
    BY <1>2, <1>3 DEF Inside
  <1> QED BY <1>4, <1>5, <1>6 DEF Handshake!Finish

(* Every step is one of ForkJoin or invisible to it. *)
LEMMA StepSimulation ==
  ASSUME IInv, [Next]_vars
  PROVE  [Handshake!Next]_(Handshake!vars)
  <1> USE DEF Handshake!vars
  <1>1. CASE UNCHANGED vars
    BY <1>1 DEF vars, Phase, Published, ToDo, Inside, Busy
  <1>2. CASE \E w \in Workers : WorkerStep(w)
    <2>1. PICK w \in Workers : WorkerStep(w)
      BY <1>2
    <2>2. Handshake!Answer(w) \/ UNCHANGED <<Phase, ToDo, Inside>>
      BY <2>1, CheckinAnswers, DispatchAnswers, WorkerEnterAnswers, WorkerLeaveAnswers,
         InvisibleWorkerSteps DEF WorkerStep, Handshake!Answer
    <2> QED BY <2>2 DEF Handshake!Next
  <1>3. CASE \E c \in Callers : CallerStep(c)
    <2>1. PICK c \in Callers : CallerStep(c)
      BY <1>3
    <2>2. CASE StoreCommand(c) \/ AllCheckedIn(c) \/ Join(c)
      BY <2>2, StoreCommandOpens, AllCheckedInCloses, JoinReleases DEF Handshake!Next
    <2>3. CASE ~(StoreCommand(c) \/ AllCheckedIn(c) \/ Join(c))
      BY <2>1, <2>3, InvisibleCallerSteps DEF CallerStep
    <2> QED BY <2>2, <2>3
  <1>4. CASE \E c \in Callers :
               \/ \E requested \in SUBSET Flag : Parallelize(c, requested)
               \/ Destroy(c)
               \/ \E w \in Workers : SpawnFails(c, w)
    BY <1>4, InvisibleCallerSteps, DestroyIsInvisible
  <1>5. CASE \E t \in Threads : SpuriousWakeup(t)
    <2>1. PICK t \in Threads : SpuriousWakeup(t)
      BY <1>5
    <2>2. pool' = pool /\ ran' = ran /\ pc[t] = "asleep"
          /\ \A s \in Threads : pc'[s] = IF s = t THEN "reload" ELSE pc[s]
      BY <2>1 DEF SpuriousWakeup, Goto, fields, IInv, PoolTypeOK
    <2> QED BY <2>2, InvisibleStep, ThreadKinds DEF Busy, Published
  <1> QED BY <1>1, <1>2, <1>3, <1>4, <1>5 DEF Next, Environment

(* The handshake of the futex backend implements the fork and join of      *)
(* module ForkJoin: every worker takes part in every operation once, no    *)
(* operation ends before all workers have left it, and the pool is         *)
(* released after all of them have gone.                                   *)
THEOREM ImplementsForkJoin == Spec => Handshake!Spec
  <1>1. Init => Handshake!Init
    <2> SUFFICES ASSUME Init PROVE Handshake!Init
      OBVIOUS
    <2>1. Phase = "creating"
      BY DEF Init, Phase
    <2>2. \A w \in Workers : pc[w] = "unborn"
      BY ThreadKinds DEF Init
    <2>3. ToDo = Workers /\ Inside = {}
      BY <2>1, <2>2 DEF ToDo, Inside, Busy
    <2> QED BY <2>1, <2>3 DEF Handshake!Init
  <1>2. IInv /\ [Next]_vars => [Handshake!Next]_(Handshake!vars)
    BY StepSimulation
  <1> QED BY <1>1, <1>2, InductiveInvariant, PTL DEF Spec, Handshake!Spec
=============================================================================
