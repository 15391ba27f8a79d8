-------------------------- MODULE FutexMemoryProofs --------------------------
(***************************************************************************)
(* The handshake of the futex backend orders the memory of its threads,    *)
(* for every number of workers and callers: what one of them stores with   *)
(* plain and relaxed stores is what the others read.                       *)
(***************************************************************************)
EXTENDS FutexPoolProofs

(* What a caller stores and a worker reads. *)
Handed == {"operation", "count"}

Exclusive == Storing \cup {"store_shutdown", "unlock"}
Started(w) == pc[w] \notin {"unborn", "missing"}
AtWork(w) == pc[w] \in {"dispatch", "enter", "run", "checkin"}

(* The leader waits for the workers, or will. *)
Awaited == pool \in {"creating", "ready"} /\ \E c \in Callers : Open(c)

-----------------------------------------------------------------------------
(* The inductive invariant. *)

(* Whoever may store knows all there is, and so does some caller when none *)
(* leads; the mutex passes that on to the others.                          *)
CallersKnow ==
  /\ \A c \in Callers : pc[c] \in Exclusive => Data \subseteq knows[c]
  /\ pool = "creating" => \A c \in Callers : Data \subseteq knows[c]
  /\ pool = "ready" => \A c \in Callers : pc[c] \in Running => Handed \subseteq knows[c]
  /\ pool = "ready" /\ (\A c \in Callers : ~Leads(c)) =>
       /\ \A c \in Callers : Data \subseteq knows[c] \cup carries["execution_mutex"]
       /\ \E c \in Callers : Data \subseteq knows[c]

(* The command brings the operation to the workers. *)
CommandCarries ==
  \A w \in Workers :
    /\ Started(w) => w \in knows[w]
    /\ AtWork(w) => Handed \subseteq knows[w]
    /\ command # last_command[w] => Handed \subseteq carries["command"]

(* The counter collects what the workers have stored, and the futex word *)
(* takes it to the leader.                                               *)
CountersCarry ==
  /\ Awaited => \A w \in Workers : Owes(w) \/ w \in carries["active_threads"]
  /\ \A w \in Workers : pc[w] = "clear" => Workers \subseteq knows[w]
  /\ Awaited /\ has_active_threads = 0 => Workers \subseteq carries["has_active_threads"]

MemInv == MemoryTypeOK /\ CallersKnow /\ CommandCarries /\ CountersCarry

-----------------------------------------------------------------------------
(* The data and the locations. *)
LEMMA DataKinds ==
  /\ Data = Handed \cup Workers /\ Handed \cap Workers = {}
  /\ "operation" \in Handed /\ "count" \in Handed
  /\ {"command", "active_threads", "has_active_threads", "execution_mutex"} = Locations
  BY DataAssumption DEF Data, Handed, Locations

(* The operations on memory keep its types. *)
LEMMA MemoryOperationTypes ==
  ASSUME MemoryTypeOK, NEW t \in Threads,
         \/ UNCHANGED memory
         \/ \E D \in SUBSET Data : store_relaxed(t, D)
         \/ \E l \in Locations, d \in Data : store_relaxed_at(t, l, d)
         \/ \E l \in Locations : store_release(t, l) \/ load_acquire(t, l)
         \/ \E l \in Locations : decrement_fetch_acquire_release(t, l)
         \/ \E S \in SUBSET Threads : synchronize(t, S)
  PROVE  MemoryTypeOK'
  <1> USE DEF MemoryTypeOK
  <1>1. CASE UNCHANGED memory
    BY <1>1 DEF memory
  <1>2. ASSUME NEW D \in SUBSET Data, store_relaxed(t, D)
        PROVE  MemoryTypeOK'
    BY <1>2 DEF store_relaxed
  <1>3. ASSUME NEW l \in Locations, NEW d \in Data, store_relaxed_at(t, l, d)
        PROVE  MemoryTypeOK'
    BY <1>3 DEF store_relaxed_at
  <1>4. ASSUME NEW l \in Locations, store_release(t, l) \/ load_acquire(t, l)
        PROVE  MemoryTypeOK'
    BY <1>4 DEF store_release, load_acquire
  <1>5. ASSUME NEW l \in Locations, decrement_fetch_acquire_release(t, l)
        PROVE  MemoryTypeOK'
    BY <1>5 DEF decrement_fetch_acquire_release
  <1>6. ASSUME NEW S \in SUBSET Threads, synchronize(t, S)
        PROVE  MemoryTypeOK'
    <2>1. UNION {knows[s] : s \in S} \subseteq Data
      OBVIOUS
    <2> QED BY <1>6, <2>1 DEF synchronize
  <1> QED BY <1>1, <1>2, <1>3, <1>4, <1>5, <1>6

(* While a caller stores, or gives the mutex back, nobody else is busy. *)
LEMMA ExclusiveMeansRest ==
  ASSUME IInv, NEW c \in Callers, pc[c] \in Exclusive
  PROVE  /\ \A d \in Callers : Leads(d) <=> d = c
         /\ \A d \in Callers : ~Open(d)
         /\ ~Awaited
         /\ \A w \in Workers : AtRest(w)
         /\ \A w \in Workers : ~AtWork(w) /\ Started(w) /\ pc[w] # "clear" /\ command = last_command[w]
  <1>0. PoolTypeOK /\ LeaderInv /\ CommandInv /\ CountInv
    BY DEF IInv
  <1>1. Leads(c) /\ \A d \in Callers : Leads(d) <=> d = c
    BY <1>0 DEF Exclusive, Storing, Leads, LeaderInv
  <1>2. \A d \in Callers : ~Open(d)
    BY <1>1 DEF Exclusive, Storing, Leads, Open, Running, Waiting
  <1>3. command.op # "shutdown"
    BY <1>0, <1>1 DEF Exclusive, Storing, LeaderInv, CommandInv, PoolTypeOK, Running, Waiting
  <1>4. \A w \in Workers : AtRest(w)
    BY <1>0, <1>2, <1>3 DEF CountInv
  <1> QED BY <1>1, <1>2, <1>4 DEF Awaited, AtRest, Owes, Busy, AtWork, Started

(* A step that leaves the memory alone and does not move a thread to where *)
(* it would have to know more.                                             *)
LEMMA QuietStep ==
  ASSUME MemInv, UNCHANGED <<memory, pool, command, last_command, has_active_threads>>,
         \A c \in Callers :
           /\ Leads(c)' <=> Leads(c)
           /\ Open(c)' => Open(c)
           /\ pc'[c] \in Exclusive => pc[c] \in Exclusive
           /\ pool = "ready" /\ pc'[c] \in Running => pc[c] \in Running,
         \A w \in Workers :
           /\ pool \in {"creating", "ready"} /\ Owes(w) => Owes(w)'
           /\ Started(w)' => Started(w)
           /\ AtWork(w)' => AtWork(w)
           /\ pc'[w] = "clear" => pc[w] = "clear"
  PROVE  MemInv'
  <1>0. MemoryTypeOK /\ CallersKnow /\ CommandCarries /\ CountersCarry
    BY DEF MemInv
  <1>1. MemoryTypeOK'
    BY <1>0 DEF MemoryTypeOK, memory
  <1>2. CallersKnow'
    BY <1>0 DEF CallersKnow, memory
  <1>3. CommandCarries'
    BY <1>0 DEF CommandCarries, memory
  <1>4. CountersCarry'
    <2>1. Awaited' => Awaited /\ pool \in {"creating", "ready"}
      BY DEF Awaited
    <2> QED BY <1>0, <2>1 DEF CountersCarry, memory
  <1> QED BY <1>1, <1>2, <1>3, <1>4 DEF MemInv

(* The steps that do not touch the memory. *)
LEMMA QuietCallerSteps ==
  ASSUME IInv, MemInv, NEW c \in Callers,
         \/ \E w \in Workers : SpawnFails(c, w)
         \/ \E requested \in SUBSET Flag : Parallelize(c, requested)
         \/ AllSpawned(c) \/ Wake(c) \/ Enter(c) \/ Leave(c) \/ KeepWaiting(c) \/ FutexWait(c)
  PROVE  MemInv'
  <1> USE DEF Goto, fields, Leads, Open, Exclusive, Storing, Running, Waiting, Owes, Busy,
              Started, AtWork
  <1>0. PoolTypeOK /\ LeaderInv /\ WorkerInv
    BY DEF IInv
  <1>1. ASSUME NEW w \in Workers, SpawnFails(c, w)
        PROVE  MemInv'
    <2>1. pc' = [pc EXCEPT ![w] = "missing"] /\ pc[w] = "unborn"
      BY <1>1 DEF SpawnFails
    <2> QED BY <1>0, <1>1, <2>1, ThreadKinds, QuietStep DEF SpawnFails, PoolTypeOK
  <1>2. ASSUME NEW requested \in SUBSET Flag, Parallelize(c, requested)
        PROVE  MemInv'
    BY <1>0, <1>2, ThreadKinds, QuietStep DEF Parallelize, PoolTypeOK
  <1>3. CASE AllSpawned(c)
    <2>1. pool = "creating"
      BY <1>0, <1>3 DEF AllSpawned, PoolTypeOK, LeaderInv
    <2> QED BY <1>0, <1>3, <2>1, ThreadKinds, QuietStep DEF AllSpawned, PoolTypeOK
  <1>4. CASE Wake(c)
    BY <1>0, <1>4, ThreadKinds, QuietStep DEF Wake, WakeAll, PoolTypeOK
  <1>5. CASE Enter(c)
    BY <1>0, <1>5, ThreadKinds, QuietStep DEF Enter, PoolTypeOK
  <1>6. CASE Leave(c)
    BY <1>0, <1>6, ThreadKinds, QuietStep DEF Leave, PoolTypeOK
  <1>7. CASE KeepWaiting(c)
    BY <1>0, <1>7, ThreadKinds, QuietStep DEF KeepWaiting, PoolTypeOK
  <1>8. CASE FutexWait(c)
    BY <1>0, <1>8, ThreadKinds, QuietStep DEF FutexWait, PoolTypeOK
  <1> QED BY <1>1, <1>2, <1>3, <1>4, <1>5, <1>6, <1>7, <1>8

LEMMA QuietWorkerSteps ==
  ASSUME IInv, MemInv, NEW w \in Workers,
         Notify(w) \/ SeeNothing(w) \/ SleepOnCommand(w) \/ Dispatch(w) \/ WorkerLeave(w)
  PROVE  MemInv'
  <1> USE DEF Goto, fields, Leads, Open, Exclusive, Storing, Running, Waiting, Owes, Busy,
              Started, AtWork
  <1>0. PoolTypeOK /\ WorkerInv /\ CommandInv
    BY DEF IInv
  <1>1. CASE Notify(w)
    BY <1>0, <1>1, ThreadKinds, QuietStep DEF Notify, WakeAll, PoolTypeOK
  <1>2. CASE SeeNothing(w)
    BY <1>0, <1>2, ThreadKinds, QuietStep DEF SeeNothing, PoolTypeOK
  <1>3. CASE SleepOnCommand(w)
    BY <1>0, <1>3, ThreadKinds, QuietStep DEF SleepOnCommand, PoolTypeOK
  <1>4. CASE Dispatch(w)
    <2>1. last_command[w] = command /\ last_command[w].op # "init"
      BY <1>0, <1>4 DEF Dispatch, WorkerInv
    <2>2. pc' = [pc EXCEPT ![w] = IF last_command[w].op = "parallelize" THEN "enter" ELSE "exited"]
      BY <1>0, <1>4, <2>1 DEF Dispatch, PoolTypeOK
    <2>3. pool \in {"creating", "ready"} => last_command[w].op = "parallelize"
      BY <1>0, <2>1 DEF PoolTypeOK, CommandInv
    <2> QED BY <1>0, <1>4, <2>1, <2>2, <2>3, ThreadKinds, QuietStep DEF Dispatch, PoolTypeOK
  <1>5. CASE WorkerLeave(w)
    BY <1>0, <1>5, ThreadKinds, QuietStep DEF WorkerLeave, PoolTypeOK
  <1> QED BY <1>1, <1>2, <1>3, <1>4, <1>5

LEMMA QuietSpuriousWakeup ==
  ASSUME IInv, MemInv, NEW t \in Threads, SpuriousWakeup(t)
  PROVE  MemInv'
  <1>0. PoolTypeOK
    BY DEF IInv
  <1> QED BY <1>0, ThreadKinds, QuietStep
          DEF SpuriousWakeup, Goto, fields, Leads, Open, Exclusive, Storing, Running, Waiting,
              Owes, Busy, Started, AtWork, PoolTypeOK

-----------------------------------------------------------------------------
(* The stores of a caller: nobody else is there to lose what he stores. *)
LEMMA ExclusiveStore ==
  ASSUME IInv, MemInv, MemoryTypeOK', NEW c \in Callers, NEW label \in Exclusive,
         pc[c] \in Exclusive, pc' = [pc EXCEPT ![c] = label],
         NEW d \in Handed,
         knows' = [s \in Threads |-> IF s = c THEN knows[s] \cup {d} ELSE knows[s] \ {d}],
         UNCHANGED <<pool, command, last_command>>
  PROVE  MemInv'
  <1>0. PoolTypeOK /\ LeaderInv /\ MemoryTypeOK /\ CallersKnow /\ CommandCarries
    BY DEF IInv, MemInv
  <1>1. /\ \A b \in Callers : Leads(b) <=> b = c
        /\ \A w \in Workers : ~AtWork(w) /\ Started(w) /\ pc[w] # "clear" /\ command = last_command[w]
    BY ExclusiveMeansRest
  <1>2. /\ \A b \in Callers : Leads(b)' <=> b = c
        /\ \A b \in Callers : ~Open(b)' /\ pc'[b] \notin Running
    BY <1>0, <1>1, ThreadKinds DEF PoolTypeOK, Leads, Open, Exclusive, Storing, Running, Waiting
  <1>3. \A b \in Callers : pc'[b] \in Exclusive => b = c
    BY <1>2 DEF Leads, Exclusive, Storing
  <1>4. pool # "creating"
    BY <1>0 DEF LeaderInv, Exclusive, Storing, Waiting
  <1>5. CallersKnow'
    <2>1. Data \subseteq knows'[c]
      BY <1>0, ThreadKinds DEF CallersKnow
    <2> QED BY <1>2, <1>3, <1>4, <2>1 DEF CallersKnow
  <1>6. \A w \in Workers : ~AtWork(w)' /\ Started(w)' /\ pc'[w] # "clear"
    BY <1>0, <1>1, ThreadKinds DEF PoolTypeOK, AtWork, Started
  <1>7. CommandCarries'
    BY <1>0, <1>1, <1>6, ThreadKinds, DataKinds DEF CommandCarries
  <1>8. CountersCarry'
    BY <1>2, <1>6 DEF CountersCarry, Awaited
  <1> QED BY <1>5, <1>7, <1>8 DEF MemInv

LEMMA StoresKeepMemory ==
  ASSUME IInv, MemInv, NEW c \in Callers,
         StoreArguments(c) \/ StoreActive(c) \/ StoreHasActive(c) \/ StoreParams(c)
  PROVE  MemInv'
  <1>0. PoolTypeOK /\ MemoryTypeOK /\ c \in Threads
    BY ThreadKinds DEF IInv, MemInv
  <1>1. /\ UNCHANGED <<pool, command, last_command>>
        /\ pc[c] \in Exclusive
        /\ \E label \in Exclusive : pc' = [pc EXCEPT ![c] = label]
    BY DEF StoreArguments, StoreActive, StoreHasActive, StoreParams, Goto, Exclusive, Storing
  <1>2. \E d \in Handed :
          knows' = [s \in Threads |-> IF s = c THEN knows[s] \cup {d} ELSE knows[s] \ {d}]
    BY DataKinds DEF StoreArguments, StoreActive, StoreHasActive, StoreParams,
                     store_relaxed, store_relaxed_at
  <1>3. MemoryTypeOK'
    <2>1. CASE store_relaxed(c, {"operation"})
      <3>1. {"operation"} \in SUBSET Data
        BY DataKinds
      <3> QED BY <1>0, <2>1, <3>1, MemoryOperationTypes
    <2>2. CASE store_relaxed_at(c, "active_threads", "count")
      <3>1. "active_threads" \in Locations /\ "count" \in Data
        BY DataKinds
      <3> QED BY <1>0, <2>2, <3>1, MemoryOperationTypes
    <2>3. CASE store_relaxed_at(c, "has_active_threads", "count")
      <3>1. "has_active_threads" \in Locations /\ "count" \in Data
        BY DataKinds
      <3> QED BY <1>0, <2>3, <3>1, MemoryOperationTypes
    <2> QED BY <2>1, <2>2, <2>3 DEF StoreArguments, StoreActive, StoreHasActive, StoreParams
  <1> QED BY <1>1, <1>2, <1>3, ExclusiveStore

(* The release store of the command takes along all that was stored. *)
LEMMA StoreCommandKeepsMemory ==
  ASSUME IInv, MemInv, NEW c \in Callers, StoreCommand(c)
  PROVE  MemInv'
  <1>0. /\ PoolTypeOK /\ LeaderInv /\ CommandInv /\ CountInv
        /\ MemoryTypeOK /\ CallersKnow /\ CommandCarries
    BY DEF IInv, MemInv
  <1>1. pc[c] \in Exclusive /\ pc' = [pc EXCEPT ![c] = "wake"]
    BY DEF StoreCommand, Goto, Exclusive, Storing
  <1>2. /\ \A b \in Callers : Leads(b) <=> b = c
        /\ \A w \in Workers : ~AtWork(w) /\ Started(w) /\ pc[w] # "clear" /\ command = last_command[w]
    BY <1>1, ExclusiveMeansRest
  <1>3. /\ UNCHANGED <<pool, last_command, has_active_threads, knows>>
        /\ carries' = [carries EXCEPT !["command"] = knows[c]]
    BY DEF StoreCommand, store_release
  <1>4. Data \subseteq knows[c] /\ carries'["command"] = knows[c]
    BY <1>0, <1>1, <1>3, DataKinds DEF CallersKnow, MemoryTypeOK
  <1>5. pool # "creating"
    BY <1>0, <1>1 DEF LeaderInv, Exclusive, Storing, Waiting
  <1>6. MemoryTypeOK'
    <2>1. "command" \in Locations /\ c \in Threads /\ store_release(c, "command")
      BY DataKinds, ThreadKinds DEF StoreCommand
    <2> QED BY <1>0, <2>1, MemoryOperationTypes
  <1>7. CallersKnow'
    <2>1. \A b \in Callers : Leads(b)' <=> b = c
      BY <1>0, <1>1, <1>2, ThreadKinds DEF PoolTypeOK, Leads
    <2>2. \A b \in Callers : pc'[b] \notin Exclusive
      BY <1>0, <1>1, <2>1, ThreadKinds DEF PoolTypeOK, Leads, Exclusive, Storing
    <2>3. \A b \in Callers : pc'[b] \in Running => b = c
      BY <2>1 DEF Leads, Running, Waiting
    <2> QED BY <1>3, <1>4, <1>5, <2>1, <2>2, <2>3, DataKinds DEF CallersKnow
  <1>8. \A w \in Workers : ~AtWork(w)' /\ (Started(w)' <=> Started(w)) /\ pc'[w] # "clear"
    BY <1>0, <1>1, <1>2, ThreadKinds DEF PoolTypeOK, AtWork, Started
  <1>9. CommandCarries'
    BY <1>0, <1>3, <1>4, <1>8, DataKinds DEF CommandCarries
  <1>10. CountersCarry'
    <2>1. Awaited' => pc[c] = "store_command"
      BY <1>0, <1>3, <1>5 DEF Awaited, LeaderInv, StoreCommand, Storing, Running, Waiting
    <2>2. pc[c] = "store_command" => command' = NewCommand(command) /\ has_active_threads = 1
      BY <1>0 DEF StoreCommand, CountInv, Preparing
    <2>3. command \in Command
      BY <1>0 DEF PoolTypeOK, Command
    <2>4. Awaited' => \A w \in Workers : Owes(w)'
      BY <1>2, <1>3, <2>1, <2>2, <2>3, NewCommandIsNew DEF Owes
    <2> QED BY <1>3, <1>8, <2>1, <2>2, <2>4 DEF CountersCarry
  <1> QED BY <1>6, <1>7, <1>9, <1>10 DEF MemInv

-----------------------------------------------------------------------------
(* The steps by which callers pass on what they know. *)

(* The creator knows all there is, and what it starts begins with that. *)
LEMMA SpawnKeepsMemory ==
  ASSUME IInv, MemInv, NEW c \in Callers, NEW w \in Workers, Spawn(c, w)
  PROVE  MemInv'
  <1>0. PoolTypeOK /\ LeaderInv /\ MemoryTypeOK /\ CallersKnow /\ CommandCarries /\ CountersCarry
    BY DEF IInv, MemInv
  <1>1. pool = "creating" /\ Data \subseteq knows[c]
    BY <1>0 DEF Spawn, LeaderInv, CallersKnow, PoolTypeOK, Storing, Running, Waiting
  <1>2. /\ pc' = [pc EXCEPT ![w] = "checkin"] /\ pc[w] = "unborn"
        /\ knows' = [knows EXCEPT ![w] = @ \cup knows[c]]
        /\ UNCHANGED <<pool, command, last_command, has_active_threads, carries>>
    BY DEF Spawn, Goto, synchronize, fields
  <1>3. Data \subseteq knows'[w] /\ \A t \in Threads : knows[t] \subseteq knows'[t]
    BY <1>0, <1>1, <1>2, ThreadKinds DEF MemoryTypeOK
  <1>4. MemoryTypeOK'
    <2>1. {c} \in SUBSET Threads /\ w \in Threads /\ synchronize(w, {c})
      BY ThreadKinds DEF Spawn
    <2> QED BY <1>0, <2>1, MemoryOperationTypes
  <1>5. /\ \A b \in Callers : pc'[b] = pc[b]
        /\ \A v \in Workers : v # w => pc'[v] = pc[v]
        /\ pc'[w] = "checkin"
    BY <1>0, <1>2, ThreadKinds DEF PoolTypeOK
  <1>6. CallersKnow'
    BY <1>0, <1>1, <1>2, <1>3, <1>5, ThreadKinds DEF CallersKnow, Leads
  <1>7. CommandCarries'
    <2>1. Handed \subseteq knows'[w] /\ w \in knows'[w]
      BY <1>3, DataKinds
    <2>2. \A v \in Workers : knows[v] \subseteq knows'[v]
      BY <1>3, ThreadKinds
    <2> QED BY <1>0, <1>2, <1>5, <2>1, <2>2 DEF CommandCarries, Started, AtWork
  <1>8. CountersCarry'
    <2>1. \A v \in Workers : Owes(v)' <=> Owes(v)
      BY <1>2, <1>5 DEF Owes, Busy
    <2>2. Awaited' <=> Awaited
      BY <1>2, <1>5 DEF Awaited, Open
    <2>3. \A v \in Workers : knows[v] \subseteq knows'[v]
      BY <1>3, ThreadKinds
    <2> QED BY <1>0, <1>2, <1>5, <2>1, <2>2, <2>3 DEF CountersCarry
  <1> QED BY <1>4, <1>6, <1>7, <1>8 DEF MemInv

(* Steps of a caller that add to what it knows and do not change what the  *)
(* workers see.                                                            *)
LEMMA CallerLearns ==
  ASSUME PoolTypeOK, MemInv, MemoryTypeOK', NEW c \in Callers, NEW label \in CallerLabel,
         pc' = [pc EXCEPT ![c] = label], NEW D \in SUBSET Data,
         knows' = [knows EXCEPT ![c] = @ \cup D],
         UNCHANGED <<command, last_command, has_active_threads, carries>>,
         Awaited' => Awaited
  PROVE  CommandCarries' /\ CountersCarry' /\ \A b \in Callers : knows[b] \subseteq knows'[b]
  <1>0. MemoryTypeOK /\ CommandCarries /\ CountersCarry
    BY DEF MemInv
  <1>1. /\ \A w \in Workers : pc'[w] = pc[w] /\ knows'[w] = knows[w]
        /\ \A b \in Callers : knows[b] \subseteq knows'[b]
    BY <1>0, ThreadKinds DEF PoolTypeOK, MemoryTypeOK
  <1>2. CommandCarries'
    BY <1>0, <1>1 DEF CommandCarries, Started, AtWork
  <1>3. CountersCarry'
    BY <1>0, <1>1 DEF CountersCarry, Owes, Busy
  <1> QED BY <1>1, <1>2, <1>3

(* Whoever gets the mutex gets with it what its last holder knew. *)
LEMMA LockKeepsMemory ==
  ASSUME IInv, MemInv, NEW c \in Callers, Lock(c)
  PROVE  MemInv'
  <1>0. PoolTypeOK /\ LeaderInv /\ MemoryTypeOK /\ CallersKnow
    BY DEF IInv, MemInv
  <1>1. /\ pc[c] = "lock" /\ pc' = [pc EXCEPT ![c] = "store_arguments"]
        /\ knows' = [knows EXCEPT ![c] = @ \cup carries["execution_mutex"]]
        /\ UNCHANGED <<pool, command, last_command, has_active_threads, carries>>
    BY DEF Lock, Goto, load_acquire
  <1>2. pool = "ready" /\ \A b \in Callers : ~Leads(b)
    BY <1>0, <1>1, ThreadKinds DEF Lock, LeaderInv
  <1>3. Data \subseteq knows'[c]
    BY <1>0, <1>1, <1>2, ThreadKinds DEF CallersKnow, MemoryTypeOK
  <1>4. MemoryTypeOK' /\ carries["execution_mutex"] \in SUBSET Data
    <2>1. "execution_mutex" \in Locations /\ c \in Threads /\ load_acquire(c, "execution_mutex")
      BY DataKinds, ThreadKinds DEF Lock
    <2> QED BY <1>0, <2>1, MemoryOperationTypes DEF MemoryTypeOK
  <1>5. /\ Leads(c)'
        /\ \A b \in Callers : b # c => pc'[b] = pc[b]
        /\ \A b \in Callers : ~Open(b)' /\ pc'[b] \notin Running
    BY <1>0, <1>1, <1>2, ThreadKinds DEF PoolTypeOK, Leads, Open, Running, Waiting
  <1>6. \A b \in Callers : pc'[b] \in Exclusive => b = c
    BY <1>2, <1>5 DEF Leads, Exclusive, Storing
  <1>7. CallersKnow'
    BY <1>1, <1>2, <1>3, <1>5, <1>6 DEF CallersKnow
  <1>8. CommandCarries' /\ CountersCarry'
    <2>1. ~Awaited' /\ "store_arguments" \in CallerLabel
      BY <1>5 DEF Awaited, CallerLabel
    <2> QED BY <1>0, <1>1, <1>4, <2>1, CallerLearns
  <1> QED BY <1>4, <1>7, <1>8 DEF MemInv

(* The caller that saw the futex word cleared knows what all workers did. *)
LEMMA AllCheckedInKeepsMemory ==
  ASSUME IInv, MemInv, NEW c \in Callers, AllCheckedIn(c)
  PROVE  MemInv'
  <1>0. /\ PoolTypeOK /\ LeaderInv /\ MemoryTypeOK /\ CallersKnow /\ CountersCarry
    BY DEF IInv, MemInv
  <1>1. /\ pc[c] \in Waiting
        /\ knows' = [knows EXCEPT ![c] = @ \cup carries["has_active_threads"]]
        /\ has_active_threads = 0
        /\ UNCHANGED <<command, last_command, has_active_threads, carries>>
    BY DEF AllCheckedIn, WaitIsOver, load_acquire, fields, Waiting
  <1>2. /\ pool \in {"creating", "ready"} /\ pool' = "ready"
        /\ pc' = [pc EXCEPT ![c] = IF pool = "creating" THEN "idle" ELSE "unlock"]
    BY <1>0, <1>1 DEF AllCheckedIn, Goto, PoolTypeOK, LeaderInv, Waiting
  <1>3. Awaited /\ Leads(c) /\ \A b \in Callers : Leads(b) <=> b = c
    BY <1>0, <1>1, <1>2 DEF Awaited, Open, Running, Waiting, Leads, LeaderInv
  <1>4. /\ \A b \in Callers : b # c => pc'[b] = pc[b]
        /\ pc'[c] = IF pool = "creating" THEN "idle" ELSE "unlock"
    BY <1>0, <1>2, ThreadKinds DEF PoolTypeOK
  <1>5. \A b \in Callers : ~Open(b)' /\ pc'[b] \notin Running /\ (Leads(b)' => b = c)
    BY <1>3, <1>4 DEF Open, Running, Waiting, Leads
  <1>6. MemoryTypeOK' /\ carries["has_active_threads"] \in SUBSET Data
    <2>1. "has_active_threads" \in Locations /\ c \in Threads /\ load_acquire(c, "has_active_threads")
      BY DataKinds, ThreadKinds DEF AllCheckedIn
    <2> QED BY <1>0, <2>1, MemoryOperationTypes DEF MemoryTypeOK
  <1>7. CommandCarries' /\ CountersCarry' /\ \A b \in Callers : knows[b] \subseteq knows'[b]
    <2>1. ~Awaited'
      BY <1>5 DEF Awaited
    <2>2. PICK label \in CallerLabel : pc' = [pc EXCEPT ![c] = label]
      BY <1>2 DEF CallerLabel
    <2> QED BY <1>0, <1>1, <1>6, <2>1, <2>2, CallerLearns
  <1>8. pool = "ready" => Data \subseteq knows'[c]
    <2>1. pool = "ready" => Handed \subseteq knows[c]
      BY <1>0, <1>1 DEF CallersKnow, Running
    <2>2. Workers \subseteq carries["has_active_threads"]
      BY <1>0, <1>1, <1>3 DEF CountersCarry
    <2>3. knows'[c] = knows[c] \cup carries["has_active_threads"]
      BY <1>0, <1>1, ThreadKinds DEF MemoryTypeOK
    <2> QED BY <2>1, <2>2, <2>3, DataKinds
  <1>9. CallersKnow'
    <2>1. CASE pool = "creating"
      <3>1. \A b \in Callers : Data \subseteq knows'[b]
        BY <1>0, <1>7, <2>1 DEF CallersKnow
      <3>2. \A b \in Callers : pc'[b] \notin Exclusive
        BY <1>4, <1>5, <2>1 DEF Leads, Exclusive, Storing
      <3> QED BY <1>2, <1>5, <3>1, <3>2 DEF CallersKnow
    <2>2. CASE pool = "ready"
      <3>1. \A b \in Callers : pc'[b] \in Exclusive => b = c
        BY <1>5 DEF Leads, Exclusive, Storing
      <3>2. Leads(c)'
        BY <1>4, <2>2 DEF Leads
      <3> QED BY <1>2, <1>5, <1>8, <2>2, <3>1, <3>2 DEF CallersKnow
    <2> QED BY <1>2, <2>1, <2>2
  <1> QED BY <1>6, <1>7, <1>9 DEF MemInv

(* The mutex is given back with all its holder knows. *)
LEMMA UnlockKeepsMemory ==
  ASSUME IInv, MemInv, NEW c \in Callers, Unlock(c)
  PROVE  MemInv'
  <1>0. PoolTypeOK /\ LeaderInv /\ MemoryTypeOK /\ CallersKnow /\ CommandCarries
    BY DEF IInv, MemInv
  <1>1. /\ pc[c] \in Exclusive /\ pc' = [pc EXCEPT ![c] = "idle"]
        /\ carries' = [carries EXCEPT !["execution_mutex"] = knows[c]]
        /\ UNCHANGED <<pool, command, last_command, knows>>
    BY DEF Unlock, Goto, store_release, Exclusive
  <1>2. /\ \A b \in Callers : Leads(b) <=> b = c
        /\ \A w \in Workers : ~AtWork(w) /\ Started(w) /\ pc[w] # "clear" /\ command = last_command[w]
    BY <1>1, ExclusiveMeansRest
  <1>3. Data \subseteq knows[c] /\ carries'["execution_mutex"] = knows[c]
    BY <1>0, <1>1, DataKinds DEF CallersKnow, MemoryTypeOK
  <1>4. pool = "ready"
    BY <1>0 DEF Unlock, LeaderInv, PoolTypeOK, Waiting
  <1>5. MemoryTypeOK'
    <2>1. "execution_mutex" \in Locations /\ c \in Threads /\ store_release(c, "execution_mutex")
      BY DataKinds, ThreadKinds DEF Unlock
    <2> QED BY <1>0, <2>1, MemoryOperationTypes
  <1>6. \A b \in Callers : ~Leads(b)' /\ ~Open(b)' /\ pc'[b] \notin Exclusive \cup Running
    BY <1>0, <1>1, <1>2, ThreadKinds
       DEF PoolTypeOK, Leads, Open, Exclusive, Storing, Running, Waiting
  <1>7. CallersKnow'
    BY <1>1, <1>3, <1>4, <1>6 DEF CallersKnow
  <1>8. \A w \in Workers : ~AtWork(w)' /\ pc'[w] # "clear"
    BY <1>0, <1>1, <1>2, ThreadKinds DEF PoolTypeOK, AtWork
  <1>9. CommandCarries'
    BY <1>0, <1>1, <1>2, <1>8 DEF CommandCarries
  <1>10. CountersCarry'
    BY <1>6, <1>8 DEF CountersCarry, Awaited
  <1> QED BY <1>5, <1>7, <1>9, <1>10 DEF MemInv

(* The user that destroys the pool has waited for all its calls. *)
LEMMA DestroyKeepsMemory ==
  ASSUME IInv, MemInv, NEW c \in Callers, Destroy(c)
  PROVE  MemInv'
  <1>0. PoolTypeOK /\ MemoryTypeOK /\ CallersKnow
    BY DEF IInv, MemInv
  <1>1. /\ pool = "ready" /\ pool' = "stopping" /\ \A b \in Callers : ~Leads(b) /\ pc[b] = "idle"
        /\ pc' = [pc EXCEPT ![c] = "store_active"]
        /\ knows' = [knows EXCEPT ![c] = @ \cup UNION {knows[b] : b \in Callers}]
        /\ UNCHANGED <<command, last_command, has_active_threads, carries>>
    BY DEF Destroy, Goto, synchronize, fields, Leads
  <1>2. UNION {knows[b] : b \in Callers} \in SUBSET Data
    BY <1>0, ThreadKinds DEF MemoryTypeOK
  <1>3. Data \subseteq knows'[c]
    <2>1. PICK b \in Callers : Data \subseteq knows[b]
      BY <1>0, <1>1 DEF CallersKnow
    <2>2. Data \subseteq UNION {knows[d] : d \in Callers}
      BY <2>1
    <2> QED BY <1>0, <1>1, <2>2, ThreadKinds DEF MemoryTypeOK
  <1>4. MemoryTypeOK'
    <2>1. Callers \in SUBSET Threads /\ c \in Threads /\ synchronize(c, Callers)
      BY ThreadKinds DEF Destroy
    <2> QED BY <1>0, <2>1, MemoryOperationTypes
  <1>5. CommandCarries' /\ CountersCarry'
    <2>1. ~Awaited' /\ "store_active" \in CallerLabel
      BY <1>1 DEF Awaited, CallerLabel
    <2> QED BY <1>0, <1>1, <1>2, <1>4, <2>1, CallerLearns
  <1>6. \A b \in Callers : pc'[b] \in Exclusive => b = c
    BY <1>1 DEF Exclusive, Storing
  <1>7. CallersKnow'
    BY <1>1, <1>3, <1>6 DEF CallersKnow
  <1> QED BY <1>4, <1>5, <1>7 DEF MemInv

LEMMA JoinKeepsMemory ==
  ASSUME IInv, MemInv, NEW c \in Callers, Join(c)
  PROVE  MemInv'
  <1>0. PoolTypeOK /\ LeaderInv /\ MemoryTypeOK
    BY DEF IInv, MemInv
  <1>1. /\ pc' = [pc EXCEPT ![c] = "idle"] /\ pool' = "released"
        /\ knows' = [knows EXCEPT ![c] = @ \cup UNION {knows[w] : w \in Workers}]
        /\ UNCHANGED <<command, last_command, has_active_threads, carries>>
    BY DEF Join, Goto, synchronize, fields
  <1>2. \A b \in Callers : pc'[b] \notin Exclusive
    <2>1. Leads(c)
      BY DEF Join, Leads
    <2>2. \A b \in Callers : b # c => ~Leads(b)
      BY <1>0, <2>1 DEF LeaderInv
    <2> QED BY <1>0, <1>1, <2>2, ThreadKinds DEF PoolTypeOK, Leads, Exclusive, Storing
  <1>3. UNION {knows[w] : w \in Workers} \in SUBSET Data
    BY <1>0, ThreadKinds DEF MemoryTypeOK
  <1>4. MemoryTypeOK'
    <2>1. Workers \in SUBSET Threads /\ c \in Threads /\ synchronize(c, Workers)
      BY ThreadKinds DEF Join
    <2> QED BY <1>0, <2>1, MemoryOperationTypes
  <1>5. CommandCarries' /\ CountersCarry'
    <2>1. ~Awaited' /\ "idle" \in CallerLabel
      BY <1>1 DEF Awaited, CallerLabel
    <2> QED BY <1>0, <1>1, <1>3, <1>4, <2>1, CallerLearns
  <1>6. CallersKnow'
    BY <1>1, <1>2 DEF CallersKnow
  <1> QED BY <1>4, <1>5, <1>6 DEF MemInv

-----------------------------------------------------------------------------
(* The steps by which workers pass on what they know. *)

(* A worker that owes its check-in is awaited, and until it has checked in *)
(* nobody stores and no worker clears the futex word.                      *)
LEMMA OwingMeansAwaited ==
  ASSUME IInv, NEW w \in Workers, Owes(w), command.op # "shutdown"
  PROVE  /\ Awaited /\ has_active_threads = 1
         /\ \A c \in Callers : pc[c] \notin Exclusive
         /\ \A v \in Workers : pc[v] # "clear"
  <1>0. PoolTypeOK /\ LeaderInv /\ CommandInv /\ CountInv
    BY DEF IInv
  <1>1. ~AtRest(w)
    BY DEF AtRest
  <1>2. \A c \in Callers : pc[c] \notin Exclusive
    BY <1>1, ExclusiveMeansRest
  <1>3. PICK c \in Callers : Open(c)
    BY <1>0, <1>1 DEF CountInv
  <1>4. Leads(c) /\ pool \notin {"stopping", "released"}
    BY <1>0, <1>3 DEF Open, Running, Waiting, Leads, LeaderInv, CommandInv
  <1>5. has_active_threads = 1
    <2>1. \A b \in Callers : ~Preparing(b)
      BY <1>2 DEF Preparing, Exclusive, Storing
    <2> QED BY <1>0, <1>1, <2>1 DEF CountInv, PoolTypeOK
  <1> QED BY <1>0, <1>2, <1>3, <1>4, <1>5 DEF Awaited, PoolTypeOK, CountInv

(* The decrement adds what the worker stored to what the counter carries; *)
(* the last one reads from it what all the others stored.                 *)
LEMMA CheckinKeepsMemory ==
  ASSUME IInv, MemInv, NEW w \in Workers, Checkin(w)
  PROVE  MemInv'
  <1>0. /\ PoolTypeOK /\ WorkerInv /\ CountInv
        /\ MemoryTypeOK /\ CallersKnow /\ CommandCarries /\ CountersCarry
    BY DEF IInv, MemInv
  <1>1. Owes(w) /\ w \in Owers /\ command.op # "shutdown" /\ command = last_command[w]
    BY <1>0 DEF Checkin, Owes, Owers, Busy, WorkerInv, Waiting
  <1>2. Awaited /\ has_active_threads = 1 /\ \A v \in Workers : pc[v] # "clear"
    BY <1>1, OwingMeansAwaited
  <1>3. /\ UNCHANGED <<pool, command, last_command, has_active_threads>>
        /\ pc' = [pc EXCEPT ![w] = IF active_threads' = 0 THEN "clear" ELSE "wait"]
        /\ carries' = [carries EXCEPT !["active_threads"] = @ \cup knows[w]]
        /\ knows' = [knows EXCEPT ![w] = @ \cup carries["active_threads"]]
    BY DEF Checkin, Goto, decrement_fetch_acquire_release
  <1>4. /\ \A b \in Callers : pc'[b] = pc[b]
        /\ \A v \in Workers : v # w => pc'[v] = pc[v]
        /\ pc'[w] = IF active_threads' = 0 THEN "clear" ELSE "wait"
        /\ \A t \in Threads : knows[t] \subseteq knows'[t]
        /\ \A l \in Locations : carries[l] \subseteq carries'[l]
        /\ knows'[w] = knows[w] \cup carries["active_threads"]
        /\ carries'["active_threads"] = carries["active_threads"] \cup knows[w]
    BY <1>0, <1>3, ThreadKinds, DataKinds DEF PoolTypeOK, MemoryTypeOK
  <1>5. MemoryTypeOK'
    <2>1. /\ "active_threads" \in Locations /\ w \in Threads
          /\ decrement_fetch_acquire_release(w, "active_threads")
      BY DataKinds, ThreadKinds DEF Checkin
    <2> QED BY <1>0, <2>1, MemoryOperationTypes
  <1>6. CallersKnow'
    BY <1>0, <1>3, <1>4, ThreadKinds, DataKinds DEF CallersKnow, Leads
  <1>7. CommandCarries'
    BY <1>0, <1>3, <1>4, ThreadKinds, DataKinds DEF CommandCarries, Started, AtWork, Checkin
  <1>8. CountersCarry'
    <2>1. Awaited' <=> Awaited
      BY <1>3, <1>4 DEF Awaited, Open
    <2>2. \A v \in Workers : Owes(v)' \/ v \in carries'["active_threads"]
      <3>1. w \in carries'["active_threads"]
        BY <1>0, <1>4 DEF Checkin, CommandCarries, Started
      <3>2. \A v \in Workers : v # w => (Owes(v)' <=> Owes(v))
        BY <1>3, <1>4 DEF Owes, Busy
      <3> QED BY <1>0, <1>2, <1>4, <3>1, <3>2 DEF CountersCarry
    <2>3. pc'[w] = "clear" => Workers \subseteq knows'[w]
      <3>1. /\ active_threads = Cardinality(Owers) /\ active_threads' = active_threads - 1
        BY <1>0, <1>1, ExclusiveMeansRest DEF CountInv, Checkin, Preparing, Exclusive, Storing,
                                            AtRest
      <3>2. IsFiniteSet(Owers \ {w}) /\ Cardinality(Owers \ {w}) = Cardinality(Owers) - 1
        BY <1>1, CountWorkers, FS_RemoveElement
      <3>3. pc'[w] = "clear" => Owers \ {w} = {}
        BY <1>4, <3>1, <3>2, FS_EmptySet
      <3>4. \A v \in Workers : Owes(v) \/ v \in carries["active_threads"]
        BY <1>0, <1>2 DEF CountersCarry
      <3>5. w \in knows[w]
        BY <1>0 DEF Checkin, CommandCarries, Started
      <3> QED BY <1>4, <3>3, <3>4, <3>5 DEF Owers
    <2>4. \A v \in Workers : v # w => pc'[v] # "clear"
      BY <1>2, <1>4
    <2>5. has_active_threads' = 1
      BY <1>2, <1>3
    <2> QED BY <2>1, <2>2, <2>3, <2>4, <2>5 DEF CountersCarry
  <1> QED BY <1>5, <1>6, <1>7, <1>8 DEF MemInv

(* The futex word takes on what the last worker knows. *)
LEMMA ClearKeepsMemory ==
  ASSUME IInv, MemInv, NEW w \in Workers, Clear(w)
  PROVE  MemInv'
  <1>0. PoolTypeOK /\ MemoryTypeOK /\ CallersKnow /\ CommandCarries /\ CountersCarry
    BY DEF IInv, MemInv
  <1>1. /\ UNCHANGED <<pool, command, last_command, knows>>
        /\ pc[w] = "clear" /\ pc' = [pc EXCEPT ![w] = "notify"]
        /\ carries' = [carries EXCEPT !["has_active_threads"] = knows[w]]
    BY DEF Clear, Goto, store_release
  <1>2. /\ \A b \in Callers : pc'[b] = pc[b]
        /\ \A v \in Workers : v # w => pc'[v] = pc[v]
        /\ pc'[w] = "notify"
        /\ carries'["has_active_threads"] = knows[w]
        /\ \A l \in Locations : l # "has_active_threads" => carries'[l] = carries[l]
    BY <1>0, <1>1, ThreadKinds, DataKinds DEF PoolTypeOK, MemoryTypeOK
  <1>3. MemoryTypeOK'
    <2>1. "has_active_threads" \in Locations /\ w \in Threads /\ store_release(w, "has_active_threads")
      BY DataKinds, ThreadKinds DEF Clear
    <2> QED BY <1>0, <2>1, MemoryOperationTypes
  <1>4. CallersKnow'
    BY <1>0, <1>1, <1>2, DataKinds DEF CallersKnow, Leads
  <1>5. CommandCarries'
    BY <1>0, <1>1, <1>2, DataKinds DEF CommandCarries, Started, AtWork
  <1>6. CountersCarry'
    <2>1. Awaited' <=> Awaited
      BY <1>1, <1>2 DEF Awaited, Open
    <2>2. \A v \in Workers : Owes(v)' <=> Owes(v)
      BY <1>1, <1>2 DEF Owes, Busy
    <2>3. carries'["active_threads"] = carries["active_threads"]
      BY <1>2, DataKinds
    <2>4. Workers \subseteq carries'["has_active_threads"]
      BY <1>0, <1>1, <1>2 DEF CountersCarry
    <2> QED BY <1>0, <1>1, <1>2, <2>1, <2>2, <2>3, <2>4 DEF CountersCarry
  <1> QED BY <1>3, <1>4, <1>5, <1>6 DEF MemInv

(* With the command comes what was stored before it. *)
LEMMA SeeCommandKeepsMemory ==
  ASSUME IInv, MemInv, NEW w \in Workers, SeeCommand(w)
  PROVE  MemInv'
  <1>0. PoolTypeOK /\ MemoryTypeOK /\ CallersKnow /\ CommandCarries /\ CountersCarry
    BY DEF IInv, MemInv
  <1>1. /\ UNCHANGED <<pool, command, has_active_threads, carries>>
        /\ pc[w] \in {"wait", "spin", "reload"} /\ pc' = [pc EXCEPT ![w] = "dispatch"]
        /\ command # last_command[w] /\ last_command' = [last_command EXCEPT ![w] = command]
        /\ knows' = [knows EXCEPT ![w] = @ \cup carries["command"]]
    BY DEF SeeCommand, Goto, load_acquire, fields
  <1>2. /\ \A b \in Callers : pc'[b] = pc[b]
        /\ \A v \in Workers : v # w => pc'[v] = pc[v] /\ last_command'[v] = last_command[v]
        /\ pc'[w] = "dispatch" /\ last_command'[w] = command
        /\ \A t \in Threads : knows[t] \subseteq knows'[t]
        /\ knows'[w] = knows[w] \cup carries["command"]
    BY <1>0, <1>1, ThreadKinds DEF PoolTypeOK, MemoryTypeOK
  <1>3. MemoryTypeOK'
    <2>1. "command" \in Locations /\ w \in Threads /\ load_acquire(w, "command")
      BY DataKinds, ThreadKinds DEF SeeCommand
    <2> QED BY <1>0, <2>1, MemoryOperationTypes
  <1>4. CallersKnow'
    BY <1>0, <1>1, <1>2, ThreadKinds DEF CallersKnow, Leads
  <1>5. CommandCarries'
    BY <1>0, <1>1, <1>2, ThreadKinds DEF CommandCarries, Started, AtWork
  <1>6. CountersCarry'
    <2>1. Awaited' <=> Awaited
      BY <1>1, <1>2 DEF Awaited, Open
    <2>2. \A v \in Workers : Owes(v)' <=> Owes(v)
      BY <1>1, <1>2 DEF Owes, Busy
    <2> QED BY <1>0, <1>1, <1>2, <2>1, <2>2, ThreadKinds DEF CountersCarry
  <1> QED BY <1>3, <1>4, <1>5, <1>6 DEF MemInv

(* What the tasks of a worker store is news to everybody else. *)
LEMMA WorkerEnterKeepsMemory ==
  ASSUME IInv, MemInv, NEW w \in Workers, WorkerEnter(w)
  PROVE  MemInv'
  <1>0. /\ PoolTypeOK /\ LeaderInv /\ CommandInv /\ WorkerInv
        /\ MemoryTypeOK /\ CallersKnow /\ CommandCarries /\ CountersCarry
    BY DEF IInv, MemInv
  <1>1. Owes(w) /\ command.op = "parallelize"
    BY <1>0 DEF WorkerEnter, Owes, Busy, WorkerInv
  <1>2. /\ Awaited /\ has_active_threads = 1
        /\ \A c \in Callers : pc[c] \notin Exclusive
        /\ \A v \in Workers : pc[v] # "clear"
    BY <1>1, OwingMeansAwaited
  <1>3. /\ UNCHANGED <<pool, command, last_command, has_active_threads>>
        /\ pc[w] = "enter" /\ pc' = [pc EXCEPT ![w] = "run"]
        /\ knows' = [t \in Threads |-> IF t = w THEN knows[t] \cup {w} ELSE knows[t] \ {w}]
        /\ carries' = [l \in Locations |-> carries[l] \ {w}]
    BY DEF WorkerEnter, Goto, store_relaxed, fields
  <1>4. /\ \A b \in Callers : pc'[b] = pc[b]
        /\ \A v \in Workers : v # w => pc'[v] = pc[v]
        /\ pc'[w] = "run"
    BY <1>0, <1>3, ThreadKinds DEF PoolTypeOK
  <1>5. w \in Data /\ w \notin Handed
    BY DataKinds
  <1>6. MemoryTypeOK'
    <2>1. {w} \in SUBSET Data /\ w \in Threads /\ store_relaxed(w, {w})
      BY <1>5, ThreadKinds DEF WorkerEnter
    <2> QED BY <1>0, <2>1, MemoryOperationTypes
  <1>7. CallersKnow'
    <2>1. pool # "creating"
      BY <1>0, <1>1 DEF CommandInv, InitCommand
    <2>2. \E c \in Callers : Leads(c)'
      BY <1>2, <1>4 DEF Awaited, Open, Running, Waiting, Leads
    <2>3. \A c \in Callers : Handed \subseteq knows[c] => Handed \subseteq knows'[c]
      BY <1>3, <1>5, ThreadKinds
    <2> QED BY <1>0, <1>2, <1>3, <1>4, <2>1, <2>2, <2>3 DEF CallersKnow
  <1>8. CommandCarries'
    <2>1. \A v \in Workers : v \in knows[v] => v \in knows'[v]
      BY <1>3, ThreadKinds
    <2>2. \A v \in Workers : Handed \subseteq knows[v] => Handed \subseteq knows'[v]
      BY <1>3, <1>5, ThreadKinds
    <2>3. Handed \subseteq carries["command"] => Handed \subseteq carries'["command"]
      BY <1>3, <1>5, DataKinds
    <2> QED BY <1>0, <1>3, <1>4, <2>1, <2>2, <2>3 DEF CommandCarries, Started, AtWork
  <1>9. CountersCarry'
    <2>1. \A v \in Workers : Owes(v)' <=> Owes(v)
      BY <1>3, <1>4 DEF Owes, Busy
    <2>2. \A v \in Workers : v # w /\ v \in carries["active_threads"] => v \in carries'["active_threads"]
      BY <1>3, DataKinds
    <2> QED BY <1>0, <1>1, <1>2, <1>3, <1>4, <2>1, <2>2 DEF CountersCarry
  <1> QED BY <1>6, <1>7, <1>8, <1>9 DEF MemInv

-----------------------------------------------------------------------------
LEMMA InitEstablishesMemory == Init => MemInv
  <1> SUFFICES ASSUME Init PROVE MemInv
    OBVIOUS
  <1>1. /\ \A c \in Callers : knows[c] = Data
        /\ MemoryTypeOK
    BY ThreadKinds DEF Init, MemoryInit, MemoryTypeOK
  <1>2. /\ \A c \in Callers : pc[c] \in {"spawn", "idle"}
        /\ \A w \in Workers : pc[w] = "unborn" /\ command = last_command[w]
        /\ pool = "creating" /\ has_active_threads = 1
    BY ThreadKinds DEF Init
  <1>3. CallersKnow
    BY <1>1, <1>2, DataKinds DEF CallersKnow, Exclusive, Storing
  <1>4. CommandCarries /\ CountersCarry
    BY <1>2 DEF CommandCarries, CountersCarry, Started, AtWork, Owes, Busy
  <1> QED BY <1>1, <1>3, <1>4 DEF MemInv

LEMMA NextKeepsMemory ==
  ASSUME IInv, MemInv, [Next]_vars
  PROVE  MemInv'
  <1>1. ASSUME NEW w \in Workers, WorkerStep(w)
        PROVE  MemInv'
    BY <1>1, CheckinKeepsMemory, ClearKeepsMemory, SeeCommandKeepsMemory, WorkerEnterKeepsMemory,
       QuietWorkerSteps DEF WorkerStep
  <1>2. ASSUME NEW c \in Callers, CallerStep(c)
        PROVE  MemInv'
    BY <1>2, SpawnKeepsMemory, LockKeepsMemory, StoresKeepMemory, StoreCommandKeepsMemory,
       AllCheckedInKeepsMemory, UnlockKeepsMemory, JoinKeepsMemory, QuietCallerSteps
       DEF CallerStep
  <1>3. CASE Environment
    BY <1>3, DestroyKeepsMemory, QuietCallerSteps, QuietSpuriousWakeup DEF Environment
  <1>4. CASE UNCHANGED vars
    <2>1. UNCHANGED <<memory, pool, command, last_command, has_active_threads, pc>>
      BY <1>4 DEF vars, fields
    <2> QED BY <2>1, QuietStep DEF Leads, Open, Owes, Busy, Started, AtWork
  <1> QED BY <1>1, <1>2, <1>3, <1>4 DEF Next

(* The invariant of the memory holds in every state. *)
THEOREM MemoryInvariant == Spec => []MemInv
  <1>1. IInv /\ MemInv /\ [Next]_vars => MemInv'
    BY NextKeepsMemory
  <1> QED BY <1>1, InitEstablishesMemory, InductiveInvariant, PTL DEF Spec

(* All variables of the handshake keep a value they can have, the memory *)
(* among them.                                                           *)
THEOREM TypeCorrect == Spec => []TypeOK
  <1>1. IInv /\ MemInv => TypeOK
    BY DEF IInv, MemInv, TypeOK
  <1> QED BY <1>1, InductiveInvariant, MemoryInvariant, PTL

(* No thread of the futex backend reads a stale value: the orders that the *)
(* loads, stores and decrements of pthreads.c ask for are enough.          *)
THEOREM NothingIsStale == Spec => []NothingStaleIsRead
  <1>1. MemInv => NothingStaleIsRead
    BY DataKinds
       DEF MemInv, CallersKnow, CommandCarries, NothingStaleIsRead, AtWork, Exclusive, Storing, Handed
  <1> QED BY <1>1, MemoryInvariant, PTL
=============================================================================
