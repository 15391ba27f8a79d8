--------------------------- MODULE GcdPoolProofs ---------------------------
(***************************************************************************)
(* The backend for Grand Central Dispatch is right for every number of     *)
(* indices, callers and threads of the system, and whichever of these      *)
(* libdispatch lets apply which index.                                     *)
(***************************************************************************)
EXTENDS GcdPool, TLAPS

(* A thread that applies thread_main to its index. *)
Applies(t) == pc[t] \in {"enter", "run"}

(* A caller that is inside of dispatch_apply_f. *)
Applying(c) == pc[c] \in {"apply", "enter", "run"}

-----------------------------------------------------------------------------
(* The inductive invariant. *)

(* The semaphore lets one operation in, and a destroyed pool has none. *)
SemaphoreInv ==
  /\ \A c, d \in Callers : Executes(c) /\ Executes(d) => c = d
  /\ execution_semaphore = 0 <=> \E c \in Callers : Executes(c)
  /\ released => \A c \in Callers : pc[c] = "idle"

(* The threads of the system, and the indices, are busy only for a caller  *)
(* that waits for them, and all of them work with what that caller stored. *)
OperationInv ==
  /\ \A h \in Helpers : pc[h] # "idle" => \E c \in Callers : Applying(c)
  /\ pending # {} => \E c \in Callers : Applying(c)
  /\ \A c \in Callers : Applying(c) \/ pc[c] = "dispatch" =>
       arguments = c /\ flags = requested[c]
  /\ \A t \in Threads : Applies(t) => function[t] = arguments /\ local_flags[t] = flags

(* An index waits to be applied, is being applied by one thread, or has *)
(* been applied.                                                        *)
IndexInv ==
  /\ \A t \in Threads : Applies(t) => index[t] \notin pending
  /\ \A t, u \in Threads : Applies(t) /\ Applies(u) /\ index[t] = index[u] => t = u
  /\ \A c \in Callers, i \in Index :
       /\ pc[c] \in {"store", "dispatch"} => served[i] = Nobody
       /\ Applying(c) => (served[i] = c <=>
            i \notin pending /\ \A t \in Threads : Applies(t) => index[t] # i)
       /\ pc[c] = "signal" => served[i] = c

(* Between two indices the FPU of a thread is as its user left it, and what *)
(* it has saved is what it will restore.                                    *)
FpuInv ==
  \A t \in Threads :
    /\ denormals[t] <=> /\ t \notin NoDenormals
                        /\ ~(pc[t] = "run" /\ "DISABLE_DENORMALS" \in local_flags[t])
    /\ pc[t] = "run" /\ "DISABLE_DENORMALS" \in local_flags[t] =>
         (saved_denormals[t] <=> t \notin NoDenormals)

IInv == TypeOK /\ SemaphoreInv /\ OperationInv /\ IndexInv /\ FpuInv

-----------------------------------------------------------------------------
(* The callers are no threads of libdispatch. *)
LEMMA ThreadKinds ==
  Callers \cap Helpers = {} /\ Threads = Callers \cup Helpers /\ Nobody \notin Threads
  BY CallersAssumption DEF Threads

-----------------------------------------------------------------------------
(* The steps of pthreadpool_parallelize and pthreadpool_destroy. *)

(* A caller that waits for the semaphore has stored nothing yet. *)
LEMMA ParallelizeKeepsInv ==
  ASSUME IInv, NEW c \in Callers, NEW set \in SUBSET Flag, Parallelize(c, set)
  PROVE  IInv'
  <1> USE DEF Parallelize, Goto, operation, locals, fpu
  <1>0. TypeOK /\ SemaphoreInv /\ OperationInv /\ IndexInv /\ FpuInv
    BY DEF IInv
  <1>1. TypeOK'
    BY <1>0, ThreadKinds DEF TypeOK, Label
  <1>2. SemaphoreInv'
    BY <1>0, ThreadKinds DEF TypeOK, SemaphoreInv, Executes
  <1>3. OperationInv'
    BY <1>0, ThreadKinds DEF TypeOK, SemaphoreInv, Executes, OperationInv, Applying, Applies
  <1>4. IndexInv'
    BY <1>0, ThreadKinds DEF TypeOK, SemaphoreInv, Executes, OperationInv, IndexInv, Applying, Applies
  <1>5. FpuInv'
    BY <1>0, ThreadKinds DEF TypeOK, FpuInv
  <1> QED BY <1>1, <1>2, <1>3, <1>4, <1>5 DEF IInv

(* The semaphore is taken when nobody executes an operation. *)
LEMMA WaitKeepsInv ==
  ASSUME IInv, NEW c \in Callers, Wait(c)
  PROVE  IInv'
  <1> USE DEF Wait, Goto, operation, locals, fpu
  <1>0. TypeOK /\ SemaphoreInv /\ OperationInv /\ IndexInv /\ FpuInv
    BY DEF IInv
  <1>1. TypeOK'
    BY <1>0, ThreadKinds DEF TypeOK, Label
  <1>2. SemaphoreInv'
    BY <1>0, ThreadKinds DEF TypeOK, SemaphoreInv, Executes
  <1>3. OperationInv'
    BY <1>0, ThreadKinds DEF TypeOK, SemaphoreInv, Executes, OperationInv, Applying, Applies
  <1>4. IndexInv'
    BY <1>0, ThreadKinds DEF TypeOK, SemaphoreInv, Executes, OperationInv, IndexInv, Applying, Applies
  <1>5. FpuInv'
    BY <1>0, ThreadKinds DEF TypeOK, FpuInv
  <1> QED BY <1>1, <1>2, <1>3, <1>4, <1>5 DEF IInv

(* The stores are made while all threads of the system are idle. *)
LEMMA StoreKeepsInv ==
  ASSUME IInv, NEW c \in Callers, Store(c)
  PROVE  IInv'
  <1> USE DEF Store, Goto, operation, locals, fpu
  <1>0. TypeOK /\ SemaphoreInv /\ OperationInv /\ IndexInv /\ FpuInv
    BY DEF IInv
  <1>1. TypeOK'
    BY <1>0, ThreadKinds DEF TypeOK, Label
  <1>2. SemaphoreInv'
    BY <1>0, ThreadKinds DEF TypeOK, SemaphoreInv, Executes
  <1>3. OperationInv'
    BY <1>0, ThreadKinds DEF TypeOK, SemaphoreInv, Executes, OperationInv, Applying, Applies
  <1>4. IndexInv'
    BY <1>0, ThreadKinds DEF TypeOK, SemaphoreInv, Executes, OperationInv, IndexInv, Applying, Applies
  <1>5. FpuInv'
    BY <1>0, ThreadKinds DEF TypeOK, FpuInv
  <1> QED BY <1>1, <1>2, <1>3, <1>4, <1>5 DEF IInv

(* All indices wait to be applied, and none has been. *)
LEMMA DispatchKeepsInv ==
  ASSUME IInv, NEW c \in Callers, Dispatch(c)
  PROVE  IInv'
  <1> USE DEF Dispatch, Applied, Goto, operation, locals, fpu
  <1>0. TypeOK /\ SemaphoreInv /\ OperationInv /\ IndexInv /\ FpuInv
    BY DEF IInv
  <1>1. TypeOK'
    BY <1>0, ThreadKinds DEF TypeOK, Label
  <1>2. SemaphoreInv'
    BY <1>0, ThreadKinds DEF TypeOK, SemaphoreInv, Executes
  <1>3. OperationInv'
    BY <1>0, ThreadKinds DEF TypeOK, SemaphoreInv, Executes, OperationInv, Applying, Applies
  <1>4. IndexInv'
    BY <1>0, ThreadKinds DEF TypeOK, SemaphoreInv, Executes, OperationInv, IndexInv, Applying, Applies
  <1>5. FpuInv'
    BY <1>0, ThreadKinds DEF TypeOK, FpuInv
  <1> QED BY <1>1, <1>2, <1>3, <1>4, <1>5 DEF IInv

(* No index waits and no thread applies one: all have been applied. *)
LEMMA AllAppliedKeepsInv ==
  ASSUME IInv, NEW c \in Callers, AllApplied(c)
  PROVE  IInv'
  <1> USE DEF AllApplied, Goto, operation, locals, fpu
  <1>0. TypeOK /\ SemaphoreInv /\ OperationInv /\ IndexInv /\ FpuInv
    BY DEF IInv
  <1>1. TypeOK'
    BY <1>0, ThreadKinds DEF TypeOK, Label
  <1>2. SemaphoreInv'
    BY <1>0, ThreadKinds DEF TypeOK, SemaphoreInv, Executes
  <1>3. OperationInv'
    BY <1>0, ThreadKinds DEF TypeOK, SemaphoreInv, Executes, OperationInv, Applying, Applies
  <1>4. IndexInv'
    BY <1>0, ThreadKinds DEF TypeOK, SemaphoreInv, Executes, OperationInv, IndexInv, Applying, Applies
  <1>5. FpuInv'
    BY <1>0, ThreadKinds DEF TypeOK, FpuInv
  <1> QED BY <1>1, <1>2, <1>3, <1>4, <1>5 DEF IInv

(* The semaphore is given back when nobody is left in the operation. *)
LEMMA SignalKeepsInv ==
  ASSUME IInv, NEW c \in Callers, Signal(c)
  PROVE  IInv'
  <1> USE DEF Signal, Goto, operation, locals, fpu
  <1>0. TypeOK /\ SemaphoreInv /\ OperationInv /\ IndexInv /\ FpuInv
    BY DEF IInv
  <1>1. TypeOK'
    BY <1>0, ThreadKinds DEF TypeOK, Label, SemaphoreInv, Executes
  <1>2. SemaphoreInv'
    BY <1>0, ThreadKinds DEF TypeOK, SemaphoreInv, Executes
  <1>3. OperationInv'
    BY <1>0, ThreadKinds DEF TypeOK, SemaphoreInv, Executes, OperationInv, Applying, Applies
  <1>4. IndexInv'
    BY <1>0, ThreadKinds DEF TypeOK, SemaphoreInv, Executes, OperationInv, IndexInv, Applying, Applies
  <1>5. FpuInv'
    BY <1>0, ThreadKinds DEF TypeOK, FpuInv
  <1> QED BY <1>1, <1>2, <1>3, <1>4, <1>5 DEF IInv

(* A pool is destroyed between two operations. *)
LEMMA DestroyKeepsInv ==
  ASSUME IInv, Destroy
  PROVE  IInv'
  <1> USE DEF Destroy, Goto, operation, locals, fpu
  <1>0. TypeOK /\ SemaphoreInv /\ OperationInv /\ IndexInv /\ FpuInv
    BY DEF IInv
  <1>1. TypeOK'
    BY <1>0, ThreadKinds DEF TypeOK, Label
  <1>2. SemaphoreInv'
    BY <1>0, ThreadKinds DEF TypeOK, SemaphoreInv, Executes
  <1>3. OperationInv'
    BY <1>0, ThreadKinds DEF TypeOK, SemaphoreInv, Executes, OperationInv, Applying, Applies
  <1>4. IndexInv'
    BY <1>0, ThreadKinds DEF TypeOK, SemaphoreInv, Executes, OperationInv, IndexInv, Applying, Applies
  <1>5. FpuInv'
    BY <1>0, ThreadKinds DEF TypeOK, FpuInv
  <1> QED BY <1>1, <1>2, <1>3, <1>4, <1>5 DEF IInv

-----------------------------------------------------------------------------
(* The steps of thread_main. *)

(* An index goes from those that wait to the one thread that applies it. *)
LEMMA BeginKeepsInv ==
  ASSUME IInv, NEW t \in Threads, NEW i \in Index, Begin(t, i)
  PROVE  IInv'
  <1> USE DEF Begin, Goto, operation, locals, fpu
  <1>0. TypeOK /\ SemaphoreInv /\ OperationInv /\ IndexInv /\ FpuInv
    BY DEF IInv
  <1>1. TypeOK'
    BY <1>0, ThreadKinds DEF TypeOK, Label
  <1>2. SemaphoreInv'
    BY <1>0, ThreadKinds DEF TypeOK, SemaphoreInv, Executes
  <1>3. OperationInv'
    BY <1>0, ThreadKinds DEF TypeOK, SemaphoreInv, Executes, OperationInv, Applying, Applies
  <1>4. IndexInv'
    BY <1>0, ThreadKinds DEF TypeOK, SemaphoreInv, Executes, OperationInv, IndexInv, Applying, Applies
  <1>5. FpuInv'
    BY <1>0, ThreadKinds DEF TypeOK, FpuInv
  <1> QED BY <1>1, <1>2, <1>3, <1>4, <1>5 DEF IInv

(* A thread saves the state of its FPU before it changes it. *)
LEMMA EnterKeepsInv ==
  ASSUME IInv, NEW t \in Threads, Enter(t)
  PROVE  IInv'
  <1> USE DEF Enter, Goto, operation, locals, fpu
  <1>0. TypeOK /\ SemaphoreInv /\ OperationInv /\ IndexInv /\ FpuInv
    BY DEF IInv
  <1>1. TypeOK'
    BY <1>0, ThreadKinds DEF TypeOK, Label
  <1>2. SemaphoreInv'
    BY <1>0, ThreadKinds DEF TypeOK, SemaphoreInv, Executes
  <1>3. OperationInv'
    BY <1>0, ThreadKinds DEF TypeOK, SemaphoreInv, Executes, OperationInv, Applying, Applies
  <1>4. IndexInv'
    BY <1>0, ThreadKinds DEF TypeOK, SemaphoreInv, Executes, OperationInv, IndexInv, Applying, Applies
  <1>5. FpuInv'
    BY <1>0, ThreadKinds DEF TypeOK, FpuInv
  <1> QED BY <1>1, <1>2, <1>3, <1>4, <1>5 DEF IInv

(* A thread that leaves has applied its index, and restores its FPU. *)
LEMMA LeaveKeepsInv ==
  ASSUME IInv, NEW t \in Threads, Leave(t)
  PROVE  IInv'
  <1> USE DEF Leave, EndOfScope, Goto, operation, locals, fpu
  <1>0. TypeOK /\ SemaphoreInv /\ OperationInv /\ IndexInv /\ FpuInv
    BY DEF IInv
  <1>1. TypeOK'
    <2>1. 0 \in Index
      BY ThreadsAssumption DEF Index
    <2>2. function[t] \in Callers \cup {Nobody} /\ index[t] \in Index
      BY <1>0 DEF TypeOK
    <2> QED BY <1>0, <2>1, <2>2, ThreadKinds DEF TypeOK, Label
  <1>2. SemaphoreInv'
    BY <1>0, ThreadKinds DEF TypeOK, SemaphoreInv, Executes
  <1>3. OperationInv'
    BY <1>0, ThreadKinds DEF TypeOK, SemaphoreInv, Executes, OperationInv, Applying, Applies
  <1>4. IndexInv'
    BY <1>0, ThreadKinds DEF TypeOK, SemaphoreInv, Executes, OperationInv, IndexInv, Applying, Applies
  <1>5. FpuInv'
    BY <1>0, ThreadKinds DEF TypeOK, FpuInv
  <1> QED BY <1>1, <1>2, <1>3, <1>4, <1>5 DEF IInv

-----------------------------------------------------------------------------
(* What pthreadpool_create leaves satisfies the invariant, ... *)
LEMMA InitEstablishesInv ==
  ASSUME Init
  PROVE  IInv
  <1> USE DEF Init
  <1>1. TypeOK
    <2>1. 0 \in Index
      BY ThreadsAssumption DEF Index
    <2> QED BY <2>1, ThreadKinds DEF TypeOK, Label
  <1>2. SemaphoreInv
    BY ThreadKinds DEF SemaphoreInv, Executes
  <1>3. OperationInv
    BY ThreadKinds DEF OperationInv, Applying, Applies
  <1>4. IndexInv
    BY ThreadKinds DEF IndexInv, Applying, Applies
  <1>5. FpuInv
    BY DEF FpuInv
  <1> QED BY <1>1, <1>2, <1>3, <1>4, <1>5 DEF IInv

(* ... a step that changes nothing keeps it, ... *)
LEMMA StutteringKeepsInv ==
  ASSUME IInv, UNCHANGED vars
  PROVE  IInv'
  <1> USE DEF vars, operation, locals, fpu, IInv
  <1>1. TypeOK' /\ SemaphoreInv' /\ FpuInv'
    BY DEF TypeOK, SemaphoreInv, FpuInv, Executes
  <1>2. OperationInv' /\ IndexInv'
    BY DEF OperationInv, IndexInv, Applying, Applies
  <1> QED BY <1>1, <1>2

(* ... and so does every step of a caller or a thread of libdispatch. *)
LEMMA NextKeepsInv ==
  ASSUME IInv, Next
  PROVE  IInv'
  <1>1. ASSUME NEW c \in Callers, CallerStep(c)
        PROVE  IInv'
    BY <1>1, ThreadKinds, WaitKeepsInv, StoreKeepsInv, DispatchKeepsInv, AllAppliedKeepsInv,
       SignalKeepsInv, BeginKeepsInv, EnterKeepsInv, LeaveKeepsInv DEF CallerStep
  <1>2. ASSUME NEW h \in Helpers, HelperStep(h) \/ \E i \in Index : Begin(h, i)
        PROVE  IInv'
    BY <1>2, ThreadKinds, BeginKeepsInv, EnterKeepsInv, LeaveKeepsInv DEF HelperStep
  <1> QED BY <1>1, <1>2, ParallelizeKeepsInv, DestroyKeepsInv DEF Next

(* The invariant holds in every state the backend can reach. *)
THEOREM InductiveInvariant == Spec => []IInv
  <1>1. IInv /\ [Next]_vars => IInv'
    BY NextKeepsInv, StutteringKeepsInv
  <1> QED BY <1>1, InitEstablishesInv, PTL DEF Spec

-----------------------------------------------------------------------------
(* The theorems. *)

(* Every field and every label has a value it can have: the semaphore that *)
(* serializes the calls is taken once at most, and never given back twice. *)
THEOREM TypeCorrect == Spec => []TypeOK
  <1>1. IInv => TypeOK
    BY DEF IInv
  <1> QED BY <1>1, InductiveInvariant, PTL

LEMMA InvDenormals ==
  ASSUME IInv
  PROVE  DenormalsFollowTheOperation
  <1>0. TypeOK /\ SemaphoreInv /\ OperationInv /\ FpuInv
    BY DEF IInv
  <1> SUFFICES ASSUME NEW t \in Threads, pc[t] = "run"
               PROVE  "DISABLE_DENORMALS" \in local_flags[t] <=>
                      \E c \in Callers : Executes(c) /\ "DISABLE_DENORMALS" \in requested[c]
    BY <1>0 DEF DenormalsFollowTheOperation, FpuInv
  <1>1. PICK c \in Callers : Applying(c)
    BY <1>0, ThreadKinds DEF OperationInv, Applying
  <1>2. local_flags[t] = requested[c]
    BY <1>0, <1>1 DEF OperationInv, Applies
  <1>3. \A d \in Callers : Executes(d) <=> d = c
    BY <1>0, <1>1 DEF SemaphoreInv, Applying, Executes
  <1> QED BY <1>2, <1>3

(* Whichever threads of the system libdispatch lends to an operation, and  *)
(* whatever the flags of the operation they served before: denormals are   *)
(* disabled while they run a task that asks for it, and at no other time.  *)
THEOREM DenormalsAreRight == Spec => []DenormalsFollowTheOperation
  <1> QED BY InvDenormals, InductiveInvariant, PTL

-----------------------------------------------------------------------------
(* An operation implements the parallel for loop over the indices. *)

Running == \E c \in Callers : Executes(c)
ToDo == {i \in Index : \E c \in Callers : Executes(c) /\ served[i] # c}

(* A step that ParallelFor does not see. *)
LEMMA InvisibleStep ==
  ASSUME \A c \in Callers : Executes(c)' <=> Executes(c), served' = served
  PROVE  UNCHANGED <<Running, ToDo>>
  BY DEF Running, ToDo

LEMMA InvisibleSteps ==
  ASSUME IInv,
         \/ \E c \in Callers : \/ \E set \in SUBSET Flag : Parallelize(c, set)
                                \/ Store(c) \/ Dispatch(c) \/ AllApplied(c)
         \/ \E t \in Threads : Enter(t) \/ \E i \in Index : Begin(t, i)
         \/ Destroy
  PROVE  UNCHANGED <<Running, ToDo>>
  <1>1. TypeOK
    BY DEF IInv
  <1> QED BY <1>1, ThreadKinds, InvisibleStep
          DEF TypeOK, Executes, Goto, Parallelize, Store, Dispatch, AllApplied, Enter, Begin, Destroy

(* The loop begins when its caller gets the semaphore, ... *)
LEMMA WaitBegins ==
  ASSUME IInv, NEW c \in Callers, Wait(c)
  PROVE  Loop!Begin(N)
  <1>1. TypeOK /\ SemaphoreInv
    BY DEF IInv
  <1>2. ~Running
    BY <1>1 DEF SemaphoreInv, Wait, Running
  <1>3. \A d \in Callers : Executes(d)' <=> d = c
    BY <1>1, <1>2, ThreadKinds DEF TypeOK, Executes, Running, Wait, Goto
  <1>4. Running' /\ ToDo' = Index
    BY <1>3, ThreadKinds DEF Running, ToDo, Wait
  <1> QED BY <1>2, <1>4 DEF Loop!Begin, Running, ToDo, Index

(* ... an item is processed when the thread function has returned for it ... *)
LEMMA LeaveProcesses ==
  ASSUME IInv, NEW t \in Threads, Leave(t), NEW j \in Index, j = index[t]
  PROVE  Loop!Process(j) /\ j \in ToDo
  <1>1. TypeOK /\ SemaphoreInv /\ OperationInv /\ IndexInv
    BY DEF IInv
  <1>2. PICK c \in Callers : Applying(c)
    BY <1>1, ThreadKinds DEF OperationInv, Applying, Leave
  <1>3. \A d \in Callers : Executes(d) <=> d = c
    BY <1>1, <1>2 DEF SemaphoreInv, Applying, Executes
  <1>4. \A d \in Callers : Executes(d)' <=> Executes(d)
    BY <1>1, ThreadKinds DEF TypeOK, Executes, Leave, Goto
  <1>5. index[t] \in Index /\ served[index[t]] # c
    BY <1>1, <1>2 DEF TypeOK, IndexInv, Leave, Applies
  <1>6. function[t] = c
    BY <1>1, <1>2 DEF OperationInv, Leave, Applies
  <1>7. \A i \in Index : served'[i] = IF i = index[t] THEN c ELSE served[i]
    BY <1>1, <1>6 DEF TypeOK, Leave
  <1>8. ToDo' = ToDo \ {j} /\ j \in ToDo
    BY <1>3, <1>4, <1>5, <1>7 DEF ToDo
  <1>9. Running /\ Running'
    BY <1>3, <1>4 DEF Running
  <1> QED BY <1>8, <1>9 DEF Loop!Process, Running, ToDo

(* ... and the loop ends when its caller gives the semaphore back. *)
LEMMA SignalEnds ==
  ASSUME IInv, NEW c \in Callers, Signal(c)
  PROVE  Loop!End
  <1>1. TypeOK /\ SemaphoreInv /\ IndexInv
    BY DEF IInv
  <1>2. \A d \in Callers : Executes(d) <=> d = c
    BY <1>1 DEF SemaphoreInv, Signal, Executes
  <1>3. \A d \in Callers : ~Executes(d)'
    BY <1>1, <1>2, ThreadKinds DEF TypeOK, Executes, Signal, Goto
  <1>4. Running /\ ToDo = {}
    BY <1>1, <1>2 DEF Running, ToDo, IndexInv, Signal
  <1>5. ~Running' /\ ToDo' = {}
    BY <1>3 DEF Running, ToDo
  <1> QED BY <1>4, <1>5 DEF Loop!End, Running, ToDo

LEMMA StepSimulation ==
  ASSUME IInv, [Next]_vars
  PROVE  [Loop!Next]_(Loop!vars)
  <1>1. CASE UNCHANGED <<Running, ToDo>>
    BY <1>1 DEF Loop!vars, Running, ToDo
  <1>2. CASE UNCHANGED vars
    BY <1>1, <1>2, InvisibleStep DEF vars, Executes
  <1>3. CASE \E c \in Callers : Wait(c)
    <2>1. N \in 2 .. N
      BY ThreadsAssumption
    <2> QED BY <1>3, <2>1, WaitBegins DEF Loop!Next
  <1>4. CASE \E t \in Threads : Leave(t)
    <2>1. PICK t \in Threads : Leave(t)
      BY <1>4
    <2>2. index[t] \in Index
      BY DEF IInv, TypeOK
    <2>3. \E i \in ToDo : Loop!Process(i)
      BY <2>1, <2>2, LeaveProcesses
    <2> QED BY <2>3 DEF Loop!Next, ToDo
  <1>5. CASE \E c \in Callers : Signal(c)
    BY <1>5, SignalEnds DEF Loop!Next
  <1> QED BY <1>1, <1>2, <1>3, <1>4, <1>5, InvisibleSteps, ThreadKinds
          DEF Next, CallerStep, HelperStep

(* pthreadpool_parallelize of gcd.c implements the parallel for loop of      *)
(* module ParallelFor over the indices of all threads: thread_main runs once *)
(* for each of them before the call returns, and calls do not overlap.       *)
THEOREM ImplementsParallelFor == Spec => Loop!Spec
  <1>1. Init => Loop!Init
    BY ThreadKinds DEF Init, Loop!Init, Executes
  <1>2. IInv /\ [Next]_vars => [Loop!Next]_(Loop!vars)
    BY StepSimulation
  <1> QED BY <1>1, <1>2, InductiveInvariant, PTL DEF Spec, Loop!Spec
=============================================================================
