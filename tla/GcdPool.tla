------------------------------ MODULE GcdPool ------------------------------
(***************************************************************************)
(* gcd.c, the backend for Grand Central Dispatch: the pool has no threads  *)
(* of its own.  An operation asks libdispatch to apply thread_main to the  *)
(* indices of all threads; the caller and as many threads of the system as *)
(* libdispatch sees fit do so, perhaps the caller alone, one index after   *)
(* the other.                                                              *)
(*                                                                         *)
(* One action per call of libdispatch and per side of the thread function. *)
(* libdispatch is modelled by what it promises.  What the thread function  *)
(* does, with threads that come as late as they like, is the business of   *)
(* module WorkRange.                                                       *)
(***************************************************************************)
EXTENDS Integers

CONSTANTS
  N,            \* threads_count.value
  Callers,      \* the threads of the user
  Helpers,      \* the threads of libdispatch
  Nobody,       \* no thread
  NoDenormals   \* the threads whose user keeps denormals disabled

Threads == Callers \cup Helpers
Index == 0 .. N - 1

ASSUME ThreadsAssumption == N \in Nat /\ N > 1
ASSUME CallersAssumption == Callers \cap Helpers = {} /\ Nobody \notin Threads

VARIABLES
  released,             \* the pool has been destroyed
  execution_semaphore,
  arguments,            \* thread_function, task, argument, params, ranges: whose
  flags,
  pc,
  pending,              \* the indices that libdispatch has to apply yet
  index,                \* of each thread: the one it applies
  function,             \* of each thread: the arguments it works with
  local_flags,          \* of each thread: the flags it works under
  requested,            \* of each caller: the flags of its operation
  denormals,            \* of each thread: its FPU handles denormals
  saved_denormals,      \* of each thread: its saved_fpu_state
  served                \* history: the operation that an index was last applied for

operation == <<arguments, flags, requested>>
fpu == <<denormals, saved_denormals>>
locals == <<index, function, local_flags>>
vars == <<released, execution_semaphore, operation, pc, pending, locals, fpu, served>>

Flag == {"DISABLE_DENORMALS"}

Goto(t, label) == pc' = [pc EXCEPT ![t] = label]

(* Mutant: the index of the caller is left out, as if it were a worker of  *)
(* its own.                                                                *)
AppliedWithoutCaller == 1 .. N - 1

Applied == Index

-----------------------------------------------------------------------------
(* What pthreadpool_create leaves. *)
Init ==
  /\ released = FALSE
  /\ execution_semaphore = 1
  /\ arguments = Nobody /\ flags = {}
  /\ pc = [t \in Threads |-> "idle"]
  /\ pending = {}
  /\ index = [t \in Threads |-> 0]
  /\ function = [t \in Threads |-> Nobody]
  /\ local_flags = [t \in Threads |-> {}]
  /\ requested = [c \in Callers |-> {}]
  /\ denormals = [t \in Threads |-> t \notin NoDenormals]
  /\ saved_denormals = [t \in Threads |-> FALSE]
  /\ served = [i \in Index |-> Nobody]

(* pthreadpool_parallelize. *)

Parallelize(c, set) ==
  /\ ~released /\ pc[c] = "idle"
  /\ requested' = [requested EXCEPT ![c] = set]
  /\ Goto(c, "wait")
  /\ UNCHANGED <<released, execution_semaphore, arguments, flags, pending, locals, fpu, served>>

(* Mutant: calls are not serialized. *)
WaitForNobody(c) ==
  /\ pc[c] = "wait"
  /\ served' = [i \in Index |-> Nobody]
  /\ Goto(c, "store")
  /\ UNCHANGED <<released, execution_semaphore, operation, pending, locals, fpu>>

Wait(c) ==
  /\ pc[c] = "wait" /\ execution_semaphore > 0
  /\ execution_semaphore' = execution_semaphore - 1
  /\ served' = [i \in Index |-> Nobody]
  /\ Goto(c, "store")
  /\ UNCHANGED <<released, operation, pending, locals, fpu>>

(* The stores before dispatch_apply_f, which publishes them. *)
Store(c) ==
  /\ pc[c] = "store"
  /\ arguments' = c /\ flags' = requested[c]
  /\ Goto(c, "dispatch")
  /\ UNCHANGED <<released, execution_semaphore, requested, pending, locals, fpu, served>>

Dispatch(c) ==
  /\ pc[c] = "dispatch"
  /\ pending' = Applied
  /\ Goto(c, "apply")
  /\ UNCHANGED <<released, execution_semaphore, operation, locals, fpu, served>>

(* dispatch_apply_f returns when thread_main has returned for all indices. *)
AllApplied(c) ==
  /\ pc[c] = "apply"
  /\ pending = {}
  /\ \A t \in Helpers : pc[t] = "idle"
  /\ Goto(c, "signal")
  /\ UNCHANGED <<released, execution_semaphore, operation, pending, locals, fpu, served>>

Signal(c) ==
  /\ pc[c] = "signal"
  /\ execution_semaphore' = execution_semaphore + 1
  /\ requested' = [requested EXCEPT ![c] = {}]
  /\ Goto(c, "idle")
  /\ UNCHANGED <<released, arguments, flags, pending, locals, fpu, served>>

(* pthreadpool_destroy, which the user calls after all other calls. *)
Destroy ==
  /\ ~released
  /\ \A c \in Callers : pc[c] = "idle"
  /\ released' = TRUE
  /\ UNCHANGED <<execution_semaphore, operation, pc, pending, locals, fpu, served>>

-----------------------------------------------------------------------------
(* thread_main, for an index that libdispatch has not applied it to yet:  *)
(* the thread loads the flags and the thread function, ...                *)
Begin(t, i) ==
  /\ pc[t] = IF t \in Callers THEN "apply" ELSE "idle"
  /\ i \in pending
  /\ pending' = pending \ {i}
  /\ index' = [index EXCEPT ![t] = i]
  /\ function' = [function EXCEPT ![t] = arguments]
  /\ local_flags' = [local_flags EXCEPT ![t] = flags]
  /\ Goto(t, "enter")
  /\ UNCHANGED <<released, execution_semaphore, operation, fpu, served>>

(* ... saves the FPU state and disables denormals, if it is told to, ... *)
Enter(t) ==
  /\ pc[t] = "enter"
  /\ IF "DISABLE_DENORMALS" \in local_flags[t]
     THEN /\ saved_denormals' = [saved_denormals EXCEPT ![t] = denormals[t]]
          /\ denormals' = [denormals EXCEPT ![t] = FALSE]
     ELSE UNCHANGED fpu
  /\ Goto(t, "run")
  /\ UNCHANGED <<released, execution_semaphore, operation, pending, locals, served>>

EndOfScope(t) ==
  /\ index' = [index EXCEPT ![t] = 0]
  /\ function' = [function EXCEPT ![t] = Nobody]
  /\ local_flags' = [local_flags EXCEPT ![t] = {}]
  /\ saved_denormals' = [saved_denormals EXCEPT ![t] = FALSE]

(* Mutant: the FPU state is not restored on a thread of the system. *)
LeaveHelperAsIs(t) ==
  /\ pc[t] = "run"
  /\ denormals' = IF "DISABLE_DENORMALS" \in local_flags[t] /\ t \in Callers
                  THEN [denormals EXCEPT ![t] = saved_denormals[t]] ELSE denormals
  /\ served' = [served EXCEPT ![index[t]] = function[t]]
  /\ Goto(t, IF t \in Callers THEN "apply" ELSE "idle")
  /\ EndOfScope(t)
  /\ UNCHANGED <<released, execution_semaphore, operation, pending>>

(* ... and restores the state when the thread function has returned. *)
Leave(t) ==
  /\ pc[t] = "run"
  /\ denormals' = IF "DISABLE_DENORMALS" \in local_flags[t]
                  THEN [denormals EXCEPT ![t] = saved_denormals[t]] ELSE denormals
  /\ served' = [served EXCEPT ![index[t]] = function[t]]
  /\ Goto(t, IF t \in Callers THEN "apply" ELSE "idle")
  /\ EndOfScope(t)
  /\ UNCHANGED <<released, execution_semaphore, operation, pending>>

CallerStep(c) ==
  \/ Wait(c) \/ Store(c) \/ Dispatch(c) \/ AllApplied(c) \/ Signal(c)
  \/ \E i \in Index : Begin(c, i)
  \/ Enter(c) \/ Leave(c)

HelperStep(h) == Enter(h) \/ Leave(h)

Next ==
  \/ \E c \in Callers : \/ CallerStep(c)
                        \/ \E set \in SUBSET Flag : Parallelize(c, set)
  \/ \E h \in Helpers : \/ HelperStep(h)
                        \/ \E i \in Index : Begin(h, i)
  \/ Destroy

Spec == Init /\ [][Next]_vars

(* The caller goes on, and a thread of libdispatch that has begun with an  *)
(* index finishes it; nothing makes such a thread begin.                   *)
Fairness ==
  /\ \A c \in Callers : WF_vars(CallerStep(c))
  /\ \A h \in Helpers : WF_vars(HelperStep(h))

FairSpec == Spec /\ Fairness

-----------------------------------------------------------------------------
Label == {"idle", "wait", "store", "dispatch", "apply", "signal", "enter", "run"}

(* Every variable has a value it can have. *)
TypeOK ==
  /\ released \in BOOLEAN
  /\ execution_semaphore \in {0, 1}
  /\ arguments \in Callers \cup {Nobody}
  /\ flags \subseteq Flag
  /\ pc \in [Threads -> Label]
  /\ \A h \in Helpers : pc[h] \in {"idle", "enter", "run"}
  /\ pending \subseteq Index
  /\ index \in [Threads -> Index]
  /\ function \in [Threads -> Callers \cup {Nobody}]
  /\ local_flags \in [Threads -> SUBSET Flag]
  /\ requested \in [Callers -> SUBSET Flag]
  /\ denormals \in [Threads -> BOOLEAN]
  /\ saved_denormals \in [Threads -> BOOLEAN]
  /\ served \in [Index -> Callers \cup {Nobody}]

Executes(c) == pc[c] \notin {"idle", "wait"}

(* Denormals are disabled on the threads that run the task of an operation *)
(* that asks for it, and on no other: the threads of the system are shared *)
(* by operations with other flags, and one thread may apply several        *)
(* indices of an operation.                                                *)
DenormalsFollowTheOperation ==
  \A t \in Threads :
    denormals[t] <=>
      /\ t \notin NoDenormals
      /\ ~\E c \in Callers :
            Executes(c) /\ pc[t] = "run" /\ "DISABLE_DENORMALS" \in requested[c]

(* An operation is a parallel for loop over the indices of all threads:    *)
(* thread_main runs for every index with the arguments of that operation   *)
(* before pthreadpool_parallelize returns, whichever threads run it, and   *)
(* the operations of several callers come one after the other.  It ends    *)
(* even if no thread of libdispatch ever helps.                            *)
Loop == INSTANCE ParallelFor WITH
  MaxRange <- N,
  running <- \E c \in Callers : Executes(c),
  todo <- {i \in Index : \E c \in Callers : Executes(c) /\ served[i] # c}

IsParallelFor == Loop!FairSpec
=============================================================================
