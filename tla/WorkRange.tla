------------------------------ MODULE WorkRange ------------------------------
(***************************************************************************)
(* The work-stealing thread function: how one parallel operation splits    *)
(* its linear range between the threads of the pool, and how every thread  *)
(* drains first its own sub-range and then those of the other threads.     *)
(*                                                                         *)
(* The 28 pairs of thread functions in portable-api.c and fastpath.c share *)
(* this control; they differ in how a linear index becomes the arguments   *)
(* of the task.  The two files differ in how a thread claims an item:      *)
(* portable-api.c decrements range_length only while it is not zero,       *)
(* fastpath.c decrements it unconditionally and recognises by the wrapped  *)
(* value that nothing was left.                                            *)
(*                                                                         *)
(* Atomicity: one action per atomic access to a thread_info field and one  *)
(* for the call of the task.  A compare-and-swap loop is one action: its   *)
(* failed attempts change nothing.                                         *)
(***************************************************************************)
EXTENDS Integers

CONSTANTS
  N,            \* threads_count.value: thread 0 is the caller of the operation
  M,            \* the number of size_t values (2^32 or 2^64 in a build)
  USE_FASTPATH  \* whether the build has fastpath.c (PTHREADPOOL_USE_FASTPATH)

ASSUME ThreadsAssumption == N \in Nat /\ N > 1
ASSUME SizeAssumption == M \in Nat /\ N < M
ASSUME FastpathAssumption == USE_FASTPATH \in BOOLEAN

Thread == 0 .. N - 1
Size_t == 0 .. M - 1

VARIABLES
  range_start, range_end, range_length, \* the fields of struct thread_info
  fastpath,     \* the thread_function of the operation is one of fastpath.c
  linear_range, \* arguments and locals of pthreadpool_parallelize:
  tid,          \*   the iteration of the loop that spreads the work
  next_start,   \*   its local range_start
  pc,           \* where each thread is in the thread function
  cursor,       \* its local range_start
  victim,       \* its local tid, the thread it steals from
  index,        \* the index it has taken from the victim
  calls         \* history: how often the task was called with each index

ranges == <<range_start, range_end, range_length>>
operation == <<fastpath, linear_range, tid, next_start>>
locals == <<cursor, victim, index>>
vars == <<ranges, operation, pc, locals, calls>>

-----------------------------------------------------------------------------
(* Mutant: the threshold allows for one thread only. *)
RangeThresholdOfOne == M - 1

(* -threads_count, in size_t. *)
RangeThreshold == M - N

(* Mutant: wraps one step too early. *)
ModuloDecrementEarly(i) == IF i <= 1 THEN N - 1 ELSE i - 1

ModuloDecrement(i) == IF i = 0 THEN N - 1 ELSE i - 1

(* Mutant: the remainder is dropped. *)
RangeLengthQuotient(t) == linear_range \div N

(* The part of thread t: the first remainder threads take one item more. *)
RangeLength(t) ==
  linear_range \div N + (IF t < linear_range % N THEN 1 ELSE 0)

(* Mutant: does not wrap. *)
DecrementedSigned(x) == x - 1

Decremented(x) == (x - 1) % M

(* Does an attempt to claim an item of thread t's range succeed now? *)
Claims(t) ==
  IF fastpath THEN Decremented(range_length[t]) < RangeThreshold
              ELSE range_length[t] # 0

(* Mutant: every attempt decrements, as on the fast path. *)
AfterAttemptAnyway(t) == [range_length EXCEPT ![t] = Decremented(@)]

(* What an attempt, successful or not, leaves in range_length. *)
AfterAttempt(t) ==
  IF fastpath \/ range_length[t] # 0
  THEN [range_length EXCEPT ![t] = Decremented(@)]
  ELSE range_length

Call(i) == calls' = [calls EXCEPT ![i] = @ + 1]

Goto(t, label) == pc' = [pc EXCEPT ![t] = label]

(* Mutant: the loop ends at thread 0. *)
GotoVictimUpToZero(t, v) ==
  /\ victim' = [victim EXCEPT ![t] = v]
  /\ Goto(t, IF v = 0 \/ v = t THEN "done" ELSE "steal")

(* The loop over the other threads ends when it is back at the thread. *)
GotoVictim(t, v) ==
  /\ victim' = [victim EXCEPT ![t] = v]
  /\ Goto(t, IF v = t THEN "done" ELSE "steal")

-----------------------------------------------------------------------------
(* pthreadpool_allocate zeroes the structure. *)
Init ==
  /\ range_start = [t \in Thread |-> 0]
  /\ range_end = [t \in Thread |-> 0]
  /\ range_length = [t \in Thread |-> 0]
  /\ fastpath = FALSE
  /\ linear_range = 0
  /\ tid = N
  /\ next_start = 0
  /\ pc = [t \in Thread |-> "idle"]
  /\ cursor = [t \in Thread |-> 0]
  /\ victim = [t \in Thread |-> 0]
  /\ index = [t \in Thread |-> 0]
  /\ calls = [i \in Size_t |-> 0]

(* A call of pthreadpool_parallelize_1d with more than one item, up to the *)
(* loop that spreads the work.                                             *)
Parallelize(range) ==
  /\ \A t \in Thread : pc[t] = "idle"
  /\ tid = N
  /\ linear_range' = range
  /\ fastpath' = (USE_FASTPATH /\ range < RangeThreshold)
  /\ tid' = 0
  /\ next_start' = 0
  /\ calls' = [i \in Size_t |-> 0]
  /\ pc' = [pc EXCEPT ![0] = "spread"]
  /\ UNCHANGED <<ranges, locals>>

(* One iteration of that loop, for thread tid. *)
SpreadWork ==
  /\ pc[0] = "spread"
  /\ tid < N
  /\ LET end == (next_start + RangeLength(tid)) % M
     IN /\ range_start' = [range_start EXCEPT ![tid] = next_start]
        /\ range_end' = [range_end EXCEPT ![tid] = end]
        /\ range_length' = [range_length EXCEPT ![tid] = RangeLength(tid)]
        /\ next_start' = end
  /\ tid' = tid + 1
  /\ UNCHANGED <<fastpath, linear_range, pc, locals, calls>>

(* The command is published: from here on every thread may enter the thread *)
(* function, in any order and with any delay.                               *)
Publish ==
  /\ pc[0] = "spread"
  /\ tid = N
  /\ pc' = [t \in Thread |-> "enter"]
  /\ UNCHANGED <<ranges, operation, locals, calls>>

(* The thread loads its range_start. *)
Enter(t) ==
  /\ pc[t] = "enter"
  /\ cursor' = [cursor EXCEPT ![t] = range_start[t]]
  /\ Goto(t, "own")
  /\ UNCHANGED <<ranges, operation, victim, index, calls>>

(* The thread claims an item of its own range ... *)
OwnClaim(t) ==
  /\ pc[t] = "own"
  /\ Claims(t)
  /\ range_length' = AfterAttempt(t)
  /\ Goto(t, "own_task")
  /\ UNCHANGED <<range_start, range_end, operation, locals, calls>>

(* ... and processes the one at its cursor. *)
OwnTask(t) ==
  /\ pc[t] = "own_task"
  /\ Call(cursor[t])
  /\ cursor' = [cursor EXCEPT ![t] = (@ + 1) % M]
  /\ Goto(t, "own")
  /\ UNCHANGED <<ranges, operation, victim, index>>

(* Nothing is left of its own range: the thread turns to its neighbour. *)
OwnEmpty(t) ==
  /\ pc[t] = "own"
  /\ ~Claims(t)
  /\ range_length' = AfterAttempt(t)
  /\ GotoVictim(t, ModuloDecrement(t))
  /\ UNCHANGED <<range_start, range_end, operation, cursor, index, calls>>

(* The thread claims an item of its victim's range, ... *)
StealClaim(t) ==
  /\ pc[t] = "steal"
  /\ Claims(victim[t])
  /\ range_length' = AfterAttempt(victim[t])
  /\ Goto(t, "steal_index")
  /\ UNCHANGED <<range_start, range_end, operation, locals, calls>>

(* Mutant: the decrement of range_end is not atomic, and lost. *)
StealIndexLost(t) ==
  /\ pc[t] = "steal_index"
  /\ index' = [index EXCEPT ![t] = Decremented(range_end[victim[t]])]
  /\ Goto(t, "steal_task")
  /\ UNCHANGED <<ranges, operation, cursor, victim, calls>>

(* ... takes the last index of that range, ... *)
StealIndex(t) ==
  /\ pc[t] = "steal_index"
  /\ LET last == Decremented(range_end[victim[t]])
     IN /\ range_end' = [range_end EXCEPT ![victim[t]] = last]
        /\ index' = [index EXCEPT ![t] = last]
  /\ Goto(t, "steal_task")
  /\ UNCHANGED <<range_start, range_length, operation, cursor, victim, calls>>

(* ... and processes it. *)
StealTask(t) ==
  /\ pc[t] = "steal_task"
  /\ Call(index[t])
  /\ Goto(t, "steal")
  /\ UNCHANGED <<ranges, operation, locals>>

(* Nothing is left of the victim's range: the thread turns to the next. *)
StealEmpty(t) ==
  /\ pc[t] = "steal"
  /\ ~Claims(victim[t])
  /\ range_length' = AfterAttempt(victim[t])
  /\ GotoVictim(t, ModuloDecrement(victim[t]))
  /\ UNCHANGED <<range_start, range_end, operation, cursor, index, calls>>

(* pthreadpool_parallelize returns, which it does once every thread has   *)
(* returned from the thread function.                                     *)
Return ==
  /\ \A t \in Thread : pc[t] = "done"
  /\ pc' = [t \in Thread |-> "idle"]
  /\ UNCHANGED <<ranges, operation, locals, calls>>

ThreadStep(t) ==
  \/ Enter(t)
  \/ OwnClaim(t) \/ OwnTask(t) \/ OwnEmpty(t)
  \/ StealClaim(t) \/ StealIndex(t) \/ StealTask(t) \/ StealEmpty(t)

(* The thread pool asserts that the linear range is larger than 1. *)
Next ==
  \/ \E range \in Size_t : range > 1 /\ Parallelize(range)
  \/ SpreadWork
  \/ Publish
  \/ \E t \in Thread : ThreadStep(t)
  \/ Return

Spec == Init /\ [][Next]_vars

(* Each thread is scheduled as long as it can run.  Nothing makes the user *)
(* start another operation.                                                *)
Fairness ==
  /\ WF_vars(SpreadWork)
  /\ WF_vars(Publish)
  /\ WF_vars(Return)
  /\ \A t \in Thread : WF_vars(ThreadStep(t))

FairSpec == Spec /\ Fairness
-----------------------------------------------------------------------------
(* An operation is in progress and its ranges are in place. *)
InOperation == \A t \in Thread : pc[t] \notin {"idle", "spread"}

(* The unclaimed items of thread t's range: a wrapped length means none. *)
Remaining(t) ==
  IF range_length[t] <= RangeLength(t) THEN range_length[t] ELSE 0

Label ==
  {"idle", "spread", "enter", "own", "own_task",
   "steal", "steal_index", "steal_task", "done"}

(* Every field has a value its C type can hold. *)
TypeOK ==
  /\ range_start \in [Thread -> Size_t]
  /\ range_end \in [Thread -> Size_t]
  /\ range_length \in [Thread -> Size_t]
  /\ fastpath \in BOOLEAN
  /\ linear_range \in Size_t
  /\ tid \in 0 .. N
  /\ next_start \in Size_t
  /\ pc \in [Thread -> Label]
  /\ cursor \in [Thread -> Size_t]
  /\ victim \in [Thread -> Thread]
  /\ index \in [Thread -> Size_t]
  /\ calls \in [Size_t -> Nat]

(* No item is processed twice and none outside of the range is processed,  *)
(* although the owner of a range takes items from its start while thieves  *)
(* take items from its end and neither sees the position of the other      *)
(* (thread_parallelize_*, pthreadpool_thread_parallelize_*_fastpath).      *)
EachItemAtMostOnce ==
  \A i \in Size_t : calls[i] <= IF i < linear_range THEN 1 ELSE 0

(* When every thread has returned from the thread function, every item of  *)
(* the range has been processed exactly once: nothing is lost between a    *)
(* claim and the call of the task, nor by the split of the range.          *)
AllItemsProcessed ==
  (\A t \in Thread : pc[t] = "done")
    => \A i \in Size_t : calls[i] = IF i < linear_range THEN 1 ELSE 0

(* A thread leaves the thread function only when no range of the whole     *)
(* pool has an unclaimed item: one pass over the other threads, each       *)
(* looked at once, is enough.                                              *)
LeavesNoWorkBehind ==
  InOperation /\ (\E t \in Thread : pc[t] = "done")
    => \A v \in Thread : Remaining(v) = 0

(* The range_length of the fast path never wraps so far that a thread      *)
(* takes it for an item: it stays at or above -threads_count, however many *)
(* threads decrement an empty range.                                       *)
WrapStaysAboveThreshold ==
  InOperation
    => \A t \in Thread : \/ range_length[t] <= RangeLength(t)
                         \/ fastpath /\ range_length[t] >= RangeThreshold

(* threadpool-object.h says of range_length: "Due to race conditions       *)
(* range_length <= range_end - range_start".  A thief decrements the       *)
(* length first and the end later, so between operations and during one    *)
(* the length may be smaller, never larger.                                *)
LengthWithinBounds ==
  \A t \in Thread : range_length[t] <= (range_end[t] - range_start[t]) % M

(* What the comment promises is true of an operation that is not on the    *)
(* fast path, at every moment of it and whatever lengths an operation on   *)
(* the fast path before it has left behind.                                *)
PortableLengthWithinBounds ==
  InOperation /\ ~fastpath => LengthWithinBounds

(* Every operation returns: no thread loops for ever over the ranges and   *)
(* none waits for another (the README calls the distribution of work items *)
(* wait-free).                                                             *)
OperationReturns ==
  pc[0] = "spread" ~> \A t \in Thread : pc[t] = "idle"

(* The operation is a parallel for loop over the linear range. *)
Loop == INSTANCE ParallelFor WITH
  MaxRange <- M - 1,
  running <- \E t \in Thread : pc[t] # "idle",
  todo <- {i \in 0 .. linear_range - 1 : calls[i] = 0}

IsParallelFor == Loop!FairSpec
=============================================================================
