--------------------------- MODULE WorkRangeProofs ---------------------------
(***************************************************************************)
(* The work-stealing thread function processes every item exactly once,    *)
(* for every number of threads, every width of size_t and every range,     *)
(* with the portable way of claiming items and with that of the fast path. *)
(***************************************************************************)
EXTENDS WorkRange, FiniteSetTheorems, TLAPS

Stealing == {"steal", "steal_index", "steal_task"}

(* How many steps of the loop over the other threads lead from t to v. *)
Distance(t, v) == IF v <= t THEN t - v ELSE t - v + N

(* The threads that have found the range of v empty. *)
Passed(v) ==
  {t \in Thread : \/ pc[t] = "done"
                  \/ pc[t] \in Stealing /\ Distance(t, v) < Distance(t, victim[t])}

(* The threads that have claimed an item of v and not yet taken its index. *)
Thieves(v) == {t \in Thread : pc[t] = "steal_index" /\ victim[t] = v}

(* The owner has processed the items of its range below this position ... *)
Position(v) == IF pc[v] = "enter" THEN range_start[v] ELSE cursor[v]

(* ... and holds the one at it after a claim. *)
Held(v) == IF pc[v] = "own_task" THEN 1 ELSE 0

RangeLimit(v) == range_start[v] + RangeLength(v)

-----------------------------------------------------------------------------
(* The inductive invariant. *)

PhaseInv ==
  \/ \A t \in Thread : pc[t] = "idle" /\ tid = N
  \/ pc[0] = "spread" /\ \A t \in Thread : t # 0 => pc[t] = "idle"
  \/ InOperation /\ tid = N

(* The part of the range spread so far is cut into consecutive pieces. *)
SplitInv ==
  /\ next_start = tid * (linear_range \div N)
                  + (IF tid < linear_range % N THEN tid ELSE linear_range % N)
  /\ \A t \in Thread : t < tid =>
       /\ RangeLimit(t) <= next_start
       /\ \A s \in Thread : s < t => RangeLimit(s) <= range_start[t]
  /\ \A i \in Size_t : i < next_start =>
       \E t \in Thread : t < tid /\ range_start[t] <= i /\ i < RangeLimit(t)

(* While the work is being spread nothing has been taken from it. *)
UntouchedInv ==
  /\ \A t \in Thread : t < tid =>
       /\ range_end[t] = RangeLimit(t)
       /\ range_length[t] = RangeLength(t)
  /\ \A i \in Size_t : calls[i] = 0

VictimInv ==
  \A t \in Thread :
    /\ pc[t] \in Stealing => victim[t] # t
    /\ pc[t] = "steal_task" =>
         /\ range_end[victim[t]] <= index[t]
         /\ index[t] < RangeLimit(victim[t])
         /\ \A s \in Thread :
              s # t /\ pc[s] = "steal_task" => index[s] # index[t]

(* What is left between the owner and the thieves of a range. *)
TokenInv ==
  \A v \in Thread :
    /\ range_start[v] <= Position(v)
    /\ range_end[v] <= RangeLimit(v)
    /\ range_end[v]
         = Position(v) + Held(v) + Remaining(v) + Cardinality(Thieves(v))

(* A range that a thread has found empty stays empty.  On the fast path    *)
(* its length counts the threads that have found it so.                    *)
EmptyInv ==
  \A v \in Thread :
    IF Passed(v) = {} THEN range_length[v] <= RangeLength(v)
    ELSE range_length[v] = IF fastpath THEN M - Cardinality(Passed(v)) ELSE 0

CallsInv ==
  /\ \A i \in Size_t : i >= linear_range => calls[i] = 0
  /\ \A v \in Thread, i \in Size_t :
       range_start[v] <= i /\ i < RangeLimit(v) =>
         calls[i] = IF \/ i < Position(v)
                       \/ /\ i >= range_end[v]
                          /\ \A t \in Thread :
                               pc[t] = "steal_task" => index[t] # i
                    THEN 1 ELSE 0

OperationInv == VictimInv /\ TokenInv /\ EmptyInv /\ CallsInv

IInv ==
  /\ TypeOK
  /\ PhaseInv
  /\ fastpath => linear_range < RangeThreshold
  /\ pc[0] # "idle" => SplitInv
  /\ pc[0] = "spread" => UntouchedInv
  /\ InOperation => OperationInv
  /\ ~InOperation => \/ \A i \in Size_t : calls[i] = 0
                     \/ \A i \in Size_t : calls[i] = IF i < linear_range THEN 1 ELSE 0

-----------------------------------------------------------------------------
(* Arithmetic of size_t and of the split. *)

(* A decrement wraps at zero and only there. *)
LEMMA DecrementWraps ==
  ASSUME NEW x \in Size_t
  PROVE  /\ Decremented(x) \in Size_t
         /\ Decremented(x) = IF x = 0 THEN M - 1 ELSE x - 1
  BY ThreadsAssumption, SizeAssumption DEF Decremented, Size_t

(* Quotient and remainder of C's unsigned division. *)
LEMMA DivideNat ==
  ASSUME NEW x \in Nat, NEW n \in Nat, n > 0
  PROVE  /\ x \div n \in Nat
         /\ x % n \in 0 .. n - 1
         /\ x = n * (x \div n) + (x % n)
  <1>1. x \div n \in Int /\ x \div n >= 0
    OBVIOUS
  <1>2. x % n \in 0 .. n - 1
    OBVIOUS
  <1>3. x = n * (x \div n) + (x % n)
    OBVIOUS
  <1> QED BY <1>1, <1>2, <1>3

(* A number below the divisor is its own remainder. *)
LEMMA SmallRemainder ==
  ASSUME NEW x \in Nat, NEW n \in Nat, x < n
  PROVE  x % n = x
  OBVIOUS

(* A linear range is its quotient and remainder by the number of threads. *)
LEMMA Division ==
  ASSUME TypeOK
  PROVE  /\ linear_range \div N \in Nat
         /\ linear_range % N \in Thread
         /\ linear_range = N * (linear_range \div N) + (linear_range % N)
  <1>1. linear_range \in Nat /\ N \in Nat /\ N > 0
    BY ThreadsAssumption, SizeAssumption DEF TypeOK, Size_t
  <1> QED BY <1>1, DivideNat DEF Thread

(* No part is longer than the whole range. *)
LEMMA RangeLengthBound ==
  ASSUME TypeOK, NEW t \in Thread
  PROVE  RangeLength(t) \in Nat /\ RangeLength(t) <= linear_range
  <1> DEFINE q == linear_range \div N
             r == linear_range % N
  <1>1. q \in Nat /\ r \in Thread /\ linear_range = N * q + r
    BY Division
  <1> HIDE DEF q, r
  <1>2. N * q >= q
    BY <1>1, ThreadsAssumption
  <1>3. RangeLength(t) = q + (IF t < r THEN 1 ELSE 0)
    BY DEF RangeLength, q, r
  <1> QED BY <1>1, <1>2, <1>3, ThreadsAssumption DEF Thread

(* The fields of a thread, as numbers. *)
LEMMA FieldTypes ==
  ASSUME TypeOK
  PROVE  /\ Size_t \subseteq Int
         /\ \A t \in Thread : /\ range_start[t] \in Nat
                            /\ range_end[t] \in Nat
                            /\ range_length[t] \in Nat
                            /\ cursor[t] \in Nat
                            /\ index[t] \in Nat
                            /\ RangeLength(t) \in Nat
                            /\ RangeLimit(t) \in Nat
  <1>1. Size_t \subseteq Nat
    BY SizeAssumption DEF Size_t
  <1> SUFFICES ASSUME NEW t \in Thread
               PROVE  /\ range_start[t] \in Nat
                      /\ range_end[t] \in Nat
                      /\ range_length[t] \in Nat
                      /\ cursor[t] \in Nat
                      /\ index[t] \in Nat
                      /\ RangeLength(t) \in Nat
                      /\ RangeLimit(t) \in Nat
    BY <1>1
  <1>2. range_start[t] \in Nat /\ range_end[t] \in Nat /\ range_length[t] \in Nat
        /\ cursor[t] \in Nat /\ index[t] \in Nat
    BY <1>1 DEF TypeOK
  <1>3. RangeLength(t) \in Nat
    BY RangeLengthBound
  <1> QED BY <1>2, <1>3 DEF RangeLimit

(* When the work is spread, all of it is. *)
LEMMA SplitIsComplete ==
  ASSUME TypeOK, SplitInv, tid = N
  PROVE  next_start = linear_range
  <1> DEFINE q == linear_range \div N
             r == linear_range % N
  <1>1. q \in Nat /\ r \in Thread /\ linear_range = N * q + r
    BY Division
  <1>2. next_start = N * q + r
    BY <1>1, ThreadsAssumption DEF SplitInv, Thread
  <1> QED BY <1>1, <1>2

(* So every item lies in the range of some thread, and no range reaches *)
(* beyond the last item.                                                *)
LEMMA SplitCovers ==
  ASSUME TypeOK, SplitInv, tid = N
  PROVE  /\ \A t \in Thread : RangeLimit(t) <= linear_range
         /\ \A i \in Size_t : i < linear_range =>
              \E t \in Thread : range_start[t] <= i /\ i < RangeLimit(t)
  <1>1. next_start = linear_range
    BY SplitIsComplete
  <1>2. \A t \in Thread : t < N
    BY ThreadsAssumption DEF Thread
  <1>3. \A t \in Thread : RangeLimit(t) <= linear_range
    BY <1>1, <1>2 DEF SplitInv
  <1>4. \A i \in Size_t : i < linear_range =>
          \E t \in Thread : range_start[t] <= i /\ i < RangeLimit(t)
    BY <1>1 DEF SplitInv
  <1> QED BY <1>3, <1>4

(* Two threads' ranges share no item. *)
LEMMA SplitIsDisjoint ==
  ASSUME TypeOK, SplitInv, tid = N,
         NEW s \in Thread, NEW t \in Thread, s # t, NEW i \in Size_t,
         range_start[s] <= i, i < RangeLimit(s)
  PROVE  ~(range_start[t] <= i /\ i < RangeLimit(t))
  <1>1. RangeLimit(s) \in Int /\ RangeLimit(t) \in Int
        /\ range_start[s] \in Int /\ range_start[t] \in Int /\ i \in Int
    BY FieldTypes
  <1>2. CASE s < t
    BY <1>1, <1>2, ThreadsAssumption DEF SplitInv, Thread
  <1>3. CASE t < s
    BY <1>1, <1>3, ThreadsAssumption DEF SplitInv, Thread
  <1> QED BY <1>2, <1>3, ThreadsAssumption DEF Thread

(* The number of threads, and of any of them. *)
LEMMA CountThreads ==
  /\ IsFiniteSet(Thread)
  /\ Cardinality(Thread) = N
  /\ \A S \in SUBSET Thread :
       IsFiniteSet(S) /\ Cardinality(S) \in Nat /\ Cardinality(S) <= N
  <1>1. IsFiniteSet(Thread) /\ Cardinality(Thread) = N
    BY FS_Interval, ThreadsAssumption DEF Thread
  <1> QED BY <1>1, FS_Subset, FS_CardinalityType

-----------------------------------------------------------------------------
(* Claiming an item. *)

(* A thread that has not found v's range empty claims an item of it if and *)
(* only if one is left; then nobody has found it empty.                    *)
LEMMA ClaimSucceeds ==
  ASSUME TypeOK, EmptyInv, fastpath => linear_range < RangeThreshold,
         NEW v \in Thread, NEW t \in Thread \ Passed(v), Claims(v)
  PROVE  /\ Passed(v) = {}
         /\ range_length[v] > 0
         /\ range_length[v] <= RangeLength(v)
         /\ AfterAttempt(v) = [range_length EXCEPT ![v] = range_length[v] - 1]
  <1> DEFINE L == range_length[v]
  <1>1. L \in Size_t /\ Passed(v) \in SUBSET Thread /\ t \in Thread /\ fastpath \in BOOLEAN
    BY DEF TypeOK, Passed
  <1>2. Decremented(L) = IF L = 0 THEN M - 1 ELSE L - 1
    BY <1>1, DecrementWraps
  <1>3. Passed(v) # {} => Cardinality(Passed(v)) \in 1 .. N - 1
    <2>1. IsFiniteSet(Passed(v)) /\ Cardinality(Passed(v)) \in Nat
      BY <1>1, CountThreads
    <2>2. Cardinality(Passed(v) \cup {t}) = Cardinality(Passed(v)) + 1
      BY <2>1, FS_AddElement
    <2>3. Cardinality(Passed(v) \cup {t}) <= N
      BY <1>1, CountThreads
    <2>4. Passed(v) # {} => Cardinality(Passed(v)) # 0
      BY <2>1, FS_EmptySet
    <2> QED BY <2>1, <2>2, <2>3, <2>4, ThreadsAssumption
  <1>4. L # 0
    BY <1>1, <1>2, ThreadsAssumption, SizeAssumption
       DEF Claims, RangeThreshold, Size_t
  <1>5. Passed(v) = {}
    <2>1. SUFFICES ASSUME Passed(v) # {} PROVE FALSE
      OBVIOUS
    <2>2. L = IF fastpath THEN M - Cardinality(Passed(v)) ELSE 0
      BY <2>1 DEF EmptyInv
    <2>3. fastpath /\ L - 1 < M - N
      BY <1>2, <1>4, <2>2 DEF Claims, RangeThreshold
    <2> QED BY <2>1, <2>2, <2>3, <1>3, ThreadsAssumption, SizeAssumption
  <1>6. L <= RangeLength(v)
    BY <1>5 DEF EmptyInv
  <1>7. AfterAttempt(v) = [range_length EXCEPT ![v] = L - 1]
    BY <1>1, <1>2, <1>4 DEF AfterAttempt, TypeOK
  <1> QED BY <1>1, <1>4, <1>5, <1>6, <1>7, SizeAssumption DEF Size_t

(* If none is left, the attempt counts the thread among those that know. *)
LEMMA ClaimFails ==
  ASSUME TypeOK, EmptyInv, fastpath => linear_range < RangeThreshold,
         NEW v \in Thread, NEW t \in Thread \ Passed(v), ~Claims(v)
  PROVE  /\ Remaining(v) = 0
         /\ AfterAttempt(v) = [range_length EXCEPT ![v] =
              IF fastpath THEN M - Cardinality(Passed(v) \cup {t}) ELSE 0]
  <1> DEFINE L == range_length[v]
             k == Cardinality(Passed(v) \cup {t})
  <1>1. L \in Size_t /\ Passed(v) \in SUBSET Thread /\ t \in Thread /\ fastpath \in BOOLEAN
    BY DEF TypeOK, Passed
  <1>2. Decremented(L) = IF L = 0 THEN M - 1 ELSE L - 1
    BY <1>1, DecrementWraps
  <1>3. k = Cardinality(Passed(v)) + 1 /\ k \in 1 .. N
    <2>1. IsFiniteSet(Passed(v)) /\ Cardinality(Passed(v)) \in Nat
      BY <1>1, CountThreads
    <2>2. k = Cardinality(Passed(v)) + 1
      BY <2>1, FS_AddElement
    <2>3. k <= N
      BY <1>1, CountThreads
    <2> QED BY <2>1, <2>2, <2>3, ThreadsAssumption
  <1>4. RangeLength(v) \in Nat /\ RangeLength(v) <= linear_range /\ linear_range \in Size_t
    BY RangeLengthBound DEF TypeOK
  <1>5. CASE ~fastpath
    <2>1. L = 0
      BY <1>5 DEF Claims
    <2>2. AfterAttempt(v) = [range_length EXCEPT ![v] = 0]
      BY <1>5, <2>1 DEF AfterAttempt, TypeOK
    <2> QED BY <1>5, <2>1, <2>2, <1>4 DEF Remaining
  <1>6. CASE fastpath
    <2>1. AfterAttempt(v) = [range_length EXCEPT ![v] = Decremented(L)]
      BY <1>6 DEF AfterAttempt, TypeOK
    <2>2. Decremented(L) >= M - N /\ linear_range < M - N
      BY <1>6, <1>2, <1>1, ThreadsAssumption, SizeAssumption
         DEF Claims, RangeThreshold, Size_t
    <2>3. CASE Passed(v) = {}
      <3>1. L <= RangeLength(v) /\ Cardinality(Passed(v)) = 0
        BY <2>3, FS_EmptySet DEF EmptyInv
      <3>2. L = 0
        BY <3>1, <2>2, <1>1, <1>2, <1>4, ThreadsAssumption, SizeAssumption DEF Size_t
      <3>3. Decremented(L) = M - k
        BY <3>1, <3>2, <1>2, <1>3
      <3> QED BY <3>2, <3>3, <2>1, <1>4, <1>6 DEF Remaining
    <2>4. CASE Passed(v) # {}
      <3>1. L = M - Cardinality(Passed(v))
        BY <2>4, <1>6 DEF EmptyInv
      <3>2. Cardinality(Passed(v)) \in Nat /\ Cardinality(Passed(v)) <= N
        BY <1>1, CountThreads
      <3>3. L # 0 /\ L > RangeLength(v)
        BY <3>1, <3>2, <2>2, <1>4, ThreadsAssumption, SizeAssumption DEF Size_t
      <3>4. Decremented(L) = M - k
        BY <3>1, <3>2, <3>3, <1>2, <1>3, SizeAssumption
      <3>5. AfterAttempt(v) = [range_length EXCEPT ![v] = M - k]
        BY <3>4, <2>1
      <3>6. Remaining(v) = 0
        BY <3>3, <1>1, <1>4 DEF Remaining, Size_t
      <3> QED BY <3>5, <3>6, <1>6
    <2> QED BY <2>3, <2>4
  <1> QED BY <1>5, <1>6

-----------------------------------------------------------------------------
(* The steps of the caller. *)

LEMMA ParallelizeKeepsInv ==
  ASSUME IInv, NEW range \in Size_t, Parallelize(range)
  PROVE  IInv'
  <1> USE DEF Parallelize, ranges, operation, locals
  <1>1. 0 \in Size_t /\ 0 \in Thread /\ 0 \in 0 .. N
    BY ThreadsAssumption, SizeAssumption DEF Size_t, Thread
  <1>2. TypeOK
    BY DEF IInv
  <1>3. TypeOK'
    BY <1>1, <1>2, FastpathAssumption DEF TypeOK, Label
  <1>4. pc'[0] = "spread" /\ \A t \in Thread : t # 0 => pc'[t] = "idle"
    BY <1>1, <1>2 DEF TypeOK
  <1>5. PhaseInv' /\ ~InOperation'
    BY <1>1, <1>4 DEF PhaseInv, InOperation
  <1>6. SplitInv'
    <2>0. linear_range' \in Nat /\ N \in Nat /\ N > 0
      BY <1>3, ThreadsAssumption, SizeAssumption DEF TypeOK, Size_t
    <2>1. linear_range' \div N \in Nat /\ linear_range' % N \in Nat
      BY <2>0, DivideNat
    <2>2. \A t \in Thread : ~(t < 0)
      BY ThreadsAssumption DEF Thread
    <2>3. \A i \in Size_t : ~(i < 0)
      BY SizeAssumption DEF Size_t
    <2> QED BY <2>1, <2>2, <2>3 DEF SplitInv
  <1>7. UntouchedInv'
    <2>1. \A t \in Thread : ~(t < 0)
      BY ThreadsAssumption DEF Thread
    <2> QED BY <2>1 DEF UntouchedInv
  <1>8. fastpath' => linear_range' < RangeThreshold
    OBVIOUS
  <1> QED BY <1>3, <1>5, <1>6, <1>7, <1>8 DEF IInv, UntouchedInv, RangeThreshold

LEMMA SpreadWorkKeepsInv ==
  ASSUME IInv, SpreadWork
  PROVE  IInv'
  <1> DEFINE q == linear_range \div N
             r == linear_range % N
             end == next_start + RangeLength(tid)
  <1>1. TypeOK /\ SplitInv /\ UntouchedInv /\ 0 \in Thread /\ PhaseInv
    BY ThreadsAssumption DEF IInv, Thread, SpreadWork
  <1>2. tid \in Thread /\ tid \in Nat
    BY <1>1, ThreadsAssumption DEF TypeOK, Thread, SpreadWork
  <1>3. q \in Nat /\ r \in Thread /\ r \in Nat /\ r < N /\ linear_range = N * q + r
    BY <1>1, Division, ThreadsAssumption DEF Thread
  <1>4. RangeLength(tid) = q + (IF tid < r THEN 1 ELSE 0)
    BY DEF RangeLength
  <1>5. next_start = tid * q + (IF tid < r THEN tid ELSE r)
    BY <1>1 DEF SplitInv
  <1> HIDE DEF q, r
  <1>6. (tid + 1) * q = tid * q + q /\ (tid + 1) * q <= N * q /\ tid * q \in Nat /\ N * q \in Nat
    <2>1. PICK d \in Nat : N = tid + 1 + d
      <3>1. N - tid - 1 \in Nat /\ N = tid + 1 + (N - tid - 1)
        BY <1>2, ThreadsAssumption DEF Thread
      <3> QED BY <3>1
    <2>2. N * q = (tid + 1) * q + d * q /\ d * q \in Nat
      BY <2>1, <1>2, <1>3
    <2>3. (tid + 1) * q = tid * q + q /\ tid * q \in Nat
      BY <1>2, <1>3
    <2> QED BY <2>2, <2>3, <1>2, <1>3, ThreadsAssumption
  <1>7. end = (tid + 1) * q + (IF tid + 1 < r THEN tid + 1 ELSE r)
    BY <1>2, <1>3, <1>4, <1>5, <1>6
  <1>8. end <= linear_range /\ end \in Nat /\ next_start \in Nat /\ next_start <= end
    BY <1>2, <1>3, <1>4, <1>5, <1>6, <1>7
  <1>9. end \in Size_t /\ end % M = end /\ RangeLength(tid) \in Size_t
    <2>1. linear_range \in Nat /\ linear_range < M
      BY <1>1, SizeAssumption DEF TypeOK, Size_t
    <2>2. RangeLength(tid) \in Nat /\ RangeLength(tid) <= linear_range
      BY <1>1, <1>2, RangeLengthBound
    <2> QED BY <2>1, <2>2, <1>8, SizeAssumption DEF Size_t
  <1> HIDE DEF end
  <1>10. /\ range_start' = [range_start EXCEPT ![tid] = next_start]
         /\ range_end' = [range_end EXCEPT ![tid] = end]
         /\ range_length' = [range_length EXCEPT ![tid] = RangeLength(tid)]
         /\ next_start' = end
         /\ tid' = tid + 1
         /\ UNCHANGED <<fastpath, linear_range, pc, cursor, victim, index, calls>>
    BY <1>9 DEF SpreadWork, locals, end
  <1>11. TypeOK'
    <2>1. tid' \in 0 .. N
      BY <1>2, <1>10, ThreadsAssumption DEF Thread
    <2> QED BY <2>1, <1>1, <1>9, <1>10 DEF TypeOK
  <1>12. \A t \in Thread : RangeLength(t)' = RangeLength(t)
    BY <1>10 DEF RangeLength
  <1>13. \A t \in Thread : t < tid' <=> t < tid \/ t = tid
    BY <1>2, <1>10, ThreadsAssumption DEF Thread
  <1>14. ASSUME NEW t \in Thread, t < tid
         PROVE  /\ range_start'[t] = range_start[t]
                /\ range_end'[t] = range_end[t]
                /\ range_length'[t] = range_length[t]
                /\ RangeLimit(t)' = RangeLimit(t)
    <2>1. t # tid
      BY <1>2, <1>14, ThreadsAssumption DEF Thread
    <2>2. range_start'[t] = range_start[t] /\ range_end'[t] = range_end[t]
          /\ range_length'[t] = range_length[t]
      BY <2>1, <1>1, <1>10 DEF TypeOK
    <2> QED BY <2>2, <1>12 DEF RangeLimit
  <1>a. PICK k \in Thread : k = tid
    BY <1>2
  <1>15. /\ range_start'[k] = next_start
         /\ range_end'[k] = end
         /\ range_length'[k] = RangeLength(k)
         /\ RangeLimit(k)' = end
    <2>1. range_start'[k] = next_start /\ range_end'[k] = end
          /\ range_length'[k] = RangeLength(k)
      BY <1>1, <1>a, <1>10 DEF TypeOK
    <2>2. RangeLimit(k)' = range_start'[k] + RangeLength(k)
      BY <1>12 DEF RangeLimit
    <2> QED BY <2>1, <2>2, <1>a DEF end
  <1>16. SplitInv'
    <2>1. next_start' = tid' * (linear_range' \div N)
             + (IF tid' < linear_range' % N THEN tid' ELSE linear_range' % N)
      BY <1>7, <1>10 DEF q, r
    <2>2. ASSUME NEW t \in Thread, t < tid'
          PROVE  /\ RangeLimit(t)' <= next_start'
                 /\ \A s \in Thread : s < t => RangeLimit(s)' <= range_start'[t]
      <3>1. CASE t < tid
        <4>1. \A s \in Thread : s < t => s < tid
          BY <3>1, <1>2, ThreadsAssumption DEF Thread
        <4>2. RangeLimit(t) <= next_start /\ RangeLimit(t) \in Nat
          BY <3>1, <1>1, FieldTypes DEF SplitInv
        <4>3. RangeLimit(t)' <= next_start'
          BY <4>2, <1>8, <1>10, <1>14, <3>1
        <4> QED BY <4>1, <4>3, <3>1, <1>1, <1>14 DEF SplitInv
      <3>2. CASE t = tid
        BY <3>2, <1>1, <1>8, <1>10, <1>14, <1>15, <1>a DEF SplitInv
      <3> QED BY <2>2, <3>1, <3>2, <1>13
    <2>3. ASSUME NEW i \in Size_t, i < next_start'
          PROVE  \E t \in Thread : t < tid' /\ range_start'[t] <= i /\ i < RangeLimit(t)'
      <3>1. CASE i < next_start
        <4>1. PICK t \in Thread : t < tid /\ range_start[t] <= i /\ i < RangeLimit(t)
          BY <3>1, <1>1 DEF SplitInv
        <4> QED BY <4>1, <1>13, <1>14
      <3>2. CASE ~(i < next_start)
        <4>1. next_start <= i
          BY <3>2, <1>8, <1>1, FieldTypes
        <4> QED BY <4>1, <2>3, <1>a, <1>10, <1>13, <1>15
      <3> QED BY <3>1, <3>2
    <2> QED BY <2>1, <2>2, <2>3 DEF SplitInv
  <1>17. UntouchedInv'
    <2>1. ASSUME NEW t \in Thread, t < tid'
          PROVE  range_end'[t] = RangeLimit(t)' /\ range_length'[t] = RangeLength(t)'
      <3>1. CASE t < tid
        BY <3>1, <1>1, <1>12, <1>14 DEF UntouchedInv
      <3>2. CASE t = tid
        BY <3>2, <1>12, <1>15, <1>a
      <3> QED BY <3>1, <3>2, <2>1, <1>13
    <2>2. \A i \in Size_t : calls'[i] = 0
      BY <1>1, <1>10 DEF UntouchedInv
    <2> QED BY <2>1, <2>2 DEF UntouchedInv
  <1>18. PhaseInv' /\ ~InOperation'
    <2>1. pc[0] = "spread"
      BY DEF SpreadWork
    <2> QED BY <2>1, <1>1, <1>10 DEF PhaseInv, InOperation
  <1>19. (fastpath => linear_range < RangeThreshold)'
    BY <1>10 DEF IInv, RangeThreshold
  <1> QED BY <1>11, <1>16, <1>17, <1>18, <1>19 DEF IInv, UntouchedInv

LEMMA PublishKeepsInv ==
  ASSUME IInv, Publish
  PROVE  IInv'
  <1>1. /\ pc[0] = "spread" /\ tid = N
        /\ pc' = [t \in Thread |-> "enter"]
        /\ UNCHANGED <<range_start, range_end, range_length, fastpath, linear_range, tid,
                       next_start, cursor, victim, index, calls>>
    BY DEF Publish, ranges, operation, locals
  <1>2. /\ TypeOK /\ SplitInv /\ UntouchedInv
        /\ fastpath => linear_range < RangeThreshold
    BY <1>1 DEF IInv
  <1>3. TypeOK'
    BY <1>1, <1>2 DEF TypeOK, Label
  <1>4. \A t \in Thread : pc'[t] = "enter"
    BY <1>1
  <1>5. PhaseInv' /\ InOperation' /\ pc'[0] = "enter"
    BY <1>1, <1>4, ThreadsAssumption DEF PhaseInv, InOperation, Thread
  <1>6. \A t \in Thread : RangeLength(t)' = RangeLength(t) /\ RangeLimit(t)' = RangeLimit(t)
    BY <1>1 DEF RangeLength, RangeLimit
  <1>7. SplitInv'
    BY <1>1, <1>2, <1>6 DEF SplitInv
  <1>8. ASSUME NEW v \in Thread
        PROVE  /\ range_start'[v] = range_start[v] /\ Position(v)' = range_start[v]
               /\ Held(v)' = 0 /\ Thieves(v)' = {} /\ Passed(v)' = {}
               /\ range_end'[v] = RangeLimit(v) /\ range_length'[v] = RangeLength(v)
               /\ Remaining(v)' = RangeLength(v)
               /\ range_start[v] \in Nat /\ RangeLength(v) \in Nat
    <2>1. v < tid
      BY <1>1, ThreadsAssumption DEF Thread
    <2>2. range_end'[v] = RangeLimit(v) /\ range_length'[v] = RangeLength(v)
      BY <1>1, <1>2, <2>1 DEF UntouchedInv
    <2>3. Thieves(v)' = {} /\ Passed(v)' = {}
      BY <1>4 DEF Thieves, Passed, Stealing
    <2>4. Position(v)' = range_start[v] /\ Held(v)' = 0
      BY <1>1, <1>4 DEF Position, Held
    <2>5. range_start[v] \in Nat /\ RangeLength(v) \in Nat
      BY <1>2, FieldTypes
    <2>6. Remaining(v)' = RangeLength(v)
      BY <1>6, <2>2, <2>5 DEF Remaining
    <2> QED BY <1>1, <2>2, <2>3, <2>4, <2>5, <2>6
  <1>9. VictimInv'
    BY <1>4 DEF VictimInv, Stealing
  <1>10. TokenInv'
    BY <1>6, <1>8, FS_EmptySet DEF TokenInv, RangeLimit
  <1>11. EmptyInv'
    BY <1>6, <1>8 DEF EmptyInv
  <1>12. CallsInv'
    <2>1. \A i \in Size_t : calls'[i] = 0
      BY <1>1, <1>2 DEF UntouchedInv
    <2>2. ASSUME NEW v \in Thread, NEW i \in Size_t, range_start[v] <= i, i < RangeLimit(v)
          PROVE  ~(i < range_start[v]) /\ ~(i >= RangeLimit(v))
      BY <2>2, <1>2, FieldTypes
    <2> QED BY <2>1, <2>2, <1>6, <1>8 DEF CallsInv
  <1> QED BY <1>1, <1>2, <1>3, <1>5, <1>7, <1>9, <1>10, <1>11, <1>12
          DEF IInv, OperationInv, RangeThreshold

(* Nothing is left of a range that a thread has found empty, and its length *)
(* has not wrapped further than the fast path allows for.                   *)
LEMMA PassedMeansEmpty ==
  ASSUME IInv, InOperation, NEW v \in Thread, Passed(v) # {}
  PROVE  /\ Remaining(v) = 0
         /\ fastpath => range_length[v] >= RangeThreshold
         /\ ~fastpath => range_length[v] <= RangeLength(v)
  <1>1. /\ TypeOK /\ EmptyInv
        /\ fastpath => linear_range < M - N
    BY DEF IInv, OperationInv, RangeThreshold
  <1>2. range_length[v] = IF fastpath THEN M - Cardinality(Passed(v)) ELSE 0
    BY <1>1 DEF EmptyInv
  <1>3. Passed(v) \in SUBSET Thread
    BY DEF Passed
  <1>4. Cardinality(Passed(v)) \in Nat /\ Cardinality(Passed(v)) <= N
    BY <1>3, CountThreads
  <1>5. linear_range \in Nat
    BY <1>1, SizeAssumption DEF TypeOK, Size_t
  <1>6. RangeLength(v) \in Nat /\ RangeLength(v) <= linear_range
    BY <1>1, RangeLengthBound
  <1>7. CASE fastpath
    <2>1. /\ ~(M - Cardinality(Passed(v)) <= RangeLength(v))
          /\ M - Cardinality(Passed(v)) >= M - N
      BY <1>1, <1>4, <1>5, <1>6, <1>7, ThreadsAssumption, SizeAssumption
    <2> QED BY <2>1, <1>2, <1>7 DEF Remaining, RangeThreshold
  <1>8. CASE ~fastpath
    BY <1>2, <1>6, <1>8 DEF Remaining
  <1> QED BY <1>7, <1>8

(* When every thread is done, every item has been processed once. *)
LEMMA DoneMeansProcessed ==
  ASSUME IInv, \A t \in Thread : pc[t] = "done"
  PROVE  \A i \in Size_t : calls[i] = IF i < linear_range THEN 1 ELSE 0
  <1>1. 0 \in Thread /\ InOperation
    BY ThreadsAssumption DEF Thread, InOperation
  <1>2. TypeOK /\ OperationInv /\ SplitInv /\ tid = N
    <2>1. pc[0] = "done"
      BY <1>1
    <2> QED BY <1>1, <2>1 DEF IInv, PhaseInv
  <1>3. ASSUME NEW i \in Size_t, i < linear_range
        PROVE  calls[i] = 1
    <2>1. PICK v \in Thread : range_start[v] <= i /\ i < RangeLimit(v)
      BY <1>2, <1>3, SplitCovers
    <2>2. calls[i] = IF i < Position(v) \/ i >= range_end[v] THEN 1 ELSE 0
      BY <1>2, <2>1 DEF OperationInv, CallsInv
    <2>3. Held(v) = 0 /\ Thieves(v) = {} /\ Passed(v) # {} /\ Position(v) = cursor[v]
      BY DEF Held, Thieves, Passed, Position
    <2>4. Remaining(v) = 0
      BY <1>1, <2>3, PassedMeansEmpty
    <2>5. range_end[v] = cursor[v]
      <3>1. range_end[v] = Position(v) + 0 + 0 + 0
        BY <1>2, <2>3, <2>4, FS_EmptySet DEF OperationInv, TokenInv
      <3> QED BY <3>1, <2>3, <1>2, FieldTypes
    <2> QED BY <2>2, <2>3, <2>5, <1>2, FieldTypes
  <1>4. ASSUME NEW i \in Size_t, ~(i < linear_range)
        PROVE  calls[i] = 0
    <2>1. i >= linear_range
      BY <1>2, <1>4, FieldTypes DEF TypeOK
    <2> QED BY <1>2, <2>1 DEF OperationInv, CallsInv
  <1> QED BY <1>3, <1>4

LEMMA ReturnKeepsInv ==
  ASSUME IInv, Return
  PROVE  IInv'
  <1>1. /\ \A t \in Thread : pc[t] = "done"
        /\ pc' = [t \in Thread |-> "idle"]
        /\ UNCHANGED <<range_start, range_end, range_length, fastpath, linear_range, tid,
                       next_start, cursor, victim, index, calls>>
    BY DEF Return, ranges, operation, locals
  <1>2. 0 \in Thread /\ pc[0] = "done" /\ pc'[0] = "idle" /\ \A t \in Thread : pc'[t] = "idle"
    BY <1>1, ThreadsAssumption DEF Thread
  <1>3. TypeOK' /\ ~InOperation'
    BY <1>1, <1>2 DEF IInv, TypeOK, Label, InOperation
  <1>4. PhaseInv'
    BY <1>1, <1>2 DEF IInv, PhaseInv
  <1>5. \A i \in Size_t : calls'[i] = IF i < linear_range' THEN 1 ELSE 0
    BY <1>1, DoneMeansProcessed
  <1>6. (fastpath => linear_range < RangeThreshold)'
    BY <1>1 DEF IInv, RangeThreshold
  <1> QED BY <1>2, <1>3, <1>4, <1>5, <1>6 DEF IInv

-----------------------------------------------------------------------------
(* The steps of the threads.  Each disturbs part of OperationInv only. *)

(* What the steps of a thread have in common. *)
Frame == /\ UNCHANGED <<range_start, fastpath, linear_range, tid, next_start>>
         /\ \E t \in Thread, label \in Label \ {"idle", "spread"} :
              /\ pc[t] \notin {"idle", "spread"}
              /\ pc' = [pc EXCEPT ![t] = label]

(* An operation is in progress. *)
LEMMA InOperationFacts ==
  ASSUME IInv, NEW t \in Thread, pc[t] \notin {"idle", "spread"}
  PROVE  /\ InOperation /\ tid = N /\ pc[0] \notin {"idle", "spread"}
         /\ TypeOK /\ SplitInv /\ OperationInv
         /\ fastpath => linear_range < RangeThreshold
  <1>1. 0 \in Thread
    BY ThreadsAssumption DEF Thread
  <1>2. InOperation /\ tid = N
    BY DEF IInv, PhaseInv
  <1> QED BY <1>1, <1>2 DEF IInv, InOperation

LEMMA FrameKeepsInv ==
  ASSUME IInv, Frame, TypeOK', OperationInv'
  PROVE  IInv'
  <1>1. PICK t \in Thread, label \in Label \ {"idle", "spread"} :
              /\ pc[t] \notin {"idle", "spread"}
              /\ pc' = [pc EXCEPT ![t] = label]
    BY DEF Frame
  <1>2. /\ InOperation /\ tid = N /\ TypeOK /\ SplitInv
        /\ fastpath => linear_range < RangeThreshold
    BY <1>1, InOperationFacts
  <1>3. InOperation' /\ 0 \in Thread
    <2>1. pc \in [Thread -> Label]
      BY <1>2 DEF TypeOK
    <2>2. \A s \in Thread : pc'[s] \notin {"idle", "spread"}
      BY <1>1, <1>2, <2>1 DEF InOperation
    <2>3. 0 \in Thread
      BY ThreadsAssumption DEF Thread
    <2> QED BY <2>2, <2>3 DEF InOperation
  <1>4. PhaseInv' /\ pc'[0] # "spread"
    BY <1>2, <1>3 DEF Frame, PhaseInv, InOperation
  <1>5. SplitInv'
    BY <1>2 DEF Frame, SplitInv, RangeLimit, RangeLength
  <1> QED BY <1>2, <1>3, <1>4, <1>5 DEF IInv, Frame, RangeThreshold

(* Nor does a step disturb the indices taken from the victims, unless it *)
(* takes one.                                                            *)
LEMMA VictimFrame ==
  ASSUME Frame, VictimInv, UNCHANGED <<index, range_end>>,
         \A t \in Thread : pc'[t] \in Stealing => victim'[t] # t,
         \A t \in Thread : pc'[t] = "steal_task" =>
                          pc[t] = "steal_task" /\ victim'[t] = victim[t]
  PROVE  VictimInv'
  <1>1. \A v \in Thread : RangeLimit(v)' = RangeLimit(v)
    BY DEF Frame, RangeLimit, RangeLength
  <1>2. ASSUME NEW t \in Thread, pc'[t] = "steal_task"
        PROVE  /\ range_end'[victim'[t]] <= index'[t]
               /\ index'[t] < range_start'[victim'[t]] + RangeLength(victim[t])
               /\ \A s \in Thread : s # t /\ pc'[s] = "steal_task" => index'[s] # index'[t]
    BY <1>2 DEF VictimInv, Frame, RangeLimit
  <1> QED BY <1>1, <1>2 DEF VictimInv, RangeLimit, RangeLength, Frame

(* Which items have been processed, if the step does not process any. *)
LEMMA CallsFrame ==
  ASSUME Frame, CallsInv, UNCHANGED <<calls, index, range_end>>,
         \A v \in Thread : Position(v)' = Position(v),
         \A t \in Thread : pc'[t] = "steal_task" <=> pc[t] = "steal_task"
  PROVE  CallsInv'
  <1>1. \A v \in Thread : RangeLimit(v)' = RangeLimit(v)
    BY DEF Frame, RangeLimit, RangeLength
  <1> QED BY <1>1 DEF CallsInv, Frame

LEMMA EnterKeepsInv ==
  ASSUME IInv, NEW t \in Thread, Enter(t)
  PROVE  IInv'
  <1>1. /\ pc[t] = "enter" /\ pc' = [pc EXCEPT ![t] = "own"]
        /\ cursor' = [cursor EXCEPT ![t] = range_start[t]]
        /\ UNCHANGED <<range_start, range_end, range_length, fastpath, linear_range, tid,
                       next_start, victim, index, calls>>
    BY DEF Enter, Goto, ranges, operation
  <1>2. TypeOK /\ VictimInv /\ TokenInv /\ EmptyInv /\ CallsInv
    BY <1>1, InOperationFacts DEF OperationInv
  <1>3. TypeOK'
    BY <1>1, <1>2 DEF TypeOK, Label
  <1>4. \A s \in Thread : pc'[s] = IF s = t THEN "own" ELSE pc[s]
    BY <1>1, <1>2 DEF TypeOK
  <1>5. \A v \in Thread : /\ Position(v)' = Position(v) /\ Held(v)' = Held(v)
                          /\ Thieves(v)' = Thieves(v) /\ Passed(v)' = Passed(v)
                          /\ Remaining(v)' = Remaining(v)
                          /\ RangeLength(v)' = RangeLength(v)
                          /\ RangeLimit(v)' = RangeLimit(v)
    <2> SUFFICES ASSUME NEW v \in Thread
                 PROVE  /\ Position(v)' = Position(v) /\ Held(v)' = Held(v)
                        /\ Thieves(v)' = Thieves(v) /\ Passed(v)' = Passed(v)
                        /\ Remaining(v)' = Remaining(v)
                        /\ RangeLength(v)' = RangeLength(v)
                        /\ RangeLimit(v)' = RangeLimit(v)
      OBVIOUS
    <2>1. RangeLength(v)' = RangeLength(v) /\ RangeLimit(v)' = RangeLimit(v)
      BY <1>1 DEF RangeLength, RangeLimit
    <2>2. Remaining(v)' = Remaining(v)
      BY <1>1, <2>1 DEF Remaining
    <2>3. Held(v)' = Held(v)
      BY <1>1, <1>4 DEF Held
    <2>4. Position(v)' = Position(v)
      BY <1>1, <1>2, <1>4 DEF Position, TypeOK
    <2>5. Thieves(v)' = Thieves(v) /\ Passed(v)' = Passed(v)
      BY <1>1, <1>4 DEF Thieves, Passed, Stealing
    <2> QED BY <2>1, <2>2, <2>3, <2>4, <2>5
  <1>6. Frame
    BY <1>1 DEF Frame, Label
  <1>7. VictimInv'
    <2>1. \A s \in Thread : pc'[s] \in Stealing => pc[s] \in Stealing /\ pc'[s] = pc[s]
      BY <1>4 DEF Stealing
    <2> QED BY <1>1, <1>2, <1>6, <2>1, VictimFrame DEF VictimInv, Stealing
  <1>8. TokenInv'
    BY <1>1, <1>2, <1>5 DEF TokenInv
  <1>9. EmptyInv'
    BY <1>1, <1>2, <1>5 DEF EmptyInv
  <1>10. CallsInv'
    BY <1>1, <1>2, <1>4, <1>5, <1>6, CallsFrame
  <1> QED BY <1>3, <1>6, <1>7, <1>8, <1>9, <1>10, FrameKeepsInv DEF OperationInv

LEMMA OwnClaimKeepsInv ==
  ASSUME IInv, NEW t \in Thread, OwnClaim(t)
  PROVE  IInv'
  <1>1. /\ pc[t] = "own" /\ pc' = [pc EXCEPT ![t] = "own_task"]
        /\ Claims(t) /\ range_length' = AfterAttempt(t)
        /\ UNCHANGED <<range_start, range_end, fastpath, linear_range, tid, next_start,
                       cursor, victim, index, calls>>
    BY DEF OwnClaim, Goto, operation, locals
  <1>2. /\ TypeOK /\ VictimInv /\ TokenInv /\ EmptyInv /\ CallsInv
        /\ fastpath => linear_range < RangeThreshold
    BY <1>1, InOperationFacts DEF OperationInv
  <1>3. /\ Passed(t) = {}
        /\ range_length[t] > 0 /\ range_length[t] <= RangeLength(t)
        /\ range_length' = [range_length EXCEPT ![t] = range_length[t] - 1]
    <2>1. t \notin Passed(t)
      BY <1>1 DEF Passed, Stealing
    <2> QED BY <1>1, <1>2, <2>1, ClaimSucceeds
  <1>4. /\ range_length[t] \in Nat /\ RangeLength(t) \in Nat /\ cursor[t] \in Nat
        /\ range_length[t] - 1 \in Size_t
        /\ \A v \in Thread : range_length'[v] = IF v = t THEN range_length[t] - 1 ELSE range_length[v]
    <2>1. range_length[t] \in Nat /\ range_length[t] < M
      BY <1>2, SizeAssumption DEF TypeOK, Size_t
    <2>2. RangeLength(t) \in Nat /\ cursor[t] \in Nat
      BY <1>2, FieldTypes
    <2>3. range_length[t] - 1 \in Size_t
      BY <1>3, <2>1, SizeAssumption DEF Size_t
    <2>4. \A v \in Thread : range_length'[v] = IF v = t THEN range_length[t] - 1 ELSE range_length[v]
      BY <1>2, <1>3 DEF TypeOK
    <2> QED BY <2>1, <2>2, <2>3, <2>4
  <1>5. TypeOK'
    BY <1>1, <1>2, <1>3, <1>4 DEF TypeOK, Label
  <1>6. \A s \in Thread : pc'[s] = IF s = t THEN "own_task" ELSE pc[s]
    BY <1>1, <1>2 DEF TypeOK
  <1>7. \A v \in Thread : /\ Position(v)' = Position(v)
                          /\ Held(v)' = IF v = t THEN 1 ELSE Held(v)
                          /\ Remaining(v)' = IF v = t THEN Remaining(v) - 1 ELSE Remaining(v)
                          /\ Thieves(v)' = Thieves(v) /\ Passed(v)' = Passed(v)
                          /\ RangeLength(v)' = RangeLength(v)
                          /\ RangeLimit(v)' = RangeLimit(v)
    <2> SUFFICES ASSUME NEW v \in Thread
                 PROVE  /\ Position(v)' = Position(v)
                        /\ Held(v)' = IF v = t THEN 1 ELSE Held(v)
                        /\ Remaining(v)' = IF v = t THEN Remaining(v) - 1 ELSE Remaining(v)
                        /\ Thieves(v)' = Thieves(v) /\ Passed(v)' = Passed(v)
                        /\ RangeLength(v)' = RangeLength(v)
                        /\ RangeLimit(v)' = RangeLimit(v)
      OBVIOUS
    <2>1. RangeLength(v)' = RangeLength(v) /\ RangeLimit(v)' = RangeLimit(v)
      BY <1>1 DEF RangeLength, RangeLimit
    <2>2. Remaining(v)' = IF v = t THEN Remaining(v) - 1 ELSE Remaining(v)
      BY <1>3, <1>4, <2>1 DEF Remaining
    <2>3. Held(v)' = IF v = t THEN 1 ELSE Held(v)
      BY <1>6 DEF Held
    <2>4. Position(v)' = Position(v)
      BY <1>1, <1>6 DEF Position
    <2>5. Thieves(v)' = Thieves(v) /\ Passed(v)' = Passed(v)
      BY <1>1, <1>6 DEF Thieves, Passed, Stealing
    <2> QED BY <2>1, <2>2, <2>3, <2>4, <2>5
  <1>8. Frame
    BY <1>1 DEF Frame, Label
  <1>9. VictimInv'
    <2>1. \A s \in Thread : pc'[s] \in Stealing => pc[s] \in Stealing /\ pc'[s] = pc[s]
      BY <1>6 DEF Stealing
    <2> QED BY <1>1, <1>2, <1>8, <2>1, VictimFrame DEF VictimInv, Stealing
  <1>10. TokenInv'
    <2> SUFFICES ASSUME NEW v \in Thread
                 PROVE  range_end[v] = Position(v)' + Held(v)' + Remaining(v)' + Cardinality(Thieves(v))
      BY <1>1, <1>2, <1>7 DEF TokenInv
    <2>1. range_end[v] = Position(v) + Held(v) + Remaining(v) + Cardinality(Thieves(v))
      BY <1>2 DEF TokenInv
    <2>2. CASE v = t
      <3>1. Held(t) = 0 /\ Remaining(t) = range_length[t] /\ Position(t) = cursor[t]
        BY <1>1, <1>3 DEF Held, Remaining, Position
      <3>2. Thieves(t) \in SUBSET Thread
        BY DEF Thieves
      <3>3. Cardinality(Thieves(t)) \in Nat
        BY <3>2, CountThreads
      <3> QED BY <2>1, <2>2, <3>1, <3>3, <1>4, <1>7
    <2>3. CASE v # t
      BY <2>1, <2>3, <1>7
    <2> QED BY <2>2, <2>3
  <1>11. EmptyInv'
    BY <1>1, <1>2, <1>3, <1>4, <1>7 DEF EmptyInv
  <1>12. CallsInv'
    BY <1>1, <1>2, <1>6, <1>7, <1>8, CallsFrame
  <1> QED BY <1>5, <1>8, <1>9, <1>10, <1>11, <1>12, FrameKeepsInv DEF OperationInv

(* The range of a thread reaches from its start to its limit, and the part *)
(* nobody has processed or taken lies in it.                               *)
LEMMA RangeBounds ==
  ASSUME TypeOK, TokenInv, NEW v \in Thread
  PROVE  /\ Remaining(v) \in Nat /\ Cardinality(Thieves(v)) \in Nat
         /\ Held(v) \in 0 .. 1 /\ Position(v) \in Nat
         /\ range_start[v] <= Position(v)
         /\ Position(v) <= range_end[v]
         /\ range_end[v] <= RangeLimit(v)
         /\ range_end[v] = Position(v) + Held(v) + Remaining(v) + Cardinality(Thieves(v))
  <1>1. Thieves(v) \in SUBSET Thread
    BY DEF Thieves
  <1>2. Cardinality(Thieves(v)) \in Nat
    BY <1>1, CountThreads
  <1>3. Remaining(v) \in Nat /\ Position(v) \in Nat /\ Held(v) \in 0 .. 1
    BY FieldTypes DEF Remaining, Position, Held
  <1>4. range_end[v] = Position(v) + Held(v) + Remaining(v) + Cardinality(Thieves(v))
        /\ range_start[v] <= Position(v) /\ range_end[v] <= RangeLimit(v)
    BY DEF TokenInv
  <1>5. Position(v) <= range_end[v]
    BY <1>2, <1>3, <1>4
  <1> QED BY <1>2, <1>3, <1>4, <1>5

LEMMA OwnTaskKeepsInv ==
  ASSUME IInv, NEW t \in Thread, OwnTask(t)
  PROVE  IInv'
  <1> DEFINE c == cursor[t]
  <1>1. /\ pc[t] = "own_task" /\ pc' = [pc EXCEPT ![t] = "own"]
        /\ calls' = [calls EXCEPT ![c] = calls[c] + 1]
        /\ cursor' = [cursor EXCEPT ![t] = (c + 1) % M]
        /\ UNCHANGED <<range_start, range_end, range_length, fastpath, linear_range, tid,
                       next_start, victim, index>>
    BY DEF OwnTask, Call, Goto, ranges, operation
  <1>2. /\ TypeOK /\ VictimInv /\ TokenInv /\ EmptyInv /\ CallsInv /\ SplitInv /\ tid = N
        /\ fastpath => linear_range < RangeThreshold
    BY <1>1, InOperationFacts DEF OperationInv
  <1>3. c \in Size_t /\ c \in Nat /\ Position(t) = c /\ Held(t) = 1
    BY <1>1, <1>2, FieldTypes DEF TypeOK, Position, Held
  <1>4. c < range_end[t] /\ range_start[t] <= c /\ c < RangeLimit(t) /\ c < linear_range
    <2>1. range_end[t] \in Nat /\ RangeLimit(t) \in Nat /\ RangeLimit(t) <= linear_range
          /\ linear_range \in Nat
      <3>1. linear_range \in Nat
        BY <1>2, SizeAssumption DEF TypeOK, Size_t
      <3>2. range_end[t] \in Nat /\ RangeLimit(t) \in Nat
        BY <1>2, FieldTypes
      <3> QED BY <1>2, <3>1, <3>2, SplitCovers
    <2>2. /\ Remaining(t) \in Nat /\ Cardinality(Thieves(t)) \in Nat
          /\ range_start[t] <= c /\ range_end[t] <= RangeLimit(t)
          /\ range_end[t] = c + 1 + Remaining(t) + Cardinality(Thieves(t))
      BY <1>2, <1>3, RangeBounds
    <2> QED BY <2>1, <2>2, <1>3
  <1>5. (c + 1) % M = c + 1 /\ c + 1 \in Size_t
    <2>1. linear_range \in Nat /\ linear_range < M
      BY <1>2, SizeAssumption DEF TypeOK, Size_t
    <2> QED BY <2>1, <1>3, <1>4, SizeAssumption DEF Size_t
  <1>6. calls[c] = 0
    <2>1. ~(c < Position(t)) /\ ~(c >= range_end[t])
      BY <1>2, <1>3, <1>4, FieldTypes
    <2> QED BY <2>1, <1>2, <1>3, <1>4 DEF CallsInv
  <1> HIDE DEF c
  <1>7. TypeOK'
    BY <1>1, <1>2, <1>3, <1>5, <1>6 DEF TypeOK, Label
  <1>8. \A s \in Thread : /\ pc'[s] = IF s = t THEN "own" ELSE pc[s]
                          /\ cursor'[s] = IF s = t THEN c + 1 ELSE cursor[s]
    BY <1>1, <1>2, <1>5 DEF TypeOK
  <1>9. ASSUME NEW v \in Thread
        PROVE  /\ Position(v)' = IF v = t THEN c + 1 ELSE Position(v)
               /\ Held(v)' = IF v = t THEN 0 ELSE Held(v)
               /\ Remaining(v)' = Remaining(v)
               /\ Thieves(v)' = Thieves(v) /\ Passed(v)' = Passed(v)
               /\ RangeLength(v)' = RangeLength(v)
               /\ RangeLimit(v)' = RangeLimit(v)
    <2>1. RangeLength(v)' = RangeLength(v) /\ RangeLimit(v)' = RangeLimit(v)
      BY <1>1 DEF RangeLength, RangeLimit
    <2>2. Remaining(v)' = Remaining(v)
      BY <1>1, <2>1 DEF Remaining
    <2>3. Held(v)' = IF v = t THEN 0 ELSE Held(v)
      BY <1>8 DEF Held
    <2>4. Position(v)' = IF v = t THEN c + 1 ELSE Position(v)
      BY <1>1, <1>8 DEF Position
    <2>5. Thieves(v)' = Thieves(v) /\ Passed(v)' = Passed(v)
      BY <1>1, <1>8 DEF Thieves, Passed, Stealing
    <2> QED BY <2>1, <2>2, <2>3, <2>4, <2>5
  <1>10. Frame
    BY <1>1 DEF Frame, Label
  <1>11. VictimInv'
    <2>1. \A s \in Thread : pc'[s] \in Stealing => pc[s] \in Stealing /\ pc'[s] = pc[s]
      BY <1>8 DEF Stealing
    <2> QED BY <1>1, <1>2, <1>10, <2>1, VictimFrame DEF VictimInv, Stealing
  <1>12. TokenInv'
    <2> SUFFICES ASSUME NEW v \in Thread
                 PROVE  /\ range_start[v] <= Position(v)'
                        /\ range_end[v] = Position(v)' + Held(v)' + Remaining(v)
                                            + Cardinality(Thieves(v))
      BY <1>1, <1>2, <1>9 DEF TokenInv
    <2>1. CASE v = t
      <3>1. range_end[t] = c + 1 + Remaining(t) + Cardinality(Thieves(t))
            /\ range_start[t] <= c /\ range_start[t] \in Nat
            /\ Remaining(t) \in Nat /\ Cardinality(Thieves(t)) \in Nat
        BY <1>2, <1>3, RangeBounds, FieldTypes
      <3> QED BY <2>1, <3>1, <1>3, <1>9
    <2>2. CASE v # t
      BY <2>2, <1>2, <1>9 DEF TokenInv
    <2> QED BY <2>1, <2>2
  <1>13. EmptyInv'
    BY <1>1, <1>2, <1>9 DEF EmptyInv
  <1>14. CallsInv'
    <2>1. \A i \in Size_t : calls'[i] = IF i = c THEN 1 ELSE calls[i]
      BY <1>1, <1>2, <1>3, <1>6 DEF TypeOK
    <2>2. \A s \in Thread : pc'[s] = "steal_task" <=> pc[s] = "steal_task"
      BY <1>8, <1>1
    <2>3. ASSUME NEW i \in Size_t, i >= linear_range
          PROVE  calls'[i] = 0
      <3>1. i # c
        BY <2>3, <1>2, <1>3, <1>4, FieldTypes DEF TypeOK
      <3> QED BY <3>1, <2>1, <2>3, <1>2 DEF CallsInv
    <2>4. ASSUME NEW v \in Thread, NEW i \in Size_t, range_start[v] <= i, i < RangeLimit(v)
          PROVE  calls'[i] = IF \/ i < Position(v)'
                                \/ /\ i >= range_end[v]
                                   /\ \A s \in Thread : pc[s] = "steal_task" => index[s] # i
                             THEN 1 ELSE 0
      <3>1. calls[i] = IF \/ i < Position(v)
                          \/ /\ i >= range_end[v]
                             /\ \A s \in Thread : pc[s] = "steal_task" => index[s] # i
                       THEN 1 ELSE 0
        BY <2>4, <1>2 DEF CallsInv
      <3>2. CASE v # t
        <4>1. i # c
          BY <3>2, <2>4, <1>2, <1>3, <1>4, SplitIsDisjoint
        <4> QED BY <4>1, <3>1, <3>2, <2>1, <1>9
      <3>3. CASE v = t /\ i = c
        BY <3>3, <2>1, <1>3, <1>9
      <3>4. CASE v = t /\ i # c
        <4>1. i < c + 1 <=> i < c
          BY <3>4, <1>2, <1>3, FieldTypes
        <4> QED BY <4>1, <3>1, <3>4, <2>1, <1>3, <1>9
      <3> QED BY <3>2, <3>3, <3>4
    <2> QED BY <2>2, <2>3, <2>4, <1>1, <1>9 DEF CallsInv
  <1> QED BY <1>7, <1>10, <1>11, <1>12, <1>13, <1>14, FrameKeepsInv DEF OperationInv

(* On its way through the other threads, a thread that moves on from v has *)
(* found v empty in addition to those before it, and nothing else.         *)
LEMMA NextVictim ==
  ASSUME NEW t \in Thread, NEW v \in Thread, NEW w \in Thread
  PROVE  LET u == ModuloDecrement(v)
         IN /\ u \in Thread
            /\ v = t => u # t
            /\ u # t => (Distance(t, w) < Distance(t, u)
                           <=> Distance(t, w) < Distance(t, v) \/ w = v)
            /\ u = t => Distance(t, w) < Distance(t, v) \/ w = v
  <1>1. CASE v = 0
    BY <1>1, ThreadsAssumption DEF ModuloDecrement, Distance, Thread
  <1>2. CASE v # 0
    BY <1>2, ThreadsAssumption DEF ModuloDecrement, Distance, Thread
  <1> QED BY <1>1, <1>2

(* A thread finds the range of v empty and turns to the next one. *)
GiveUp(t, v) ==
  /\ \/ pc[t] = "own" /\ v = t
     \/ pc[t] = "steal" /\ v = victim[t]
  /\ ~Claims(v)
  /\ range_length' = AfterAttempt(v)
  /\ GotoVictim(t, ModuloDecrement(v))
  /\ UNCHANGED <<range_start, range_end, operation, cursor, index, calls>>

LEMMA GiveUpKeepsInv ==
  ASSUME IInv, NEW t \in Thread, NEW v \in Thread, GiveUp(t, v)
  PROVE  IInv'
  <1> DEFINE u == ModuloDecrement(v)
             label == IF u = t THEN "done" ELSE "steal"
             len == IF fastpath THEN M - Cardinality(Passed(v) \cup {t}) ELSE 0
  <1>1. /\ \/ pc[t] = "own" /\ v = t
           \/ pc[t] = "steal" /\ v = victim[t]
        /\ ~Claims(v) /\ range_length' = AfterAttempt(v)
        /\ victim' = [victim EXCEPT ![t] = u] /\ pc' = [pc EXCEPT ![t] = label]
        /\ UNCHANGED <<range_start, range_end, fastpath, linear_range, tid, next_start,
                       cursor, index, calls>>
    BY DEF GiveUp, GotoVictim, Goto, operation
  <1>2. /\ TypeOK /\ VictimInv /\ TokenInv /\ EmptyInv /\ CallsInv
        /\ fastpath => linear_range < RangeThreshold
    BY <1>1, InOperationFacts DEF OperationInv
  <1>3. t \notin Passed(v)
    <2>1. ~(Distance(t, v) < Distance(t, v))
      BY ThreadsAssumption DEF Distance, Thread
    <2> QED BY <2>1, <1>1 DEF Passed, Stealing
  <1>4. Remaining(v) = 0 /\ range_length' = [range_length EXCEPT ![v] = len]
    BY <1>1, <1>2, <1>3, ClaimFails
  <1>5. len \in Size_t /\ (len <= RangeLength(v) => len = 0)
    <2>1. Passed(v) \cup {t} \in SUBSET Thread
      BY DEF Passed
    <2>2. Cardinality(Passed(v) \cup {t}) \in Nat /\ Cardinality(Passed(v) \cup {t}) <= N
      BY <2>1, CountThreads
    <2>3. Cardinality(Passed(v) \cup {t}) # 0
      BY <2>1, CountThreads, FS_EmptySet
    <2>4. RangeLength(v) \in Nat /\ RangeLength(v) <= linear_range
      BY <1>2, RangeLengthBound
    <2>5. linear_range \in Nat
      BY <1>2, SizeAssumption DEF TypeOK, Size_t
    <2>6. CASE fastpath
      <3>1. linear_range < M - N
        BY <2>6, <1>2 DEF RangeThreshold
      <3>2. len = M - Cardinality(Passed(v) \cup {t})
        BY <2>6
      <3> HIDE DEF len
      <3> QED BY <3>1, <3>2, <2>2, <2>3, <2>4, <2>5, ThreadsAssumption, SizeAssumption DEF Size_t
    <2>7. CASE ~fastpath
      <3>1. len = 0
        BY <2>7
      <3> HIDE DEF len
      <3> QED BY <3>1, ThreadsAssumption, SizeAssumption DEF Size_t
    <2> QED BY <2>6, <2>7
  <1>6. u \in Thread /\ (v = t => u # t)
    BY NextVictim
  <1> HIDE DEF len, u
  <1>7. TypeOK'
    BY <1>1, <1>2, <1>4, <1>5, <1>6 DEF TypeOK, Label
  <1>8. \A s \in Thread : /\ pc'[s] = IF s = t THEN label ELSE pc[s]
                          /\ victim'[s] = IF s = t THEN u ELSE victim[s]
                          /\ range_length'[s] = IF s = v THEN len ELSE range_length[s]
    BY <1>1, <1>2, <1>4 DEF TypeOK
  <1>9. ASSUME NEW w \in Thread
        PROVE  /\ Position(w)' = Position(w) /\ Held(w)' = Held(w)
               /\ Thieves(w)' = Thieves(w)
               /\ RangeLength(w)' = RangeLength(w) /\ RangeLimit(w)' = RangeLimit(w)
               /\ Remaining(w)' = Remaining(w)
               /\ Passed(w)' = IF w = v THEN Passed(w) \cup {t} ELSE Passed(w)
    <2>1. RangeLength(w)' = RangeLength(w) /\ RangeLimit(w)' = RangeLimit(w)
      BY <1>1 DEF RangeLength, RangeLimit
    <2>2. Position(w)' = Position(w) /\ Held(w)' = Held(w)
      BY <1>1, <1>8 DEF Position, Held
    <2>3. Thieves(w)' = Thieves(w)
      BY <1>1, <1>8 DEF Thieves
    <2>4. Remaining(w)' = Remaining(w)
      BY <1>4, <1>5, <1>8, <2>1 DEF Remaining
    <2>5. \A s \in Thread : s # t => (s \in Passed(w)' <=> s \in Passed(w))
      BY <1>8 DEF Passed
    <2>6. t \in Passed(w)' <=> t \in Passed(w) \/ w = v
      <3>1. t \in Passed(w)' <=> (u # t => Distance(t, w) < Distance(t, u))
        BY <1>8 DEF Passed, Stealing
      <3>2. t \in Passed(w) <=> Distance(t, w) < Distance(t, v)
        <4>1. CASE pc[t] = "steal" /\ v = victim[t]
          BY <4>1 DEF Passed, Stealing
        <4>2. CASE pc[t] = "own" /\ v = t
          <5>1. ~(Distance(t, w) < Distance(t, t))
            BY ThreadsAssumption DEF Distance, Thread
          <5> QED BY <4>2, <5>1 DEF Passed, Stealing
        <4> QED BY <4>1, <4>2, <1>1
      <3> QED BY <3>1, <3>2, NextVictim DEF u
    <2>7. Passed(w) \subseteq Thread /\ Passed(w)' \subseteq Thread
      BY DEF Passed
    <2> QED BY <2>1, <2>2, <2>3, <2>4, <2>5, <2>6, <2>7
  <1>10. Frame
    BY <1>1 DEF Frame, Label
  <1>11. VictimInv'
    <2>1. \A s \in Thread : pc'[s] \in Stealing => victim'[s] # s
      BY <1>2, <1>6, <1>8 DEF VictimInv, Stealing
    <2>2. \A s \in Thread : pc'[s] = "steal_task" => pc[s] = "steal_task" /\ victim'[s] = victim[s]
      BY <1>8
    <2> QED BY <2>1, <2>2, <1>1, <1>2, <1>10, VictimFrame
  <1>12. TokenInv'
    BY <1>1, <1>2, <1>9 DEF TokenInv
  <1>13. EmptyInv'
    <2> SUFFICES ASSUME NEW w \in Thread
                 PROVE  IF Passed(w)' = {} THEN range_length'[w] <= RangeLength(w)
                        ELSE range_length'[w] = IF fastpath THEN M - Cardinality(Passed(w)') ELSE 0
      BY <1>1, <1>9 DEF EmptyInv
    <2>1. CASE w = v
      BY <2>1, <1>8, <1>9 DEF len
    <2>2. CASE w # v
      BY <2>2, <1>2, <1>8, <1>9 DEF EmptyInv
    <2> QED BY <2>1, <2>2
  <1>14. CallsInv'
    <2>1. \A s \in Thread : pc'[s] = "steal_task" <=> pc[s] = "steal_task"
      BY <1>1, <1>8
    <2> QED BY <2>1, <1>1, <1>2, <1>9, <1>10, CallsFrame
  <1> QED BY <1>7, <1>10, <1>11, <1>12, <1>13, <1>14, FrameKeepsInv DEF OperationInv

LEMMA StealClaimKeepsInv ==
  ASSUME IInv, NEW t \in Thread, StealClaim(t)
  PROVE  IInv'
  <1>1. PICK v \in Thread : v = victim[t]
    BY DEF IInv, TypeOK
  <1>2. /\ pc[t] = "steal" /\ pc' = [pc EXCEPT ![t] = "steal_index"]
        /\ Claims(v) /\ range_length' = AfterAttempt(v)
        /\ UNCHANGED <<range_start, range_end, fastpath, linear_range, tid, next_start,
                       cursor, victim, index, calls>>
    BY <1>1 DEF StealClaim, Goto, operation, locals
  <1>3. /\ TypeOK /\ VictimInv /\ TokenInv /\ EmptyInv /\ CallsInv
        /\ fastpath => linear_range < RangeThreshold
    BY <1>2, InOperationFacts DEF OperationInv
  <1>4. /\ Passed(v) = {}
        /\ range_length[v] > 0 /\ range_length[v] <= RangeLength(v)
        /\ range_length' = [range_length EXCEPT ![v] = range_length[v] - 1]
    <2>1. ~(Distance(t, v) < Distance(t, v))
      BY ThreadsAssumption DEF Distance, Thread
    <2>2. t \notin Passed(v)
      BY <1>1, <1>2, <2>1 DEF Passed, Stealing
    <2> QED BY <1>2, <1>3, <2>2, ClaimSucceeds
  <1>5. /\ range_length[v] \in Nat /\ RangeLength(v) \in Nat
        /\ range_length[v] - 1 \in Size_t
        /\ \A w \in Thread : range_length'[w] = IF w = v THEN range_length[v] - 1 ELSE range_length[w]
    <2>1. range_length[v] \in Nat /\ range_length[v] < M
      BY <1>3, SizeAssumption DEF TypeOK, Size_t
    <2>2. RangeLength(v) \in Nat
      BY <1>3, FieldTypes
    <2>3. range_length[v] - 1 \in Size_t
      BY <1>4, <2>1, SizeAssumption DEF Size_t
    <2>4. \A w \in Thread : range_length'[w] = IF w = v THEN range_length[v] - 1 ELSE range_length[w]
      BY <1>3, <1>4 DEF TypeOK
    <2> QED BY <2>1, <2>2, <2>3, <2>4
  <1>6. TypeOK'
    BY <1>2, <1>3, <1>4, <1>5 DEF TypeOK, Label
  <1>7. \A s \in Thread : pc'[s] = IF s = t THEN "steal_index" ELSE pc[s]
    BY <1>2, <1>3 DEF TypeOK
  <1>8. ASSUME NEW w \in Thread
        PROVE  /\ Position(w)' = Position(w) /\ Held(w)' = Held(w)
               /\ Remaining(w)' = IF w = v THEN Remaining(w) - 1 ELSE Remaining(w)
               /\ Thieves(w)' = IF w = v THEN Thieves(w) \cup {t} ELSE Thieves(w)
               /\ Passed(w)' = Passed(w)
               /\ RangeLength(w)' = RangeLength(w)
               /\ RangeLimit(w)' = RangeLimit(w)
    <2>1. RangeLength(w)' = RangeLength(w) /\ RangeLimit(w)' = RangeLimit(w)
      BY <1>2 DEF RangeLength, RangeLimit
    <2>2. Remaining(w)' = IF w = v THEN Remaining(w) - 1 ELSE Remaining(w)
      BY <1>4, <1>5, <2>1 DEF Remaining
    <2>3. Held(w)' = Held(w) /\ Position(w)' = Position(w)
      BY <1>2, <1>7 DEF Held, Position
    <2>4. Thieves(w)' = IF w = v THEN Thieves(w) \cup {t} ELSE Thieves(w)
      BY <1>1, <1>2, <1>7 DEF Thieves
    <2>5. Passed(w)' = Passed(w)
      BY <1>2, <1>7 DEF Passed, Stealing
    <2> QED BY <2>1, <2>2, <2>3, <2>4, <2>5
  <1>9. Frame
    BY <1>2 DEF Frame, Label
  <1>10. VictimInv'
    <2>1. \A s \in Thread : pc'[s] \in Stealing => pc[s] \in Stealing
      BY <1>2, <1>7 DEF Stealing
    <2>2. \A s \in Thread : pc'[s] \in Stealing => victim'[s] # s
      BY <1>2, <1>3, <2>1 DEF VictimInv
    <2>3. \A s \in Thread : pc'[s] = "steal_task" => pc[s] = "steal_task" /\ victim'[s] = victim[s]
      BY <1>2, <1>7
    <2> QED BY <1>2, <1>3, <1>9, <2>2, <2>3, VictimFrame
  <1>11. TokenInv'
    <2> SUFFICES ASSUME NEW w \in Thread
                 PROVE  range_end[w] = Position(w) + Held(w) + Remaining(w)' + Cardinality(Thieves(w)')
      BY <1>2, <1>3, <1>8 DEF TokenInv
    <2>1. range_end[w] = Position(w) + Held(w) + Remaining(w) + Cardinality(Thieves(w))
          /\ Position(w) \in Nat /\ Held(w) \in 0 .. 1 /\ Remaining(w) \in Nat
          /\ Cardinality(Thieves(w)) \in Nat
      BY <1>3, RangeBounds
    <2>2. CASE w = v
      <3>1. t \notin Thieves(w) /\ Thieves(w) \in SUBSET Thread
        BY <1>2 DEF Thieves
      <3>2. Cardinality(Thieves(w) \cup {t}) = Cardinality(Thieves(w)) + 1
        BY <3>1, CountThreads, FS_AddElement
      <3>3. Cardinality(Thieves(w)') = Cardinality(Thieves(w)) + 1
        BY <2>2, <3>2, <1>8
      <3>4. Remaining(w)' = Remaining(w) - 1
        BY <2>2, <1>8
      <3> QED BY <2>1, <3>3, <3>4
    <2>3. CASE w # v
      BY <2>1, <2>3, <1>8
    <2> QED BY <2>2, <2>3
  <1>12. EmptyInv'
    BY <1>2, <1>3, <1>4, <1>5, <1>8 DEF EmptyInv
  <1>13. CallsInv'
    <2>1. \A s \in Thread : pc'[s] = "steal_task" <=> pc[s] = "steal_task"
      BY <1>2, <1>7
    <2> QED BY <2>1, <1>2, <1>3, <1>8, <1>9, CallsFrame
  <1> QED BY <1>6, <1>9, <1>10, <1>11, <1>12, <1>13, FrameKeepsInv DEF OperationInv

LEMMA StealTaskKeepsInv ==
  ASSUME IInv, NEW t \in Thread, StealTask(t)
  PROVE  IInv'
  <1> DEFINE c == index[t]
             v == victim[t]
  <1>1. /\ pc[t] = "steal_task" /\ pc' = [pc EXCEPT ![t] = "steal"]
        /\ calls' = [calls EXCEPT ![c] = calls[c] + 1]
        /\ UNCHANGED <<range_start, range_end, range_length, fastpath, linear_range, tid,
                       next_start, cursor, victim, index>>
    BY DEF StealTask, Call, Goto, ranges, operation, locals
  <1>2. /\ TypeOK /\ VictimInv /\ TokenInv /\ EmptyInv /\ CallsInv /\ SplitInv /\ tid = N
        /\ fastpath => linear_range < RangeThreshold
    BY <1>1, InOperationFacts DEF OperationInv
  <1>3. c \in Size_t /\ c \in Nat /\ v \in Thread
    BY <1>2, FieldTypes DEF TypeOK
  <1>4. /\ range_start[v] <= c /\ Position(v) <= c /\ range_end[v] <= c
        /\ c < RangeLimit(v) /\ c < linear_range
    <2>1. range_end[v] <= c /\ c < RangeLimit(v)
      BY <1>1, <1>2 DEF VictimInv
    <2>2. /\ range_start[v] <= Position(v) /\ Position(v) <= range_end[v] /\ Position(v) \in Nat
      BY <1>2, <1>3, RangeBounds
    <2>3. RangeLimit(v) <= linear_range
      BY <1>2, <1>3, SplitCovers
    <2>4. range_start[v] \in Nat /\ range_end[v] \in Nat /\ RangeLimit(v) \in Nat
      BY <1>2, <1>3, FieldTypes
    <2>5. linear_range \in Nat
      BY <1>2, SizeAssumption DEF TypeOK, Size_t
    <2> QED BY <2>1, <2>2, <2>3, <2>4, <2>5, <1>3
  <1>5. calls[c] = 0
    <2>1. Position(v) \in Nat
      BY <1>2, <1>3, RangeBounds
    <2>2. ~(c < Position(v))
      BY <2>1, <1>3, <1>4
    <2> QED BY <2>2, <1>1, <1>2, <1>3, <1>4 DEF CallsInv
  <1> HIDE DEF c, v
  <1>6. TypeOK'
    BY <1>1, <1>2, <1>3, <1>5 DEF TypeOK, Label
  <1>7. \A s \in Thread : pc'[s] = IF s = t THEN "steal" ELSE pc[s]
    BY <1>1, <1>2 DEF TypeOK
  <1>8. ASSUME NEW w \in Thread
        PROVE  /\ Position(w)' = Position(w) /\ Held(w)' = Held(w)
               /\ Remaining(w)' = Remaining(w)
               /\ Thieves(w)' = Thieves(w) /\ Passed(w)' = Passed(w)
               /\ RangeLength(w)' = RangeLength(w)
               /\ RangeLimit(w)' = RangeLimit(w)
    <2>1. RangeLength(w)' = RangeLength(w) /\ RangeLimit(w)' = RangeLimit(w)
      BY <1>1 DEF RangeLength, RangeLimit
    <2>2. Remaining(w)' = Remaining(w)
      BY <1>1, <2>1 DEF Remaining
    <2>3. Held(w)' = Held(w) /\ Position(w)' = Position(w)
      BY <1>1, <1>7 DEF Held, Position
    <2>4. Thieves(w)' = Thieves(w) /\ Passed(w)' = Passed(w)
      BY <1>1, <1>7 DEF Thieves, Passed, Stealing
    <2> QED BY <2>1, <2>2, <2>3, <2>4
  <1>9. Frame
    BY <1>1 DEF Frame, Label
  <1>10. VictimInv'
    <2>1. \A s \in Thread : pc'[s] \in Stealing => pc[s] \in Stealing
      BY <1>1, <1>7 DEF Stealing
    <2>2. \A s \in Thread : pc'[s] \in Stealing => victim'[s] # s
      BY <1>1, <1>2, <2>1 DEF VictimInv
    <2>3. \A s \in Thread : pc'[s] = "steal_task" => pc[s] = "steal_task" /\ victim'[s] = victim[s]
      BY <1>1, <1>7
    <2> QED BY <1>1, <1>2, <1>9, <2>2, <2>3, VictimFrame
  <1>11. TokenInv'
    BY <1>1, <1>2, <1>8 DEF TokenInv
  <1>12. EmptyInv'
    BY <1>1, <1>2, <1>8 DEF EmptyInv
  <1>13. CallsInv'
    <2>1. \A i \in Size_t : calls'[i] = IF i = c THEN 1 ELSE calls[i]
      BY <1>1, <1>2, <1>3, <1>5 DEF TypeOK
    <2>2. \A s \in Thread : pc'[s] = "steal_task" <=> s # t /\ pc[s] = "steal_task"
      BY <1>7
    <2>3. \A s \in Thread : s # t /\ pc[s] = "steal_task" => index[s] # c
      BY <1>1, <1>2 DEF VictimInv, c
    <2>4. ASSUME NEW i \in Size_t, i >= linear_range
          PROVE  calls'[i] = 0
      <3>1. linear_range \in Nat /\ i \in Nat
        BY <1>2, SizeAssumption DEF TypeOK, Size_t
      <3>2. i # c
        BY <3>1, <2>4, <1>3, <1>4
      <3> QED BY <3>2, <2>1, <2>4, <1>2 DEF CallsInv
    <2>5. ASSUME NEW w \in Thread, NEW i \in Size_t, range_start[w] <= i, i < RangeLimit(w)
          PROVE  calls'[i] = IF \/ i < Position(w)
                                \/ /\ i >= range_end[w]
                                   /\ \A s \in Thread : pc'[s] = "steal_task" => index[s] # i
                             THEN 1 ELSE 0
      <3>1. calls[i] = IF \/ i < Position(w)
                          \/ /\ i >= range_end[w]
                             /\ \A s \in Thread : pc[s] = "steal_task" => index[s] # i
                       THEN 1 ELSE 0
        BY <2>5, <1>2 DEF CallsInv
      <3>2. CASE i = c
        <4>1. w = v
          BY <3>2, <2>5, <1>2, <1>3, <1>4, SplitIsDisjoint
        <4>2. i >= range_end[w]
          BY <3>2, <4>1, <1>3, <1>4
        <4>3. \A s \in Thread : pc'[s] = "steal_task" => index[s] # i
          BY <3>2, <2>2, <2>3
        <4> QED BY <4>2, <4>3, <3>2, <2>1
      <3>3. CASE i # c
        <4>1. \A s \in Thread : (pc'[s] = "steal_task" => index[s] # i)
                             <=> (pc[s] = "steal_task" => index[s] # i)
          BY <3>3, <2>2 DEF c
        <4> QED BY <4>1, <3>1, <3>3, <2>1
      <3> QED BY <3>2, <3>3
    <2> QED BY <2>4, <2>5, <1>1, <1>8 DEF CallsInv
  <1> QED BY <1>6, <1>9, <1>10, <1>11, <1>12, <1>13, FrameKeepsInv DEF OperationInv

LEMMA StealIndexKeepsInv ==
  ASSUME IInv, NEW t \in Thread, StealIndex(t)
  PROVE  IInv'
  <1>1. PICK v \in Thread : v = victim[t]
    BY DEF IInv, TypeOK
  <1> DEFINE last == range_end[v] - 1
  <1>2. /\ pc[t] = "steal_index" /\ pc' = [pc EXCEPT ![t] = "steal_task"]
        /\ range_end' = [range_end EXCEPT ![v] = Decremented(range_end[v])]
        /\ index' = [index EXCEPT ![t] = Decremented(range_end[v])]
        /\ UNCHANGED <<range_start, range_length, fastpath, linear_range, tid,
                       next_start, cursor, victim, calls>>
    BY <1>1 DEF StealIndex, Goto, operation
  <1>3. /\ TypeOK /\ VictimInv /\ TokenInv /\ EmptyInv /\ CallsInv /\ SplitInv /\ tid = N
        /\ fastpath => linear_range < RangeThreshold
    BY <1>2, InOperationFacts DEF OperationInv
  <1>4. t \in Thieves(v) /\ Thieves(v) \in SUBSET Thread /\ IsFiniteSet(Thieves(v))
    BY <1>1, <1>2, CountThreads DEF Thieves
  <1>5. /\ Cardinality(Thieves(v) \ {t}) = Cardinality(Thieves(v)) - 1
        /\ Cardinality(Thieves(v)) >= 1
    <2>1. Cardinality(Thieves(v) \ {t}) = Cardinality(Thieves(v)) - 1
      BY <1>4, FS_RemoveElement
    <2>2. Thieves(v) \ {t} \in SUBSET Thread
      BY <1>4
    <2>3. Cardinality(Thieves(v) \ {t}) \in Nat /\ Cardinality(Thieves(v)) \in Nat
      BY <1>4, <2>2, CountThreads
    <2> QED BY <2>1, <2>3
  <1>6. /\ range_start[v] <= last /\ Position(v) <= last /\ last < range_end[v]
        /\ last < RangeLimit(v) /\ last \in Nat /\ last \in Size_t
        /\ Decremented(range_end[v]) = last
    <2>1. /\ Remaining(v) \in Nat /\ Held(v) \in 0 .. 1 /\ Position(v) \in Nat
          /\ Cardinality(Thieves(v)) \in Nat
          /\ range_start[v] <= Position(v) /\ range_end[v] <= RangeLimit(v)
          /\ range_end[v] = Position(v) + Held(v) + Remaining(v) + Cardinality(Thieves(v))
      BY <1>3, RangeBounds
    <2>2. range_start[v] \in Nat /\ range_end[v] \in Nat /\ RangeLimit(v) \in Nat
      BY <1>3, FieldTypes
    <2>3. range_end[v] # 0
      BY <2>1, <1>5
    <2>4. Decremented(range_end[v]) = last /\ last \in Size_t
      <3>1. range_end[v] \in Size_t
        BY <1>3 DEF TypeOK
      <3> QED BY <3>1, <2>3, DecrementWraps
    <2> QED BY <2>1, <2>2, <2>3, <2>4, <1>5
  <1> HIDE DEF last
  <1>7. TypeOK'
    BY <1>2, <1>3, <1>6 DEF TypeOK, Label
  <1>8. \A s \in Thread : /\ pc'[s] = IF s = t THEN "steal_task" ELSE pc[s]
                          /\ range_end'[s] = IF s = v THEN last ELSE range_end[s]
                          /\ index'[s] = IF s = t THEN last ELSE index[s]
    BY <1>2, <1>3, <1>6 DEF TypeOK
  <1>9. ASSUME NEW w \in Thread
        PROVE  /\ Position(w)' = Position(w) /\ Held(w)' = Held(w)
               /\ Remaining(w)' = Remaining(w)
               /\ Thieves(w)' = IF w = v THEN Thieves(w) \ {t} ELSE Thieves(w)
               /\ Passed(w)' = Passed(w)
               /\ RangeLength(w)' = RangeLength(w)
               /\ RangeLimit(w)' = RangeLimit(w)
    <2>1. RangeLength(w)' = RangeLength(w) /\ RangeLimit(w)' = RangeLimit(w)
      BY <1>2 DEF RangeLength, RangeLimit
    <2>2. Remaining(w)' = Remaining(w)
      BY <1>2, <2>1 DEF Remaining
    <2>3. Held(w)' = Held(w) /\ Position(w)' = Position(w)
      BY <1>2, <1>8 DEF Held, Position
    <2>4. Thieves(w)' = IF w = v THEN Thieves(w) \ {t} ELSE Thieves(w)
      BY <1>1, <1>2, <1>8 DEF Thieves
    <2>5. Passed(w)' = Passed(w)
      BY <1>2, <1>8 DEF Passed, Stealing
    <2> QED BY <2>1, <2>2, <2>3, <2>4, <2>5
  <1>10. Frame
    BY <1>2 DEF Frame, Label
  (* An index another thief holds is not below the end of its range. *)
  <1>11. ASSUME NEW s \in Thread, s # t, pc[s] = "steal_task"
         PROVE  /\ range_end'[victim[s]] <= index[s]
                /\ index[s] < RangeLimit(victim[s])
                /\ index[s] # last
    <2>1. PICK w \in Thread : w = victim[s]
      BY <1>3 DEF TypeOK
    <2>2. /\ range_end[w] <= index[s] /\ index[s] < RangeLimit(w)
          /\ index[s] \in Nat /\ index[s] \in Size_t /\ range_end[w] \in Nat
          /\ range_end[v] \in Nat
      BY <1>3, <1>11, <2>1, FieldTypes DEF VictimInv, TypeOK
    <2>3. CASE w = v
      BY <2>1, <2>2, <2>3, <1>6, <1>8
    <2>4. CASE w # v
      <3>1. range_start[w] <= index[s]
        <4>1. range_start[w] <= Position(w) /\ Position(w) <= range_end[w] /\ Position(w) \in Nat
              /\ range_start[w] \in Nat
          BY <1>3, RangeBounds, FieldTypes
        <4> QED BY <4>1, <2>2
      <3>2. index[s] # last
        BY <3>1, <2>2, <2>4, <1>3, <1>6, SplitIsDisjoint
      <3> QED BY <3>2, <2>1, <2>2, <2>4, <1>8
    <2> QED BY <2>3, <2>4
  <1>12. VictimInv'
    <2> SUFFICES ASSUME NEW s \in Thread
                 PROVE  /\ pc'[s] \in Stealing => victim[s] # s
                        /\ pc'[s] = "steal_task" =>
                             /\ range_end'[victim[s]] <= index'[s]
                             /\ index'[s] < RangeLimit(victim[s])
                             /\ \A x \in Thread :
                                  x # s /\ pc'[x] = "steal_task" => index'[x] # index'[s]
      <3>1. \A w \in Thread : RangeLimit(w)' = RangeLimit(w) /\ victim[w] \in Thread
        BY <1>3, <1>9 DEF TypeOK
      <3> QED BY <3>1, <1>2 DEF VictimInv, RangeLimit, RangeLength
    <2>1. pc'[s] \in Stealing => victim[s] # s
      BY <1>2, <1>3, <1>8 DEF VictimInv, Stealing
    <2>2. CASE s = t
      <3>1. range_end'[victim[t]] = last /\ index'[t] = last
        BY <1>1, <1>8
      <3>2. \A x \in Thread : x # t /\ pc'[x] = "steal_task" => index'[x] # last
        BY <1>8, <1>11
      <3>3. range_end'[victim[t]] <= index'[t]
        BY <3>1, <1>6
      <3> QED BY <2>1, <2>2, <3>1, <3>2, <3>3, <1>1, <1>6
    <2>3. CASE s # t
      <3> SUFFICES ASSUME pc[s] = "steal_task"
                   PROVE  /\ range_end'[victim[s]] <= index[s]
                          /\ index[s] < RangeLimit(victim[s])
                          /\ \A x \in Thread :
                               x # s /\ pc'[x] = "steal_task" => index'[x] # index[s]
        BY <2>1, <2>3, <1>8
      <3>1. \A x \in Thread : x # s /\ x # t /\ pc'[x] = "steal_task" => index'[x] # index[s]
        BY <1>3, <1>8 DEF VictimInv
      <3>2. index'[t] # index[s]
        BY <2>3, <1>8, <1>11
      <3> QED BY <2>3, <3>1, <3>2, <1>11
    <2> QED BY <2>2, <2>3
  <1>13. TokenInv'
    <2> SUFFICES ASSUME NEW w \in Thread
                 PROVE  /\ range_start[w] <= Position(w)
                        /\ range_end'[w] <= RangeLimit(w)
                        /\ range_end'[w] = Position(w) + Held(w) + Remaining(w)
                                             + Cardinality(Thieves(w)')
      BY <1>2, <1>9 DEF TokenInv
    <2>1. /\ range_start[w] <= Position(w) /\ range_end[w] <= RangeLimit(w)
          /\ range_end[w] = Position(w) + Held(w) + Remaining(w) + Cardinality(Thieves(w))
          /\ Position(w) \in Nat /\ Held(w) \in 0 .. 1 /\ Remaining(w) \in Nat
          /\ Cardinality(Thieves(w)) \in Nat
      BY <1>3, RangeBounds
    <2>2. CASE w = v
      <3>1. Cardinality(Thieves(w)') = Cardinality(Thieves(w)) - 1
        BY <2>2, <1>5, <1>9
      <3>2. range_end'[w] = range_end[w] - 1
        BY <2>2, <1>8 DEF last
      <3>3. range_end'[w] < RangeLimit(w)
        BY <2>2, <1>6, <1>8
      <3>4. RangeLimit(w) \in Nat /\ range_end[w] \in Nat
        BY <1>3, FieldTypes
      <3> QED BY <2>1, <3>1, <3>2, <3>3, <3>4
    <2>3. CASE w # v
      BY <2>1, <2>3, <1>8, <1>9
    <2> QED BY <2>2, <2>3
  <1>14. EmptyInv'
    BY <1>2, <1>3, <1>9 DEF EmptyInv
  <1>15. CallsInv'
    <2>1. ASSUME NEW w \in Thread, NEW i \in Size_t, range_start[w] <= i, i < RangeLimit(w)
          PROVE  calls[i] = IF \/ i < Position(w)
                               \/ /\ i >= range_end'[w]
                                  /\ \A s \in Thread : pc'[s] = "steal_task" => index'[s] # i
                            THEN 1 ELSE 0
      <3>1. calls[i] = IF \/ i < Position(w)
                          \/ /\ i >= range_end[w]
                             /\ \A s \in Thread : pc[s] = "steal_task" => index[s] # i
                       THEN 1 ELSE 0
        BY <2>1, <1>3 DEF CallsInv
      <3>2. CASE i = last
        <4>1. w = v
          BY <3>2, <2>1, <1>3, <1>6, SplitIsDisjoint
        <4>2. pc'[t] = "steal_task" /\ index'[t] = i
          BY <3>2, <1>8
        <4>3. ~(i < Position(w)) /\ ~(i >= range_end[w])
          <5>1. Position(w) \in Nat /\ range_end[w] \in Nat
            BY <1>3, RangeBounds, FieldTypes
          <5> QED BY <5>1, <3>2, <4>1, <1>6
        <4> QED BY <4>2, <4>3, <3>1
      <3>3. CASE i # last
        <4>1. (\A s \in Thread : pc'[s] = "steal_task" => index'[s] # i)
                <=> (\A s \in Thread : pc[s] = "steal_task" => index[s] # i)
          BY <3>3, <1>2, <1>8
        <4>2. i >= range_end'[w] <=> i >= range_end[w]
          <5>1. i \in Nat /\ range_end[w] \in Nat
            BY <1>3, FieldTypes, SizeAssumption DEF Size_t
          <5> QED BY <5>1, <3>3, <1>8 DEF last
        <4> QED BY <4>1, <4>2, <3>1
      <3> QED BY <3>2, <3>3
    <2> QED BY <2>1, <1>2, <1>3, <1>9 DEF CallsInv
  <1> QED BY <1>7, <1>10, <1>12, <1>13, <1>14, <1>15, FrameKeepsInv DEF OperationInv

-----------------------------------------------------------------------------
(* The theorems. *)

LEMMA InitEstablishesInv == Init => IInv
  <1> SUFFICES ASSUME Init PROVE IInv
    OBVIOUS
  <1>1. 0 \in Size_t /\ 0 \in Thread /\ N \in 0 .. N
    BY ThreadsAssumption, SizeAssumption DEF Size_t, Thread
  <1>2. TypeOK
    BY <1>1 DEF Init, TypeOK, Label
  <1>3. PhaseInv /\ ~InOperation /\ pc[0] = "idle"
    BY <1>1 DEF Init, PhaseInv, InOperation
  <1> QED BY <1>2, <1>3 DEF IInv, Init

LEMMA NextKeepsInv == IInv /\ [Next]_vars => IInv'
  <1> SUFFICES ASSUME IInv, [Next]_vars PROVE IInv'
    OBVIOUS
  <1>1. ASSUME NEW range \in Size_t, Parallelize(range) PROVE IInv'
    BY <1>1, ParallelizeKeepsInv
  <1>2. CASE SpreadWork
    BY <1>2, SpreadWorkKeepsInv
  <1>3. CASE Publish
    BY <1>3, PublishKeepsInv
  <1>4. ASSUME NEW t \in Thread, ThreadStep(t) PROVE IInv'
    <2>1. CASE Enter(t)
      BY <2>1, EnterKeepsInv
    <2>2. CASE OwnClaim(t)
      BY <2>2, OwnClaimKeepsInv
    <2>3. CASE OwnTask(t)
      BY <2>3, OwnTaskKeepsInv
    <2>4. CASE OwnEmpty(t)
      <3>1. GiveUp(t, t)
        BY <2>4 DEF OwnEmpty, GiveUp
      <3> QED BY <3>1, GiveUpKeepsInv
    <2>5. CASE StealClaim(t)
      BY <2>5, StealClaimKeepsInv
    <2>6. CASE StealIndex(t)
      BY <2>6, StealIndexKeepsInv
    <2>7. CASE StealTask(t)
      BY <2>7, StealTaskKeepsInv
    <2>8. CASE StealEmpty(t)
      <3>1. PICK v \in Thread : v = victim[t]
        BY DEF IInv, TypeOK
      <3>2. GiveUp(t, v)
        BY <2>8, <3>1 DEF StealEmpty, GiveUp
      <3> QED BY <3>2, GiveUpKeepsInv
    <2> QED BY <1>4, <2>1, <2>2, <2>3, <2>4, <2>5, <2>6, <2>7, <2>8 DEF ThreadStep
  <1>5. CASE Return
    BY <1>5, ReturnKeepsInv
  <1>6. CASE UNCHANGED vars
    <2>1. UNCHANGED <<range_start, range_end, range_length, fastpath, linear_range, tid,
                      next_start, pc, cursor, victim, index, calls>>
      BY <1>6 DEF vars, ranges, operation, locals
    <2>2. ASSUME NEW v \in Thread
          PROVE  /\ Position(v)' = Position(v) /\ Held(v)' = Held(v)
                 /\ Remaining(v)' = Remaining(v)
                 /\ Thieves(v)' = Thieves(v) /\ Passed(v)' = Passed(v)
                 /\ RangeLength(v)' = RangeLength(v) /\ RangeLimit(v)' = RangeLimit(v)
      BY <2>1 DEF Position, Held, Remaining, Thieves, Passed, RangeLength, RangeLimit
    <2>3. TypeOK' <=> TypeOK
      BY <2>1 DEF TypeOK
    <2>4. (PhaseInv' <=> PhaseInv) /\ (InOperation' <=> InOperation)
      BY <2>1 DEF PhaseInv, InOperation
    <2>5. SplitInv' <=> SplitInv
      BY <2>1, <2>2 DEF SplitInv
    <2>6. UntouchedInv' <=> UntouchedInv
      BY <2>1, <2>2 DEF UntouchedInv
    <2>7. VictimInv' <=> VictimInv
      BY <2>1 DEF VictimInv, RangeLimit, RangeLength
    <2>8. (TokenInv' <=> TokenInv) /\ (EmptyInv' <=> EmptyInv)
      BY <2>1, <2>2 DEF TokenInv, EmptyInv
    <2>9. CallsInv' <=> CallsInv
      BY <2>1, <2>2 DEF CallsInv
    <2> QED BY <2>1, <2>3, <2>4, <2>5, <2>6, <2>7, <2>8, <2>9
            DEF IInv, OperationInv, RangeThreshold
  <1> QED BY <1>1, <1>2, <1>3, <1>4, <1>5, <1>6 DEF Next

(* The inductive invariant holds in every reachable state. *)
THEOREM InductiveInvariant == Spec => []IInv
  <1> QED BY InitEstablishesInv, NextKeepsInv, PTL DEF Spec

(* Every field of every thread keeps a value its C type can hold: the index *)
(* arithmetic of the thread functions never leaves size_t unnoticed.        *)
THEOREM TypeCorrect == Spec => []TypeOK
  <1>1. IInv => TypeOK
    BY DEF IInv
  <1> QED BY <1>1, InductiveInvariant, PTL

LEMMA InvImpliesAtMostOnce == IInv => EachItemAtMostOnce
  <1> SUFFICES ASSUME IInv, NEW i \in Size_t
               PROVE  calls[i] <= IF i < linear_range THEN 1 ELSE 0
    BY DEF EachItemAtMostOnce
  <1>1. TypeOK /\ linear_range \in Size_t /\ Size_t \subseteq Int
    BY FieldTypes DEF IInv, TypeOK
  <1>2. CASE ~InOperation
    BY <1>2 DEF IInv
  <1>3. CASE InOperation
    <2>1. SplitInv /\ tid = N /\ CallsInv
      <3>1. 0 \in Thread
        BY ThreadsAssumption DEF Thread
      <3> QED BY <1>3, <3>1 DEF IInv, OperationInv, PhaseInv, InOperation
    <2>2. CASE i < linear_range
      <3>1. PICK v \in Thread : range_start[v] <= i /\ i < RangeLimit(v)
        BY <1>1, <2>1, <2>2, SplitCovers
      <3> QED BY <2>1, <2>2, <3>1 DEF CallsInv
    <2>3. CASE ~(i < linear_range)
      <3>1. i >= linear_range
        BY <1>1, <2>3
      <3> QED BY <2>1, <2>3, <3>1 DEF CallsInv
    <2> QED BY <2>2, <2>3
  <1> QED BY <1>2, <1>3

(* No item is processed twice and none outside of the range, for every     *)
(* interleaving of owners and thieves (portable-api.c, fastpath.c).        *)
THEOREM AtMostOnce == Spec => []EachItemAtMostOnce
  <1> QED BY InvImpliesAtMostOnce, InductiveInvariant, PTL

(* When every thread has returned, every item has been processed. *)
THEOREM NothingIsLost == Spec => []AllItemsProcessed
  <1>1. IInv => AllItemsProcessed
    BY DoneMeansProcessed DEF AllItemsProcessed
  <1> QED BY <1>1, InductiveInvariant, PTL

(* A thread leaves the thread function only when no range has an unclaimed *)
(* item.                                                                   *)
THEOREM NoWorkLeftBehind == Spec => []LeavesNoWorkBehind
  <1>1. IInv => LeavesNoWorkBehind
    <2> SUFFICES ASSUME IInv, InOperation, NEW t \in Thread, pc[t] = "done", NEW v \in Thread
                 PROVE  Remaining(v) = 0
      BY DEF LeavesNoWorkBehind
    <2>1. t \in Passed(v)
      BY DEF Passed
    <2> QED BY <2>1, PassedMeansEmpty
  <1> QED BY <1>1, InductiveInvariant, PTL

(* The decrements of an empty range on the fast path never reach the values *)
(* that count as items.                                                     *)
THEOREM WrapIsBounded == Spec => []WrapStaysAboveThreshold
  <1>1. IInv => WrapStaysAboveThreshold
    <2> SUFFICES ASSUME IInv, InOperation, NEW v \in Thread
                 PROVE  \/ range_length[v] <= RangeLength(v)
                        \/ fastpath /\ range_length[v] >= RangeThreshold
      BY DEF WrapStaysAboveThreshold
    <2>1. CASE Passed(v) = {}
      BY <2>1 DEF IInv, OperationInv, EmptyInv
    <2>2. CASE Passed(v) # {}
      BY <2>2, PassedMeansEmpty
    <2> QED BY <2>1, <2>2
  <1> QED BY <1>1, InductiveInvariant, PTL

(* Outside of the fast path range_length keeps the bound of its comment. *)
THEOREM PortableBoundHolds == Spec => []PortableLengthWithinBounds
  <1>1. IInv => PortableLengthWithinBounds
    <2> SUFFICES ASSUME IInv, InOperation, ~fastpath, NEW v \in Thread
                 PROVE  range_length[v] <= (range_end[v] - range_start[v]) % M
      BY DEF PortableLengthWithinBounds, LengthWithinBounds
    <2>1. TypeOK /\ OperationInv
      BY DEF IInv
    <2>2. /\ range_start[v] \in Nat /\ range_end[v] \in Nat /\ range_length[v] \in Nat
          /\ range_end[v] < M /\ M \in Nat
      BY <2>1, SizeAssumption DEF TypeOK, Size_t
    <2>3. (range_end[v] - range_start[v]) % M \in Nat
      BY <2>2, SizeAssumption
    <2>4. CASE Passed(v) # {}
      <3>1. range_length[v] = 0
        BY <2>1, <2>4 DEF OperationInv, EmptyInv
      <3> QED BY <2>3, <3>1
    <2>5. CASE Passed(v) = {}
      <3>1. Remaining(v) = range_length[v]
        BY <2>1, <2>5 DEF OperationInv, EmptyInv, Remaining
      <3>2. Cardinality(Thieves(v)) \in Nat
        BY CountThreads DEF Thieves
      <3>3. Held(v) \in Nat /\ Position(v) \in Nat
        BY <2>1 DEF Held, Position, TypeOK, Size_t
      <3>4. range_start[v] + range_length[v] <= range_end[v]
        BY <2>1, <2>2, <3>1, <3>2, <3>3 DEF OperationInv, TokenInv
      <3>5. range_end[v] - range_start[v] \in 0 .. M - 1
        BY <2>2, <3>4
      <3>6. (range_end[v] - range_start[v]) % M = range_end[v] - range_start[v]
        BY <2>2, <3>5, SmallRemainder
      <3> QED BY <2>2, <3>4, <3>6
    <2> QED BY <2>4, <2>5
  <1> QED BY <1>1, InductiveInvariant, PTL

-----------------------------------------------------------------------------
(* Refinement: the operation is a parallel for loop.  Its abstract state is *)
(* Loop's running and todo.                                                 *)
Running == \E t \in Thread : pc[t] # "idle"
Todo == {i \in 0 .. linear_range - 1 : calls[i] = 0}

LEMMA InvImpliesAtMostOnceNext == IInv' => EachItemAtMostOnce'
  <1> QED BY InvImpliesAtMostOnce, PTL

(* A call of the task with an item that no thread has processed. *)
LEMMA TaskIsLoopStep ==
  ASSUME IInv, IInv', NEW i \in Size_t, Call(i), UNCHANGED linear_range, Running, Running'
  PROVE  Loop!Process(i) /\ i \in Todo
  <1>0. TypeOK /\ linear_range \in Size_t /\ Size_t = 0 .. M - 1
    BY DEF IInv, TypeOK, Size_t
  <1>1. TypeOK /\ linear_range \in Nat /\ i \in Nat /\ Size_t = 0 .. M - 1
    BY <1>0, SizeAssumption
  <1>2. calls[i] \in Nat /\ calls' = [calls EXCEPT ![i] = calls[i] + 1]
    BY <1>1 DEF TypeOK, Call
  <1>3. calls'[i] = calls[i] + 1 /\ \A j \in Size_t : j # i => calls'[j] = calls[j]
    BY <1>1, <1>2 DEF TypeOK
  <1>4. calls'[i] <= IF i < linear_range THEN 1 ELSE 0
    <2>1. EachItemAtMostOnce'
      BY InvImpliesAtMostOnceNext
    <2> QED BY <2>1 DEF EachItemAtMostOnce
  <1>5. i < linear_range /\ calls[i] = 0 /\ calls'[i] = 1
    BY <1>1, <1>2, <1>3, <1>4
  <1>6. i \in Todo
    BY <1>1, <1>5 DEF Todo
  <1>7. Todo' = Todo \ {i}
    <2>1. linear_range <= M
      BY <1>1, SizeAssumption DEF TypeOK
    <2>2. 0 .. linear_range - 1 \subseteq Size_t
      BY <1>1, <2>1, SizeAssumption
    <2> QED BY <1>3, <1>5, <2>2 DEF Todo
  <1> QED BY <1>6, <1>7 DEF Loop!Process, Running, Todo

(* Every step of the thread function is a step of the loop or none. *)
LEMMA NextImplementsLoop ==
  ASSUME IInv, IInv', [Next]_vars
  PROVE  [Loop!Next]_(Loop!vars)
  <1>1. TypeOK /\ 0 \in Thread
    BY ThreadsAssumption DEF IInv, Thread
  <1>2. ASSUME Running, Running', UNCHANGED <<linear_range, calls>>
        PROVE  UNCHANGED Loop!vars
    BY <1>2 DEF Loop!vars, Running
  <1>3. ASSUME NEW range \in Size_t, range > 1, Parallelize(range)
        PROVE  Loop!Next
    <2>1. range \in 2 .. M - 1
      BY <1>3, SizeAssumption DEF Size_t
    <2>2. ~Running /\ Running'
      BY <1>1, <1>3 DEF Parallelize, Running, TypeOK
    <2>3. Todo' = 0 .. range - 1
      <3>1. \A i \in 0 .. range - 1 : i \in Size_t
        BY <2>1, SizeAssumption DEF Size_t
      <3> QED BY <1>3, <3>1 DEF Parallelize, Todo
    <2>4. Loop!Begin(range)
      BY <2>2, <2>3 DEF Loop!Begin, Running, Todo
    <2> QED BY <2>1, <2>4 DEF Loop!Next
  <1>4. CASE SpreadWork
    <2>1. Running /\ Running' /\ UNCHANGED <<linear_range, calls>>
      BY <1>1, <1>4 DEF SpreadWork, Running
    <2> QED BY <1>2, <2>1
  <1>5. CASE Publish
    <2>1. Running /\ Running' /\ UNCHANGED <<linear_range, calls>>
      BY <1>1, <1>5 DEF Publish, Running, operation
    <2> QED BY <1>2, <2>1
  <1>6. ASSUME NEW t \in Thread, ThreadStep(t)
        PROVE  [Loop!Next]_(Loop!vars)
    <2>1. Running /\ Running' /\ UNCHANGED linear_range
      BY <1>1, <1>6 DEF ThreadStep, Enter, OwnClaim, OwnTask, OwnEmpty, StealClaim, StealIndex,
         StealTask, StealEmpty, Goto, GotoVictim, operation, Running, TypeOK
    <2>2. CASE OwnTask(t)
      <3>1. PICK i \in Size_t : i = cursor[t]
        BY <1>1 DEF TypeOK
      <3>2. Call(i)
        BY <2>2, <3>1 DEF OwnTask
      <3>3. Loop!Process(i) /\ i \in Todo
        BY <2>1, <3>2, TaskIsLoopStep
      <3> QED BY <3>3 DEF Loop!Next, Todo
    <2>3. CASE StealTask(t)
      <3>1. PICK i \in Size_t : i = index[t]
        BY <1>1 DEF TypeOK
      <3>2. Call(i)
        BY <2>3, <3>1 DEF StealTask
      <3>3. Loop!Process(i) /\ i \in Todo
        BY <2>1, <3>2, TaskIsLoopStep
      <3> QED BY <3>3 DEF Loop!Next, Todo
    <2>4. CASE ~OwnTask(t) /\ ~StealTask(t)
      <3>1. UNCHANGED calls
        BY <1>6, <2>4 DEF ThreadStep, Enter, OwnClaim, OwnEmpty, StealClaim, StealIndex,
           StealEmpty, locals
      <3> QED BY <1>2, <2>1, <3>1
    <2> QED BY <2>2, <2>3, <2>4
  <1>7. CASE Return
    <2>1. Running /\ ~Running' /\ UNCHANGED <<linear_range, calls>>
      BY <1>1, <1>7 DEF Return, Running, operation
    <2>2. Todo = {}
      <3>1. \A i \in Size_t : calls[i] = IF i < linear_range THEN 1 ELSE 0
        BY <1>7, DoneMeansProcessed DEF Return
      <3>2. \A i \in 0 .. linear_range - 1 : i \in Size_t /\ i < linear_range
        BY <1>1, SizeAssumption DEF TypeOK, Size_t
      <3> QED BY <3>1, <3>2 DEF Todo
    <2>3. Loop!End
      BY <2>1, <2>2 DEF Loop!End, Running, Todo
    <2> QED BY <2>3 DEF Loop!Next
  <1>8. CASE UNCHANGED vars
    BY <1>8 DEF vars, operation, Loop!vars
  <1> QED BY <1>3, <1>4, <1>5, <1>6, <1>7, <1>8 DEF Next

(* The thread function does what pthreadpool.h promises of the operation, *)
(* as far as safety goes: it implements the parallel for loop.            *)
THEOREM ImplementsParallelFor == Spec => Loop!Spec
  <1>1. Init => Loop!Init
    <2> SUFFICES ASSUME Init PROVE Loop!Init
      OBVIOUS
    <2>1. ~Running /\ Todo = {}
      BY DEF Init, Running, Todo
    <2> QED BY <2>1 DEF Loop!Init, Running, Todo
  <1>2. IInv /\ IInv' /\ [Next]_vars => [Loop!Next]_(Loop!vars)
    BY NextImplementsLoop
  <1> QED BY <1>1, <1>2, InductiveInvariant, PTL DEF Spec, Loop!Spec
=============================================================================
