------------------------------- MODULE Atomics -------------------------------
(***************************************************************************)
(* The atomic operations of threadpool-atomics.h, and what else orders     *)
(* memory for the library, in a memory model with release and acquire.     *)
(*                                                                         *)
(* A thread knows a datum when every load of it is bound to return what    *)
(* was stored last.  A store takes this knowledge from all other threads;  *)
(* they get it back through a location that is stored with release and     *)
(* loaded with acquire.  The location itself is atomic: its values have    *)
(* one order for all threads, and the modules that use this one keep them  *)
(* in a variable of their own.                                             *)
(***************************************************************************)
CONSTANTS
  Threads,
  Locations,  \* what threads synchronize by: atomic fields and mutexes
  Data        \* what they store without synchronization

VARIABLES
  knows,      \* the data that a thread knows
  carries     \* the data that a load of a location with acquire makes known

(* The threads of S know all there is. *)
MemoryInit(S) ==
  /\ knows = [t \in Threads |-> IF t \in S THEN Data ELSE {}]
  /\ carries = [l \in Locations |-> {}]

(* Stores of D that order nothing, plain or relaxed. *)
store_relaxed(t, D) ==
  /\ knows' = [s \in Threads |-> IF s = t THEN knows[s] \cup D ELSE knows[s] \ D]
  /\ carries' = [l \in Locations |-> carries[l] \ D]

(* A relaxed store to a location that others load with acquire: they will   *)
(* find nothing there.  The datum d is the store itself.                    *)
store_relaxed_at(t, l, d) ==
  /\ knows' = [s \in Threads |-> IF s = t THEN knows[s] \cup {d} ELSE knows[s] \ {d}]
  /\ carries' = [k \in Locations |-> IF k = l THEN {} ELSE carries[k] \ {d}]

store_release(t, l) ==
  /\ carries' = [carries EXCEPT ![l] = knows[t]]
  /\ UNCHANGED knows

load_acquire(t, l) ==
  /\ knows' = [knows EXCEPT ![t] = @ \cup carries[l]]
  /\ UNCHANGED carries

(* A decrement reads the last value and passes on what came with it. *)
decrement_fetch_release(t, l) ==
  /\ carries' = [carries EXCEPT ![l] = @ \cup knows[t]]
  /\ UNCHANGED knows

decrement_fetch_acquire_release(t, l) ==
  /\ carries' = [carries EXCEPT ![l] = @ \cup knows[t]]
  /\ knows' = [knows EXCEPT ![t] = @ \cup carries[l]]

(* A thread goes on from where others are: it is created by them, it joins *)
(* them, or its user has waited for them.                                  *)
synchronize(t, S) ==
  /\ knows' = [knows EXCEPT ![t] = @ \cup UNION {knows[s] : s \in S}]
  /\ UNCHANGED carries
=============================================================================
