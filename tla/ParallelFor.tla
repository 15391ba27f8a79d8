----------------------------- MODULE ParallelFor -----------------------------
(***************************************************************************)
(* What pthreadpool.h promises of every pthreadpool_parallelize_*          *)
(* function: a parallel version of                                         *)
(*                                                                         *)
(*     for (size_t i = 0; i < range; i++) function(context, i);            *)
(*                                                                         *)
(* in which the function is called once for each item, in any order, all   *)
(* items have been processed when the call returns, and the calls on one   *)
(* thread pool are serialized.                                             *)
(***************************************************************************)
EXTENDS Naturals

CONSTANT MaxRange \* the largest range a call may ask for

VARIABLES
  running, \* a call is in progress
  todo     \* the items it has not processed yet

vars == <<running, todo>>

TypeOK == running \in BOOLEAN /\ todo \subseteq 0 .. MaxRange - 1

Init == running = FALSE /\ todo = {}

Begin(range) ==
  /\ ~running
  /\ running' = TRUE
  /\ todo' = 0 .. range - 1

Process(i) ==
  /\ running
  /\ i \in todo
  /\ todo' = todo \ {i}
  /\ UNCHANGED running

End ==
  /\ running
  /\ todo = {}
  /\ running' = FALSE
  /\ UNCHANGED todo

Next ==
  \/ \E range \in 2 .. MaxRange : Begin(range)
  \/ \E i \in todo : Process(i)
  \/ End

Spec == Init /\ [][Next]_vars

(* A call that has begun makes progress until it returns. *)
Fairness == WF_vars(End \/ \E i \in todo : Process(i))

FairSpec == Spec /\ Fairness
=============================================================================
