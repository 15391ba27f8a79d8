------------------------------ MODULE ForkJoin ------------------------------
(***************************************************************************)
(* What the handshake between the caller and the workers of a thread pool  *)
(* promises, whatever it is built from (futexes, condition variables or    *)
(* events): every worker takes part in every operation exactly once,       *)
(* no operation ends before all workers have left it, none begins before   *)
(* the previous one has ended, and the pool is released only after all     *)
(* workers have gone.                                                      *)
(***************************************************************************)
CONSTANT Workers

VARIABLES
  phase,  \* of the pool
  todo,   \* the workers that have not answered the present phase
  busy    \* the workers inside of the operation

vars == <<phase, todo, busy>>

Init == phase = "creating" /\ todo = Workers /\ busy = {}

(* A worker has started. *)
Start(w) ==
  /\ phase = "creating" /\ w \in todo
  /\ todo' = todo \ {w}
  /\ UNCHANGED <<phase, busy>>

Created ==
  /\ phase = "creating" /\ todo = {}
  /\ phase' = "ready"
  /\ UNCHANGED <<todo, busy>>

Open ==
  /\ phase = "ready"
  /\ phase' = "open" /\ todo' = Workers
  /\ UNCHANGED busy

Begin(w) ==
  /\ phase = "open" /\ w \in todo
  /\ todo' = todo \ {w} /\ busy' = busy \cup {w}
  /\ UNCHANGED phase

Finish(w) ==
  /\ w \in busy
  /\ busy' = busy \ {w}
  /\ UNCHANGED <<phase, todo>>

Close ==
  /\ phase = "open" /\ todo = {} /\ busy = {}
  /\ phase' = "ready"
  /\ UNCHANGED <<todo, busy>>

Stop ==
  /\ phase = "ready"
  /\ phase' = "stopping" /\ todo' = Workers
  /\ UNCHANGED busy

Exit(w) ==
  /\ phase = "stopping" /\ w \in todo
  /\ todo' = todo \ {w}
  /\ UNCHANGED <<phase, busy>>

Release ==
  /\ phase = "stopping" /\ todo = {}
  /\ phase' = "released"
  /\ UNCHANGED <<todo, busy>>

Answer(w) == Start(w) \/ Begin(w) \/ Finish(w) \/ Exit(w)

Next ==
  \/ Created \/ Open \/ Close \/ Stop \/ Release
  \/ \E w \in Workers : Answer(w)

Spec == Init /\ [][Next]_vars

(* Every worker answers, and a phase that all have answered ends.  Nothing *)
(* makes the user begin an operation or destroy the pool.                  *)
Fairness ==
  /\ \A w \in Workers : WF_vars(Answer(w))
  /\ WF_vars(Created) /\ WF_vars(Close) /\ WF_vars(Release)

FairSpec == Spec /\ Fairness
=============================================================================
