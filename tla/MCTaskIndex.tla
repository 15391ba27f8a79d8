---------------------------- MODULE MCTaskIndex ----------------------------
EXTENDS TaskIndex

AllFunctions == Interface \cup Deprecated

(* The functions of at most two dimensions. *)
UpTo2d == {f \in Interface : f.dims <= 2}
=============================================================================
