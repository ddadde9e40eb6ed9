----------------------------- MODULE MCTraceOps -----------------------------
(* Model-checking instances of TraceOps; the kinds and sizes are in the .cfg *)
(* files, the runs are interchangeable.                                      *)
EXTENDS TraceOps, TLC

Symmetry == Permutations(Runs)
=============================================================================
