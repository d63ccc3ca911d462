------------------------ MODULE MCExecutionRegistry ------------------------
(* Model values and symmetry for the runs of ExecutionRegistry.  Dispatch   *)
(* ids are not symmetric: barriers compare them.                            *)
EXTENDS ExecutionRegistry, TLC

Symmetry == Permutations(Groups) \cup Permutations(Sinks)
              \cup Permutations(Setters) \cup Permutations(Drainers)
=============================================================================
