----------------------------- MODULE MCTraceResults ----------------------------
(* Instance of TraceResults for TLC. *)
EXTENDS TraceResults, TLC

Symmetry == Permutations(Instances) \union Permutations(Traces)
            \union Permutations(Limits)
================================================================================
