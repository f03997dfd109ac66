---------------------------- MODULE MCFilterToolbar ----------------------------
(* Instances of FilterToolbar for TLC. *)
EXTENDS FilterToolbar

MCInputs == {"min", "custom"}

MCDurations == {"1s"}
================================================================================
