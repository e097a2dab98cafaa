----------------------------- MODULE MCRuntimeLocks -----------------------------
(***************************************************************************)
(* RuntimeLocks for TLC: two launchers and a planner as model values.      *)
(***************************************************************************)
EXTENDS RuntimeLocks
=================================================================================
