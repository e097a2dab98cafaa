--------------------------- MODULE MCRollbackFiles ---------------------------
(* RollbackFiles for TLC: writers are interchangeable.                     *)
EXTENDS RollbackFiles, TLC

Symmetry == Permutations(Writers)
===============================================================================
