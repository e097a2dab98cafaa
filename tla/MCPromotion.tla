----------------------------- MODULE MCPromotion -----------------------------
(* Promotion for TLC: revisions and models are interchangeable.            *)
EXTENDS Promotion, TLC

Symmetry == Permutations(Revisions) \union Permutations(Models)
===============================================================================
