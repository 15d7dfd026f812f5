------------------------------ MODULE MCWarmBuild ------------------------------
(* Three turns, one source file of two contents. *)
EXTENDS WarmBuild, TLC

CONSTANTS t1, t2, t3, lib, old, new

MCTurn == {t1, t2, t3}
MCFile == {lib}
MCContent == {old, new}
Symmetry == Permutations(MCTurn) \union Permutations(MCContent)
===============================================================================
