------------------------------ MODULE MCLogin ------------------------------
(***************************************************************************)
(* A small instance of Login for TLC.                                      *)
(***************************************************************************)
EXTENDS Login, TLC

CONSTANTS c1, c2

Symmetry == Permutations(Tasks)
=============================================================================
