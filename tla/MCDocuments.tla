---------------------------- MODULE MCDocuments ----------------------------
(***************************************************************************)
(* A small instance of Documents for TLC.                                  *)
(***************************************************************************)
EXTENDS Documents, TLC

CONSTANTS s1, s2, plan, template, rules, b1, b2

Symmetry == Permutations(Bodies) \cup Permutations(Sessions)
=============================================================================
