-------------------------- MODULE MCModelRegistry --------------------------
(***************************************************************************)
(* Small instances of ModelRegistry for TLC.                               *)
(***************************************************************************)
EXTENDS ModelRegistry, TLC

\* The login sessions, which differ in nothing, and two feature schemas.
CONSTANTS s1, s2, h1, h2

Symmetry == Permutations({s1, s2}) \cup Permutations({h1, h2})
=============================================================================
