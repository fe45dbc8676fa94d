---------------------------- MODULE MCFeedback ----------------------------
(***************************************************************************)
(* Small instances of Feedback for TLC.                                    *)
(***************************************************************************)
EXTENDS Feedback, TLC

\* The login sessions, which differ in nothing.
CONSTANTS s1, s2

Symmetry == Permutations({s1, s2})
=============================================================================
