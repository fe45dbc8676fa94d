--------------------------- MODULE MCAssignments ---------------------------
(***************************************************************************)
(* Small instances of Assignments for TLC.                                 *)
(***************************************************************************)
EXTENDS Assignments

\* The sessions and the identifiers of rows.
CONSTANTS s1, s2, i1, i2
=============================================================================
