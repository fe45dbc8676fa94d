---------------------------- MODULE MCRestores ----------------------------
(***************************************************************************)
(* Small instances of Restores for TLC.                                    *)
(***************************************************************************)
EXTENDS Restores

CONSTANTS s1, s2, k1, k2
=============================================================================
