---------------------------- MODULE MCEmailFetch ----------------------------
(* Instances of EmailFetch.                                                 *)
EXTENDS EmailFetch, TLC

CONSTANTS f1, f2, c1

MCSymmetry == Permutations({f1, f2})
=============================================================================
