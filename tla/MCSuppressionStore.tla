-------------------------- MODULE MCSuppressionStore --------------------------
(* Instances of SuppressionStore for TLC.                                  *)
EXTENDS SuppressionStore, TLC

CONSTANTS s1, i1, i2

Symmetry == Permutations(Identifier)
=============================================================================
