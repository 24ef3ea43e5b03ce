---------------------------- MODULE MCReplyTemplate ----------------------------
(* Instances of ReplyTemplate for TLC.                                     *)
EXTENDS ReplyTemplate, TLC

CONSTANTS t1, t2, b1, b2, r1

Symmetry == Permutations(Template) \cup Permutations(Body)
=============================================================================
