---------------------------- MODULE MCOptOutMirror ----------------------------
(* Instances of OptOutMirror for TLC.                                      *)
EXTENDS OptOutMirror, TLC

CONSTANTS i1, i2, i3
=============================================================================
