----------------------------- MODULE MCLeadSync -----------------------------
(* Instances of LeadSync for TLC.                                          *)
EXTENDS LeadSync
=============================================================================
