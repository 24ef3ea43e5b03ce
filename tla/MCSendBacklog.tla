---------------------------- MODULE MCSendBacklog ----------------------------
(* Instances of SendBacklog for TLC: a day of four hours.                  *)
EXTENDS SendBacklog

NineLeads == 1 .. 9

(* One lead in three may be messaged in the first half of the day, one in  *)
(* the second, one all day.                                                *)
HalfDays == [l \in Lead |-> CASE l % 3 = 1 -> {0, 1}
                              [] l % 3 = 2 -> {2, 3}
                              [] l % 3 = 0 -> 0 .. 3]
=============================================================================
