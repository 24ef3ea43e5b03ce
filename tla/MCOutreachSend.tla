---------------------------- MODULE MCOutreachSend ----------------------------
(* Instances of OutreachSend for TLC.                                      *)
EXTENDS OutreachSend, TLC

CONSTANTS p1, p2, i1

(* Two leads with a number each; three, of which the first and the last are*)
(* duplicates of one contact.                                              *)
TwoLeads == {1, 2}
TwoPhones == 1 :> p1 @@ 2 :> p2
ThreeLeads == {1, 2, 3}
SharedPhones == 1 :> p1 @@ 2 :> p2 @@ 3 :> p1

(* All at UTC; or an unknown timezone, an hour ahead of UTC, an hour behind. *)
AtUtc == [l \in Lead |-> 0]
MixedZones == [l \in Lead |-> IF l = 1 THEN NoZone ELSE IF l = 2 THEN 1 ELSE -1]

(* A STOP of the first lead.                                               *)
Senders == [i \in Inbound |-> p1]
Stops == [i \in Inbound |-> "suppress_and_stop"]
=============================================================================
