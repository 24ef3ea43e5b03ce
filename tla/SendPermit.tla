------------------------------ MODULE SendPermit ------------------------------
(***************************************************************************)
(* What the send gate promises about opt-outs, with no mention of how the  *)
(* send service keeps the promise (ADR-020: "An inbound STOP closes the    *)
(* send gate the moment the webhook transaction commits").                 *)
(*                                                                         *)
(* A batch run may hold permits: leads it has found sendable and has not   *)
(* dealt with yet.  A permit is granted only for a lead that has not opted *)
(* out, it is good for one message, and an opt-out stops new permits at    *)
(* once.  It does not recall the permits already granted: that is all the  *)
(* slack the send path is allowed.                                         *)
(***************************************************************************)
CONSTANTS
  Lead,     (* Leads of the org.                                           *)
  Run,      (* Batch runs.                                                 *)
  Message   (* Messages the provider can accept: records with a lead field.*)

VARIABLES
  stopped,   (* Leads whose opt-out has been committed.                    *)
  permit,    (* permit[r]: the leads run r may still send one message to.  *)
  delivered  (* Messages the provider has accepted.                        *)

vars == <<stopped, permit, delivered>>

TypeOK ==
  /\ stopped \subseteq Lead
  /\ permit \in [Run -> SUBSET Lead]
  /\ delivered \subseteq Message

Init ==
  /\ stopped = {}
  /\ permit = [r \in Run |-> {}]
  /\ delivered = {}

Grant(r) ==
  /\ permit[r] = {}
  /\ \E S \in SUBSET (Lead \ stopped) : permit' = [permit EXCEPT ![r] = S]
  /\ UNCHANGED <<stopped, delivered>>

(* A permit may lapse without a message: the lead is blocked by another    *)
(* gate, the provider refuses the message, or the transaction fails.       *)
Lapse(r) ==
  /\ \E S \in SUBSET permit[r] : permit' = [permit EXCEPT ![r] = S]
  /\ UNCHANGED <<stopped, delivered>>

(* Exactly one new message, and it uses up the permit it was sent under.   *)
Deliver(r) ==
  /\ \E m \in delivered' \ delivered :
       /\ m \in Message
       /\ m.lead \in permit[r]
       /\ delivered' = delivered \cup {m}
       /\ permit' = [permit EXCEPT ![r] = @ \ {m.lead}]
  /\ UNCHANGED stopped

Stop(l) ==
  /\ stopped' = stopped \cup {l}
  /\ UNCHANGED <<permit, delivered>>

Next ==
  \/ \E r \in Run : Grant(r) \/ Lapse(r) \/ Deliver(r)
  \/ \E l \in Lead : Stop(l)

Spec == Init /\ [][Next]_vars
=============================================================================
