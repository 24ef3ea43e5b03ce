----------------------------- MODULE ReplyTemplate -----------------------------
(***************************************************************************)
(* The first-touch templates: people save Reply_Template__c records as far *)
(* as the two validation rules let them, while the chunks of the batch read*)
(* the approved template once and go on sending what they have read.       *)
(* OutreachSend has everything else the chunks do.                         *)
(***************************************************************************)
EXTENDS Naturals

CONSTANTS
  Template,   (* Records named 'First Touch'.                              *)
  Version,    (* Values of Version__c.                                     *)
  Body,       (* Values of Body__c.                                        *)
  Run,        (* Chunks that can be under way at the same time.            *)
  Nothing     (* No template.                                              *)

ASSUME TemplateAssumption == Version \subseteq Nat /\ Nothing \notin Template

Statuses == {"Draft", "In_Review", "Approved", "Retired"}

VARIABLES
  status,     (* status[t]: Status__c.                                     *)
  version,    (* version[t]: Version__c.                                   *)
  body,       (* body[t]: Body__c.                                         *)
  held,       (* held[r]: the template as the chunk has read it.           *)
  sent,       (* Templates, versions and bodies of the messages sent.      *)
  approved    (* History: bodies the records have had while Approved.      *)

record == <<status, version, body>>
vars == <<record, held, sent, approved>>

Copy == [template: Template, version: Version, body: Body]

TypeOK ==
  /\ status \in [Template -> Statuses]
  /\ version \in [Template -> Version]
  /\ body \in [Template -> Body]
  /\ held \in [Run -> Copy \cup {Nothing}]
  /\ sent \subseteq Copy
  /\ approved \subseteq [template: Template, body: Body]

Init ==
  /\ status = [t \in Template |-> "Draft"]
  /\ version \in [Template -> Version]
  /\ body \in [Template -> Body]
  /\ held = [r \in Run |-> Nothing]
  /\ sent = {} /\ approved = {}
-----------------------------------------------------------------------------
(* Approved_Cannot_Return_To_Draft and Approved_Body_Is_Immutable: what a  *)
(* save from the old values to the new ones runs into.                     *)
ReturnsToDraft(t) == status[t] = "Approved" /\ status'[t] = "Draft"

ChangesApprovedBody(t) == status[t] = "Approved" /\ body'[t] # body[t]

(* A person saves any of the fields at once, within the two rules.         *)
Save(t) ==
  /\ \E s \in Statuses, v \in Version, b \in Body :
       /\ status' = [status EXCEPT ![t] = s]
       /\ version' = [version EXCEPT ![t] = v]
       /\ body' = [body EXCEPT ![t] = b]
  /\ ~ReturnsToDraft(t) /\ ~ChangesApprovedBody(t)
  /\ approved' = IF status'[t] = "Approved"
                 THEN approved \cup {[template |-> t, body |-> body'[t]]}
                 ELSE approved
  /\ UNCHANGED <<held, sent>>

(* Mutant: the query without its Status__c condition.                      *)
AnyFirstTouch(t) == \A u \in Template : version[u] <= version[t]

(* approvedFirstTouchTemplate: an approved record of the highest version.  *)
FirstTouch(t) ==
  /\ status[t] = "Approved"
  /\ \A u \in Template : status[u] = "Approved" => version[u] <= version[t]

(* Mutant: the chunk keeps the record id and not the fields.               *)
ReadTemplateId(r) ==
  /\ held[r] = Nothing
  /\ \E t \in Template : FirstTouch(t) /\ held' = [held EXCEPT ![r] = t]
  /\ UNCHANGED <<record, sent, approved>>

ReadTemplate(r) ==
  /\ held[r] = Nothing
  /\ \E t \in Template :
       /\ FirstTouch(t)
       /\ held' = [held EXCEPT ![r] =
                     [template |-> t, version |-> version[t], body |-> body[t]]]
  /\ UNCHANGED <<record, sent, approved>>

(* performSend, with the row that names the template and its version.      *)
Send(r) ==
  /\ held[r] # Nothing
  /\ sent' = sent \cup {held[r]}
  /\ UNCHANGED <<record, held, approved>>

EndChunk(r) ==
  /\ held[r] # Nothing
  /\ held' = [held EXCEPT ![r] = Nothing]
  /\ UNCHANGED <<record, sent, approved>>

Next ==
  \/ \E t \in Template : Save(t)
  \/ \E r \in Run : ReadTemplate(r) \/ Send(r) \/ EndChunk(r)

Spec == Init /\ [][Next]_vars
-----------------------------------------------------------------------------
(* However saves and chunks interleave, every body that has gone out was,  *)
(* word for word, the body of its record while that was Approved.          *)
SentWasApproved ==
  \A c \in sent : [template |-> c.template, body |-> c.body] \in approved

(* "the body of a template that is (or was, before this edit) Approved     *)
(* never mutates in place" (Approved_Body_Is_Immutable): the template and  *)
(* the version a message names tell what it said.                          *)
VersionNamesOneBody ==
  \A c, d \in sent : c.template = d.template /\ c.version = d.version => c.body = d.body
=============================================================================
