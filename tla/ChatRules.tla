------------------------------ MODULE ChatRules ------------------------------
(***************************************************************************)
(* What the tools of research/ share: the guardrails (src/guardrails), the *)
(* intent buckets (classifier/buckets.py), and one chat at the SMS vendor. *)
(*                                                                         *)
(* A text is the set of the patterns that match it; messages are numbered  *)
(* as they come, and that number is their id.                              *)
(***************************************************************************)
EXTENDS Naturals, Sequences, FiniteSets

CONSTANTS
  Text,         (* Inbound texts.                                          *)
  Limit         (* The newest messages a read of the chat returns.         *)

VARIABLE chat   (* The messages, oldest first.                             *)

RulePatterns == {"keyword", "imperative", "legal", "hostile", "autoreply"}
BucketPatterns == {"amount", "affirmative", "question", "email", "info", "call",
                   "process", "decline", "interested", "wrong"}
Patterns == RulePatterns \cup BucketPatterns

ASSUME ChatAssumption ==
  /\ Text \subseteq SUBSET Patterns
  /\ Limit \in Nat \ {0}
-----------------------------------------------------------------------------
(* A keyword is the whole message, or one edit away from it; "stop texting"*)
(* opens it.                                                               *)
MatchOptOut(t) == t \cap {"keyword", "imperative"} # {}
MatchLegal(t) == "legal" \in t
MatchHostility(t) == "hostile" \in t
MatchAutoReply(t) == "autoreply" \in t

(* The rule that decides, of a text and of the automatic replies before it.*)
Evaluate(t, autoReplies) ==
  IF MatchOptOut(t) THEN "opt_out"
  ELSE IF MatchLegal(t) THEN "legal_escalation"
  ELSE IF MatchHostility(t) THEN "hostility"
  ELSE IF MatchAutoReply(t) THEN "bounce_or_autoreply"
  ELSE IF autoReplies >= 2 THEN "loop_breaker"
  ELSE "none"

Action(rule) ==
  CASE rule = "opt_out" -> "suppress_and_stop"
    [] rule = "none" -> "proceed"
    [] OTHER -> "human_review"

(* The patterns in their order, each with the intent it stands for.        *)
Buckets == << <<"amount", "Amount_Given">>, <<"affirmative", "Interested">>,
  <<"question", "Question">>, <<"email", "Request_More_Info">>,
  <<"info", "Request_More_Info">>, <<"call", "Call_Request">>,
  <<"process", "Process_Update">>, <<"decline", "Not_Interested">>,
  <<"interested", "Interested">>, <<"wrong", "Wrong_Person">> >>

BucketIntent(t, rule) ==
  LET hits == {k \in DOMAIN Buckets : Buckets[k][1] \in t} IN
    CASE rule = "opt_out" -> "Opt_Out"
      [] rule = "legal_escalation" -> "Legal_Escalation"
      [] rule = "hostility" -> "Hostile"
      [] rule = "bounce_or_autoreply" -> "Auto_Reply"
      [] OTHER -> IF hits = {} THEN "Unclear"
                  ELSE Buckets[CHOOSE k \in hits : \A j \in hits : k <= j][2]
-----------------------------------------------------------------------------
(* A message: who wrote it, the text of an inbound one, and for a reply of *)
(* auto_chat.py the number of the message it answers (0 for none).         *)
Authors == {"lead", "auto", "template", "hand"}
Message(by, text, re) == [by |-> by, text |-> text, re |-> re]

Inbound(m) == chat[m].by = "lead"

(* GET /inbox/<chat_id>?limit=20.                                          *)
Recent == {m \in DOMAIN chat : m + Limit > Len(chat)}

Accept(by, re) == chat' = Append(chat, Message(by, {}, re))

Newest(M) == IF M = {} THEN 0 ELSE CHOOSE m \in M : \A n \in M : n <= m

(* The lead writes.                                                        *)
Arrive == \E t \in Text : chat' = Append(chat, Message("lead", t, 0))

(* send_one.py: one message, once.                                         *)
SendOne == Accept("hand", 0)
=============================================================================
