------------------------------ MODULE AutoChat ------------------------------
(***************************************************************************)
(* research/auto_chat.py: a loop that answers one number by itself, from a *)
(* fixed line per intent.  All it knows is in its process: a restart reads *)
(* the chat to find out where it was.                                      *)
(***************************************************************************)
EXTENDS ChatRules

CONSTANTS
  MaxReplies    (* --max-replies.                                          *)

ASSUME AutoAssumption == MaxReplies \in Nat

VARIABLES
  auto,         (* The Thread object and where the loop is.                *)
  starts,       (* Starts so far.                                          *)
  blind         (* History: starts whose first read failed.                *)

autoVars == <<auto, starts, blind>>

Silent == "silent"   (* No reply.                                          *)
HaltRules == {"opt_out", "legal_escalation", "hostility"}
ClosingIntents == {"Not_Interested", "Wrong_Person"}
Intents == {Buckets[k][2] : k \in DOMAIN Buckets} \cup {"Unclear"}

Off == [pc |-> "off", last |-> 0, count |-> 0, reply |-> Silent,
        clarified |-> FALSE, intent |-> Silent]

AutoTypeOK ==
  /\ auto.pc \in {"off", "opening", "polling", "replying", "halted"}
  /\ auto.last \in 0 .. Len(chat) /\ auto.count \in 0 .. MaxReplies
  /\ auto.reply \in Intents \cup {Silent} /\ auto.intent \in Intents \cup {Silent}
  /\ auto.clarified \in BOOLEAN
  /\ starts \in Nat /\ blind \in 0 .. starts

AutoInit == auto = Off /\ starts = 0 /\ blind = 0

(* ensure_chat has no id: the number is blacklisted, or a call failed.     *)
NoChat == [Off EXCEPT !.pc = "halted"]

(* main: the chat is found and its history read, or taken to be empty when *)
(* the read fails.                                                         *)
AutoStart ==
  /\ auto.pc = "off"
  /\ starts' = starts + 1
  /\ \/ auto' = NoChat /\ UNCHANGED blind
     \/ \E history \in {Recent, {}}, catchUp \in BOOLEAN :
          LET outbound == {m \in history : ~Inbound(m)} IN
            /\ auto' = [Off EXCEPT
                 !.pc = IF outbound = {} THEN "opening" ELSE "polling",
                 !.last = Newest(IF catchUp THEN outbound ELSE history)]
            /\ blind' = IF history = Recent THEN blind ELSE blind + 1
  /\ UNCHANGED chat

(* The opener; a call that raises here ends the process.                   *)
AutoOpen ==
  /\ auto.pc = "opening"
  /\ UNCHANGED chat \/ Accept("auto", 0)
  /\ auto' \in {[auto EXCEPT !.pc = "polling"], Off}
  /\ UNCHANGED <<starts, blind>>

(* Mutant: a message counts as processed only once it has been answered.   *)
Later(m) == auto.last

(* Mutant: the id expected next is kept instead.                           *)
Expected(m) == m + 1

Processed(m) == m

(* Mutant: ids follow each other without a gap.                            *)
IsNext(m) == m = auto.last + 1

IsNew(m) == m > auto.last

Capped == auto.count >= MaxReplies

(* process_thread up to the send: only the newest inbound message counts.  *)
AutoRead ==
  /\ auto.pc = "polling"
  /\ LET new == {m \in Recent : Inbound(m) /\ IsNew(m)}
         latest == Newest(new)
         rule == Evaluate(chat[latest].text, 0)
         intent == BucketIntent(chat[latest].text, rule)
         quiet == \/ Action(rule) # "proceed"
                  \/ Capped
                  \/ intent = "Unclear" /\ auto.clarified
                  \/ intent = auto.reply
     IN /\ new # {}
        /\ auto' =
             IF rule \in HaltRules THEN [auto EXCEPT !.pc = "halted", !.last = latest]
             ELSE IF quiet THEN [auto EXCEPT !.last = latest]
             ELSE [auto EXCEPT !.pc = "replying", !.last = Processed(latest), !.intent = intent]
  /\ UNCHANGED <<chat, starts, blind>>

(* The send: an answer of any status counts as a reply, an exception does  *)
(* not, and the message may have gone out either way.                      *)
Replied ==
  [auto EXCEPT !.pc = IF auto.intent \in ClosingIntents THEN "halted" ELSE "polling",
               !.count = @ + 1, !.reply = auto.intent, !.intent = Silent,
               !.clarified = @ \/ auto.intent = "Unclear"]

AutoSend ==
  /\ auto.pc = "replying"
  /\ UNCHANGED chat \/ Accept("auto", auto.last)
  /\ auto' \in {Replied, [auto EXCEPT !.pc = "polling", !.intent = Silent]}
  /\ UNCHANGED <<starts, blind>>

AutoStop ==
  /\ auto.pc # "off"
  /\ auto' = Off
  /\ UNCHANGED <<chat, starts, blind>>

AutoNext == AutoStart \/ AutoOpen \/ AutoRead \/ AutoSend \/ AutoStop
-----------------------------------------------------------------------------
Answers(m) == {k \in DOMAIN chat : chat[k].by = "auto" /\ chat[k].re = m}

(* No inbound message is answered twice, through sends that raise after    *)
(* they went out, restarts, and restarts that catch up; only a start whose *)
(* read of the history failed can answer one again.                        *)
OneReplyPerInbound ==
  \A m \in DOMAIN chat : Inbound(m) => Cardinality(Answers(m)) <= 1 + blind

(* "opt-out (STOP) halts the thread instantly and permanently" (auto_chat. *)
(* py:9-10): no message that came after an opt-out is answered.            *)
NothingAfterOptOut ==
  \A m, k \in DOMAIN chat :
    Inbound(m) /\ MatchOptOut(chat[m].text) /\ chat[k].by = "auto" => chat[k].re <= m

Unheard == \E m \in Recent : Inbound(m) /\ m > auto.last

(* A message that comes while the script polls is heard, or a later one,   *)
(* unless newer ones push it out of what a read returns.                   *)
InboundIsHeard == auto.pc = "polling" /\ Unheard ~> ~Unheard \/ auto.pc \in {"off", "halted"}
=============================================================================
