------------------------- MODULE ConversationHarness -------------------------
(***************************************************************************)
(* research/conversation_harness.py: it polls the same chat, judges each   *)
(* new message and proposes a reply; a person sends, edits or skips it.    *)
(***************************************************************************)
EXTENDS ChatRules

VARIABLES
  pc,          (* "off", "opener", "polling", or "gate" at a message.      *)
  seen,        (* seen: ids that are not new.                              *)
  batch,       (* Inbound messages of the last read still to be judged.    *)
  autoReplies, (* Auto-replies in thread.                                  *)
  sessions,    (* Sessions so far.                                         *)
  judged,      (* History: the messages judged, in order.                  *)
  unconfirmed, (* History: templates that went out without confirmation.   *)
  overrun,     (* History: more new messages than a read returns.          *)
  from         (* History: how long the chat was at the first read.        *)

harnessVars == <<pc, seen, batch, autoReplies, sessions, judged, unconfirmed, overrun, from>>

HarnessTypeOK ==
  /\ pc \in {"off", "opener", "polling", "gate"}
  /\ seen \subseteq DOMAIN chat /\ batch \in Seq(DOMAIN chat)
  /\ pc = "gate" <=> batch # <<>>
  /\ autoReplies \in Nat /\ sessions \in Nat
  /\ judged \in Seq(DOMAIN chat) /\ unconfirmed \in Nat
  /\ overrun \in BOOLEAN /\ from \in 0 .. Len(chat)

HarnessInit ==
  /\ pc = "off" /\ seen = {} /\ batch = <<>> /\ autoReplies = 0 /\ sessions = 0
  /\ judged = <<>> /\ unconfirmed = 0 /\ overrun = FALSE /\ from = 0

(* The baseline: what is in the chat is history, or nothing is when the    *)
(* read fails.                                                             *)
HarnessStart ==
  /\ pc = "off"
  /\ sessions' = sessions + 1
  /\ pc' = "opener"
  /\ seen' \in {Recent, {}}
  /\ from' = Len(chat)
  /\ UNCHANGED <<chat, batch, autoReplies, judged, unconfirmed, overrun>>

(* Keys in the order of ids.                                               *)
Sorted(M) == CHOOSE s \in [1 .. Cardinality(M) -> M] :
               \A j, k \in DOMAIN s : j < k => s[j] < s[k]

(* Mutant: only the newest message is new.                                 *)
OnlyNewest(M) == IF M = {} THEN {} ELSE {Newest(M)}

New(M) == {m \in M \ seen : Inbound(m)}

(* One read; the loop passes over what it has seen and what is outbound.   *)
HarnessPoll ==
  /\ pc = "polling"
  /\ batch' = Sorted(New(Recent))
  /\ pc' = IF batch' = <<>> THEN "polling" ELSE "gate"
  /\ seen' = seen \cup Recent
  /\ overrun' = (overrun \/ \E m \in from + 1 .. Len(chat) : m \notin seen \cup Recent)
  /\ UNCHANGED <<chat, autoReplies, sessions, judged, unconfirmed, from>>

Templates == {"Interested", "Amount_Given", "Request_More_Info", "Not_Interested", "Wrong_Person"}

Judge(replies) == Evaluate(chat[Head(batch)].text, replies)

(* Mutant: a message is judged without the thread before it.               *)
RuleAlone == Judge(0)

Rule == Judge(autoReplies)

(* A template is proposed.                                                 *)
Proposed ==
  Action(Rule) = "proceed" /\ BucketIntent(chat[Head(batch)].text, Rule) \in Templates

(* The person has decided; the loop goes on with the next message.         *)
Decided(answered) ==
  /\ batch' = Tail(batch)
  /\ pc' = IF batch' = <<>> THEN "polling" ELSE "gate"
  /\ judged' = Append(judged, Head(batch))
  /\ autoReplies' = autoReplies + answered
  /\ UNCHANGED <<seen, sessions, overrun, from>>

(* Quit, or an exception nobody catches: the session is gone.              *)
HarnessStop ==
  /\ pc # "off"
  /\ pc' = "off" /\ seen' = {} /\ batch' = <<>> /\ autoReplies' = 0
  /\ judged' = <<>> /\ unconfirmed' = 0 /\ overrun' = FALSE /\ from' = 0
  /\ UNCHANGED sessions

HarnessQuit == HarnessStop /\ UNCHANGED chat

Skip ==
  /\ pc = "gate"
  /\ Decided(0)
  /\ UNCHANGED <<chat, unconfirmed>>

(* The proposal goes out as it is.  Without a confirmation it is not       *)
(* recorded, and may have gone out all the same.                           *)
SendTemplate ==
  /\ pc = "gate" /\ Proposed
  /\ \/ Accept("template", 0) /\ Decided(1) /\ UNCHANGED unconfirmed
     \/ Accept("template", 0) /\ Decided(0) /\ unconfirmed' = unconfirmed + 1
     \/ Accept("template", 0) /\ HarnessStop
     \/ UNCHANGED chat /\ Decided(0) /\ UNCHANGED unconfirmed

(* An edited proposal, or a text of the person's own: never to an opt-out. *)
SendEdited ==
  /\ pc = "gate" /\ Action(Rule) # "suppress_and_stop"
  /\ Accept("hand", 0)
  /\ \/ Decided(0) /\ UNCHANGED unconfirmed
     \/ HarnessStop

(* The opener, gated like every send; it is no auto-reply.                 *)
Opener ==
  /\ pc = "opener"
  /\ UNCHANGED chat \/ Accept("hand", 0)
  /\ pc' = "polling"
  /\ UNCHANGED <<seen, batch, autoReplies, sessions, judged, unconfirmed, overrun, from>>

HarnessNext ==
  \/ HarnessStart \/ Opener \/ HarnessPoll \/ Skip \/ SendTemplate \/ SendEdited \/ HarnessQuit
-----------------------------------------------------------------------------
(* "the loop breaker fires after 2 of them" (conversation_harness.py:26):  *)
(* in a session at most two templates go out unedited, however many        *)
(* messages one read brings, but for those whose sending nobody confirmed. *)
LoopBreakerHolds ==
  pc # "off" =>
  Cardinality({k \in from + 1 .. Len(chat) : chat[k].by = "template"}) <= 2 + unconfirmed

(* No message comes to the gate twice in a session, and once the loop polls*)
(* again none has been passed over that came since the session began,      *)
(* unless more came between two polls than a read returns.                 *)
JudgedOnce ==
  /\ \A j, k \in DOMAIN judged : judged[j] = judged[k] => j = k
  /\ pc = "polling" /\ ~overrun =>
       \A m \in from + 1 .. Newest(seen) : Inbound(m) => \E k \in DOMAIN judged : judged[k] = m
=============================================================================
