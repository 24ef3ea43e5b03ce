------------------------------ MODULE ChatTools ------------------------------
(* The tools of research/ at work on one chat: auto_chat.py, the harness   *)
(* and send_one.py know of each other only what they read there.           *)
EXTENDS AutoChat, ConversationHarness

CONSTANT MaxEvents  (* Bound: messages, and thrice the starts of the tools. *)

ASSUME ToolsAssumption == MaxEvents \in Nat

vars == <<chat, autoVars, harnessVars>>

WithinBound == Len(chat) + 3 * (starts + sessions) <= MaxEvents

TypeOK ==
  /\ WithinBound
  /\ \A m \in DOMAIN chat : chat[m] \in [by : Authors, text : Text \cup {{}}, re : 0 .. m - 1]
  /\ AutoTypeOK /\ HarnessTypeOK

Init == chat = <<>> /\ AutoInit /\ HarnessInit

Next ==
  /\ \/ AutoNext /\ UNCHANGED harnessVars
     \/ HarnessNext /\ UNCHANGED autoVars
     \/ (Arrive \/ SendOne) /\ UNCHANGED <<autoVars, harnessVars>>
  /\ WithinBound'

(* The script goes on as long as nobody stops it; people owe nothing.      *)
Spec ==
  /\ Init /\ [][Next]_vars
  /\ WF_vars(AutoRead /\ UNCHANGED harnessVars)
  /\ WF_vars(AutoSend /\ UNCHANGED harnessVars /\ WithinBound')
=============================================================================
