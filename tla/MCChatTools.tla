----------------------------- MODULE MCChatTools -----------------------------
(* Instances of ChatTools for TLC.                                         *)
EXTENDS ChatTools

(* An opt-out that is also a threat, and a yes that is also a question.    *)
Texts == {{"imperative", "legal"}, {"affirmative", "question"}}
=============================================================================
