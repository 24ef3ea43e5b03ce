--------------------------- MODULE ChatToolsProofs ---------------------------
(***************************************************************************)
(* Theorems about ChatTools, for any texts, limits, caps and bounds.       *)
(***************************************************************************)
EXTENDS ChatTools, FiniteSetTheorems, WellFoundedInduction, SequenceTheorems, TLAPS

Running == {"opening", "polling", "replying"}

Shape ==
  /\ chat \in Seq([by : Authors, text : Text \cup {{}}, re : Nat])
  /\ \A k \in DOMAIN chat : chat[k].re < k
  /\ auto \in [DOMAIN Off -> {auto[f] : f \in DOMAIN Off}]
  /\ auto.last \in Nat /\ auto.last <= Len(chat)
  /\ blind \in Nat

(* What the script may still answer has been answered in blind starts only;*)
(* what it is answering, too.                                              *)
Pending(m) ==
  \/ auto.pc \in Running /\ m \in Recent /\ m > auto.last
  \/ auto.pc = "replying" /\ m = auto.last

Settled(m) ==
  /\ Cardinality(Answers(m)) <= 1 + blind
  /\ Pending(m) => Cardinality(Answers(m)) <= blind

IInv == Shape /\ \A m \in DOMAIN chat : Inbound(m) => Settled(m)
-----------------------------------------------------------------------------
(* A set of message numbers has a newest one.                              *)
LEMMA NewestExists ==
  ASSUME NEW n \in Nat, NEW M \in SUBSET (1 .. n), M # {}
  PROVE  Newest(M) \in M /\ \A k \in M : k <= Newest(M)
<1> DEFINE R == OpToRel(<, Nat)
           T == {n - m : m \in M}
<1>1. T \subseteq Nat /\ T # {}
  <2> HIDE DEF R
  <2>1. \A m \in M : n - m \in Nat
    OBVIOUS
  <2> QED BY <2>1
<1>2. PICK x \in T : \A y \in T : ~ (<<y, x>> \in R)
  <2> HIDE DEF T
  <2> QED BY <1>1, WFMin, NatLessThanWellFounded
<1>3. \A y \in T : y \in Nat /\ ~ (y < x)
  BY <1>1, <1>2 DEF OpToRel
<1>4. PICK m \in M : x = n - m
  BY <1>2
<1>5. \A k \in M : k <= m
  BY <1>3, <1>4
<1>6. \E k \in M : \A j \in M : j <= k
  BY <1>5
<1> HIDE DEF R, T
<1> QED BY <1>6 DEF Newest

(* A read returns numbers of messages.                                     *)
LEMMA ReadIsInChat ==
  ASSUME Shape
  PROVE  Len(chat) \in Nat /\ DOMAIN chat = 1 .. Len(chat) /\ Recent \subseteq 1 .. Len(chat)
BY DEF Shape, Recent

(* One element more at most.                                               *)
LEMMA AddedOne ==
  ASSUME NEW S, NEW T, NEW x, IsFiniteSet(S), T = S \cup {x}
  PROVE  Cardinality(T) <= Cardinality(S) + 1 /\ Cardinality(T) \in Nat
<1>1. Cardinality(S) \in Nat
  BY FS_CardinalityType
<1>2. Cardinality(S \cup {x}) = IF x \in S THEN Cardinality(S) ELSE Cardinality(S) + 1
  BY FS_AddElement
<1> QED BY <1>1, <1>2

(* So the answers to a message can be counted.                             *)
LEMMA AnswersAreFinite ==
  ASSUME Shape, NEW m
  PROVE  IsFiniteSet(Answers(m)) /\ Cardinality(Answers(m)) \in Nat
<1>1. IsFiniteSet(1 .. Len(chat))
  BY ReadIsInChat, FS_Interval
<1>2. Answers(m) \subseteq 1 .. Len(chat)
  BY ReadIsInChat DEF Answers
<1> QED BY <1>1, <1>2, FS_Subset, FS_CardinalityType

(* A new message has no answer, and is at most an answer to one other.     *)
LEMMA Accepted ==
  ASSUME Shape, NEW by \in Authors, NEW t \in Text \cup {{}}, NEW re \in Nat,
         re <= Len(chat), chat' = Append(chat, Message(by, t, re))
  PROVE  /\ chat' \in Seq([by : Authors, text : Text \cup {{}}, re : Nat])
         /\ Len(chat') = Len(chat) + 1
         /\ \A k \in DOMAIN chat' : chat'[k].re < k
         /\ \A m \in DOMAIN chat' :
              /\ Answers(m)' = IF by = "auto" /\ re = m
                               THEN Answers(m) \cup {Len(chat) + 1} ELSE Answers(m)
              /\ m \notin DOMAIN chat => Answers(m)' = {}
              /\ m \in DOMAIN chat => (Inbound(m)' <=> Inbound(m))
              /\ m \in DOMAIN chat /\ m \in Recent' => m \in Recent
<1>1. Message(by, t, re) \in [by : Authors, text : Text \cup {{}}, re : Nat]
  BY DEF Message
<1>2. /\ chat' \in Seq([by : Authors, text : Text \cup {{}}, re : Nat])
      /\ Len(chat') = Len(chat) + 1
      /\ \A k \in 1 .. Len(chat) : chat'[k] = chat[k]
      /\ chat'[Len(chat) + 1] = Message(by, t, re)
  BY <1>1, AppendProperties DEF Shape
<1>3. Len(chat) \in Nat /\ DOMAIN chat = 1 .. Len(chat) /\ DOMAIN chat' = 1 .. Len(chat) + 1
  BY <1>2, ReadIsInChat
<1>4. Message(by, t, re).by = by /\ Message(by, t, re).re = re
  BY DEF Message
<1>5. \A k \in DOMAIN chat' : chat'[k].re < k
  BY <1>2, <1>3, <1>4 DEF Shape
<1>6. ASSUME NEW m \in DOMAIN chat'
      PROVE  /\ Answers(m)' = IF by = "auto" /\ re = m
                              THEN Answers(m) \cup {Len(chat) + 1} ELSE Answers(m)
             /\ m \notin DOMAIN chat => Answers(m)' = {}
  <2>1. Answers(m)' = {k \in 1 .. Len(chat) + 1 : chat'[k].by = "auto" /\ chat'[k].re = m}
    BY <1>3 DEF Answers
  <2>2. Answers(m) = {k \in 1 .. Len(chat) : chat[k].by = "auto" /\ chat[k].re = m}
    BY <1>3 DEF Answers
  <2>3. Answers(m)' = IF by = "auto" /\ re = m
                      THEN Answers(m) \cup {Len(chat) + 1} ELSE Answers(m)
    BY <2>1, <2>2, <1>2, <1>3, <1>4
  <2>4. m \notin DOMAIN chat => m = Len(chat) + 1
    BY <1>3
  <2>5. ASSUME NEW k \in 1 .. Len(chat) + 1, chat'[k].re = Len(chat) + 1 PROVE FALSE
    <3>1. chat'[k].re < k
      BY <1>3, <1>5
    <3> QED BY <2>5, <3>1, <1>3
  <2> QED BY <2>1, <2>3, <2>4, <2>5
<1>7. ASSUME NEW m \in DOMAIN chat
      PROVE  (Inbound(m)' <=> Inbound(m)) /\ (m \in Recent' => m \in Recent)
  BY <1>2, <1>3, ChatAssumption DEF Inbound, Recent
<1> QED BY <1>2, <1>5, <1>6, <1>7
-----------------------------------------------------------------------------
(* Nothing is pending at the start: there is no message.                   *)
LEMMA InitIsSettled == Init => IInv
<1> SUFFICES ASSUME Init PROVE IInv
  OBVIOUS
<1>1. chat = <<>> /\ auto = Off /\ blind = 0
  BY DEF Init, AutoInit
<1>2. Shape
  BY <1>1 DEF Shape, Off
<1> QED BY <1>1, <1>2 DEF IInv

(* A step that does not write to the chat and makes nothing pending.       *)
LEMMA ChatKept ==
  ASSUME IInv, chat' = chat, Shape', blind' = blind,
         \A m \in DOMAIN chat : Inbound(m) /\ Pending(m)' => Pending(m)
  PROVE  IInv'
<1>1. \A m : Answers(m)' = Answers(m) /\ (Inbound(m)' <=> Inbound(m))
  BY DEF Answers, Inbound
<1> QED BY <1>1 DEF IInv, Settled

(* One that writes to it, but answers nothing.                             *)
LEMMA ChatGrows ==
  ASSUME IInv, NEW by \in Authors, NEW t \in Text \cup {{}}, NEW re \in Nat,
         re <= Len(chat), chat' = Append(chat, Message(by, t, re)),
         by = "auto" => re \notin DOMAIN chat,
         \/ auto'.last = auto.last /\ auto'.pc = auto.pc
         \/ auto'.last = auto.last /\ auto'.pc = "polling" /\ auto.pc \in Running
         \/ auto'.last = 0 /\ auto'.pc = "off",
         auto' \in [DOMAIN Off -> {auto'[f] : f \in DOMAIN Off}], blind' = blind
  PROVE  IInv'
<1>1. Shape /\ auto.last \in Nat /\ Len(chat) \in Nat /\ auto.last <= Len(chat) /\ blind \in Nat
  BY ReadIsInChat DEF IInv, Shape
<1>2. /\ chat' \in Seq([by : Authors, text : Text \cup {{}}, re : Nat])
      /\ Len(chat') = Len(chat) + 1
      /\ \A k \in DOMAIN chat' : chat'[k].re < k
  BY <1>1, Accepted
<1>3. Shape'
  BY <1>1, <1>2 DEF Shape
<1>4. ASSUME NEW m \in DOMAIN chat', Inbound(m)'
      PROVE  Settled(m)'
  <2>1. CASE m \notin DOMAIN chat
    <3>1. Answers(m)' = {}
      BY <1>1, <2>1, Accepted
    <3>2. Cardinality(Answers(m))' = 0
      BY <3>1, FS_EmptySet
    <3> QED BY <1>1, <3>2 DEF Settled
  <2>2. CASE m \in DOMAIN chat
    <3>1. Inbound(m) /\ (m \in Recent' => m \in Recent)
      <4>1. /\ m \in DOMAIN chat => (Inbound(m)' <=> Inbound(m))
            /\ m \in DOMAIN chat /\ m \in Recent' => m \in Recent
        BY <1>1, Accepted
      <4> QED BY <1>4, <2>2, <4>1
    <3>2. m > 0
      BY <1>1, <2>2, ReadIsInChat
    <3>3. Answers(m)' = Answers(m)
      <4>1. ~ (by = "auto" /\ re = m)
        BY <2>2
      <4> QED BY <1>1, <4>1, Accepted
    <3>4. Settled(m)
      BY <2>2, <3>1 DEF IInv
    <3>5. Pending(m)' => Pending(m)
      BY <3>1, <3>2 DEF Pending, Running
    <3> QED BY <3>3, <3>4, <3>5 DEF Settled
  <2> QED BY <2>1, <2>2
<1> QED BY <1>3, <1>4 DEF IInv

(* The answer to the message that was being answered.                      *)
LEMMA AnswerSent ==
  ASSUME IInv, auto.pc = "replying", chat' = Append(chat, Message("auto", {}, auto.last)),
         auto'.last = auto.last, auto'.pc \in {"polling", "halted"},
         auto' \in [DOMAIN Off -> {auto'[f] : f \in DOMAIN Off}], blind' = blind
  PROVE  IInv'
<1>1. Shape /\ auto.last \in Nat /\ Len(chat) \in Nat /\ auto.last <= Len(chat) /\ blind \in Nat
  BY ReadIsInChat DEF IInv, Shape
<1>2. "auto" \in Authors /\ {} \in Text \cup {{}}
  BY DEF Authors
<1>3. /\ chat' \in Seq([by : Authors, text : Text \cup {{}}, re : Nat])
      /\ Len(chat') = Len(chat) + 1
      /\ \A k \in DOMAIN chat' : chat'[k].re < k
  BY <1>1, <1>2, Accepted
<1>4. Shape'
  BY <1>1, <1>3 DEF Shape
<1>5. ASSUME NEW m \in DOMAIN chat', Inbound(m)'
      PROVE  Settled(m)'
  <2>1. /\ Answers(m)' = IF auto.last = m THEN Answers(m) \cup {Len(chat) + 1} ELSE Answers(m)
        /\ m \notin DOMAIN chat => Answers(m)' = {}
        /\ m \in DOMAIN chat => Inbound(m) /\ (m \in Recent' => m \in Recent)
    BY <1>1, <1>2, <1>5, Accepted
  <2>2. CASE m \notin DOMAIN chat
    <3>1. Cardinality(Answers(m))' = 0
      BY <2>1, <2>2, FS_EmptySet
    <3> QED BY <1>1, <3>1 DEF Settled
  <2>3. CASE m \in DOMAIN chat /\ m # auto.last
    <3>1. Settled(m) /\ Answers(m)' = Answers(m)
      BY <2>1, <2>3 DEF IInv
    <3>2. Pending(m)' => Pending(m)
      BY <2>1, <2>3 DEF Pending, Running
    <3> QED BY <3>1, <3>2 DEF Settled
  <2>4. CASE m \in DOMAIN chat /\ m = auto.last
    <3>1. Cardinality(Answers(m)) <= blind
      BY <2>1, <2>4 DEF IInv, Settled, Pending
    <3>2. IsFiniteSet(Answers(m)) /\ Cardinality(Answers(m)) \in Nat
      BY <1>1, AnswersAreFinite
    <3>3. Answers(m)' = Answers(m) \cup {Len(chat) + 1}
      BY <2>1, <2>4
    <3>4. /\ Cardinality(Answers(m)') <= Cardinality(Answers(m)) + 1
          /\ Cardinality(Answers(m)') \in Nat
      BY <3>2, <3>3, AddedOne
    <3>5. ~ Pending(m)'
      BY <1>1, <2>4 DEF Pending
    <3> QED BY <1>1, <3>1, <3>2, <3>4, <3>5 DEF Settled
  <2> QED BY <2>2, <2>3, <2>4
<1> QED BY <1>4, <1>5 DEF IInv
-----------------------------------------------------------------------------
(* A start reads where it was: an unanswered message is one that came after*)
(* every message of the script's own that it sees.                         *)
LEMMA StartKeepsIInv == ASSUME IInv, AutoStart PROVE IInv'
<1>1. /\ Shape /\ Len(chat) \in Nat /\ DOMAIN chat = 1 .. Len(chat)
      /\ Recent \subseteq 1 .. Len(chat) /\ blind \in Nat
  BY ReadIsInChat DEF IInv, Shape
<1>2. auto.pc = "off" /\ chat' = chat
  BY DEF AutoStart
<1>3. \A m : Answers(m)' = Answers(m) /\ (Inbound(m)' <=> Inbound(m)) /\ Recent' = Recent
  BY <1>2 DEF Answers, Inbound, Recent
<1>4. CASE auto' = NoChat /\ blind' = blind
  <2>1. Shape' /\ auto'.pc = "halted"
    BY <1>1, <1>2, <1>4 DEF Shape, NoChat, Off
  <2>2. \A m \in DOMAIN chat : ~ Pending(m)'
    BY <2>1 DEF Pending, Running
  <2> QED BY <1>2, <1>4, <2>1, <2>2, ChatKept
<1>5. ASSUME NEW history \in {Recent, {}}, NEW catchUp \in BOOLEAN,
             auto' = [Off EXCEPT
               !.pc = IF {m \in history : ~Inbound(m)} = {} THEN "opening" ELSE "polling",
               !.last = Newest(IF catchUp THEN {m \in history : ~Inbound(m)} ELSE history)],
             blind' = IF history = Recent THEN blind ELSE blind + 1
      PROVE  IInv'
  <2> DEFINE heard == IF catchUp THEN {m \in history : ~Inbound(m)} ELSE history
  <2>1. heard \subseteq Recent /\ history \subseteq Recent
    OBVIOUS
  <2>2. /\ auto' \in [DOMAIN Off -> {auto'[f] : f \in DOMAIN Off}]
        /\ auto'.last = Newest(heard) /\ auto'.pc \in {"opening", "polling"}
    BY <1>5 DEF Off
  <2>3. heard # {} => Newest(heard) \in heard /\ \A k \in heard : k <= Newest(heard)
    BY <1>1, <2>1, NewestExists
  <2>4. Newest(heard) \in Nat /\ Newest(heard) <= Len(chat)
    <3>1. CASE heard = {}
      <4>1. Newest(heard) = 0
        BY <3>1 DEF Newest
      <4> HIDE DEF heard
      <4> QED BY <1>1, <4>1
    <3>2. CASE heard # {}
      <4>1. Newest(heard) \in 1 .. Len(chat)
        <5>1. Newest(heard) \in heard
          BY <2>3, <3>2
        <5> HIDE DEF heard
        <5> QED BY <1>1, <2>1, <5>1
      <4> HIDE DEF heard
      <4> QED BY <1>1, <4>1
    <3> HIDE DEF heard
    <3> QED BY <3>1, <3>2
  <2>5. blind' \in Nat /\ blind <= blind'
    BY <1>1, <1>5
  <2>6. Shape'
    BY <1>1, <1>2, <2>2, <2>4, <2>5 DEF Shape
  <2>7. ASSUME NEW m \in DOMAIN chat, Inbound(m), Pending(m)'
        PROVE  Cardinality(Answers(m)) <= blind'
    <3>1. m \in Recent /\ m > Newest(heard)
      BY <1>3, <2>2, <2>7 DEF Pending
    <3>2. CASE history = Recent
      <4>1. catchUp
        <5>1. SUFFICES ASSUME ~ catchUp PROVE FALSE
          OBVIOUS
        <5>2. m \in heard
          BY <3>1, <3>2, <5>1
        <5>3. m <= Newest(heard)
          BY <2>3, <5>2
        <5> HIDE DEF heard
        <5> QED BY <1>1, <2>4, <3>1, <5>3
      <4>2. ASSUME NEW k \in Answers(m) PROVE FALSE
        <5>1. k \in 1 .. Len(chat) /\ chat[k].by = "auto" /\ m < k
          BY <1>1, <4>2 DEF Answers, Shape
        <5>2. k \in Recent /\ ~ Inbound(k)
          BY <1>1, <3>1, <5>1, ChatAssumption DEF Recent, Inbound
        <5>3. k <= Newest(heard)
          BY <2>3, <3>2, <4>1, <5>2
        <5> QED BY <1>1, <2>4, <3>1, <5>1, <5>3
      <4>3. Cardinality(Answers(m)) = 0
        BY <4>2, FS_EmptySet
      <4> QED BY <1>1, <2>5, <4>3
    <3>3. CASE history # Recent
      <4>1. Cardinality(Answers(m)) <= 1 + blind
        BY <2>7 DEF IInv, Settled
      <4>2. Cardinality(Answers(m)) \in Nat
        BY <1>1, AnswersAreFinite
      <4> QED BY <1>1, <1>5, <3>3, <4>1, <4>2
    <3> QED BY <3>2, <3>3
  <2>8. ASSUME NEW m \in DOMAIN chat, Inbound(m)
        PROVE  Cardinality(Answers(m)) <= 1 + blind'
    <3>1. Cardinality(Answers(m)) <= 1 + blind /\ Cardinality(Answers(m)) \in Nat
      BY <1>1, <2>8, AnswersAreFinite DEF IInv, Settled
    <3> QED BY <1>1, <2>5, <3>1
  <2> QED BY <1>2, <1>3, <2>6, <2>7, <2>8 DEF IInv, Settled
<1> QED BY <1>4, <1>5 DEF AutoStart

(* The opener answers nothing, and forgets everything when it raises.      *)
LEMMA OpenKeepsIInv == ASSUME IInv, AutoOpen PROVE IInv'
<1>1. /\ Shape /\ Len(chat) \in Nat /\ DOMAIN chat = 1 .. Len(chat) /\ auto.last \in Nat
      /\ auto.last <= Len(chat)
  BY ReadIsInChat DEF IInv, Shape
<1>2. /\ auto.pc = "opening" /\ blind' = blind
      /\ auto' = [auto EXCEPT !.pc = "polling"] \/ auto' = Off
  BY DEF AutoOpen
<1>3. /\ auto' \in [DOMAIN Off -> {auto'[f] : f \in DOMAIN Off}]
      /\ \/ auto'.last = auto.last /\ auto'.pc = "polling" /\ auto.pc \in Running
         \/ auto'.last = 0 /\ auto'.pc = "off"
  BY <1>1, <1>2 DEF Off, Shape, Running
<1>4. CASE chat' = chat
  <2>1. Shape'
    BY <1>1, <1>2, <1>3, <1>4 DEF Shape
  <2>2. \A m \in DOMAIN chat : Pending(m)' => Pending(m)
    BY <1>2, <1>3, <1>4 DEF Pending, Running, Recent
  <2> QED BY <1>2, <1>4, <2>1, <2>2, ChatKept
<1>5. CASE Accept("auto", 0)
  <2>1. /\ "auto" \in Authors /\ {} \in Text \cup {{}} /\ 0 <= Len(chat) /\ 0 \in Nat
        /\ 0 \notin DOMAIN chat /\ chat' = Append(chat, Message("auto", {}, 0))
    BY <1>1, <1>5 DEF Authors, Accept
  <2> QED BY <1>2, <1>3, <2>1, ChatGrows
<1> QED BY <1>4, <1>5 DEF AutoOpen

(* The message to be answered is one that was pending.                     *)
LEMMA ReadKeepsIInv == ASSUME IInv, AutoRead PROVE IInv'
<1> DEFINE new == {m \in Recent : Inbound(m) /\ IsNew(m)}
<1>1. /\ Shape /\ Len(chat) \in Nat /\ DOMAIN chat = 1 .. Len(chat) /\ auto.last \in Nat
      /\ auto.last <= Len(chat) /\ Recent \subseteq 1 .. Len(chat)
  BY ReadIsInChat DEF IInv, Shape
<1>2. auto.pc = "polling" /\ blind' = blind /\ chat' = chat /\ new # {}
  BY DEF AutoRead
<1>3. PICK intent :
        \/ auto' = [auto EXCEPT !.pc = "halted", !.last = Newest(new)]
        \/ auto' = [auto EXCEPT !.last = Newest(new)]
        \/ auto' = [auto EXCEPT !.pc = "replying", !.last = Newest(new), !.intent = intent]
  BY DEF AutoRead, Processed
<1>4. Newest(new) \in new /\ \A k \in new : k <= Newest(new)
  BY <1>1, <1>2, NewestExists
<1>5. Newest(new) \in Nat /\ Newest(new) <= Len(chat) /\ Newest(new) > auto.last
  <2>1. Newest(new) \in Recent /\ IsNew(Newest(new))
    BY <1>4
  <2> HIDE DEF new
  <2>2. Newest(new) \in 1 .. Len(chat) /\ Newest(new) > auto.last
    BY <1>1, <2>1 DEF IsNew
  <2> QED BY <1>1, <2>2
<1>6. /\ auto' \in [DOMAIN Off -> {auto'[f] : f \in DOMAIN Off}] /\ auto'.last = Newest(new)
      /\ auto'.pc \in {"halted", "polling", "replying"}
  BY <1>1, <1>2, <1>3 DEF Off, Shape
<1>7. Shape'
  BY <1>1, <1>2, <1>5, <1>6 DEF Shape
<1>8. ASSUME NEW m \in DOMAIN chat, Inbound(m), Pending(m)' PROVE Pending(m)
  <2>1. m = Newest(new) \/ (m \in Recent /\ m > Newest(new))
    BY <1>2, <1>6, <1>8 DEF Pending, Recent
  <2>2. m \in Recent /\ m > auto.last
    BY <1>1, <1>4, <1>5, <2>1
  <2> QED BY <1>2, <2>2 DEF Pending, Running
<1> QED BY <1>2, <1>7, <1>8, ChatKept

(* The message is not pending any more, sent or not.                       *)
LEMMA SendKeepsIInv == ASSUME IInv, AutoSend PROVE IInv'
<1>1. /\ Shape /\ Len(chat) \in Nat /\ auto.last \in Nat /\ auto.last <= Len(chat)
  BY ReadIsInChat DEF IInv, Shape
<1>2. /\ auto.pc = "replying" /\ blind' = blind
      /\ auto' \in {Replied, [auto EXCEPT !.pc = "polling", !.intent = Silent]}
  BY DEF AutoSend
<1>3. /\ auto' \in [DOMAIN Off -> {auto'[f] : f \in DOMAIN Off}] /\ auto'.last = auto.last
      /\ auto'.pc \in {"polling", "halted"}
  BY <1>1, <1>2 DEF Off, Shape, Replied
<1>4. CASE chat' = chat
  <2>1. Shape'
    BY <1>1, <1>2, <1>3, <1>4 DEF Shape
  <2>2. \A m \in DOMAIN chat : Pending(m)' => Pending(m)
    BY <1>2, <1>3, <1>4 DEF Pending, Running, Recent
  <2> QED BY <1>2, <1>4, <2>1, <2>2, ChatKept
<1>5. CASE Accept("auto", auto.last)
  BY <1>2, <1>3, <1>5, AnswerSent DEF Accept
<1> QED BY <1>4, <1>5 DEF AutoSend

(* A script that is off answers nothing.                                   *)
LEMMA StopKeepsIInv == ASSUME IInv, AutoStop PROVE IInv'
<1>1. Shape /\ Len(chat) \in Nat /\ chat' = chat /\ blind' = blind /\ auto' = Off
  BY ReadIsInChat DEF IInv, AutoStop
<1>2. Shape'
  BY <1>1 DEF Shape, Off
<1>3. \A m \in DOMAIN chat : ~ Pending(m)'
  BY <1>1 DEF Pending, Running, Off
<1> QED BY <1>1, <1>2, <1>3, ChatKept

(* Whoever else writes to the chat answers nothing.                        *)
LEMMA OthersKeepIInv ==
  ASSUME IInv, UNCHANGED autoVars,
         \/ UNCHANGED chat
         \/ \E by \in {"lead", "template", "hand"}, t \in Text \cup {{}} :
              chat' = Append(chat, Message(by, t, 0))
  PROVE  IInv'
<1>1. Shape /\ Len(chat) \in Nat /\ auto' = auto /\ blind' = blind
  BY ReadIsInChat DEF IInv, autoVars
<1>2. CASE chat' = chat
  <2>1. Shape' /\ \A m \in DOMAIN chat : Pending(m)' => Pending(m)
    BY <1>1, <1>2 DEF Shape, Pending, Recent
  <2> QED BY <1>1, <1>2, <2>1, ChatKept
<1>3. ASSUME NEW by \in {"lead", "template", "hand"}, NEW t \in Text \cup {{}},
             chat' = Append(chat, Message(by, t, 0))
      PROVE  IInv'
  <2>1. by \in Authors /\ by # "auto" /\ 0 \in Nat /\ 0 <= Len(chat)
    BY <1>1 DEF Authors
  <2>2. auto' \in [DOMAIN Off -> {auto'[f] : f \in DOMAIN Off}]
    BY <1>1 DEF Shape
  <2> QED BY <1>1, <1>3, <2>1, <2>2, ChatGrows
<1> QED BY <1>2, <1>3

(* One step per action of the script; the other tools write as others do.  *)
LEMMA NextKeepsIInv == ASSUME IInv, [Next]_vars PROVE IInv'
<1>1. CASE AutoNext
  BY <1>1, StartKeepsIInv, OpenKeepsIInv, ReadKeepsIInv, SendKeepsIInv, StopKeepsIInv DEF AutoNext
<1>2. CASE HarnessNext /\ UNCHANGED autoVars
  <2>1. \/ UNCHANGED chat
        \/ \E by \in {"lead", "template", "hand"}, t \in Text \cup {{}} :
             chat' = Append(chat, Message(by, t, 0))
    <3>1. CASE HarnessStart \/ HarnessPoll \/ Skip \/ HarnessQuit
      BY <3>1 DEF HarnessStart, HarnessPoll, Skip, HarnessQuit
    <3>2. CASE Opener \/ SendTemplate \/ SendEdited
      BY <3>2 DEF Opener, SendTemplate, SendEdited, Accept
    <3> QED BY <1>2, <3>1, <3>2 DEF HarnessNext
  <2> QED BY <1>2, <2>1, OthersKeepIInv
<1>3. CASE (Arrive \/ SendOne) /\ UNCHANGED <<autoVars, harnessVars>>
  BY <1>3, OthersKeepIInv DEF Arrive, SendOne, Accept
<1>4. CASE UNCHANGED vars
  BY <1>4, OthersKeepIInv DEF vars, autoVars
<1> QED BY <1>1, <1>2, <1>3, <1>4 DEF Next

(* No inbound message is answered twice by auto_chat.py, but for one more  *)
(* answer per start whose read of the history failed: through lost answers *)
(* of the vendor, restarts, catching up, and what others write meanwhile.  *)
THEOREM RepliesAreSingle == Spec => []OneReplyPerInbound
<1>1. IInv => OneReplyPerInbound
  BY DEF IInv, OneReplyPerInbound, Settled
<1> QED BY <1>1, InitIsSettled, NextKeepsIInv, PTL DEF Spec
-----------------------------------------------------------------------------
(* A set of message numbers can be gone through in their order.            *)
Rises(s) == \A j, k \in DOMAIN s : j < k => s[j] < s[k]

Orders(M) == {s \in [1 .. Cardinality(M) -> M] : Rises(s)}

LEMMA NumbersAreFinite ==
  ASSUME NEW n \in Nat, NEW M \in SUBSET (1 .. n)
  PROVE  IsFiniteSet(M) /\ Cardinality(M) \in Nat
<1>1. IsFiniteSet(1 .. n)
  BY FS_Interval
<1>2. IsFiniteSet(M)
  BY <1>1, FS_Subset
<1> QED BY <1>2, FS_CardinalityType

(* The newest message comes last.                                          *)
LEMMA OrderGrows ==
  ASSUME NEW n \in Nat, NEW K \in SUBSET (1 .. n), K # {},
         Orders(K \ {Newest(K)}) # {}
  PROVE  Orders(K) # {}
<1> DEFINE top == Newest(K)
           rest == K \ {top}
           c == Cardinality(rest)
<1>1. top \in K /\ \A k \in K : k <= top
  BY NewestExists
<1>2. IsFiniteSet(K) /\ Cardinality(K) \in Nat /\ c \in Nat /\ Cardinality(K) = c + 1
  <2>1. IsFiniteSet(1 .. n)
    BY FS_Interval
  <2>2. IsFiniteSet(K) /\ IsFiniteSet(rest)
    BY <2>1, FS_Subset
  <2>3. Cardinality(K) \in Nat /\ c \in Nat
    BY <2>2, FS_CardinalityType
  <2>4. c = Cardinality(K) - 1
    BY <1>1, <2>2, FS_RemoveElement
  <2> HIDE DEF c, rest, top
  <2> QED BY <2>2, <2>3, <2>4
<1>3. PICK s \in [1 .. c -> rest] : Rises(s)
  BY DEF Orders
<1>4. \A k \in rest : k \in Nat /\ k < top
  <2>1. \A k \in K : k \in Nat
    OBVIOUS
  <2>2. top \in Nat
    BY <1>1, <2>1
  <2> HIDE DEF top
  <2> QED BY <1>1, <2>1, <2>2
<1> DEFINE t == [i \in 1 .. c + 1 |-> IF i <= c THEN s[i] ELSE top]
<1>5. t \in [1 .. c + 1 -> K]
  <2>1. rest \subseteq K
    OBVIOUS
  <2>2. \A i \in 1 .. c + 1 : i <= c => s[i] \in K
    <3> HIDE DEF c, rest
    <3>1. \A i \in 1 .. c : s[i] \in rest
      BY <1>3
    <3>2. \A i \in 1 .. c + 1 : i <= c => i \in 1 .. c
      BY <1>2
    <3> QED BY <2>1, <3>1, <3>2
  <2> HIDE DEF c, top
  <2> QED BY <1>1, <2>2
<1>6. Rises(t)
  <2>1. SUFFICES ASSUME NEW j \in 1 .. c + 1, NEW k \in 1 .. c + 1, j < k
                 PROVE  t[j] < t[k]
    BY DEF Rises
  <2> HIDE DEF c, top, rest
  <2>2. j \in 1 .. c
    BY <1>2, <2>1
  <2>3. CASE k <= c
    BY <1>2, <1>3, <2>1, <2>2, <2>3 DEF Rises
  <2>4. CASE ~(k <= c)
    <3>1. t[j] = s[j] /\ s[j] \in rest /\ t[k] = top
      BY <1>2, <1>3, <2>2, <2>4
    <3> QED BY <1>4, <3>1
  <2> QED BY <2>3, <2>4
<1> HIDE DEF t, c
<1> QED BY <1>2, <1>5, <1>6 DEF Orders

LEMMA OrderExists ==
  ASSUME NEW n \in Nat, NEW M \in SUBSET (1 .. n)
  PROVE  Orders(M) # {}
<1> DEFINE R == OpToRel(<, Nat)
           Bad == {k \in Nat : \E K \in SUBSET (1 .. n) : Cardinality(K) = k /\ Orders(K) = {}}
<1>1. ASSUME NEW K \in SUBSET (1 .. n) PROVE IsFiniteSet(K) /\ Cardinality(K) \in Nat
  BY NumbersAreFinite
<1>2. SUFFICES ASSUME Bad # {} PROVE FALSE
  <2>1. Orders(M) = {} => Cardinality(M) \in Bad
    BY <1>1
  <2> QED BY <1>2, <2>1
<1>3. PICK x \in Bad : \A y \in Bad : ~ (<<y, x>> \in R)
  <2>1. Bad \subseteq Nat
    OBVIOUS
  <2> HIDE DEF Bad, R
  <2>2. IsWellFoundedOn(R, Nat)
    BY NatLessThanWellFounded DEF R
  <2> QED BY <1>2, <2>1, <2>2, WFMin
<1>4. \A y \in Bad : y \in Nat /\ ~ (y < x)
  BY <1>3 DEF OpToRel
<1>5. PICK K \in SUBSET (1 .. n) : Cardinality(K) = x /\ Orders(K) = {}
  BY <1>3
<1> HIDE DEF R
<1>6. K # {}
  <2>1. SUFFICES ASSUME K = {} PROVE FALSE
    OBVIOUS
  <2>2. Cardinality(K) = 0
    BY <2>1, FS_EmptySet
  <2>3. [i \in 1 .. 0 |-> 0] \in Orders(K)
    BY <2>1, <2>2 DEF Orders, Rises
  <2> QED BY <1>5, <2>3
<1> DEFINE rest == K \ {Newest(K)}
<1>7. Cardinality(rest) \in Nat /\ Cardinality(rest) < x
  <2>1. Newest(K) \in K
    BY <1>6, NewestExists
  <2>2. IsFiniteSet(K) /\ Cardinality(K) \in Nat /\ Cardinality(rest) \in Nat
    BY <1>1
  <2>3. Cardinality(rest) = Cardinality(K) - 1
    BY <2>1, <2>2, FS_RemoveElement
  <2> HIDE DEF rest
  <2> QED BY <1>5, <2>2, <2>3
<1>8. Orders(rest) # {}
  <2>1. rest \in SUBSET (1 .. n)
    OBVIOUS
  <2>2. Cardinality(rest) \notin Bad
    BY <1>4, <1>7
  <2> HIDE DEF rest
  <2> QED BY <1>7, <2>1, <2>2
<1> QED BY <1>5, <1>6, <1>8, OrderGrows

(* So the harness goes through each of the messages once.                  *)
LEMMA SortedIsAll ==
  ASSUME NEW n \in Nat, NEW M \in SUBSET (1 .. n)
  PROVE  /\ Sorted(M) \in Seq(M)
         /\ \A j, k \in DOMAIN Sorted(M) : Sorted(M)[j] = Sorted(M)[k] => j = k
         /\ \A m \in M : \E k \in DOMAIN Sorted(M) : Sorted(M)[k] = m
<1> DEFINE c == Cardinality(M)
           s == Sorted(M)
<1>1. s \in [1 .. c -> M] /\ Rises(s)
  <2>1. \E t \in [1 .. c -> M] : \A j, k \in DOMAIN t : j < k => t[j] < t[k]
    BY OrderExists DEF Orders, Rises
  <2> QED BY <2>1 DEF Sorted, Rises
<1>2. IsFiniteSet(M) /\ c \in Nat
  BY NumbersAreFinite
<1>3. \A j, k \in DOMAIN s : s[j] = s[k] => j = k
  <2> HIDE DEF s, c
  <2>0. DOMAIN s = 1 .. c /\ (\A j \in 1 .. c : s[j] \in M) /\ \A m \in M : m \in Nat
    BY <1>1
  <2>1. \A j \in DOMAIN s : j \in Nat /\ s[j] \in Nat
    <3>1. \A j \in 1 .. c : j \in Nat
      BY <1>2
    <3> QED BY <2>0, <3>1
  <2> QED BY <2>1, <1>1 DEF Rises
<1>4. s \in Seq(M)
  <2> HIDE DEF s, c
  <2> QED BY <1>1, <1>2
<1>5. s \in Injection(1 .. c, M)
  BY <1>1, <1>3 DEF Injection, IsInjective
<1>6. Cardinality(1 .. c) = c
  <2> HIDE DEF c
  <2> QED BY <1>2, FS_Interval
<1>7. s \in Surjection(1 .. c, M)
  <2> HIDE DEF s
  <2> QED BY <1>2, <1>5, <1>6, FS_Injection
<1>8. \A m \in M : \E k \in DOMAIN s : s[k] = m
  BY <1>1, <1>7 DEF Surjection
<1> QED BY <1>3, <1>4, <1>8
-----------------------------------------------------------------------------
(* The types, with what the script knows when it answers: that it has an   *)
(* answer left and which.                                                  *)
Threads ==
  [pc : {"off", "opening", "polling", "replying", "halted"}, last : Nat,
   count : 0 .. MaxReplies, reply : Intents \cup {Silent}, clarified : BOOLEAN,
   intent : Intents \cup {Silent}]

ChatType ==
  /\ chat \in Seq([by : Authors, text : Text \cup {{}}, re : Nat])
  /\ \A k \in DOMAIN chat : chat[k].re < k

AutoType ==
  /\ auto \in Threads /\ auto.last <= Len(chat)
  /\ auto.pc = "replying" => auto.count < MaxReplies /\ auto.intent \in Intents
  /\ starts \in Nat /\ blind \in 0 .. starts

Typed == ChatType /\ AutoType /\ HarnessTypeOK

(* Every step leaves the chat as it is or adds one message.                *)
LEMMA ChatStep ==
  ASSUME Typed, [Next]_vars
  PROVE  \/ chat' = chat
         \/ \E by \in Authors, t \in Text \cup {{}}, re \in 0 .. Len(chat) :
              chat' = Append(chat, Message(by, t, re))
<1>1. Len(chat) \in Nat /\ auto.last \in 0 .. Len(chat) /\ 0 \in 0 .. Len(chat)
  BY DEF Typed, ChatType, AutoType, Threads
<1>2. {} \in Text \cup {{}} /\ {"auto", "lead", "hand", "template"} \subseteq Authors
  BY DEF Authors
<1>3. ASSUME NEW by \in {"auto", "lead", "hand", "template"}, NEW re \in 0 .. Len(chat), Accept(by, re)
      PROVE  \E b \in Authors, t \in Text \cup {{}}, r \in 0 .. Len(chat) :
               chat' = Append(chat, Message(b, t, r))
  BY <1>2, <1>3 DEF Accept
<1>4. CASE AutoNext
  BY <1>1, <1>3, <1>4 DEF AutoNext, AutoStart, AutoOpen, AutoRead, AutoSend, AutoStop
<1>5. CASE HarnessNext
  BY <1>1, <1>3, <1>5
  DEF HarnessNext, HarnessStart, Opener, HarnessPoll, Skip, SendTemplate, SendEdited, HarnessQuit
<1>6. CASE Arrive \/ SendOne
  BY <1>1, <1>2, <1>3, <1>6 DEF Arrive, SendOne
<1>7. CASE UNCHANGED vars
  BY <1>7 DEF vars
<1> QED BY <1>4, <1>5, <1>6, <1>7 DEF Next

LEMMA ChatGrown ==
  ASSUME Typed, [Next]_vars
  PROVE  /\ ChatType'
         /\ Len(chat) \in Nat /\ Len(chat') \in Nat /\ Len(chat) <= Len(chat')
         /\ DOMAIN chat = 1 .. Len(chat) /\ DOMAIN chat' = 1 .. Len(chat')
         /\ \A k \in 1 .. Len(chat) : chat'[k] = chat[k]
<1> DEFINE M == [by : Authors, text : Text \cup {{}}, re : Nat]
<1>1. chat \in Seq(M) /\ Len(chat) \in Nat /\ DOMAIN chat = 1 .. Len(chat)
  BY DEF Typed, ChatType
<1>2. CASE chat' = chat
  BY <1>1, <1>2 DEF Typed, ChatType
<1>3. ASSUME NEW by \in Authors, NEW t \in Text \cup {{}}, NEW re \in 0 .. Len(chat),
             chat' = Append(chat, Message(by, t, re))
      PROVE  /\ ChatType'
             /\ Len(chat') = Len(chat) + 1
             /\ DOMAIN chat' = 1 .. Len(chat) + 1
             /\ \A k \in 1 .. Len(chat) : chat'[k] = chat[k]
  <2>1. Message(by, t, re) \in M /\ Message(by, t, re).re = re
    BY <1>1 DEF Message
  <2>2. /\ chat' \in Seq(M)
        /\ Len(chat') = Len(chat) + 1
        /\ \A k \in 1 .. Len(chat) : chat'[k] = chat[k]
        /\ chat'[Len(chat) + 1] = Message(by, t, re)
    BY <1>1, <1>3, <2>1, AppendProperties
  <2>3. DOMAIN chat' = 1 .. Len(chat) + 1
    BY <1>1, <2>2
  <2>4. \A k \in DOMAIN chat' : chat'[k].re < k
    <3>1. \A k \in 1 .. Len(chat) : chat[k].re < k
      BY <1>1 DEF Typed, ChatType
    <3>2. re < Len(chat) + 1
      BY <1>1
    <3>3. \A k \in 1 .. Len(chat) + 1 : k \in 1 .. Len(chat) \/ k = Len(chat) + 1
      BY <1>1
    <3> QED BY <2>1, <2>2, <2>3, <3>1, <3>2, <3>3
  <2> QED BY <2>2, <2>3, <2>4 DEF ChatType
<1>4. CASE ~(chat' = chat)
  <2>1. /\ ChatType' /\ Len(chat') = Len(chat) + 1
        /\ DOMAIN chat' = 1 .. Len(chat) + 1
        /\ \A k \in 1 .. Len(chat) : chat'[k] = chat[k]
    BY <1>3, <1>4, ChatStep
  <2> QED BY <1>1, <2>1
<1> QED BY <1>2, <1>4

(* A read, and what is new in it.                                          *)
LEMMA NewestIsInChat ==
  ASSUME ChatType, NEW M \in SUBSET (1 .. Len(chat))
  PROVE  Newest(M) \in Nat /\ Newest(M) <= Len(chat) /\ (M # {} => Newest(M) \in M)
<1>1. Len(chat) \in Nat
  BY DEF ChatType
<1>2. CASE M = {}
  BY <1>1, <1>2 DEF Newest
<1>3. CASE M # {}
  <2>1. Newest(M) \in M
    BY <1>1, <1>3, NewestExists
  <2>2. Newest(M) \in 1 .. Len(chat)
    BY <2>1
  <2> QED BY <1>1, <2>1, <2>2
<1> QED BY <1>2, <1>3

LEMMA LeastExists ==
  ASSUME NEW M \in SUBSET Nat, M # {}
  PROVE  \E k \in M : \A j \in M : k <= j
<1> DEFINE L == OpToRel(<, Nat)
<1>1. IsWellFoundedOn(L, Nat)
  BY NatLessThanWellFounded
<1>2. PICK k \in M : \A j \in M : ~ (<<j, k>> \in L)
  <2> HIDE DEF L
  <2> QED BY <1>1, WFMin
<1>3. \A j \in M : j \in Nat /\ k \in Nat /\ ~ (j < k)
  BY <1>2 DEF OpToRel
<1> HIDE DEF L
<1> QED BY <1>3

(* A text that the guardrails let pass has an intent among the buckets'.   *)
LEMMA IntentType ==
  ASSUME NEW t, NEW rule, Action(rule) = "proceed"
  PROVE  BucketIntent(t, rule) \in Intents
<1> DEFINE hits == {k \in DOMAIN Buckets : Buckets[k][1] \in t}
<1>1. rule \notin {"opt_out", "legal_escalation", "hostility", "bounce_or_autoreply"}
  BY DEF Action
<1>2. BucketIntent(t, rule) = IF hits = {} THEN "Unclear"
                     ELSE Buckets[CHOOSE k \in hits : \A j \in hits : k <= j][2]
  BY <1>1, Zenon DEF BucketIntent
<1>3. hits # {} => (CHOOSE k \in hits : \A j \in hits : k <= j) \in hits
  <2>1. hits # {} => \E k \in hits : \A j \in hits : k <= j
    <3>1. hits \subseteq 1 .. 10
      BY DEF Buckets
    <3>2. hits \subseteq Nat
      <4> HIDE DEF hits
      <4> QED BY <3>1
    <3> HIDE DEF hits
    <3> QED BY <3>2, LeastExists
  <2> HIDE DEF hits
  <2> QED BY <2>1
<1>4. \A k \in DOMAIN Buckets : Buckets[k][2] \in Intents
  BY DEF Intents
<1>5. hits \subseteq DOMAIN Buckets
  OBVIOUS
<1>6. "Unclear" \in Intents
  BY DEF Intents
<1> HIDE DEF hits
<1> QED BY <1>2, <1>3, <1>4, <1>5, <1>6
-----------------------------------------------------------------------------
LEMMA AutoTypeStep ==
  ASSUME Typed, [Next]_vars
  PROVE  AutoType'
<1>1. /\ Len(chat) \in Nat /\ Len(chat') \in Nat /\ Len(chat) <= Len(chat')
      /\ DOMAIN chat = 1 .. Len(chat) /\ ChatType /\ Recent \subseteq 1 .. Len(chat)
  BY ChatGrown DEF Typed, Recent
<1>2. /\ auto \in Threads /\ auto.last \in Nat /\ auto.last <= Len(chat)
      /\ starts \in Nat /\ blind \in 0 .. starts /\ MaxReplies \in Nat
      /\ auto.pc = "replying" => auto.count < MaxReplies /\ auto.intent \in Intents
  BY AutoAssumption DEF Typed, AutoType, Threads
<1>3. Off \in Threads /\ Off.last = 0 /\ Off.pc = "off"
  BY <1>2 DEF Off, Threads
<1>4. ASSUME auto' \in Threads, auto'.last <= Len(chat),
             auto'.pc = "replying" => auto'.count < MaxReplies /\ auto'.intent \in Intents,
             starts' \in Nat, blind' \in 0 .. starts'
      PROVE  AutoType'
  <2>1. auto'.last \in Nat
    BY <1>4 DEF Threads
  <2>2. auto'.last <= Len(chat')
    BY <1>1, <1>4, <2>1
  <2> QED BY <1>4, <2>2 DEF AutoType
<1>5. CASE UNCHANGED autoVars
  BY <1>2, <1>4, <1>5 DEF autoVars
<1>6. CASE AutoStart
  <2>1. starts' = starts + 1 /\ starts' \in Nat /\ blind \in 0 .. starts' /\ blind + 1 \in 0 .. starts'
    <3>1. starts' = starts + 1
      BY <1>6 DEF AutoStart
    <3> QED BY <1>2, <3>1
  <2>2. CASE auto' = NoChat /\ UNCHANGED blind
    <3>1. NoChat \in Threads /\ NoChat.last = 0 /\ NoChat.pc = "halted"
      BY <1>3 DEF NoChat, Threads, Off
    <3> QED BY <1>1, <1>4, <2>1, <2>2, <3>1
  <2>3. ASSUME NEW history \in {Recent, {}}, NEW catchUp \in BOOLEAN,
               auto' = [Off EXCEPT
                 !.pc = IF {m \in history : ~Inbound(m)} = {} THEN "opening" ELSE "polling",
                 !.last = Newest(IF catchUp THEN {m \in history : ~Inbound(m)} ELSE history)],
               blind' = IF history = Recent THEN blind ELSE blind + 1
        PROVE  AutoType'
    <3> DEFINE heard == IF catchUp THEN {m \in history : ~Inbound(m)} ELSE history
    <3>1. heard \in SUBSET (1 .. Len(chat))
      BY <1>1
    <3>2. Newest(heard) \in Nat /\ Newest(heard) <= Len(chat)
      BY <1>1, <3>1, NewestIsInChat
    <3>3. auto'.pc \in {"opening", "polling"} /\ auto'.last = Newest(heard)
      BY <2>3 DEF Off
    <3>4. auto' = [Off EXCEPT !.pc = auto'.pc, !.last = Newest(heard)]
      BY <2>3, <3>3
    <3> HIDE DEF heard
    <3>5. auto' \in Threads
      BY <1>3, <3>2, <3>3, <3>4 DEF Threads
    <3>6. blind' \in 0 .. starts'
      BY <2>1, <2>3
    <3> QED BY <1>4, <2>1, <3>2, <3>3, <3>5, <3>6
  <2> QED BY <1>6, <2>2, <2>3 DEF AutoStart
<1>7. CASE AutoOpen
  <2>1. auto' \in {[auto EXCEPT !.pc = "polling"], Off} /\ starts' = starts /\ blind' = blind
    BY <1>7 DEF AutoOpen
  <2>2. auto' \in Threads /\ auto'.last <= Len(chat) /\ auto'.pc # "replying"
    BY <1>1, <1>2, <1>3, <2>1 DEF Threads
  <2> QED BY <1>2, <1>4, <2>1, <2>2
<1>8. CASE AutoRead
  <2> DEFINE new == {m \in Recent : Inbound(m) /\ IsNew(m)}
             rule == Evaluate(chat[Newest(new)].text, 0)
             intent == BucketIntent(chat[Newest(new)].text, rule)
  <2>1. /\ \/ auto' = [auto EXCEPT !.pc = "halted", !.last = Newest(new)]
           \/ auto' = [auto EXCEPT !.last = Newest(new)]
           \/ /\ auto' = [auto EXCEPT !.pc = "replying", !.last = Newest(new), !.intent = intent]
              /\ Action(rule) = "proceed" /\ ~Capped
        /\ auto.pc = "polling" /\ starts' = starts /\ blind' = blind
    BY <1>8 DEF AutoRead, Processed
  <2>2. Newest(new) \in Nat /\ Newest(new) <= Len(chat)
    <3>1. new \in SUBSET (1 .. Len(chat))
      BY <1>1
    <3> QED BY <1>1, <3>1, NewestIsInChat
  <2>3. Action(rule) = "proceed" => intent \in Intents
    BY IntentType
  <2>4. ~Capped => auto.count < MaxReplies
    BY <1>2 DEF Capped, Threads
  <2> HIDE DEF new, rule, intent
  <2>5. auto' \in Threads /\ auto'.last = Newest(new)
    BY <1>2, <2>1, <2>2, <2>3 DEF Threads
  <2>6. auto'.pc = "replying" => auto'.count < MaxReplies /\ auto'.intent \in Intents
    BY <1>2, <2>1, <2>3, <2>4 DEF Threads
  <2> QED BY <1>2, <1>4, <2>1, <2>2, <2>5, <2>6
<1>9. CASE AutoSend
  <2>1. /\ auto' \in {Replied, [auto EXCEPT !.pc = "polling", !.intent = Silent]}
        /\ auto.pc = "replying" /\ starts' = starts /\ blind' = blind
    BY <1>9 DEF AutoSend
  <2>2. auto.count + 1 \in 0 .. MaxReplies /\ auto.intent \in Intents
    BY <1>2, <2>1 DEF Threads
  <2>3. Replied \in Threads /\ Replied.last = auto.last /\ Replied.pc # "replying"
    BY <1>2, <2>2 DEF Replied, Threads
  <2>4. auto' \in Threads /\ auto'.last = auto.last /\ auto'.pc # "replying"
    BY <1>2, <2>1, <2>3 DEF Threads
  <2> QED BY <1>2, <1>4, <2>1, <2>4
<1>10. CASE AutoStop
  <2>1. auto' = Off /\ starts' = starts /\ blind' = blind
    BY <1>10 DEF AutoStop
  <2> QED BY <1>1, <1>2, <1>3, <1>4, <2>1
<1> QED
  BY <1>5, <1>6, <1>7, <1>8, <1>9, <1>10 DEF Next, AutoNext, vars

(* What the person's decision does to the batch and the judged messages.   *)
LEMMA DecidedSteps ==
  ASSUME HarnessTypeOK, batch # <<>>, NEW answered \in Nat, Decided(answered)
  PROVE  /\ Head(batch) \in DOMAIN chat /\ Head(batch) = batch[1]
         /\ batch' \in Seq(DOMAIN chat) /\ judged' \in Seq(DOMAIN chat)
         /\ pc' \in {"polling", "gate"} /\ (pc' = "gate" <=> batch' # <<>>)
         /\ Len(batch) \in Nat \ {0} /\ Len(batch') = Len(batch) - 1
         /\ \A k \in 1 .. Len(batch) - 1 : batch'[k] = batch[k + 1]
         /\ Len(judged) \in Nat /\ Len(judged') = Len(judged) + 1
         /\ \A k \in 1 .. Len(judged) : judged'[k] = judged[k]
         /\ judged'[Len(judged) + 1] = batch[1]
         /\ autoReplies' = autoReplies + answered /\ autoReplies' \in Nat
<1> DEFINE D == DOMAIN chat
<1>1. batch \in Seq(D) /\ judged \in Seq(D) /\ autoReplies \in Nat
  BY DEF HarnessTypeOK
<1>2. /\ batch' = Tail(batch) /\ judged' = Append(judged, Head(batch))
      /\ pc' = IF batch' = <<>> THEN "polling" ELSE "gate"
      /\ autoReplies' = autoReplies + answered
  BY DEF Decided
<1> HIDE DEF D
<1>3. /\ Head(batch) \in D /\ Tail(batch) \in Seq(D) /\ Len(Tail(batch)) = Len(batch) - 1
      /\ \A k \in 1 .. Len(Tail(batch)) : Tail(batch)[k] = batch[k + 1]
  BY <1>1, HeadTailProperties
<1>4. /\ Append(judged, Head(batch)) \in Seq(D)
      /\ Len(Append(judged, Head(batch))) = Len(judged) + 1
      /\ \A k \in 1 .. Len(judged) : Append(judged, Head(batch))[k] = judged[k]
      /\ Append(judged, Head(batch))[Len(judged) + 1] = Head(batch)
  BY <1>1, <1>3, AppendProperties
<1>5. Len(judged) \in Nat /\ Len(batch) \in Nat \ {0}
  BY <1>1, LenProperties, EmptySeq
<1>6. Head(batch) = batch[1]
  BY <1>1, <1>5
<1> QED BY <1>1, <1>2, <1>3, <1>4, <1>5, <1>6 DEF D

LEMMA HarnessTypeStep ==
  ASSUME Typed, [Next]_vars
  PROVE  HarnessTypeOK'
<1>1. /\ Len(chat) \in Nat /\ Len(chat') \in Nat /\ Len(chat) <= Len(chat')
      /\ DOMAIN chat = 1 .. Len(chat) /\ DOMAIN chat' = 1 .. Len(chat')
      /\ DOMAIN chat \subseteq DOMAIN chat'
  BY ChatGrown
<1>2. /\ pc \in {"off", "opener", "polling", "gate"}
      /\ seen \subseteq DOMAIN chat /\ batch \in Seq(DOMAIN chat)
      /\ pc = "gate" <=> batch # <<>>
      /\ autoReplies \in Nat /\ sessions \in Nat
      /\ judged \in Seq(DOMAIN chat) /\ unconfirmed \in Nat
      /\ overrun \in BOOLEAN /\ from \in 0 .. Len(chat)
  BY DEF Typed, HarnessTypeOK
<1>3. ASSUME pc' \in {"off", "opener", "polling", "gate"},
             seen' \subseteq DOMAIN chat, batch' \in Seq(DOMAIN chat),
             pc' = "gate" <=> batch' # <<>>,
             autoReplies' \in Nat, sessions' \in Nat,
             judged' \in Seq(DOMAIN chat), unconfirmed' \in Nat,
             overrun' \in BOOLEAN, from' \in 0 .. Len(chat)
      PROVE  HarnessTypeOK'
  <2>1. batch' \in Seq(DOMAIN chat') /\ judged' \in Seq(DOMAIN chat')
    BY <1>1, <1>3, SeqMonotonic
  <2>2. seen' \subseteq DOMAIN chat' /\ from' \in 0 .. Len(chat')
    BY <1>1, <1>3
  <2> QED BY <1>3, <2>1, <2>2 DEF HarnessTypeOK
<1>4. CASE UNCHANGED harnessVars
  BY <1>2, <1>3, <1>4 DEF harnessVars
<1>5. Recent \subseteq DOMAIN chat
  BY DEF Recent
<1>6. CASE HarnessStart
  <2>1. pc = "off" /\ pc' = "opener" /\ seen' \in {Recent, {}} /\ from' = Len(chat)
        /\ sessions' = sessions + 1
        /\ UNCHANGED <<batch, autoReplies, judged, unconfirmed, overrun>>
    BY <1>6 DEF HarnessStart
  <2>2. from' \in 0 .. Len(chat) /\ sessions' \in Nat /\ seen' \subseteq DOMAIN chat
    BY <1>1, <1>2, <1>5, <2>1
  <2>3. pc' = "gate" <=> batch' # <<>>
    BY <1>2, <2>1
  <2> QED BY <1>2, <1>3, <2>1, <2>2, <2>3
<1>7. CASE HarnessPoll
  <2>1. /\ batch' = Sorted(New(Recent)) /\ pc' = IF batch' = <<>> THEN "polling" ELSE "gate"
        /\ seen' = seen \cup Recent
        /\ overrun' = (overrun \/ \E m \in from + 1 .. Len(chat) : m \notin seen \cup Recent)
        /\ UNCHANGED <<autoReplies, sessions, judged, unconfirmed, from>>
    BY <1>7 DEF HarnessPoll
  <2>2. New(Recent) \in SUBSET (1 .. Len(chat))
    BY <1>1, <1>5 DEF New
  <2>3. batch' \in Seq(DOMAIN chat)
    <3>1. Sorted(New(Recent)) \in Seq(New(Recent))
      BY <1>1, <2>2, SortedIsAll
    <3> QED BY <1>1, <2>1, <2>2, <3>1, SeqMonotonic
  <2>4. overrun' \in BOOLEAN
    BY <2>1
  <2>5. seen' \subseteq DOMAIN chat
    BY <1>2, <1>5, <2>1
  <2>6. pc' \in {"off", "opener", "polling", "gate"} /\ (pc' = "gate" <=> batch' # <<>>)
    BY <2>1
  <2> QED BY <1>2, <1>3, <2>1, <2>3, <2>4, <2>5, <2>6
<1>8. ASSUME HarnessStop PROVE HarnessTypeOK'
  <2>1. /\ pc' = "off" /\ seen' = {} /\ batch' = <<>> /\ autoReplies' = 0
        /\ judged' = <<>> /\ unconfirmed' = 0 /\ overrun' = FALSE /\ from' = 0
        /\ sessions' = sessions
    BY <1>8 DEF HarnessStop
  <2>2. <<>> \in Seq(DOMAIN chat) /\ 0 \in 0 .. Len(chat)
    BY <1>1
  <2> QED BY <1>2, <1>3, <2>1, <2>2
<1>9. ASSUME NEW answered \in {0, 1}, pc = "gate", Decided(answered),
             unconfirmed' \in {unconfirmed, unconfirmed + 1}
      PROVE  HarnessTypeOK'
  <2>1. /\ batch' \in Seq(DOMAIN chat) /\ judged' \in Seq(DOMAIN chat)
        /\ pc' \in {"polling", "gate"} /\ (pc' = "gate" <=> batch' # <<>>)
        /\ autoReplies' \in Nat
    BY <1>2, <1>9, DecidedSteps DEF Typed
  <2>2. UNCHANGED <<seen, sessions, overrun, from>>
    BY <1>9 DEF Decided
  <2>3. unconfirmed' \in Nat
    BY <1>2, <1>9
  <2> QED BY <1>2, <1>3, <2>1, <2>2, <2>3
<1>10. CASE Skip
  BY <1>9, <1>10 DEF Skip
<1>11. CASE SendTemplate
  BY <1>8, <1>9, <1>11 DEF SendTemplate
<1>12. CASE SendEdited
  BY <1>8, <1>9, <1>12 DEF SendEdited
<1>13. CASE Opener
  <2>1. pc = "opener" /\ pc' = "polling"
        /\ UNCHANGED <<seen, batch, autoReplies, sessions, judged, unconfirmed, overrun, from>>
    BY <1>13 DEF Opener
  <2> QED BY <1>2, <1>3, <2>1
<1> QED
  BY <1>4, <1>6, <1>7, <1>8, <1>10, <1>11, <1>12, <1>13
  DEF Next, HarnessNext, HarnessQuit, vars

LEMMA InitIsTyped == Init => Typed /\ WithinBound
<1> SUFFICES ASSUME Init PROVE Typed /\ WithinBound
  OBVIOUS
<1>1. /\ chat = <<>> /\ auto = Off /\ starts = 0 /\ blind = 0
      /\ HarnessInit /\ Len(chat) = 0 /\ DOMAIN chat = {}
  BY DEF Init, AutoInit
<1>2. ChatType
  BY <1>1 DEF ChatType
<1>3. AutoType
  BY <1>1, AutoAssumption DEF AutoType, Threads, Off
<1>4. HarnessTypeOK
  <2>1. <<>> \in Seq(DOMAIN chat) /\ 0 \in 0 .. Len(chat) /\ pc = "off" /\ batch = <<>>
    BY <1>1 DEF HarnessInit
  <2> QED BY <1>1, <2>1 DEF HarnessInit, HarnessTypeOK
<1>5. WithinBound
  BY <1>1, ToolsAssumption DEF WithinBound, HarnessInit
<1> QED BY <1>2, <1>3, <1>4, <1>5 DEF Typed

LEMMA TypedStep == ASSUME Typed, WithinBound, [Next]_vars PROVE (Typed /\ WithinBound)'
<1>1. Typed'
  BY ChatGrown, AutoTypeStep, HarnessTypeStep DEF Typed
<1>2. WithinBound'
  <2>1. CASE Next
    BY <2>1 DEF Next
  <2>2. CASE UNCHANGED vars
    BY <2>2 DEF vars, autoVars, harnessVars, WithinBound
  <2> QED BY <2>1, <2>2
<1> QED BY <1>1, <1>2

(* The chat, the script and the harness hold what they say they hold, and  *)
(* the script never counts more replies than it may send.                  *)
THEOREM TypeCorrect == Spec => []TypeOK
<1>1. Typed /\ WithinBound => TypeOK
  <2> SUFFICES ASSUME Typed, WithinBound PROVE TypeOK
    OBVIOUS
  <2>1. \A m \in DOMAIN chat :
          chat[m] \in [by : Authors, text : Text \cup {{}}, re : 0 .. m - 1]
    <3> SUFFICES ASSUME NEW m \in DOMAIN chat
                 PROVE  chat[m] \in [by : Authors, text : Text \cup {{}}, re : 0 .. m - 1]
      OBVIOUS
    <3>1. chat[m] \in [by : Authors, text : Text \cup {{}}, re : Nat] /\ m \in Nat
      <4> DEFINE M == [by : Authors, text : Text \cup {{}}, re : Nat]
      <4>1. chat \in Seq(M)
        BY DEF Typed, ChatType
      <4> HIDE DEF M
      <4>2. m \in 1 .. Len(chat) /\ Len(chat) \in Nat
        BY <4>1, LenProperties
      <4>3. chat[m] \in M
        BY <4>1, <4>2, ElementOfSeq
      <4> QED BY <4>2, <4>3 DEF M
    <3>2. chat[m].re < m
      BY DEF Typed, ChatType
    <3>3. chat[m].re \in 0 .. m - 1
      BY <3>1, <3>2
    <3> QED BY <3>1, <3>3
  <2>2. AutoTypeOK
    BY DEF Typed, ChatType, AutoType, Threads, AutoTypeOK
  <2> QED BY <2>1, <2>2 DEF Typed, TypeOK
<1> QED BY <1>1, InitIsTyped, TypedStep, PTL DEF Spec
-----------------------------------------------------------------------------
(* A session begins with nothing, and the templates sent in it are counted *)
(* as auto-replies or as unconfirmed.                                      *)
Idle ==
  pc = "off" => seen = {} /\ judged = <<>> /\ batch = <<>> /\ autoReplies = 0

TemplatesSent == {k \in from + 1 .. Len(chat) : chat[k].by = "template"}

Breaker ==
  pc # "off" => /\ autoReplies <= 2
                /\ Cardinality(TemplatesSent) <= autoReplies + unconfirmed

LEMMA IdleStep == ASSUME Typed, Idle, [Next]_vars PROVE Idle'
<1>1. CASE UNCHANGED harnessVars
  BY <1>1 DEF harnessVars, Idle
<1>2. ASSUME HarnessStop PROVE Idle'
  BY <1>2 DEF HarnessStop, Idle
<1>3. ASSUME NEW answered, Decided(answered) PROVE Idle'
  BY <1>3 DEF Decided, Idle
<1>4. CASE HarnessStart \/ HarnessPoll \/ Opener
  <2>1. pc' # "off"
    BY <1>4 DEF HarnessStart, HarnessPoll, Opener
  <2> QED BY <2>1 DEF Idle
<1> QED
  BY <1>1, <1>2, <1>3, <1>4
  DEF Next, HarnessNext, HarnessQuit, Skip, SendTemplate, SendEdited, vars

LEMMA TemplatesAreFinite ==
  ASSUME Typed
  PROVE  IsFiniteSet(TemplatesSent) /\ Cardinality(TemplatesSent) \in Nat
<1>1. Len(chat) \in Nat /\ from \in Nat
  BY DEF Typed, ChatType, HarnessTypeOK
<1>2. TemplatesSent \in SUBSET (1 .. Len(chat))
  BY <1>1 DEF TemplatesSent
<1> QED BY <1>1, <1>2, NumbersAreFinite

(* Only a template adds to them.                                           *)
LEMMA TemplatesGrow ==
  ASSUME Typed, from' = from, NEW by \in Authors, NEW t \in Text \cup {{}},
         NEW re \in 0 .. Len(chat), chat' = Append(chat, Message(by, t, re))
  PROVE  TemplatesSent' = IF by = "template" THEN TemplatesSent \cup {Len(chat) + 1}
                                             ELSE TemplatesSent
<1> DEFINE M == [by : Authors, text : Text \cup {{}}, re : Nat]
<1>1. chat \in Seq(M) /\ Len(chat) \in Nat /\ from \in Nat /\ from <= Len(chat)
  BY DEF Typed, ChatType, HarnessTypeOK
<1>2. Message(by, t, re) \in M /\ Message(by, t, re).by = by
  BY <1>1 DEF Message
<1>3. /\ Len(chat') = Len(chat) + 1
      /\ \A k \in 1 .. Len(chat) : chat'[k] = chat[k]
      /\ chat'[Len(chat) + 1] = Message(by, t, re)
  BY <1>1, <1>2, AppendProperties
<1>4. /\ \A k \in from + 1 .. Len(chat) + 1 : k \in from + 1 .. Len(chat) \/ k = Len(chat) + 1
      /\ from + 1 .. Len(chat) \subseteq from + 1 .. Len(chat) + 1
      /\ from + 1 .. Len(chat) \subseteq 1 .. Len(chat)
      /\ Len(chat) + 1 \in from + 1 .. Len(chat) + 1
  BY <1>1
<1>5. TemplatesSent' = {k \in from + 1 .. Len(chat) + 1 : chat'[k].by = "template"}
  BY <1>3 DEF TemplatesSent
<1> QED BY <1>2, <1>3, <1>4, <1>5 DEF TemplatesSent

LEMMA BreakerStep == ASSUME Typed, Idle, Breaker, [Next]_vars PROVE Breaker'
<1>1. /\ Len(chat) \in Nat /\ from \in Nat /\ autoReplies \in Nat /\ unconfirmed \in Nat
      /\ pc = "gate" <=> batch # <<>>
      /\ 0 \in 0 .. Len(chat) /\ auto.last \in 0 .. Len(chat) /\ {} \in Text \cup {{}}
  BY DEF Typed, ChatType, AutoType, HarnessTypeOK, Threads
<1>2. IsFiniteSet(TemplatesSent) /\ Cardinality(TemplatesSent) \in Nat
  BY TemplatesAreFinite
<1>3. ASSUME chat' = chat, from' = from PROVE TemplatesSent' = TemplatesSent
  BY <1>3 DEF TemplatesSent
<1>4. ASSUME NEW by \in {"auto", "hand"}, NEW re \in 0 .. Len(chat), Accept(by, re), from' = from
      PROVE  TemplatesSent' = TemplatesSent
  <2>1. by \in Authors /\ by # "template"
    BY DEF Authors
  <2> QED BY <1>1, <1>4, <2>1, TemplatesGrow DEF Accept
<1>5. ASSUME TemplatesSent' = TemplatesSent, autoReplies' = autoReplies,
             unconfirmed' = unconfirmed, pc # "off"
      PROVE  Breaker'
  BY <1>5 DEF Breaker
<1>6. ASSUME AutoNext \/ Arrive \/ SendOne \/ UNCHANGED vars, UNCHANGED harnessVars
      PROVE  Breaker'
  <2>1. from' = from /\ pc' = pc /\ autoReplies' = autoReplies /\ unconfirmed' = unconfirmed
    BY <1>6 DEF harnessVars
  <2>2. CASE AutoNext
    <3>1. chat' = chat \/ \E re \in 0 .. Len(chat) : Accept("auto", re)
      BY <1>1, <2>2 DEF AutoNext, AutoStart, AutoOpen, AutoRead, AutoSend, AutoStop
    <3> QED BY <1>3, <1>4, <2>1, <3>1 DEF Breaker
  <2>3. CASE Arrive
    <3>1. PICK t \in Text : chat' = Append(chat, Message("lead", t, 0))
      BY <2>3 DEF Arrive
    <3>2. TemplatesSent' = TemplatesSent
      <4>1. "lead" \in Authors /\ t \in Text \cup {{}}
        BY DEF Authors
      <4> QED BY <1>1, <2>1, <3>1, <4>1, TemplatesGrow
    <3> QED BY <2>1, <3>2 DEF Breaker
  <2>4. CASE SendOne
    BY <1>1, <1>4, <2>1, <2>4 DEF SendOne, Breaker
  <2>5. CASE UNCHANGED vars
    BY <1>3, <2>1, <2>5 DEF vars, Breaker
  <2> QED BY <1>6, <2>2, <2>3, <2>4, <2>5
<1>7. ASSUME HarnessStop PROVE Breaker'
  BY <1>7 DEF HarnessStop, Breaker
<1>8. CASE HarnessStart
  <2>1. pc = "off" /\ from' = Len(chat) /\ chat' = chat
        /\ autoReplies' = autoReplies /\ unconfirmed' = unconfirmed
    BY <1>8 DEF HarnessStart
  <2>2. TemplatesSent' = {}
    BY <1>1, <2>1 DEF TemplatesSent
  <2>3. Cardinality(TemplatesSent') = 0
    BY <2>2, FS_EmptySet
  <2>4. autoReplies = 0
    BY <2>1 DEF Idle
  <2> QED BY <1>1, <2>1, <2>3, <2>4 DEF Breaker
<1>9. CASE Opener
  <2>1. pc = "opener" /\ from' = from /\ autoReplies' = autoReplies /\ unconfirmed' = unconfirmed
    BY <1>9 DEF Opener
  <2>2. TemplatesSent' = TemplatesSent
    BY <1>1, <1>3, <1>4, <1>9, <2>1 DEF Opener
  <2> QED BY <1>5, <2>1, <2>2
<1>10. CASE HarnessPoll
  <2>1. chat' = chat /\ from' = from /\ pc = "polling"
        /\ autoReplies' = autoReplies /\ unconfirmed' = unconfirmed
    BY <1>10 DEF HarnessPoll
  <2> QED BY <1>3, <1>5, <2>1
<1>11. ASSUME NEW answered \in {0, 1}, pc = "gate", Decided(answered)
       PROVE  autoReplies' = autoReplies + answered /\ from' = from
  BY <1>11 DEF Decided
<1>12. ASSUME Skip \/ SendEdited, ~HarnessStop PROVE Breaker'
  <2>1. /\ pc = "gate" /\ Decided(0) /\ unconfirmed' = unconfirmed
        /\ chat' = chat \/ Accept("hand", 0)
    BY <1>12 DEF Skip, SendEdited
  <2>2. autoReplies' = autoReplies /\ from' = from
    BY <1>1, <1>11, <2>1
  <2> QED BY <1>1, <1>3, <1>4, <1>5, <2>1, <2>2
<1>13. ASSUME SendTemplate, ~HarnessStop PROVE Breaker'
  <2>1. /\ pc = "gate" /\ Proposed
        /\ \/ Accept("template", 0) /\ Decided(1) /\ unconfirmed' = unconfirmed
           \/ Accept("template", 0) /\ Decided(0) /\ unconfirmed' = unconfirmed + 1
           \/ chat' = chat /\ Decided(0) /\ unconfirmed' = unconfirmed
    BY <1>13 DEF SendTemplate
  <2>2. autoReplies < 2
    <3>1. Rule = "none"
      BY <2>1 DEF Proposed, Action
    <3>2. ~(autoReplies >= 2)
      BY <3>1 DEF Rule, Judge, Evaluate
    <3> QED BY <1>1, <3>2
  <2>3. Cardinality(TemplatesSent) <= autoReplies + unconfirmed
    BY <2>1 DEF Breaker
  <2>4. CASE chat' = chat /\ Decided(0) /\ unconfirmed' = unconfirmed
    BY <1>1, <1>3, <1>5, <1>11, <2>1, <2>4
  <2>5. ASSUME NEW answered \in {0, 1}, Accept("template", 0), Decided(answered),
               unconfirmed' + answered = unconfirmed + 1, unconfirmed' \in Nat
        PROVE  Breaker'
    <3>1. autoReplies' = autoReplies + answered /\ from' = from
      BY <1>11, <2>1, <2>5
    <3>2. TemplatesSent' = TemplatesSent \cup {Len(chat) + 1}
      <4>1. "template" \in Authors
        BY DEF Authors
      <4> QED BY <1>1, <2>5, <3>1, <4>1, TemplatesGrow DEF Accept
    <3>3. Cardinality(TemplatesSent') <= Cardinality(TemplatesSent) + 1
          /\ Cardinality(TemplatesSent') \in Nat
      BY <1>2, <3>2, AddedOne
    <3>4. /\ autoReplies' <= 2
          /\ autoReplies' + unconfirmed' = autoReplies + unconfirmed + 1
      <4>1. answered \in Nat /\ answered <= 1
        OBVIOUS
      <4>2. autoReplies \in Nat /\ unconfirmed \in Nat /\ unconfirmed' \in Nat
        BY <1>1, <2>5
      <4>3. unconfirmed' + answered = unconfirmed + 1 /\ autoReplies' = autoReplies + answered
        BY <2>5, <3>1
      <4> DEFINE u == unconfirmed'
      <4> HIDE DEF u
      <4>4. u \in Nat /\ u + answered = unconfirmed + 1
        BY <4>2, <4>3 DEF u
      <4>5. autoReplies' <= 2 /\ autoReplies' + u = autoReplies + unconfirmed + 1
        BY <2>2, <4>1, <4>2, <4>3, <4>4
      <4> QED BY <4>5 DEF u
    <3> DEFINE c == Cardinality(TemplatesSent)
               d == Cardinality(TemplatesSent')
    <3>5. c <= autoReplies + unconfirmed /\ d <= c + 1 /\ c \in Nat /\ d \in Nat
      BY <1>2, <2>3, <3>3
    <3>6. d <= autoReplies' + unconfirmed'
      <4> HIDE DEF c, d
      <4> QED BY <1>1, <3>4, <3>5
    <3> QED BY <3>4, <3>6 DEF Breaker
  <2> QED BY <1>1, <2>1, <2>4, <2>5
<1> QED
  BY <1>6, <1>7, <1>8, <1>9, <1>10, <1>12, <1>13
  DEF Next, HarnessNext, HarnessQuit, vars

(* "the loop breaker fires after 2 of them": for any chat, any number of   *)
(* messages a read brings and any sends that nobody confirmed.             *)
THEOREM LoopBreakerFires == Spec => []LoopBreakerHolds
<1>1. Init => Idle /\ Breaker
  BY DEF Init, HarnessInit, Idle, Breaker
<1>2. Typed /\ Breaker => LoopBreakerHolds
  <2> SUFFICES ASSUME Typed, Breaker, pc # "off"
               PROVE  Cardinality(TemplatesSent) <= 2 + unconfirmed
    BY DEF LoopBreakerHolds, TemplatesSent
  <2>1. Cardinality(TemplatesSent) \in Nat /\ autoReplies \in Nat /\ unconfirmed \in Nat
    BY TemplatesAreFinite DEF Typed, HarnessTypeOK
  <2> QED BY <2>1 DEF Breaker
<1> QED BY <1>1, <1>2, InitIsTyped, TypedStep, IdleStep, BreakerStep, PTL DEF Spec
-----------------------------------------------------------------------------
(* What is seen of the session is judged or waits at the gate, each once,  *)
(* and nothing older than the newest seen is missing from it.              *)
Listed(m) == \E j \in DOMAIN judged : judged[j] = m
Waiting(m) == \E k \in DOMAIN batch : batch[k] = m

OnceEach ==
  /\ \A j, k \in DOMAIN judged : judged[j] = judged[k] => j = k
  /\ \A j, k \in DOMAIN batch : batch[j] = batch[k] => j = k
  /\ \A m : ~(Listed(m) /\ Waiting(m))

Followed ==
  /\ \A m : Listed(m) \/ Waiting(m) => m \in seen
  /\ \A m \in seen : m > from /\ Inbound(m) => Listed(m) \/ Waiting(m)
  /\ ~overrun => \A m \in from + 1 .. Newest(seen) : m \in seen

Gate == Idle /\ OnceEach /\ Followed

(* A decision moves the message at the gate to the judged ones.            *)
LEMMA DecisionMoves ==
  ASSUME HarnessTypeOK, batch # <<>>, NEW answered \in Nat, Decided(answered), OnceEach
  PROVE  OnceEach' /\ \A m : (Listed(m) \/ Waiting(m))' <=> Listed(m) \/ Waiting(m)
<1> DEFINE p == Len(judged)
           q == Len(batch)
<1>1. /\ p \in Nat /\ q \in Nat \ {0}
      /\ DOMAIN judged = 1 .. p /\ DOMAIN batch = 1 .. q
      /\ DOMAIN judged' = 1 .. p + 1 /\ DOMAIN batch' = 1 .. q - 1
      /\ \A k \in 1 .. q - 1 : batch'[k] = batch[k + 1]
      /\ \A k \in 1 .. p : judged'[k] = judged[k]
      /\ judged'[p + 1] = batch[1]
  <2>1. batch \in Seq(DOMAIN chat) /\ judged \in Seq(DOMAIN chat)
    BY DEF HarnessTypeOK
  <2>2. /\ batch' \in Seq(DOMAIN chat) /\ judged' \in Seq(DOMAIN chat)
        /\ q \in Nat \ {0} /\ Len(batch') = q - 1
        /\ \A k \in 1 .. q - 1 : batch'[k] = batch[k + 1]
        /\ p \in Nat /\ Len(judged') = p + 1
        /\ \A k \in 1 .. p : judged'[k] = judged[k]
        /\ judged'[p + 1] = batch[1]
    BY DecidedSteps
  <2> QED BY <2>1, <2>2, LenProperties
<1> HIDE DEF p, q
<1>2. /\ \A k \in 1 .. p + 1 : k \in 1 .. p \/ k = p + 1
      /\ \A k \in 1 .. p : k \in 1 .. p + 1
      /\ p + 1 \in 1 .. p + 1 /\ 1 \in 1 .. q
      /\ \A k \in 1 .. q - 1 : k + 1 \in 1 .. q /\ k + 1 # 1
      /\ \A k \in 1 .. q : k = 1 \/ (k - 1 \in 1 .. q - 1 /\ (k - 1) + 1 = k)
      /\ \A j, k \in 1 .. q - 1 : j + 1 = k + 1 => j = k
  BY <1>1
<1>3. /\ \A j, k \in 1 .. p : judged[j] = judged[k] => j = k
      /\ \A j, k \in 1 .. q : batch[j] = batch[k] => j = k
      /\ \A j \in 1 .. p, k \in 1 .. q : judged[j] # batch[k]
  BY <1>1 DEF OnceEach, Listed, Waiting
<1>4. \A j, k \in DOMAIN judged' : judged'[j] = judged'[k] => j = k
  <2>1. SUFFICES ASSUME NEW j \in 1 .. p + 1, NEW k \in 1 .. p + 1, judged'[j] = judged'[k]
                 PROVE  j = k
    BY <1>1
  <2> QED BY <1>1, <1>2, <1>3, <2>1
<1>5. \A j, k \in DOMAIN batch' : batch'[j] = batch'[k] => j = k
  <2>1. SUFFICES ASSUME NEW j \in 1 .. q - 1, NEW k \in 1 .. q - 1, batch'[j] = batch'[k]
                 PROVE  j = k
    BY <1>1
  <2>2. batch[j + 1] = batch[k + 1]
    BY <1>1, <2>1
  <2> QED BY <1>2, <1>3, <2>2
<1>6. ASSUME NEW m PROVE (Listed(m))' <=> Listed(m) \/ m = batch[1]
  BY <1>1, <1>2 DEF Listed
<1>7. ASSUME NEW m PROVE Waiting(m) <=> (Waiting(m))' \/ m = batch[1]
  <2>1. (Waiting(m))' => Waiting(m)
    <3>1. SUFFICES ASSUME NEW k \in 1 .. q - 1, batch'[k] = m PROVE Waiting(m)
      BY <1>1 DEF Waiting
    <3>2. k + 1 \in DOMAIN batch /\ batch[k + 1] = m
      BY <1>1, <1>2, <3>1
    <3> QED BY <3>2 DEF Waiting
  <2>2. m = batch[1] => Waiting(m)
    BY <1>1, <1>2 DEF Waiting
  <2>3. ASSUME NEW k \in 1 .. q, batch[k] = m, k # 1 PROVE (Waiting(m))'
    <3>1. k - 1 \in 1 .. q - 1 /\ (k - 1) + 1 = k
      BY <1>2, <2>3
    <3>2. batch'[k - 1] = batch[k]
      BY <1>1, <3>1
    <3> QED BY <1>1, <2>3, <3>1, <3>2 DEF Waiting
  <2> QED BY <1>1, <2>1, <2>2, <2>3 DEF Waiting
<1>8. ASSUME NEW m, (Waiting(m))' PROVE m # batch[1]
  <2>1. PICK k \in 1 .. q - 1 : batch'[k] = m
    BY <1>1, <1>8 DEF Waiting
  <2>2. batch[k + 1] = m /\ k + 1 \in 1 .. q /\ k + 1 # 1
    BY <1>1, <1>2, <2>1
  <2> QED BY <1>2, <1>3, <2>2
<1>9. \A m : ~(Listed(m)' /\ Waiting(m)')
  BY <1>6, <1>7, <1>8 DEF OnceEach
<1> QED BY <1>4, <1>5, <1>6, <1>7, <1>9 DEF OnceEach

LEMMA GateStep == ASSUME Typed, Gate, [Next]_vars PROVE Gate'
<1>1. /\ Len(chat) \in Nat /\ DOMAIN chat = 1 .. Len(chat) /\ from \in Nat
      /\ pc = "gate" <=> batch # <<>>
      /\ seen \subseteq 1 .. Len(chat) /\ ChatType /\ HarnessTypeOK
      /\ Recent \subseteq 1 .. Len(chat)
  BY ChatGrown DEF Typed, HarnessTypeOK, Recent
<1>2. \A m \in 1 .. Len(chat) : Inbound(m)' <=> Inbound(m)
  BY ChatGrown DEF Inbound
<1>3. Idle'
  BY IdleStep DEF Gate
<1>4. ASSUME UNCHANGED <<seen, overrun, from>>, OnceEach',
             \A m : (Listed(m) \/ Waiting(m))' <=> Listed(m) \/ Waiting(m)
      PROVE  Gate'
  <2>1. \A m : (Listed(m) \/ Waiting(m))' => m \in seen'
    BY <1>4 DEF Gate, Followed
  <2>2. \A m \in seen' : m > from' /\ Inbound(m)' => (Listed(m) \/ Waiting(m))'
    BY <1>1, <1>2, <1>4 DEF Gate, Followed
  <2>3. ~overrun' => \A m \in from' + 1 .. Newest(seen') : m \in seen'
    BY <1>4 DEF Gate, Followed
  <2> QED BY <1>3, <1>4, <2>1, <2>2, <2>3 DEF Gate, Followed
<1>5. ASSUME UNCHANGED <<seen, overrun, from, batch, judged>> PROVE Gate'
  BY <1>4, <1>5 DEF Gate, OnceEach, Listed, Waiting
<1>6. ASSUME batch' = <<>>, judged' = <<>>, \A m \in seen' : ~(m > from'),
             \A m \in from' + 1 .. Newest(seen') : m \in seen'
      PROVE  Gate'
  BY <1>3, <1>6 DEF Gate, OnceEach, Followed, Listed, Waiting
<1>7. ASSUME HarnessStop PROVE Gate'
  <2>1. batch' = <<>> /\ judged' = <<>> /\ seen' = {} /\ from' = 0
    BY <1>7 DEF HarnessStop
  <2>2. Newest(seen') = 0
    BY <2>1 DEF Newest
  <2> QED BY <1>6, <2>1, <2>2
<1>8. CASE HarnessStart
  <2>1. /\ pc = "off" /\ from' = Len(chat) /\ seen' \in {Recent, {}}
        /\ batch' = batch /\ judged' = judged
    BY <1>8 DEF HarnessStart
  <2>2. batch' = <<>> /\ judged' = <<>>
    BY <2>1 DEF Gate, Idle
  <2>3. seen' \in SUBSET (1 .. Len(chat))
    BY <1>1, <2>1
  <2>4. \A m \in seen' : ~(m > from')
    BY <1>1, <2>1, <2>3
  <2>5. Newest(seen') \in Nat /\ Newest(seen') <= Len(chat)
    BY <1>1, <2>3, NewestIsInChat
  <2>6. \A m \in from' + 1 .. Newest(seen') : m \in seen'
    BY <1>1, <2>1, <2>5
  <2> QED BY <1>6, <2>2, <2>4, <2>6
<1>9. CASE HarnessPoll
  <2>1. /\ pc = "polling" /\ chat' = chat /\ from' = from /\ judged' = judged
        /\ batch' = Sorted(New(Recent)) /\ seen' = seen \cup Recent
        /\ overrun' = (overrun \/ \E m \in from + 1 .. Len(chat) : m \notin seen \cup Recent)
    BY <1>9 DEF HarnessPoll
  <2>2. batch = <<>>
    BY <1>1, <2>1
  <2>3. \A m : ~Waiting(m)
    BY <2>2 DEF Waiting
  <2>4. New(Recent) \in SUBSET (1 .. Len(chat))
    BY <1>1 DEF New
  <2>5. /\ Sorted(New(Recent)) \in Seq(New(Recent))
        /\ \A j, k \in DOMAIN Sorted(New(Recent)) :
             Sorted(New(Recent))[j] = Sorted(New(Recent))[k] => j = k
        /\ \A m \in New(Recent) : \E k \in DOMAIN Sorted(New(Recent)) : Sorted(New(Recent))[k] = m
    BY <1>1, <2>4, SortedIsAll
  <2>6. \A m : Waiting(m)' <=> m \in New(Recent)
    <3> DEFINE N == New(Recent)
    <3> HIDE DEF N
    <3>1. batch' \in Seq(N) /\ \A m \in N : \E k \in DOMAIN batch' : batch'[k] = m
      BY <2>1, <2>5 DEF N
    <3>2. \A k \in DOMAIN batch' : batch'[k] \in N
      BY <3>1, LenProperties, ElementOfSeq
    <3>3. \A m : Waiting(m)' <=> m \in N
      BY <3>1, <3>2 DEF Waiting
    <3> QED BY <3>3 DEF N
  <2>7. \A m : Listed(m)' <=> Listed(m)
    BY <2>1 DEF Listed
  <2>8. OnceEach'
    <3>1. \A m : Listed(m) => m \in seen
      BY DEF Gate, Followed
    <3>2. \A m : m \in New(Recent) => m \notin seen
      BY DEF New
    <3>3. \A m : ~(Listed(m)' /\ Waiting(m)')
      BY <2>6, <2>7, <3>1, <3>2
    <3>4. \A j, k \in DOMAIN batch' : batch'[j] = batch'[k] => j = k
      BY <2>1, <2>5
    <3>5. \A j, k \in DOMAIN judged' : judged'[j] = judged'[k] => j = k
      BY <2>1 DEF Gate, OnceEach
    <3> QED BY <3>3, <3>4, <3>5 DEF OnceEach
  <2>9. \A m : (Listed(m) \/ Waiting(m))' => m \in seen'
    BY <2>1, <2>6, <2>7 DEF Gate, Followed, New
  <2>10. \A m \in seen' : m > from' /\ Inbound(m)' => (Listed(m) \/ Waiting(m))'
    <3>1. SUFFICES ASSUME NEW m \in seen \cup Recent, m > from, Inbound(m)
                   PROVE  Listed(m) \/ m \in New(Recent)
      BY <1>1, <1>2, <2>1, <2>6, <2>7
    <3>2. CASE m \in seen
      BY <2>3, <3>1, <3>2 DEF Gate, Followed
    <3>3. CASE m \notin seen
      BY <3>1, <3>3 DEF New
    <3> QED BY <3>2, <3>3
  <2>11. ~overrun' => \A m \in from' + 1 .. Newest(seen') : m \in seen'
    <3>1. seen' \in SUBSET (1 .. Len(chat))
      BY <1>1, <2>1
    <3>2. Newest(seen') \in Nat /\ Newest(seen') <= Len(chat)
      BY <1>1, <3>1, NewestIsInChat
    <3>3. from + 1 .. Newest(seen') \subseteq from + 1 .. Len(chat)
      BY <1>1, <3>2
    <3>4. ~overrun' => \A m \in from + 1 .. Len(chat) : m \in seen'
      BY <2>1
    <3> QED BY <2>1, <3>3, <3>4
  <2> QED BY <1>3, <2>8, <2>9, <2>10, <2>11 DEF Gate, Followed
<1>10. ASSUME NEW answered \in Nat, pc = "gate", Decided(answered) PROVE Gate'
  <2>1. OnceEach' /\ \A m : (Listed(m) \/ Waiting(m))' <=> Listed(m) \/ Waiting(m)
    BY <1>1, <1>10, DecisionMoves DEF Gate
  <2>2. UNCHANGED <<seen, overrun, from>>
    BY <1>10 DEF Decided
  <2> QED BY <1>4, <2>1, <2>2
<1>11. CASE Skip \/ SendTemplate \/ SendEdited
  BY <1>7, <1>10, <1>11 DEF Skip, SendTemplate, SendEdited
<1>12. CASE Opener
  BY <1>5, <1>12 DEF Opener
<1>13. CASE UNCHANGED harnessVars
  BY <1>5, <1>13 DEF harnessVars
<1> QED
  BY <1>7, <1>8, <1>9, <1>11, <1>12, <1>13
  DEF Next, HarnessNext, HarnessQuit, vars

(* No message comes to the gate twice in a session, and none is passed     *)
(* over but when more came than a read returns: for any lengths of reads   *)
(* and whatever the script, send_one.py and the lead write meanwhile.      *)
THEOREM MessagesAreJudgedOnce == Spec => []JudgedOnce
<1>1. Init => Gate
  <2> SUFFICES ASSUME Init PROVE Gate
    OBVIOUS
  <2>1. pc = "off" /\ seen = {} /\ batch = <<>> /\ judged = <<>> /\ from = 0 /\ autoReplies = 0
    BY DEF Init, HarnessInit
  <2>2. Newest(seen) = 0
    BY <2>1 DEF Newest
  <2> QED BY <2>1, <2>2 DEF Gate, Idle, OnceEach, Followed, Listed, Waiting
<1>2. Typed /\ Gate => JudgedOnce
  <2> SUFFICES ASSUME Typed, Gate PROVE JudgedOnce
    OBVIOUS
  <2>1. ASSUME pc = "polling", ~overrun, NEW m \in from + 1 .. Newest(seen), Inbound(m)
        PROVE  Listed(m)
    <3>1. batch = <<>> /\ from \in Nat
      BY <2>1 DEF Typed, HarnessTypeOK
    <3>2. ~Waiting(m)
      BY <3>1 DEF Waiting
    <3>3. m \in seen
      BY <2>1 DEF Gate, Followed
    <3>4. m > from
      <4>1. Newest(seen) \in Nat
        BY NewestIsInChat DEF Typed, ChatType, HarnessTypeOK
      <4> QED BY <2>1, <3>1, <4>1
    <3> QED BY <2>1, <3>2, <3>3, <3>4 DEF Gate, Followed
  <2> QED BY <2>1 DEF Gate, OnceEach, JudgedOnce, Listed
<1> QED BY <1>1, <1>2, InitIsTyped, TypedStep, GateStep, PTL DEF Spec
=============================================================================
