-------------------------------- MODULE Watch --------------------------------
(***************************************************************************)
(* Two watchdogs and their alarms on one clock: the inbound-freshness      *)
(* detector (salesforce/inbound_gap.py) and the rewrite canary (texttorrent*)
(* /canary.py), which CloudWatch turns into pages (observability_stack.py).*)
(*                                                                         *)
(* A tick is a period of the gap alarm, and longer than a function may run.*)
(* The alarms read what was put in a period when the period ends.          *)
(***************************************************************************)
EXTENDS Integers, FiniteSets, FiniteSetsExt

CONSTANTS
  TicksPerDay,
  StartHour, EndHour,  (* The open ticks of a working day: first, and first*)
                       (* after.                                           *)
  Threshold,           (* INBOUND_GAP_THRESHOLD_SECONDS, in ticks.         *)
  FirstWeekday,        (* The weekday of tick 0; 0 is a Monday.            *)
  Never,               (* No inbound message is stored.                    *)
  MaxTick              (* Bound of the clock.                              *)

ASSUME WatchAssumption ==
  /\ TicksPerDay \in Nat \ {0} /\ StartHour \in Nat /\ EndHour \in StartHour .. TicksPerDay
  /\ Threshold \in Nat \ {0} /\ FirstWeekday \in 0 .. 6 /\ MaxTick \in Nat
  /\ Never \notin Int

VARIABLES
  now,
  lastInbound,   (* CreatedDate of the newest inbound message.             *)
  detector,      (* The detector: its step, as_of, and the gap it measured.*)
  gaps,          (* Datapoints of this period.                             *)
  gapAlarm,
  rewriter,      (* The vendor's: "off", "on", or "lasting": on since the  *)
                 (* day began, with no text sent before left to read back. *)
  chat,          (* The vendor has a chat with the canary's recipient.     *)
  canary,        (* The canary's step, or the text stored when it has sent.*)
  verdicts,      (* Datapoints of this day.                                *)
  canaryAlarm

gapVars == <<lastInbound, detector, gaps, gapAlarm>>
canaryVars == <<rewriter, chat, canary, verdicts, canaryAlarm>>
vars == <<now, gapVars, canaryVars>>

Idle == [pc |-> "off", asOf |-> 0, gap |-> 0]

TypeOK ==
  /\ now \in 0 .. MaxTick /\ lastInbound \in (0 .. now) \cup {Never}
  /\ detector \in [pc : {"off", "query", "put"}, asOf : 0 .. now, gap : 0 .. now]
  /\ gaps \subseteq 0 .. now /\ gapAlarm \in BOOLEAN
  /\ rewriter \in {"off", "on", "lasting"} /\ chat \in BOOLEAN
  /\ canary \in {"off", "begun", "chatting", "kept", "changed"}
  /\ verdicts \subseteq {0, 1} /\ canaryAlarm \in BOOLEAN

Init ==
  /\ now = 0 /\ lastInbound \in {0, Never}
  /\ detector = Idle /\ gaps = {} /\ gapAlarm = TRUE
  /\ rewriter \in {"off", "lasting"} /\ chat \in BOOLEAN
  /\ canary = "off" /\ verdicts = {} /\ canaryAlarm = TRUE
-----------------------------------------------------------------------------
Day(t) == t \div TicksPerDay
Weekday(d) == (FirstWeekday + d) % 7

(* Mutant: Saturday is a working day.                                      *)
MondayToSaturday(d) == Weekday(d) <= 5

WorkingDay(d) == Weekday(d) < 5

(* Mutant: a window that is not reached counts against the others.         *)
Difference(low, high) == high - low

Overlap(low, high) == IF high > low THEN high - low ELSE 0

(* The part of the window of day d that lies between the two.              *)
Part(start, end, d) ==
  IF WorkingDay(d) THEN Overlap(Max({start, d * TicksPerDay + StartHour}),
                                Min({end, d * TicksPerDay + EndHour}))
  ELSE 0

(* business_seconds: the total after n days of the loop, and all of them.  *)
BusinessTime(start, end) ==
  LET total[n \in Nat] ==
        IF n = 0 THEN 0 ELSE total[n - 1] + Part(start, end, Day(start) + n - 1)
  IN IF end <= start THEN 0 ELSE total[Day(end) - Day(start) + 1]

(* Every 15 minutes, and again after a failure; as_of is read first.       *)
DetectorStart ==
  /\ detector.pc = "off"
  /\ detector' = [Idle EXCEPT !.pc = "query", !.asOf = now]
  /\ UNCHANGED <<now, lastInbound, gaps, gapAlarm, canaryVars>>

(* The newest inbound message; without one there is nothing to report.     *)
LatestInbound ==
  /\ detector.pc = "query"
  /\ detector' = IF lastInbound = Never THEN Idle
                 ELSE [detector EXCEPT !.pc = "put",
                                       !.gap = BusinessTime(lastInbound, detector.asOf)]
  /\ UNCHANGED <<now, lastInbound, gaps, gapAlarm, canaryVars>>

PutGap ==
  /\ detector.pc = "put"
  /\ gaps' = gaps \cup {detector.gap}
  /\ detector' = Idle
  /\ UNCHANGED <<now, lastInbound, gapAlarm, canaryVars>>

(* No credentials, no token, a query that is not answered 200, a timeout.  *)
DetectorFails ==
  /\ detector.pc # "off"
  /\ detector' = Idle
  /\ UNCHANGED <<now, lastInbound, gaps, gapAlarm, canaryVars>>

Inbound ==
  /\ lastInbound' = now
  /\ UNCHANGED <<now, detector, gaps, gapAlarm, canaryVars>>
-----------------------------------------------------------------------------
(* The vendor turns its rewriter on or off.                                *)
Rewrite ==
  /\ rewriter' = IF rewriter = "off" THEN "on" ELSE "off"
  /\ UNCHANGED <<now, gapVars, chat, canary, verdicts, canaryAlarm>>

(* Once a day, and again after a failure.  The number to send from is set, *)
(* or the first active one of the account.                                 *)
CanaryStart ==
  /\ canary = "off"
  /\ canary' = "begun"
  /\ UNCHANGED <<now, gapVars, rewriter, chat, verdicts, canaryAlarm>>

(* create_chat answers with the id of a new chat, or that there is one.    *)
CreateChat ==
  /\ canary = "begun" /\ ~chat
  /\ chat' = TRUE
  /\ canary' = "chatting"
  /\ UNCHANGED <<now, gapVars, rewriter, verdicts, canaryAlarm>>

FindChatId ==
  /\ canary = "begun" /\ chat
  /\ canary' = "chatting"
  /\ UNCHANGED <<now, gapVars, rewriter, chat, verdicts, canaryAlarm>>

SendMessage ==
  /\ canary = "chatting"
  /\ canary' = IF rewriter = "off" THEN "kept" ELSE "changed"
  /\ UNCHANGED <<now, gapVars, rewriter, chat, verdicts, canaryAlarm>>

(* Mutant: a message that is not found counts as kept.                     *)
UnlessFoundChanged(found) == ~found \/ canary = "kept"

Identical(found) == found /\ canary = "kept"

(* The message is looked up among the newest of the chat.                  *)
ReadBack ==
  /\ canary \in {"kept", "changed"}
  /\ \E found \in BOOLEAN : verdicts' = verdicts \cup {IF Identical(found) THEN 1 ELSE 0}
  /\ canary' = "off"
  /\ UNCHANGED <<now, gapVars, rewriter, chat, canaryAlarm>>

(* Any call that raises: a 4xx, a 5xx, an envelope without success, a      *)
(* blacklisted contact, no chat.  What was created or sent stays.          *)
CanaryFails ==
  /\ canary # "off"
  /\ canary' = "off"
  /\ chat' \in {chat, TRUE}
  /\ UNCHANGED <<now, gapVars, rewriter, verdicts, canaryAlarm>>
-----------------------------------------------------------------------------
(* Mutant: missing data is not breaching.                                  *)
GapSeenBreaching == gaps # {} /\ Max(gaps) >= Threshold

GapBreaching == gaps = {} \/ Max(gaps) >= Threshold

CanaryBreaching == verdicts = {} \/ Min(verdicts) < 1

LastOfDay == (now + 1) % TicksPerDay = 0

(* A period ends; a detector that still runs began in it.  A run of the    *)
(* canary may go on into the next day of the alarm.                        *)
Tick ==
  /\ now < MaxTick
  /\ detector.pc = "off" \/ detector.asOf = now
  /\ now' = now + 1
  /\ gapAlarm' = GapBreaching /\ gaps' = {}
  /\ UNCHANGED <<lastInbound, detector, chat>>
  /\ IF LastOfDay
       THEN /\ canaryAlarm' = CanaryBreaching /\ verdicts' = {}
            /\ rewriter' = IF rewriter = "on" /\ canary # "kept" THEN "lasting" ELSE rewriter
       ELSE /\ UNCHANGED <<canaryAlarm, verdicts, rewriter>>
  /\ UNCHANGED canary

Next ==
  \/ DetectorStart \/ LatestInbound \/ PutGap \/ DetectorFails \/ Inbound
  \/ Rewrite \/ CanaryStart \/ CreateChat \/ FindChatId \/ SendMessage
  \/ ReadBack \/ CanaryFails
  \/ Tick

Spec == Init /\ [][Next]_vars
-----------------------------------------------------------------------------
(* The business hours, told tick by tick: Monday to Friday in the window.  *)
Open(t) ==
  /\ Weekday(Day(t)) \notin {5, 6}
  /\ t % TicksPerDay \in StartHour .. EndHour - 1

OpenTime(from, to) == Cardinality({t \in from .. to - 1 : Open(t)})

(* Silent inbound transport pages: when a period ends that began after the *)
(* threshold of open time without a message, or with no message ever, the  *)
(* alarm is on, whatever the detector did and wherever nights and weekends *)
(* fell ("fail closed", inbound_gap.py:17-21).                             *)
SilencePages ==
  [][now' # now =>
       (lastInbound = Never \/ OpenTime(lastInbound, now - 1) >= Threshold => gapAlarm')]_vars

(* "the alarm cannot fire over a quiet night or weekend" (inbound_gap.py:18*)
(* -19): with a detector that reports, it goes on only in or right after   *)
(* an open tick.                                                           *)
QuietIsNotPaged ==
  [][gapAlarm' /\ ~gapAlarm /\ gaps # {} => Open(now - 1) \/ Open(now - 2)]_vars

(* A rewriter that is on for a whole day is paged at its end: a canary that*)
(* fails, never runs or does not find its message is no all-clear ("The    *)
(* observability stack alarms on anything other than a daily 1",           *)
(* canary.py:12-13).                                                       *)
RewriteIsNoticed ==
  [][now' # now /\ LastOfDay /\ rewriter = "lasting" => canaryAlarm']_vars
=============================================================================
