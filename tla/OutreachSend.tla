----------------------------- MODULE OutreachSend -----------------------------
(***************************************************************************)
(* The send path of the Salesforce org and the two webhooks that run next  *)
(* to it: OutreachSendBatch/OutreachSendScheduler hand chunks of leads to  *)
(* OutreachSendService.sendBatch, which reads the leads, calls the SMS     *)
(* provider for each one and writes the log and the leads in one           *)
(* transaction at the end; TwilioInboundRest and TwilioStatusCallbackRest  *)
(* write the same two tables meanwhile.                                    *)
(*                                                                         *)
(* Apex transactions read committed rows and commit all or nothing, so the *)
(* steps of the model are: each query or callout of a chunk, the commit of *)
(* a chunk, and a whole webhook.  A webhook is one step because nothing it *)
(* reads can change between its read and its write, except the presence of *)
(* its own message row, and for that row the unique index decides at the   *)
(* insert exactly as the query would have decided there.                   *)
(***************************************************************************)
EXTENDS Integers, FiniteSets

CONSTANTS
  Lead,           (* Lead ids: numbers, in the order of Id and CreatedDate.*)
  Run,            (* Batch jobs that can be in flight at the same time.    *)
  Inbound,        (* Provider ids of the inbound messages.                 *)
  Phone,          (* Telephone numbers.                                    *)
  PhoneOf,        (* [Lead -> Phone or NoPhone]: Lead.Phone.               *)
  From,           (* [Inbound -> Phone or NoPhone]: normalized From.       *)
  Verdict,        (* [Inbound -> Verdicts]: OutreachGuardrails.evaluate.   *)
  UtcOffset,      (* [Lead -> ticks or NoZone]: Quiet_Hours_Timezone__c.   *)
  DeliveryStatus, (* Values of MessageStatus in the provider's callbacks.  *)
  HourlyLimit,    (* Per_Number_Hourly_Limit__c.                           *)
  MaxCallouts,    (* MAX_CALLOUTS_PER_RUN, also the scope of the batch.    *)
  TicksPerHour,   (* Clock ticks in an hour.                               *)
  NoPhone, NoZone, NoLead, NoSid,
  StartTick,      (* Clock at the start, in ticks since midnight UTC.      *)
  MaxTick,        (* Bound: the clock stops here.                          *)
  MaxCalls,       (* Bound: runs start only while the callouts they can    *)
                  (* make stay within this total.                          *)
  MaxMarks,       (* Bound: times a person marks one lead Ready.           *)
  MaxAborts       (* Bound: chunk transactions the platform kills.         *)

Verdicts == {"suppress_and_stop", "human_review", "proceed"}

ASSUME LeadAssumption == Lead \subseteq Nat /\ IsFiniteSet(Lead)
ASSUME TableAssumption ==
  /\ PhoneOf \in [Lead -> Phone \cup {NoPhone}] /\ NoPhone \notin Phone
  /\ From \in [Inbound -> Phone \cup {NoPhone}]
  /\ Verdict \in [Inbound -> Verdicts]
  /\ UtcOffset \in [Lead -> Int \cup {NoZone}]
  /\ NoLead \notin Lead
ASSUME SidAssumption ==
  /\ Inbound \cap Nat = {}
  /\ NoSid \notin Nat \cup Inbound
ASSUME LimitAssumption ==
  /\ HourlyLimit \in Nat /\ MaxCallouts \in Nat \ {0} /\ TicksPerHour \in Nat \ {0}
  /\ StartTick \in Nat /\ MaxTick \in Nat /\ MaxCalls \in Nat
  /\ MaxMarks \in Nat /\ MaxAborts \in Nat

VARIABLES
  now,          (* Clock, in ticks.                                        *)
  status,       (* status[l]: Lead.Outreach_Status__c.                     *)
  optedOut,     (* optedOut[l]: Lead.Opted_Out__c.                         *)
  log,          (* Committed rows of Outreach_Message__c.                  *)
  mirrorJobs,   (* Opt-outs handed to OutreachSuppressionSyncQueueable.    *)
  accepted,     (* The provider: messages it has accepted and will deliver.*)
  calls,        (* Callouts made so far; numbers the attempts.             *)
  pc,           (* pc[r]: where the batch run is.                          *)
  backlog,      (* backlog[r]: leads of the query locator not yet chunked. *)
  chunk,        (* chunk[r]: leads of the current chunk not yet considered.*)
  eligible,     (* eligible[r]: leads of the chunk read as Ready and not   *)
                (* suppressed.                                             *)
  sentThisHour, (* sentThisHour[r]: rows counted at the start of the chunk.*)
  template,     (* template[r]: whether an approved first touch was found. *)
  attemptLog,   (* attemptLog[r]: attempts of the chunk, not yet inserted. *)
  marks,        (* History: times each lead was marked Ready.              *)
  aborts        (* History: chunk transactions the platform killed.        *)

org == <<status, optedOut, log, mirrorJobs>>
run == <<backlog, chunk, eligible, sentThisHour, template, attemptLog>>
vars == <<now, org, accepted, calls, pc, run, marks, aborts>>

(* The values of the picklist, and the one the batch looks for.            *)
Statuses ==
  {"New", "Queued", "Contacted", "Replied", "Human_Review", "Suppressed", "Closed", "Ready"}

Attempt ==
  [id: Nat, lead: Lead, sid: Nat \cup {NoSid}, status: {"Sent", "Failed"}]

Row ==
  [id: Nat \cup Inbound, src: {"attempt", "stub", "inbound"}, lead: Lead \cup {NoLead},
   sid: Nat \cup Inbound \cup {NoSid}, status: {"Sent", "Failed", "Received", "none"},
   delivery: DeliveryStatus \cup {"queued", "failed", "received"},
   review: BOOLEAN, created: Nat]

Message == [id: Nat, lead: Lead, at: Nat]

TypeOK ==
  /\ now \in Nat
  /\ status \in [Lead -> Statuses]
  /\ optedOut \in [Lead -> BOOLEAN]
  /\ log \subseteq Row
  /\ mirrorJobs \subseteq Inbound
  /\ accepted \subseteq Message
  /\ calls \in Nat
  /\ pc \in [Run -> {"idle", "chunking", "counting", "sending"}]
  /\ backlog \in [Run -> SUBSET Lead]
  /\ chunk \in [Run -> SUBSET Lead]
  /\ eligible \in [Run -> SUBSET Lead]
  /\ sentThisHour \in [Run -> Nat]
  /\ template \in [Run -> BOOLEAN]
  /\ attemptLog \in [Run -> SUBSET Attempt]
  /\ marks \in [Lead -> Nat]
  /\ aborts \in Nat

Init ==
  /\ now = StartTick
  /\ status = [l \in Lead |-> "New"]
  /\ optedOut = [l \in Lead |-> FALSE]
  /\ log = {} /\ mirrorJobs = {}
  /\ accepted = {} /\ calls = 0
  /\ pc = [r \in Run |-> "idle"]
  /\ backlog = [r \in Run |-> {}]
  /\ chunk = [r \in Run |-> {}]
  /\ eligible = [r \in Run |-> {}]
  /\ sentThisHour = [r \in Run |-> 0]
  /\ template = [r \in Run |-> FALSE]
  /\ attemptLog = [r \in Run |-> {}]
  /\ marks = [l \in Lead |-> 0]
  /\ aborts = 0

-----------------------------------------------------------------------------
(* The gates of sendBatch.                                                 *)

(* The send window, by the clock of the recipient; an unknown timezone is  *)
(* outside it.                                                             *)
QuietHoursStart == 8
QuietHoursEnd == 21

LocalHour(l) == ((now + UtcOffset[l]) \div TicksPerHour) % 24

InSendWindow(l) ==
  /\ UtcOffset[l] # NoZone
  /\ LocalHour(l) >= QuietHoursStart
  /\ LocalHour(l) < QuietHoursEnd

Outbound(row) == row.src # "inbound"

(* Mutant: only the rows that were sent are counted.                       *)
CountOnlySent ==
  Cardinality({row \in log : row.status = "Sent" /\ row.created >= now - TicksPerHour})

(* The trailing-hour COUNT() of the outbound rows: attempts that failed    *)
(* and stubs of the status callback are counted with the rest.             *)
CountSentThisHour ==
  Cardinality({row \in log : Outbound(row) /\ row.created >= now - TicksPerHour})

(* calloutsMade: every callout adds one attempt, failed or not.            *)
CalloutsMade(r) == Cardinality(attemptLog[r])

(* Mutant: the suppression gate is missing.                                *)
SendableIgnoringOptOut(l) == status[l] = "Ready"

(* What the suppression and the readiness gates let through.               *)
Sendable(l) == ~optedOut[l] /\ status[l] = "Ready"

(* The loop goes through the chunk by Id.                                  *)
Considers(r, l) == l \in chunk[r] /\ \A m \in chunk[r] : l <= m

Blocked(r, l) ==
  \/ l \notin eligible[r]
  \/ ~InSendWindow(l)
  \/ sentThisHour[r] + CalloutsMade(r) >= HourlyLimit
  \/ ~template[r]
  \/ PhoneOf[l] = NoPhone
  \/ CalloutsMade(r) >= MaxCallouts
-----------------------------------------------------------------------------
(* A batch run.                                                            *)

(* executeBatch, by the hourly schedule or by hand: the locator lists the  *)
(* Ready leads.  The last conjunct bounds the callouts.                    *)
Start(r) ==
  /\ pc[r] = "idle"
  /\ calls + Cardinality(Lead) * Cardinality(Run) <= MaxCalls
  /\ pc' = [pc EXCEPT ![r] = "chunking"]
  /\ backlog' = [backlog EXCEPT ![r] = {l \in Lead : status[l] = "Ready"}]
  /\ UNCHANGED <<now, org, accepted, calls, chunk, eligible, sentThisHour, template,
                 attemptLog, marks, aborts>>

(* Mutant: only full chunks are handed out.                                *)
HeadOfFullScope(S, B) ==
  S \subseteq B /\ Cardinality(S) = MaxCallouts /\ \A l \in S, m \in B \ S : l < m

(* The next chunk is the head of the backlog, at most a scope long.        *)
HeadOf(S, B) ==
  /\ S \subseteq B /\ S # {}
  /\ \A l \in S, m \in B \ S : l < m
  /\ \/ Cardinality(S) = MaxCallouts
     \/ S = B /\ Cardinality(B) <= MaxCallouts

(* First query of sendBatch: the leads of the chunk, as committed now.     *)
(* What the suppression and readiness gates will say is settled here.      *)
ReadLeads(r) ==
  /\ pc[r] = "chunking"
  /\ \E S \in SUBSET backlog[r] :
       /\ HeadOf(S, backlog[r])
       /\ chunk' = [chunk EXCEPT ![r] = S]
       /\ backlog' = [backlog EXCEPT ![r] = @ \ S]
       /\ eligible' = [eligible EXCEPT ![r] = {l \in S : Sendable(l)}]
  /\ pc' = [pc EXCEPT ![r] = "counting"]
  /\ UNCHANGED <<now, org, accepted, calls, sentThisHour, template, attemptLog,
                 marks, aborts>>

(* The queries that follow: the approved template, if there is one (which  *)
(* templates are approved is the business of ReplyTemplate), and the rows  *)
(* of the trailing hour.                                                   *)
ReadThrottle(r) ==
  /\ pc[r] = "counting"
  /\ \E found \in BOOLEAN : template' = [template EXCEPT ![r] = found]
  /\ sentThisHour' = [sentThisHour EXCEPT ![r] = CountSentThisHour]
  /\ pc' = [pc EXCEPT ![r] = "sending"]
  /\ UNCHANGED <<now, org, accepted, calls, backlog, chunk, eligible, attemptLog,
                 marks, aborts>>

SkipLead(r) ==
  /\ pc[r] = "sending"
  /\ \E l \in Lead :
       /\ Considers(r, l) /\ Blocked(r, l)
       /\ chunk' = [chunk EXCEPT ![r] = @ \ {l}]
  /\ UNCHANGED <<now, org, accepted, calls, pc, backlog, eligible, sentThisHour,
                 template, attemptLog, marks, aborts>>

(* performSend.  The provider either accepts the message or does not, and  *)
(* either way the answer may be lost: a timeout or a body that does not    *)
(* parse is caught and makes the attempt Failed.  An accepted message may  *)
(* come back without an id; the attempt is Sent all the same.              *)
SendOne(r, l) ==
  LET n == calls + 1
      Attempted(sid, result) ==
        attemptLog' = [attemptLog EXCEPT ![r] =
          @ \cup {[id |-> n, lead |-> l, sid |-> sid, status |-> result]}]
      Accepted == accepted' = accepted \cup {[id |-> n, lead |-> l, at |-> now]}
  IN
  /\ calls' = n
  /\ \/ Accepted /\ Attempted(n, "Sent")
     \/ Accepted /\ Attempted(NoSid, "Sent")
     \/ Accepted /\ Attempted(NoSid, "Failed")
     \/ UNCHANGED accepted /\ Attempted(NoSid, "Failed")

SendLead(r) ==
  /\ pc[r] = "sending"
  /\ \E l \in Lead :
       /\ Considers(r, l) /\ ~Blocked(r, l)
       /\ SendOne(r, l)
       /\ chunk' = [chunk EXCEPT ![r] = @ \ {l}]
  /\ UNCHANGED <<now, org, pc, backlog, eligible, sentThisHour, template, marks, aborts>>

(* insert attemptLog; update contactedLeads.  Both or neither: a provider  *)
(* id that is in the table already fails the insert, nothing catches the   *)
(* exception, and the batch goes on with its next chunk.                   *)
SidTaken(sid) == \E row \in log : row.sid = sid

(* Mutant: no unique index on the provider id.                             *)
InsertNeverFails(r) == FALSE

InsertFails(r) == \E a \in attemptLog[r] : a.sid # NoSid /\ SidTaken(a.sid)

(* Mutant: the delivery status is the send status.                         *)
AttemptRowStatusTwice(a) ==
  [id |-> a.id, src |-> "attempt", lead |-> a.lead, sid |-> a.sid, status |-> a.status,
   delivery |-> a.status, review |-> FALSE, created |-> now]

AttemptRow(a) ==
  [id |-> a.id, src |-> "attempt", lead |-> a.lead, sid |-> a.sid, status |-> a.status,
   delivery |-> IF a.status = "Sent" THEN "queued" ELSE "failed",
   review |-> FALSE, created |-> now]

EndChunk(r) ==
  /\ pc' = [pc EXCEPT ![r] = "chunking"]
  /\ chunk' = [chunk EXCEPT ![r] = {}]
  /\ attemptLog' = [attemptLog EXCEPT ![r] = {}]

(* Mutant: a failed attempt counts as contact.                             *)
EveryAttempted(r) == {a.lead : a \in attemptLog[r]}
(* Mutant: no lead leaves the Ready list.                                  *)
NobodyContacted(r) == {}

(* contactedLeads: only a Sent attempt makes its lead Contacted.           *)
Contacted(r) == {a.lead : a \in {b \in attemptLog[r] : b.status = "Sent"}}

CommitChunk(r) ==
  /\ pc[r] = "sending" /\ chunk[r] = {}
  /\ \/ /\ InsertFails(r)
        /\ UNCHANGED <<log, status>>
     \/ /\ ~InsertFails(r)
        /\ log' = log \cup {AttemptRow(a) : a \in attemptLog[r]}
        /\ status' = [l \in Lead |-> IF l \in Contacted(r) THEN "Contacted" ELSE status[l]]
  /\ EndChunk(r)
  /\ UNCHANGED <<now, optedOut, mirrorJobs, accepted, calls, backlog, eligible,
                 sentThisHour, template, marks, aborts>>

(* The platform kills the transaction (a governor limit, a row lock on a   *)
(* lead a webhook is writing, a deploy): its callouts are not undone.      *)
AbortChunk(r) ==
  /\ pc[r] \in {"counting", "sending"}
  /\ aborts < MaxAborts
  /\ aborts' = aborts + 1
  /\ EndChunk(r)
  /\ UNCHANGED <<now, org, accepted, calls, backlog, eligible, sentThisHour, template,
                 marks>>

Finish(r) ==
  /\ pc[r] = "chunking" /\ backlog[r] = {}
  /\ pc' = [pc EXCEPT ![r] = "idle"]
  /\ UNCHANGED <<now, org, accepted, calls, run, marks, aborts>>

Step(r) ==
  \/ ReadLeads(r) \/ ReadThrottle(r) \/ SkipLead(r) \/ SendLead(r)
  \/ CommitChunk(r) \/ Finish(r)
-----------------------------------------------------------------------------
(* The webhooks.  The provider repeats a request until it is answered with *)
(* 200, so each may come any number of times and at any time.  Requests    *)
(* with a bad signature or no id are refused before anything is read.      *)

(* The newest lead with the number; an unusable number matches nobody.     *)
Matches(l, p) ==
  LET found == {m \in Lead : p # NoPhone /\ PhoneOf[m] = p}
  IN  IF found = {} THEN l = NoLead ELSE l \in found /\ \A m \in found : m <= l

(* Mutant: the wrong verdict is compared.                                  *)
SuppressesEscalated(i) == Verdict[i] = "human_review"

Suppresses(i) == Verdict[i] = "suppress_and_stop"

(* A person looks at what the guardrails escalate, and at an opt-out with  *)
(* no usable number to mirror.                                             *)
NeedsReview(i) == Verdict[i] = "human_review" \/ (Suppresses(i) /\ From[i] = NoPhone)

InboundRow(i, l) ==
  [id |-> i, src |-> "inbound", lead |-> l, sid |-> i, status |-> "Received",
   delivery |-> "received", created |-> now,
   review |-> NeedsReview(i)]

(* A message whose row exists is answered 200 and changes nothing; so is   *)
(* one whose insert fails for another reason (see OptOutMirror).           *)
HandleInbound(i) ==
  /\ ~SidTaken(i)
  /\ \E matched \in Lead \cup {NoLead} :
       /\ Matches(matched, From[i])
       /\ log' = log \cup {InboundRow(i, matched)}
       /\ status' = [l \in Lead |->
            IF l # matched THEN status[l]
            ELSE IF Suppresses(i) THEN "Suppressed" ELSE "Replied"]
       /\ optedOut' = [l \in Lead |-> optedOut[l] \/ (l = matched /\ Suppresses(i))]
  /\ mirrorJobs' = IF Suppresses(i) /\ From[i] # NoPhone THEN mirrorJobs \cup {i}
                                                        ELSE mirrorJobs
  /\ UNCHANGED <<now, accepted, calls, pc, run, marks, aborts>>

(* A status callback for a message the provider accepted: it updates the   *)
(* row with that id, or inserts a stub when there is none yet.             *)
StubRow(n, d) ==
  [id |-> n, src |-> "stub", lead |-> NoLead, sid |-> n, status |-> "none",
   delivery |-> d, review |-> FALSE, created |-> now]

HandleStatus(n, d) ==
  /\ \E m \in accepted : m.id = n
  /\ log' =
       IF SidTaken(n)
       THEN {IF row.sid = n THEN [row EXCEPT !.delivery = d] ELSE row : row \in log}
       ELSE log \cup {StubRow(n, d)}
  /\ UNCHANGED <<now, status, optedOut, mirrorJobs, accepted, calls, pc, run, marks, aborts>>
-----------------------------------------------------------------------------
(* What the code leaves to people and to time.                             *)

(* A person puts a lead on the Ready list, for the first time or again;    *)
(* nothing in the org stops that for a lead that has opted out.            *)
MarkReady(l) ==
  /\ status[l] # "Ready" /\ marks[l] < MaxMarks
  /\ status' = [status EXCEPT ![l] = "Ready"]
  /\ marks' = [marks EXCEPT ![l] = @ + 1]
  /\ UNCHANGED <<now, optedOut, log, mirrorJobs, accepted, calls, pc, run, aborts>>

Tick ==
  /\ now < MaxTick
  /\ now' = now + 1
  /\ UNCHANGED <<org, accepted, calls, pc, run, marks, aborts>>

Next ==
  \/ \E r \in Run : Start(r) \/ Step(r) \/ AbortChunk(r)
  \/ \E i \in Inbound : HandleInbound(i)
  \/ \E n \in {m.id : m \in accepted}, d \in DeliveryStatus : HandleStatus(n, d)
  \/ \E l \in Lead : MarkReady(l)
  \/ Tick

Spec == Init /\ [][Next]_vars

(* The platform keeps running the chunks of a batch it has accepted.       *)
FairSpec == Spec /\ \A r \in Run : WF_vars(Step(r))
-----------------------------------------------------------------------------
(* Properties.                                                             *)

InFlight(n) == \E r \in Run : \E a \in attemptLog[r] : a.id = n

AttemptLogged(n) == \E row \in log : row.src = "attempt" /\ row.id = n

(* One row per provider id, whatever the order of send, callback, webhook  *)
(* and their repeats: the unique index on Provider_Message_Id__c is met by *)
(* three writers, and each of them copes with the others having been first.*)
UniqueSid ==
  \A x, y \in log : x.sid = y.sid /\ x.sid # NoSid => x = y

(* insert attemptLog and update contactedLeads stand or fall together: a   *)
(* lead is Contacted only if a Sent attempt for it is in the log, also     *)
(* when a stub made the insert fail or the platform killed the chunk.      *)
ContactedIsLogged ==
  \A l \in Lead : status[l] = "Contacted" =>
    \E row \in log : row.src = "attempt" /\ row.lead = l /\ row.status = "Sent"

(* Whatever the order of repeats and marks, the row of an opt-out is never *)
(* there without its effects: the matched lead is opted out, and the       *)
(* mirror job is queued or, with no usable number, the row asks for review.*)
OptOutHandled ==
  \A row \in log :
    (row.src = "inbound" /\ Verdict[row.sid] = "suppress_and_stop") =>
      /\ row.lead # NoLead => optedOut[row.lead]
      /\ row.sid \in mirrorJobs \/ row.review

(* The send gate implements SendPermit: once an opt-out is committed only  *)
(* the chunks that had read the lead before can still message it, and each *)
(* of them once.                                                           *)
Permit == INSTANCE SendPermit WITH
  stopped <- {l \in Lead : optedOut[l]},
  permit <- [r \in Run |-> chunk[r] \cap eligible[r]],
  delivered <- accepted

GateImplementsPermit == Permit!Spec

(* With one batch at a time: of the messages accepted in any trailing hour *)
(* those not lost with their transaction stay within the hourly limit,     *)
(* across chunks, across runs, with callbacks inserting stubs meanwhile    *)
(* and with messages that were accepted but logged as Failed.              *)
HourlyCap ==
  Cardinality({m \in accepted :
    m.at >= now - TicksPerHour /\ (InFlight(m.id) \/ AttemptLogged(m.id))}) <= HourlyLimit

(* With one batch at a time: a lead gets no second message the org knows   *)
(* to be Sent unless a person put it on the Ready list again.              *)
OneSendPerMarking ==
  \A l \in Lead :
    Cardinality({row \in log : row.src = "attempt" /\ row.lead = l /\ row.status = "Sent"})
      <= marks[l]

(* A batch walks its whole backlog and ends, whatever fails on the way.    *)
EveryRunFinishes == \A r \in Run : pc[r] # "idle" ~> pc[r] = "idle"

(* "a suppressed contact is never sent to" (OutreachSendService): no       *)
(* message is accepted for a lead whose opt-out has been committed.        *)
SuppressedNeverSent ==
  [][\A m \in accepted' \ accepted : ~optedOut[m.lead]]_accepted

(* "every attempt (success or failure) is logged" (OutreachSendService): a *)
(* message the provider accepted is in flight or has its attempt row.      *)
EveryAttemptLogged ==
  \A m \in accepted : InFlight(m.id) \/ AttemptLogged(m.id)
=============================================================================
