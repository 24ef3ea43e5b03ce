----------------------------- MODULE OptOutMirror -----------------------------
(***************************************************************************)
(* The way of an opt-out from the inbound webhook to the suppression log:  *)
(* TwilioInboundRest commits the message row and queues a job,             *)
(* OutreachSuppressionSyncQueueable posts the event to suppression/api.py  *)
(* and queues itself again when that fails, and a person gets what the     *)
(* retries could not deliver.  The clock counts minutes, the unit of the   *)
(* delays of enqueueJob.                                                   *)
(*                                                                         *)
(* OutreachSend has the webhook with everything else it writes; the posts  *)
(* that arrive are the AppendElsewhere steps of SuppressionStore.          *)
(***************************************************************************)
EXTENDS Naturals

CONSTANTS
  Stop,          (* Provider ids of the messages that ask to be left alone.*)
  Anonymous,     (* Those whose sender has no number Apex can normalize.   *)
  Refused,       (* Those whose identifier the API cannot normalize.       *)
  MaxAttempts    (* MAX_ATTEMPTS.                                          *)

ASSUME MirrorAssumption ==
  /\ Anonymous \subseteq Stop /\ Refused \subseteq Stop
  /\ MaxAttempts \in Nat \ {0}

VARIABLES
  logged,     (* Messages with a row in Outreach_Message__c.               *)
  answered,   (* Messages whose request has been answered 200.             *)
  review,     (* Rows with Needs_Review__c.                                *)
  queued,     (* Messages with a job in the queue.                         *)
  attempt,    (* attempt[i]: attempt of the job of i that comes next.      *)
  delay,      (* delay[i]: minutes until that job may run.                 *)
  mirrored    (* mirrored[i]: events of i in the suppression log.          *)

mirrorVars == <<logged, answered, review, queued, attempt, delay, mirrored>>

MaxDelay == 10

MirrorTypeOK ==
  /\ logged \subseteq Stop /\ answered \subseteq Stop
  /\ review \subseteq Stop /\ queued \subseteq Stop
  /\ attempt \in [Stop -> 0 .. MaxAttempts - 1]
  /\ delay \in [Stop -> 0 .. MaxDelay]
  /\ mirrored \in [Stop -> Nat]

MirrorInit ==
  /\ logged = {} /\ answered = {} /\ review = {} /\ queued = {}
  /\ attempt = [i \in Stop |-> 0]
  /\ delay = [i \in Stop |-> 0]
  /\ mirrored = [i \in Stop |-> 0]
-----------------------------------------------------------------------------
(* Mutant: the retry of the provider queues the job again.                 *)
LogStopAgain(i) ==
  /\ logged' = logged \cup {i}
  /\ IF i \in Anonymous THEN review' = review \cup {i} /\ UNCHANGED queued
                        ELSE queued' = queued \cup {i} /\ UNCHANGED review
  /\ UNCHANGED <<attempt, delay, mirrored>>

(* handleInbound for a message the guardrails suppress, as often as the    *)
(* provider sends it.  The row, the review flag and the job are committed  *)
(* together; the answer may not reach the provider.                        *)
LogStop(i) ==
  /\ i \notin logged
  /\ logged' = logged \cup {i}
  /\ IF i \in Anonymous THEN review' = review \cup {i} /\ UNCHANGED queued
                        ELSE queued' = queued \cup {i} /\ UNCHANGED review
  /\ UNCHANGED <<attempt, delay, mirrored>>

Answer(i) == answered' \in {answered, answered \cup {i}}

HandleStop(i) == LogStop(i) /\ Answer(i)

(* Any DmlException of the insert is taken for a lost race and answered    *)
(* 200; a row lock on the lead (the lookup restricts its deletion, so an   *)
(* insert locks it) raises one too.  A repeat of a logged message comes    *)
(* out the same way.                                                       *)
AnswerWithoutInsert(i) ==
  /\ answered' = answered \cup {i}
  /\ UNCHANGED <<logged, review, queued, attempt, delay, mirrored>>

(* Mutant: the last attempt is not followed by the flag.                   *)
RetryOrForget(i) ==
  IF attempt[i] + 1 < MaxAttempts
  THEN /\ attempt' = [attempt EXCEPT ![i] = @ + 1]
       /\ delay' = [delay EXCEPT ![i] = IF attempt[i] + 1 < MaxDelay THEN attempt[i] + 1
                                                                     ELSE MaxDelay]
       /\ UNCHANGED <<queued, review>>
  ELSE /\ queued' = queued \ {i}
       /\ UNCHANGED <<attempt, delay, review>>

(* Mutant: one attempt too many is made.                                   *)
RetryOnceMore(i) ==
  IF attempt[i] < MaxAttempts
  THEN /\ attempt' = [attempt EXCEPT ![i] = @ + 1]
       /\ delay' = [delay EXCEPT ![i] = IF attempt[i] + 1 < MaxDelay THEN attempt[i] + 1
                                                                     ELSE MaxDelay]
       /\ UNCHANGED <<queued, review>>
  ELSE /\ queued' = queued \ {i}
       /\ review' = review \cup {i}
       /\ UNCHANGED <<attempt, delay>>

(* execute: the job is taken off the queue, and queued again under the     *)
(* next attempt while there is one.                                        *)
Retry(i) ==
  IF attempt[i] + 1 < MaxAttempts
  THEN /\ attempt' = [attempt EXCEPT ![i] = @ + 1]
       /\ delay' = [delay EXCEPT ![i] = IF attempt[i] + 1 < MaxDelay THEN attempt[i] + 1
                                                                     ELSE MaxDelay]
       /\ UNCHANGED <<queued, review>>
  ELSE /\ queued' = queued \ {i}
       /\ review' = review \cup {i}
       /\ UNCHANGED <<attempt, delay>>

Due(i) == i \in queued /\ delay[i] = 0

Append(i) == i \notin Refused /\ mirrored' = [mirrored EXCEPT ![i] = @ + 1]

(* The post arrives and the job hears of it.                               *)
PostAccepted(i) ==
  /\ Due(i) /\ Append(i)
  /\ queued' = queued \ {i}
  /\ UNCHANGED <<logged, answered, review, attempt, delay>>

(* The event is stored, but the answer is a 5xx or does not come.          *)
PostUnanswered(i) ==
  /\ Due(i) /\ Append(i) /\ Retry(i)
  /\ UNCHANGED <<logged, answered>>

(* Nothing is stored: AWS is out of reach, S3 fails, or the API answers    *)
(* 400 to an identifier it cannot normalize.                               *)
PostFails(i) ==
  /\ Due(i) /\ Retry(i)
  /\ UNCHANGED <<logged, answered, mirrored>>

RunJob(i) == PostAccepted(i) \/ PostUnanswered(i) \/ PostFails(i)


Minute ==
  /\ \E i \in queued : delay[i] > 0
  /\ delay' = [i \in Stop |-> IF delay[i] > 0 THEN delay[i] - 1 ELSE 0]
  /\ UNCHANGED <<logged, answered, review, queued, attempt, mirrored>>

MirrorNext ==
  \/ \E i \in Stop : HandleStop(i) \/ AnswerWithoutInsert(i) \/ RunJob(i)
  \/ Minute

MirrorSpec == MirrorInit /\ [][MirrorNext]_mirrorVars

(* Time passes, and the platform runs the jobs that are due.               *)
FairMirrorSpec == MirrorSpec /\ WF_mirrorVars(Minute) /\ \A i \in Stop : WF_mirrorVars(RunJob(i))
-----------------------------------------------------------------------------
(* "a human closes the loop" (OutreachSuppressionSyncQueueable): a logged  *)
(* opt-out is on its way, or in the log, or flagged for review, through    *)
(* every order of repeats, lost answers and exhausted retries.             *)
NothingDropped ==
  \A i \in logged : i \in queued \/ mirrored[i] > 0 \/ i \in review

(* Retried posts append again, but not without end: one opt-out makes at   *)
(* most MAX_ATTEMPTS events, however often the provider repeats it.        *)
EventsBounded == \A i \in Stop : mirrored[i] <= MaxAttempts

(* Every logged opt-out is settled in the end: no job is left, and the     *)
(* event is in the log or a person has the message.                        *)
EveryOptOutSettled ==
  \A i \in Stop :
    i \in logged ~> i \notin queued /\ (mirrored[i] > 0 \/ i \in review)

(* "A concurrent provider retry won the insert; nothing more to do."       *)
(* (TwilioInboundRest): a request that was answered 200 has its row.       *)
AnsweredIsLogged == answered \subseteq logged
=============================================================================
