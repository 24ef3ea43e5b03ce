# TLA+ models of the Automated Outreach Protocol

The repository cleans lead files, pushes them to a Salesforce org, sends first-touch SMS
messages, takes the replies, and keeps everybody who has opted out from being messaged
again. These modules model the parts in which the order of events decides whether that is
so, and say what TLC has checked and what TLAPS has proved about them.

To check a run: `tlc -config MCLeadSync_synced.cfg MCLeadSync`; proofs: `tlapm
LeadSyncProofs.tla`. `PROJECT.json` lists the runs, the hazards of the code with their
lines, and for every definition the lines it models.

## 1. Inventory

| Part | Code | State it keeps | Operations | Talks to |
|---|---|---|---|---|
| Send path | `OutreachSendService`, `OutreachSendBatch`, `OutreachSendScheduler`, `OutreachSettings`, `TextTorrentProvider`, `MessagingProvider` | `Lead` (status, opt-out), `Outreach_Message__c` | hourly or manual batch; per chunk: query, count, callouts, one commit | SMS provider (HTTP), the two tables |
| Webhooks | `TwilioInboundRest`, `TwilioStatusCallbackRest`, `TwilioWebhook` | the same tables | a reply or STOP, a delivery status; each may be repeated | provider, `OutreachSuppressionSyncQueueable` |
| Opt-out mirror | `OutreachSuppressionSyncQueueable`, `suppression/api.py` | queued jobs, review flags | post, retry with growing delay, flag | the suppression log in S3 |
| Suppression store | `suppression/store.py` | append-only event log in S3, Parquet snapshot, one cache per process | add, query, list, export | S3; whoever asks |
| Reply templates | `Reply_Template__c` and its validation rules | status, version and body | saves by people; read once per chunk | send path |
| Vendor reconciliation | `texttorrent/reconcile.py` | the opt-out list of the vendor | nightly diff in both directions | vendor API, suppression store |
| Cleansing pipeline | `cleansing/` | files in S3 per step and run id, quarantine | seven functions of a state machine | suppression store, DNS, sync |
| Salesforce sync | `salesforce/sync.py`, `bulk.py`, `reconcile.py` | Bulk jobs, failure files, drift alarm | token, create, upload, close, poll, fetch; daily comparison | Bulk API, S3, CloudWatch |
| Conversation scripts | `research/auto_chat.py`, `conversation_harness.py`, `send_one.py` | what each process remembers of one chat | poll, judge, answer | vendor chat, guardrails, buckets |
| Watchdogs | `salesforce/inbound_gap.py`, `texttorrent/canary.py`, `observability_stack.py` | datapoints, alarms | measure silence; send and read back | org, vendor, CloudWatch |
| Guardrails, buckets | `guardrails/`, `classifier/buckets.py`, `OutreachGuardrails.cls` | none | verdict and intent of a text | all that read replies |
| Classifier API, research tools, infrastructure | `classifier/`, `research/`, `infra/` | weights, files, stacks | see section 6 | |

**What is hard here.**

- Apex reads committed rows without locking and commits a whole transaction at once, with
  up to 90 callouts in between: webhooks commit between the read and the write of a chunk.
- Callouts cannot be undone, so a failed insert parts the org from the provider, and a
  send, a post or a Bulk request whose answer is lost may or may not have happened.
- The provider repeats webhooks; callbacks may come before the chunk that caused them.
- S3 listings and the pages of the vendor's list come one by one while entries change.
- Runs follow each other for ever under one hourly limit: what fails at the head can
  starve the rest. Two stores hold opt-outs, and each must hear of the other's.
- Executions of the pipeline share the objects of their run id, each function reads, works
  and writes without a lock, and may die between two writes or be repeated.
- A Bulk job outlives the function that waits for it, and the function may be stopped.
- The scripts keep all they know in memory, read only the newest messages of a chat, and
  do not know of each other.
- An alarm must tell nothing wrong from nothing measured, across nights and weekends.

**What makes each part correct.** Send path: nobody is messaged whose opt-out a chunk
could have seen, the hourly limit, at most one message per marking as Ready, log and
status in step, every run ends, every lead the provider takes is reached as long as the
refused ones leave room. Webhooks: one row per
provider id, and an opt-out never without its effects. Mirror: nothing dropped, nothing
repeated for ever, everything settled. Store: freshness, own writes, earliest opt-out,
snapshot. Templates: nothing unapproved goes out. Reconciliation: a run that reports has
closed the gaps in what it could read, and the lists come to agree. Pipeline: nothing suppressed is
staged and no row is lost unseen. Sync: a record is in the org or in a failure file, and a
loss is noticed. Scripts: nothing answered or judged twice, nothing passed over, the loop
breaker. Watchdogs: silence and rewriting are paged, quiet nights are not.

## 2. Modules

`SendPermit` is abstract; the others are translated from the code. `MC...` modules hold
the values of the constants for TLC, `...Proofs` modules the theorems.

**`OutreachSend`** (core). Variables `status`, `optedOut`, `log` are the committed tables;
`pc`, `backlog`, `chunk`, `eligible`, `sentThisHour`, `template`, `attemptLog` are the
local variables of a run, one record per batch job; `accepted` is the truth at the
provider. One action per step another transaction can see or come between:

| Action | Code |
|---|---|
| `Start` | `OutreachSendBatch.start` with its query locator |
| `ReadLeads` | first query of `sendBatch`; the suppression and readiness gates are functions of what it returns and are settled here (`eligible`) |
| `ReadThrottle` | template query and `COUNT()` of the trailing hour |
| `SkipLead`, `SendLead` | one turn of the loop, the latter with `performSend`: accepted or not, answered or not, with an id or without |
| `CommitChunk` | `insert attemptLog; update contactedLeads`, both or neither |
| `AbortChunk` | the platform rolls the transaction back (bounded by `MaxAborts`) |
| `Finish` | `finish` |
| `HandleInbound`, `HandleStatus` | the two webhooks, each in one step |
| `MarkReady`, `Tick` | people and the clock |

A webhook is one step because what it reads cannot change before it writes, except for
the presence of its own row, and that is decided by the unique index at the insert just
as the query would have decided it. The verdict of the guardrails is a constant per
message. `Id` and `CreatedDate` order leads alike. Nothing in `src/` writes the status
`Ready`: the batch looks for it, and the model lets people set it (`MarkReady`). (The
restricted picklist in `Lead/fields/Outreach_Status__c.field-meta.xml` does not list
`Ready` at this commit; the models describe the code with the value available.)

**`SendPermit`**: runs hold permits for leads; a permit is granted only for a lead that
has not opted out, serves for one message, and an opt-out stops new ones. `OutreachSend`
implements it with `permit[r] = chunk[r] \cap eligible[r]`, `delivered = accepted`.

**`SendBacklog`**: the same batch seen from far away: a chunk is one step, the runs
follow each other hour by hour for ever, and the choice is how many rows of the last
hour still count (`kept`). `Unreachable` leads are refused by the provider every time.
(`SendBacklog` and `OptOutMirror` name their specification `BacklogSpec` and
`MirrorSpec`, and so on, so that one module of proofs can speak of two components.)

**`SuppressionStore`**: `events` is the log, a listing goes page by page (`token`,
`read`, `listed`) while others append under any free key, `loadedAt` is taken before the
listing. A query that had to refresh is answered by `FinishQuery`, however long its
listing took. `AppendElsewhere` is `suppression/api.py`, whose store lives for one request,
and also a `put_object` that raises although S3 stored the object.

**`OptOutMirror`**: the way of one opt-out: webhook, retried job, API, review flag. The
posts that arrive are the `AppendElsewhere` steps of `SuppressionStore`; `HandleStop` is
`HandleInbound` of `OutreachSend` cut down to an opt-out, plus the failing insert
(`AnswerWithoutInsert`) that `OutreachSend` leaves out. Assumed: the platform does not
refuse `enqueueJob` from a job, nor the update that sets the review flag.

**`VendorReconcile`**: the nightly handler of `texttorrent/reconcile.py`. `ours` is the
set of identifiers of the log of `SuppressionStore` (whose `AddSuppression` and paged
listing are here `AddOne` and the choice of `S` in `Compare`), `theirs` the list of the
vendor in the order of its pages. Steps: `ReadPage` (one GET), `Compare`, `AddOne` (one
turn of the loop), `Push` (one POST), `Report` (the metric), `Fail` anywhere.
`ReadErrorPage` is an answer that `_request` lets through although it is an error (a 400,
a 404, `success: false`): it has no entries, ends the list like a short page, and is
remembered in `cut`. Meanwhile
opt-outs come on either side and the vendor may take entries off. Emails are in the log
from the start and must only stay out of the comparison. Assumed of the vendor: new
entries stand at an end of the list and a repeated one is not entered twice. A number of
another country is pushed as its last ten digits, those of somebody else
(`ten_digits`): the properties leave such numbers out (`Domestic`), the instance
does not.

**`ReplyTemplate`**: any save the two validation rules admit, and chunks that send the
copy they have read.

**`LeadPipeline`**: the seven functions of `cleansing/steps` and the state machine of
`pipeline_stack.py`. `out`, `quarantine`, `excluded`, `staged` are the objects in S3 per
run id; an execution `x` is at task `step[x]`, has read its input or not (`busy`), and
holds `rows[x]`. `ReadInput` and the write that ends a function are two steps, so that
executions of one run id (the same event twice, the file uploaded again, two files of one
name) mix on the same objects; a task may be repeated after an error of the Lambda
service and a function may die between its output and its quarantine file, or anywhere
(`Crash`). `Raise` are rows that make a function raise: a column that is not there, a
last contact that cannot be parsed. A lookup of `Validate` may time out and then counts as
no MX. A row is a record of what the steps look at; texts of phones and emails are values
which `Normalize` maps to identifiers. `Suppress` asks the list for
each row, and each answer may reflect another part of the log between what was there when
it began and what is there when it ends. `source`, `alone`, `floor` are history.

**`LeadSync`**: the sync function after the last of these tasks (`Stage` is what
`WriteStaging` leaves: any set of ids under a run id), request by request: each may meet 429 or 503 before or after it
took effect, be repeated up to `MaxAttempts`, lose its answer, or raise; a job goes on
without the function (`Process`), may fail after some of its records, or never end. The
daily comparison reads the files one by one and counts the org at the end; `Day` is the
alarm, for which missing data is breaching.

**`ChatRules`**, **`AutoChat`**, **`ConversationHarness`**, composed by **`ChatTools`**:
one chat at the vendor, and two tools that read it (the newest `Limit` messages) and
write to it. A text is the set of the patterns it matches; the rules and buckets are
operators that put them in the order of the code. `auto_chat.py` is `AutoStart` (history
read, or taken to be empty when the read fails), `AutoOpen`, `AutoRead` (the newest unread
inbound message decides), `AutoSend` (the vendor accepts or not, independently of what the
script hears), `AutoStop` (a restart). The harness has a baseline, an opener, a poll that
takes all new messages in the order of their ids, and a person who sends, edits or skips.
`chat[k].re` records which message a reply answers; `blind`, `judged`, `unconfirmed`,
`overrun`, `from` are history.

**`Watch`**: detector and canary with the two alarms, on a clock whose tick is one period
of the gap alarm. `as_of` is read first, the query and the datapoint are later steps, and
every step may fail. `BusinessTime` is the loop of `business_seconds`, day by day; `Open`
and `OpenTime` tell the same hours tick by tick and are what the properties speak of. The
phase of the daily canary is that of the deployment (`rate(1 day)`): a run of it may go on
over the end of the alarm's day, and a text sent before the rewriter was on and read back
in the next day only delays the alarm by that day (`rewriter` becomes "lasting" later).

## 3. Runs

| Run | Checks | Bounds and why they suffice |
|---|---|---|
| `gate` | `TypeOK`, `UniqueSid`, `ContactedIsLogged`, `OptOutHandled`, `GateImplementsPermit` | Two runs, two leads, one STOP, one killed chunk, 4 callouts: enough for both runs to hold the same lead while the STOP or a callback comes at any point of either |
| `single` | `HourlyCap`, `OneSendPerMarking`, `EveryRunFinishes` | One run at a time, three leads in chunks of two, 3 ticks of an hour so that rows age out and a window closes, limit 1, 5 callouts over several runs; one lead has no known timezone |
| `drained` | `BacklogTypeOK`, `EveryLeadIsContacted` | nine leads, the first three of which are always refused, two of them in any hour; scope 2, limit 5 (the least that `RoomIsLeft` allows, and fewer than may be sent to in an hour), days of four hours with windows of two or of all; any initial backlog |
| `log` | `TypeOK`, `FreshCacheReflectsLog`, `WritersSeeOwnWrites`, `CacheIsEarliest`, `SnapshotReflectsLog` | one cache (all other writers are `AppendElsewhere`), two contacts, three ticks of the clock, two keys at one a page: a key may be behind the token or still ahead of it when its event is written |
| `settled` | `MirrorTypeOK`, `NothingDropped`, `EventsBounded`, `EveryOptOutSettled` | the code's five attempts; an ordinary number, one the API refuses, one Apex cannot normalize |
| `answered` | `AnsweredIsLogged` is violated | one STOP |
| `approved` | `TypeOK`, `SentWasApproved` | two templates, versions and bodies, one chunk |
| `agreed` | `TypeOK`, `RunClosesGaps`, `ListsComeToAgree` | one run after another, on the API in pages of one entry or on an export; three entries: a number in two formats and no number; a foreign number and an email in our log; one failure or error for a page, one entry taken off. A second run at the same time does to the first what the opt-outs on either side do |
| `staged` | `TypeOK`, `StagedIsClear`, `EveryRowAccounted` | two executions of one run id and one object; three files: two spellings and two ages of one contact, an email alone, rows that a step rejects, a recent and an unreadable last contact, a row cut off; two upsets (uploads, repeats, crashes), two days, cooldown of one |
| `synced` | `TypeOK`, `SettledWhenDone`, `EverySyncEnds`, `LossIsNoticed` | two records in jobs of one, so that a sync has a first and a last job; two batches staged under one name; two jobs, two attempts and two polls; one fault. Invocations that overlap share only the org and the failure files, which grow: they are left to the proof |
| `chats` | `TypeOK`, `OneReplyPerInbound`, `LoopBreakerHolds`, `JudgedOnce`, `InboundIsHeard` | reads of three messages, one reply per start, texts that match two patterns each (an opt-out that is a threat, a yes that is a question); `MaxEvents` = 9 weighs a message 1 and a start of a tool 3, so that there are nine messages without a start, three messages after two starts, and with one start a read that no longer returns all |
| `watch` | `TypeOK`, `SilencePages`, `QuietIsNotPaged`, `RewriteIsNoticed` | Thursday to Tuesday with five ticks a day, three of them open, a threshold of four: longer than a day's window, so that it is reached across a night or the weekend only |

Bounds on counters are constants of the modules (`MaxTick`, `MaxCalls`, `MaxMarks`,
`MaxAborts`, `MaxNow`, `MaxFails`, `MaxUnblocks`, `MaxUpsets`, `MaxStages`, `MaxJobs`,
`MaxFaults`, `MaxEvents`) and stand in the guards; a cfg says `CHECK_DEADLOCK FALSE`
where a behaviour stops at them. Symmetry is used only in runs without liveness
properties.

What the statements leave out, and why:

- `HourlyCap` and `OneSendPerMarking` are stated for one run at a time. With overlapping
  runs, or once a chunk's rows are lost (`AbortChunk`), neither holds of what the provider
  has accepted: the count each chunk starts from does not see the other.
- `EveryLeadIsContacted` has the premise `RoomIsLeft` (see Fairness). It is about leads
  that are refused every time; those refused now and then are not modelled.
- `FreshCacheReflectsLog` is about answers of a cache that is fresh. The query that has to
  refresh is answered with the events older than the start of its listing
  (`CacheIsEarliest`), which may by then be longer ago than the TTL.
- `RunClosesGaps` promises our side of the comparison only to runs whose reading was
  whole: nothing taken off meanwhile, no error taken for the last page.
- `StagedIsClear` compares with the list as it was when the executions that share files
  began, and with the identifiers the row still has. `EveryRowAccounted` is stated for
  executions that had their files to themselves (`alone`): two that overlap overwrite each
  other's quarantine files.
- `OneReplyPerInbound` allows one more answer for each start whose first read failed: such
  a start takes a chat it has answered for a new one. `JudgedOnce` excepts polls between
  which more came than a read returns (`overrun`).
- A day is the unit of `Watch`'s rewriter: the canary runs daily, and a rewriter that is on
  for part of a day may be missed by design. A day that begins with a text sent before the
  rewriter still to be read back counts as such a part.
- The comparison of `LeadSync` counts; it does not compare ids. `LossIsNoticed` therefore
  speaks of an org that holds less than 99 % of the lake for good.

**Fairness.** `EveryRunFinishes` assumes that the platform keeps executing a batch it has
accepted (weak fairness of the steps of each run; not of `Start`, of people or of
webhooks). `EveryLeadIsContacted` assumes that the schedule fires every hour and
its chunks are executed, and `RoomIsLeft`: in every hour, the refused leads whose window
is open and those of the hour before are together fewer than the limit. Refused leads
stay Ready and the older ones among them come first in every run, and their rows of the
hour before may still be counted while a run goes on, so this many places can be taken for
ever. With one place less in the instance of `drained`, a lead behind them may starve
(section 5). `ListsComeToAgree` assumes that the schedule fires however often the handler
is run by hand (strong fairness) and that failures, errors in place of pages and removals
end (`MaxFails`, `MaxUnblocks`).
`EveryOptOutSettled` assumes that
time passes and that jobs which stay due are run; it assumes nothing of the provider or of
AWS. `EverySyncEnds` and `LossIsNoticed` assume that an invocation that runs goes on
(`WF(Step)`) and that days pass (`WF(Day)`): Salesforce owes nothing, a job may never
end, and the comparison may fail every day. `InboundIsHeard` assumes that the loop of
`auto_chat.py` goes on while nobody stops it; the person of the harness owes nothing.
`Watch` needs none: its properties are about the step in which a period ends.

## 4. Proofs

All theorems are for every value of the constants under the assumptions named in the
modules (TLC evaluates these on each run).

- **`OutreachSendProofs`**: `TypeCorrect`; then three invariants on top of it.
  *Ids*: `UniqueSid` is not inductive, because a chunk carries ids that are not in the
  table yet; the strengthening `Numbered` says that ids are numbers of callouts already
  made, that a chunk holds one attempt per number and that an attempt's id is its own
  number or none. *Opt-outs*: a row is written with its effects and nothing takes them
  back. *Contacts*: `status` becomes Contacted only in the step that inserts the Sent row.
  `GateRefinesPermit` maps every step to a step of `SendPermit` or a stutter; `ChunkInv` (a
  run outside a chunk holds no attempts) carries it.
  Two theorems have the hypothesis `SingleRun` (one batch at a time), because both
  properties fail for two: *One message per marking* (`OneSendForEveryMark`): the
  invariant `Spared` says that a lead which may still get a message (it is Ready, is read
  as sendable by the chunk, or has an attempt in it) has a marking that its Sent rows have
  not used up; `OncePerChunk` gives it one attempt per chunk. *Hourly limit* (`HourlyLimitHolds`): the invariant `Limited`
  keeps the rows of the trailing hour, and the count a chunk started from plus the
  callouts it has made, within the limit; `Dated` says that a row is not older than the send it is about, so that a row
  leaves the count of the hour no sooner than its message leaves the hour.
- **`SuppressionProofs`** (`SuppressionStore` and `OptOutMirror`): for the store, `IInv`
  joins types, `ListingInv` (during a listing every event older than its start is either
  read or behind the token) and `CacheInv` (what a loaded cache contains of the log and of
  the writer's own events). All four properties follow from it. For the mirror: the events
  of an opt-out are at most the attempts of its job, and one that no trigger has seen has
  neither; `NothingDropped` needs that only queued jobs run.
- **`BatchProofs`** (`ReplyTemplate` and `SendBacklog`): what a chunk holds was approved
  when it was read, and `approved` only grows; the rows of this hour and those left of the
  hour before stay within the limit together, over every change of the hour.
- **`VendorReconcileProofs`**: `RunsCloseGaps` for any formats, page sizes and numbers of
  concurrent runs. `RunInv` says that, as long as nothing has been taken off the list and
  no error was taken for the last page (`Whole`),
  every entry that stood on it all the time is among what the run has read or stands on a
  page still to come; then that it is in the comparison; then in our log or in what is
  still to be added; and the other way round for the numbers of our log. Two lemmas carry
  it: entries that come to either end of the list move none to an earlier page, and each of
  them gets a place (`EntersAll`), and reading a page moves what stands on it from ahead
  to read (`PageIsRead`). That the log holds finitely
  many phones is part of `IInv`.
- **`LeadPipelineProofs`**: `Types` says what shape the rows of each step have and that
  every object holds finitely many (assumed of uploaded files: without it nothing keeps a
  chosen row from being no minimum). `ClearInv`, for `StagedBatchesAreClear`: the objects
  and rows behind the suppression step are clear of whatever was on the list when the
  executions that share them began, so an overlapping execution can only write an output
  that is as clear. `AccountInv`, for `RowsAreAccounted`: in an execution that has its
  files to itself each line of the source stands in what the step reads, in what an
  earlier step put into quarantine, or for deduplication is stood for by another row of
  its contact.
- **`LeadSyncProofs`**: `RecordsAreSettled` for any batches, chunk sizes, attempts and
  numbers of invocations. The invariant: no two invocations wait for the same job
  (`OwnJobs`), the job of an invocation holds its chunk until Salesforce has brought it
  to the org but for what it lists as failed (`JobHoldsChunk`), and a record read is to
  do, in the org, noted as failed or in a failure file (`NothingForgotten`). `TypeCorrect`
  adds `Calls` (attempts and polls below their limits, nothing to do that was not read)
  and the comparison. `ChunkIsPart` proves that a finite set of records has a chunk: `Id`
  is assumed finite, as what a file can hold is.
- **`ChatToolsProofs`**: `RepliesAreSingle`. Not inductive by itself: an answer to a
  message is at most the last one if the script can still answer it, so `IInv` says that
  a message that is `Pending` (unread and within reach of a read, or being answered) has
  been answered in blind starts only. The step that starts the script is the hard one: a
  message it will take for new came after every message of its own that it sees, and an
  answer to it would be newer than the message and so be seen. (`NewestExists` proves from
  well-foundedness that a set of messages has a newest one.) `LoopBreakerFires`: the
  invariant `Breaker` ties the templates of the session to the counter of the harness.
  `MessagesAreJudgedOnce`: the invariant `Gate` says that what has been seen of the session
  is judged or waits in the batch, each once, and that nothing older than the newest
  message seen is missing from it; it needs that what a poll brings can be put in order
  (`OrderExists`).
- **`WatchProofs`**: first what the loop over the days computes. Its sum is defined by
  recursion over the days and the library's induction cannot be used, but a closed form
  satisfies the same equation (the number of open ticks before a day), and two functions
  that satisfy it agree: a least day on which they differ is impossible
  (`BusinessTimeIsOpenTime`). From there on only facts about `OpenTime` are used.
  `SilencePages` follows from `Measured`: a gap that is on its way or has been put is no
  less than the open time since the newest message, up to the period before.
  `QuietIsNotPaged` needs an upper bound as well (`Quiet`): a later run measures no more
  than an earlier one plus the period that has begun, and after a period without alarm
  every gap is below the threshold but for the open time of the last two periods. For the
  canary: while the rewriter has been on since the day began, no datapoint of the day says
  "identical" and no text that is kept waits to be read back.

So every invariant, every action property and the refinement that the runs check are also
proved. Only model-checked are the liveness properties (`EveryRunFinishes`,
`EveryLeadIsContacted`, `ListsComeToAgree`, `EveryOptOutSettled`, `EverySyncEnds`,
`LossIsNoticed`, `InboundIsHeard`), which the prover cannot treat, and the violation
that `answered` shows. The strengthenings were checked by TLC on the instances of their
components before they were proved.

## 5. Where the code and its texts part

The run `answered` shows one: a STOP whose insert fails for another reason than a lost
race is answered 200 and gone (see "findings" in `PROJECT.json`). The modules also state
properties that a comment or a decision record claims and that do not hold; adding one to
the cfg of its module shows a counterexample within seconds.

| Property | Claim | What happens |
|---|---|---|
| `OutreachSend.SuppressedNeverSent` | "a suppressed contact is never sent to" (`OutreachSendService.cls`) | a STOP is committed after the chunk has read its leads and before it sends; `GateImplementsPermit` is what holds in its place |
| `OutreachSend.EveryAttemptLogged` | "every attempt (success or failure) is logged" (same class) | a row with the same id, or a killed chunk, takes the whole insert with it |
| `SendBacklog.NobodyStarves` | "off-window leads are deferred with reason quiet_hours and picked up by a later run" (`OutreachSendScheduler.cls:8-10`) | leads that the provider always refuses stay Ready at the head; with `Limit = 4` in the cfg of `drained` they fill what the rows of the hour before leave, and lead 4, whose window is the first half of the day, is passed over day after day |
| `SuppressionStore.EveryAnswerReflectsLog` | "reads go through a cache refreshed from S3 whenever it is older than `REFRESH_TTL_SECONDS` (< 60, the compliance bound)" (`store.py:9-11`; ADR-009: "queryable within 60 seconds") | the query that refreshes is answered after a listing of any length (one request per event), and lacks what was appended meanwhile behind the listing |
| `VendorReconcile.EveryReportClosesGaps` | "This job closes both gaps nightly and alarms on ANY divergence" (`texttorrent/reconcile.py:6-7`) | a page is answered 400, 404 or `success: false`, which `_request` lets through (`client.py:100-101`); it is taken for the last page, and what stands behind it is neither added nor counted |
| `VendorReconcile.ZeroIsNoDisagreement` | "any disagreement pages a human" (ADR-019) | a run adds opt-outs and dies before its report; the next finds no difference and reports 0 |
| `ReplyTemplate.VersionNamesOneBody` | the body of an approved template never changes in place (`Approved_Body_Is_Immutable`) | the way through another status leaves the version as it is |
| `LeadPipeline.SuppressedNeverStaged` | "Drops every contact the suppression list matches (cross-channel ...)" (`suppress.py:10-11`) | `validate.py` has taken the email away, for which the contact was on the list; ADR-010 wants that |
| `AutoChat.NothingAfterOptOut` | "opt-out (STOP) halts the thread instantly and permanently" (`auto_chat.py:9-10`) | only the newest of the messages between two polls is evaluated |

## 6. Not modelled

- The matching of texts (folding, edit distance to a keyword) and the parsing of webhooks:
  pure functions over strings, far below what the properties tell apart. The models take
  the verdict of a text, or the patterns that match it, as data.
- Model inference and the classifier's API: `classify()` is one pure call of the rules and
  buckets, which `ChatRules` has, and the API keeps nothing but a token.
- `voice_analysis.py`, `texttorrent_capture.py`, `serve_local.py`: one-off scripts.
- Buckets, roles, keys and stacks of `infra/`: declarations. Triggers, schedules,
  timeouts and alarms appear as actions and bounds of the modules they concern.
- The line type lookup of `validate.py`, which the stack switches off; the usage metrics
  of the sync; changes of daylight saving time, which fall on Sundays, outside every
  window that is measured.

What a next step would add: the safety half of the liveness arguments as theorems (a chunk
always has a next step, a retry makes its measure fall), so that only fairness is left to
TLC; `SuppressionStore` shown to provide the set that `LeadPipeline` and `VendorReconcile`
take for granted; a comparison of the number normalizations of Python and Apex.
