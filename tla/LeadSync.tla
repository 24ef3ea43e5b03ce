------------------------------ MODULE LeadSync ------------------------------
(***************************************************************************)
(* src/salesforce: the last task of the cleansing state machine pushes a   *)
(* staged batch to the org, one Bulk API job after another, and a daily    *)
(* function compares how many leads the lake and the org hold; an alarm    *)
(* looks at what it reports, and at whether it reports.                    *)
(*                                                                         *)
(* Every request can be lost on the way back, repeated after 429 or 503,   *)
(* or end the function; the jobs of Salesforce go on when it has ended.    *)
(***************************************************************************)
EXTENDS Naturals, Sequences, FiniteSets

CONSTANTS
  Id,           (* External ids.                                           *)
  Batch,        (* Run ids: staging/cleansed/<run_id>.parquet.             *)
  Sync,         (* Invocations of the sync function that may overlap.      *)
  None,         (* No batch.                                               *)
  BatchSize,    (* BATCH_SIZE.                                             *)
  MaxAttempts,  (* MAX_ATTEMPTS of a request.                              *)
  MaxPolls,     (* max_polls of wait_for_job.                              *)
  MaxStages,    (* Bound: batches the pipeline stages.                     *)
  MaxJobs,      (* Bound: jobs of Salesforce; a further one is refused.    *)
  MaxFaults     (* Bound: requests that meet 429, 503 or lose an answer,   *)
                (* and repeated invocations.                               *)

ASSUME SyncAssumption ==
  /\ None \notin Batch
  /\ {BatchSize, MaxAttempts, MaxPolls} \subseteq Nat \ {0}
  /\ {MaxStages, MaxJobs, MaxFaults} \subseteq Nat
  /\ IsFiniteSet(Id)

VARIABLES
  lake,      (* lake[b]: the ids in the file of batch b.                   *)
  due,       (* due[b]: executions that have staged b and not synced it.   *)
  org,       (* Ids of the leads of the org.                               *)
  jobs,      (* Bulk jobs, in the order of their creation.                 *)
  reported,  (* reported[b]: ids in staging/sync-failures/<b>/.            *)
  pc,        (* pc[x]: the request or call that is next.                   *)
  batch,     (* batch[x]: the run id of the event.                         *)
  records,   (* records[x]: what the file held.                            *)
  todo,      (* todo[x]: the records of the chunks that are left.          *)
  job,       (* job[x]: job_id.                                            *)
  attempt,   (* attempt[x]: attempt of _request.                           *)
  polls,     (* polls[x]: polls of wait_for_job so far.                    *)
  failed,    (* failed[x]: failed results of its jobs, not yet written.    *)
  rc,        (* Where the reconciliation is.                               *)
  unread,    (* Files of the lake it has still to read.                    *)
  ids,       (* external_ids.                                              *)
  point,     (* The maximum of the datapoints of the day.                  *)
  alarm,     (* SyncDriftAlarm.                                            *)
  stages,    (* Batches staged so far.                                     *)
  faults     (* Faults so far.                                             *)

salesforce == <<org, jobs>>
call == <<todo, job, attempt, polls, failed>>
invocation == <<pc, batch, records, call>>
reconciliation == <<rc, unread, ids, point>>
vars == <<lake, due, salesforce, reported, invocation, reconciliation, alarm,
          stages, faults>>

(* Failed stands for Aborted too.                                          *)
Terminal == {"JobComplete", "Failed"}
JobStates == {"Open", "UploadComplete"} \cup Terminal

TypeOK ==
  /\ lake \in [Batch -> SUBSET Id] /\ due \in [Batch -> Nat]
  /\ org \subseteq Id /\ reported \in [Batch -> SUBSET Id]
  /\ jobs \in Seq([state : JobStates, data : SUBSET Id, bad : SUBSET Id])
  /\ pc \in [Sync -> {"idle", "token", "create", "upload", "close", "poll", "fetch", "persist", "emit"}]
  /\ batch \in [Sync -> Batch \cup {None}]
  /\ records \in [Sync -> SUBSET Id] /\ failed \in [Sync -> Seq(SUBSET Id)]
  /\ \A x \in Sync :
       /\ todo[x] \subseteq records[x]
       /\ pc[x] \in {"upload", "close", "poll", "fetch"} => job[x] \in DOMAIN jobs
       /\ attempt[x] \in 0 .. MaxAttempts - 1 /\ polls[x] \in 0 .. MaxPolls - 1
  /\ rc \in {"idle", "reading"}
  /\ unread \subseteq Batch /\ ids \subseteq Id
  /\ point \in {"missing", "under", "over"} /\ alarm \in BOOLEAN
  /\ stages \in 0 .. MaxStages /\ faults \in 0 .. MaxFaults

Init ==
  /\ lake = [b \in Batch |-> {}] /\ due = [b \in Batch |-> 0]
  /\ org = {} /\ jobs = <<>> /\ reported = lake
  /\ pc = [x \in Sync |-> "idle"] /\ batch = [x \in Sync |-> None]
  /\ records = [x \in Sync |-> {}] /\ todo = records
  /\ failed = [x \in Sync |-> <<>>]
  /\ job = [x \in Sync |-> 0] /\ attempt = job /\ polls = job
  /\ rc = "idle" /\ unread = {} /\ ids = {}
  /\ point = "missing" /\ alarm = FALSE
  /\ stages = 0 /\ faults = 0
-----------------------------------------------------------------------------
(* The pipeline stages a batch, maybe in place of one of the same name.    *)
Stage(b) ==
  /\ stages < MaxStages
  /\ stages' = stages + 1
  /\ \E S \in SUBSET Id : lake' = [lake EXCEPT ![b] = S]
  /\ due' = [due EXCEPT ![b] = @ + 1]
  /\ UNCHANGED <<salesforce, reported, invocation, reconciliation, alarm, faults>>

Fault == faults < MaxFaults /\ faults' = faults + 1

(* The task of the state machine, which repeats it after an error of the   *)
(* Lambda service.  An empty batch is done at once.                        *)
StartSync(x, b) ==
  /\ pc[x] = "idle" /\ due[b] > 0
  /\ \/ due' = [due EXCEPT ![b] = @ - 1] /\ UNCHANGED faults
     \/ Fault /\ UNCHANGED due
  /\ IF lake[b] = {} THEN UNCHANGED <<pc, batch, records, todo>>
     ELSE /\ pc' = [pc EXCEPT ![x] = "token"]
          /\ batch' = [batch EXCEPT ![x] = b]
          /\ records' = [records EXCEPT ![x] = lake[b]]
          /\ todo' = [todo EXCEPT ![x] = lake[b]]
  /\ UNCHANGED <<lake, salesforce, reported, job, attempt, polls, failed,
                 reconciliation, alarm, stages>>

(* The invocation is over: it has returned, raised, or been stopped.       *)
End(x) ==
  /\ pc' = [pc EXCEPT ![x] = "idle"]
  /\ batch' = [batch EXCEPT ![x] = None]
  /\ records' = [records EXCEPT ![x] = {}]
  /\ todo' = [todo EXCEPT ![x] = {}]
  /\ failed' = [failed EXCEPT ![x] = <<>>]
  /\ job' = [job EXCEPT ![x] = 0]
  /\ attempt' = [attempt EXCEPT ![x] = 0]
  /\ polls' = [polls EXCEPT ![x] = 0]

(* The answer has come: on to the next request.                            *)
Answered(x, next) ==
  /\ pc' = [pc EXCEPT ![x] = next]
  /\ attempt' = [attempt EXCEPT ![x] = 0]
  /\ UNCHANGED <<batch, records, faults>>

(* Mutant: one attempt more than there are.                                *)
OnceMore(x) ==
  /\ IF attempt[x] = 0 THEN Fault ELSE UNCHANGED faults
  /\ IF attempt[x] < MaxAttempts THEN
       attempt' = [attempt EXCEPT ![x] = @ + 1] /\ UNCHANGED <<pc, batch, records, todo, job, polls, failed>>
     ELSE End(x)

(* 429 or 503, whatever has become of the request: it is repeated, and the *)
(* last time raises.                                                       *)
Unavailable(x) ==
  /\ IF attempt[x] = 0 THEN Fault ELSE UNCHANGED faults
  /\ IF attempt[x] < MaxAttempts - 1
     THEN /\ attempt' = [attempt EXCEPT ![x] = @ + 1]
          /\ UNCHANGED <<pc, batch, records, todo, job, polls, failed>>
     ELSE End(x)

(* Another status of 400 or above, no connection: the function ends.       *)
Raise(x) == End(x) /\ UNCHANGED faults

Frame == UNCHANGED <<lake, due, reported, reconciliation, alarm, stages>>

Proceed(x, next) == Answered(x, next) /\ UNCHANGED <<todo, job, polls, failed>>

(* What the function makes of a request that has reached Salesforce.       *)
Outcome(x, next) == Proceed(x, next) \/ Unavailable(x) \/ Raise(x)

GetToken(x) ==
  /\ pc[x] = "token"
  /\ Proceed(x, "create")
  /\ UNCHANGED salesforce /\ Frame

NewJob ==
  /\ Len(jobs) < MaxJobs
  /\ jobs' = Append(jobs, [state |-> "Open", data |-> {}, bad |-> {}])

(* A job whose answer was lost stays open and empty.                       *)
Create(x) ==
  /\ pc[x] = "create"
  /\ \/ /\ NewJob
        /\ \/ /\ job' = [job EXCEPT ![x] = Len(jobs')]
              /\ Answered(x, "upload")
              /\ UNCHANGED <<todo, polls, failed>>
           \/ Unavailable(x)
           \/ Raise(x)
     \/ Len(jobs) = MaxJobs /\ Raise(x) /\ UNCHANGED jobs
     \/ Unavailable(x) /\ UNCHANGED jobs
  /\ UNCHANGED org /\ Frame

Chunk(S) ==
  CHOOSE T \in SUBSET S : Cardinality(T) = BatchSize \/ (T = S /\ Cardinality(S) < BatchSize)

(* The job takes data once; a second time is refused or means nothing.     *)
Upload(x) ==
  /\ pc[x] = "upload"
  /\ \/ /\ jobs' = IF jobs[job[x]].data = {}
                   THEN [jobs EXCEPT ![job[x]].data = Chunk(todo[x])] ELSE jobs
        /\ Outcome(x, "close")
     \/ Unavailable(x) /\ UNCHANGED jobs
  /\ UNCHANGED org /\ Frame

(* So it is with the state.                                                *)
Close(x) ==
  /\ pc[x] = "close"
  /\ \/ /\ jobs' = IF jobs[job[x]].state = "Open"
                   THEN [jobs EXCEPT ![job[x]].state = "UploadComplete"] ELSE jobs
        /\ Outcome(x, "poll")
     \/ Unavailable(x) /\ UNCHANGED jobs
  /\ UNCHANGED org /\ Frame

(* The next chunk, or what follows the last.                               *)
NextChunk(x, bad) ==
  LET left == todo[x] \ Chunk(todo[x]) IN
    /\ Answered(x, IF left = {} THEN "persist" ELSE "create")
    /\ todo' = [todo EXCEPT ![x] = left]
    /\ failed' = [failed EXCEPT ![x] = IF bad = {} THEN @ ELSE Append(@, bad)]
    /\ job' = [job EXCEPT ![x] = 0]
    /\ polls' = [polls EXCEPT ![x] = 0]

(* Mutant: a job that has ended is taken for complete.                     *)
Ended(j) == j.state \in Terminal

Complete(j) == j.state = "JobComplete"

(* Mutant: poll until the job has ended.                                   *)
PollOn(x) == Proceed(x, "poll")

PollAgain(x) ==
  IF polls[x] < MaxPolls - 1
  THEN /\ Answered(x, "poll")
       /\ polls' = [polls EXCEPT ![x] = @ + 1]
       /\ UNCHANGED <<todo, job, failed>>
  ELSE Raise(x)

Poll(x) ==
  /\ pc[x] = "poll"
  /\ LET j == jobs[job[x]] IN
       \/ j.state \notin Terminal /\ PollAgain(x)
       \/ /\ Complete(j)
          /\ \/ j.bad = {} /\ NextChunk(x, {})
             \/ j.bad # {} /\ Proceed(x, "fetch")
       \/ j.state \in Terminal /\ ~Complete(j) /\ Raise(x)
       \/ Unavailable(x)
  /\ UNCHANGED salesforce /\ Frame

FailedResults(x) ==
  /\ pc[x] = "fetch"
  /\ \/ NextChunk(x, jobs[job[x]].bad)
     \/ Unavailable(x)
  /\ UNCHANGED salesforce /\ Frame

(* One failure file per job; a put that raises leaves those before it.     *)
Persist(x) ==
  /\ pc[x] = "persist"
  /\ \E n \in 0 .. Len(failed[x]) :
       /\ reported' = [reported EXCEPT ![batch[x]] = @ \cup UNION {failed[x][k] : k \in 1 .. n}]
       /\ (n = Len(failed[x]) /\ Proceed(x, "emit")) \/ Raise(x)
  /\ UNCHANGED <<lake, due, salesforce, reconciliation, alarm, stages>>

(* put_metric_data, and the handler returns.                               *)
Emit(x) ==
  /\ pc[x] = "emit"
  /\ Raise(x)
  /\ UNCHANGED salesforce /\ Frame

(* The function is stopped after its 15 minutes, or a call raises.         *)
Stop(x) ==
  /\ pc[x] # "idle"
  /\ Raise(x)
  /\ UNCHANGED salesforce /\ Frame

(* Salesforce works off a job; it may fail after some of the records.      *)
Process(j) ==
  /\ jobs[j].state = "UploadComplete"
  /\ \E bad \in SUBSET jobs[j].data :
       /\ \/ jobs' = [jobs EXCEPT ![j] = [state |-> "JobComplete", data |-> {}, bad |-> bad]]
          \/ jobs' = [jobs EXCEPT ![j] = [state |-> "Failed", data |-> {}, bad |-> {}]]
       /\ org' = org \cup (jobs[j].data \ bad)
  /\ UNCHANGED <<lake, due, reported, invocation, reconciliation, alarm, stages, faults>>
-----------------------------------------------------------------------------
Lake == UNION {lake[b] : b \in Batch}

Elsewhere == UNCHANGED <<lake, due, salesforce, reported, invocation, stages, faults>>

StartReconcile ==
  /\ rc = "idle"
  /\ rc' = "reading"
  /\ unread' = {b \in Batch : lake[b] # {}}
  /\ ids' = {}
  /\ UNCHANGED <<point, alarm>> /\ Elsewhere

ReadFile(b) ==
  /\ rc = "reading" /\ b \in unread
  /\ unread' = unread \ {b}
  /\ ids' = ids \cup lake[b]
  /\ UNCHANGED <<rc, point, alarm>> /\ Elsewhere

(* drift_percent is over DRIFT_ALARM_THRESHOLD_PERCENT.                    *)
Drifts(lakeCount, salesforceCount) ==
  LET apart == IF lakeCount > salesforceCount THEN lakeCount - salesforceCount
               ELSE salesforceCount - lakeCount
  IN IF lakeCount = 0 THEN salesforceCount # 0 ELSE apart * 100 > lakeCount

(* query_count, and the datapoint.                                         *)
Report ==
  /\ rc = "reading" /\ unread = {}
  /\ rc' = "idle"
  /\ point' = IF point = "over" \/ Drifts(Cardinality(ids), Cardinality(org))
              THEN "over" ELSE "under"
  /\ ids' = {}
  /\ UNCHANGED <<unread, alarm>> /\ Elsewhere

(* Any call of it may raise: no datapoint.                                 *)
ReconcileRaises ==
  /\ rc = "reading"
  /\ rc' = "idle" /\ unread' = {} /\ ids' = {}
  /\ UNCHANGED <<point, alarm>> /\ Elsewhere

(* Mutant: a day without a datapoint is a good day.                        *)
Over(p) == p = "over"

(* Missing data is BREACHING.                                              *)
Breaching(p) == p \in {"over", "missing"}

Day ==
  /\ alarm' = Breaching(point)
  /\ point' = "missing"
  /\ UNCHANGED <<rc, unread, ids>> /\ Elsewhere

Step(x) ==
  \/ GetToken(x) \/ Create(x) \/ Upload(x) \/ Close(x) \/ Poll(x)
  \/ FailedResults(x) \/ Persist(x) \/ Emit(x)

Next ==
  \/ \E b \in Batch : Stage(b) \/ ReadFile(b) \/ \E x \in Sync : StartSync(x, b)
  \/ \E x \in Sync : Step(x) \/ Stop(x)
  \/ \E j \in DOMAIN jobs : Process(j)
  \/ StartReconcile \/ Report \/ ReconcileRaises \/ Day

(* The platform runs what it has started, and time passes.  Salesforce owes*)
(* nothing: a job may never end.                                           *)
Spec ==
  /\ Init /\ [][Next]_vars
  /\ \A x \in Sync : WF_vars(Step(x))
  /\ WF_vars(Day)
-----------------------------------------------------------------------------
(* "per-record failures are written ... never silently dropped" (sync.py:  *)
(* 10-11): when the handler is about to return, every record it read is in *)
(* the org or in a failure file, whatever was lost, repeated or refused on *)
(* the way and whatever other invocations did.                             *)
SettledWhenDone ==
  \A x \in Sync : pc[x] = "emit" => records[x] \subseteq org \cup reported[batch[x]]

(* A sync ends although Salesforce may never finish its job.               *)
EverySyncEnds == \A x \in Sync : pc[x] # "idle" ~> pc[x] = "idle"

(* The org has less than 99 % of the leads of the lake.                    *)
Short == org # Lake /\ 100 * Cardinality(org) < 99 * Cardinality(Lake)

(* An org that stays short of the lake by more than 1 %, for whatever      *)
(* reason, ends in an alarm that stays (reconcile.py:10-11), although the  *)
(* two sides are counted at different times and the comparison may itself  *)
(* fail every day.                                                         *)
LossIsNoticed == <>[]Short => <>[]alarm
=============================================================================
