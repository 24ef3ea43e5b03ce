--------------------------- MODULE LeadSyncProofs ---------------------------
(***************************************************************************)
(* Theorems about LeadSync, for any records, batches, invocations that     *)
(* overlap, and limits of attempts, polls and jobs.                        *)
(***************************************************************************)
EXTENDS LeadSync, FiniteSetTheorems, TLAPS

Job == [state : JobStates, data : SUBSET Id, bad : SUBSET Id]

Types ==
  /\ lake \in [Batch -> SUBSET Id]
  /\ reported \in [Batch -> SUBSET Id]
  /\ jobs \in Seq(Job)
  /\ pc \in [Sync -> {"idle", "token", "create", "upload", "close", "poll", "fetch", "persist", "emit"}]
  /\ batch \in [Sync -> Batch \cup {None}]
  /\ records \in [Sync -> SUBSET Id] /\ todo \in [Sync -> SUBSET Id]
  /\ failed \in [Sync -> Seq(SUBSET Id)]
  /\ job \in [Sync -> Nat]

HasJob(x) == pc[x] \in {"upload", "close", "poll", "fetch"}

(* The job of an invocation holds its chunk until Salesforce has brought   *)
(* the chunk to the org, but for the records it lists as failed.           *)
JobHoldsChunk(x) ==
  HasJob(x) =>
    /\ job[x] \in 1 .. Len(jobs)
    /\ pc[x] = "upload" => jobs[job[x]].state = "Open" /\ jobs[job[x]].data \in {{}, Chunk(todo[x])}
    /\ pc[x] # "upload" /\ jobs[job[x]].state \in {"Open", "UploadComplete"} =>
         jobs[job[x]].data = Chunk(todo[x])
    /\ pc[x] # "upload" /\ jobs[job[x]].state = "JobComplete" =>
         Chunk(todo[x]) \subseteq org \cup jobs[job[x]].bad
    /\ pc[x] = "fetch" => jobs[job[x]].state = "JobComplete"

FailedOf(x) == UNION {failed[x][k] : k \in 1 .. Len(failed[x])}

(* A record that was read is still to do, settled, or noted as failed.     *)
NothingForgotten(x) ==
  /\ pc[x] # "idle" =>
       /\ batch[x] \in Batch
       /\ records[x] \subseteq todo[x] \cup org \cup FailedOf(x) \cup reported[batch[x]]
  /\ pc[x] = "persist" => todo[x] = {}
  /\ pc[x] = "emit" => records[x] \subseteq org \cup reported[batch[x]]

Mine(x) == JobHoldsChunk(x) /\ NothingForgotten(x)

OwnJobs == \A x, y \in Sync : x # y /\ HasJob(x) /\ HasJob(y) => job[x] # job[y]

IInv == Types /\ OwnJobs /\ \A x \in Sync : Mine(x)
-----------------------------------------------------------------------------
LEMMA SomeOfMany ==
  ASSUME NEW S, IsFiniteSet(S), NEW n \in Nat, n <= Cardinality(S)
  PROVE  \E T \in SUBSET S : Cardinality(T) = n
<1>1. Cardinality(S) \in Nat /\ ExistsBijection(1 .. Cardinality(S), S)
  BY FS_CardinalityType
<1>2. PICK f \in Bijection(1 .. Cardinality(S), S) : TRUE
  BY <1>1 DEF ExistsBijection
<1> DEFINE T == {f[k] : k \in 1 .. n}
           g == [k \in 1 .. n |-> f[k]]
<1>3. /\ f \in [1 .. Cardinality(S) -> S]
      /\ \A j, k \in 1 .. Cardinality(S) : f[j] = f[k] => j = k
  BY <1>2 DEF Bijection, Injection, Surjection, IsInjective
<1>4. 1 .. n \subseteq 1 .. Cardinality(S)
  BY <1>1
<1>5. T \in SUBSET S
  BY <1>3, <1>4
<1>6. g \in Surjection(1 .. n, T) /\ g \in Injection(1 .. n, T)
  BY <1>3, <1>4 DEF Surjection, Injection, IsInjective
<1>7. IsFiniteSet(1 .. n) /\ Cardinality(1 .. n) = n
  BY FS_Interval
<1> HIDE DEF T, g
<1>8. Cardinality(T) = n
  BY <1>6, <1>7, FS_Surjection
<1>9. QED BY <1>5, <1>8

(* Any set of records has a chunk.                                         *)
LEMMA ChunkIsPart ==
  ASSUME NEW S \in SUBSET Id
  PROVE  Chunk(S) \in SUBSET S
<1>1. IsFiniteSet(S) /\ Cardinality(S) \in Nat /\ BatchSize \in Nat
  BY SyncAssumption, FS_Subset, FS_CardinalityType
<1>2. \E T \in SUBSET S :
        Cardinality(T) = BatchSize \/ (T = S /\ Cardinality(S) < BatchSize)
  <2>1. CASE Cardinality(S) < BatchSize
    BY <2>1
  <2>2. CASE BatchSize <= Cardinality(S)
    BY <1>1, <2>2, SomeOfMany
  <2>3. QED BY <1>1, <2>1, <2>2
<1>3. QED BY <1>2 DEF Chunk
-----------------------------------------------------------------------------
(* What a step of invocation x may do to what the others see.              *)
Around(x) ==
  /\ lake' \in [Batch -> SUBSET Id] /\ reported' \in [Batch -> SUBSET Id]
  /\ jobs' \in Seq(Job) /\ Len(jobs) <= Len(jobs')
  /\ org \subseteq org' /\ \A b \in Batch : reported[b] \subseteq reported'[b]
  /\ \A y \in Sync \ {x} : HasJob(y) => jobs'[job[y]] = jobs[job[y]]

Untouched(y) ==
  /\ pc'[y] = pc[y] /\ batch'[y] = batch[y] /\ records'[y] = records[y]
  /\ todo'[y] = todo[y] /\ failed'[y] = failed[y] /\ job'[y] = job[y]

LEMMA OthersKeep ==
  ASSUME IInv, NEW x \in Sync, NEW y \in Sync, x # y, Around(x), Untouched(y)
  PROVE  Mine(y)'
<1>1. Len(jobs) \in Nat /\ Len(jobs') \in Nat /\ Len(jobs) <= Len(jobs')
  BY DEF IInv, Types, Around
<1>2. JobHoldsChunk(y)'
  <2>1. CASE ~HasJob(y)
    BY <2>1 DEF Untouched, JobHoldsChunk, HasJob
  <2>2. CASE HasJob(y)
    <3>1. jobs'[job[y]] = jobs[job[y]] /\ org \subseteq org'
      BY <2>2 DEF Around
    <3>2. job[y] \in 1 .. Len(jobs')
      BY <1>1, <2>2 DEF IInv, Mine, JobHoldsChunk
    <3>3. JobHoldsChunk(y)
      BY DEF IInv, Mine
    <3>4. QED BY <2>2, <3>1, <3>2, <3>3 DEF Untouched, JobHoldsChunk, HasJob
  <2>3. QED BY <2>1, <2>2
<1>3. NothingForgotten(y)'
  <2>1. FailedOf(y)' = FailedOf(y)
    BY DEF Untouched, FailedOf
  <2>2. NothingForgotten(y) /\ org \subseteq org'
    BY DEF IInv, Mine, Around
  <2>3. batch[y] \in Batch => reported[batch[y]] \subseteq reported'[batch[y]]
    BY DEF Around
  <2>4. pc[y] = "emit" => batch[y] \in Batch
    BY <2>2 DEF NothingForgotten
  <2>5. QED BY <2>1, <2>2, <2>3, <2>4 DEF Untouched, NothingForgotten
<1>4. QED BY <1>2, <1>3 DEF Mine

LEMMA StepOfOne ==
  ASSUME IInv, NEW x \in Sync, Around(x), Types', Mine(x)',
         \A y \in Sync \ {x} : Untouched(y),
         HasJob(x)' => (HasJob(x) /\ job'[x] = job[x]) \/ job'[x] > Len(jobs)
  PROVE  IInv'
<1>1. \A y \in Sync : Mine(y)'
  BY OthersKeep
<1>2. OwnJobs'
  <2>1. Len(jobs) \in Nat
    BY DEF IInv, Types
  <2>2. \A y \in Sync \ {x} : HasJob(y)' => HasJob(y) /\ job'[y] = job[y]
    BY DEF Untouched, HasJob
  <2>3. \A y \in Sync : HasJob(y) => job[y] \in 1 .. Len(jobs)
    BY DEF IInv, Mine, JobHoldsChunk
  <2>4. ASSUME NEW y \in Sync, NEW z \in Sync, y # z, HasJob(y)', HasJob(z)'
        PROVE  job'[y] # job'[z]
    <3>1. CASE y = x
      BY <2>1, <2>2, <2>3, <2>4, <3>1 DEF IInv, OwnJobs
    <3>2. CASE z = x
      BY <2>1, <2>2, <2>3, <2>4, <3>2 DEF IInv, OwnJobs
    <3>3. CASE y # x /\ z # x
      BY <2>2, <2>4, <3>3 DEF IInv, OwnJobs
    <3>4. QED BY <3>1, <3>2, <3>3
  <2>5. QED BY <2>4 DEF OwnJobs
<1>3. QED BY <1>1, <1>2 DEF IInv

LEMMA EndStep ==
  ASSUME IInv, NEW x \in Sync, Around(x), End(x)
  PROVE  IInv'
<1>1. Types'
  BY DEF IInv, Types, Around, End
<1>2. Mine(x)' /\ ~HasJob(x)'
  BY DEF IInv, Types, End, Mine, JobHoldsChunk, NothingForgotten, HasJob
<1>3. \A y \in Sync \ {x} : Untouched(y)
  BY DEF IInv, Types, End, Untouched
<1>4. QED BY <1>1, <1>2, <1>3, StepOfOne

LEMMA UnavailableStep ==
  ASSUME IInv, NEW x \in Sync, Around(x), Unavailable(x),
         UNCHANGED <<pc, todo, job>> => JobHoldsChunk(x)'
  PROVE  IInv'
<1>1. CASE attempt[x] < MaxAttempts - 1
  <2>1. UNCHANGED <<pc, batch, records, todo, job, failed>>
    BY <1>1 DEF Unavailable
  <2>2. Types' /\ \A y \in Sync \ {x} : Untouched(y)
    BY <2>1 DEF IInv, Types, Around, Untouched
  <2>3. NothingForgotten(x)'
    <3>1. FailedOf(x)' = FailedOf(x)
      BY <2>1 DEF FailedOf
    <3>2. /\ NothingForgotten(x) /\ org \subseteq org'
          /\ batch[x] \in Batch => reported[batch[x]] \subseteq reported'[batch[x]]
      BY DEF IInv, Mine, Around
    <3>3. QED BY <2>1, <3>1, <3>2 DEF NothingForgotten
  <2>4. QED BY <2>1, <2>2, <2>3, StepOfOne DEF Mine, HasJob
<1>2. CASE ~(attempt[x] < MaxAttempts - 1)
  BY <1>2, EndStep DEF Unavailable
<1>3. QED BY <1>1, <1>2

LEMMA ProceedStep ==
  ASSUME IInv, NEW x \in Sync, NEW next, Around(x), Proceed(x, next),
         next \in {"create", "close", "poll", "fetch", "emit"},
         next \in {"close", "poll", "fetch"} => HasJob(x),
         Mine(x)'
  PROVE  IInv'
<1>1. pc' = [pc EXCEPT ![x] = next] /\ UNCHANGED <<batch, records, todo, job, failed>>
  BY DEF Proceed, Answered
<1>2. Types' /\ pc'[x] = next /\ \A y \in Sync \ {x} : Untouched(y)
  BY <1>1 DEF IInv, Types, Around, Untouched
<1>3. HasJob(x)' => HasJob(x) /\ job'[x] = job[x]
  BY <1>1, <1>2 DEF HasJob
<1>4. QED BY <1>2, <1>3, StepOfOne
-----------------------------------------------------------------------------
LEMMA NothingMoves ==
  ASSUME IInv, NEW x \in Sync, UNCHANGED <<lake, reported, org, jobs>>
  PROVE  Around(x)
BY DEF IInv, Types, Around

LEMMA JobOfOne ==
  ASSUME IInv, NEW x \in Sync, HasJob(x), NEW j \in Job,
         jobs' = [jobs EXCEPT ![job[x]] = j], UNCHANGED <<lake, reported, org>>
  PROVE  Around(x) /\ jobs'[job[x]] = j /\ Len(jobs') = Len(jobs)
<1>1. job[x] \in 1 .. Len(jobs)
  BY DEF IInv, Mine, JobHoldsChunk
<1>2. jobs \in Seq(Job) /\ Len(jobs) \in Nat
  BY DEF IInv, Types
<1>3. jobs' \in Seq(Job) /\ jobs'[job[x]] = j /\ Len(jobs') = Len(jobs)
  BY <1>1, <1>2
<1>4. ASSUME NEW y \in Sync \ {x}, HasJob(y) PROVE jobs'[job[y]] = jobs[job[y]]
  <2>1. job[y] \in 1 .. Len(jobs) /\ job[y] # job[x]
    BY <1>4 DEF IInv, OwnJobs, Mine, JobHoldsChunk
  <2>2. QED BY <1>2, <2>1
<1>5. QED BY <1>2, <1>3, <1>4 DEF IInv, Types, Around

LEMMA SameNotes ==
  ASSUME NEW x \in Sync, IInv, UNCHANGED <<batch, records, todo, failed, org, reported>>,
         pc[x] # "idle", pc'[x] \notin {"idle", "persist", "emit"}
  PROVE  NothingForgotten(x)'
<1>1. FailedOf(x)' = FailedOf(x)
  BY DEF FailedOf
<1>2. NothingForgotten(x)
  BY DEF IInv, Mine
<1>3. QED BY <1>1, <1>2 DEF NothingForgotten

LEMMA GetTokenStep ==
  ASSUME IInv, NEW x \in Sync, GetToken(x)
  PROVE  IInv'
<1>1. Around(x)
  BY NothingMoves DEF GetToken, Frame, salesforce
<1>2. pc[x] = "token" /\ pc' = [pc EXCEPT ![x] = "create"]
      /\ UNCHANGED <<batch, records, todo, failed, org, reported>>
  BY DEF GetToken, Proceed, Answered, Frame, salesforce
<1>3. pc'[x] = "create"
  BY <1>2 DEF IInv, Types
<1>4. Mine(x)'
  BY <1>2, <1>3, SameNotes DEF Mine, JobHoldsChunk, HasJob
<1>5. QED BY <1>1, <1>4, ProceedStep DEF GetToken

LEMMA CreateStep ==
  ASSUME IInv, NEW x \in Sync, Create(x)
  PROVE  IInv'
<1> DEFINE fresh == [state |-> "Open", data |-> {}, bad |-> {}]
<1>1. pc[x] = "create" /\ UNCHANGED <<org, lake, reported>> /\ jobs \in Seq(Job)
      /\ Len(jobs) \in Nat
  BY DEF Create, Frame, IInv, Types
<1>2. ~HasJob(x)
  BY <1>1 DEF HasJob
<1>3. CASE NewJob
  <2>1. jobs' = Append(jobs, fresh) /\ fresh \in Job
    BY <1>3 DEF NewJob, Job, JobStates
  <2>2. /\ jobs' \in Seq(Job) /\ Len(jobs') = Len(jobs) + 1
        /\ jobs'[Len(jobs) + 1] = fresh
        /\ \A k \in 1 .. Len(jobs) : jobs'[k] = jobs[k]
    BY <1>1, <2>1
  <2>3. Around(x)
    BY <1>1, <2>2 DEF IInv, Types, Around, Mine, JobHoldsChunk
  <2>4. CASE /\ job' = [job EXCEPT ![x] = Len(jobs')]
             /\ Answered(x, "upload")
             /\ UNCHANGED <<todo, polls, failed>>
    <3>1. /\ pc' = [pc EXCEPT ![x] = "upload"] /\ job' = [job EXCEPT ![x] = Len(jobs) + 1]
          /\ UNCHANGED <<batch, records, todo, failed>>
      BY <2>2, <2>4 DEF Answered
    <3>2. /\ Types' /\ pc'[x] = "upload" /\ job'[x] = Len(jobs) + 1
          /\ \A y \in Sync \ {x} : Untouched(y)
      BY <1>1, <2>3, <3>1 DEF IInv, Types, Around, Untouched
    <3>3. JobHoldsChunk(x)'
      BY <1>1, <2>2, <3>2 DEF JobHoldsChunk, HasJob
    <3>4. NothingForgotten(x)'
      BY <1>1, <3>1, <3>2, SameNotes
    <3>5. job'[x] > Len(jobs)
      BY <1>1, <3>2
    <3>6. QED BY <2>3, <3>2, <3>3, <3>4, <3>5, StepOfOne DEF Mine
  <2>5. CASE Unavailable(x)
    BY <1>2, <2>3, <2>5, UnavailableStep DEF JobHoldsChunk, HasJob
  <2>6. CASE Raise(x)
    BY <2>3, <2>6, EndStep DEF Raise
  <2>7. CASE UNCHANGED jobs
    BY <1>1, <2>2, <2>7
  <2>8. QED BY <2>4, <2>5, <2>6, <2>7 DEF Create
<1>4. CASE UNCHANGED jobs /\ Raise(x)
  BY <1>1, <1>4, NothingMoves, EndStep DEF Raise
<1>5. CASE UNCHANGED jobs /\ Unavailable(x)
  BY <1>1, <1>2, <1>5, NothingMoves, UnavailableStep DEF JobHoldsChunk, HasJob
<1>6. QED BY <1>3, <1>4, <1>5 DEF Create

LEMMA UploadStep ==
  ASSUME IInv, NEW x \in Sync, Upload(x)
  PROVE  IInv'
<1> DEFINE j == jobs[job[x]]
           k == IF j.data = {} THEN [j EXCEPT !.data = Chunk(todo[x])] ELSE j
<1>1. pc[x] = "upload" /\ HasJob(x) /\ UNCHANGED <<org, lake, reported>>
  BY DEF Upload, Frame, HasJob
<1>2. job[x] \in 1 .. Len(jobs) /\ j.state = "Open" /\ j.data \in {{}, Chunk(todo[x])}
  BY <1>1 DEF IInv, Mine, JobHoldsChunk
<1>3. j \in Job /\ todo[x] \in SUBSET Id /\ jobs \in Seq(Job)
  BY <1>2 DEF IInv, Types
<1>4. Chunk(todo[x]) \in SUBSET Id
  BY <1>3, ChunkIsPart
<1>5. k \in Job /\ k.state = "Open" /\ k.data = Chunk(todo[x])
  BY <1>2, <1>3, <1>4 DEF Job
<1>6. CASE jobs' = [jobs EXCEPT ![job[x]] = k]
  <2>1. Around(x) /\ jobs'[job[x]] = k /\ Len(jobs') = Len(jobs)
    BY <1>1, <1>5, <1>6, JobOfOne
  <2>2. CASE Proceed(x, "close")
    <3>1. pc' = [pc EXCEPT ![x] = "close"] /\ UNCHANGED <<batch, records, todo, job, failed>>
      BY <2>2 DEF Proceed, Answered
    <3>2. pc'[x] = "close"
      BY <3>1 DEF IInv, Types
    <3>3. JobHoldsChunk(x)'
      BY <1>2, <1>5, <2>1, <3>1, <3>2 DEF JobHoldsChunk
    <3>4. NothingForgotten(x)'
      BY <1>1, <3>1, <3>2, SameNotes
    <3>5. QED BY <1>1, <2>1, <2>2, <3>3, <3>4, ProceedStep DEF Mine
  <2>3. CASE Unavailable(x)
    <3>1. UNCHANGED <<pc, todo, job>> => JobHoldsChunk(x)'
      BY <1>1, <1>2, <1>5, <2>1 DEF JobHoldsChunk
    <3>2. QED BY <2>1, <2>3, <3>1, UnavailableStep
  <2>4. CASE Raise(x)
    BY <2>1, <2>4, EndStep DEF Raise
  <2>5. CASE ~Outcome(x, "close")
    BY <2>3, <2>5 DEF Upload
  <2>6. QED BY <2>2, <2>3, <2>4, <2>5 DEF Outcome
<1>7. CASE UNCHANGED jobs /\ Unavailable(x)
  BY <1>1, <1>7, NothingMoves, UnavailableStep DEF IInv, Mine, JobHoldsChunk, HasJob
<1>8. jobs' = [jobs EXCEPT ![job[x]] = k] \/ (UNCHANGED jobs /\ Unavailable(x))
  <2>1. CASE j.data = {}
    BY <1>2, <1>3, <2>1 DEF Upload
  <2>2. CASE j.data # {}
    <3>1. [jobs EXCEPT ![job[x]] = j] = jobs
      BY <1>2, <1>3
    <3>2. QED BY <2>2, <3>1 DEF Upload
  <2>3. QED BY <2>1, <2>2
<1>9. QED BY <1>6, <1>7, <1>8

LEMMA CloseStep ==
  ASSUME IInv, NEW x \in Sync, Close(x)
  PROVE  IInv'
<1> DEFINE j == jobs[job[x]]
           k == IF j.state = "Open" THEN [j EXCEPT !.state = "UploadComplete"] ELSE j
<1>1. pc[x] = "close" /\ HasJob(x) /\ UNCHANGED <<org, lake, reported>>
  BY DEF Close, Frame, HasJob
<1>2. /\ job[x] \in 1 .. Len(jobs)
      /\ j.state \in {"Open", "UploadComplete"} => j.data = Chunk(todo[x])
      /\ j.state = "JobComplete" => Chunk(todo[x]) \subseteq org \cup j.bad
  BY <1>1 DEF IInv, Mine, JobHoldsChunk
<1>3. j \in Job /\ jobs \in Seq(Job)
  BY <1>2 DEF IInv, Types
<1>4. /\ k \in Job
      /\ k.state \in {"Open", "UploadComplete"} => k.data = Chunk(todo[x])
      /\ k.state = "JobComplete" => Chunk(todo[x]) \subseteq org \cup k.bad
  BY <1>2, <1>3 DEF Job, JobStates
<1>5. CASE jobs' = [jobs EXCEPT ![job[x]] = k]
  <2>1. Around(x) /\ jobs'[job[x]] = k /\ Len(jobs') = Len(jobs)
    BY <1>1, <1>4, <1>5, JobOfOne
  <2>2. CASE Proceed(x, "poll")
    <3>1. pc' = [pc EXCEPT ![x] = "poll"] /\ UNCHANGED <<batch, records, todo, job, failed>>
      BY <2>2 DEF Proceed, Answered
    <3>2. pc'[x] = "poll"
      BY <3>1 DEF IInv, Types
    <3>3. JobHoldsChunk(x)'
      BY <1>1, <1>2, <1>4, <2>1, <3>1, <3>2 DEF JobHoldsChunk
    <3>4. NothingForgotten(x)'
      BY <1>1, <3>1, <3>2, SameNotes
    <3>5. QED BY <1>1, <2>1, <2>2, <3>3, <3>4, ProceedStep DEF Mine
  <2>3. CASE Unavailable(x)
    <3>1. UNCHANGED <<pc, todo, job>> => JobHoldsChunk(x)'
      BY <1>1, <1>2, <1>4, <2>1 DEF JobHoldsChunk
    <3>2. QED BY <2>1, <2>3, <3>1, UnavailableStep
  <2>4. CASE Raise(x)
    BY <2>1, <2>4, EndStep DEF Raise
  <2>5. CASE ~Outcome(x, "poll")
    BY <2>3, <2>5 DEF Close
  <2>6. QED BY <2>2, <2>3, <2>4, <2>5 DEF Outcome
<1>6. CASE UNCHANGED jobs /\ Unavailable(x)
  BY <1>1, <1>6, NothingMoves, UnavailableStep DEF IInv, Mine, JobHoldsChunk, HasJob
<1>7. jobs' = [jobs EXCEPT ![job[x]] = k] \/ (UNCHANGED jobs /\ Unavailable(x))
  <2>1. CASE j.state = "Open"
    BY <1>2, <1>3, <2>1 DEF Close
  <2>2. CASE j.state # "Open"
    <3>1. [jobs EXCEPT ![job[x]] = j] = jobs
      BY <1>2, <1>3
    <3>2. QED BY <2>2, <3>1 DEF Close
  <2>3. QED BY <2>1, <2>2
<1>8. QED BY <1>5, <1>6, <1>7

(* A chunk is left behind only when its records are in the org, but for    *)
(* those that are noted as failed.                                         *)
LEMMA NextChunkStep ==
  ASSUME IInv, NEW x \in Sync, NEW bad \in SUBSET Id, HasJob(x), NextChunk(x, bad),
         Chunk(todo[x]) \subseteq org \cup bad, UNCHANGED <<lake, reported, org, jobs>>
  PROVE  IInv'
<1> DEFINE left == todo[x] \ Chunk(todo[x])
           next == IF left = {} THEN "persist" ELSE "create"
<1>1. /\ pc' = [pc EXCEPT ![x] = next] /\ UNCHANGED <<batch, records>>
      /\ todo' = [todo EXCEPT ![x] = left]
      /\ failed' = [failed EXCEPT ![x] = IF bad = {} THEN @ ELSE Append(@, bad)]
      /\ job' = [job EXCEPT ![x] = 0]
  BY DEF NextChunk, Answered
<1>2. Around(x)
  BY NothingMoves
<1>3. /\ Types' /\ \A y \in Sync \ {x} : Untouched(y)
      /\ pc'[x] = next /\ todo'[x] = left
      /\ failed'[x] = IF bad = {} THEN failed[x] ELSE Append(failed[x], bad)
  BY <1>1, <1>2 DEF IInv, Types, Around, Untouched
<1>4. FailedOf(x) \cup bad \subseteq FailedOf(x)'
  <2>1. failed[x] \in Seq(SUBSET Id) /\ Len(failed[x]) \in Nat
    BY DEF IInv, Types
  <2>2. CASE bad = {}
    BY <1>3, <2>2 DEF FailedOf
  <2>3. CASE bad # {}
    <3>1. failed'[x] = Append(failed[x], bad)
      BY <1>3, <2>3
    <3>2. /\ Len(failed'[x]) = Len(failed[x]) + 1 /\ failed'[x][Len(failed[x]) + 1] = bad
          /\ \A n \in 1 .. Len(failed[x]) : failed'[x][n] = failed[x][n]
      BY <2>1, <3>1
    <3>3. bad \subseteq FailedOf(x)'
      <4>1. Len(failed[x]) + 1 \in 1 .. Len(failed'[x])
        BY <2>1, <3>2
      <4>2. QED BY <3>2, <4>1 DEF FailedOf
    <3>4. FailedOf(x) \subseteq FailedOf(x)'
      <4>1. 1 .. Len(failed[x]) \subseteq 1 .. Len(failed'[x])
        BY <2>1, <3>2
      <4>2. QED BY <3>2, <4>1 DEF FailedOf
    <3>5. QED BY <3>3, <3>4
  <2>4. QED BY <2>2, <2>3
<1>5. NothingForgotten(x)'
  <2>1. /\ batch[x] \in Batch
        /\ records[x] \subseteq todo[x] \cup org \cup FailedOf(x) \cup reported[batch[x]]
    BY DEF IInv, Mine, NothingForgotten, HasJob
  <2>2. records[x] \subseteq left \cup org \cup FailedOf(x)' \cup reported[batch[x]]
    BY <1>4, <2>1
  <2>3. QED BY <1>1, <1>3, <2>1, <2>2 DEF NothingForgotten
<1>6. ~HasJob(x)'
  BY <1>3 DEF HasJob
<1>7. QED BY <1>2, <1>3, <1>5, <1>6, StepOfOne DEF Mine, JobHoldsChunk

LEMMA PollStep ==
  ASSUME IInv, NEW x \in Sync, Poll(x)
  PROVE  IInv'
<1> DEFINE j == jobs[job[x]]
<1>1. pc[x] = "poll" /\ HasJob(x) /\ UNCHANGED <<lake, reported, org, jobs>>
  BY DEF Poll, Frame, HasJob, salesforce
<1>2. Around(x) /\ JobHoldsChunk(x)
  BY <1>1, NothingMoves DEF IInv, Mine
<1>3. CASE PollAgain(x)
  <2>1. CASE Raise(x)
    BY <1>2, <2>1, EndStep DEF Raise
  <2>2. CASE ~Raise(x)
    <3>1. pc' = [pc EXCEPT ![x] = "poll"] /\ UNCHANGED <<batch, records, todo, job, failed>>
      BY <1>3, <2>2 DEF PollAgain, Answered
    <3>2. pc' = pc
      BY <1>1, <3>1 DEF IInv, Types
    <3>3. Types' /\ \A y \in Sync \ {x} : Untouched(y)
      BY <1>1, <3>1, <3>2 DEF IInv, Types, Untouched
    <3>4. Mine(x)'
      BY <1>1, <1>2, <3>1, <3>2, SameNotes DEF Mine, JobHoldsChunk, HasJob
    <3>5. QED BY <1>1, <1>2, <3>1, <3>3, <3>4, StepOfOne
  <2>3. QED BY <2>1, <2>2
<1>4. CASE Complete(j) /\ j.bad = {} /\ NextChunk(x, {})
  <2>1. Chunk(todo[x]) \subseteq org \cup {}
    BY <1>1, <1>2, <1>4 DEF JobHoldsChunk, Complete
  <2>2. QED BY <1>1, <1>4, <2>1, NextChunkStep
<1>5. CASE Complete(j) /\ Proceed(x, "fetch")
  <2>1. pc' = [pc EXCEPT ![x] = "fetch"] /\ UNCHANGED <<batch, records, todo, job, failed>>
    BY <1>5 DEF Proceed, Answered
  <2>2. pc'[x] = "fetch"
    BY <2>1 DEF IInv, Types
  <2>3. JobHoldsChunk(x)'
    BY <1>1, <1>2, <1>5, <2>1, <2>2 DEF JobHoldsChunk, Complete
  <2>4. NothingForgotten(x)'
    BY <1>1, <2>1, <2>2, SameNotes
  <2>5. QED BY <1>1, <1>2, <1>5, <2>3, <2>4, ProceedStep DEF Mine
<1>6. CASE Raise(x)
  BY <1>2, <1>6, EndStep DEF Raise
<1>7. CASE Unavailable(x)
  BY <1>1, <1>2, <1>7, UnavailableStep DEF JobHoldsChunk, HasJob
<1>8. QED BY <1>3, <1>4, <1>5, <1>6, <1>7 DEF Poll

LEMMA FailedResultsStep ==
  ASSUME IInv, NEW x \in Sync, FailedResults(x)
  PROVE  IInv'
<1>1. pc[x] = "fetch" /\ HasJob(x) /\ UNCHANGED <<lake, reported, org, jobs>>
  BY DEF FailedResults, Frame, HasJob, salesforce
<1>2. Around(x) /\ JobHoldsChunk(x)
  BY <1>1, NothingMoves DEF IInv, Mine
<1>3. CASE NextChunk(x, jobs[job[x]].bad)
  <2>1. job[x] \in 1 .. Len(jobs) /\ Chunk(todo[x]) \subseteq org \cup jobs[job[x]].bad
    BY <1>1, <1>2 DEF JobHoldsChunk
  <2>2. jobs[job[x]] \in Job
    BY <2>1 DEF IInv, Types
  <2>3. jobs[job[x]].bad \in SUBSET Id
    BY <2>2 DEF Job
  <2>4. QED BY <1>1, <1>3, <2>1, <2>3, NextChunkStep
<1>4. CASE Unavailable(x)
  BY <1>1, <1>2, <1>4, UnavailableStep DEF JobHoldsChunk, HasJob
<1>5. QED BY <1>3, <1>4 DEF FailedResults

LEMMA PersistStep ==
  ASSUME IInv, NEW x \in Sync, Persist(x)
  PROVE  IInv'
<1>1. PICK n \in 0 .. Len(failed[x]) :
        /\ reported' = [reported EXCEPT ![batch[x]] = @ \cup UNION {failed[x][k] : k \in 1 .. n}]
        /\ (n = Len(failed[x]) /\ Proceed(x, "emit")) \/ Raise(x)
  BY DEF Persist
<1> DEFINE written == UNION {failed[x][k] : k \in 1 .. n}
<1>2. pc[x] = "persist" /\ UNCHANGED <<lake, org, jobs>>
  BY DEF Persist, salesforce
<1>3. /\ batch[x] \in Batch /\ todo[x] = {}
      /\ records[x] \subseteq org \cup FailedOf(x) \cup reported[batch[x]]
  BY <1>2 DEF IInv, Mine, NothingForgotten
<1>4. failed[x] \in Seq(SUBSET Id) /\ Len(failed[x]) \in Nat
  BY DEF IInv, Types
<1>5. written \subseteq Id
  <2>1. \A k \in 1 .. n : failed[x][k] \in SUBSET Id
    BY <1>4
  <2>2. QED BY <2>1
<1>6. reported' \in [Batch -> SUBSET Id]
  BY <1>1, <1>3, <1>5 DEF IInv, Types
<1>7. \A b \in Batch : reported[b] \subseteq reported'[b]
  BY <1>1, <1>3 DEF IInv, Types
<1>8. Around(x)
  BY <1>2, <1>6, <1>7 DEF IInv, Types, Around
<1>9. CASE n = Len(failed[x]) /\ Proceed(x, "emit")
  <2>1. pc' = [pc EXCEPT ![x] = "emit"] /\ UNCHANGED <<batch, records, todo, job, failed>>
    BY <1>9 DEF Proceed, Answered
  <2>2. pc'[x] = "emit"
    BY <2>1 DEF IInv, Types
  <2>3. reported'[batch[x]] = reported[batch[x]] \cup FailedOf(x)
    BY <1>1, <1>3, <1>9 DEF IInv, Types, FailedOf
  <2>4. records'[x] \subseteq org' \cup reported'[batch'[x]]
    BY <1>2, <1>3, <2>1, <2>3
  <2>5. Mine(x)'
    BY <1>3, <2>1, <2>2, <2>4 DEF Mine, JobHoldsChunk, NothingForgotten, HasJob
  <2>6. QED BY <1>8, <1>9, <2>5, ProceedStep
<1>10. CASE Raise(x)
  BY <1>8, <1>10, EndStep DEF Raise
<1>11. QED BY <1>1, <1>9, <1>10

LEMMA StartSyncStep ==
  ASSUME IInv, NEW x \in Sync, NEW b \in Batch, StartSync(x, b)
  PROVE  IInv'
<1>1. UNCHANGED <<lake, reported, org, jobs, job, failed>>
  BY DEF StartSync, salesforce
<1>2. Around(x)
  BY <1>1, NothingMoves
<1>3. CASE UNCHANGED <<pc, batch, records, todo>>
  BY <1>1, <1>3 DEF IInv, Types, OwnJobs, Mine, JobHoldsChunk, NothingForgotten, HasJob, FailedOf
<1>4. CASE /\ pc' = [pc EXCEPT ![x] = "token"]
           /\ batch' = [batch EXCEPT ![x] = b]
           /\ records' = [records EXCEPT ![x] = lake[b]]
           /\ todo' = [todo EXCEPT ![x] = lake[b]]
  <2>1. /\ Types' /\ \A y \in Sync \ {x} : Untouched(y)
        /\ pc'[x] = "token" /\ batch'[x] = b /\ records'[x] = lake[b] /\ todo'[x] = lake[b]
    BY <1>1, <1>4 DEF IInv, Types, Untouched
  <2>2. Mine(x)' /\ ~HasJob(x)'
    BY <2>1 DEF Mine, JobHoldsChunk, NothingForgotten, HasJob
  <2>3. QED BY <1>2, <2>1, <2>2, StepOfOne
<1>5. QED BY <1>3, <1>4 DEF StartSync

LEMMA StageStep ==
  ASSUME IInv, NEW b \in Batch, Stage(b)
  PROVE  IInv'
<1>1. UNCHANGED <<org, jobs, reported, pc, batch, records, todo, job, failed>>
  BY DEF Stage, salesforce, invocation, call
<1>2. lake' \in [Batch -> SUBSET Id]
  BY DEF Stage, IInv, Types
<1>3. QED
  BY <1>1, <1>2 DEF IInv, Types, OwnJobs, Mine, JobHoldsChunk, NothingForgotten, HasJob, FailedOf

(* What Salesforce makes of a job suits whoever has it.                    *)
LEMMA ProcessStep ==
  ASSUME IInv, NEW j \in DOMAIN jobs, Process(j)
  PROVE  IInv'
<1>1. PICK bad \in SUBSET jobs[j].data :
        /\ \/ jobs' = [jobs EXCEPT ![j] = [state |-> "JobComplete", data |-> {}, bad |-> bad]]
           \/ jobs' = [jobs EXCEPT ![j] = [state |-> "Failed", data |-> {}, bad |-> {}]]
        /\ org' = org \cup (jobs[j].data \ bad)
  BY DEF Process
<1>2. /\ jobs[j].state = "UploadComplete"
      /\ UNCHANGED <<lake, reported, pc, batch, records, todo, job, failed>>
  BY DEF Process, invocation, call
<1>3. jobs \in Seq(Job) /\ j \in 1 .. Len(jobs) /\ jobs[j] \in Job
  BY DEF IInv, Types
<1>4. /\ jobs' \in Seq(Job) /\ Len(jobs') = Len(jobs)
      /\ \A k \in 1 .. Len(jobs) : k # j => jobs'[k] = jobs[k]
  <2>1. [state |-> "JobComplete", data |-> {}, bad |-> bad] \in Job
    BY <1>3 DEF Job, JobStates, Terminal
  <2>2. [state |-> "Failed", data |-> {}, bad |-> {}] \in Job
    BY DEF Job, JobStates, Terminal
  <2>3. PICK new \in Job : jobs' = [jobs EXCEPT ![j] = new]
    <3>1. CASE jobs' = [jobs EXCEPT ![j] = [state |-> "JobComplete", data |-> {}, bad |-> bad]]
      BY <2>1, <3>1, Zenon
    <3>2. CASE jobs' = [jobs EXCEPT ![j] = [state |-> "Failed", data |-> {}, bad |-> {}]]
      BY <2>2, <3>2, Zenon
    <3>3. QED BY <1>1, <3>1, <3>2
  <2>4. QED BY <1>3, <2>3
<1>5. /\ jobs'[j].state \in {"JobComplete", "Failed"}
      /\ jobs'[j].state = "JobComplete" => jobs[j].data \subseteq org' \cup jobs'[j].bad
  BY <1>1, <1>3
<1>6. Types'
  BY <1>2, <1>4 DEF IInv, Types
<1>7. OwnJobs'
  BY <1>2 DEF IInv, OwnJobs, HasJob
<1>8. ASSUME NEW x \in Sync PROVE Mine(x)'
  <2>1. JobHoldsChunk(x) /\ NothingForgotten(x) /\ org \subseteq org'
    BY <1>1 DEF IInv, Mine
  <2>2. JobHoldsChunk(x)'
    <3>1. CASE HasJob(x) /\ job[x] = j
      BY <1>2, <1>4, <1>5, <2>1, <3>1 DEF JobHoldsChunk, HasJob
    <3>2. CASE HasJob(x) /\ job[x] # j
      <4>1. jobs'[job[x]] = jobs[job[x]]
        BY <1>4, <2>1, <3>2 DEF JobHoldsChunk
      <4>2. QED BY <1>2, <1>4, <2>1, <3>2, <4>1 DEF JobHoldsChunk, HasJob
    <3>3. CASE ~HasJob(x)
      BY <1>2, <3>3 DEF JobHoldsChunk, HasJob
    <3>4. QED BY <3>1, <3>2, <3>3
  <2>3. NothingForgotten(x)'
    BY <1>2, <2>1 DEF NothingForgotten, FailedOf
  <2>4. QED BY <2>2, <2>3 DEF Mine
<1>9. QED BY <1>6, <1>7, <1>8 DEF IInv
-----------------------------------------------------------------------------
LEMMA InvInit == Init => IInv
<1> SUFFICES ASSUME Init PROVE IInv
  OBVIOUS
<1>1. Types
  <2>1. <<>> \in Seq(Job) /\ <<>> \in Seq(SUBSET Id)
    OBVIOUS
  <2>2. QED BY <2>1 DEF Init, Types
<1>2. \A x \in Sync : Mine(x) /\ ~HasJob(x)
  BY DEF Init, Mine, JobHoldsChunk, NothingForgotten, HasJob
<1>3. QED BY <1>1, <1>2 DEF IInv, OwnJobs

LEMMA InvStep == IInv /\ [Next]_vars => IInv'
<1> SUFFICES ASSUME IInv, [Next]_vars PROVE IInv'
  OBVIOUS
<1>1. ASSUME NEW x \in Sync, Step(x) PROVE IInv'
  <2>1. CASE Emit(x)
    <3>1. Around(x)
      BY <2>1, NothingMoves DEF Emit, Frame, salesforce
    <3>2. QED BY <2>1, <3>1, EndStep DEF Emit, Raise
  <2>2. QED BY <1>1, <2>1, GetTokenStep, CreateStep, UploadStep, CloseStep, PollStep,
               FailedResultsStep, PersistStep DEF Step
<1>2. ASSUME NEW x \in Sync, Stop(x) PROVE IInv'
  <2>1. Around(x)
    BY <1>2, NothingMoves DEF Stop, Frame, salesforce
  <2>2. QED BY <1>2, <2>1, EndStep DEF Stop, Raise
<1>3. ASSUME NEW x \in Sync, NEW b \in Batch, StartSync(x, b) PROVE IInv'
  BY <1>3, StartSyncStep
<1>4. ASSUME NEW b \in Batch, Stage(b) PROVE IInv'
  BY <1>4, StageStep
<1>5. ASSUME NEW j \in DOMAIN jobs, Process(j) PROVE IInv'
  BY <1>5, ProcessStep
<1>6. CASE UNCHANGED <<lake, org, jobs, reported, pc, batch, records, todo, job, failed>>
  BY <1>6 DEF IInv, Types, OwnJobs, Mine, JobHoldsChunk, NothingForgotten, HasJob, FailedOf
<1>7. CASE \/ \E b \in Batch : ReadFile(b)
           \/ StartReconcile \/ Report \/ ReconcileRaises \/ Day
  BY <1>6, <1>7
     DEF ReadFile, StartReconcile, Report, ReconcileRaises, Day, Elsewhere, salesforce, invocation, call
<1>8. CASE UNCHANGED vars
  BY <1>6, <1>8 DEF vars, salesforce, invocation, call
<1>9. QED BY <1>1, <1>2, <1>3, <1>4, <1>5, <1>7, <1>8 DEF Next

(* When an invocation is about to return, every record it read is in the   *)
(* org or in a failure file: for batches of any size, any number of        *)
(* overlapping invocations and any limit of attempts, polls and jobs.      *)
THEOREM RecordsAreSettled == Spec => []SettledWhenDone
<1>1. IInv => SettledWhenDone
  BY DEF IInv, Mine, NothingForgotten, SettledWhenDone
<1>2. QED BY <1>1, InvInit, InvStep, PTL DEF Spec
-----------------------------------------------------------------------------
(* Attempts and polls stay below their limits; nothing is to do that was   *)
(* not read.                                                               *)
Calls ==
  /\ attempt \in [Sync -> 0 .. MaxAttempts - 1] /\ polls \in [Sync -> 0 .. MaxPolls - 1]
  /\ \A x \in Sync : todo[x] \subseteq records[x]

Surroundings ==
  /\ due \in [Batch -> Nat] /\ org \subseteq Id
  /\ rc \in {"idle", "reading"}
  /\ unread \subseteq Batch /\ ids \subseteq Id
  /\ point \in {"missing", "under", "over"} /\ alarm \in BOOLEAN
  /\ stages \in 0 .. MaxStages /\ faults \in 0 .. MaxFaults

Typed == Calls /\ Surroundings

LEMMA EndKeepsCalls ==
  ASSUME Types, Calls, NEW x \in Sync, End(x)
  PROVE  Calls'
BY SyncAssumption DEF Types, Calls, End

LEMMA UnavailableKeepsCalls ==
  ASSUME Types, Calls, NEW x \in Sync, Unavailable(x)
  PROVE  Calls'
<1>1. CASE attempt[x] < MaxAttempts - 1
  BY <1>1, SyncAssumption DEF Calls, Unavailable
<1>2. CASE ~(attempt[x] < MaxAttempts - 1)
  BY <1>2, EndKeepsCalls DEF Unavailable
<1>3. QED BY <1>1, <1>2

LEMMA AnswerKeepsCalls ==
  ASSUME Types, Calls, NEW x \in Sync, NEW next, Answered(x, next),
         todo' = todo \/ \E S \in SUBSET todo[x] : todo' = [todo EXCEPT ![x] = S],
         \/ polls' = polls
         \/ polls' = [polls EXCEPT ![x] = 0]
         \/ polls[x] < MaxPolls - 1 /\ polls' = [polls EXCEPT ![x] = @ + 1]
  PROVE  Calls'
<1>1. attempt' \in [Sync -> 0 .. MaxAttempts - 1]
  BY SyncAssumption DEF Calls, Answered
<1>2. polls' \in [Sync -> 0 .. MaxPolls - 1]
  BY SyncAssumption DEF Calls
<1>3. \A y \in Sync : todo'[y] \subseteq records'[y]
  BY DEF Types, Calls, Answered
<1>4. QED BY <1>1, <1>2, <1>3 DEF Calls

LEMMA NextChunkKeepsCalls ==
  ASSUME Types, Calls, NEW x \in Sync, NEW bad, NextChunk(x, bad)
  PROVE  Calls'
<1>1. todo[x] \ Chunk(todo[x]) \in SUBSET todo[x]
  OBVIOUS
<1>2. QED BY <1>1, AnswerKeepsCalls DEF NextChunk

LEMMA StepKeepsCalls ==
  ASSUME Types, Calls, NEW x \in Sync, Step(x)
  PROVE  Calls'
<1>1. ASSUME NEW next, Proceed(x, next) PROVE Calls'
  BY <1>1, AnswerKeepsCalls DEF Proceed
<1>2. CASE Raise(x)
  BY <1>2, EndKeepsCalls DEF Raise
<1>3. CASE Unavailable(x)
  BY <1>3, UnavailableKeepsCalls
<1>4. ASSUME NEW next, Outcome(x, next) PROVE Calls'
  BY <1>1, <1>2, <1>3, <1>4 DEF Outcome
<1>5. CASE GetToken(x) \/ Upload(x) \/ Close(x) \/ Persist(x) \/ Emit(x)
  BY <1>1, <1>2, <1>3, <1>4, <1>5 DEF GetToken, Upload, Close, Persist, Emit
<1>6. CASE Create(x)
  <2>1. ASSUME Answered(x, "upload"), UNCHANGED <<todo, polls, failed>> PROVE Calls'
    BY <2>1, AnswerKeepsCalls
  <2>2. QED BY <1>2, <1>3, <1>6, <2>1 DEF Create
<1>7. CASE Poll(x)
  <2>1. CASE PollAgain(x)
    <3>1. CASE polls[x] < MaxPolls - 1
      BY <2>1, <3>1, AnswerKeepsCalls DEF PollAgain
    <3>2. CASE ~(polls[x] < MaxPolls - 1)
      BY <1>2, <2>1, <3>2 DEF PollAgain
    <3>3. QED BY <3>1, <3>2
  <2>2. CASE NextChunk(x, {})
    BY <2>2, NextChunkKeepsCalls
  <2>3. QED BY <1>1, <1>2, <1>3, <1>7, <2>1, <2>2 DEF Poll
<1>8. CASE FailedResults(x)
  BY <1>3, <1>8, NextChunkKeepsCalls DEF FailedResults
<1>9. QED BY <1>5, <1>6, <1>7, <1>8 DEF Step

LEMMA CallsStep == Types /\ Calls /\ [Next]_vars => Calls'
<1> SUFFICES ASSUME Types, Calls, [Next]_vars PROVE Calls'
  OBVIOUS
<1>1. ASSUME NEW x \in Sync, Stop(x) PROVE Calls'
  BY <1>1, EndKeepsCalls DEF Stop, Raise
<1>2. ASSUME NEW x \in Sync, NEW b \in Batch, StartSync(x, b) PROVE Calls'
  <2>1. UNCHANGED <<attempt, polls>>
    BY <1>2 DEF StartSync
  <2>2. CASE UNCHANGED <<todo, records>>
    BY <2>1, <2>2 DEF Calls
  <2>3. CASE records' = [records EXCEPT ![x] = lake[b]] /\ todo' = [todo EXCEPT ![x] = lake[b]]
    BY <2>1, <2>3 DEF Types, Calls
  <2>4. QED BY <1>2, <2>2, <2>3 DEF StartSync
<1>3. CASE UNCHANGED <<attempt, polls, todo, records>>
  BY <1>3 DEF Calls
<1>4. CASE \/ \E b \in Batch : Stage(b) \/ ReadFile(b)
           \/ \E j \in DOMAIN jobs : Process(j)
           \/ StartReconcile \/ Report \/ ReconcileRaises \/ Day
  BY <1>3, <1>4 DEF Stage, ReadFile, Process, StartReconcile, Report, ReconcileRaises, Day,
                    Elsewhere, invocation, call
<1>5. CASE UNCHANGED vars
  BY <1>3, <1>5 DEF vars, invocation, call
<1>6. QED BY <1>1, <1>2, <1>4, <1>5, StepKeepsCalls DEF Next

(* A request meets a fault or none.                                        *)
LEMMA StepCountsFaults ==
  ASSUME Surroundings, NEW x \in Sync, Step(x)
  PROVE  faults' \in 0 .. MaxFaults
<1>1. CASE UNCHANGED faults
  BY <1>1 DEF Surroundings
<1>2. CASE Fault
  BY <1>2, SyncAssumption DEF Surroundings, Fault
<1>3. UNCHANGED faults \/ Fault
  BY Zenon DEF Step, GetToken, Create, Upload, Close, Poll, FailedResults, Persist, Emit, Outcome,
         Proceed, Answered, Unavailable, Raise, NextChunk, PollAgain
<1>4. QED BY <1>1, <1>2, <1>3

LEMMA SurroundingsStep == Types /\ Surroundings /\ [Next]_vars => Surroundings'
<1> SUFFICES ASSUME Types, Surroundings, [Next]_vars PROVE Surroundings'
  OBVIOUS
<1>1. ASSUME NEW x \in Sync, Step(x) PROVE Surroundings'
  <2>1. UNCHANGED <<due, org, reconciliation, alarm, stages>>
    BY <1>1 DEF Step, GetToken, Create, Upload, Close, Poll, FailedResults, Persist, Emit, Frame, salesforce
  <2>2. QED BY <1>1, <2>1, StepCountsFaults DEF Surroundings, reconciliation
<1>2. ASSUME NEW x \in Sync, Stop(x) PROVE Surroundings'
  BY <1>2 DEF Stop, Raise, Frame, salesforce, reconciliation, Surroundings
<1>3. ASSUME NEW x \in Sync, NEW b \in Batch, StartSync(x, b) PROVE Surroundings'
  <2>1. UNCHANGED <<org, reconciliation, alarm, stages>>
    BY <1>3 DEF StartSync, salesforce
  <2>2. due' \in [Batch -> Nat] /\ faults' \in 0 .. MaxFaults
    BY <1>3, SyncAssumption DEF StartSync, Fault, Surroundings
  <2>3. QED BY <2>1, <2>2 DEF Surroundings, reconciliation
<1>4. ASSUME NEW b \in Batch, Stage(b) PROVE Surroundings'
  BY <1>4, SyncAssumption DEF Stage, salesforce, reconciliation, Surroundings
<1>5. ASSUME NEW j \in DOMAIN jobs, Process(j) PROVE Surroundings'
  <2>1. UNCHANGED <<due, reconciliation, alarm, stages, faults>>
    BY <1>5 DEF Process
  <2>2. jobs[j].data \subseteq Id
    <3>1. jobs[j] \in Job
      BY DEF Types
    <3>2. QED BY <3>1 DEF Job
  <2>3. org' \subseteq Id
    BY <1>5, <2>2 DEF Process, Surroundings
  <2>4. QED BY <2>1, <2>3 DEF Surroundings, reconciliation
<1>6. ASSUME NEW b \in Batch, ReadFile(b) PROVE Surroundings'
  BY <1>6 DEF ReadFile, Elsewhere, salesforce, Types, Surroundings
<1>7. CASE StartReconcile \/ Report \/ ReconcileRaises \/ Day
  <2>1. UNCHANGED <<due, org, stages, faults>>
    BY <1>7 DEF StartReconcile, Report, ReconcileRaises, Day, Elsewhere, salesforce
  <2>2. rc' \in {"idle", "reading"} /\ point' \in {"missing", "under", "over"}
    BY <1>7 DEF StartReconcile, Report, ReconcileRaises, Day, Surroundings
  <2>3. unread' \subseteq Batch /\ ids' \subseteq Id
    BY <1>7 DEF StartReconcile, Report, ReconcileRaises, Day, Surroundings
  <2>4. alarm' \in BOOLEAN
    <3>1. CASE Day
      BY <3>1 DEF Day, Breaching
    <3>2. CASE UNCHANGED alarm
      BY <3>2 DEF Surroundings
    <3>3. QED BY <1>7, <3>1, <3>2 DEF StartReconcile, Report, ReconcileRaises
  <2>5. QED BY <2>1, <2>2, <2>3, <2>4 DEF Surroundings
<1>8. CASE UNCHANGED vars
  BY <1>8 DEF vars, salesforce, reconciliation, Surroundings
<1>9. QED BY <1>1, <1>2, <1>3, <1>4, <1>5, <1>6, <1>7, <1>8 DEF Next

(* Type correctness: every record that is read, loaded, listed as failed   *)
(* or still to do is one of the lake, attempts and polls stay below their  *)
(* limits, and an invocation that works on a job has one.                  *)
THEOREM TypeCorrect == Spec => []TypeOK
<1>1. Init => Typed
  <2>1. Init => Calls
    BY SyncAssumption DEF Init, Calls
  <2>2. Init => Surroundings
    <3>1. 0 \in 0 .. MaxStages /\ 0 \in 0 .. MaxFaults
      BY SyncAssumption
    <3>2. Init => alarm \in BOOLEAN
      BY Zenon DEF Init
    <3>3. Init => due \in [Batch -> Nat]
      BY DEF Init
    <3>4. QED BY <3>1, <3>2, <3>3, Zenon DEF Init, Surroundings
  <2>3. QED BY <2>1, <2>2 DEF Typed
<1>2. IInv /\ Typed /\ [Next]_vars => Typed'
  BY CallsStep, SurroundingsStep DEF IInv, Typed
<1>3. IInv /\ Typed => TypeOK
  <2> SUFFICES ASSUME IInv, Typed PROVE TypeOK
    OBVIOUS
  <2>1. jobs \in Seq([state : JobStates, data : SUBSET Id, bad : SUBSET Id])
    BY DEF IInv, Types, Job
  <2>2. ASSUME NEW x \in Sync
        PROVE  /\ todo[x] \subseteq records[x]
               /\ pc[x] \in {"upload", "close", "poll", "fetch"} => job[x] \in DOMAIN jobs
               /\ attempt[x] \in 0 .. MaxAttempts - 1 /\ polls[x] \in 0 .. MaxPolls - 1
    BY <2>1 DEF IInv, Mine, JobHoldsChunk, HasJob, Typed, Calls
  <2>3. QED BY <2>1, <2>2 DEF IInv, Types, Typed, Surroundings, TypeOK
<1>4. QED BY <1>1, <1>2, <1>3, InvInit, InvStep, PTL DEF Spec
=============================================================================
