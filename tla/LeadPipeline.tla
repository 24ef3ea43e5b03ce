---------------------------- MODULE LeadPipeline ----------------------------
(***************************************************************************)
(* src/cleansing: the state machine that turns an enrichment file into a   *)
(* batch of leads.  Seven functions hand each other files in S3, under the *)
(* run id of the file: schema validation, normalization, deliverability,   *)
(* deduplication, suppression, ids, and the Parquet file of the batch.     *)
(*                                                                         *)
(* A function reads its input, works, and writes its output; executions of *)
(* one run id (the same file announced twice or uploaded again, files of   *)
(* one name) overlap on the same objects.                                  *)
(***************************************************************************)
EXTENDS Naturals, FiniteSets

CONSTANTS
  Key,         (* Objects under raw/enrichment/.                           *)
  RunId,       (* Names of files, cleaned.                                 *)
  RunIdOf,     (* RunIdOf[k]: the run id derived from the name of k.       *)
  Content,     (* What a person uploads: sets of rows.                     *)
  Exec,        (* Executions of the state machine.                         *)
  Text,        (* Spellings of phones and emails in the files.             *)
  Blank,       (* The one of them that is empty.                           *)
  Identifier,  (* Normalized phones and emails.                            *)
  None,        (* No identifier, no time of a last contact.                *)
  Normalize,   (* Normalize[t]: the identifier t spells, or None.          *)
  DomainOf,    (* DomainOf[e]: what stands after the @ of email e.         *)
  HasMx,       (* Domains with an MX record.                               *)
  BadTime,     (* A time that cannot be parsed.                            *)
  NoColumn,    (* A row too short to have the column.                      *)
  Cooldown,    (* COOLDOWN_DAYS.                                           *)
  MaxUpsets,   (* Bound: uploads, repeated events and tasks, crashes.      *)
  MaxNow       (* Bound of the clock.                                      *)

(* A line of a file; its number is n.                                      *)
FileLine ==
  [n : Nat, company : {"named", "hollow", "blank"}, phone : Text, email : Text,
   at : Nat \cup {BadTime, NoColumn}, last : Nat \cup {BadTime, None}]

ASSUME PipelineAssumption ==
  /\ None \notin Key /\ RunIdOf \in [Key -> RunId]
  /\ \A F \in Content : IsFiniteSet(F) /\ F \subseteq FileLine
  /\ Blank \in Text /\ None \notin Identifier
  /\ Normalize \in [Text -> Identifier \cup {None}] /\ Normalize[Blank] = None
  /\ BadTime \notin Nat /\ NoColumn \notin Nat \cup {BadTime} /\ None \notin Nat \cup {BadTime}
  /\ Cooldown \in Nat /\ MaxUpsets \in Nat /\ MaxNow \in Nat

VARIABLES
  files,       (* files[k]: the rows of the object, none before an upload. *)
  events,      (* events[k]: Object Created events not yet consumed.       *)
  step,        (* step[x]: the task x is at, 0 when it is not running.     *)
  key,         (* key[x]: the object it was started for, or None.          *)
  busy,        (* busy[x]: whether the function has read its input.        *)
  rows,        (* rows[x]: what it read.                                   *)
  view,        (* view[x]: the suppression log when it began to read that. *)
  out,         (* out[r][i]: the output of step i.                         *)
  quarantine,  (* quarantine[r][i]: the CSV of step i.                     *)
  excluded,    (* excluded[r]: 05_excluded.ndjson.                         *)
  staged,      (* staged[r]: staging/cleansed/<r>.parquet.                 *)
  suppressed,  (* Identifiers in the suppression log.                      *)
  now,         (* Days.                                                    *)
  upsets,      (* Such events so far.                                     *)
  source,      (* History, source[x]: the rows schema validation read.     *)
  alone,       (* History, alone[x]: no other execution used its files.    *)
  floor        (* History, floor[r]: the log when executions of r began to *)
               (* overlap, or when the only one started.                   *)

s3 == <<out, quarantine, excluded, staged>>
history == <<source, alone, floor>>
vars == <<files, events, step, key, busy, rows, view, s3, suppressed, now,
          upsets, history>>

Steps == 1 .. 7
Row == UNION Content
IsRow(r) ==
  /\ DOMAIN r = {"n", "company", "phone", "email", "at", "last"}
  /\ r.n \in {s.n : s \in Row} /\ r.company \in {"named", "hollow", "blank"}
  /\ r.phone \in Text \cup Identifier \cup {None}
  /\ r.email \in Text \cup Identifier \cup {None}
  /\ r.at \in Nat \cup {BadTime, NoColumn} /\ r.last \in Nat \cup {BadTime, None}

TypeOK ==
  /\ files \in [Key -> Content \cup {{}}] /\ events \in [Key -> Nat]
  /\ step \in [Exec -> 0 .. 7] /\ key \in [Exec -> Key \cup {None}]
  /\ busy \in [Exec -> BOOLEAN]
  /\ \A x \in Exec : /\ \A r \in rows[x] \cup source[x] : IsRow(r)
                     /\ view[x] \subseteq Identifier
                     /\ step[x] = 0 => key[x] = None /\ rows[x] = {}
  /\ \A r \in RunId : /\ \A i \in Steps : \A row \in out[r][i] \cup quarantine[r][i] : IsRow(row)
                      /\ \A row \in excluded[r] \cup staged[r] : IsRow(row)
                      /\ floor[r] \subseteq suppressed
  /\ suppressed \subseteq Identifier
  /\ now \in 0 .. MaxNow /\ upsets \in 0 .. MaxUpsets
  /\ alone \in [Exec -> BOOLEAN]

Init ==
  /\ files = [k \in Key |-> {}] /\ events = [k \in Key |-> 0]
  /\ step = [x \in Exec |-> 0] /\ key = [x \in Exec |-> None]
  /\ busy = [x \in Exec |-> FALSE] /\ rows = [x \in Exec |-> {}]
  /\ view = [x \in Exec |-> {}]
  /\ out = [r \in RunId |-> [i \in Steps |-> {}]] /\ quarantine = out
  /\ excluded = [r \in RunId |-> {}] /\ staged = excluded
  /\ suppressed = {} /\ now = 0 /\ upsets = 0
  /\ source = rows /\ alone = busy /\ floor = excluded

Run(x) == RunIdOf[key[x]]
OnSameRun(x, k) == key[x] # None /\ Run(x) = RunIdOf[k]
-----------------------------------------------------------------------------
(* A person puts a file in the bucket, in place of one of the same key.    *)
UploadFile(k) ==
  /\ upsets < MaxUpsets
  /\ upsets' = upsets + 1
  /\ \E F \in Content : files' = [files EXCEPT ![k] = F]
  /\ events' = [events EXCEPT ![k] = @ + 1]
  /\ UNCHANGED <<step, key, busy, rows, view, s3, suppressed, now, history>>

(* An Object Created event starts an execution; EventBridge may deliver it *)
(* again.                                                                  *)
StartExecution(x, k) ==
  /\ step[x] = 0 /\ events[k] > 0
  /\ \/ /\ events' = [events EXCEPT ![k] = @ - 1]
        /\ UNCHANGED upsets
     \/ /\ upsets < MaxUpsets
        /\ upsets' = upsets + 1
        /\ UNCHANGED events
  /\ step' = [step EXCEPT ![x] = 1]
  /\ key' = [key EXCEPT ![x] = k]
  /\ LET others == {y \in Exec : OnSameRun(y, k)} IN
       /\ alone' = [y \in Exec |-> IF y = x THEN others = {} ELSE alone[y] /\ y \notin others]
       /\ floor' = IF others = {} THEN [floor EXCEPT ![RunIdOf[k]] = suppressed] ELSE floor
  /\ UNCHANGED <<files, busy, rows, view, s3, suppressed, now, source>>

(* A function reads its input: the object, or the output of the step before. *)
ReadInput(x) ==
  /\ step[x] # 0 /\ ~busy[x]
  /\ busy' = [busy EXCEPT ![x] = TRUE]
  /\ rows' = [rows EXCEPT ![x] = IF step[x] = 1 THEN files[key[x]] ELSE out[Run(x)][step[x] - 1]]
  /\ source' = IF step[x] = 1 THEN [source EXCEPT ![x] = files[key[x]]] ELSE source
  /\ view' = [view EXCEPT ![x] = IF step[x] = 5 THEN suppressed ELSE {}]
  /\ UNCHANGED <<files, events, step, key, s3, suppressed, now, upsets, alone, floor>>

(* Mutant: a warm process keeps the rows of the execution before.          *)
EndWarm(x) ==
  /\ step' = [step EXCEPT ![x] = 0]
  /\ key' = [key EXCEPT ![x] = None]
  /\ busy' = [busy EXCEPT ![x] = FALSE]
  /\ source' = [source EXCEPT ![x] = {}]
  /\ alone' = [alone EXCEPT ![x] = FALSE]
  /\ view' = [view EXCEPT ![x] = {}]
  /\ UNCHANGED rows

(* The execution is over.                                                  *)
End(x) ==
  /\ step' = [step EXCEPT ![x] = 0]
  /\ key' = [key EXCEPT ![x] = None]
  /\ busy' = [busy EXCEPT ![x] = FALSE]
  /\ rows' = [rows EXCEPT ![x] = {}]
  /\ source' = [source EXCEPT ![x] = {}]
  /\ alone' = [alone EXCEPT ![x] = FALSE]
  /\ view' = [view EXCEPT ![x] = {}]

(* The function returns: the next task is due, or after an error of the    *)
(* service the same one again.                                             *)
Return(x) ==
  \/ /\ step[x] = 7
     /\ End(x)
     /\ UNCHANGED upsets
  \/ /\ \/ step[x] < 7 /\ step' = [step EXCEPT ![x] = @ + 1] /\ UNCHANGED upsets
        \/ upsets < MaxUpsets /\ upsets' = upsets + 1 /\ UNCHANGED step
     /\ busy' = [busy EXCEPT ![x] = FALSE]
     /\ rows' = [rows EXCEPT ![x] = {}]
     /\ view' = [view EXCEPT ![x] = {}]
     /\ UNCHANGED <<key, source, alone>>

Working(x, i) == step[x] = i /\ busy[x]

Frame == UNCHANGED <<files, events, suppressed, now, floor>>

(* write_ndjson, then write_quarantine, which leaves what is there when    *)
(* there is nothing to write.  A crash may come in between.                *)
WriteQuarantine(x, rejected) ==
  quarantine' = IF rejected = {} THEN quarantine
                ELSE [quarantine EXCEPT ![Run(x)][step[x]] = rejected]

Write(x, kept, rejected) ==
  /\ out' = [out EXCEPT ![Run(x)][step[x]] = kept]
  /\ \/ WriteQuarantine(x, rejected) /\ Return(x)
     \/ rejected # {} /\ upsets < MaxUpsets /\ upsets' = upsets + 1 /\ End(x) /\ UNCHANGED quarantine
  /\ UNCHANGED <<excluded, staged>> /\ Frame

WellFormed(r) ==
  /\ r.company # "blank"
  /\ r.phone # Blank \/ r.email # Blank
  /\ r.at \in Nat

(* fromisoformat of a column that is not there raises.                     *)
Unreadable(r) ==
  r.company # "blank" /\ (r.phone # Blank \/ r.email # Blank) /\ r.at = NoColumn

SchemaValidate(x) ==
  /\ Working(x, 1)
  /\ \A r \in rows[x] : ~Unreadable(r)
  /\ LET valid == {r \in rows[x] : WellFormed(r)} IN Write(x, valid, rows[x] \ valid)

Normalized(r) == [r EXCEPT !.phone = Normalize[@], !.email = Normalize[@]]

Identified(r) ==
  /\ r.company # "hollow"
  /\ Normalized(r).phone # None \/ Normalized(r).email # None

NormalizeRows(x) ==
  /\ Working(x, 2)
  /\ LET kept == {r \in rows[x] : Identified(r)} IN
       Write(x, {Normalized(r) : r \in kept}, rows[x] \ kept)

Domains(F) == {DomainOf[r.email] : r \in {s \in F : s.email # None}}

Undeliverable(r, dead) == r.email # None /\ DomainOf[r.email] \in dead

(* A domain has one answer per call of the function.  A lookup that times  *)
(* out is taken for a domain without MX.                                   *)
Validate(x) ==
  /\ Working(x, 3)
  /\ \E dead \in SUBSET Domains(rows[x]) :
       /\ Domains(rows[x]) \ HasMx \subseteq dead
       /\ LET lost == {r \in rows[x] : Undeliverable(r, dead) /\ r.phone = None} IN
            Write(x, {IF Undeliverable(r, dead) THEN [r EXCEPT !.email = None] ELSE r :
                        r \in rows[x] \ lost}, lost)

NormalizedKey(r) == <<r.phone, r.email>>

(* Mutant: a later row always replaces the incumbent.                      *)
LastWins(s, r) == s.n > r.n

(* s would replace r as the row of their key: more recent, or as recent    *)
(* and there first.                                                        *)
Beats(s, r) == s.at > r.at \/ (s.at = r.at /\ s.n < r.n)

Dedupe(x) ==
  /\ Working(x, 4)
  /\ LET best == {r \in rows[x] : \A s \in rows[x] :
                    NormalizedKey(s) = NormalizedKey(r) => ~Beats(s, r)} IN
       Write(x, best, {})

(* Mutant: the phone of a contact decides.                                 *)
PhoneIn(r, S) == r.phone \in S

IsSuppressed(r, S) == r.phone \in S \/ r.email \in S

InCooldown(r) == r.last # None /\ now - r.last < Cooldown

(* The list is asked row by row and may be refreshed in between: each row  *)
(* is judged by what was logged when the function started and by some, none*)
(* or all of what has come since.                                          *)
Suppress(x) ==
  /\ Working(x, 5)
  /\ \E found \in SUBSET {r \in rows[x] : IsSuppressed(r, suppressed)} :
       /\ \A r \in rows[x] \ found : ~IsSuppressed(r, view[x]) /\ r.last # BadTime
       /\ LET drop == found \cup {r \in rows[x] \ found : InCooldown(r)} IN
            /\ out' = [out EXCEPT ![Run(x)][5] = rows[x] \ drop]
            /\ \/ excluded' = [excluded EXCEPT ![Run(x)] = drop] /\ Return(x)
               \/ upsets < MaxUpsets /\ upsets' = upsets + 1 /\ End(x) /\ UNCHANGED excluded
  /\ UNCHANGED <<quarantine, staged>> /\ Frame

(* The id is a function of the normalized key, which stays in the row.     *)
AssignExternalId(x) ==
  /\ Working(x, 6)
  /\ Write(x, rows[x], {})

WriteStaging(x) ==
  /\ Working(x, 7)
  /\ staged' = [staged EXCEPT ![Run(x)] = rows[x]]
  /\ Return(x)
  /\ UNCHANGED <<out, quarantine, excluded>> /\ Frame

(* One row without the column, or with a last contact nobody can parse,    *)
(* makes the function raise and ends the execution.                        *)
Raise(x) ==
  /\ \/ Working(x, 1) /\ \E r \in rows[x] : Unreadable(r)
     \/ Working(x, 5) /\ \E r \in rows[x] : r.last = BadTime /\ ~IsSuppressed(r, view[x])
  /\ End(x)
  /\ UNCHANGED <<s3, upsets>> /\ Frame

(* A timeout, a call to S3 or DNS that raises.                             *)
Crash(x) ==
  /\ step[x] # 0 /\ upsets < MaxUpsets
  /\ upsets' = upsets + 1
  /\ End(x)
  /\ UNCHANGED s3 /\ Frame

OptOut(i) ==
  /\ i \notin suppressed
  /\ suppressed' = suppressed \cup {i}
  /\ UNCHANGED <<files, events, step, key, busy, rows, view, s3, now, upsets, history>>

NextDay ==
  /\ now < MaxNow
  /\ now' = now + 1
  /\ UNCHANGED <<files, events, step, key, busy, rows, view, s3, suppressed, upsets, history>>

Task(x) ==
  \/ SchemaValidate(x) \/ NormalizeRows(x) \/ Validate(x) \/ Dedupe(x)
  \/ Suppress(x) \/ AssignExternalId(x) \/ WriteStaging(x)

Next ==
  \/ \E k \in Key : UploadFile(k) \/ \E x \in Exec : StartExecution(x, k)
  \/ \E x \in Exec : ReadInput(x) \/ Task(x) \/ Raise(x) \/ Crash(x)
  \/ \E i \in Identifier : OptOut(i)
  \/ NextDay

Spec == Init /\ [][Next]_vars
-----------------------------------------------------------------------------
ToStage(x) == IF Working(x, 7) THEN rows[x] ELSE {}

(* What is about to be staged holds no identifier that was suppressed when *)
(* the executions that share its files began, and nobody in the cooldown,  *)
(* whatever execution wrote the files in between.                          *)
StagedIsClear ==
  \A x \in Exec : \A r \in ToStage(x) :
    /\ {r.phone, r.email} \cap floor[Run(x)] = {}
    /\ r.last # None => now - r.last >= Cooldown

Lines(F) == {r.n : r \in F}

(* g is a row of the same contact as f, at least as recent.                *)
StandsFor(g, f) ==
  /\ g.phone = Normalize[f.phone] /\ g.email \in {Normalize[f.email], None}
  /\ g.at >= f.at

(* "excluded rows ... rather than dropping them silently" (ADR-010).  When *)
(* an execution that had its files to itself stages its batch, every row of*)
(* the file it read is in the batch, in a quarantine file or among the     *)
(* excluded, or such a row of the same contact stands for it.              *)
EveryRowAccounted ==
  \A x \in Exec : alone[x] /\ Working(x, 7) =>
    LET r == Run(x) IN
      \A f \in source[x] :
        \/ f.n \in Lines(quarantine[r][1] \cup quarantine[r][2] \cup quarantine[r][3])
        \/ \E g \in rows[x] \cup excluded[r] : StandsFor(g, f)

(* "Drops every contact the suppression list matches (cross-channel ...)   *)
(* and everyone contacted within COOLDOWN_DAYS" (suppress.py:10-11): no    *)
(* contact is staged who, by its rows in the file, was on the list when    *)
(* the execution started.                                                  *)
SuppressedNeverStaged ==
  \A x \in Exec : \A r \in ToStage(x) : \A f \in source[x] :
    f.n = r.n => {Normalize[f.phone], Normalize[f.email]} \cap floor[Run(x)] = {}
=============================================================================
