------------------------- MODULE LeadPipelineProofs -------------------------
(***************************************************************************)
(* Theorems about LeadPipeline, for any files, names, spellings, domains   *)
(* and cooldown, and any number of executions that overlap.                *)
(***************************************************************************)
EXTENDS LeadPipeline, FiniteSetTheorems, WellFoundedInduction, TLAPS

Company == {"named", "hollow", "blank"}
LineNo == {s.n : s \in Row}
Identity == Identifier \cup {None}
LastTime == Nat \cup {BadTime, None}

(* The lines of a file; the valid ones; normalized rows.                   *)
FileRow ==
  [n : LineNo, company : Company, phone : Text, email : Text,
   at : Nat \cup {BadTime, NoColumn}, last : LastTime]
ValidRow ==
  [n : LineNo, company : Company, phone : Text, email : Text, at : Nat, last : LastTime]
NormalRow ==
  [n : LineNo, company : Company, phone : Identity, email : Identity, at : Nat, last : LastTime]

(* What step i reads.                                                      *)
InRow(i) == IF i = 1 THEN FileRow ELSE IF i = 2 THEN ValidRow ELSE NormalRow

AnyRow == FileRow \cup ValidRow \cup NormalRow

Finite(S) == {F \in SUBSET S : IsFiniteSet(F)}

(* The executions.                                                         *)
Control ==
  /\ step \in [Exec -> 0 .. 7] /\ key \in [Exec -> Key \cup {None}]
  /\ busy \in [Exec -> BOOLEAN] /\ alone \in [Exec -> BOOLEAN]
  /\ rows \in [Exec -> SUBSET AnyRow] /\ source \in [Exec -> SUBSET FileRow]
  /\ view \in [Exec -> SUBSET suppressed]
  /\ \A x \in Exec : /\ step[x] = 0 <=> key[x] = None
                     /\ step[x] = 0 => ~busy[x]
                     /\ ~busy[x] => rows[x] = {}
                     /\ busy[x] => rows[x] \in Finite(InRow(step[x]))

(* The objects in the bucket.                                              *)
Written ==
  /\ out \in [RunId -> [Steps -> SUBSET AnyRow]]
  /\ \A r \in RunId : \A i \in Steps : out[r][i] \in Finite(InRow(i + 1))
  /\ quarantine \in [RunId -> [Steps -> SUBSET AnyRow]]
  /\ excluded \in [RunId -> SUBSET AnyRow] /\ staged \in [RunId -> SUBSET AnyRow]

(* What the tasks leave alone.                                             *)
Around ==
  /\ files \in [Key -> Content \cup {{}}] /\ events \in [Key -> Nat]
  /\ suppressed \subseteq Identifier
  /\ floor \in [RunId -> SUBSET suppressed]
  /\ now \in 0 .. MaxNow

Types == Control /\ Written /\ Around /\ upsets \in 0 .. MaxUpsets

(* Nobody in F is in S or in the cooldown.                                 *)
Clear(F, S) ==
  \A r \in F : /\ r.phone \notin S /\ r.email \notin S
               /\ r.last = None \/ (r.last \in Nat /\ now - r.last >= Cooldown)

(* An execution past the suppression step has written its output since its *)
(* run began to be shared, and so has whoever wrote it again.              *)
Cleared(x) ==
  /\ step[x] = 5 /\ busy[x] => floor[Run(x)] \subseteq view[x]
  /\ step[x] >= 6 => Clear(out[Run(x)][5], floor[Run(x)])
  /\ step[x] = 7 => Clear(out[Run(x)][6], floor[Run(x)])
  /\ step[x] >= 6 => Clear(rows[x], floor[Run(x)])

ClearInv == \A x \in Exec : Cleared(x)

(* Row g before step i stands for line f: it is f, or its normal form, or  *)
(* from deduplication on a row of the same contact.                        *)
StandsAt(i, g, f) ==
  IF i = 2 THEN g = f ELSE StandsFor(g, f) /\ (i < 5 => g.n = f.n)

(* The rows F that step i reads, with the quarantine q and the excluded    *)
(* rows, account for the lines src.                                        *)
Accounts(src, q, exc, i, F) ==
  \A f \in src :
    \/ \E j \in 1 .. 3 : j < i /\ f.n \in Lines(q[j])
    \/ /\ f.at \in Nat
       /\ \E g \in F \cup (IF i > 5 THEN exc ELSE {}) : StandsAt(i, g, f)

AccountsNow(x, F) == Accounts(source[x], quarantine[Run(x)], excluded[Run(x)], step[x], F)

Accounted(x) ==
  alone[x] =>
    /\ step[x] # 0
    /\ \A y \in Exec : OnSameRun(y, key[x]) => y = x
    /\ step[x] = 1 /\ busy[x] => rows[x] = source[x]
    /\ step[x] > 1 => AccountsNow(x, out[Run(x)][step[x] - 1])
    /\ step[x] > 1 /\ busy[x] => AccountsNow(x, rows[x])

AccountInv == \A x \in Exec : Accounted(x)

(* What a step of x that returns or ends leaves of the executions.         *)
Moved(x) ==
  /\ \A y \in Exec \ {x} : /\ step'[y] = step[y] /\ key'[y] = key[y] /\ busy'[y] = busy[y]
                           /\ rows'[y] = rows[y] /\ view'[y] = view[y]
                           /\ source'[y] = source[y] /\ alone'[y] = alone[y]
  /\ ~busy'[x] /\ rows'[x] = {}
  /\ \/ step'[x] = 0 /\ key'[x] = None /\ ~alone'[x]
     \/ /\ step'[x] = step[x] \/ (step'[x] = step[x] + 1 /\ step[x] < 7)
        /\ key'[x] = key[x] /\ source'[x] = source[x] /\ alone'[x] = alone[x]
-----------------------------------------------------------------------------
(* An uploaded file is a finite set of lines.                              *)
LEMMA Uploads ==
  ASSUME NEW F \in Content \cup {{}}
  PROVE  F \in Finite(InRow(1))
<1>1. CASE F = {}
  BY <1>1, FS_EmptySet DEF Finite
<1>2. CASE F \in Content
  <2>1. IsFiniteSet(F) /\ F \subseteq FileLine
    BY <1>2, PipelineAssumption
  <2>2. ASSUME NEW f \in F PROVE f \in InRow(1)
    <3>1. f \in Row
      BY <1>2 DEF Row
    <3>2. f.n \in LineNo
      BY <3>1 DEF LineNo
    <3>3. f \in FileLine
      BY <2>1
    <3>4. f = [n |-> f.n, company |-> f.company, phone |-> f.phone, email |-> f.email,
               at |-> f.at, last |-> f.last]
      BY <3>3 DEF FileLine
    <3> QED BY <3>2, <3>3, <3>4 DEF FileLine, InRow, FileRow, Company, LastTime
  <2> QED BY <2>1, <2>2 DEF Finite
<1> QED BY <1>1, <1>2

(* Rows of every step have the shape that IsRow states.                    *)
LEMMA RowsAreRows ==
  ASSUME NEW r \in AnyRow
  PROVE  IsRow(r)
<1>1. CASE r \in FileRow
  BY <1>1 DEF FileRow, IsRow, LineNo, Company, LastTime
<1>2. CASE r \in ValidRow
  BY <1>2 DEF ValidRow, IsRow, LineNo, Company, LastTime
<1>3. CASE r \in NormalRow
  BY <1>3 DEF NormalRow, IsRow, LineNo, Company, LastTime, Identity
<1> QED BY <1>1, <1>2, <1>3 DEF AnyRow

(* A running execution works on the files of a run id.                     *)
LEMMA RunsInRunId ==
  ASSUME Control, NEW x \in Exec, step[x] # 0
  PROVE  key[x] \in Key /\ Run(x) \in RunId /\ step[x] \in 1 .. 7 /\ step[x] \in Steps
BY PipelineAssumption DEF Control, Run, Steps

(* The variables have their types in the beginning.                        *)
LEMMA InitTypes == Init => Types
<1> SUFFICES ASSUME Init PROVE Types
  OBVIOUS
<1> USE DEF Init
<1>1. {} \in Content \cup {{}}
  OBVIOUS
<1>2. Control
  BY DEF Control
<1>3. Written
  <2>1. \A S : {} \in Finite(S)
    BY FS_EmptySet DEF Finite
  <2> QED BY <2>1 DEF Written, Steps
<1>4. Around /\ upsets \in 0 .. MaxUpsets
  BY PipelineAssumption DEF Around
<1> QED BY <1>2, <1>3, <1>4 DEF Types

(* The end of an execution.                                                *)
LEMMA EndTypes ==
  ASSUME Control, NEW x \in Exec, End(x), suppressed' = suppressed
  PROVE  Control'
BY PipelineAssumption DEF Control, End

(* The return of a function, and the next task.                            *)
LEMMA ReturnTypes ==
  ASSUME Control, NEW x \in Exec, step[x] # 0, Return(x), suppressed' = suppressed,
         upsets \in 0 .. MaxUpsets
  PROVE  Control' /\ upsets' \in 0 .. MaxUpsets
<1>1. CASE End(x) /\ UNCHANGED upsets
  BY <1>1, EndTypes
<1>2. CASE /\ \/ step[x] < 7 /\ step' = [step EXCEPT ![x] = @ + 1] /\ UNCHANGED upsets
              \/ upsets < MaxUpsets /\ upsets' = upsets + 1 /\ UNCHANGED step
           /\ busy' = [busy EXCEPT ![x] = FALSE]
           /\ rows' = [rows EXCEPT ![x] = {}]
           /\ view' = [view EXCEPT ![x] = {}]
           /\ UNCHANGED <<key, source, alone>>
  <2>1. upsets' \in 0 .. MaxUpsets
    BY <1>2, PipelineAssumption
  <2>2. /\ step' \in [Exec -> 0 .. 7] /\ step'[x] # 0
        /\ \A y \in Exec \ {x} : step'[y] = step[y]
    BY <1>2 DEF Control
  <2>3. \A y \in Exec : /\ ~busy'[y] => rows'[y] = {}
                        /\ busy'[y] => y # x /\ busy[y] /\ rows'[y] = rows[y]
    BY <1>2 DEF Control
  <2>4. busy' \in [Exec -> BOOLEAN] /\ rows' \in [Exec -> SUBSET AnyRow] /\ view' \in [Exec -> SUBSET suppressed]
    BY <1>2 DEF Control
  <2>5. \A y \in Exec : /\ step'[y] = 0 <=> key'[y] = None
                        /\ step'[y] = 0 => ~busy'[y]
                        /\ busy'[y] => rows'[y] \in Finite(InRow(step'[y]))
    BY <1>2, <2>2, <2>3 DEF Control
  <2> QED BY <1>2, <2>1, <2>2, <2>3, <2>4, <2>5 DEF Control
<1> QED BY <1>1, <1>2 DEF Return

(* The start of an execution.                                              *)
LEMMA StartTypes ==
  ASSUME Types, NEW x \in Exec, NEW k \in Key, StartExecution(x, k)
  PROVE  Types'
<1> DEFINE others == {y \in Exec : OnSameRun(y, k)}
<1>1. Control'
  <2>1. alone' \in [Exec -> BOOLEAN]
    <3>1. alone' = [y \in Exec |-> IF y = x THEN others = {} ELSE alone[y] /\ y \notin others]
      BY DEF StartExecution
    <3>2. ASSUME NEW y \in Exec
          PROVE (IF y = x THEN others = {} ELSE alone[y] /\ y \notin others) \in BOOLEAN
      <4>1. alone[y] \in BOOLEAN
        BY DEF Types, Control
      <4> HIDE DEF others
      <4> QED BY <4>1, Zenon
    <3> HIDE DEF others
    <3> QED BY <3>1, <3>2, Zenon
  <2>2. /\ step' = [step EXCEPT ![x] = 1] /\ key' = [key EXCEPT ![x] = k] /\ step[x] = 0
        /\ UNCHANGED <<busy, rows, view, suppressed, source>>
    BY DEF StartExecution
  <2> QED BY <2>1, <2>2, PipelineAssumption DEF Types, Control
<1>2. Around'
  <2>1. floor' = IF others = {} THEN [floor EXCEPT ![RunIdOf[k]] = suppressed] ELSE floor
    BY DEF StartExecution
  <2>2. floor' \in [RunId -> SUBSET suppressed']
    <3> HIDE DEF others
    <3> QED BY <2>1 DEF StartExecution, Types, Around
  <2>3. events' \in [Key -> Nat]
    BY DEF StartExecution, Types, Around
  <2> QED BY <2>2, <2>3 DEF StartExecution, Types, Around
<1>3. Written' /\ upsets' \in 0 .. MaxUpsets
  BY PipelineAssumption DEF StartExecution, Types, Written, s3
<1> QED BY <1>1, <1>2, <1>3 DEF Types

(* A function reads what it expects.                                       *)
LEMMA ReadTypes ==
  ASSUME Types, NEW x \in Exec, ReadInput(x)
  PROVE  Types'
<1>1. /\ step[x] # 0 /\ key[x] \in Key /\ Run(x) \in RunId /\ step[x] \in Steps
  BY RunsInRunId DEF ReadInput, Types
<1> DEFINE input == IF step[x] = 1 THEN files[key[x]] ELSE out[Run(x)][step[x] - 1]
<1>2. input \in Finite(InRow(step[x])) /\ input \in SUBSET AnyRow
  <2>1. CASE step[x] = 1
    <3>1. files[key[x]] \in Finite(InRow(1))
      BY <1>1, Uploads DEF Types, Around
    <3> QED BY <2>1, <3>1 DEF Finite, InRow, AnyRow
  <2>2. CASE step[x] # 1
    <3>1. step[x] - 1 \in Steps /\ (step[x] - 1) + 1 = step[x]
      BY <1>1, <2>2 DEF Steps
    <3>2. out[Run(x)][step[x] - 1] \in Finite(InRow((step[x] - 1) + 1))
      BY <1>1, <3>1 DEF Types, Written
    <3> QED BY <2>2, <3>1, <3>2 DEF Finite, InRow, AnyRow
  <2> QED BY <2>1, <2>2
<1>3. /\ rows' = [rows EXCEPT ![x] = input] /\ busy' = [busy EXCEPT ![x] = TRUE]
      /\ source' = IF step[x] = 1 THEN [source EXCEPT ![x] = input] ELSE source
      /\ view' = [view EXCEPT ![x] = IF step[x] = 5 THEN suppressed ELSE {}]
      /\ UNCHANGED <<step, key, suppressed, alone>>
  BY DEF ReadInput
<1>4. step[x] = 1 => input \in SUBSET FileRow
  BY <1>2 DEF InRow, Finite
<1> HIDE DEF input
<1>5. Control'
  BY <1>1, <1>2, <1>3, <1>4 DEF Types, Control
<1>6. Written' /\ Around' /\ upsets' \in 0 .. MaxUpsets
  BY DEF ReadInput, Types, Written, Around, s3
<1> QED BY <1>5, <1>6 DEF Types

(* A task that writes rows the next step expects.                          *)
LEMMA WriteTypes ==
  ASSUME Types, NEW x \in Exec, step[x] # 0,
         NEW kept \in Finite(InRow(step[x] + 1)), NEW rejected \in SUBSET AnyRow,
         Write(x, kept, rejected)
  PROVE  Types'
<1>1. Run(x) \in RunId /\ step[x] \in Steps
  BY RunsInRunId DEF Types
<1>2. kept \in SUBSET AnyRow
  BY DEF Finite, InRow, AnyRow
<1>3. Control' /\ upsets' \in 0 .. MaxUpsets
  <2>1. suppressed' = suppressed
    BY DEF Write, Frame
  <2>2. CASE Return(x)
    BY <2>1, <2>2, ReturnTypes DEF Types
  <2>3. CASE upsets < MaxUpsets /\ upsets' = upsets + 1 /\ End(x)
    <3>1. Control'
      BY <2>1, <2>3, EndTypes DEF Types
    <3>2. upsets' \in 0 .. MaxUpsets
      BY <2>3, PipelineAssumption DEF Types
    <3> QED BY <3>1, <3>2
  <2> QED BY <2>2, <2>3 DEF Write
<1>4. Around'
  BY DEF Types, Around, Write, Frame
<1>5. Written'
  <2>1. out' = [out EXCEPT ![Run(x)][step[x]] = kept]
    BY DEF Write
  <2>2. /\ out' \in [RunId -> [Steps -> SUBSET AnyRow]]
        /\ \A r \in RunId : \A i \in Steps : out'[r][i] \in Finite(InRow(i + 1))
    BY <1>1, <1>2, <2>1 DEF Types, Written
  <2>3. quarantine' \in {quarantine, [quarantine EXCEPT ![Run(x)][step[x]] = rejected]}
    BY DEF Write, WriteQuarantine
  <2>4. quarantine' \in [RunId -> [Steps -> SUBSET AnyRow]]
    <3>1. quarantine \in [RunId -> [Steps -> SUBSET AnyRow]]
      BY DEF Types, Written
    <3>2. CASE quarantine' = [quarantine EXCEPT ![Run(x)][step[x]] = rejected]
      BY <1>1, <3>1, <3>2
    <3> QED BY <2>3, <3>1, <3>2
  <2> QED BY <2>2, <2>4 DEF Types, Written, Write
<1> QED BY <1>3, <1>4, <1>5 DEF Types

(* What a function works on.                                               *)
LEMMA WorkingRows ==
  ASSUME Types, NEW x \in Exec, NEW i \in Steps, Working(x, i)
  PROVE  /\ step[x] = i /\ i # 0 /\ busy[x]
         /\ rows[x] \in Finite(InRow(i)) /\ rows[x] \subseteq AnyRow /\ IsFiniteSet(rows[x])
         /\ Run(x) \in RunId
<1>1. step[x] = i /\ i # 0 /\ busy[x]
  BY DEF Working, Steps
<1>2. rows[x] \in Finite(InRow(i))
  BY <1>1 DEF Types, Control
<1> QED BY <1>1, <1>2, RunsInRunId DEF Finite, InRow, AnyRow, Types

(* Some of the rows.                                                       *)
LEMMA Part ==
  ASSUME NEW S, NEW F \in Finite(S), NEW T \in SUBSET F
  PROVE  T \in Finite(S)
BY FS_Subset DEF Finite

(* One row for each of some.                                               *)
LEMMA Image ==
  ASSUME NEW F, IsFiniteSet(F), NEW S, NEW g, \A r \in F : g[r] \in S
  PROVE  {g[r] : r \in F} \in Finite(S)
<1> DEFINE T == {g[r] : r \in F}
           h == [r \in F |-> g[r]]
<1>1. h \in Surjection(F, T)
  BY DEF Surjection
<1>2. IsFiniteSet(T)
  <2> HIDE DEF h, T
  <2> QED BY <1>1, FS_Surjection
<1> QED BY <1>2 DEF Finite

(* A valid line.                                                           *)
LEMMA ValidLine ==
  ASSUME NEW r \in FileRow, r.at \in Nat
  PROVE  r \in ValidRow
BY DEF FileRow, ValidRow

(* A normalized row, from a valid line.                                    *)
LEMMA NormalizedRow ==
  ASSUME NEW r \in ValidRow
  PROVE  /\ Normalized(r) \in NormalRow
         /\ Normalized(r).phone = Normalize[r.phone] /\ Normalized(r).email = Normalize[r.email]
         /\ Normalized(r).at = r.at /\ Normalized(r).n = r.n
<1>1. Normalize[r.phone] \in Identity /\ Normalize[r.email] \in Identity
  BY PipelineAssumption DEF ValidRow, Identity
<1>2. Normalized(r) = [r EXCEPT !.phone = Normalize[r.phone], !.email = Normalize[r.email]]
  BY DEF Normalized, ValidRow
<1> QED BY <1>1, <1>2 DEF ValidRow, NormalRow

(* A row without its email.                                                *)
LEMMA Nulled ==
  ASSUME NEW r \in NormalRow
  PROVE  /\ [r EXCEPT !.email = None] \in NormalRow
         /\ [r EXCEPT !.email = None].phone = r.phone /\ [r EXCEPT !.email = None].email = None
         /\ [r EXCEPT !.email = None].at = r.at
BY DEF NormalRow, Identity

(* What each task writes.                                                  *)
LEMMA SchemaValidateWrites ==
  ASSUME Types, NEW x \in Exec, SchemaValidate(x)
  PROVE  LET valid == {r \in rows[x] : WellFormed(r)} IN
           valid \in Finite(ValidRow) /\ Write(x, valid, rows[x] \ valid)
<1>1. Working(x, 1) /\ 1 \in Steps
  BY DEF SchemaValidate, Steps
<1>2. rows[x] \in Finite(FileRow)
  BY <1>1, WorkingRows DEF InRow
<1>3. {r \in rows[x] : WellFormed(r)} \subseteq ValidRow
  BY <1>2, ValidLine DEF WellFormed, Finite
<1> QED BY <1>2, <1>3, FS_Subset DEF SchemaValidate, Finite

LEMMA NormalizeRowsWrites ==
  ASSUME Types, NEW x \in Exec, NormalizeRows(x)
  PROVE  LET kept == {r \in rows[x] : Identified(r)}
             new == {Normalized(r) : r \in kept} IN
           new \in Finite(NormalRow) /\ Write(x, new, rows[x] \ kept)
<1> DEFINE kept == {r \in rows[x] : Identified(r)}
           g == [r \in kept |-> Normalized(r)]
<1>1. Working(x, 2) /\ 2 \in Steps
  BY DEF NormalizeRows, Steps
<1>2. rows[x] \in Finite(ValidRow)
  BY <1>1, WorkingRows DEF InRow
<1>3. IsFiniteSet(kept) /\ \A r \in kept : g[r] = Normalized(r) /\ g[r] \in NormalRow
  BY <1>2, FS_Subset, NormalizedRow DEF Finite
<1>4. {g[r] : r \in kept} \in Finite(NormalRow)
  <2> HIDE DEF kept, g
  <2> QED BY <1>3, Image
<1>5. {g[r] : r \in kept} = {Normalized(r) : r \in kept}
  BY <1>3
<1> QED BY <1>4, <1>5 DEF NormalizeRows

LEMMA ValidateWrites ==
  ASSUME Types, NEW x \in Exec, Validate(x)
  PROVE  \E dead :
           LET lost == {r \in rows[x] : Undeliverable(r, dead) /\ r.phone = None}
               new == {IF Undeliverable(r, dead) THEN [r EXCEPT !.email = None] ELSE r :
                         r \in rows[x] \ lost} IN
             new \in Finite(NormalRow) /\ Write(x, new, lost)
<1>1. Working(x, 3) /\ 3 \in Steps
  BY DEF Validate, Steps
<1>2. rows[x] \in Finite(NormalRow)
  BY <1>1, WorkingRows DEF InRow
<1>3. PICK dead \in SUBSET Domains(rows[x]) :
        LET lost == {r \in rows[x] : Undeliverable(r, dead) /\ r.phone = None} IN
          Write(x, {IF Undeliverable(r, dead) THEN [r EXCEPT !.email = None] ELSE r :
                      r \in rows[x] \ lost}, lost)
  BY DEF Validate
<1> DEFINE lost == {r \in rows[x] : Undeliverable(r, dead) /\ r.phone = None}
           kept == rows[x] \ lost
           g == [r \in kept |-> IF Undeliverable(r, dead) THEN [r EXCEPT !.email = None] ELSE r]
<1>4. \A r \in kept : /\ g[r] = IF Undeliverable(r, dead) THEN [r EXCEPT !.email = None] ELSE r
                      /\ g[r] \in NormalRow
  BY <1>2, Nulled DEF Finite
<1>5. IsFiniteSet(kept)
  BY <1>2, FS_Subset DEF Finite
<1>6. {g[r] : r \in kept} \in Finite(NormalRow)
  <2> HIDE DEF kept, g
  <2>1. \A r \in kept : g[r] \in NormalRow
    BY <1>4
  <2> QED BY <2>1, <1>5, Image
<1>7. {g[r] : r \in kept} =
        {IF Undeliverable(r, dead) THEN [r EXCEPT !.email = None] ELSE r : r \in kept}
  BY <1>4
<1> QED BY <1>3, <1>6, <1>7

LEMMA DedupeWrites ==
  ASSUME Types, NEW x \in Exec, Dedupe(x)
  PROVE  LET best == {r \in rows[x] : \A s \in rows[x] :
                        NormalizedKey(s) = NormalizedKey(r) => ~Beats(s, r)} IN
           best \in Finite(NormalRow) /\ Write(x, best, {})
<1>1. Working(x, 4) /\ 4 \in Steps
  BY DEF Dedupe, Steps
<1>2. rows[x] \in Finite(NormalRow)
  BY <1>1, WorkingRows DEF InRow
<1> DEFINE best == {r \in rows[x] : \A s \in rows[x] :
                      NormalizedKey(s) = NormalizedKey(r) => ~Beats(s, r)}
<1>3. best \in SUBSET rows[x]
  OBVIOUS
<1>4. best \in Finite(NormalRow)
  <2> HIDE DEF best
  <2> QED BY <1>2, <1>3, Part
<1> QED BY <1>4 DEF Dedupe

LEMMA SuppressWrites ==
  ASSUME Types, NEW x \in Exec, Suppress(x)
  PROVE  /\ Working(x, 5)
         /\ \E found \in SUBSET rows[x] :
              LET drop == found \cup {r \in rows[x] \ found : InCooldown(r)} IN
                /\ \A r \in rows[x] \ found : ~IsSuppressed(r, view[x]) /\ r.last # BadTime
                /\ rows[x] \ drop \in Finite(NormalRow)
                /\ drop \in SUBSET AnyRow
                /\ out' = [out EXCEPT ![Run(x)][5] = rows[x] \ drop]
                /\ \/ excluded' = [excluded EXCEPT ![Run(x)] = drop] /\ Return(x)
                   \/ upsets < MaxUpsets /\ upsets' = upsets + 1 /\ End(x) /\ UNCHANGED excluded
<1>1. Working(x, 5) /\ 5 \in Steps
  BY DEF Suppress, Steps
<1>2. rows[x] \in Finite(NormalRow) /\ rows[x] \subseteq AnyRow
  BY <1>1, WorkingRows DEF InRow
<1>3. PICK found \in SUBSET rows[x] :
        LET drop == found \cup {r \in rows[x] \ found : InCooldown(r)} IN
          /\ \A r \in rows[x] \ found : ~IsSuppressed(r, view[x]) /\ r.last # BadTime
          /\ out' = [out EXCEPT ![Run(x)][5] = rows[x] \ drop]
          /\ \/ excluded' = [excluded EXCEPT ![Run(x)] = drop] /\ Return(x)
             \/ upsets < MaxUpsets /\ upsets' = upsets + 1 /\ End(x) /\ UNCHANGED excluded
  BY DEF Suppress
<1> DEFINE drop == found \cup {r \in rows[x] \ found : InCooldown(r)}
<1>4. rows[x] \ drop \in SUBSET rows[x] /\ drop \in SUBSET AnyRow
  BY <1>2
<1>5. rows[x] \ drop \in Finite(NormalRow)
  <2> HIDE DEF drop
  <2> QED BY <1>2, <1>4, Part
<1> QED BY <1>1, <1>3, <1>4, <1>5

LEMMA AssignExternalIdWrites ==
  ASSUME Types, NEW x \in Exec, AssignExternalId(x)
  PROVE  rows[x] \in Finite(NormalRow) /\ Write(x, rows[x], {})
<1>1. Working(x, 6) /\ 6 \in Steps
  BY DEF AssignExternalId, Steps
<1> QED BY <1>1, WorkingRows DEF InRow, AssignExternalId

(* A task keeps the types.                                                 *)
LEMMA TaskTypes ==
  ASSUME Types, NEW x \in Exec, Task(x)
  PROVE  Types'
<1>1. {} \in SUBSET AnyRow /\ 2 \in Nat
  OBVIOUS
<1>2. CASE SchemaValidate(x)
  <2> DEFINE valid == {r \in rows[x] : WellFormed(r)}
  <2>1. valid \in Finite(ValidRow) /\ Write(x, valid, rows[x] \ valid)
    BY <1>2, SchemaValidateWrites
  <2>2. Working(x, 1) /\ 1 \in Steps
    BY <1>2 DEF SchemaValidate, Steps
  <2>3. step[x] = 1 /\ rows[x] \ valid \in SUBSET AnyRow
    BY <2>2, WorkingRows
  <2>4. InRow(step[x] + 1) = ValidRow
    BY <2>3 DEF InRow
  <2> HIDE DEF valid
  <2> QED BY <2>1, <2>3, <2>4, WriteTypes
<1>3. CASE NormalizeRows(x)
  <2> DEFINE kept == {r \in rows[x] : Identified(r)}
             new == {Normalized(r) : r \in kept}
  <2>1. new \in Finite(NormalRow) /\ Write(x, new, rows[x] \ kept)
    BY <1>3, NormalizeRowsWrites
  <2>2. Working(x, 2) /\ 2 \in Steps
    BY <1>3 DEF NormalizeRows, Steps
  <2>3. step[x] = 2 /\ rows[x] \ kept \in SUBSET AnyRow
    BY <2>2, WorkingRows
  <2>4. InRow(step[x] + 1) = NormalRow
    BY <2>3 DEF InRow
  <2> HIDE DEF new, kept
  <2> QED BY <2>1, <2>3, <2>4, WriteTypes
<1>4. CASE Validate(x)
  <2>1. PICK dead :
           LET lost == {r \in rows[x] : Undeliverable(r, dead) /\ r.phone = None}
               new == {IF Undeliverable(r, dead) THEN [r EXCEPT !.email = None] ELSE r :
                         r \in rows[x] \ lost} IN
             new \in Finite(NormalRow) /\ Write(x, new, lost)
    BY <1>4, ValidateWrites
  <2> DEFINE lost == {r \in rows[x] : Undeliverable(r, dead) /\ r.phone = None}
             new == {IF Undeliverable(r, dead) THEN [r EXCEPT !.email = None] ELSE r :
                       r \in rows[x] \ lost}
  <2>2. Working(x, 3) /\ 3 \in Steps
    BY <1>4 DEF Validate, Steps
  <2>3. step[x] = 3 /\ lost \in SUBSET AnyRow
    BY <2>2, WorkingRows
  <2>4. InRow(step[x] + 1) = NormalRow
    BY <2>3 DEF InRow
  <2>5. new \in Finite(NormalRow) /\ Write(x, new, lost)
    BY <2>1
  <2> HIDE DEF new, lost
  <2> QED BY <2>3, <2>4, <2>5, WriteTypes
<1>5. CASE Dedupe(x)
  <2> DEFINE best == {r \in rows[x] : \A s \in rows[x] :
                        NormalizedKey(s) = NormalizedKey(r) => ~Beats(s, r)}
  <2>1. best \in Finite(NormalRow) /\ Write(x, best, {})
    BY <1>5, DedupeWrites
  <2>2. step[x] = 4
    BY <1>5 DEF Dedupe, Working
  <2>3. InRow(step[x] + 1) = NormalRow
    BY <2>2 DEF InRow
  <2> HIDE DEF best
  <2> QED BY <1>1, <2>1, <2>2, <2>3, WriteTypes
<1>6. CASE Suppress(x)
  <2>1. PICK found \in SUBSET rows[x] :
          LET drop == found \cup {r \in rows[x] \ found : InCooldown(r)} IN
            /\ rows[x] \ drop \in Finite(NormalRow)
            /\ drop \in SUBSET AnyRow
            /\ out' = [out EXCEPT ![Run(x)][5] = rows[x] \ drop]
            /\ \/ excluded' = [excluded EXCEPT ![Run(x)] = drop] /\ Return(x)
               \/ upsets < MaxUpsets /\ upsets' = upsets + 1 /\ End(x) /\ UNCHANGED excluded
    BY <1>6, SuppressWrites
  <2> DEFINE drop == found \cup {r \in rows[x] \ found : InCooldown(r)}
             kept == rows[x] \ drop
  <2>2. step[x] # 0 /\ Run(x) \in RunId /\ 5 \in Steps
    BY <1>6, RunsInRunId DEF Suppress, Working, Types, Steps
  <2>3. /\ kept \in Finite(NormalRow) /\ drop \in SUBSET AnyRow
        /\ out' = [out EXCEPT ![Run(x)][5] = kept]
        /\ \/ excluded' = [excluded EXCEPT ![Run(x)] = drop] /\ Return(x)
           \/ upsets < MaxUpsets /\ upsets' = upsets + 1 /\ End(x) /\ UNCHANGED excluded
    BY <2>1
  <2>4. UNCHANGED <<quarantine, staged, files, events, suppressed, now, floor>>
    BY <1>6 DEF Suppress, Frame
  <2> HIDE DEF drop, kept
  <2>5. Control' /\ upsets' \in 0 .. MaxUpsets
    <3>1. CASE Return(x)
      BY <2>2, <2>4, <3>1, ReturnTypes DEF Types
    <3>2. CASE upsets < MaxUpsets /\ upsets' = upsets + 1 /\ End(x)
      <4>1. Control'
        BY <2>4, <3>2, EndTypes DEF Types
      <4>2. upsets' \in 0 .. MaxUpsets
        BY <3>2, PipelineAssumption DEF Types
      <4> QED BY <4>1, <4>2
    <3> QED BY <2>3, <3>1, <3>2
  <2>6. Around'
    BY <2>4 DEF Types, Around
  <2>7. /\ out' \in [RunId -> [Steps -> SUBSET AnyRow]]
        /\ \A r \in RunId : \A i \in Steps : out'[r][i] \in Finite(InRow(i + 1))
    <3>1. kept \in Finite(InRow(5 + 1)) /\ kept \in SUBSET AnyRow
      BY <2>3 DEF InRow, Finite, AnyRow
    <3> QED BY <2>2, <2>3, <3>1 DEF Types, Written
  <2>8. excluded' \in [RunId -> SUBSET AnyRow]
    <3>1. excluded \in [RunId -> SUBSET AnyRow]
      BY DEF Types, Written
    <3>2. CASE excluded' = [excluded EXCEPT ![Run(x)] = drop]
      BY <2>2, <2>3, <3>1, <3>2
    <3> QED BY <2>3, <3>1, <3>2
  <2> QED BY <2>4, <2>5, <2>6, <2>7, <2>8 DEF Types, Written
<1>7. CASE AssignExternalId(x)
  <2>1. rows[x] \in Finite(NormalRow) /\ Write(x, rows[x], {})
    BY <1>7, AssignExternalIdWrites
  <2>2. step[x] = 6
    BY <1>7 DEF AssignExternalId, Working
  <2>3. InRow(step[x] + 1) = NormalRow
    BY <2>2 DEF InRow
  <2> QED BY <1>1, <2>1, <2>2, <2>3, WriteTypes
<1>8. CASE WriteStaging(x)
  <2>1. Working(x, 7) /\ 7 \in Steps
    BY <1>8 DEF WriteStaging, Steps
  <2>2. rows[x] \subseteq AnyRow /\ Run(x) \in RunId /\ step[x] # 0
    BY <2>1, WorkingRows
  <2>3. Control' /\ upsets' \in 0 .. MaxUpsets
    BY <1>8, <2>2, ReturnTypes DEF WriteStaging, Frame, Types
  <2>4. Around'
    BY <1>8 DEF WriteStaging, Frame, Types, Around
  <2>5. Written'
    BY <1>8, <2>2 DEF WriteStaging, Types, Written
  <2> QED BY <2>3, <2>4, <2>5 DEF Types
<1> QED BY <1>2, <1>3, <1>4, <1>5, <1>6, <1>7, <1>8 DEF Task

(* Every step does.                                                        *)
LEMMA NextTypes == Types /\ [Next]_vars => Types'
<1> SUFFICES ASSUME Types, [Next]_vars PROVE Types'
  OBVIOUS
<1>1. CASE \E k \in Key : UploadFile(k)
  <2>1. PICK k \in Key : UploadFile(k)
    BY <1>1
  <2>2. Around' /\ upsets' \in 0 .. MaxUpsets
    BY <2>1, PipelineAssumption DEF UploadFile, Types, Around, history
  <2>3. Control' /\ Written'
    BY <2>1 DEF UploadFile, Types, Control, Written, s3, history
  <2> QED BY <2>2, <2>3 DEF Types
<1>2. CASE \E k \in Key : \E x \in Exec : StartExecution(x, k)
  BY <1>2, StartTypes
<1>3. CASE \E x \in Exec : ReadInput(x)
  BY <1>3, ReadTypes
<1>4. CASE \E x \in Exec : Task(x)
  BY <1>4, TaskTypes
<1>5. CASE \E x \in Exec : Raise(x)
  <2>1. PICK x \in Exec : Raise(x)
    BY <1>5
  <2>2. End(x) /\ UNCHANGED <<s3, upsets>> /\ Frame
    BY <2>1 DEF Raise
  <2>3. Control'
    BY <2>2, EndTypes DEF Frame, Types
  <2> QED BY <2>2, <2>3 DEF Types, Written, Around, Frame, s3
<1>6. CASE \E x \in Exec : Crash(x)
  <2>1. PICK x \in Exec : Crash(x)
    BY <1>6
  <2>2. End(x) /\ UNCHANGED s3 /\ Frame
    BY <2>1 DEF Crash
  <2>3. Control'
    BY <2>2, EndTypes DEF Frame, Types
  <2>4. upsets' \in 0 .. MaxUpsets
    BY <2>1, PipelineAssumption DEF Crash, Types
  <2> QED BY <2>2, <2>3, <2>4 DEF Types, Written, Around, Frame, s3
<1>7. CASE \E i \in Identifier : OptOut(i)
  <2>1. PICK i \in Identifier : OptOut(i)
    BY <1>7
  <2>2. suppressed \subseteq suppressed' /\ suppressed' \subseteq Identifier
    BY <2>1 DEF OptOut, Types, Around
  <2>3. view' \in [Exec -> SUBSET suppressed'] /\ floor' \in [RunId -> SUBSET suppressed']
    BY <2>1, <2>2 DEF OptOut, history, Types, Control, Around
  <2> QED BY <2>1, <2>2, <2>3 DEF OptOut, history, Types, Control, Written, Around, s3
<1>8. CASE NextDay
  <2>1. now' \in 0 .. MaxNow
    BY <1>8, PipelineAssumption DEF NextDay, Types, Around
  <2> QED BY <1>8, <2>1 DEF NextDay, Types, Control, Written, Around, s3, history
<1>9. CASE UNCHANGED vars
  BY <1>9 DEF vars, Types, Control, Written, Around, s3, history
<1> QED BY <1>1, <1>2, <1>3, <1>4, <1>5, <1>6, <1>7, <1>8, <1>9 DEF Next

(* The types imply TypeOK.                                                 *)
LEMMA TypesImplyTypeOK == Types => TypeOK
<1> SUFFICES ASSUME Types PROVE TypeOK
  OBVIOUS
<1>1. ASSUME NEW x \in Exec
      PROVE  /\ \A r \in rows[x] \cup source[x] : IsRow(r)
             /\ view[x] \subseteq Identifier
             /\ step[x] = 0 => key[x] = None /\ rows[x] = {}
  <2>1. rows[x] \cup source[x] \subseteq AnyRow
    BY DEF Types, Control, AnyRow
  <2> QED BY <2>1, RowsAreRows DEF Types, Control, Around
<1>2. ASSUME NEW r \in RunId
      PROVE  /\ \A i \in Steps : \A row \in out[r][i] \cup quarantine[r][i] : IsRow(row)
             /\ \A row \in excluded[r] \cup staged[r] : IsRow(row)
             /\ floor[r] \subseteq suppressed
  <2>1. /\ \A i \in Steps : out[r][i] \cup quarantine[r][i] \subseteq AnyRow
        /\ excluded[r] \cup staged[r] \subseteq AnyRow
    BY DEF Types, Written
  <2> QED BY <2>1, RowsAreRows DEF Types, Around
<1> QED BY <1>1, <1>2 DEF TypeOK, Types, Control, Around

(* The rows of every file, task and execution keep their shape and stay    *)
(* among the lines uploaded.                                               *)
THEOREM TypeCorrect == Spec => []TypeOK
<1>1. Spec => []Types
  BY InitTypes, NextTypes, PTL DEF Spec
<1> QED BY <1>1, TypesImplyTypeOK, PTL
-----------------------------------------------------------------------------
(* A task returns or ends its execution.                                   *)
LEMMA EndMoves ==
  ASSUME Types, NEW x \in Exec, End(x)
  PROVE  Moved(x)
BY DEF Types, Control, End, Moved

LEMMA ReturnMoves ==
  ASSUME Types, NEW x \in Exec, Return(x)
  PROVE  Moved(x)
<1>1. CASE End(x)
  BY <1>1, EndMoves
<1>2. CASE /\ \/ step[x] < 7 /\ step' = [step EXCEPT ![x] = @ + 1]
              \/ UNCHANGED step
           /\ busy' = [busy EXCEPT ![x] = FALSE]
           /\ rows' = [rows EXCEPT ![x] = {}]
           /\ view' = [view EXCEPT ![x] = {}]
           /\ UNCHANGED <<key, source, alone>>
  BY <1>2 DEF Types, Control, Moved
<1> QED BY <1>1, <1>2 DEF Return

LEMMA WriteMoves ==
  ASSUME Types, NEW x \in Exec, NEW kept, NEW rejected, Write(x, kept, rejected)
  PROVE  Moved(x) /\ Frame
BY EndMoves, ReturnMoves DEF Write

LEMMA TaskMoves ==
  ASSUME Types, NEW x \in Exec, Task(x)
  PROVE  /\ Moved(x) /\ Frame /\ busy[x] /\ step[x] \in Steps /\ Run(x) \in RunId
         /\ step[x] = 7 => out' = out
         /\ \E kept : step[x] # 7 => out' = [out EXCEPT ![Run(x)][step[x]] = kept]
<1>1. ASSUME NEW i \in Steps, Working(x, i)
      PROVE  busy[x] /\ step[x] \in Steps /\ Run(x) \in RunId /\ step[x] = i
  BY <1>1, WorkingRows
<1>2. 1 \in Steps /\ 2 \in Steps /\ 3 \in Steps /\ 4 \in Steps /\ 5 \in Steps /\ 6 \in Steps /\ 7 \in Steps
  BY DEF Steps
<1>3. ASSUME NEW kept, NEW rejected, Write(x, kept, rejected)
      PROVE  Moved(x) /\ Frame /\ out' = [out EXCEPT ![Run(x)][step[x]] = kept]
  BY <1>3, WriteMoves DEF Write
<1>4. CASE SchemaValidate(x)
  <2>1. Working(x, 1)
    BY <1>4 DEF SchemaValidate
  <2>2. PICK kept, rejected : Write(x, kept, rejected)
    BY <1>4 DEF SchemaValidate
  <2> QED BY <1>1, <1>2, <1>3, <2>1, <2>2
<1>5. CASE NormalizeRows(x)
  <2>1. Working(x, 2)
    BY <1>5 DEF NormalizeRows
  <2>2. PICK kept, rejected : Write(x, kept, rejected)
    BY <1>5 DEF NormalizeRows
  <2> QED BY <1>1, <1>2, <1>3, <2>1, <2>2
<1>6. CASE Validate(x)
  <2>1. Working(x, 3)
    BY <1>6 DEF Validate
  <2>2. PICK kept, rejected : Write(x, kept, rejected)
    BY <1>6 DEF Validate
  <2> QED BY <1>1, <1>2, <1>3, <2>1, <2>2
<1>7. CASE Dedupe(x)
  <2>1. Working(x, 4)
    BY <1>7 DEF Dedupe
  <2>2. PICK kept, rejected : Write(x, kept, rejected)
    BY <1>7 DEF Dedupe
  <2> QED BY <1>1, <1>2, <1>3, <2>1, <2>2
<1>8. CASE Suppress(x)
  <2>1. Working(x, 5)
    BY <1>8 DEF Suppress
  <2>2. PICK kept : out' = [out EXCEPT ![Run(x)][5] = kept]
    BY <1>8 DEF Suppress
  <2>3. (Return(x) \/ End(x)) /\ Frame
    BY <1>8 DEF Suppress
  <2>4. Moved(x)
    BY <2>3, EndMoves, ReturnMoves
  <2>5. busy[x] /\ step[x] = 5 /\ Run(x) \in RunId
    BY <1>1, <1>2, <2>1
  <2>6. out' = [out EXCEPT ![Run(x)][step[x]] = kept]
    BY <2>2, <2>5
  <2>7. \E new : out' = [out EXCEPT ![Run(x)][step[x]] = new]
    BY <2>6
  <2>8. step[x] # 7 /\ step[x] \in Steps
    BY <1>2, <2>5
  <2> QED BY <2>3, <2>4, <2>5, <2>7, <2>8, Zenon
<1>9. CASE AssignExternalId(x)
  <2>1. Working(x, 6)
    BY <1>9 DEF AssignExternalId
  <2>2. PICK kept, rejected : Write(x, kept, rejected)
    BY <1>9 DEF AssignExternalId
  <2> QED BY <1>1, <1>2, <1>3, <2>1, <2>2
<1>10. CASE WriteStaging(x)
  <2>1. Working(x, 7) /\ Return(x) /\ out' = out /\ Frame
    BY <1>10 DEF WriteStaging
  <2>2. Moved(x)
    BY <2>1, ReturnMoves
  <2> QED BY <1>1, <1>2, <2>1, <2>2
<1> QED BY <1>4, <1>5, <1>6, <1>7, <1>8, <1>9, <1>10 DEF Task

(* What the suppression step and the one after it write is clear.          *)
LEMMA WritesClear ==
  ASSUME Types, NEW x \in Exec, Cleared(x), Task(x), step[x] \in {5, 6}
  PROVE  \E kept : /\ out' = [out EXCEPT ![Run(x)][step[x]] = kept]
                   /\ Clear(kept, floor[Run(x)])
<1>1. CASE step[x] = 5
  <2>1. Suppress(x)
    BY <1>1 DEF Task, SchemaValidate, NormalizeRows, Validate, Dedupe, AssignExternalId,
                WriteStaging, Working
  <2>2. busy[x] /\ 5 \in Steps /\ Working(x, 5)
    BY <2>1 DEF Suppress, Working, Steps
  <2>3. PICK found \in SUBSET rows[x] :
          LET drop == found \cup {r \in rows[x] \ found : InCooldown(r)} IN
            /\ \A r \in rows[x] \ found : ~IsSuppressed(r, view[x]) /\ r.last # BadTime
            /\ out' = [out EXCEPT ![Run(x)][5] = rows[x] \ drop]
    BY <2>1, SuppressWrites
  <2> DEFINE kept == rows[x] \ (found \cup {r \in rows[x] \ found : InCooldown(r)})
  <2>4. floor[Run(x)] \subseteq view[x]
    BY <1>1, <2>2, <2>3 DEF Cleared
  <2>5. rows[x] \subseteq NormalRow
    BY <2>2, WorkingRows DEF InRow, Finite
  <2>6. ASSUME NEW r \in kept
        PROVE  /\ r.phone \notin view[x] /\ r.email \notin view[x]
               /\ r.last = None \/ (r.last \in Nat /\ now - r.last >= Cooldown)
    <3>1. r \in rows[x] \ found /\ ~IsSuppressed(r, view[x]) /\ ~InCooldown(r)
      BY <2>3
    <3>2. r.last \in Nat \cup {None}
      BY <2>3, <2>5, <3>1 DEF NormalRow, LastTime
    <3>3. r.last # None => ~(now - r.last < Cooldown)
      BY <3>1 DEF InCooldown
    <3>4. now \in Nat /\ Cooldown \in Nat
      BY PipelineAssumption DEF Types, Around
    <3> HIDE DEF kept
    <3>5. r.last # None => now - r.last >= Cooldown
      BY <3>2, <3>3, <3>4
    <3> QED BY <3>1, <3>2, <3>5 DEF IsSuppressed
  <2>7. Clear(kept, floor[Run(x)])
    <3> HIDE DEF kept
    <3> QED BY <2>4, <2>6 DEF Clear
  <2> QED BY <1>1, <2>3, <2>7
<1>2. CASE step[x] = 6
  <2>1. AssignExternalId(x)
    BY <1>2 DEF Task, SchemaValidate, NormalizeRows, Validate, Dedupe, Suppress,
                WriteStaging, Working
  <2>2. out' = [out EXCEPT ![Run(x)][step[x]] = rows[x]]
    BY <2>1 DEF AssignExternalId, Write
  <2>3. Clear(rows[x], floor[Run(x)])
    BY <1>2 DEF Cleared
  <2> QED BY <2>2, <2>3
<1> QED BY <1>1, <1>2

(* So a task keeps every execution cleared.                                *)
LEMMA TaskClears ==
  ASSUME Types, ClearInv, NEW x \in Exec, Task(x)
  PROVE  ClearInv'
<1>1. /\ Moved(x) /\ Frame /\ step[x] \in Steps /\ Run(x) \in RunId
      /\ step[x] = 7 => out' = out
      /\ \E kept : step[x] # 7 => out' = [out EXCEPT ![Run(x)][step[x]] = kept]
  BY TaskMoves
<1>2. Cleared(x)
  BY DEF ClearInv
<1>3. step[x] \in {5, 6} => Clear(out'[Run(x)][step[x]], floor[Run(x)])
  <2> SUFFICES ASSUME step[x] \in {5, 6} PROVE Clear(out'[Run(x)][step[x]], floor[Run(x)])
    OBVIOUS
  <2>1. PICK kept : out' = [out EXCEPT ![Run(x)][step[x]] = kept] /\ Clear(kept, floor[Run(x)])
    BY <1>2, WritesClear
  <2>2. out'[Run(x)][step[x]] = kept
    BY <1>1, <2>1 DEF Types, Written
  <2> QED BY <2>1, <2>2
<1>4. ASSUME NEW r \in RunId, NEW i \in Steps, r # Run(x) \/ i # step[x]
      PROVE  out'[r][i] = out[r][i]
  BY <1>1, <1>4 DEF Types, Written
<1>5. 5 \in Steps /\ 6 \in Steps
  BY DEF Steps
<1>6. floor' = floor /\ now' = now
  BY <1>1 DEF Frame
<1>8. ASSUME NEW y \in Exec, y # x PROVE Cleared(y)'
  <2>1. /\ step'[y] = step[y] /\ key'[y] = key[y] /\ busy'[y] = busy[y]
        /\ rows'[y] = rows[y] /\ view'[y] = view[y] /\ Run(y)' = Run(y)
    BY <1>1, <1>8 DEF Moved, Run
  <2>2. Cleared(y)
    BY DEF ClearInv
  <2>3. step[y] # 0 => Run(y) \in RunId
    BY RunsInRunId DEF Types
  <2>4. step[y] \in 0 .. 7
    BY DEF Types, Control
  <2>5. step[y] >= 6 => Clear(out'[Run(y)][5], floor[Run(y)])
    BY <1>3, <1>4, <1>5, <2>2, <2>3, <2>4 DEF Cleared
  <2>6. step[y] = 7 => Clear(out'[Run(y)][6], floor[Run(y)])
    BY <1>3, <1>4, <1>5, <2>2, <2>3, <2>4 DEF Cleared
  <2>7. /\ step[y] = 5 /\ busy[y] => floor[Run(y)] \subseteq view[y]
        /\ step[y] >= 6 => Clear(rows[y], floor[Run(y)])
    BY <2>2 DEF Cleared
  <2> QED BY <1>6, <2>1, <2>5, <2>6, <2>7 DEF Cleared, Clear
<1>9. Cleared(x)'
  <2>1. CASE step'[x] = 0
    BY <2>1 DEF Cleared
  <2>2. CASE /\ step'[x] = step[x] \/ (step'[x] = step[x] + 1 /\ step[x] < 7)
             /\ key'[x] = key[x]
    <3>1. Run(x)' = Run(x)
      BY <2>2 DEF Run
    <3>2. ~busy'[x] /\ rows'[x] = {}
      BY <1>1 DEF Moved
    <3>3. step'[x] >= 6 => Clear(out'[Run(x)][5], floor[Run(x)])
      <4>1. CASE step[x] = 5
        BY <1>3, <4>1
      <4>2. CASE step[x] # 5
        <5>1. out'[Run(x)][5] = out[Run(x)][5]
          BY <1>1, <1>4, <1>5, <4>2
        <5>2. step'[x] >= 6 => step[x] >= 6
          BY <1>1, <2>2, <4>2 DEF Steps
        <5> QED BY <1>2, <5>1, <5>2 DEF Cleared
      <4> QED BY <4>1, <4>2
    <3>4. step'[x] = 7 => Clear(out'[Run(x)][6], floor[Run(x)])
      <4>1. CASE step[x] = 6
        BY <1>3, <4>1
      <4>2. CASE step[x] # 6
        <5>1. out'[Run(x)][6] = out[Run(x)][6]
          BY <1>1, <1>4, <1>5, <4>2
        <5>2. step'[x] = 7 => step[x] = 7
          BY <1>1, <2>2, <4>2 DEF Steps
        <5> QED BY <1>2, <5>1, <5>2 DEF Cleared
      <4> QED BY <4>1, <4>2
    <3> QED BY <1>6, <3>1, <3>2, <3>3, <3>4 DEF Cleared, Clear
  <2> QED BY <1>1, <2>1, <2>2 DEF Moved
<1> QED BY <1>8, <1>9 DEF ClearInv

(* A run id that gets a new floor has no other execution.                  *)
LEMMA StartClears ==
  ASSUME Types, ClearInv, NEW x \in Exec, NEW k \in Key, StartExecution(x, k)
  PROVE  ClearInv'
<1> DEFINE others == {y \in Exec : OnSameRun(y, k)}
<1>1. /\ step' = [step EXCEPT ![x] = 1] /\ key' = [key EXCEPT ![x] = k]
      /\ floor' = IF others = {} THEN [floor EXCEPT ![RunIdOf[k]] = suppressed] ELSE floor
      /\ UNCHANGED <<busy, rows, view, out, now>>
  BY DEF StartExecution, s3
<1>2. ASSUME NEW y \in Exec PROVE Cleared(y)'
  <2>1. CASE y = x
    BY <1>1, <2>1 DEF Types, Control, Cleared
  <2>2. CASE y # x
    <3>1. step'[y] = step[y] /\ key'[y] = key[y] /\ Run(y)' = Run(y)
      BY <1>1, <2>2 DEF Types, Control, Run
    <3>2. step[y] # 0 => Run(y) \in RunId /\ key[y] # None
      BY RunsInRunId, PipelineAssumption DEF Types
    <3>3. step[y] # 0 => floor'[Run(y)] = floor[Run(y)]
      <4>1. CASE step[y] # 0 /\ Run(y) = RunIdOf[k]
        <5>1. others # {}
          BY <3>2, <4>1 DEF OnSameRun
        <5> QED BY <1>1, <5>1
      <4>2. CASE step[y] # 0 /\ Run(y) # RunIdOf[k]
        <5>1. RunIdOf[k] \in RunId
          BY PipelineAssumption
        <5> HIDE DEF others
        <5> QED BY <1>1, <3>2, <4>2, <5>1 DEF Types, Around
      <4> QED BY <4>1, <4>2
    <3>4. Cleared(y)
      BY DEF ClearInv
    <3> HIDE DEF others
    <3> QED BY <1>1, <3>1, <3>3, <3>4 DEF Cleared, Clear
  <2> QED BY <2>1, <2>2
<1> QED BY <1>2 DEF ClearInv

(* The suppression step sees the whole log, later steps read what is clear.*)
LEMMA ReadClears ==
  ASSUME Types, ClearInv, NEW x \in Exec, ReadInput(x)
  PROVE  ClearInv'
<1>1. /\ step[x] # 0 /\ UNCHANGED <<step, key, out, now, floor>>
      /\ rows' = [rows EXCEPT ![x] = IF step[x] = 1 THEN files[key[x]] ELSE out[Run(x)][step[x] - 1]]
      /\ busy' = [busy EXCEPT ![x] = TRUE]
      /\ view' = [view EXCEPT ![x] = IF step[x] = 5 THEN suppressed ELSE {}]
  BY DEF ReadInput, s3
<1>2. ASSUME NEW y \in Exec PROVE Cleared(y)'
  <2>1. Cleared(y)
    BY DEF ClearInv
  <2>2. CASE y # x
    <3>1. rows'[y] = rows[y] /\ busy'[y] = busy[y] /\ view'[y] = view[y] /\ Run(y)' = Run(y)
      BY <1>1, <2>2 DEF Types, Control, Run
    <3> QED BY <1>1, <2>1, <3>1 DEF Cleared, Clear
  <2>3. CASE y = x
    <3>1. /\ rows'[x] = IF step[x] = 1 THEN files[key[x]] ELSE out[Run(x)][step[x] - 1]
          /\ view'[x] = IF step[x] = 5 THEN suppressed ELSE {}
          /\ Run(x)' = Run(x)
      BY <1>1 DEF Types, Control, Run
    <3>2. floor[Run(x)] \subseteq suppressed /\ step[x] \in 1 .. 7
      BY <1>1, RunsInRunId DEF Types, Around
    <3>3. step[x] >= 6 => Clear(rows'[x], floor[Run(x)])
      BY <2>1, <2>3, <3>1, <3>2 DEF Cleared
    <3>4. step[x] = 5 => floor[Run(x)] \subseteq view'[x]
      BY <3>1, <3>2
    <3> QED BY <1>1, <2>1, <2>3, <3>1, <3>3, <3>4 DEF Cleared, Clear
  <2> QED BY <2>2, <2>3
<1> QED BY <1>2 DEF ClearInv

(* An execution that ends clears the way for nobody.                       *)
LEMMA EndClears ==
  ASSUME Types, ClearInv, NEW x \in Exec, End(x), UNCHANGED <<out, floor, now>>
  PROVE  ClearInv'
<1>1. Moved(x) /\ step'[x] = 0
  BY EndMoves DEF End, Types, Control
<1>2. ASSUME NEW y \in Exec PROVE Cleared(y)'
  <2>1. CASE y = x
    BY <1>1, <2>1 DEF Cleared
  <2>2. CASE y # x
    <3>1. /\ step'[y] = step[y] /\ busy'[y] = busy[y] /\ rows'[y] = rows[y] /\ view'[y] = view[y]
          /\ Run(y)' = Run(y)
      BY <1>1, <2>2 DEF Moved, Run
    <3>2. Cleared(y)
      BY DEF ClearInv
    <3> QED BY <3>1, <3>2 DEF Cleared, Clear
  <2> QED BY <2>1, <2>2
<1> QED BY <1>2 DEF ClearInv

(* Every step keeps the executions cleared.                                *)
LEMMA NextClears == Types /\ ClearInv /\ [Next]_vars => ClearInv'
<1> SUFFICES ASSUME Types, ClearInv, [Next]_vars PROVE ClearInv'
  OBVIOUS
<1>1. ASSUME UNCHANGED <<step, key, busy, rows, view, out, floor, now>> PROVE ClearInv'
  BY <1>1 DEF ClearInv, Cleared, Clear, Run
<1>2. CASE \E k \in Key : UploadFile(k)
  BY <1>1, <1>2 DEF UploadFile, s3, history
<1>3. CASE \E k \in Key : \E x \in Exec : StartExecution(x, k)
  BY <1>3, StartClears
<1>4. CASE \E x \in Exec : ReadInput(x)
  BY <1>4, ReadClears
<1>5. CASE \E x \in Exec : Task(x)
  BY <1>5, TaskClears
<1>6. CASE \E x \in Exec : Raise(x)
  BY <1>6, EndClears DEF Raise, Frame, s3
<1>7. CASE \E x \in Exec : Crash(x)
  BY <1>7, EndClears DEF Crash, Frame, s3
<1>8. CASE \E i \in Identifier : OptOut(i)
  BY <1>1, <1>8 DEF OptOut, s3, history
<1>9. CASE NextDay
  <2>1. now \in Nat /\ now' = now + 1
    BY <1>9, PipelineAssumption DEF NextDay, Types, Around
  <2> DEFINE ClearTomorrow(F, S) ==
        \A r \in F : /\ r.phone \notin S /\ r.email \notin S
                     /\ r.last = None \/ (r.last \in Nat /\ now' - r.last >= Cooldown)
  <2>2. ASSUME NEW F, NEW S, Clear(F, S)
        PROVE  ClearTomorrow(F, S)
    <3> SUFFICES ASSUME NEW r \in F
                 PROVE  /\ r.phone \notin S /\ r.email \notin S
                        /\ r.last = None \/ (r.last \in Nat /\ now' - r.last >= Cooldown)
      OBVIOUS
    <3>1. /\ r.phone \notin S /\ r.email \notin S
          /\ r.last = None \/ (r.last \in Nat /\ now - r.last >= Cooldown)
      BY <2>2 DEF Clear
    <3>2. r.last \in Nat /\ now - r.last >= Cooldown => now' - r.last >= Cooldown
      BY <2>1, PipelineAssumption
    <3> QED BY <3>1, <3>2
  <2>3. UNCHANGED <<step, key, busy, rows, view, out, floor>>
    BY <1>9 DEF NextDay, s3, history
  <2>4. ASSUME NEW y \in Exec PROVE Cleared(y)'
    <3>1. Cleared(y)
      BY DEF ClearInv
    <3>2. /\ step[y] = 5 /\ busy[y] => floor[Run(y)] \subseteq view[y]
          /\ step[y] >= 6 => Clear(out[Run(y)][5], floor[Run(y)])
          /\ step[y] = 7 => Clear(out[Run(y)][6], floor[Run(y)])
          /\ step[y] >= 6 => Clear(rows[y], floor[Run(y)])
      BY <3>1 DEF Cleared
    <3>3. step'[y] = step[y] /\ busy'[y] = busy[y] /\ Run(y)' = Run(y)
      BY <2>3 DEF Run
    <3> HIDE DEF ClearTomorrow
    <3>4. /\ step[y] >= 6 => ClearTomorrow(out[Run(y)][5], floor[Run(y)])
          /\ step[y] = 7 => ClearTomorrow(out[Run(y)][6], floor[Run(y)])
          /\ step[y] >= 6 => ClearTomorrow(rows[y], floor[Run(y)])
      BY <2>2, <3>2
    <3>5. /\ step'[y] >= 6 => Clear(out[Run(y)][5], floor[Run(y)])'
          /\ step'[y] = 7 => Clear(out[Run(y)][6], floor[Run(y)])'
          /\ step'[y] >= 6 => Clear(rows[y], floor[Run(y)])'
      BY <2>3, <3>3, <3>4 DEF Clear, ClearTomorrow
    <3> QED BY <2>3, <3>2, <3>3, <3>5 DEF Cleared
  <2> QED BY <2>4 DEF ClearInv
<1>10. CASE UNCHANGED vars
  BY <1>1, <1>10 DEF vars, s3, history
<1> QED BY <1>2, <1>3, <1>4, <1>5, <1>6, <1>7, <1>8, <1>9, <1>10 DEF Next

(* Whatever executions share a run id and repeat its steps, no batch is    *)
(* staged with an identifier that was suppressed when they began, or with  *)
(* somebody in the cooldown.                                               *)
THEOREM StagedBatchesAreClear == Spec => []StagedIsClear
<1>1. Init => ClearInv
  BY DEF Init, ClearInv, Cleared
<1>2. Types /\ ClearInv => StagedIsClear
  <2> SUFFICES ASSUME Types, ClearInv, NEW x \in Exec, NEW r \in ToStage(x)
               PROVE  /\ {r.phone, r.email} \cap floor[Run(x)] = {}
                      /\ r.last # None => now - r.last >= Cooldown
    BY DEF StagedIsClear
  <2>1. r \in rows[x] /\ step[x] = 7
    BY DEF ToStage, Working
  <2>2. Clear(rows[x], floor[Run(x)])
    BY <2>1 DEF ClearInv, Cleared
  <2> QED BY <2>1, <2>2 DEF Clear
<1> QED BY <1>1, <1>2, InitTypes, NextTypes, NextClears, PTL DEF Spec
-----------------------------------------------------------------------------
(* Among finitely many rows there is one that no other beats.              *)
LEMMA Unbeaten ==
  ASSUME NEW E, IsFiniteSet(E), E # {}, \A r \in E : r.at \in Nat /\ r.n \in Nat
  PROVE  \E b \in E : \A s \in E : ~Beats(s, b)
<1> DEFINE Above(r) == {s \in E : Beats(s, r)}
           R == OpToRel(<, Nat)
           T == {Cardinality(Above(r)) : r \in E}
<1>1. \A r \in E : IsFiniteSet(Above(r)) /\ Cardinality(Above(r)) \in Nat
  BY FS_Subset, FS_CardinalityType
<1>2. T \subseteq Nat /\ T # {}
  <2> HIDE DEF Above
  <2> QED BY <1>1
<1>3. PICK m \in T : \A k \in T : ~ (<<k, m>> \in R)
  <2> HIDE DEF T
  <2> QED BY <1>2, WFMin, NatLessThanWellFounded
<1>4. PICK b \in E : m = Cardinality(Above(b))
  BY <1>3
<1>5. ASSUME NEW s \in E, Beats(s, b) PROVE FALSE
  <2>1. \A t \in E : Beats(t, s) => Beats(t, b)
    BY <1>5 DEF Beats
  <2>2. s \in Above(b) /\ s \notin Above(s)
    BY <1>5 DEF Beats
  <2>3. Above(s) \in SUBSET Above(b) /\ Above(s) # Above(b)
    BY <2>1, <2>2
  <2>4. IsFiniteSet(Above(b))
    BY <1>1
  <2>5. Cardinality(Above(s)) <= Cardinality(Above(b)) /\ Cardinality(Above(s)) # Cardinality(Above(b))
    <3> HIDE DEF Above
    <3> QED BY <2>3, <2>4, FS_Subset
  <2>6. Cardinality(Above(s)) \in T /\ Cardinality(Above(s)) \in Nat /\ Cardinality(Above(b)) \in Nat
    BY <1>1
  <2>7. Cardinality(Above(s)) < m
    <3> HIDE DEF Above
    <3> QED BY <1>4, <2>5, <2>6
  <2>8. <<Cardinality(Above(s)), m>> \in R
    <3> HIDE DEF Above
    <3> QED BY <1>4, <2>6, <2>7 DEF OpToRel
  <2> QED BY <1>3, <2>6, <2>8
<1> QED BY <1>5

(* Lines are numbered.                                                     *)
LEMMA Numbered == LineNo \subseteq Nat
<1>1. \A r \in Row : r \in FileLine
  BY PipelineAssumption DEF Row
<1> QED BY <1>1 DEF LineNo, FileLine

(* A line that a row of F stands for at step i is rejected, or has a kept  *)
(* row that stands for it at the next step.                                *)
Carries(i, F, kept, rejected) ==
  \A f \in FileRow : \A g \in F :
    (IF i = 1 THEN g = f ELSE f.at \in Nat /\ StandsAt(i, g, f)) =>
      \/ i <= 3 /\ f.n \in Lines(rejected)
      \/ f.at \in Nat /\ \E h \in kept : StandsAt(i + 1, h, f)

LEMMA SchemaValidateCarries ==
  ASSUME NEW F \in SUBSET FileRow
  PROVE  LET valid == {r \in F : WellFormed(r)} IN Carries(1, F, valid, F \ valid)
BY DEF Carries, WellFormed, Lines, StandsAt

LEMMA NormalizeRowsCarries ==
  ASSUME NEW F \in SUBSET ValidRow
  PROVE  LET kept == {r \in F : Identified(r)} IN
           Carries(2, F, {Normalized(r) : r \in kept}, F \ kept)
<1> DEFINE kept == {r \in F : Identified(r)}
           new == {Normalized(r) : r \in kept}
<1> SUFFICES ASSUME NEW f \in FileRow, f \in F, f.at \in Nat
             PROVE  f.n \in Lines(F \ kept) \/ \E h \in new : StandsAt(3, h, f)
  BY DEF Carries, StandsAt
<1>1. CASE f \in kept
  <2>1. Normalized(f) \in new
    BY <1>1
  <2>2. StandsAt(3, Normalized(f), f)
    <3>1. Normalized(f).phone = Normalize[f.phone] /\ Normalized(f).email = Normalize[f.email]
          /\ Normalized(f).at = f.at /\ Normalized(f).n = f.n
      BY NormalizedRow
    <3> QED BY <3>1 DEF StandsAt, StandsFor
  <2> QED BY <2>1, <2>2
<1>2. CASE f \notin kept
  BY <1>2 DEF Lines
<1> QED BY <1>1, <1>2

LEMMA ValidateCarries ==
  ASSUME NEW F \in SUBSET NormalRow, NEW dead
  PROVE  LET lost == {r \in F : Undeliverable(r, dead) /\ r.phone = None}
             new == {IF Undeliverable(r, dead) THEN [r EXCEPT !.email = None] ELSE r :
                       r \in F \ lost} IN
           Carries(3, F, new, lost)
<1> DEFINE lost == {r \in F : Undeliverable(r, dead) /\ r.phone = None}
           Kept(r) == IF Undeliverable(r, dead) THEN [r EXCEPT !.email = None] ELSE r
           new == {Kept(r) : r \in F \ lost}
<1> SUFFICES ASSUME NEW f \in FileRow, NEW g \in F, f.at \in Nat, StandsAt(3, g, f)
             PROVE  f.n \in Lines(lost) \/ \E h \in new : StandsAt(4, h, f)
  BY DEF Carries
<1>1. StandsFor(g, f) /\ g.n = f.n
  BY DEF StandsAt
<1>2. CASE g \in lost
  BY <1>1, <1>2 DEF Lines
<1>3. CASE g \notin lost
  <2>1. Kept(g) \in new
    BY <1>3
  <2>2. Kept(g).phone = g.phone /\ Kept(g).email \in {g.email, None} /\ Kept(g).at = g.at /\ Kept(g).n = g.n
    BY DEF NormalRow
  <2>3. StandsAt(4, Kept(g), f)
    <3> HIDE DEF Kept
    <3> QED BY <1>1, <2>2 DEF StandsAt, StandsFor
  <2> HIDE DEF new, Kept
  <2> QED BY <2>1, <2>3
<1> QED BY <1>2, <1>3

LEMMA DedupeCarries ==
  ASSUME NEW F \in Finite(NormalRow)
  PROVE  LET best == {r \in F : \A s \in F : NormalizedKey(s) = NormalizedKey(r) => ~Beats(s, r)} IN
           Carries(4, F, best, {})
<1> DEFINE best == {r \in F : \A s \in F : NormalizedKey(s) = NormalizedKey(r) => ~Beats(s, r)}
<1> SUFFICES ASSUME NEW f \in FileRow, NEW g \in F, f.at \in Nat, StandsAt(4, g, f)
             PROVE  \E h \in best : StandsAt(5, h, f)
  BY DEF Carries
<1> DEFINE E == {s \in F : NormalizedKey(s) = NormalizedKey(g)}
<1>1. \A r \in F : r.at \in Nat /\ r.n \in Nat
  BY Numbered DEF Finite, NormalRow
<1>2. IsFiniteSet(E) /\ E # {} /\ g \in E
  BY FS_Subset DEF Finite
<1>3. PICK b \in E : \A s \in E : ~Beats(s, b)
  <2>1. \A r \in E : r.at \in Nat /\ r.n \in Nat
    BY <1>1
  <2> HIDE DEF E
  <2> QED BY <1>2, <2>1, Unbeaten
<1>4. b \in best
  BY <1>3
<1>5. b.phone = g.phone /\ b.email = g.email
  BY DEF NormalizedKey
<1>6. b.at >= g.at
  <2>1. ~Beats(g, b)
    BY <1>2, <1>3
  <2>2. b.at \in Nat /\ g.at \in Nat
    BY <1>1
  <2> QED BY <2>1, <2>2 DEF Beats
<1>7. b.at >= f.at
  BY <1>1, <1>6 DEF StandsAt, StandsFor
<1>8. StandsAt(5, b, f)
  BY <1>5, <1>7 DEF StandsAt, StandsFor
<1> QED BY <1>4, <1>8

LEMMA AssignExternalIdCarries ==
  ASSUME NEW F
  PROVE  Carries(6, F, F, {})
BY DEF Carries, StandsAt

(* What is not changed goes on accounting.                                 *)
LEMMA SameAccounts ==
  ASSUME NEW src, NEW q, NEW q2, NEW exc, NEW exc2, NEW i \in Nat, NEW F,
         Accounts(src, q, exc, i, F),
         \A j \in 1 .. 3 : j < i => q2[j] = q[j], i > 5 => exc2 = exc
  PROVE  Accounts(src, q2, exc2, i, F)
<1> SUFFICES ASSUME NEW f \in src
             PROVE  \/ \E j \in 1 .. 3 : j < i /\ f.n \in Lines(q2[j])
                    \/ /\ f.at \in Nat
                       /\ \E g \in F \cup (IF i > 5 THEN exc2 ELSE {}) : StandsAt(i, g, f)
  BY DEF Accounts
<1> QED BY DEF Accounts

(* A step that carries the rows keeps the account.                         *)
LEMMA CarriedAccounts ==
  ASSUME NEW src \in SUBSET FileRow, NEW q, NEW q2, NEW exc, NEW i \in {1, 2, 3, 4, 6}, NEW F,
         NEW kept, NEW rejected,
         i = 1 => F = src, i # 1 => Accounts(src, q, exc, i, F),
         Carries(i, F, kept, rejected),
         \A j \in 1 .. 3 : j < i => q2[j] = q[j],
         rejected # {} => q2[i] = rejected
  PROVE  Accounts(src, q2, exc, i + 1, kept)
<1> SUFFICES ASSUME NEW f \in src
             PROVE  \/ \E j \in 1 .. 3 : j < i + 1 /\ f.n \in Lines(q2[j])
                    \/ /\ f.at \in Nat
                       /\ \E g \in kept \cup (IF i + 1 > 5 THEN exc ELSE {}) : StandsAt(i + 1, g, f)
  BY DEF Accounts
<1>1. CASE \E j \in 1 .. 3 : j < i /\ f.n \in Lines(q[j])
  BY <1>1
<1>2. ASSUME NEW g \in F, IF i = 1 THEN g = f ELSE f.at \in Nat /\ StandsAt(i, g, f)
      PROVE  \/ \E j \in 1 .. 3 : j < i + 1 /\ f.n \in Lines(q2[j])
             \/ f.at \in Nat /\ \E h \in kept : StandsAt(i + 1, h, f)
  <2>1. CASE i <= 3 /\ f.n \in Lines(rejected)
    <3>1. q2[i] = rejected
      BY <2>1 DEF Lines
    <3> QED BY <2>1, <3>1
  <2>2. CASE f.at \in Nat /\ \E h \in kept : StandsAt(i + 1, h, f)
    BY <2>2
  <2>3. \/ i <= 3 /\ f.n \in Lines(rejected)
        \/ f.at \in Nat /\ \E h \in kept : StandsAt(i + 1, h, f)
    BY <1>2 DEF Carries
  <2> QED BY <2>1, <2>2, <2>3
<1>3. CASE i # 1 /\ f.at \in Nat /\ \E g \in F \cup (IF i > 5 THEN exc ELSE {}) : StandsAt(i, g, f)
  <2>1. PICK g \in F \cup (IF i > 5 THEN exc ELSE {}) : StandsAt(i, g, f)
    BY <1>3
  <2>2. CASE g \in F
    BY <1>2, <1>3, <2>1, <2>2
  <2>3. CASE g \notin F
    <3>1. i = 6 /\ g \in exc
      BY <2>1, <2>3
    <3>2. StandsAt(i + 1, g, f)
      BY <2>1, <3>1 DEF StandsAt
    <3> QED BY <1>3, <3>1, <3>2
  <2> QED BY <2>2, <2>3
<1>4. CASE i = 1
  BY <1>2, <1>4
<1> QED BY <1>1, <1>3, <1>4 DEF Accounts

(* What a task that goes on has done to the account of its own run.        *)
Advanced(x) ==
  step'[x] = step[x] + 1 =>
    Accounts(source[x], quarantine'[Run(x)], excluded'[Run(x)], step[x] + 1, out'[Run(x)][step[x]])

(* A task writes objects of its own step only.                             *)
OwnObjects(x) ==
  /\ \A r \in RunId : \A j \in Steps : (r # Run(x) \/ j # step[x]) =>
       quarantine'[r][j] = quarantine[r][j] /\ out'[r][j] = out[r][j]
  /\ \A r \in RunId : (r # Run(x) \/ step[x] # 5) => excluded'[r] = excluded[r]

(* write_ndjson and write_quarantine.                                      *)
LEMMA WriteOwns ==
  ASSUME Types, NEW x \in Exec, NEW kept, NEW rejected, step[x] # 0, Write(x, kept, rejected)
  PROVE  OwnObjects(x)
<1>1. Run(x) \in RunId /\ step[x] \in Steps
  BY RunsInRunId DEF Types
<1>2. out' = [out EXCEPT ![Run(x)][step[x]] = kept] /\ excluded' = excluded
  BY DEF Write
<1>3. quarantine' = quarantine \/ quarantine' = [quarantine EXCEPT ![Run(x)][step[x]] = rejected]
  BY DEF Write, WriteQuarantine
<1>4. \A r \in RunId : \A j \in Steps : (r # Run(x) \/ j # step[x]) => out'[r][j] = out[r][j]
  BY <1>1, <1>2 DEF Types, Written
<1>5. \A r \in RunId : \A j \in Steps :
        (r # Run(x) \/ j # step[x]) => quarantine'[r][j] = quarantine[r][j]
  <2>1. CASE quarantine' = quarantine
    BY <2>1
  <2>2. CASE quarantine' = [quarantine EXCEPT ![Run(x)][step[x]] = rejected]
    BY <1>1, <2>2 DEF Types, Written
  <2> QED BY <1>3, <2>1, <2>2
<1> QED BY <1>2, <1>4, <1>5 DEF OwnObjects

LEMMA WriteAccounts ==
  ASSUME Types, NEW x \in Exec, NEW kept, NEW rejected, step[x] \in {1, 2, 3, 4, 6}, busy[x],
         Write(x, kept, rejected), Carries(step[x], rows[x], kept, rejected),
         Accounted(x), alone[x]
  PROVE  Advanced(x)
<1>1. Run(x) \in RunId /\ step[x] \in Steps /\ source[x] \in SUBSET FileRow
  BY RunsInRunId DEF Types, Control
<1>2. out' = [out EXCEPT ![Run(x)][step[x]] = kept] /\ excluded' = excluded
  BY DEF Write
<1>3. out'[Run(x)][step[x]] = kept
  BY <1>1, <1>2 DEF Types, Written
<1>4. OwnObjects(x)
  BY WriteOwns
<1>5. ASSUME step'[x] = step[x] + 1
      PROVE  Accounts(source[x], quarantine'[Run(x)], excluded'[Run(x)], step[x] + 1, kept)
  <2>1. step'[x] # 0
    BY <1>1, <1>5 DEF Steps
  <2>2. ~End(x)
    BY <2>1 DEF End, Types, Control
  <2>3. WriteQuarantine(x, rejected)
    BY <2>2 DEF Write
  <2>4. rejected # {} => quarantine'[Run(x)][step[x]] = rejected
    BY <1>1, <2>3 DEF WriteQuarantine, Types, Written
  <2>5. IF step[x] = 1 THEN rows[x] = source[x]
        ELSE Accounts(source[x], quarantine[Run(x)], excluded[Run(x)], step[x], rows[x])
    BY DEF Accounted, AccountsNow
  <2>6. \A j \in 1 .. 3 : j < step[x] => quarantine'[Run(x)][j] = quarantine[Run(x)][j]
    BY <1>1, <1>4 DEF OwnObjects, Steps
  <2>7. Accounts(source[x], quarantine'[Run(x)], excluded[Run(x)], step[x] + 1, kept)
    <3> DEFINE src == source[x]
               q == quarantine[Run(x)]
               q2 == quarantine'[Run(x)]
               exc == excluded[Run(x)]
               i == step[x]
               F == rows[x]
    <3>1. src \in SUBSET FileRow /\ i \in {1, 2, 3, 4, 6}
      BY <1>1
    <3>2. (i = 1 => F = src) /\ (i # 1 => Accounts(src, q, exc, i, F))
      BY <2>5
    <3>3. Carries(i, F, kept, rejected)
      OBVIOUS
    <3>4. (\A j \in 1 .. 3 : j < i => q2[j] = q[j]) /\ (rejected # {} => q2[i] = rejected)
      BY <2>4, <2>6
    <3> HIDE DEF src, q, q2, exc, i, F
    <3>5. Accounts(src, q2, exc, i + 1, kept)
      BY ONLY <3>1, <3>2, <3>3, <3>4, CarriedAccounts, Zenon
    <3> QED BY <3>5 DEF src, q2, exc, i
  <2> QED BY <1>2, <2>7
<1> QED BY <1>3, <1>5 DEF Advanced

(* Every task does, the suppression step by its list of excluded rows.     *)
LEMMA TaskAccounts ==
  ASSUME Types, NEW x \in Exec, Task(x), Accounted(x), alone[x]
  PROVE  Advanced(x)
<1>1. 1 \in Steps /\ 2 \in Steps /\ 3 \in Steps /\ 4 \in Steps /\ 5 \in Steps /\ 6 \in Steps /\ 7 \in Steps
  BY DEF Steps
<1>2. ASSUME NEW i \in Steps, Working(x, i)
      PROVE  step[x] = i /\ busy[x] /\ rows[x] \in Finite(InRow(i))
  BY <1>2, WorkingRows
<1>3. CASE SchemaValidate(x)
  <2> DEFINE valid == {r \in rows[x] : WellFormed(r)}
  <2>1. Write(x, valid, rows[x] \ valid)
    BY <1>3, SchemaValidateWrites
  <2>2. Working(x, 1)
    BY <1>3 DEF SchemaValidate
  <2>3. step[x] = 1 /\ busy[x] /\ rows[x] \in SUBSET FileRow
    BY <1>1, <1>2, <2>2 DEF Finite, InRow
  <2>4. Carries(1, rows[x], valid, rows[x] \ valid)
    BY <2>3, SchemaValidateCarries
  <2> HIDE DEF valid
  <2> QED BY <2>1, <2>3, <2>4, WriteAccounts
<1>4. CASE NormalizeRows(x)
  <2> DEFINE kept == {r \in rows[x] : Identified(r)}
             new == {Normalized(r) : r \in kept}
  <2>1. Write(x, new, rows[x] \ kept)
    BY <1>4, NormalizeRowsWrites
  <2>2. Working(x, 2)
    BY <1>4 DEF NormalizeRows
  <2>3. step[x] = 2 /\ busy[x] /\ rows[x] \in SUBSET ValidRow
    BY <1>1, <1>2, <2>2 DEF Finite, InRow
  <2>4. Carries(2, rows[x], new, rows[x] \ kept)
    BY <2>3, NormalizeRowsCarries
  <2> HIDE DEF new, kept
  <2> QED BY <2>1, <2>3, <2>4, WriteAccounts
<1>5. CASE Validate(x)
  <2>1. PICK dead :
           LET lost == {r \in rows[x] : Undeliverable(r, dead) /\ r.phone = None}
               new == {IF Undeliverable(r, dead) THEN [r EXCEPT !.email = None] ELSE r :
                         r \in rows[x] \ lost} IN
             Write(x, new, lost)
    BY <1>5, ValidateWrites
  <2> DEFINE lost == {r \in rows[x] : Undeliverable(r, dead) /\ r.phone = None}
             new == {IF Undeliverable(r, dead) THEN [r EXCEPT !.email = None] ELSE r :
                       r \in rows[x] \ lost}
  <2>2. Working(x, 3)
    BY <1>5 DEF Validate
  <2>3. step[x] = 3 /\ busy[x] /\ rows[x] \in SUBSET NormalRow
    BY <1>1, <1>2, <2>2 DEF Finite, InRow
  <2>4. Carries(3, rows[x], new, lost)
    BY <2>3, ValidateCarries
  <2>5. Write(x, new, lost)
    BY <2>1
  <2> HIDE DEF new, lost
  <2> QED BY <2>3, <2>4, <2>5, WriteAccounts
<1>6. CASE Dedupe(x)
  <2> DEFINE best == {r \in rows[x] : \A s \in rows[x] :
                        NormalizedKey(s) = NormalizedKey(r) => ~Beats(s, r)}
  <2>1. Write(x, best, {})
    BY <1>6, DedupeWrites
  <2>2. Working(x, 4)
    BY <1>6 DEF Dedupe
  <2>3. step[x] = 4 /\ busy[x] /\ rows[x] \in Finite(NormalRow)
    BY <1>1, <1>2, <2>2 DEF InRow
  <2>4. Carries(4, rows[x], best, {})
    BY <2>3, DedupeCarries
  <2> HIDE DEF best
  <2> QED BY <2>1, <2>3, <2>4, WriteAccounts
<1>7. CASE Suppress(x)
  <2>1. Working(x, 5)
    BY <1>7 DEF Suppress
  <2>2. step[x] = 5 /\ busy[x] /\ Run(x) \in RunId
    BY <1>1, <1>2, <2>1, RunsInRunId DEF Types
  <2>3. PICK found \in SUBSET rows[x] :
          LET drop == found \cup {r \in rows[x] \ found : InCooldown(r)} IN
            /\ out' = [out EXCEPT ![Run(x)][5] = rows[x] \ drop]
            /\ \/ excluded' = [excluded EXCEPT ![Run(x)] = drop] /\ Return(x)
               \/ upsets < MaxUpsets /\ upsets' = upsets + 1 /\ End(x) /\ UNCHANGED excluded
    BY <1>7, SuppressWrites
  <2> DEFINE drop == found \cup {r \in rows[x] \ found : InCooldown(r)}
             kept == rows[x] \ drop
  <2> SUFFICES ASSUME step'[x] = step[x] + 1
               PROVE  Accounts(source[x], quarantine'[Run(x)], excluded'[Run(x)], 6, out'[Run(x)][5])
    BY <2>2 DEF Advanced
  <2>4. ~End(x)
    BY <2>2 DEF End, Types, Control
  <2>5. out'[Run(x)][5] = kept /\ excluded'[Run(x)] = drop
    BY <1>1, <2>2, <2>3, <2>4 DEF Types, Written
  <2>6. quarantine' = quarantine
    BY <1>7 DEF Suppress
  <2>7. Accounts(source[x], quarantine[Run(x)], excluded[Run(x)], 5, rows[x])
    BY <2>2 DEF Accounted, AccountsNow
  <2>8. Accounts(source[x], quarantine[Run(x)], drop, 6, kept)
    <3> SUFFICES ASSUME NEW f \in source[x]
                 PROVE  \/ \E j \in 1 .. 3 : j < 6 /\ f.n \in Lines(quarantine[Run(x)][j])
                        \/ f.at \in Nat /\ \E g \in kept \cup drop : StandsAt(6, g, f)
      BY DEF Accounts
    <3>1. kept \cup drop = rows[x]
      OBVIOUS
    <3> HIDE DEF kept, drop
    <3>2. \/ \E j \in 1 .. 3 : j < 5 /\ f.n \in Lines(quarantine[Run(x)][j])
          \/ f.at \in Nat /\ \E g \in rows[x] \cup {} : StandsAt(5, g, f)
      BY <2>7 DEF Accounts
    <3>3. \A g : StandsAt(5, g, f) => StandsAt(6, g, f)
      BY DEF StandsAt
    <3> QED BY <3>1, <3>2, <3>3
  <2> HIDE DEF kept, drop
  <2> QED BY <2>5, <2>6, <2>8
<1>8. CASE AssignExternalId(x)
  <2>1. Write(x, rows[x], {})
    BY <1>8, AssignExternalIdWrites
  <2>2. Working(x, 6)
    BY <1>8 DEF AssignExternalId
  <2>3. step[x] = 6 /\ busy[x]
    BY <1>1, <1>2, <2>2
  <2>4. Carries(6, rows[x], rows[x], {})
    BY AssignExternalIdCarries
  <2> QED BY <2>1, <2>3, <2>4, WriteAccounts
<1>9. CASE WriteStaging(x)
  <2>1. Working(x, 7)
    BY <1>9 DEF WriteStaging
  <2>2. step[x] = 7
    BY <1>1, <1>2, <2>1
  <2>3. step' \in [Exec -> 0 .. 7]
    BY <1>9, TaskTypes DEF Types, Control
  <2> QED BY <2>2, <2>3 DEF Advanced
<1> QED BY <1>3, <1>4, <1>5, <1>6, <1>7, <1>8, <1>9 DEF Task

(* A task leaves the objects of other runs and steps alone.                *)
LEMMA TaskOwns ==
  ASSUME Types, NEW x \in Exec, Task(x)
  PROVE  OwnObjects(x)
<1>1. step[x] # 0 /\ step[x] \in Steps /\ Run(x) \in RunId
  BY TaskMoves DEF Steps
<1>2. CASE \E kept, rejected : Write(x, kept, rejected)
  BY <1>1, <1>2, WriteOwns
<1>3. CASE Suppress(x)
  <2>1. step[x] = 5 /\ quarantine' = quarantine
    BY <1>3 DEF Suppress, Working
  <2>2. PICK kept : out' = [out EXCEPT ![Run(x)][5] = kept]
    BY <1>3 DEF Suppress
  <2>3. excluded' = excluded \/ \E drop : excluded' = [excluded EXCEPT ![Run(x)] = drop]
    BY <1>3 DEF Suppress
  <2>4. \A r \in RunId : \A j \in Steps : (r # Run(x) \/ j # 5) => out'[r][j] = out[r][j]
    BY <1>1, <2>1, <2>2 DEF Types, Written
  <2>5. \A r \in RunId : r # Run(x) => excluded'[r] = excluded[r]
    BY <1>1, <2>3 DEF Types, Written
  <2> QED BY <2>1, <2>4, <2>5 DEF OwnObjects
<1>4. CASE WriteStaging(x)
  BY <1>4 DEF WriteStaging, OwnObjects
<1>5. SchemaValidate(x) \/ NormalizeRows(x) \/ Validate(x) \/ Dedupe(x) \/ AssignExternalId(x) =>
        \E kept, rejected : Write(x, kept, rejected)
  BY DEF SchemaValidate, NormalizeRows, Validate, Dedupe, AssignExternalId
<1> QED BY <1>2, <1>3, <1>4, <1>5 DEF Task

(* An execution that a step of x leaves alone keeps its account.           *)
LEMMA OthersAccounted ==
  ASSUME Types, AccountInv, NEW x \in Exec, Moved(x), OwnObjects(x) \/ UNCHANGED s3,
         NEW y \in Exec, y # x, step[x] # 0
  PROVE  Accounted(y)'
<1> SUFFICES ASSUME alone'[y] PROVE Accounted(y)'
  BY DEF Accounted
<1>1. /\ step'[y] = step[y] /\ key'[y] = key[y] /\ busy'[y] = busy[y] /\ rows'[y] = rows[y]
      /\ source'[y] = source[y] /\ alone[y] /\ Run(y)' = Run(y)
  BY DEF Moved, Run
<1>2. /\ step[y] # 0 /\ \A z \in Exec : OnSameRun(z, key[y]) => z = y
      /\ step[y] = 1 /\ busy[y] => rows[y] = source[y]
      /\ step[y] > 1 => AccountsNow(y, out[Run(y)][step[y] - 1])
      /\ step[y] > 1 /\ busy[y] => AccountsNow(y, rows[y])
  BY <1>1 DEF AccountInv, Accounted
<1>3. Run(y) \in RunId /\ step[y] \in 1 .. 7
  BY <1>2, RunsInRunId DEF Types
<1>4. Run(x) # Run(y)
  <2>1. key[x] # None
    BY DEF Types, Control
  <2> QED BY <1>2, <2>1 DEF OnSameRun, Run
<1>5. \A z \in Exec : OnSameRun(z, key[y])' => z = y
  <2> SUFFICES ASSUME NEW z \in Exec, key'[z] # None, RunIdOf[key'[z]] = RunIdOf[key'[y]]
               PROVE  z = y
    BY DEF OnSameRun, Run
  <2>1. key'[z] = key[z]
    BY DEF Moved
  <2> QED BY <1>1, <1>2, <2>1 DEF OnSameRun, Run
<1>6. /\ \A j \in Steps : quarantine'[Run(y)][j] = quarantine[Run(y)][j]
                          /\ out'[Run(y)][j] = out[Run(y)][j]
      /\ excluded'[Run(y)] = excluded[Run(y)]
  BY <1>3, <1>4 DEF OwnObjects, s3
<1>7. ASSUME NEW F, AccountsNow(y, F)
      PROVE  Accounts(source[y], quarantine'[Run(y)], excluded'[Run(y)], step[y], F)
  <2>1. \A j \in 1 .. 3 : quarantine'[Run(y)][j] = quarantine[Run(y)][j]
    BY <1>6 DEF Steps
  <2> QED BY <1>3, <1>6, <1>7, <2>1, SameAccounts DEF AccountsNow
<1>8. step[y] > 1 => out'[Run(y)][step[y] - 1] = out[Run(y)][step[y] - 1]
  BY <1>3, <1>6 DEF Steps
<1>9. /\ step[y] > 1 => Accounts(source[y], quarantine'[Run(y)], excluded'[Run(y)], step[y],
                                 out'[Run(y)][step[y] - 1])
      /\ step[y] > 1 /\ busy[y] =>
           Accounts(source[y], quarantine'[Run(y)], excluded'[Run(y)], step[y], rows[y])
  BY <1>2, <1>7, <1>8
<1> QED BY <1>1, <1>2, <1>5, <1>9 DEF Accounted, AccountsNow

(* A task keeps the accounts.                                              *)
LEMMA TaskKeepsAccounts ==
  ASSUME Types, AccountInv, NEW x \in Exec, Task(x)
  PROVE  AccountInv'
<1>1. Moved(x) /\ OwnObjects(x) /\ busy[x] /\ step[x] \in Steps /\ step[x] # 0 /\ Run(x) \in RunId
  BY TaskMoves, TaskOwns DEF Steps
<1>2. \A y \in Exec : y # x => Accounted(y)'
  BY <1>1, OthersAccounted
<1>3. Accounted(x)'
  <2> SUFFICES ASSUME alone'[x] PROVE Accounted(x)'
    BY DEF Accounted
  <2>1. /\ step'[x] = step[x] \/ (step'[x] = step[x] + 1 /\ step[x] < 7)
        /\ key'[x] = key[x] /\ source'[x] = source[x] /\ alone[x] /\ ~busy'[x] /\ Run(x)' = Run(x)
    BY <1>1 DEF Moved, Run
  <2>2. /\ \A z \in Exec : OnSameRun(z, key[x]) => z = x
        /\ step[x] > 1 => AccountsNow(x, out[Run(x)][step[x] - 1])
    BY <2>1 DEF AccountInv, Accounted
  <2>3. step'[x] # 0
    BY <1>1, <2>1 DEF Steps
  <2>4. \A z \in Exec : OnSameRun(z, key[x])' => z = x
    <3> SUFFICES ASSUME NEW z \in Exec, z # x, key'[z] # None, RunIdOf[key'[z]] = RunIdOf[key'[x]]
                 PROVE  FALSE
      BY DEF OnSameRun, Run
    <3>1. key'[z] = key[z]
      BY <1>1 DEF Moved
    <3> QED BY <2>1, <2>2, <3>1 DEF OnSameRun, Run
  <2>5. CASE step'[x] = step[x] + 1
    <3>1. Advanced(x)
      BY <2>1, TaskAccounts DEF AccountInv
    <3>2. Accounts(source[x], quarantine'[Run(x)], excluded'[Run(x)], step'[x], out'[Run(x)][step'[x] - 1])
      BY <1>1, <2>5, <3>1 DEF Advanced, Steps
    <3> QED BY <2>1, <2>3, <2>4, <3>2 DEF Accounted, AccountsNow
  <2>6. CASE step'[x] = step[x]
    <3> SUFFICES ASSUME step[x] > 1
                 PROVE  Accounts(source[x], quarantine'[Run(x)], excluded'[Run(x)], step[x],
                                 out'[Run(x)][step[x] - 1])
      BY <2>1, <2>3, <2>4, <2>6 DEF Accounted, AccountsNow
    <3>1. out'[Run(x)][step[x] - 1] = out[Run(x)][step[x] - 1]
      BY <1>1 DEF OwnObjects, Steps
    <3>2. \A j \in 1 .. 3 : j < step[x] => quarantine'[Run(x)][j] = quarantine[Run(x)][j]
      BY <1>1 DEF OwnObjects, Steps
    <3>3. step[x] > 5 => excluded'[Run(x)] = excluded[Run(x)]
      BY <1>1 DEF OwnObjects
    <3>4. step[x] \in Nat
      BY <1>1 DEF Steps
    <3> QED BY <2>2, <3>1, <3>2, <3>3, <3>4, SameAccounts DEF AccountsNow
  <2> QED BY <2>1, <2>5, <2>6
<1> QED BY <1>2, <1>3 DEF AccountInv

(* An execution that ends has no account; the others keep theirs.          *)
LEMMA EndKeepsAccounts ==
  ASSUME Types, AccountInv, NEW x \in Exec, step[x] # 0, End(x), UNCHANGED s3
  PROVE  AccountInv'
<1>1. Moved(x)
  BY EndMoves
<1>2. ~alone'[x]
  BY DEF End, Types, Control
<1>3. ASSUME NEW y \in Exec PROVE Accounted(y)'
  <2>1. CASE y = x
    BY <1>2, <2>1 DEF Accounted
  <2>2. CASE y # x
    BY <1>1, <2>2, OthersAccounted
  <2> QED BY <2>1, <2>2
<1> QED BY <1>3 DEF AccountInv

(* A start takes the files of a run id from whoever had them alone.        *)
LEMMA StartKeepsAccounts ==
  ASSUME Types, AccountInv, NEW x \in Exec, NEW k \in Key, StartExecution(x, k)
  PROVE  AccountInv'
<1> DEFINE others == {y \in Exec : OnSameRun(y, k)}
<1>1. /\ step' = [step EXCEPT ![x] = 1] /\ key' = [key EXCEPT ![x] = k] /\ step[x] = 0
      /\ alone' = [y \in Exec |-> IF y = x THEN others = {} ELSE alone[y] /\ y \notin others]
      /\ UNCHANGED <<busy, rows, out, quarantine, excluded, source>>
  BY DEF StartExecution, s3
<1>2. key' [x] = k /\ step'[x] = 1 /\ ~busy[x] /\ k # None
  BY <1>1, PipelineAssumption DEF Types, Control
<1>3. ASSUME NEW y \in Exec, alone'[y] PROVE Accounted(y)'
  <2>1. CASE y = x
    <3>1. others = {}
      BY <1>1, <1>3, <2>1
    <3>2. \A z \in Exec : OnSameRun(z, key[y])' => z = y
      <4> SUFFICES ASSUME NEW z \in Exec, z # x, key'[z] # None, RunIdOf[key'[z]] = RunIdOf[k]
                   PROVE  FALSE
        BY <1>2, <2>1 DEF OnSameRun, Run
      <4>1. key'[z] = key[z]
        BY <1>1 DEF Types, Control
      <4> QED BY <3>1, <4>1 DEF OnSameRun, Run
    <3> QED BY <1>1, <1>2, <2>1, <3>2 DEF Accounted
  <2>2. CASE y # x
    <3>1. alone[y] /\ ~OnSameRun(y, k)
      BY <1>1, <1>3, <2>2
    <3>2. step'[y] = step[y] /\ key'[y] = key[y] /\ Run(y)' = Run(y)
      BY <1>1, <2>2 DEF Types, Control, Run
    <3>3. /\ step[y] # 0 /\ \A z \in Exec : OnSameRun(z, key[y]) => z = y
          /\ step[y] = 1 /\ busy[y] => rows[y] = source[y]
          /\ step[y] > 1 => AccountsNow(y, out[Run(y)][step[y] - 1])
          /\ step[y] > 1 /\ busy[y] => AccountsNow(y, rows[y])
      BY <3>1 DEF AccountInv, Accounted
    <3>4. \A z \in Exec : OnSameRun(z, key[y])' => z = y
      <4> SUFFICES ASSUME NEW z \in Exec, key'[z] # None, RunIdOf[key'[z]] = RunIdOf[key[y]]
                   PROVE  z = y
        BY <3>2 DEF OnSameRun, Run
      <4>1. CASE z = x
        <5>1. key[y] # None
          BY <3>3 DEF Types, Control
        <5> QED BY <1>2, <3>1, <4>1, <5>1 DEF OnSameRun, Run
      <4>2. CASE z # x
        <5>1. key'[z] = key[z]
          BY <1>1, <4>2 DEF Types, Control
        <5> QED BY <3>3, <5>1 DEF OnSameRun, Run
      <4> QED BY <4>1, <4>2
    <3> HIDE DEF others
    <3> QED BY <1>1, <3>2, <3>3, <3>4 DEF Accounted, AccountsNow
  <2> QED BY <2>1, <2>2
<1>4. \A y \in Exec : Accounted(y)'
  BY <1>3 DEF Accounted
<1> QED BY <1>4 DEF AccountInv

(* What a function reads is what the account is about.                     *)
LEMMA ReadKeepsAccounts ==
  ASSUME Types, AccountInv, NEW x \in Exec, ReadInput(x)
  PROVE  AccountInv'
<1>1. /\ step[x] # 0 /\ UNCHANGED <<step, key, out, quarantine, excluded, alone>>
      /\ rows' = [rows EXCEPT ![x] = IF step[x] = 1 THEN files[key[x]] ELSE out[Run(x)][step[x] - 1]]
      /\ source' = IF step[x] = 1 THEN [source EXCEPT ![x] = files[key[x]]] ELSE source
      /\ busy' = [busy EXCEPT ![x] = TRUE]
  BY DEF ReadInput, s3
<1>2. ASSUME NEW y \in Exec, alone[y] PROVE Accounted(y)'
  <2>1. /\ step[y] # 0 /\ \A z \in Exec : OnSameRun(z, key[y]) => z = y
        /\ step[y] = 1 /\ busy[y] => rows[y] = source[y]
        /\ step[y] > 1 => AccountsNow(y, out[Run(y)][step[y] - 1])
        /\ step[y] > 1 /\ busy[y] => AccountsNow(y, rows[y])
    BY <1>2 DEF AccountInv, Accounted
  <2>2. Run(y)' = Run(y) /\ \A z \in Exec : OnSameRun(z, key[y])' => z = y
    BY <1>1, <2>1 DEF OnSameRun, Run
  <2>3. CASE y # x
    <3>1. rows'[y] = rows[y] /\ busy'[y] = busy[y] /\ source'[y] = source[y]
      BY <1>1, <2>3 DEF Types, Control
    <3> QED BY <1>1, <2>1, <2>2, <3>1 DEF Accounted, AccountsNow
  <2>4. CASE y = x /\ step[x] = 1
    <3>1. rows'[x] = files[key[x]] /\ source'[x] = files[key[x]]
      BY <1>1, <2>4 DEF Types, Control
    <3> QED BY <1>1, <2>1, <2>2, <2>4, <3>1 DEF Accounted
  <2>5. CASE y = x /\ step[x] # 1
    <3>1. rows'[x] = out[Run(x)][step[x] - 1] /\ source' = source
      BY <1>1, <2>5 DEF Types, Control
    <3> QED BY <1>1, <2>1, <2>2, <2>5, <3>1 DEF Accounted, AccountsNow
  <2> QED BY <2>3, <2>4, <2>5
<1>3. \A y \in Exec : Accounted(y)'
  BY <1>1, <1>2 DEF Accounted
<1> QED BY <1>3 DEF AccountInv

(* Every step keeps the accounts.                                          *)
LEMMA NextKeepsAccounts == Types /\ AccountInv /\ [Next]_vars => AccountInv'
<1> SUFFICES ASSUME Types, AccountInv, [Next]_vars PROVE AccountInv'
  OBVIOUS
<1>1. ASSUME UNCHANGED <<step, key, busy, rows, out, quarantine, excluded, source, alone>>
      PROVE  AccountInv'
  BY <1>1 DEF AccountInv, Accounted, AccountsNow, OnSameRun, Run
<1>2. CASE \E k \in Key : UploadFile(k)
  BY <1>1, <1>2 DEF UploadFile, s3, history
<1>3. CASE \E k \in Key : \E x \in Exec : StartExecution(x, k)
  BY <1>3, StartKeepsAccounts
<1>4. CASE \E x \in Exec : ReadInput(x)
  BY <1>4, ReadKeepsAccounts
<1>5. CASE \E x \in Exec : Task(x)
  BY <1>5, TaskKeepsAccounts
<1>6. CASE \E x \in Exec : Raise(x)
  BY <1>6, EndKeepsAccounts DEF Raise, Working
<1>7. CASE \E x \in Exec : Crash(x)
  BY <1>7, EndKeepsAccounts DEF Crash
<1>8. CASE \E i \in Identifier : OptOut(i)
  BY <1>1, <1>8 DEF OptOut, s3, history
<1>9. CASE NextDay
  BY <1>1, <1>9 DEF NextDay, s3, history
<1>10. CASE UNCHANGED vars
  BY <1>1, <1>10 DEF vars, s3, history
<1> QED BY <1>2, <1>3, <1>4, <1>5, <1>6, <1>7, <1>8, <1>9, <1>10 DEF Next

(* No line of a file is lost unseen: when an execution that had its files  *)
(* to itself stages its batch, each is staged, excluded or in quarantine,  *)
(* or a row of the same contact, as recent, stands for it.                 *)
THEOREM RowsAreAccounted == Spec => []EveryRowAccounted
<1>1. Init => AccountInv
  BY DEF Init, AccountInv, Accounted
<1>2. Types /\ AccountInv => EveryRowAccounted
  <2> SUFFICES ASSUME Types, AccountInv, NEW x \in Exec, alone[x], Working(x, 7),
                      NEW f \in source[x]
               PROVE  LET r == Run(x) IN
                        \/ f.n \in Lines(quarantine[r][1] \cup quarantine[r][2] \cup quarantine[r][3])
                        \/ \E g \in rows[x] \cup excluded[r] : StandsFor(g, f)
    BY DEF EveryRowAccounted
  <2>1. step[x] = 7 /\ busy[x]
    BY DEF Working
  <2>2. Accounts(source[x], quarantine[Run(x)], excluded[Run(x)], 7, rows[x])
    BY <2>1 DEF AccountInv, Accounted, AccountsNow
  <2>3. CASE \E j \in 1 .. 3 : f.n \in Lines(quarantine[Run(x)][j])
    <3>1. PICK j \in 1 .. 3 : f.n \in Lines(quarantine[Run(x)][j])
      BY <2>3
    <3>2. j = 1 \/ j = 2 \/ j = 3
      BY <3>1
    <3> QED BY <3>1, <3>2 DEF Lines
  <2>4. CASE \E g \in rows[x] \cup excluded[Run(x)] : StandsAt(7, g, f)
    BY <2>4 DEF StandsAt
  <2> QED BY <2>2, <2>3, <2>4 DEF Accounts
<1> QED BY <1>1, <1>2, InitTypes, NextTypes, NextKeepsAccounts, PTL DEF Spec
=============================================================================
