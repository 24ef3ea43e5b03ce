---------------------------- MODULE VendorReconcile ----------------------------
(***************************************************************************)
(* texttorrent/reconcile.py: the nightly comparison of our suppression log *)
(* with the blocked list of the SMS vendor.  What is missing on one side is*)
(* added to it, number by number on ours and in one request on theirs, and *)
(* then the divergence is reported.  Neither list stands still meanwhile,  *)
(* theirs is read in numbered pages, and a run can die at any point.       *)
(*                                                                         *)
(* Our side is the set of identifiers of the log of SuppressionStore, read *)
(* by a listing that may or may not see what is appended while it goes on. *)
(***************************************************************************)
EXTENDS Naturals, Sequences, FiniteSets

CONSTANTS
  Phone,        (* Numbers in E.164.                                       *)
  Email,        (* The other identifiers of the log.                       *)
  Entry,        (* What stands on the list of the vendor: numbers in any   *)
                (* format, and what is none.                               *)
  Wire,         (* Wire[p]: the ten digits a number is pushed as.          *)
  Parse,        (* Parse[e]: normalize_phone of an entry.                  *)
  Unparseable,  (* What Parse gives for an entry that is no number.        *)
  Run,          (* Processes that run the handler.                         *)
  PageSize,     (* page_size of blocked_numbers.                           *)
  MaxUnblocks,  (* Bound: entries the vendor takes off its list.           *)
  MaxFails      (* Bound: runs that die, or get an error for a page.       *)

ASSUME ReconcileAssumption ==
  /\ Phone \cap Email = {} /\ Unparseable \notin Phone
  /\ Wire \in [Phone -> Entry] /\ Parse \in [Entry -> Phone \cup {Unparseable}]
  /\ PageSize \in Nat \ {0} /\ MaxUnblocks \in Nat /\ MaxFails \in Nat

VARIABLES
  ours,        (* Identifiers of the log.                                  *)
  theirs,      (* The blocked list, in the order of its pages.             *)
  export,      (* The last export of it that was dropped in the bucket.    *)
  pc,          (* pc[r]: where run r is.                                   *)
  page,        (* page[r]: the page it asks for next.                      *)
  raw,         (* raw[r]: raw_vendor, the entries it has read.             *)
  known,       (* known[r]: the log when r began to list it.               *)
  toAdd,       (* toAdd[r]: the part of added_from_vendor still to do.     *)
  done,        (* done[r]: the part of it that has been added.             *)
  toPush,      (* toPush[r]: pushed_to_vendor.                             *)
  diverged,    (* diverged[r]: whether the divergence it counts is not 0.  *)
  unblocks,    (* Entries taken off so far.                                *)
  fails,       (* Runs that have died, or got an error for a page, so far. *)
  steady,      (* History, steady[r]: entries on the list all the time.    *)
  removed,     (* History, removed[r]: entries taken off since r started,  *)
               (* or since the export it works on.                         *)
  cut,         (* History, cut[r]: whether it took an error for a page.    *)
  unreported   (* History: numbers added by runs that died, until a report *)
               (* pages a human.                                           *)

local == <<pc, page, raw, known, toAdd, done, toPush, diverged>>
history == <<steady, removed, cut>>
vars == <<ours, theirs, export, local, unblocks, fails, history, unreported>>

Listed == {theirs[k] : k \in DOMAIN theirs}

TypeOK ==
  /\ ours \subseteq Phone \cup Email
  /\ theirs \in Seq(Entry) /\ export \subseteq Entry
  /\ pc \in [Run -> {"idle", "paging", "comparing", "writing", "reporting"}]
  /\ page \in [Run -> Nat]
  /\ raw \in [Run -> SUBSET Entry]
  /\ known \in [Run -> SUBSET (Phone \cup Email)]
  /\ toAdd \in [Run -> SUBSET Phone] /\ done \in [Run -> SUBSET Phone]
  /\ toPush \in [Run -> SUBSET Phone]
  /\ diverged \in [Run -> BOOLEAN]
  /\ unblocks \in 0 .. MaxUnblocks /\ fails \in 0 .. MaxFails
  /\ steady \in [Run -> SUBSET Entry] /\ removed \in [Run -> SUBSET Entry]
  /\ cut \in [Run -> BOOLEAN]
  /\ unreported \subseteq Phone

(* The emails are there from the start: all that matters of them is that   *)
(* they stay out of the comparison.                                        *)
Init ==
  /\ ours = Email /\ theirs = <<>> /\ export = {}
  /\ pc = [r \in Run |-> "idle"] /\ page = [r \in Run |-> 0]
  /\ raw = [r \in Run |-> {}] /\ known = [r \in Run |-> {}]
  /\ toAdd = [r \in Run |-> {}] /\ done = [r \in Run |-> {}]
  /\ toPush = [r \in Run |-> {}] /\ diverged = [r \in Run |-> FALSE]
  /\ unblocks = 0 /\ fails = 0
  /\ steady = [r \in Run |-> {}] /\ removed = [r \in Run |-> {}]
  /\ cut = [r \in Run |-> FALSE]
  /\ unreported = {}
-----------------------------------------------------------------------------
(* New entries stand together at one end of the list; an entry that is on  *)
(* it already is not entered twice.                                        *)
Orders(S) == {s \in [1 .. Cardinality(S) -> S] : \A j, k \in DOMAIN s : s[j] = s[k] => j = k}

Enter(S) ==
  \E s \in Orders(S \ Listed) : theirs' \in {s \o theirs, theirs \o s}

Number(e) == Parse[e] # Unparseable

(* Mutant: whatever is on the list is taken for a number.                  *)
AnyNumbers(E) == {Parse[e] : e \in E}

Numbers(E) == {Parse[e] : e \in {d \in E : Number(d)}}

(* Mutant: nothing is pushed while a person has to look at the list.       *)
ToPushWhenClean(E, S) == IF \A e \in E : Number(e) THEN (S \cap Phone) \ Numbers(E) ELSE {}

(* What an answer of the vendor and one of the log lack of each other.     *)
ToAdd(E, S) == Numbers(E) \ S
ToPush(E, S) == (S \cap Phone) \ Numbers(E)

-----------------------------------------------------------------------------
StartNightly(r) ==
  /\ pc[r] = "idle"
  /\ pc' = [pc EXCEPT ![r] = "paging"]
  /\ page' = [page EXCEPT ![r] = 1]
  /\ steady' = [steady EXCEPT ![r] = Listed]
  /\ UNCHANGED <<ours, theirs, export, raw, known, toAdd, done, toPush, diverged,
                 unblocks, fails, removed, cut, unreported>>

(* By hand: _numbers_from_export.                                          *)
StartFromExport(r) ==
  /\ pc[r] = "idle"
  /\ pc' = [pc EXCEPT ![r] = "comparing"]
  /\ raw' = [raw EXCEPT ![r] = export]
  /\ known' = [known EXCEPT ![r] = ours]
  /\ steady' = [steady EXCEPT ![r] = export \cap Listed]
  /\ removed' = [removed EXCEPT ![r] = export \ Listed]
  /\ UNCHANGED <<ours, theirs, export, page, toAdd, done, toPush, diverged,
                 unblocks, fails, cut, unreported>>

Indices(n) == {k \in DOMAIN theirs : (n - 1) * PageSize < k /\ k <= n * PageSize}

(* Mutant: a full page may be the last.                                    *)
ShortOrFull(K) == Cardinality(K) <= PageSize

Short(K) == Cardinality(K) < PageSize

(* One GET of blocked_numbers; after the short page the log is listed.     *)
ReadPage(r) ==
  /\ pc[r] = "paging"
  /\ LET K == Indices(page[r]) IN
       /\ raw' = [raw EXCEPT ![r] = @ \cup {theirs[k] : k \in K}]
       /\ \/ /\ Short(K)
             /\ pc' = [pc EXCEPT ![r] = "comparing"]
             /\ page' = [page EXCEPT ![r] = 0]
             /\ known' = [known EXCEPT ![r] = ours]
          \/ /\ ~Short(K)
             /\ page' = [page EXCEPT ![r] = @ + 1]
             /\ UNCHANGED <<pc, known>>
  /\ UNCHANGED <<ours, theirs, export, toAdd, done, toPush, diverged,
                 unblocks, fails, history, unreported>>

(* A page that is answered with an error _request lets through: a 400, a   *)
(* 404, an envelope with success: false.  It has no entries, so that it is *)
(* taken for the short page, and the run goes on with what it has.         *)
ReadErrorPage(r) ==
  /\ pc[r] = "paging" /\ fails < MaxFails
  /\ fails' = fails + 1
  /\ cut' = [cut EXCEPT ![r] = TRUE]
  /\ pc' = [pc EXCEPT ![r] = "comparing"]
  /\ page' = [page EXCEPT ![r] = 0]
  /\ known' = [known EXCEPT ![r] = ours]
  /\ UNCHANGED <<ours, theirs, export, raw, toAdd, done, toPush, diverged,
                 unblocks, steady, removed, unreported>>

(* current_identifiers returns, with S, and the two differences are taken. *)
Compare(r) ==
  /\ pc[r] = "comparing"
  /\ \E S \in SUBSET ours :
       /\ known[r] \subseteq S
       /\ toAdd' = [toAdd EXCEPT ![r] = ToAdd(raw[r], S)]
       /\ toPush' = [toPush EXCEPT ![r] = ToPush(raw[r], S)]
       /\ diverged' = [diverged EXCEPT ![r] =
            \/ ToAdd(raw[r], S) # {} \/ ToPush(raw[r], S) # {}
            \/ \E e \in raw[r] : ~Number(e)]
  /\ pc' = [pc EXCEPT ![r] = "writing"]
  /\ raw' = [raw EXCEPT ![r] = {}]
  /\ UNCHANGED <<ours, theirs, export, page, known, done, unblocks, fails, history,
                 unreported>>

(* One turn of the loop: add_suppression.                                  *)
AddOne(r) ==
  /\ pc[r] = "writing"
  /\ \E p \in toAdd[r] :
       /\ ours' = ours \cup {p}
       /\ toAdd' = [toAdd EXCEPT ![r] = @ \ {p}]
       /\ done' = [done EXCEPT ![r] = @ \cup {p}]
  /\ UNCHANGED <<theirs, export, pc, page, raw, known, toPush, diverged,
                 unblocks, fails, history, unreported>>

(* block_numbers: one POST, none when there is nothing to push.            *)
Push(r) ==
  /\ pc[r] = "writing" /\ toAdd[r] = {}
  /\ Enter({Wire[p] : p \in toPush[r]})
  /\ pc' = [pc EXCEPT ![r] = "reporting"]
  /\ UNCHANGED <<ours, export, page, raw, known, toAdd, done, toPush, diverged,
                 unblocks, fails, history, unreported>>

EndRun(r) ==
  /\ pc' = [pc EXCEPT ![r] = "idle"]
  /\ page' = [page EXCEPT ![r] = 0]
  /\ raw' = [raw EXCEPT ![r] = {}]
  /\ known' = [known EXCEPT ![r] = {}]
  /\ toAdd' = [toAdd EXCEPT ![r] = {}]
  /\ done' = [done EXCEPT ![r] = {}]
  /\ toPush' = [toPush EXCEPT ![r] = {}]
  /\ diverged' = [diverged EXCEPT ![r] = FALSE]
  /\ steady' = [steady EXCEPT ![r] = {}]
  /\ removed' = [removed EXCEPT ![r] = {}]
  /\ cut' = [cut EXCEPT ![r] = FALSE]

(* put_metric_data, and the handler returns.  A divergence above 0 pages a *)
(* human, who looks at both lists.                                         *)
Report(r) ==
  /\ pc[r] = "reporting"
  /\ unreported' = IF diverged[r] THEN {} ELSE unreported
  /\ EndRun(r)
  /\ UNCHANGED <<ours, theirs, export, unblocks, fails>>

(* A call raises or the function is stopped: nothing is undone, nothing is *)
(* reported.  A POST that fails may have blocked some of the numbers.      *)
Fail(r) ==
  /\ pc[r] # "idle" /\ fails < MaxFails
  /\ fails' = fails + 1
  /\ unreported' = unreported \cup done[r]
  /\ \/ UNCHANGED theirs
     \/ /\ pc[r] = "writing" /\ toAdd[r] = {}
        /\ \E P \in SUBSET toPush[r] : Enter({Wire[p] : p \in P})
  /\ EndRun(r)
  /\ UNCHANGED <<ours, export, unblocks>>
-----------------------------------------------------------------------------
(* An opt-out on our side, mirrored from the org or posted to the API.     *)
OptOutHere(p) ==
  /\ p \notin ours
  /\ ours' = ours \cup {p}
  /\ UNCHANGED <<theirs, export, local, unblocks, fails, history, unreported>>

(* One on theirs: the opt-out words of the vendor, or a person in its UI.  *)
OptOutThere(e) ==
  /\ e \notin Listed
  /\ Enter({e})
  /\ UNCHANGED <<ours, export, local, unblocks, fails, history, unreported>>

(* The vendor takes an entry off its list and the pages move up.           *)
Unblock(k) ==
  /\ unblocks < MaxUnblocks
  /\ unblocks' = unblocks + 1
  /\ theirs' = SubSeq(theirs, 1, k - 1) \o SubSeq(theirs, k + 1, Len(theirs))
  /\ steady' = [r \in Run |-> steady[r] \ {theirs[k]}]
  /\ removed' = [r \in Run |-> IF pc[r] = "idle" THEN {} ELSE removed[r] \cup {theirs[k]}]
  /\ UNCHANGED <<ours, export, local, fails, cut, unreported>>

DropExport ==
  /\ export' = Listed
  /\ UNCHANGED <<ours, theirs, local, unblocks, fails, history, unreported>>

Step(r) == ReadPage(r) \/ Compare(r) \/ AddOne(r) \/ Push(r) \/ Report(r)

Next ==
  \/ \E r \in Run : StartNightly(r) \/ StartFromExport(r) \/ ReadErrorPage(r) \/ Step(r) \/ Fail(r)
  \/ \E p \in Phone : OptOutHere(p)
  \/ \E e \in Entry : OptOutThere(e)
  \/ \E k \in DOMAIN theirs : Unblock(k)
  \/ DropExport

Spec == Init /\ [][Next]_vars

(* The schedule fires every night, however often somebody runs the handler *)
(* by hand, and what was started goes on.                                  *)
FairSpec ==
  /\ Spec
  /\ \A r \in Run : SF_vars(StartNightly(r)) /\ WF_vars(Step(r))
-----------------------------------------------------------------------------
(* Numbers that come back from the list as what they were pushed as; not   *)
(* those of other countries, of which ten_digits keeps the last ten.       *)
Domestic == {p \in Phone : Parse[Wire[p]] = p}

OnTheirs(p, E) == \E e \in E : Parse[e] = p

(* Every entry the run had to see is in our log or, if it is no number, is *)
(* counted.                                                                *)
HasTheirs(r) == \A e \in steady[r] : IF Number(e) THEN Parse[e] \in ours ELSE diverged[r]

(* A run that gets to its report has pushed what was in our log when it    *)
(* listed it: every number is on the list, unless it was taken off         *)
(* meanwhile.  It has taken over what was on the list all the time, unless *)
(* an entry was taken off, so that another may have moved to a page already*)
(* read, or an error was taken for the last page.                          *)
RunClosesGaps ==
  \A r \in Run : pc[r] = "reporting" =>
    /\ \A p \in known[r] \cap Domestic : OnTheirs(p, Listed \cup removed[r])
    /\ removed[r] = {} /\ ~cut[r] => HasTheirs(r)

(* "This job closes both gaps nightly" (reconcile.py): the same with no    *)
(* exception for an error that was taken for the last page.                *)
EveryReportClosesGaps ==
  \A r \in Run : pc[r] = "reporting" /\ removed[r] = {} => HasTheirs(r)

Agreed ==
  /\ \A p \in ours \cap Domestic : OnTheirs(p, Listed)
  /\ Numbers(Listed) \subseteq ours

(* "An opt-out entered on either side is enforced on both" (ADR-019): when *)
(* opt-outs, errors and removals stop, the lists come to agree, whatever   *)
(* stale exports are still reconciled.                                     *)
ListsComeToAgree == <>[]Agreed

(* "any disagreement pages a human" (ADR-019): a report of 0, which calls  *)
(* off the alarm for the night, is not given while additions of a run that *)
(* died before its own report have paged nobody.                           *)
ZeroIsNoDisagreement ==
  \A r \in Run : pc[r] = "reporting" /\ unreported # {} => diverged[r]
=============================================================================
