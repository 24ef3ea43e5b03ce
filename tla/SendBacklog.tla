------------------------------ MODULE SendBacklog ------------------------------
(***************************************************************************)
(* The Ready backlog under the hourly schedule: which leads the runs of    *)
(* OutreachSendScheduler reach in the long run.  OutreachSend has every    *)
(* interleaving of one run; here a chunk is one step, the runs follow each *)
(* other hour by hour for ever, and what matters is who takes up the hourly*)
(* limit.                                                                  *)
(*                                                                         *)
(* The rows of a run are inserted after its queries, so at the next full   *)
(* hour they are less than an hour old; how soon they leave the trailing   *)
(* hour while the next run goes on depends on the pace of the two runs.    *)
(***************************************************************************)
EXTENDS Naturals, FiniteSets

CONSTANTS
  Lead,          (* Lead ids: numbers, in the order of CreatedDate and Id. *)
  Unreachable,   (* Leads whose sends the provider refuses every time.     *)
  Window,        (* Window[l]: hours of the day l may be messaged.         *)
  Hours,         (* Hours in a day.                                        *)
  Limit,         (* Per_Number_Hourly_Limit__c.                            *)
  Scope          (* SCOPE_SIZE.                                            *)

ASSUME BacklogAssumption ==
  /\ Lead \subseteq Nat /\ IsFiniteSet(Lead) /\ Unreachable \subseteq Lead
  /\ Hours \in Nat \ {0} /\ Window \in [Lead -> SUBSET (0 .. Hours - 1)]
  /\ Limit \in Nat /\ Scope \in Nat \ {0}

VARIABLES
  hour,      (* Hour of the day.                                           *)
  ready,     (* Leads with Outreach_Status__c = 'Ready'.                   *)
  running,   (* Whether the run of this hour is going on.                  *)
  todo,      (* Leads of its locator that no chunk has had yet.            *)
  lastRows,  (* Rows of the hour before still in the trailing hour.        *)
  rows       (* Rows of this hour.                                         *)

backlogVars == <<hour, ready, running, todo, lastRows, rows>>

BacklogTypeOK ==
  /\ hour \in 0 .. Hours - 1
  /\ ready \subseteq Lead /\ todo \subseteq Lead
  /\ running \in BOOLEAN
  /\ lastRows \in 0 .. Limit /\ rows \in 0 .. Limit

(* Any backlog, at any hour, with whatever the last run has sent.          *)
BacklogInit ==
  /\ hour \in 0 .. Hours - 1 /\ ready \in SUBSET Lead
  /\ running = FALSE /\ todo = {}
  /\ lastRows = 0 /\ rows \in 0 .. Limit

(* S is the head of B: its n first leads, or all of them.                  *)
IsHead(S, n, B) ==
  /\ S \subseteq B /\ \A l \in S, m \in B \ S : l < m
  /\ Cardinality(S) = IF Cardinality(B) < n THEN Cardinality(B) ELSE n

Sendable(S) == {l \in S \cap ready : hour \in Window[l]}

(* Mutant: the COUNT() is taken once, when the run starts.                 *)
RoomAtStart(kept) == IF kept >= Limit THEN 0 ELSE Limit - kept

(* What the COUNT() of the trailing hour leaves for a chunk.               *)
Room(kept) == IF rows + kept >= Limit THEN 0 ELSE Limit - rows - kept

(* Mutant: the COUNT() without its CreatedDate condition.                  *)
StartRunCountingAll ==
  /\ ~running
  /\ hour' = (hour + 1) % Hours
  /\ running' = TRUE /\ todo' = ready
  /\ lastRows' = lastRows + rows /\ rows' = 0
  /\ UNCHANGED ready

StartRun ==
  /\ ~running
  /\ hour' = (hour + 1) % Hours
  /\ running' = TRUE /\ todo' = ready
  /\ lastRows' = rows /\ rows' = 0
  /\ UNCHANGED ready

(* One execute(): any number of the rows of the hour before have aged out  *)
(* by now, the sendable leads at the head of the chunk take what room there*)
(* is, and those the provider refuses stay Ready.                          *)
Chunk ==
  /\ running /\ todo # {}
  /\ \E S \in SUBSET todo, kept \in 0 .. lastRows :
       /\ IsHead(S, Scope, todo)
       /\ \E A \in SUBSET Sendable(S) :
            /\ IsHead(A, Room(kept), Sendable(S))
            /\ rows' = rows + Cardinality(A)
            /\ ready' = ready \ (A \ Unreachable)
       /\ todo' = todo \ S
       /\ lastRows' = kept
  /\ UNCHANGED <<hour, running>>

EndRun ==
  /\ running /\ todo = {}
  /\ running' = FALSE
  /\ UNCHANGED <<hour, ready, todo, lastRows, rows>>

BacklogNext == StartRun \/ Chunk \/ EndRun

(* The schedule fires every hour and the platform runs every chunk.        *)
BacklogSpec == BacklogInit /\ [][BacklogNext]_backlogVars /\ WF_backlogVars(BacklogNext)
-----------------------------------------------------------------------------
RefusedAt(h) == {l \in Unreachable : h \in Window[l]}

(* What the provider refuses in an hour, with what it has refused in the   *)
(* hour before and is still counted, leaves a place of the limit to the    *)
(* others.                                                                 *)
RoomIsLeft ==
  \A h \in 0 .. Hours - 1 :
    Cardinality(RefusedAt(h)) + Cardinality(RefusedAt((h + Hours - 1) % Hours)) < Limit

Reachable == {l \in Lead \ Unreachable : Window[l] # {}}

(* "off-window leads are deferred with reason quiet_hours and picked up by *)
(* a later run" (OutreachSendScheduler): as long as the leads that are     *)
(* always refused leave room, every lead the provider takes is contacted in*)
(* the end, wherever it stands in the backlog and however the rows of the  *)
(* hour before age out.                                                    *)
EveryLeadIsContacted ==
  RoomIsLeft => \A l \in Reachable : l \in ready ~> l \notin ready

(* The same without that condition: refused leads stay Ready, the older    *)
(* ones come first in every run, and may take up the limit hour after hour.*)
NobodyStarves == \A l \in Reachable : l \in ready ~> l \notin ready
=============================================================================
