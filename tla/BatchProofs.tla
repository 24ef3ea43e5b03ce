------------------------------ MODULE BatchProofs ------------------------------
(***************************************************************************)
(* Theorems about what the batch reads and works off: ReplyTemplate, for   *)
(* any templates, versions, bodies and chunks, and SendBacklog, for any    *)
(* backlog, windows, limit and scope.                                      *)
(***************************************************************************)
EXTENDS ReplyTemplate, SendBacklog, FiniteSetTheorems, TLAPS

WasApproved(c) == [template |-> c.template, body |-> c.body] \in approved

(* What is approved now or held by a chunk is in the history as well.      *)
IInv ==
  /\ TypeOK
  /\ \A t \in Template :
       status[t] = "Approved" => [template |-> t, body |-> body[t]] \in approved
  /\ \A r \in Run : held[r] # Nothing => WasApproved(held[r])
  /\ SentWasApproved

LEMMA InvInit == Init => IInv
BY DEF Init, IInv, TypeOK, Statuses, SentWasApproved

LEMMA InvStep == IInv /\ [Next]_vars => IInv'
<1> SUFFICES ASSUME IInv, [Next]_vars PROVE IInv'
  OBVIOUS
<1>1. ASSUME NEW t \in Template, Save(t) PROVE IInv'
  <2>1. TypeOK'
    BY <1>1 DEF Save, IInv, TypeOK
  <2>2. approved \subseteq approved'
    BY <1>1 DEF Save
  <2>3. \A u \in Template :
          status'[u] = "Approved" => [template |-> u, body |-> body'[u]] \in approved'
    <3>1. CASE status'[t] = "Approved"
      BY <1>1, <2>2, <3>1 DEF Save, IInv, TypeOK
    <3>2. CASE status'[t] # "Approved"
      BY <1>1, <2>2, <3>2 DEF Save, IInv, TypeOK
    <3>3. QED BY <3>1, <3>2
  <2>4. UNCHANGED <<held, sent>>
    BY <1>1 DEF Save
  <2>5. QED BY <2>1, <2>2, <2>3, <2>4 DEF IInv, WasApproved, SentWasApproved
<1>2. ASSUME NEW r \in Run, ReadTemplate(r) PROVE IInv'
  <2>1. PICK t \in Template :
          /\ FirstTouch(t)
          /\ held' = [held EXCEPT ![r] =
                        [template |-> t, version |-> version[t], body |-> body[t]]]
    BY <1>2 DEF ReadTemplate
  <2>2. UNCHANGED <<record, sent, approved>>
    BY <1>2 DEF ReadTemplate
  <2>3. held' \in [Run -> Copy \cup {Nothing}]
    BY <2>1 DEF IInv, TypeOK, Copy
  <2>4. \A q \in Run : held'[q] # Nothing => WasApproved(held'[q])
    BY <2>1 DEF IInv, TypeOK, WasApproved, FirstTouch
  <2>5. QED BY <2>2, <2>3, <2>4 DEF IInv, TypeOK, WasApproved, SentWasApproved, record
<1>3. ASSUME NEW r \in Run, Send(r) PROVE IInv'
  <2>1. held[r] \in Copy /\ WasApproved(held[r])
    BY <1>3 DEF Send, IInv, TypeOK
  <2>2. sent' = sent \cup {held[r]} /\ UNCHANGED <<status, version, body, held, approved>>
    BY <1>3 DEF Send, record
  <2>3. QED BY <2>1, <2>2 DEF IInv, TypeOK, WasApproved, SentWasApproved
<1>4. ASSUME NEW r \in Run, EndChunk(r) PROVE IInv'
  BY <1>4 DEF EndChunk, record, IInv, TypeOK, WasApproved, SentWasApproved
<1>5. CASE UNCHANGED vars
  BY <1>5 DEF vars, record, IInv, TypeOK, WasApproved, SentWasApproved
<1>6. QED BY <1>1, <1>2, <1>3, <1>4, <1>5 DEF Next

(* Records, copies and the history of approvals have their types.          *)
THEOREM TypeCorrect == Spec => []TypeOK
<1>1. IInv => TypeOK
  BY DEF IInv
<1>2. QED BY <1>1, InvInit, InvStep, PTL DEF Spec

(* Whatever is saved while a chunk is sent, every body that has gone out   *)
(* was the body of its record while that was Approved.                     *)
THEOREM SentBodiesWereApproved == Spec => []SentWasApproved
<1>1. IInv => SentWasApproved
  BY DEF IInv
<1>2. QED BY <1>1, InvInit, InvStep, PTL DEF Spec
-----------------------------------------------------------------------------
(* The rows in the trailing hour.                                         *)
UnderLimit == rows + lastRows <= Limit

BacklogInv == BacklogTypeOK /\ UnderLimit

LEMMA ChunkFits ==
  ASSUME BacklogInv, Chunk
  PROVE  BacklogInv'
<1>1. PICK S \in SUBSET todo, kept \in 0 .. lastRows :
        /\ \E A \in SUBSET Sendable(S) :
             /\ IsHead(A, Room(kept), Sendable(S))
             /\ rows' = rows + Cardinality(A)
             /\ ready' = ready \ (A \ Unreachable)
        /\ todo' = todo \ S
        /\ lastRows' = kept
  BY DEF Chunk
<1>2. PICK A \in SUBSET Sendable(S) :
        /\ IsHead(A, Room(kept), Sendable(S))
        /\ rows' = rows + Cardinality(A)
        /\ ready' = ready \ (A \ Unreachable)
  BY <1>1
<1> DEFINE n == Cardinality(A)
           m == Cardinality(Sendable(S))
<1>3. IsFiniteSet(Sendable(S)) /\ IsFiniteSet(A)
  BY BacklogAssumption, FS_Subset DEF BacklogInv, BacklogTypeOK, Sendable
<1>4. n \in Nat /\ m \in Nat /\ n = IF m < Room(kept) THEN m ELSE Room(kept)
  BY <1>2, <1>3, FS_CardinalityType DEF IsHead
<1>5. Limit \in Nat /\ rows \in 0 .. Limit /\ lastRows \in 0 .. Limit /\ rows + lastRows <= Limit
  BY BacklogAssumption DEF BacklogInv, BacklogTypeOK, UnderLimit
<1> HIDE DEF n, m
<1>6. rows + n \in 0 .. Limit /\ kept \in 0 .. Limit /\ rows + n + kept <= Limit
  BY <1>4, <1>5 DEF Room
<1>7. hour' = hour /\ running' = running /\ rows' = rows + n
  BY <1>2 DEF Chunk, n
<1>8. QED BY <1>1, <1>2, <1>6, <1>7 DEF BacklogInv, BacklogTypeOK, UnderLimit

LEMMA BacklogInvInit == BacklogInit => BacklogInv
<1> SUFFICES ASSUME BacklogInit PROVE BacklogInv
  OBVIOUS
<1>1. running \in BOOLEAN
  BY Zenon DEF BacklogInit
<1>2. rows \in 0 .. Limit /\ lastRows \in 0 .. Limit /\ rows + lastRows <= Limit
  BY BacklogAssumption DEF BacklogInit
<1>3. hour \in 0 .. Hours - 1 /\ ready \subseteq Lead /\ todo \subseteq Lead
  BY DEF BacklogInit
<1>4. QED BY <1>1, <1>2, <1>3, Zenon DEF BacklogInv, BacklogTypeOK, UnderLimit

LEMMA BacklogInvStep == BacklogInv /\ [BacklogNext]_backlogVars => BacklogInv'
<1> SUFFICES ASSUME BacklogInv, [BacklogNext]_backlogVars PROVE BacklogInv'
  OBVIOUS
<1> USE DEF BacklogInv, BacklogTypeOK, UnderLimit
<1>1. CASE StartRun
  BY <1>1, BacklogAssumption DEF StartRun
<1>2. CASE EndRun
  BY <1>2 DEF EndRun
<1>3. CASE UNCHANGED backlogVars
  BY <1>3 DEF backlogVars
<1>4. QED BY <1>1, <1>2, <1>3, ChunkFits DEF BacklogNext

(* The hour and the backlog have their types, and neither the rows of the  *)
(* hour nor those left of the hour before ever exceed the limit, however   *)
(* they age out between the chunks.                                        *)
THEOREM BacklogTypeCorrect == BacklogSpec => []BacklogTypeOK
<1>1. BacklogInv => BacklogTypeOK
  BY DEF BacklogInv
<1>2. QED BY <1>1, BacklogInvInit, BacklogInvStep, PTL DEF BacklogSpec

(* The hourly limit holds for the trailing hour, over the change of the    *)
(* hour and for any backlog, scope and number of chunks: the rows of this  *)
(* hour and what is left of those of the hour before never exceed it.      *)
THEOREM BacklogStaysUnderLimit == BacklogSpec => []UnderLimit
<1>1. BacklogInv => UnderLimit
  BY DEF BacklogInv
<1>2. QED BY <1>1, BacklogInvInit, BacklogInvStep, PTL DEF BacklogSpec
=============================================================================
