-------------------------- MODULE OutreachSendProofs --------------------------
(***************************************************************************)
(* Theorems about OutreachSend, for any number of leads, runs, inbound     *)
(* messages and callouts.  No theorem uses the bounds or the order of Lead.*)
(***************************************************************************)
EXTENDS OutreachSend, FiniteSetTheorems, TLAPS

(* COUNT() is a number because the tables are finite.                      *)
FiniteTables ==
  /\ IsFiniteSet(log)
  /\ \A r \in Run : IsFiniteSet(attemptLog[r])

LEMMA AttemptRowType ==
  ASSUME NEW a \in Attempt, now \in Nat
  PROVE  AttemptRow(a) \in Row
BY DEF Attempt, AttemptRow, Row

LEMMA InboundRowType ==
  ASSUME NEW i \in Inbound, NEW l \in Lead \cup {NoLead}, now \in Nat
  PROVE  InboundRow(i, l) \in Row
<1>1. NeedsReview(i) \in BOOLEAN
  BY DEF NeedsReview
<1>2. QED BY <1>1 DEF InboundRow, Row

LEMMA CountType ==
  ASSUME IsFiniteSet(log)
  PROVE  CountSentThisHour \in Nat
<1>1. {row \in log : Outbound(row) /\ row.created >= now - TicksPerHour} \subseteq log
  OBVIOUS
<1>2. QED BY <1>1, FS_Subset, FS_CardinalityType DEF CountSentThisHour

(* A callout adds one attempt, and at most one message.                    *)
LEMMA SendOneType ==
  ASSUME TypeOK, NEW r \in Run, NEW l \in Lead, SendOne(r, l)
  PROVE  /\ calls' \in Nat
         /\ accepted' \subseteq Message
         /\ attemptLog' \in [Run -> SUBSET Attempt]
<1>1. calls \in Nat /\ calls + 1 \in Nat /\ calls' = calls + 1 /\ now \in Nat
  BY DEF TypeOK, SendOne
<1>2. [id |-> calls + 1, lead |-> l, at |-> now] \in Message
  BY <1>1 DEF Message
<1>3. \A sid \in {calls + 1, NoSid}, result \in {"Sent", "Failed"} :
        [id |-> calls + 1, lead |-> l, sid |-> sid, status |-> result] \in Attempt
  BY <1>1 DEF Attempt
<1>4. accepted' \subseteq Message
  BY <1>2 DEF TypeOK, SendOne
<1>5. \E sid \in {calls + 1, NoSid}, result \in {"Sent", "Failed"} :
        attemptLog' = [attemptLog EXCEPT ![r] =
          @ \cup {[id |-> calls + 1, lead |-> l, sid |-> sid, status |-> result]}]
  BY DEF SendOne
<1>6. attemptLog' \in [Run -> SUBSET Attempt]
  BY <1>3, <1>5 DEF TypeOK
<1>7. QED BY <1>1, <1>4, <1>6

LEMMA TypeStep ==
  ASSUME TypeOK, FiniteTables, [Next]_vars
  PROVE  TypeOK'
<1> USE DEF TypeOK, org, run
<1>1. ASSUME NEW r \in Run, Start(r) PROVE TypeOK'
  BY <1>1 DEF Start
<1>2. ASSUME NEW r \in Run, ReadLeads(r) PROVE TypeOK'
  BY <1>2 DEF ReadLeads, HeadOf
<1>3. ASSUME NEW r \in Run, ReadThrottle(r) PROVE TypeOK'
  <2>1. CountSentThisHour \in Nat
    BY CountType DEF FiniteTables
  <2>2. QED BY <1>3, <2>1 DEF ReadThrottle
<1>4. ASSUME NEW r \in Run, SkipLead(r) PROVE TypeOK'
  BY <1>4 DEF SkipLead
<1>5. ASSUME NEW r \in Run, SendLead(r) PROVE TypeOK'
  <2>1. PICK l \in Lead : /\ SendOne(r, l)
                          /\ chunk' = [chunk EXCEPT ![r] = @ \ {l}]
    BY <1>5 DEF SendLead
  <2>2. /\ calls' \in Nat
        /\ accepted' \subseteq Message
        /\ attemptLog' \in [Run -> SUBSET Attempt]
    BY <2>1, SendOneType
  <2>3. QED BY <1>5, <2>1, <2>2 DEF SendLead
<1>6. ASSUME NEW r \in Run, CommitChunk(r) PROVE TypeOK'
  <2>1. {AttemptRow(a) : a \in attemptLog[r]} \subseteq Row
    BY AttemptRowType
  <2>2. log' \subseteq Row
    BY <1>6, <2>1 DEF CommitChunk
  <2>3. status' \in [Lead -> Statuses]
    BY <1>6 DEF CommitChunk, Statuses
  <2>4. QED BY <1>6, <2>2, <2>3 DEF CommitChunk, EndChunk
<1>7. ASSUME NEW r \in Run, AbortChunk(r) PROVE TypeOK'
  BY <1>7 DEF AbortChunk, EndChunk
<1>8. ASSUME NEW r \in Run, Finish(r) PROVE TypeOK'
  BY <1>8 DEF Finish
<1>9. ASSUME NEW i \in Inbound, HandleInbound(i) PROVE TypeOK'
  <2>1. PICK matched \in Lead \cup {NoLead} : log' = log \cup {InboundRow(i, matched)}
    BY <1>9 DEF HandleInbound
  <2>2. InboundRow(i, matched) \in Row
    BY InboundRowType
  <2>3. log' \subseteq Row
    BY <2>1, <2>2
  <2>4. status' \in [Lead -> Statuses]
    BY <1>9 DEF HandleInbound, Statuses
  <2>5. QED BY <1>9, <2>3, <2>4 DEF HandleInbound
<1>10. ASSUME NEW n \in {m.id : m \in accepted}, NEW d \in DeliveryStatus,
              HandleStatus(n, d)
       PROVE  TypeOK'
  <2>1. n \in Nat
    BY DEF Message
  <2>2. \A row \in log : [row EXCEPT !.delivery = d] \in Row
    BY DEF Row
  <2>3. StubRow(n, d) \in Row
    BY <2>1 DEF StubRow, Row
  <2>4. log' \subseteq Row
    BY <1>10, <2>2, <2>3 DEF HandleStatus
  <2>5. QED BY <1>10, <2>4 DEF HandleStatus
<1>11. ASSUME NEW l \in Lead, MarkReady(l) PROVE TypeOK'
  BY <1>11 DEF MarkReady, Statuses
<1>12. CASE Tick
  BY <1>12 DEF Tick
<1>13. CASE UNCHANGED vars
  BY <1>13 DEF vars
<1>14. QED
  BY <1>1, <1>2, <1>3, <1>4, <1>5, <1>6, <1>7, <1>8, <1>9, <1>10, <1>11, <1>12, <1>13
  DEF Next, Step

LEMMA FiniteStep ==
  ASSUME TypeOK, FiniteTables, [Next]_vars
  PROVE  FiniteTables'
<1>1. IsFiniteSet(log')
  <2>1. ASSUME NEW r \in Run, CommitChunk(r) PROVE IsFiniteSet(log')
    <3> DEFINE rows == {AttemptRow(a) : a \in attemptLog[r]}
               f == [a \in attemptLog[r] |-> AttemptRow(a)]
    <3>1. f \in Surjection(attemptLog[r], rows)
      BY DEF Surjection
    <3>2. IsFiniteSet(rows)
      BY <3>1, FS_Surjection DEF FiniteTables
    <3>3. IsFiniteSet(log) /\ IsFiniteSet(log \cup rows)
      BY <3>2, FS_Union DEF FiniteTables
    <3>4. log' = log \/ log' = log \cup rows
      BY <2>1 DEF CommitChunk
    <3>5. QED BY <3>3, <3>4
  <2>2. ASSUME NEW i \in Inbound, HandleInbound(i) PROVE IsFiniteSet(log')
    BY <2>2, FS_AddElement DEF HandleInbound, FiniteTables
  <2>3. ASSUME NEW n, NEW d, HandleStatus(n, d) PROVE IsFiniteSet(log')
    <3> DEFINE f == [row \in log |->
                       IF row.sid = n THEN [row EXCEPT !.delivery = d] ELSE row]
               image == {IF row.sid = n THEN [row EXCEPT !.delivery = d] ELSE row :
                           row \in log}
    <3>1. f \in Surjection(log, image)
      BY DEF Surjection
    <3>2. IsFiniteSet(image)
      BY <3>1, FS_Surjection DEF FiniteTables
    <3>3. IsFiniteSet(log \cup {StubRow(n, d)})
      BY FS_AddElement DEF FiniteTables
    <3>4. QED BY <2>3, <3>2, <3>3 DEF HandleStatus
  <2>4. CASE UNCHANGED log
    BY <2>4 DEF FiniteTables
  <2>5. QED
    BY <2>1, <2>2, <2>3, <2>4
    DEF Next, Step, Start, ReadLeads, ReadThrottle, SkipLead, SendLead, AbortChunk,
        Finish, MarkReady, Tick, vars, org
<1>2. ASSUME NEW s \in Run PROVE IsFiniteSet(attemptLog'[s])
  <2>1. ASSUME NEW r \in Run, SendLead(r) PROVE IsFiniteSet(attemptLog'[s])
    <3>1. PICK a : attemptLog' = [attemptLog EXCEPT ![r] = @ \cup {a}]
      BY <2>1 DEF SendLead, SendOne
    <3>2. IsFiniteSet(attemptLog[s] \cup {a}) /\ IsFiniteSet(attemptLog[s])
      BY FS_AddElement DEF FiniteTables
    <3>3. attemptLog'[s] \in {attemptLog[s] \cup {a}, attemptLog[s]}
      BY <3>1 DEF TypeOK
    <3>4. QED BY <3>2, <3>3
  <2>2. ASSUME NEW r \in Run, EndChunk(r) PROVE IsFiniteSet(attemptLog'[s])
    <3>1. attemptLog'[s] \in {{}, attemptLog[s]}
      BY <2>2 DEF EndChunk, TypeOK
    <3>2. QED BY <3>1, FS_EmptySet DEF FiniteTables
  <2>3. CASE UNCHANGED attemptLog
    BY <2>3 DEF FiniteTables
  <2>4. QED
    BY <2>1, <2>2, <2>3
    DEF Next, Step, Start, ReadLeads, ReadThrottle, SkipLead, CommitChunk, AbortChunk,
        Finish, HandleInbound, HandleStatus, MarkReady, Tick, vars, run
<1>3. QED BY <1>1, <1>2 DEF FiniteTables

(* The tables hold rows of their types in every reachable state.           *)
THEOREM TypeCorrect == Spec => [](TypeOK /\ FiniteTables)
<1>1. Init => TypeOK /\ FiniteTables
  BY FS_EmptySet, LimitAssumption DEF Init, TypeOK, FiniteTables, Statuses
<1>2. TypeOK /\ FiniteTables /\ [Next]_vars => (TypeOK /\ FiniteTables)'
  BY TypeStep, FiniteStep
<1>3. QED BY <1>1, <1>2, PTL DEF Spec
-----------------------------------------------------------------------------
(* What every chunk keeps about itself: it has leads to go through only    *)
(* between its first query and its end, and its attempts are numbered by   *)
(* the callouts.                                                           *)
ChunkInv ==
  \A r \in Run : pc[r] \in {"idle", "chunking"} => chunk[r] = {}

Numbered ==
  /\ \A m \in accepted : m.id <= calls
  /\ \A r \in Run : \A a \in attemptLog[r] : a.id <= calls /\ a.sid \in {a.id, NoSid}
  /\ \A r \in Run : \A a, b \in attemptLog[r] : a.id = b.id => a = b

LEMMA ChunkStep ==
  ASSUME TypeOK, ChunkInv, [Next]_vars
  PROVE  ChunkInv'
BY DEF TypeOK, ChunkInv, Next, Step, Start, ReadLeads, ReadThrottle, SkipLead, SendLead,
       CommitChunk, AbortChunk, EndChunk, Finish, HandleInbound, HandleStatus, MarkReady,
       Tick, vars, run

LEMMA NumberedStep ==
  ASSUME TypeOK, Numbered, [Next]_vars
  PROVE  Numbered'
<1>1. ASSUME NEW r \in Run, SendLead(r) PROVE Numbered'
  <2>1. PICK l \in Lead : SendOne(r, l)
    BY <1>1 DEF SendLead
  <2>2. calls \in Nat /\ calls' = calls + 1
    BY <2>1 DEF SendOne, TypeOK
  <2>3. \A m \in accepted : m.id \in Nat
    BY DEF TypeOK, Message
  <2>4. \A s \in Run : \A a \in attemptLog[s] : a.id \in Nat
    BY DEF TypeOK, Attempt
  <2>5. \A m \in accepted' : m.id <= calls'
    BY <2>1, <2>2, <2>3 DEF SendOne, Numbered
  <2>6. PICK sid \in {calls + 1, NoSid}, result \in {"Sent", "Failed"} :
          attemptLog' = [attemptLog EXCEPT ![r] =
            @ \cup {[id |-> calls + 1, lead |-> l, sid |-> sid, status |-> result]}]
    BY <2>1 DEF SendOne
  <2> DEFINE new == [id |-> calls + 1, lead |-> l, sid |-> sid, status |-> result]
  <2>7. new.id = calls + 1 /\ new.sid = sid
    OBVIOUS
  <2>8. \A s \in Run : attemptLog'[s] = IF s = r THEN attemptLog[s] \cup {new}
                                                ELSE attemptLog[s]
    BY <2>6 DEF TypeOK
  <2> HIDE DEF new
  <2>9. \A s \in Run : \A a \in attemptLog'[s] : a.id <= calls' /\ a.sid \in {a.id, NoSid}
    BY <2>2, <2>4, <2>6, <2>7, <2>8 DEF Numbered
  <2>10. \A s \in Run : \A a, b \in attemptLog'[s] : a.id = b.id => a = b
    <3> SUFFICES ASSUME NEW s \in Run, NEW a \in attemptLog'[s], NEW b \in attemptLog'[s],
                        a.id = b.id
                 PROVE  a = b
      OBVIOUS
    <3>1. \A c \in attemptLog[s] : c.id # new.id
      BY <2>2, <2>4, <2>7 DEF Numbered
    <3>2. a \in attemptLog[s] \cup {new} /\ b \in attemptLog[s] \cup {new}
      BY <2>8
    <3>3. QED BY <3>1, <3>2 DEF Numbered
  <2>11. QED BY <2>5, <2>9, <2>10 DEF Numbered
<1>2. ASSUME NEW r \in Run, EndChunk(r), UNCHANGED <<accepted, calls>> PROVE Numbered'
  BY <1>2 DEF EndChunk, Numbered, TypeOK
<1>3. CASE UNCHANGED <<accepted, calls, attemptLog>>
  BY <1>3 DEF Numbered
<1>4. QED
  BY <1>1, <1>2, <1>3
  DEF Next, Step, Start, ReadLeads, ReadThrottle, SkipLead, CommitChunk, AbortChunk,
      Finish, HandleInbound, HandleStatus, MarkReady, Tick, vars, run
-----------------------------------------------------------------------------
(* The refinement.  A chunk holds a permit for each lead it has read as    *)
(* sendable and not yet considered.                                        *)
LEMMA PermitStep ==
  ASSUME TypeOK, ChunkInv, Numbered, [Next]_vars
  PROVE  [Permit!Next]_(Permit!vars)
<1> DEFINE out == {l \in Lead : optedOut[l]}
           held == [r \in Run |-> chunk[r] \cap eligible[r]]
<1>1. ASSUME NEW r \in Run, ReadLeads(r) PROVE Permit!Grant(r)
  <2>1. PICK S \in SUBSET backlog[r] :
          /\ chunk' = [chunk EXCEPT ![r] = S]
          /\ eligible' = [eligible EXCEPT ![r] = {l \in S : Sendable(l)}]
    BY <1>1 DEF ReadLeads
  <2> DEFINE new == {l \in S : Sendable(l)}
  <2>2. held[r] = {}
    BY <1>1 DEF ReadLeads, ChunkInv
  <2>3. new \in SUBSET (Lead \ out)
    BY DEF TypeOK, Sendable
  <2>4. held' = [held EXCEPT ![r] = new]
    BY <2>1 DEF TypeOK
  <2>5. out' = out /\ accepted' = accepted
    BY <1>1 DEF ReadLeads, org
  <2>6. QED BY <2>2, <2>3, <2>4, <2>5 DEF Permit!Grant
<1>2. ASSUME NEW r \in Run, NEW S \in SUBSET chunk[r], chunk' = [chunk EXCEPT ![r] = S],
             UNCHANGED <<eligible, optedOut, accepted>>
      PROVE  Permit!Lapse(r)
  <2>1. held' = [held EXCEPT ![r] = S \cap eligible[r]]
    BY <1>2 DEF TypeOK
  <2>2. S \cap eligible[r] \in SUBSET held[r]
    OBVIOUS
  <2>3. QED BY <1>2, <2>1, <2>2 DEF Permit!Lapse
<1>3. ASSUME NEW r \in Run, SendLead(r) PROVE Permit!Lapse(r) \/ Permit!Deliver(r)
  <2>1. PICK l \in Lead : /\ Considers(r, l) /\ ~Blocked(r, l)
                          /\ SendOne(r, l)
                          /\ chunk' = [chunk EXCEPT ![r] = @ \ {l}]
    BY <1>3 DEF SendLead
  <2>2. l \in chunk[r] /\ l \in eligible[r]
    BY <2>1 DEF Considers, Blocked
  <2>3. UNCHANGED <<eligible, optedOut>>
    BY <1>3 DEF SendLead, org
  <2>4. CASE UNCHANGED accepted
    BY <1>2, <2>1, <2>3, <2>4
  <2>5. CASE accepted' # accepted
    <3> DEFINE m == [id |-> calls + 1, lead |-> l, at |-> now]
    <3>1. accepted' = accepted \cup {m}
      BY <2>1, <2>5 DEF SendOne
    <3>2. m \in Message /\ m.lead = l
      BY DEF TypeOK, Message
    <3>3. held' = [held EXCEPT ![r] = @ \ {l}]
      BY <2>1, <2>3 DEF TypeOK
    <3>4. m \in accepted' \ accepted
      BY <2>5, <3>1
    <3>5. l \in held[r] /\ out' = out
      BY <2>2, <2>3
    <3>6. QED BY <3>1, <3>2, <3>3, <3>4, <3>5 DEF Permit!Deliver
  <2>6. QED BY <2>4, <2>5
<1>4. ASSUME NEW r \in Run, EndChunk(r), UNCHANGED <<eligible, optedOut, accepted>>
      PROVE  Permit!Lapse(r)
  BY <1>2, <1>4 DEF EndChunk
<1>5. ASSUME NEW i \in Inbound, HandleInbound(i)
      PROVE  Permit!Next \/ UNCHANGED Permit!vars
  <2>1. PICK matched \in Lead \cup {NoLead} :
          optedOut' = [l \in Lead |-> optedOut[l] \/ (l = matched /\ Suppresses(i))]
    BY <1>5 DEF HandleInbound
  <2>2. UNCHANGED <<held, accepted>>
    BY <1>5 DEF HandleInbound, run
  <2>3. CASE matched \in Lead /\ Suppresses(i)
    <3>1. out' = out \cup {matched}
      BY <2>1, <2>3
    <3>2. QED BY <2>2, <2>3, <3>1 DEF Permit!Next, Permit!Stop
  <2>4. CASE ~(matched \in Lead /\ Suppresses(i))
    <3>1. out' = out
      BY <2>1, <2>4
    <3>2. QED BY <2>2, <3>1 DEF Permit!vars
  <2>5. QED BY <2>3, <2>4
<1>6. CASE UNCHANGED <<chunk, eligible, optedOut, accepted>>
  BY <1>6 DEF Permit!vars
<1>7. ASSUME NEW r \in Run, Step(r) \/ AbortChunk(r) PROVE Permit!Next \/ UNCHANGED Permit!vars
  <2>1. CASE SkipLead(r)
    <3>1. PICK l \in Lead : chunk' = [chunk EXCEPT ![r] = @ \ {l}]
      BY <2>1 DEF SkipLead
    <3>2. QED BY <1>2, <2>1, <3>1 DEF SkipLead, org, Permit!Next
  <2>2. CASE CommitChunk(r) \/ AbortChunk(r)
    BY <1>4, <2>2 DEF CommitChunk, AbortChunk, org, Permit!Next
  <2>3. CASE ReadThrottle(r) \/ Finish(r)
    BY <1>6, <2>3 DEF ReadThrottle, Finish, org, run
  <2>4. QED BY <1>1, <1>3, <1>7, <2>1, <2>2, <2>3 DEF Step, Permit!Next
<1>8. QED
  BY <1>5, <1>6, <1>7
  DEF Next, Start, HandleStatus, MarkReady, Tick, vars, org, run

(* An opt-out closes the send gate: OutreachSend implements SendPermit, so *)
(* once an opt-out has been committed only the chunks that had read the    *)
(* lead before can still message it, each of them once.                    *)
THEOREM GateRefinesPermit == Spec => GateImplementsPermit
<1>1. Init => ChunkInv /\ Numbered /\ Permit!Init
  BY DEF Init, ChunkInv, Numbered, Permit!Init
<1>2. TypeOK /\ ChunkInv /\ Numbered /\ [Next]_vars => (ChunkInv /\ Numbered)'
  BY ChunkStep, NumberedStep
<1>3. TypeOK /\ ChunkInv /\ Numbered /\ [Next]_vars => [Permit!Next]_(Permit!vars)
  BY PermitStep
<1>4. QED
  BY <1>1, <1>2, <1>3, TypeCorrect, PTL DEF Spec, GateImplementsPermit, Permit!Spec
-----------------------------------------------------------------------------
(* A callback changes nothing of a row but its delivery status.            *)
SameRow(x, y) ==
  /\ x.id = y.id /\ x.src = y.src /\ x.lead = y.lead /\ x.sid = y.sid
  /\ x.status = y.status /\ x.review = y.review /\ x.created = y.created

LEMMA UpdatedRow ==
  ASSUME TypeOK, NEW n, NEW d, NEW x \in log
  PROVE  SameRow(x, IF x.sid = n THEN [x EXCEPT !.delivery = d] ELSE x)
BY DEF TypeOK, Row, SameRow

(* How the log can change: by a whole chunk, by one message, by a stub, or *)
(* in the delivery status of its rows.                                     *)
LEMMA LogStep ==
  ASSUME TypeOK, [Next]_vars
  PROVE  \/ log' = log
         \/ \E r \in Run : /\ CommitChunk(r) /\ ~InsertFails(r)
                          /\ log' = log \cup {AttemptRow(a) : a \in attemptLog[r]}
         \/ \E i \in Inbound : HandleInbound(i)
         \/ \E n \in Nat, d \in DeliveryStatus :
              ~SidTaken(n) /\ log' = log \cup {StubRow(n, d)}
         \/ \E n \in Nat, d \in DeliveryStatus :
              log' = {IF row.sid = n THEN [row EXCEPT !.delivery = d] ELSE row : row \in log}
<1>1. ASSUME NEW n \in {m.id : m \in accepted}, NEW d \in DeliveryStatus,
             HandleStatus(n, d)
      PROVE  \/ ~SidTaken(n) /\ log' = log \cup {StubRow(n, d)}
             \/ log' = {IF row.sid = n THEN [row EXCEPT !.delivery = d] ELSE row : row \in log}
  BY <1>1 DEF HandleStatus
<1>2. \A n \in {m.id : m \in accepted} : n \in Nat
  BY DEF TypeOK, Message
<1>3. QED
  BY <1>1, <1>2
  DEF Next, Step, Start, ReadLeads, ReadThrottle, SkipLead, SendLead, CommitChunk,
      AbortChunk, Finish, MarkReady, Tick, vars, org

LEMMA RowsStay ==
  ASSUME TypeOK, [Next]_vars, NEW x \in log
  PROVE  \E y \in log' : SameRow(x, y)
<1>1. SameRow(x, x)
  BY DEF SameRow
<1>2. CASE log \subseteq log'
  BY <1>1, <1>2
<1>3. ASSUME NEW n \in Nat, NEW d \in DeliveryStatus,
             log' = {IF row.sid = n THEN [row EXCEPT !.delivery = d] ELSE row : row \in log}
      PROVE  \E y \in log' : SameRow(x, y)
  <2> DEFINE y == IF x.sid = n THEN [x EXCEPT !.delivery = d] ELSE x
  <2>1. y \in log'
    BY <1>3
  <2>2. SameRow(x, y)
    BY UpdatedRow
  <2>3. QED BY <2>1, <2>2
<1>4. (\E i \in Inbound : HandleInbound(i)) => log \subseteq log'
  BY DEF HandleInbound
<1>5. QED BY <1>2, <1>3, <1>4, LogStep
-----------------------------------------------------------------------------
LEMMA UniqueSidStep ==
  ASSUME TypeOK, Numbered, UniqueSid, [Next]_vars
  PROVE  UniqueSid'
<1> SUFFICES ASSUME NEW x \in log', NEW y \in log', x.sid = y.sid, x.sid # NoSid
             PROVE  x = y
  BY DEF UniqueSid
<1>1. CASE log' = log
  BY <1>1 DEF UniqueSid
<1>2. ASSUME NEW r \in Run, ~InsertFails(r),
             log' = log \cup {AttemptRow(a) : a \in attemptLog[r]}
      PROVE  x = y
  <2>1. \A a \in attemptLog[r] : AttemptRow(a).sid = a.sid
    BY DEF AttemptRow
  <2>2. \A a \in attemptLog[r], row \in log : a.sid # NoSid => row.sid # a.sid
    BY <1>2 DEF InsertFails, SidTaken
  <2>3. \A a, b \in attemptLog[r] : a.sid = b.sid /\ a.sid # NoSid => a = b
    BY DEF Numbered
  <2>4. CASE x \in log /\ y \in log
    BY <2>4 DEF UniqueSid
  <2>5. CASE x \in log /\ y \notin log
    BY <1>2, <2>1, <2>2, <2>5
  <2>6. CASE x \notin log /\ y \in log
    BY <1>2, <2>1, <2>2, <2>6
  <2>7. CASE x \notin log /\ y \notin log
    <3>1. PICK a \in attemptLog[r] : x = AttemptRow(a)
      BY <1>2, <2>7
    <3>2. PICK b \in attemptLog[r] : y = AttemptRow(b)
      BY <1>2, <2>7
    <3>3. a = b
      BY <2>1, <2>3, <3>1, <3>2
    <3>4. QED BY <3>1, <3>2, <3>3
  <2>8. QED BY <2>4, <2>5, <2>6, <2>7
<1>3. ASSUME NEW s, NEW new, new.sid = s, ~SidTaken(s), log' = log \cup {new}
      PROVE  x = y
  BY <1>3 DEF SidTaken, UniqueSid
<1>4. ASSUME NEW i \in Inbound, HandleInbound(i) PROVE x = y
  <2>1. PICK matched : log' = log \cup {InboundRow(i, matched)}
    BY <1>4 DEF HandleInbound
  <2>2. InboundRow(i, matched).sid = i
    BY DEF InboundRow
  <2>3. QED BY <1>3, <1>4, <2>1, <2>2 DEF HandleInbound
<1>5. ASSUME NEW n \in Nat, NEW d \in DeliveryStatus,
             ~SidTaken(n), log' = log \cup {StubRow(n, d)}
      PROVE  x = y
  <2>1. StubRow(n, d).sid = n
    BY DEF StubRow
  <2>2. QED BY <1>3, <1>5, <2>1
<1>6. ASSUME NEW n \in Nat, NEW d \in DeliveryStatus,
             log' = {IF row.sid = n THEN [row EXCEPT !.delivery = d] ELSE row : row \in log}
      PROVE  x = y
  <2>1. PICK v \in log : x = IF v.sid = n THEN [v EXCEPT !.delivery = d] ELSE v
    BY <1>6
  <2>2. PICK w \in log : y = IF w.sid = n THEN [w EXCEPT !.delivery = d] ELSE w
    BY <1>6
  <2>3. x.sid = v.sid /\ y.sid = w.sid
    BY <2>1, <2>2, UpdatedRow DEF SameRow
  <2>4. v = w
    BY <2>3 DEF UniqueSid
  <2>5. QED BY <2>1, <2>2, <2>4
<1>7. QED BY <1>1, <1>2, <1>4, <1>5, <1>6, LogStep

(* Provider_Message_Id__c stays unique under the three writers of the log. *)
THEOREM SidsAreUnique == Spec => []UniqueSid
<1>1. Init => Numbered /\ UniqueSid
  BY DEF Init, Numbered, UniqueSid
<1>2. TypeOK /\ Numbered /\ UniqueSid /\ [Next]_vars => (Numbered /\ UniqueSid)'
  BY NumberedStep, UniqueSidStep
<1>3. QED BY <1>1, <1>2, TypeCorrect, PTL DEF Spec
-----------------------------------------------------------------------------
LEMMA ContactedStep ==
  ASSUME TypeOK, ContactedIsLogged, [Next]_vars
  PROVE  ContactedIsLogged'
<1> SUFFICES ASSUME NEW l \in Lead, status'[l] = "Contacted"
             PROVE  \E row \in log' :
                      row.src = "attempt" /\ row.lead = l /\ row.status = "Sent"
  BY DEF ContactedIsLogged
<1>1. CASE status[l] = "Contacted"
  <2>1. PICK x \in log : x.src = "attempt" /\ x.lead = l /\ x.status = "Sent"
    BY <1>1 DEF ContactedIsLogged
  <2>2. QED BY <2>1, RowsStay DEF SameRow
<1>2. ASSUME NEW r \in Run, CommitChunk(r), status[l] # "Contacted"
      PROVE  \E row \in log' :
               row.src = "attempt" /\ row.lead = l /\ row.status = "Sent"
  <2>1. PICK a \in attemptLog[r] : a.status = "Sent" /\ a.lead = l
    BY <1>2 DEF CommitChunk, Contacted
  <2>2. log' = log \cup {AttemptRow(b) : b \in attemptLog[r]}
    BY <1>2 DEF CommitChunk
  <2>3. AttemptRow(a).src = "attempt" /\ AttemptRow(a).lead = l /\ AttemptRow(a).status = "Sent"
    BY <2>1 DEF AttemptRow
  <2>4. QED BY <2>2, <2>3
<1>3. ASSUME NEW i \in Inbound, HandleInbound(i) PROVE status'[l] = status[l] \/ status'[l] # "Contacted"
  BY <1>3 DEF HandleInbound
<1>4. ASSUME NEW m \in Lead, MarkReady(m) PROVE status'[l] = status[l] \/ status'[l] # "Contacted"
  BY <1>4 DEF MarkReady, TypeOK
<1>5. QED
  BY <1>1, <1>2, <1>3, <1>4
  DEF Next, Step, Start, ReadLeads, ReadThrottle, SkipLead, SendLead, AbortChunk, Finish,
      HandleStatus, Tick, vars, org

(* A lead is Contacted only with a Sent attempt in the log, through failed *)
(* inserts and killed transactions.                                        *)
THEOREM ContactedLeadsAreLogged == Spec => []ContactedIsLogged
<1>1. Init => ContactedIsLogged
  BY DEF Init, ContactedIsLogged
<1>2. TypeOK /\ ContactedIsLogged /\ [Next]_vars => ContactedIsLogged'
  BY ContactedStep
<1>3. QED BY <1>1, <1>2, TypeCorrect, PTL DEF Spec
-----------------------------------------------------------------------------
(* The rows of inbound messages come from HandleInbound alone.             *)
LEMMA InboundRowsStay ==
  ASSUME TypeOK, [Next]_vars, ~\E i \in Inbound : HandleInbound(i),
         NEW y \in log', y.src = "inbound"
  PROVE  \E x \in log : SameRow(x, y)
<1>1. CASE y \in log
  BY <1>1 DEF SameRow
<1>2. ASSUME NEW r \in Run, y \in {AttemptRow(a) : a \in attemptLog[r]}
      PROVE  FALSE
  BY <1>2 DEF AttemptRow
<1>3. ASSUME NEW n \in Nat, NEW d \in DeliveryStatus, y = StubRow(n, d)
      PROVE  FALSE
  BY <1>3 DEF StubRow
<1>4. ASSUME NEW n \in Nat, NEW d \in DeliveryStatus,
             log' = {IF row.sid = n THEN [row EXCEPT !.delivery = d] ELSE row : row \in log}
      PROVE  \E x \in log : SameRow(x, y)
  <2>1. PICK x \in log : y = IF x.sid = n THEN [x EXCEPT !.delivery = d] ELSE x
    BY <1>4
  <2>2. QED BY <2>1, UpdatedRow
<1>5. QED BY <1>1, <1>2, <1>3, <1>4, LogStep

LEMMA OptOutStep ==
  ASSUME TypeOK, OptOutHandled, [Next]_vars
  PROVE  OptOutHandled'
<1> DEFINE Handled(row) == /\ row.lead # NoLead => optedOut[row.lead]
                           /\ row.sid \in mirrorJobs \/ row.review
<1> SUFFICES ASSUME NEW y \in log', y.src = "inbound",
                    Verdict[y.sid] = "suppress_and_stop"
             PROVE  /\ y.lead # NoLead => optedOut'[y.lead]
                    /\ y.sid \in mirrorJobs' \/ y.review
  BY DEF OptOutHandled
<1>1. mirrorJobs \subseteq mirrorJobs' /\ \A l \in Lead : optedOut[l] => optedOut'[l]
  BY DEF Next, Step, Start, ReadLeads, ReadThrottle, SkipLead, SendLead, CommitChunk,
         AbortChunk, EndChunk, Finish, HandleInbound, HandleStatus, MarkReady, Tick, vars,
         org, TypeOK
<1>2. ASSUME NEW x \in log, SameRow(x, y)
      PROVE  /\ y.lead # NoLead => optedOut'[y.lead]
             /\ y.sid \in mirrorJobs' \/ y.review
  <2>1. x.src = "inbound" /\ x.lead = y.lead /\ x.sid = y.sid /\ x.review = y.review
    BY <1>2 DEF SameRow
  <2>2. x.lead \in Lead \cup {NoLead}
    BY DEF TypeOK, Row
  <2>3. (x.lead # NoLead => optedOut[x.lead]) /\ (x.sid \in mirrorJobs \/ x.review)
    BY <2>1 DEF OptOutHandled
  <2>4. QED BY <1>1, <2>1, <2>2, <2>3
<1>3. ASSUME NEW i \in Inbound, HandleInbound(i)
      PROVE  /\ y.lead # NoLead => optedOut'[y.lead]
             /\ y.sid \in mirrorJobs' \/ y.review
  <2>1. PICK matched \in Lead \cup {NoLead} :
          /\ log' = log \cup {InboundRow(i, matched)}
          /\ optedOut' = [l \in Lead |-> optedOut[l] \/ (l = matched /\ Suppresses(i))]
    BY <1>3 DEF HandleInbound
  <2>2. CASE y \in log
    BY <1>2, <2>2 DEF SameRow
  <2>3. CASE y = InboundRow(i, matched)
    <3>1. y.sid = i /\ y.lead = matched
      BY <2>3 DEF InboundRow
    <3>2. Suppresses(i)
      BY <3>1 DEF Suppresses
    <3>3. matched # NoLead => optedOut'[matched]
      BY <2>1, <3>2
    <3>4. CASE From[i] # NoPhone
      BY <1>3, <3>1, <3>2, <3>3, <3>4 DEF HandleInbound
    <3>5. CASE From[i] = NoPhone
      <4>1. y.review = NeedsReview(i) /\ NeedsReview(i)
        BY <2>3, <3>2, <3>5 DEF InboundRow, NeedsReview
      <4>2. QED BY <3>1, <3>3, <4>1
    <3>6. QED BY <3>4, <3>5
  <2>4. QED BY <2>1, <2>2, <2>3
<1>4. QED BY <1>2, <1>3, InboundRowsStay

(* The row of an opt-out is never in the log without the opt-out of its    *)
(* lead and either the mirror job or the request for a person.             *)
THEOREM OptOutsAreHandled == Spec => []OptOutHandled
<1>1. Init => OptOutHandled
  BY DEF Init, OptOutHandled
<1>2. TypeOK /\ OptOutHandled /\ [Next]_vars => OptOutHandled'
  BY OptOutStep
<1>3. QED BY <1>1, <1>2, TypeCorrect, PTL DEF Spec
-----------------------------------------------------------------------------
(* What follows holds with one batch at a time: chunks in flight do not    *)
(* see each other's sends, and both of these fail for them.                *)
SingleRun == \A r, s \in Run : r = s

(* A chunk has attempts only while it sends, one for each lead it has      *)
(* considered and found sendable.                                          *)
OncePerChunk ==
  \A r \in Run :
    /\ attemptLog[r] # {} => pc[r] = "sending"
    /\ \A a, b \in attemptLog[r] : a.lead = b.lead => a = b
    /\ \A a \in attemptLog[r] : a.lead \notin chunk[r]

LEMMA AddsAtMostOne ==
  ASSUME NEW S, NEW x, IsFiniteSet(S)
  PROVE  Cardinality(S \cup {x}) <= Cardinality(S) + 1
<1>1. Cardinality(S) \in Nat
  BY FS_CardinalityType
<1>2. Cardinality(S \cup {x}) \in {Cardinality(S), Cardinality(S) + 1}
  BY FS_AddElement
<1>3. QED BY <1>1, <1>2

LEMMA UnionBound ==
  ASSUME NEW S, NEW T, IsFiniteSet(S), IsFiniteSet(T)
  PROVE  IsFiniteSet(S \cup T) /\ Cardinality(S \cup T) <= Cardinality(S) + Cardinality(T)
<1>1. IsFiniteSet(S \cup T) /\ IsFiniteSet(S \cap T)
  BY FS_Union, FS_Subset
<1>2. Cardinality(S \cup T) = Cardinality(S) + Cardinality(T) - Cardinality(S \cap T)
  BY FS_Union
<1>3. Cardinality(S) \in Nat /\ Cardinality(T) \in Nat /\ Cardinality(S \cap T) \in Nat
  BY <1>1, FS_CardinalityType
<1>4. QED BY <1>1, <1>2, <1>3

(* An attempt carries the number of its callout.                           *)
LEMMA SendOneAdds ==
  ASSUME NEW r \in Run, NEW l \in Lead, SendOne(r, l)
  PROVE  \E new : /\ attemptLog' = [attemptLog EXCEPT ![r] = @ \cup {new}]
                  /\ new.lead = l /\ new.id = calls + 1
<1>1. PICK sid \in {calls + 1, NoSid}, result \in {"Sent", "Failed"} :
        attemptLog' = [attemptLog EXCEPT ![r] =
          @ \cup {[id |-> calls + 1, lead |-> l, sid |-> sid, status |-> result]}]
  BY DEF SendOne
<1> DEFINE n == [id |-> calls + 1, lead |-> l, sid |-> sid, status |-> result]
<1>2. n.lead = l /\ n.id = calls + 1
  OBVIOUS
<1>3. attemptLog' = [attemptLog EXCEPT ![r] = @ \cup {n}]
  BY <1>1
<1> HIDE DEF n
<1>4. QED BY <1>2, <1>3

LEMMA OncePerChunkStep ==
  ASSUME TypeOK, OncePerChunk, [Next]_vars
  PROVE  OncePerChunk'
<1>1. ASSUME NEW r \in Run, ReadLeads(r) PROVE OncePerChunk'
  <2>1. pc[r] = "chunking" /\ attemptLog[r] = {} /\ attemptLog' = attemptLog
    BY <1>1 DEF ReadLeads, OncePerChunk
  <2>2. \A s \in Run : s # r => pc'[s] = pc[s] /\ chunk'[s] = chunk[s]
    BY <1>1 DEF ReadLeads, TypeOK
  <2>3. QED BY <2>1, <2>2 DEF OncePerChunk
<1>2. ASSUME NEW r \in Run, NEW l, chunk' = [chunk EXCEPT ![r] = @ \ {l}],
             UNCHANGED <<pc, attemptLog>>
      PROVE  OncePerChunk'
  BY <1>2 DEF OncePerChunk, TypeOK
<1>3. ASSUME NEW r \in Run, SendLead(r) PROVE OncePerChunk'
  <2>1. PICK l \in Lead : /\ Considers(r, l) /\ SendOne(r, l)
                          /\ chunk' = [chunk EXCEPT ![r] = @ \ {l}]
    BY <1>3 DEF SendLead
  <2>2. pc' = pc /\ pc[r] = "sending" /\ l \in chunk[r]
    BY <1>3, <2>1 DEF SendLead, Considers
  <2>3. PICK new : /\ attemptLog' = [attemptLog EXCEPT ![r] = @ \cup {new}]
                   /\ new.lead = l
    BY <2>1, SendOneAdds
  <2>4. attemptLog'[r] = attemptLog[r] \cup {new} /\ chunk'[r] = chunk[r] \ {l}
    BY <2>1, <2>3 DEF TypeOK
  <2>5. \A s \in Run : s # r => attemptLog'[s] = attemptLog[s] /\ chunk'[s] = chunk[s]
    BY <2>1, <2>3 DEF TypeOK
  <2>6. \A a \in attemptLog[r] : a.lead # l
    BY <2>2 DEF OncePerChunk
  <2>7. QED BY <2>2, <2>3, <2>4, <2>5, <2>6 DEF OncePerChunk
<1>4. ASSUME NEW r \in Run, EndChunk(r) PROVE OncePerChunk'
  <2>1. attemptLog'[r] = {}
    BY <1>4 DEF EndChunk, TypeOK
  <2>2. \A s \in Run : s # r => /\ attemptLog'[s] = attemptLog[s]
                                /\ chunk'[s] = chunk[s] /\ pc'[s] = pc[s]
    BY <1>4 DEF EndChunk, TypeOK
  <2>3. QED BY <2>1, <2>2 DEF OncePerChunk
<1>5. ASSUME NEW r \in Run, NEW p, pc[r] # "sending", pc' = [pc EXCEPT ![r] = p],
             UNCHANGED <<chunk, attemptLog>>
      PROVE  OncePerChunk'
  BY <1>5 DEF OncePerChunk, TypeOK
<1>6. CASE UNCHANGED <<pc, chunk, attemptLog>>
  BY <1>6 DEF OncePerChunk
<1>7. ASSUME NEW r \in Run, Start(r) \/ ReadThrottle(r) \/ Finish(r) PROVE OncePerChunk'
  BY <1>5, <1>7 DEF Start, ReadThrottle, Finish, run
<1>8. ASSUME NEW r \in Run, SkipLead(r) PROVE OncePerChunk'
  BY <1>2, <1>8 DEF SkipLead
<1>9. ASSUME NEW r \in Run, CommitChunk(r) \/ AbortChunk(r) PROVE OncePerChunk'
  BY <1>4, <1>9 DEF CommitChunk, AbortChunk
<1>10. QED
  BY <1>1, <1>3, <1>6, <1>7, <1>8, <1>9
  DEF Next, Step, HandleInbound, HandleStatus, MarkReady, Tick, vars, org, run

(* The rows of the messages a lead was sent.  Whoever may still get one    *)
(* (is Ready, is read as sendable by the chunk, or has an attempt in it)   *)
(* has a mark that is not used up by the rows so far.                      *)
SentRows(l) == {row \in log : row.src = "attempt" /\ row.lead = l /\ row.status = "Sent"}

Owed(l) ==
  \/ status[l] = "Ready"
  \/ \E r \in Run : l \in chunk[r] \cap eligible[r]
  \/ \E r \in Run : \E a \in attemptLog[r] : a.lead = l

Spared ==
  \A l \in Lead : /\ Cardinality(SentRows(l)) <= marks[l]
                  /\ Owed(l) => Cardinality(SentRows(l)) + 1 <= marks[l]

(* What commits, stubs, inbound messages and callbacks do to those rows.   *)
LEMMA SentRowsFinite ==
  ASSUME FiniteTables, NEW l
  PROVE  IsFiniteSet(SentRows(l)) /\ Cardinality(SentRows(l)) \in Nat
<1>1. SentRows(l) \subseteq log
  BY DEF SentRows
<1>2. QED BY <1>1, FS_Subset, FS_CardinalityType DEF FiniteTables

LEMMA SentRowsStep ==
  ASSUME TypeOK, FiniteTables, OncePerChunk, [Next]_vars, NEW l \in Lead
  PROVE  \/ Cardinality(SentRows(l)') <= Cardinality(SentRows(l))
         \/ \E r \in Run : /\ CommitChunk(r)
                           /\ \E a \in attemptLog[r] : a.lead = l /\ a.status = "Sent"
                           /\ status'[l] = "Contacted"
                           /\ Cardinality(SentRows(l)') <= Cardinality(SentRows(l)) + 1
<1>0. IsFiniteSet(SentRows(l)) /\ Cardinality(SentRows(l)) \in Nat
  BY SentRowsFinite
<1>1. CASE SentRows(l)' = SentRows(l)
  BY <1>0, <1>1
<1>2. ASSUME NEW new, log' = log \cup {new}, new.src # "attempt"
      PROVE  SentRows(l)' = SentRows(l)
  BY <1>2 DEF SentRows
<1>3. ASSUME NEW r \in Run, CommitChunk(r), ~InsertFails(r),
             log' = log \cup {AttemptRow(a) : a \in attemptLog[r]}
      PROVE  \/ SentRows(l)' = SentRows(l)
             \/ /\ \E a \in attemptLog[r] : a.lead = l /\ a.status = "Sent"
                /\ status'[l] = "Contacted"
                /\ Cardinality(SentRows(l)') <= Cardinality(SentRows(l)) + 1
  <2>1. \A a \in attemptLog[r] : /\ AttemptRow(a).src = "attempt"
                                 /\ AttemptRow(a).lead = a.lead
                                 /\ AttemptRow(a).status = a.status
    BY DEF AttemptRow
  <2>2. CASE \A a \in attemptLog[r] : ~(a.lead = l /\ a.status = "Sent")
    BY <1>3, <2>1, <2>2 DEF SentRows
  <2>3. ASSUME NEW a \in attemptLog[r], a.lead = l, a.status = "Sent"
        PROVE  /\ status'[l] = "Contacted"
               /\ Cardinality(SentRows(l)') <= Cardinality(SentRows(l)) + 1
    <3>1. \A b \in attemptLog[r] : b.lead = l => b = a
      BY <2>3 DEF OncePerChunk
    <3>2. SentRows(l)' = SentRows(l) \cup {AttemptRow(a)}
      <4>1. SentRows(l)' \subseteq SentRows(l) \cup {AttemptRow(a)}
        BY <1>3, <2>1, <3>1 DEF SentRows
      <4>2. AttemptRow(a) \in SentRows(l)'
        BY <1>3, <2>1, <2>3 DEF SentRows
      <4>3. SentRows(l) \subseteq SentRows(l)'
        BY <1>3 DEF SentRows
      <4>4. QED BY <4>1, <4>2, <4>3
    <3>3. Cardinality(SentRows(l) \cup {AttemptRow(a)}) <= Cardinality(SentRows(l)) + 1
      BY <1>0, AddsAtMostOne
    <3>4. l \in Contacted(r)
      BY <2>3 DEF Contacted
    <3>5. status' = [m \in Lead |-> IF m \in Contacted(r) THEN "Contacted" ELSE status[m]]
      BY <1>3 DEF CommitChunk
    <3>6. QED BY <3>2, <3>3, <3>4, <3>5
  <2>4. QED BY <2>2, <2>3
<1>4. ASSUME NEW i \in Inbound, HandleInbound(i) PROVE SentRows(l)' = SentRows(l)
  <2>1. PICK matched : log' = log \cup {InboundRow(i, matched)}
    BY <1>4 DEF HandleInbound
  <2>2. InboundRow(i, matched).src = "inbound"
    BY DEF InboundRow
  <2>3. QED BY <1>2, <2>1, <2>2
<1>5. ASSUME NEW n \in Nat, NEW d \in DeliveryStatus, log' = log \cup {StubRow(n, d)}
      PROVE  SentRows(l)' = SentRows(l)
  <2>1. StubRow(n, d).src = "stub"
    BY DEF StubRow
  <2>2. QED BY <1>2, <1>5, <2>1
<1>6. ASSUME NEW n \in Nat, NEW d \in DeliveryStatus,
             log' = {IF row.sid = n THEN [row EXCEPT !.delivery = d] ELSE row : row \in log}
      PROVE  Cardinality(SentRows(l)') <= Cardinality(SentRows(l))
  <2> DEFINE U(x) == IF x.sid = n THEN [x EXCEPT !.delivery = d] ELSE x
             f == [x \in SentRows(l) |-> U(x)]
  <2>1. \A x \in log : SameRow(x, U(x))
    BY UpdatedRow
  <2>2. log' = {U(x) : x \in log}
    BY <1>6
  <2> HIDE DEF U
  <2>3. SentRows(l)' = {U(x) : x \in SentRows(l)}
    BY <2>1, <2>2 DEF SentRows, SameRow
  <2>4. f \in Surjection(SentRows(l), SentRows(l)')
    BY <2>3 DEF Surjection
  <2>5. QED BY <1>0, <2>4, FS_Surjection
<1>7. CASE log' = log
  BY <1>0, <1>7 DEF SentRows
<1>8. QED BY <1>0, <1>1, <1>3, <1>4, <1>5, <1>6, <1>7, LogStep

(* Nobody comes to be owed a message but by a mark.                        *)
LEMMA OwedStep ==
  ASSUME TypeOK, OncePerChunk, [Next]_vars, NEW l \in Lead, ~MarkReady(l), Owed(l)'
  PROVE  Owed(l)
<1>1. CASE status'[l] = "Ready"
  <2>1. status[l] = "Ready"
    BY <1>1 DEF Next, Step, Start, ReadLeads, ReadThrottle, SkipLead, SendLead, CommitChunk,
         AbortChunk, Finish, HandleInbound, HandleStatus, MarkReady, Tick, vars, org, TypeOK
  <2>2. QED BY <2>1 DEF Owed
<1>2. ASSUME NEW r \in Run, l \in chunk'[r] \cap eligible'[r] PROVE Owed(l)
  <2>1. ASSUME NEW s \in Run, ReadLeads(s) PROVE l \in chunk[r] \cap eligible[r] \/ status[l] = "Ready"
    <3>1. PICK S \in SUBSET backlog[s] :
            /\ chunk' = [chunk EXCEPT ![s] = S]
            /\ eligible' = [eligible EXCEPT ![s] = {m \in S : Sendable(m)}]
      BY <2>1 DEF ReadLeads
    <3>2. CASE r = s
      BY <1>2, <3>1, <3>2 DEF Sendable, TypeOK
    <3>3. CASE r # s
      BY <1>2, <3>1, <3>3 DEF TypeOK
    <3>4. QED BY <3>2, <3>3
  <2>2. eligible' = eligible /\ chunk'[r] \subseteq chunk[r] => l \in chunk[r] \cap eligible[r]
    BY <1>2
  <2>3. (\E s \in Run : SkipLead(s) \/ SendLead(s) \/ EndChunk(s)) => chunk'[r] \subseteq chunk[r]
    BY DEF SkipLead, SendLead, EndChunk, TypeOK
  <2>4. l \in chunk[r] \cap eligible[r] \/ status[l] = "Ready"
    BY <2>1, <2>2, <2>3, <1>2
    DEF Next, Step, Start, ReadThrottle, SkipLead, SendLead, CommitChunk,
        AbortChunk, Finish, HandleInbound, HandleStatus, MarkReady, Tick, vars, run
  <2>5. QED BY <2>4 DEF Owed
<1>3. ASSUME NEW r \in Run, NEW a \in attemptLog'[r], a.lead = l PROVE Owed(l)
  <2>1. CASE a \in attemptLog[r]
    BY <1>3, <2>1 DEF Owed
  <2>2. ASSUME NEW s \in Run, SendLead(s), a \notin attemptLog[r] PROVE l \in chunk[r] \cap eligible[r]
    <3>1. PICK m \in Lead : Considers(s, m) /\ ~Blocked(s, m) /\ SendOne(s, m)
      BY <2>2 DEF SendLead
    <3>2. PICK new : attemptLog' = [attemptLog EXCEPT ![s] = @ \cup {new}] /\ new.lead = m
      BY <3>1, SendOneAdds
    <3>3. r = s /\ a = new
      BY <2>2, <3>2 DEF TypeOK
    <3>4. QED BY <1>3, <3>1, <3>2, <3>3 DEF Considers, Blocked
  <2>3. (\E s \in Run : EndChunk(s)) => attemptLog'[r] \subseteq attemptLog[r]
    BY DEF EndChunk, TypeOK
  <2>4. a \in attemptLog[r] \/ l \in chunk[r] \cap eligible[r]
    BY <2>2, <2>3
    DEF Next, Step, Start, ReadLeads, ReadThrottle, SkipLead, CommitChunk,
        AbortChunk, Finish, HandleInbound, HandleStatus, MarkReady, Tick, vars, run
  <2>5. QED BY <2>1, <2>4 DEF Owed
<1>4. QED BY <1>1, <1>2, <1>3 DEF Owed

LEMMA SparedStep ==
  ASSUME SingleRun, TypeOK, FiniteTables, OncePerChunk, Spared, [Next]_vars
  PROVE  Spared'
<1> SUFFICES ASSUME NEW l \in Lead
             PROVE  /\ Cardinality(SentRows(l)') <= marks'[l]
                    /\ Owed(l)' => Cardinality(SentRows(l)') + 1 <= marks'[l]
  BY DEF Spared
<1> DEFINE before == Cardinality(SentRows(l))
           after == Cardinality(SentRows(l)')
<1>1. before \in Nat
  BY SentRowsFinite
<1>2. after \in Nat
  <2>1. FiniteTables'
    BY FiniteStep
  <2>2. SentRows(l)' \subseteq log'
    BY DEF SentRows
  <2>3. QED BY <2>1, <2>2, FS_Subset, FS_CardinalityType DEF FiniteTables
<1>3. marks[l] \in Nat /\ before <= marks[l] /\ (Owed(l) => before + 1 <= marks[l])
  BY DEF TypeOK, Spared
<1>4. marks'[l] = marks[l] \/ (MarkReady(l) /\ marks'[l] = marks[l] + 1 /\ log' = log)
  BY DEF Next, Step, Start, ReadLeads, ReadThrottle, SkipLead, SendLead, CommitChunk,
         AbortChunk, Finish, HandleInbound, HandleStatus, MarkReady, Tick, vars, TypeOK
<1>5. ASSUME MarkReady(l), marks'[l] = marks[l] + 1, log' = log
      PROVE  after <= marks'[l] /\ (Owed(l)' => after + 1 <= marks'[l])
  <2>1. after = before
    BY <1>5 DEF SentRows
  <2> HIDE DEF before, after
  <2>2. QED BY <1>1, <1>3, <1>5, <2>1
<1>6. ASSUME ~MarkReady(l), marks'[l] = marks[l], after <= before
      PROVE  after <= marks'[l] /\ (Owed(l)' => after + 1 <= marks'[l])
  <2>1. Owed(l)' => Owed(l)
    BY <1>6, OwedStep
  <2> HIDE DEF before, after
  <2>2. QED BY <1>1, <1>2, <1>3, <1>6, <2>1
<1>7. ASSUME NEW r \in Run, CommitChunk(r), marks'[l] = marks[l], status'[l] = "Contacted",
             NEW a \in attemptLog[r], a.lead = l, after <= before + 1
      PROVE  after <= marks'[l] /\ ~Owed(l)'
  <2>1. Owed(l)
    BY <1>7 DEF Owed
  <2>2. \A s \in Run : chunk'[s] = {} /\ attemptLog'[s] = {}
    BY <1>7 DEF SingleRun, CommitChunk, EndChunk, TypeOK
  <2>3. ~Owed(l)'
    BY <1>7, <2>2 DEF Owed
  <2> HIDE DEF before, after
  <2>4. QED BY <1>1, <1>2, <1>3, <1>7, <2>1, <2>3
<1>8. ~MarkReady(l) => marks'[l] = marks[l]
  BY <1>4
<1>9. MarkReady(l) => marks'[l] = marks[l] + 1 /\ log' = log
  BY DEF MarkReady, TypeOK
<1>10. QED BY <1>5, <1>6, <1>7, <1>8, <1>9, SentRowsStep

(* With one batch at a time a lead gets no second message the org knows to *)
(* be Sent unless a person put it on the Ready list again: the invariant   *)
(* is that whoever may still get a message has an unused mark.             *)
THEOREM OneSendForEveryMark == SingleRun => (Spec => []OneSendPerMarking)
<1> SUFFICES ASSUME SingleRun PROVE Spec => []OneSendPerMarking
  OBVIOUS
<1>1. Init => OncePerChunk /\ Spared
  <2> SUFFICES ASSUME Init PROVE OncePerChunk /\ Spared
    OBVIOUS
  <2>1. \A l \in Lead : SentRows(l) = {} /\ ~Owed(l) /\ marks[l] = 0
    BY DEF Init, SentRows, Owed
  <2>2. \A l \in Lead : Cardinality(SentRows(l)) = 0
    BY <2>1, FS_EmptySet
  <2>3. QED BY <2>1, <2>2 DEF Init, OncePerChunk, Spared
<1>2. TypeOK /\ FiniteTables /\ OncePerChunk /\ Spared /\ [Next]_vars
        => (OncePerChunk /\ Spared)'
  BY OncePerChunkStep, SparedStep
<1>3. Spared => OneSendPerMarking
  BY DEF Spared, OneSendPerMarking, SentRows
<1>4. QED BY <1>1, <1>2, <1>3, TypeCorrect, PTL DEF Spec
-----------------------------------------------------------------------------
(* Every attempt row is an old one or an attempt of the chunk committed.   *)
LEMMA AttemptRowsFrom ==
  ASSUME TypeOK, [Next]_vars, NEW y \in log', y.src = "attempt"
  PROVE  \/ \E x \in log : SameRow(x, y)
         \/ \E r \in Run : /\ CommitChunk(r) /\ ~InsertFails(r)
                           /\ \E a \in attemptLog[r] : y = AttemptRow(a)
<1>1. y \in log => \E x \in log : SameRow(x, y)
  BY DEF SameRow
<1>2. ASSUME NEW n \in Nat, NEW d \in DeliveryStatus, log' = log \cup {StubRow(n, d)}
      PROVE  y \in log
  BY <1>2 DEF StubRow
<1>3. ASSUME NEW i \in Inbound, HandleInbound(i) PROVE y \in log
  BY <1>3 DEF HandleInbound, InboundRow
<1>4. ASSUME NEW n \in Nat, NEW d \in DeliveryStatus,
             log' = {IF row.sid = n THEN [row EXCEPT !.delivery = d] ELSE row : row \in log}
      PROVE  \E x \in log : SameRow(x, y)
  <2>1. PICK x \in log : y = IF x.sid = n THEN [x EXCEPT !.delivery = d] ELSE x
    BY <1>4
  <2>2. QED BY <2>1, UpdatedRow
<1>5. QED BY <1>1, <1>2, <1>3, <1>4, LogStep

(* Every callout has its own number, and a row is not older than the       *)
(* message it stands for, so the row leaves the trailing hour no sooner.   *)
Dated ==
  /\ \A m \in accepted : m.at <= now
  /\ \A m, n \in accepted : m.id = n.id => m = n
  /\ \A row \in log : row.src = "attempt" =>
       /\ row.id \in Nat /\ row.id <= calls
       /\ \A m \in accepted : m.id = row.id => m.at <= row.created

LEMMA DatedStep ==
  ASSUME TypeOK, Numbered, Dated, [Next]_vars
  PROVE  Dated'
<1>1. /\ now \in Nat /\ calls \in Nat
      /\ \A m \in accepted : m.at \in Nat /\ m.id \in Nat /\ m.id <= calls
      /\ \A row \in log : row.created \in Nat
  BY DEF TypeOK, Message, Row, Numbered
<1>2. ASSUME NEW r \in Run, SendLead(r) PROVE Dated'
  <2>1. PICK l \in Lead : SendOne(r, l)
    BY <1>2 DEF SendLead
  <2>2. calls' = calls + 1 /\ now' = now /\ log' = log
    BY <1>2, <2>1 DEF SendLead, SendOne, org
  <2> DEFINE new == [id |-> calls + 1, lead |-> l, at |-> now]
  <2>3. accepted' \subseteq accepted \cup {new}
    BY <2>1 DEF SendOne
  <2>4. new.id = calls + 1 /\ new.at = now
    OBVIOUS
  <2> HIDE DEF new
  <2>5. \A m \in accepted : m.id # new.id
    BY <1>1, <2>4
  <2>6. \A m \in accepted' : m.at <= now'
    BY <1>1, <2>2, <2>3, <2>4 DEF Dated
  <2>7. \A m, n \in accepted' : m.id = n.id => m = n
    <3>1. SUFFICES ASSUME NEW m \in accepted', NEW n \in accepted', m.id = n.id
                   PROVE  m = n
      OBVIOUS
    <3>2. m \in accepted \cup {new} /\ n \in accepted \cup {new}
      BY <2>3
    <3>3. QED BY <2>5, <3>1, <3>2 DEF Dated
  <2>8. \A row \in log' : row.src = "attempt" =>
          /\ row.id \in Nat /\ row.id <= calls'
          /\ \A m \in accepted' : m.id = row.id => m.at <= row.created
    <3>1. SUFFICES ASSUME NEW row \in log, row.src = "attempt"
                   PROVE  /\ row.id \in Nat /\ row.id <= calls'
                          /\ \A m \in accepted' : m.id = row.id => m.at <= row.created
      BY <2>2
    <3>2. row.id \in Nat /\ row.id <= calls
      BY <3>1 DEF Dated
    <3>3. row.id # new.id
      BY <1>1, <2>4, <3>2
    <3>4. QED BY <1>1, <2>2, <2>3, <3>1, <3>2, <3>3 DEF Dated
  <2>9. QED BY <2>6, <2>7, <2>8 DEF Dated
<1>3. ASSUME ~\E r \in Run : SendLead(r)
      PROVE  accepted' = accepted /\ calls' = calls /\ now' \in Nat /\ now' >= now
  BY <1>1, <1>3
  DEF Next, Step, Start, ReadLeads, ReadThrottle, SkipLead, CommitChunk, AbortChunk,
      Finish, HandleInbound, HandleStatus, MarkReady, Tick, vars
<1>4. ASSUME ~\E r \in Run : SendLead(r),
             NEW y \in log', y.src = "attempt"
      PROVE  /\ y.id \in Nat /\ y.id <= calls
             /\ \A m \in accepted : m.id = y.id => m.at <= y.created
  <2>1. ASSUME NEW x \in log, SameRow(x, y)
        PROVE  /\ y.id \in Nat /\ y.id <= calls
               /\ \A m \in accepted : m.id = y.id => m.at <= y.created
    BY <1>4, <2>1 DEF SameRow, Dated
  <2>2. ASSUME NEW r \in Run, NEW a \in attemptLog[r], y = AttemptRow(a)
        PROVE  /\ y.id \in Nat /\ y.id <= calls
               /\ \A m \in accepted : m.id = y.id => m.at <= y.created
    <3>1. a.id \in Nat /\ a.id <= calls
      BY DEF TypeOK, Attempt, Numbered
    <3>2. y.id = a.id /\ y.created = now
      BY <2>2 DEF AttemptRow
    <3>3. QED BY <3>1, <3>2 DEF Dated
  <2>3. (\E x \in log : SameRow(x, y)) \/ \E r \in Run : \E a \in attemptLog[r] : y = AttemptRow(a)
    BY <1>4, AttemptRowsFrom
  <2>4. QED BY <2>1, <2>2, <2>3
<1>5. ASSUME ~\E r \in Run : SendLead(r) PROVE Dated'
  <2>1. \A m \in accepted' : m.at <= now'
    BY <1>1, <1>3, <1>5 DEF Dated
  <2>2. \A m, n \in accepted' : m.id = n.id => m = n
    BY <1>3, <1>5 DEF Dated
  <2>3. \A row \in log' : row.src = "attempt" =>
          /\ row.id \in Nat /\ row.id <= calls'
          /\ \A m \in accepted' : m.id = row.id => m.at <= row.created
    BY <1>3, <1>4, <1>5
  <2>4. QED BY <2>1, <2>2, <2>3 DEF Dated
<1>6. QED BY <1>2, <1>5

(* The attempts of the trailing hour that are in the log, by number: once  *)
(* a run has read the throttle they are among the rows it counted, and     *)
(* what it sends comes on top of them until it commits.                    *)
LoggedThisHour ==
  {row.id : row \in {x \in log : x.src = "attempt" /\ x.created >= now - TicksPerHour}}

Limited ==
  /\ Cardinality(LoggedThisHour) <= HourlyLimit
  /\ \A r \in Run :
       /\ attemptLog[r] # {} => sentThisHour[r] + CalloutsMade(r) <= HourlyLimit
       /\ pc[r] = "sending" => Cardinality(LoggedThisHour) <= sentThisHour[r]

(* The numbers of the attempts of a chunk.                                 *)
FlightIds(r) == {a.id : a \in attemptLog[r]}

LEMMA IdsFinite ==
  ASSUME FiniteTables
  PROVE  /\ IsFiniteSet(LoggedThisHour)
         /\ Cardinality(LoggedThisHour) \in Nat
         /\ CountSentThisHour \in Nat
         /\ Cardinality(LoggedThisHour) <= CountSentThisHour
<1> DEFINE recent == {x \in log : x.src = "attempt" /\ x.created >= now - TicksPerHour}
           counted == {row \in log : Outbound(row) /\ row.created >= now - TicksPerHour}
           f == [x \in recent |-> x.id]
<1>1. recent \subseteq counted /\ counted \subseteq log
  BY DEF Outbound
<1>2. IsFiniteSet(counted) /\ IsFiniteSet(recent)
  BY <1>1, FS_Subset DEF FiniteTables
<1>3. Cardinality(recent) <= Cardinality(counted)
  BY <1>1, <1>2, FS_Subset
<1>4. f \in Surjection(recent, LoggedThisHour)
  BY DEF Surjection, LoggedThisHour
<1>5. IsFiniteSet(LoggedThisHour) /\ Cardinality(LoggedThisHour) <= Cardinality(recent)
  BY <1>2, <1>4, FS_Surjection
<1>6. Cardinality(recent) \in Nat /\ Cardinality(counted) \in Nat
      /\ Cardinality(LoggedThisHour) \in Nat
  BY <1>2, <1>5, FS_CardinalityType
<1>7. CountSentThisHour = Cardinality(counted)
  BY DEF CountSentThisHour
<1> HIDE DEF recent, counted, f
<1>8. QED BY <1>3, <1>5, <1>6, <1>7

LEMMA FlightFinite ==
  ASSUME FiniteTables, NEW r \in Run
  PROVE  /\ IsFiniteSet(FlightIds(r))
         /\ Cardinality(FlightIds(r)) \in Nat
         /\ CalloutsMade(r) \in Nat
         /\ Cardinality(FlightIds(r)) <= CalloutsMade(r)
<1> DEFINE f == [a \in attemptLog[r] |-> a.id]
<1>1. f \in Surjection(attemptLog[r], FlightIds(r))
  BY DEF Surjection, FlightIds
<1>2. QED BY <1>1, FS_Surjection, FS_CardinalityType DEF FiniteTables, CalloutsMade

(* The trailing hour gains attempts only by the commit of a chunk.         *)
LEMMA LoggedStep ==
  ASSUME TypeOK, [Next]_vars
  PROVE  \/ LoggedThisHour' \subseteq LoggedThisHour
         \/ \E r \in Run : /\ CommitChunk(r)
                           /\ LoggedThisHour' \subseteq LoggedThisHour \cup FlightIds(r)
<1>1. now \in Nat /\ now' \in Nat /\ now' >= now /\ TicksPerHour \in Nat
  BY LimitAssumption
  DEF Next, Step, Start, ReadLeads, ReadThrottle, SkipLead, SendLead, CommitChunk,
      AbortChunk, Finish, HandleInbound, HandleStatus, MarkReady, Tick, vars, TypeOK
<1>2. \A x \in log : x.created \in Nat
  BY DEF TypeOK, Row
<1>3. ASSUME NEW y \in log', y.src = "attempt", y.created >= now' - TicksPerHour,
             NEW x \in log, SameRow(x, y)
      PROVE  y.id \in LoggedThisHour
  <2>1. x.created >= now - TicksPerHour /\ x.src = "attempt" /\ x.id = y.id
    BY <1>1, <1>2, <1>3 DEF SameRow
  <2>2. QED BY <2>1 DEF LoggedThisHour
<1>4. CASE \A y \in log' : y.src = "attempt" => \E x \in log : SameRow(x, y)
  BY <1>3, <1>4 DEF LoggedThisHour
<1>5. ASSUME NEW r \in Run, CommitChunk(r), ~InsertFails(r)
      PROVE  LoggedThisHour' \subseteq LoggedThisHour \cup FlightIds(r)
  <2>1. SUFFICES ASSUME NEW y \in log', y.src = "attempt", y.created >= now' - TicksPerHour
                 PROVE  y.id \in LoggedThisHour \cup FlightIds(r)
    BY DEF LoggedThisHour
  <2>2. CASE y \in log
    BY <1>3, <2>1, <2>2 DEF SameRow
  <2>3. ASSUME NEW a \in attemptLog[r], y = AttemptRow(a) PROVE y.id \in FlightIds(r)
    BY <2>3 DEF AttemptRow, FlightIds
  <2>4. log' = log \cup {AttemptRow(a) : a \in attemptLog[r]}
    BY <1>5 DEF CommitChunk
  <2>5. QED BY <2>2, <2>3, <2>4
<1>6. CASE ~\E r \in Run : CommitChunk(r) /\ ~InsertFails(r)
  <2>1. \A y \in log' : y.src = "attempt" => \E x \in log : SameRow(x, y)
    BY <1>6, AttemptRowsFrom
  <2>2. QED BY <1>4, <2>1
<1>7. QED BY <1>5, <1>6

LEMMA LimitedStep ==
  ASSUME SingleRun, TypeOK, FiniteTables, OncePerChunk, Limited, [Next]_vars
  PROVE  Limited'
<1> DEFINE before == Cardinality(LoggedThisHour)
           after == Cardinality(LoggedThisHour')
<1>1. /\ before \in Nat /\ after \in Nat /\ HourlyLimit \in Nat
      /\ before <= HourlyLimit
      /\ \A r \in Run : /\ sentThisHour[r] \in Nat
                        /\ CalloutsMade(r) \in Nat
                        /\ attemptLog[r] # {} => sentThisHour[r] + CalloutsMade(r) <= HourlyLimit
                        /\ pc[r] = "sending" => before <= sentThisHour[r]
  <2>1. /\ IsFiniteSet(LoggedThisHour)
        /\ \A r \in Run : IsFiniteSet(LoggedThisHour \cup FlightIds(r))
    BY IdsFinite, FlightFinite, FS_Union
  <2>2. before \in Nat
    BY IdsFinite
  <2>3. after \in Nat
    BY <2>1, LoggedStep, FS_Subset, FS_CardinalityType
  <2>4. \A r \in Run : CalloutsMade(r) \in Nat
    BY FlightFinite
  <2>5. QED BY <2>2, <2>3, <2>4, LimitAssumption DEF Limited, TypeOK
<1>2. LoggedThisHour' \subseteq LoggedThisHour => after <= before
  BY IdsFinite, FS_Subset
<1>3. ASSUME LoggedThisHour' \subseteq LoggedThisHour,
             UNCHANGED <<sentThisHour, attemptLog>>,
             \A r \in Run : pc'[r] = "sending" => pc[r] = "sending"
      PROVE  Limited'
  <2>1. after <= before
    BY <1>2, <1>3
  <2>2. \A r \in Run : CalloutsMade(r)' = CalloutsMade(r)
    BY <1>3 DEF CalloutsMade
  <2>3. SUFFICES /\ after <= HourlyLimit
                 /\ \A r \in Run :
                      /\ attemptLog'[r] # {} => sentThisHour'[r] + CalloutsMade(r)' <= HourlyLimit
                      /\ pc'[r] = "sending" => after <= sentThisHour'[r]
    BY DEF Limited
  <2> HIDE DEF before, after
  <2>4. QED BY <1>1, <1>3, <2>1, <2>2
<1>4. ASSUME NEW r \in Run, ReadThrottle(r) PROVE Limited'
  <2>1. LoggedThisHour' = LoggedThisHour
    BY <1>4 DEF ReadThrottle, LoggedThisHour, org
  <2>2. before <= CountSentThisHour
    BY IdsFinite
  <2>3. pc[r] = "counting" /\ attemptLog[r] = {} /\ attemptLog' = attemptLog
    BY <1>4 DEF ReadThrottle, OncePerChunk
  <2>4. sentThisHour'[r] = CountSentThisHour
    BY <1>4 DEF ReadThrottle, TypeOK
  <2>5. \A s \in Run : attemptLog'[s] = {} /\ before <= sentThisHour'[s]
    BY <2>2, <2>3, <2>4 DEF SingleRun
  <2>6. QED BY <1>1, <2>1, <2>5 DEF Limited
<1>5. ASSUME NEW r \in Run, SendLead(r) PROVE Limited'
  <2>1. PICK l \in Lead : ~Blocked(r, l) /\ SendOne(r, l)
    BY <1>5 DEF SendLead
  <2>2. LoggedThisHour' = LoggedThisHour /\ sentThisHour' = sentThisHour
    BY <1>5 DEF SendLead, LoggedThisHour, org
  <2>3. pc[r] = "sending" /\ pc' = pc
    BY <1>5 DEF SendLead
  <2>4. PICK new : attemptLog' = [attemptLog EXCEPT ![r] = @ \cup {new}]
    BY <2>1, SendOneAdds
  <2>5. attemptLog'[r] = attemptLog[r] \cup {new}
    BY <2>4 DEF TypeOK
  <2>6. CalloutsMade(r)' <= CalloutsMade(r) + 1 /\ CalloutsMade(r)' \in Nat
    <3>1. IsFiniteSet(attemptLog[r]) /\ IsFiniteSet(attemptLog[r] \cup {new})
      BY FS_AddElement DEF FiniteTables
    <3>2. QED BY <2>5, <3>1, AddsAtMostOne, FS_CardinalityType DEF CalloutsMade
  <2>7. sentThisHour[r] + CalloutsMade(r) < HourlyLimit
    <3>1. ~(sentThisHour[r] + CalloutsMade(r) >= HourlyLimit)
      BY <2>1 DEF Blocked
    <3>2. QED BY <1>1, <3>1
  <2>8. sentThisHour'[r] + CalloutsMade(r)' <= HourlyLimit
    BY <1>1, <2>2, <2>6, <2>7
  <2>9. \A s \in Run : s = r
    BY DEF SingleRun
  <2>10. \A s \in Run : /\ sentThisHour'[s] + CalloutsMade(s)' <= HourlyLimit
                        /\ pc'[s] = "sending" => after <= sentThisHour'[s]
    BY <1>1, <2>2, <2>3, <2>8, <2>9
  <2>11. QED BY <1>1, <2>2, <2>10 DEF Limited
<1>6. ASSUME NEW r \in Run, EndChunk(r), after <= HourlyLimit PROVE Limited'
  <2>1. attemptLog'[r] = {} /\ pc'[r] = "chunking"
    BY <1>6 DEF EndChunk, TypeOK
  <2>2. \A s \in Run : attemptLog'[s] = {} /\ pc'[s] = "chunking"
    BY <2>1 DEF SingleRun
  <2>3. QED BY <1>6, <2>2 DEF Limited
<1>7. ASSUME NEW r \in Run, CommitChunk(r), LoggedThisHour' \subseteq LoggedThisHour \cup FlightIds(r)
      PROVE  after <= HourlyLimit
  <2>1. CASE attemptLog[r] = {}
    <3>1. LoggedThisHour' \subseteq LoggedThisHour
      BY <1>7, <2>1 DEF FlightIds
    <3>2. after <= before
      BY <1>2, <3>1
    <3> HIDE DEF before, after
    <3>3. QED BY <1>1, <3>2
  <2>2. CASE attemptLog[r] # {}
    <3> DEFINE all == LoggedThisHour \cup FlightIds(r)
    <3>1. /\ IsFiniteSet(LoggedThisHour) /\ IsFiniteSet(FlightIds(r))
          /\ Cardinality(FlightIds(r)) \in Nat
          /\ Cardinality(FlightIds(r)) <= CalloutsMade(r)
      BY IdsFinite, FlightFinite
    <3>2. IsFiniteSet(all) /\ Cardinality(all) <= before + Cardinality(FlightIds(r))
      BY <3>1, UnionBound
    <3>3. after <= Cardinality(all) /\ Cardinality(all) \in Nat
      BY <1>7, <3>2, FS_Subset, FS_CardinalityType
    <3>4. before <= sentThisHour[r] /\ sentThisHour[r] + CalloutsMade(r) <= HourlyLimit
          /\ sentThisHour[r] \in Nat /\ CalloutsMade(r) \in Nat
      BY <1>1, <1>7, <2>2 DEF CommitChunk
    <3> HIDE DEF before, after, all
    <3>5. QED BY <1>1, <3>1, <3>2, <3>3, <3>4
  <2>3. QED BY <2>1, <2>2
<1>8. ASSUME NEW r \in Run, CommitChunk(r) PROVE Limited'
  <2>1. after <= HourlyLimit
    <3>1. CASE LoggedThisHour' \subseteq LoggedThisHour
      <4>1. after <= before
        BY <1>2, <3>1
      <4> HIDE DEF before, after
      <4>2. QED BY <1>1, <4>1
    <3>2. QED BY <1>7, <3>1, LoggedStep
  <2>2. EndChunk(r)
    BY <1>8 DEF CommitChunk
  <2>3. QED BY <1>6, <2>1, <2>2
<1>9. ASSUME ~\E r \in Run : CommitChunk(r) PROVE LoggedThisHour' \subseteq LoggedThisHour
  BY <1>9, LoggedStep
<1>10. ASSUME NEW r \in Run, AbortChunk(r) PROVE Limited'
  <2>1. LoggedThisHour' = LoggedThisHour
    BY <1>10 DEF AbortChunk, LoggedThisHour, org
  <2>2. EndChunk(r)
    BY <1>10 DEF AbortChunk
  <2>3. after = before
    BY <2>1
  <2>4. after <= HourlyLimit
    BY <1>1, <2>3
  <2>5. QED BY <1>6, <2>2, <2>4
<1>11. ASSUME \/ \E r \in Run : Start(r) \/ ReadLeads(r) \/ SkipLead(r) \/ Finish(r)
              \/ UNCHANGED <<pc, sentThisHour, attemptLog>>,
              ~\E r \in Run : CommitChunk(r)
       PROVE  Limited'
  <2>1. UNCHANGED <<sentThisHour, attemptLog>>
    BY <1>11 DEF Start, ReadLeads, SkipLead, Finish, run
  <2>2. \A r \in Run : pc'[r] = "sending" => pc[r] = "sending"
    BY <1>11 DEF Start, ReadLeads, SkipLead, Finish, TypeOK
  <2>3. QED BY <1>3, <1>9, <1>11, <2>1, <2>2
<1>12. QED
  BY <1>4, <1>5, <1>8, <1>10, <1>11
  DEF Next, Step, HandleInbound, HandleStatus, MarkReady, Tick, vars, run

(* The messages known to the org are among the logged and the flying.      *)
LEMMA LimitedCaps ==
  ASSUME SingleRun, TypeOK, FiniteTables, OncePerChunk, Dated, Limited
  PROVE  HourlyCap
<1> DEFINE known == {m \in accepted :
             m.at >= now - TicksPerHour /\ (InFlight(m.id) \/ AttemptLogged(m.id))}
           f == [m \in known |-> m.id]
<1>0. now \in Nat /\ TicksPerHour \in Nat /\ HourlyLimit \in Nat
  BY LimitAssumption DEF TypeOK
<1>1. ASSUME NEW m \in known, AttemptLogged(m.id) PROVE m.id \in LoggedThisHour
  <2>1. PICK row \in log : row.src = "attempt" /\ row.id = m.id
    BY <1>1 DEF AttemptLogged
  <2>2. m.at <= row.created
    BY <2>1 DEF Dated
  <2>3. m.at \in Nat /\ row.created \in Nat
    BY DEF TypeOK, Message, Row
  <2>4. row.created >= now - TicksPerHour
    BY <1>0, <2>2, <2>3
  <2>5. QED BY <2>1, <2>4 DEF LoggedThisHour
<1>2. \A m, n \in known : f[m] = f[n] => m = n
  BY DEF Dated
<1>3. ASSUME NEW S, IsFiniteSet(S), \A m \in known : m.id \in S
      PROVE  Cardinality(known) <= Cardinality(S)
  <2>1. f \in Injection(known, S)
    BY <1>2, <1>3 DEF Injection, IsInjective
  <2>2. QED BY <1>3, <2>1, FS_Injection
<1>4. CASE \A r \in Run : attemptLog[r] = {}
  <2>1. \A m \in known : m.id \in LoggedThisHour
    BY <1>1, <1>4 DEF InFlight
  <2>2. IsFiniteSet(LoggedThisHour)
    BY IdsFinite
  <2>3. Cardinality(known) <= Cardinality(LoggedThisHour)
    BY <1>3, <2>1, <2>2
  <2>4. IsFiniteSet(known)
    <3>1. f \in Injection(known, LoggedThisHour)
      BY <1>2, <2>1 DEF Injection, IsInjective
    <3>2. QED BY <2>2, <3>1, FS_Injection
  <2>5. Cardinality(known) \in Nat /\ Cardinality(LoggedThisHour) \in Nat
    BY <2>2, <2>4, FS_CardinalityType
  <2>6. Cardinality(LoggedThisHour) <= HourlyLimit
    BY DEF Limited
  <2>7. Cardinality(known) <= HourlyLimit
    <3> HIDE DEF known
    <3>1. QED BY <1>0, <2>3, <2>5, <2>6
  <2>8. QED BY <2>7 DEF HourlyCap
<1>5. ASSUME NEW r \in Run, attemptLog[r] # {} PROVE HourlyCap
  <2> DEFINE all == LoggedThisHour \cup FlightIds(r)
  <2>1. /\ IsFiniteSet(LoggedThisHour) /\ IsFiniteSet(FlightIds(r))
        /\ Cardinality(LoggedThisHour) \in Nat
        /\ Cardinality(FlightIds(r)) \in Nat
        /\ CalloutsMade(r) \in Nat
        /\ Cardinality(FlightIds(r)) <= CalloutsMade(r)
    BY IdsFinite, FlightFinite
  <2>2. IsFiniteSet(all) /\ Cardinality(all) <= Cardinality(LoggedThisHour) + Cardinality(FlightIds(r))
    BY <2>1, UnionBound
  <2>3. \A m \in known : m.id \in all
    <3>1. \A m \in known : InFlight(m.id) => m.id \in FlightIds(r)
      BY DEF InFlight, FlightIds, SingleRun
    <3>2. QED BY <1>1, <3>1
  <2>4. Cardinality(known) <= Cardinality(all)
    BY <1>3, <2>2, <2>3
  <2>5. IsFiniteSet(known)
    <3>1. f \in Injection(known, all)
      BY <1>2, <2>3 DEF Injection, IsInjective
    <3>2. QED BY <2>2, <3>1, FS_Injection
  <2>6. Cardinality(known) \in Nat /\ Cardinality(all) \in Nat
    BY <2>2, <2>5, FS_CardinalityType
  <2>7. /\ sentThisHour[r] \in Nat
        /\ Cardinality(LoggedThisHour) <= sentThisHour[r]
        /\ sentThisHour[r] + CalloutsMade(r) <= HourlyLimit
    BY <1>5 DEF Limited, OncePerChunk, TypeOK
  <2>8. Cardinality(known) <= HourlyLimit
    <3> HIDE DEF known, all
    <3>1. QED BY <1>0, <2>1, <2>2, <2>4, <2>6, <2>7
  <2>9. QED BY <2>8 DEF HourlyCap
<1>6. QED BY <1>4, <1>5

(* With one batch at a time the accepted messages of any trailing hour     *)
(* that were not lost with their transaction stay within the hourly limit, *)
(* whatever the limit, the clock and the order of chunks and callbacks.    *)
THEOREM HourlyLimitHolds == SingleRun => (Spec => []HourlyCap)
<1> SUFFICES ASSUME SingleRun PROVE Spec => []HourlyCap
  OBVIOUS
<1>1. Init => Numbered /\ OncePerChunk /\ Dated /\ Limited
  <2> SUFFICES ASSUME Init PROVE Numbered /\ OncePerChunk /\ Dated /\ Limited
    OBVIOUS
  <2>1. LoggedThisHour = {} /\ \A r \in Run : pc[r] = "idle" /\ attemptLog[r] = {}
    BY DEF Init, LoggedThisHour
  <2>2. Cardinality(LoggedThisHour) = 0 /\ HourlyLimit \in Nat
    BY <2>1, FS_EmptySet, LimitAssumption
  <2>3. Limited
    BY <2>1, <2>2 DEF Limited
  <2>4. QED BY <2>1, <2>3 DEF Init, Numbered, OncePerChunk, Dated
<1>2. TypeOK /\ FiniteTables /\ Numbered /\ OncePerChunk /\ Dated /\ Limited /\ [Next]_vars
        => (Numbered /\ OncePerChunk /\ Dated /\ Limited)'
  BY NumberedStep, OncePerChunkStep, DatedStep, LimitedStep
<1>3. TypeOK /\ FiniteTables /\ OncePerChunk /\ Dated /\ Limited => HourlyCap
  BY LimitedCaps
<1>4. QED BY <1>1, <1>2, <1>3, TypeCorrect, PTL DEF Spec
=============================================================================
