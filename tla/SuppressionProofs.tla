-------------------------- MODULE SuppressionProofs --------------------------
(***************************************************************************)
(* Theorems about the two halves of suppression: SuppressionStore, for any *)
(* number of processes, events, keys and pages, and for any TTL; and       *)
(* OptOutMirror, for any opt-outs and number of attempts.                  *)
(***************************************************************************)
EXTENDS SuppressionStore, OptOutMirror, TLAPS

(* What a process must not miss: its own events, and the events that were  *)
(* in the log before its listing began.                                    *)
Owed(s, e) == e \in own[s] \/ e.on < since[s]

(* The listing has got beyond the key of e.                                *)
Passed(s, e) == listed[s] \/ e.key <= token[s]

ListingInv ==
  /\ \A e \in events : e.on <= now
  /\ \A s \in Store :
       /\ loading[s] = "no" => token[s] = 0 /\ read[s] = {} /\ ~listed[s]
       /\ since[s] <= now
       /\ own[s] \subseteq events /\ read[s] \subseteq events
       /\ \A e \in events : loading[s] # "no" /\ Owed(s, e) /\ Passed(s, e) => e \in read[s]

(* The events the cache of s has had to see: its own, and those older than *)
(* its last load.                                                          *)
Known(s, e) == e \in own[s] \/ (loadedAt[s] # Never /\ e.on < loadedAt[s])

CacheInv ==
  \A s \in Store :
    /\ loadedAt[s] # Never => loadedAt[s] <= now
    /\ \A i \in Identifier :
         cache[s][i] # Never => \E e \in events : e.id = i /\ e.at = cache[s][i]
    /\ \A e \in events : Known(s, e) => cache[s][e.id] # Never /\ cache[s][e.id] <= e.at

LEMMA EndLoadType ==
  ASSUME TypeOK, NEW s \in Store, EndLoad(s)
  PROVE  /\ loading' \in [Store -> {"no", "query", "export"}]
         /\ since' \in [Store -> Nat] /\ token' \in [Store -> Key \cup {0}]
         /\ read' \in [Store -> SUBSET Event] /\ listed' \in [Store -> BOOLEAN]
BY DEF TypeOK, EndLoad

LEMMA NewEventType ==
  ASSUME TypeOK, NEW k \in Key, NEW i \in Identifier, NEW t \in Instant
  PROVE  NewEvent(k, i, t) \in Event
BY DEF TypeOK, NewEvent, Event

LEMMA TypeStep ==
  ASSUME TypeOK, [Next]_vars
  PROVE  TypeOK'
<1> USE StoreAssumption DEF TypeOK, listing
<1>1. CASE Tick
  BY <1>1 DEF Tick
<1>2. ASSUME NEW i \in Identifier, NEW t \in Instant, AppendElsewhere(i, t) PROVE TypeOK'
  <2>1. events' \subseteq Event
    BY <1>2, NewEventType DEF AppendElsewhere, Put
  <2>2. QED BY <1>2, <2>1 DEF AppendElsewhere
<1>3. ASSUME NEW s \in Store, BeginLoad(s) PROVE TypeOK'
  BY <1>3 DEF BeginLoad
<1>4. ASSUME NEW s \in Store, LoadPage(s) PROVE TypeOK'
  <2>1. PICK P \in SUBSET Unlisted(s) :
          /\ read' = [read EXCEPT ![s] = @ \cup P]
          /\ \/ token' = token /\ listed' = [listed EXCEPT ![s] = TRUE]
             \/ listed' = listed /\ \E e \in P : token' = [token EXCEPT ![s] = e.key]
    BY <1>4 DEF LoadPage
  <2>2. P \subseteq Event
    BY DEF Unlisted
  <2>3. read' \in [Store -> SUBSET Event]
    BY <2>1, <2>2
  <2>4. token' \in [Store -> Key \cup {0}]
    BY <2>1, <2>2 DEF Event
  <2>5. listed' \in [Store -> BOOLEAN]
    BY <2>1
  <2>6. QED BY <1>4, <2>3, <2>4, <2>5 DEF LoadPage
<1>5. ASSUME NEW s \in Store, FinishQuery(s) PROVE TypeOK'
  BY <1>5, EndLoadType DEF FinishQuery, LoadTime
<1>6. ASSUME NEW s \in Store, FinishExport(s) PROVE TypeOK'
  <2>1. {e.id : e \in read[s]} \subseteq Identifier
    BY DEF Event
  <2>2. snapshot' \in Snapshot
    BY <1>6, <2>1 DEF FinishExport, Snapshot
  <2>3. QED BY <1>6, <2>2, EndLoadType DEF FinishExport
<1>7. ASSUME NEW s \in Store, LoadFails(s) PROVE TypeOK'
  BY <1>7, EndLoadType DEF LoadFails
<1>8. ASSUME NEW s \in Store, Restart(s) PROVE TypeOK'
  BY <1>8, EndLoadType DEF Restart, EmptyCache
<1>9. ASSUME NEW s \in Store, NEW i \in Identifier, NEW t \in Instant,
             AddSuppression(s, i, t)
      PROVE  TypeOK'
  <2>1. PICK k \in Key : /\ events' = events \cup {NewEvent(k, i, t)}
                         /\ own' = [own EXCEPT ![s] = @ \cup {NewEvent(k, i, t)}]
    BY <1>9 DEF AddSuppression, Put
  <2>2. events' \subseteq Event /\ own' \in [Store -> SUBSET Event]
    BY <2>1, NewEventType
  <2>3. cache' \in [Store -> [Identifier -> Instant \cup {Never}]]
    BY <1>9 DEF AddSuppression, Sooner
  <2>4. QED BY <1>9, <2>2, <2>3 DEF AddSuppression
<1>10. CASE UNCHANGED vars
  BY <1>10 DEF vars
<1>11. QED
  BY <1>1, <1>2, <1>3, <1>4, <1>5, <1>6, <1>7, <1>8, <1>9, <1>10 DEF Next, Step

LEMMA TypeInit == Init => TypeOK
BY StoreAssumption DEF Init, TypeOK, EmptyCache, Snapshot

(* The log, the caches and the listings have their types.                  *)
THEOREM TypeCorrect == Spec => []TypeOK
BY TypeInit, TypeStep, PTL DEF Spec

-----------------------------------------------------------------------------
(* The listing misses nothing that is due.                                 *)

LEMMA EventFields ==
  ASSUME TypeOK, NEW e \in events
  PROVE  e.key \in Key /\ e.id \in Identifier /\ e.at \in Instant /\ e.on \in Nat
BY DEF TypeOK, Event

LEMMA KeysAreNumbers == Key \cup {0} \subseteq Nat
BY StoreAssumption

(* An event appended during a listing is not due in it.                    *)
LEMMA ListingNewEvent ==
  ASSUME TypeOK, ListingInv, NEW k \in Key, NEW i \in Identifier, NEW t \in Instant,
         events' = events \cup {NewEvent(k, i, t)}, UNCHANGED <<now, listing>>,
         NEW mine \in Store,
         \/ own' = own
         \/ /\ loading[mine] = "no"
            /\ own' = [own EXCEPT ![mine] = @ \cup {NewEvent(k, i, t)}]
  PROVE  ListingInv'
<1> DEFINE new == NewEvent(k, i, t)
<1>1. new.on = now /\ now \in Nat
  BY DEF NewEvent, TypeOK
<1>2. \A e \in events' : e.on <= now'
  BY <1>1 DEF ListingInv
<1>3. ASSUME NEW s \in Store
      PROVE  /\ loading'[s] = "no" => token'[s] = 0 /\ read'[s] = {} /\ ~listed'[s]
             /\ since'[s] <= now'
             /\ own'[s] \subseteq events' /\ read'[s] \subseteq events'
             /\ \A e \in events' :
                  loading'[s] # "no" /\ Owed(s, e)' /\ Passed(s, e)' => e \in read'[s]
  <2>1. UNCHANGED <<loading, since, token, read, listed>>
    BY DEF listing
  <2>2. own'[s] = own[s] \/ (loading[s] = "no" /\ own'[s] = own[s] \cup {new})
    BY DEF TypeOK
  <2>3. own'[s] \subseteq events' /\ read'[s] \subseteq events'
    BY <2>1, <2>2 DEF ListingInv
  <2>4. ASSUME loading[s] # "no", NEW e \in events', Owed(s, e)', Passed(s, e)'
        PROVE  e \in read[s]
    <3>1. own'[s] = own[s]
      BY <2>2, <2>4
    <3>2. Owed(s, e) /\ Passed(s, e)
      BY <2>1, <2>4, <3>1 DEF Owed, Passed
    <3>3. ~(new.on < since[s])
      BY <1>1 DEF ListingInv, TypeOK
    <3>4. e \in events
      BY <3>2, <3>3 DEF Owed, ListingInv
    <3>5. QED BY <2>4, <3>2, <3>4 DEF ListingInv
  <2>5. QED BY <2>1, <2>3, <2>4 DEF ListingInv
<1>4. QED BY <1>2, <1>3 DEF ListingInv

(* A page has every unlisted key up to the new token.                      *)
LEMMA ListingPage ==
  ASSUME TypeOK, ListingInv, NEW s \in Store, LoadPage(s)
  PROVE  ListingInv'
<1>1. UNCHANGED <<now, events, loading, since, own>>
  BY DEF LoadPage
<1>2. PICK P \in SUBSET Unlisted(s) :
        /\ IsPage(P, s)
        /\ read' = [read EXCEPT ![s] = @ \cup P]
        /\ \/ P = Unlisted(s) /\ listed' = [listed EXCEPT ![s] = TRUE] /\ token' = token
           \/ /\ \E e \in P : /\ \A d \in P : d.key <= e.key
                              /\ token' = [token EXCEPT ![s] = e.key]
              /\ listed' = listed
  BY DEF LoadPage
<1>3. Unlisted(s) \subseteq events /\ P \subseteq events
  BY DEF Unlisted
<1>4. ASSUME NEW e \in events, loading[s] # "no", Owed(s, e), Passed(s, e)'
      PROVE  e \in read'[s]
  <2>1. read'[s] = read[s] \cup P
    BY <1>2 DEF TypeOK
  <2>2. CASE Passed(s, e)
    BY <1>4, <2>1, <2>2 DEF ListingInv
  <2>3. CASE ~Passed(s, e)
    <3>1. e \in Unlisted(s)
      <4>1. token[s] \in Key \cup {0} /\ e.key \in Key
        BY EventFields DEF TypeOK
      <4>2. ~(e.key <= token[s])
        BY <2>3 DEF Passed
      <4>3. e.key \in Nat /\ token[s] \in Nat
        BY <4>1, KeysAreNumbers
      <4>4. e.key > token[s]
        BY <4>2, <4>3
      <4>5. QED BY <4>4 DEF Unlisted
    <3>2. CASE P = Unlisted(s)
      BY <2>1, <3>1, <3>2
    <3>3. CASE listed' = listed /\ \E d \in P : /\ \A c \in P : c.key <= d.key
                                              /\ token' = [token EXCEPT ![s] = d.key]
      <4>1. PICK d \in P : token' = [token EXCEPT ![s] = d.key]
        BY <3>3
      <4>2. token'[s] = d.key /\ e.key <= d.key
        BY <1>4, <2>3, <3>3, <4>1 DEF TypeOK, Passed
      <4>3. d.key \in Nat /\ e.key \in Nat
        BY <1>3, EventFields, StoreAssumption
      <4>4. ~(d.key < e.key)
        BY <4>2, <4>3
      <4>5. e \in P
        BY <1>2, <3>1, <4>4 DEF IsPage
      <4>6. QED BY <2>1, <4>5
    <3>4. QED BY <1>2, <3>2, <3>3
  <2>4. QED BY <2>2, <2>3
<1>5. loading[s] # "no"
  BY DEF LoadPage
<1>6. read'[s] \subseteq events
  BY <1>2, <1>3 DEF ListingInv, TypeOK
<1>7. \A r \in Store : r # s => /\ read'[r] = read[r] /\ listed'[r] = listed[r]
                               /\ token'[r] = token[r]
  BY <1>2 DEF TypeOK
<1>8. ASSUME NEW r \in Store
      PROVE  /\ loading'[r] = "no" => token'[r] = 0 /\ read'[r] = {} /\ ~listed'[r]
             /\ since'[r] <= now'
             /\ own'[r] \subseteq events' /\ read'[r] \subseteq events'
             /\ \A e \in events' :
                  loading'[r] # "no" /\ Owed(r, e)' /\ Passed(r, e)' => e \in read'[r]
  <2>1. CASE r = s
    BY <1>1, <1>4, <1>5, <1>6, <2>1 DEF ListingInv, Owed
  <2>2. CASE r # s
    BY <1>1, <1>7, <2>2 DEF ListingInv, Owed, Passed
  <2>3. QED BY <2>1, <2>2
<1>9. QED BY <1>1, <1>8 DEF ListingInv

LEMMA ListingEnd ==
  ASSUME TypeOK, ListingInv, NEW s \in Store, EndLoad(s), UNCHANGED <<now, events>>,
         \/ own' = own
         \/ own' = [own EXCEPT ![s] = {}]
  PROVE  ListingInv'
<1>1. /\ loading'[s] = "no" /\ since'[s] = 0 /\ token'[s] = 0 /\ read'[s] = {}
      /\ listed'[s] = FALSE /\ own'[s] \subseteq own[s]
  BY DEF EndLoad, TypeOK
<1>2. \A r \in Store : r # s =>
        /\ loading'[r] = loading[r] /\ since'[r] = since[r] /\ token'[r] = token[r]
        /\ read'[r] = read[r] /\ listed'[r] = listed[r] /\ own'[r] = own[r]
  BY DEF EndLoad, TypeOK
<1>3. 0 <= now
  BY DEF TypeOK
<1>4. QED BY <1>1, <1>2, <1>3 DEF ListingInv, Owed, Passed

LEMMA ListingStep ==
  ASSUME TypeOK, ListingInv, [Next]_vars
  PROVE  ListingInv'
<1>1. CASE Tick
  <2>1. UNCHANGED <<events, loading, since, token, read, listed, own>> /\ now' = now + 1
    BY <1>1 DEF Tick, listing
  <2>2. \A e \in events : e.on <= now'
    BY <2>1, EventFields DEF ListingInv, TypeOK
  <2>3. \A s \in Store : since[s] <= now'
    BY <2>1 DEF ListingInv, TypeOK
  <2>4. QED BY <2>1, <2>2, <2>3 DEF ListingInv, Owed, Passed
<1>2. ASSUME NEW i \in Identifier, NEW t \in Instant, AppendElsewhere(i, t)
      PROVE  ListingInv'
  <2>1. CASE Store = {}
    BY <1>2, <2>1 DEF AppendElsewhere, Put, NewEvent, ListingInv, TypeOK
  <2>2. CASE Store # {}
    BY <1>2, <2>2, ListingNewEvent DEF AppendElsewhere, Put
  <2>3. QED BY <2>1, <2>2
<1>3. ASSUME NEW s \in Store, BeginLoad(s) PROVE ListingInv'
  <2>1. /\ UNCHANGED <<now, events, token, read, listed, own>>
        /\ loading[s] = "no"
        /\ since' = [since EXCEPT ![s] = now]
        /\ \A r \in Store : r # s => loading'[r] = loading[r]
        /\ loading'[s] # "no"
    BY <1>3 DEF BeginLoad, TypeOK
  <2>2. now <= now
    BY DEF TypeOK
  <2>3. since'[s] = now /\ \A r \in Store : r # s => since'[r] = since[r]
    BY <2>1 DEF TypeOK
  <2>4. ASSUME NEW e \in events PROVE ~Passed(s, e)
    <3>1. e.key \in Nat /\ e.key # 0
      BY EventFields, StoreAssumption
    <3>2. ~(e.key <= 0)
      BY <3>1
    <3>3. token[s] = 0 /\ ~listed[s]
      BY <2>1 DEF ListingInv
    <3>4. QED BY <3>2, <3>3 DEF Passed
  <2>5. QED BY <2>1, <2>2, <2>3, <2>4 DEF ListingInv, Owed, Passed
<1>4. ASSUME NEW s \in Store, LoadPage(s) PROVE ListingInv'
  BY <1>4, ListingPage
<1>5. ASSUME NEW s \in Store, FinishQuery(s) \/ FinishExport(s) \/ LoadFails(s) \/ Restart(s)
      PROVE  ListingInv'
  BY <1>5, ListingEnd DEF FinishQuery, FinishExport, LoadFails, Restart
<1>6. ASSUME NEW s \in Store, NEW i \in Identifier, NEW t \in Instant,
             AddSuppression(s, i, t)
      PROVE  ListingInv'
  BY <1>6, ListingNewEvent DEF AddSuppression, Put
<1>7. CASE UNCHANGED vars
  BY <1>7 DEF vars, listing, ListingInv, Owed, Passed
<1>8. QED
  BY <1>1, <1>2, <1>3, <1>4, <1>5, <1>6, <1>7 DEF Next, Step
-----------------------------------------------------------------------------
(* The caches know what they must.                                         *)

LEMMA CacheAppend ==
  ASSUME TypeOK, ListingInv, CacheInv,
         NEW k \in Key, NEW i \in Identifier, NEW t \in Instant,
         events' = events \cup {NewEvent(k, i, t)},
         UNCHANGED <<now, cache, loadedAt, own>>
  PROVE  CacheInv'
<1> DEFINE new == NewEvent(k, i, t)
<1>1. new.on = now /\ now \in Nat
  BY DEF NewEvent, TypeOK
<1>2. ASSUME NEW s \in Store, Known(s, new) PROVE new \in events
  <2>1. loadedAt[s] # Never => loadedAt[s] \in Nat /\ loadedAt[s] <= now
    BY DEF CacheInv, TypeOK
  <2>2. ~(loadedAt[s] # Never /\ new.on < loadedAt[s])
    BY <1>1, <2>1
  <2>3. QED BY <1>2, <2>2 DEF Known, ListingInv
<1>3. QED BY <1>2 DEF CacheInv, Known

LEMMA CacheOwnWrite ==
  ASSUME TypeOK, ListingInv, CacheInv, NEW s \in Store,
         NEW i \in Identifier, NEW t \in Instant, AddSuppression(s, i, t)
  PROVE  CacheInv'
<1>1. PICK k \in Key : /\ events' = events \cup {NewEvent(k, i, t)}
                       /\ own' = [own EXCEPT ![s] = @ \cup {NewEvent(k, i, t)}]
  BY DEF AddSuppression, Put
<1> DEFINE new == NewEvent(k, i, t)
<1>2. new.on = now /\ new.id = i /\ new.at = t /\ now \in Nat
  BY DEF NewEvent, TypeOK
<1>3. /\ UNCHANGED <<now, loadedAt>>
      /\ cache' = [cache EXCEPT ![s][i] = Sooner(cache[s][i], t)]
  BY DEF AddSuppression
<1>4. /\ \A r \in Store, j \in Identifier :
           (r # s \/ j # i) => cache'[r][j] = cache[r][j]
      /\ cache'[s][i] = Sooner(cache[s][i], t)
  BY <1>3 DEF TypeOK
<1>5. t \in Nat /\ t # Never /\ cache[s][i] \in Nat \cup {Never}
  BY StoreAssumption DEF TypeOK
<1>6. /\ cache'[s][i] # Never /\ cache'[s][i] <= t
      /\ cache[s][i] # Never => cache'[s][i] <= cache[s][i]
      /\ cache'[s][i] = t \/ (cache[s][i] # Never /\ cache'[s][i] = cache[s][i])
  BY <1>4, <1>5 DEF Sooner
<1>7. ASSUME NEW r \in Store, NEW j \in Identifier, cache'[r][j] # Never
      PROVE  \E e \in events' : e.id = j /\ e.at = cache'[r][j]
  <2>1. CASE r = s /\ j = i /\ cache'[s][i] = t
    BY <1>1, <1>2, <2>1
  <2>2. CASE cache'[r][j] = cache[r][j]
    BY <1>1, <1>7, <2>2 DEF CacheInv
  <2>3. QED BY <1>4, <1>6, <2>1, <2>2
<1>8. ASSUME NEW r \in Store, NEW e \in events', Known(r, e)'
      PROVE  cache'[r][e.id] # Never /\ cache'[r][e.id] <= e.at
  <2>1. CASE e = new /\ r = s
    BY <1>2, <1>6, <2>1
  <2>2. CASE ~(e = new /\ r = s)
    <3>1. own'[r] = own[r] \/ (r = s /\ own'[r] = own[r] \cup {new})
      BY <1>1 DEF TypeOK
    <3>2. Known(r, e)
      BY <1>3, <1>8, <2>2, <3>1 DEF Known
    <3>3. loadedAt[r] # Never => loadedAt[r] \in Nat /\ loadedAt[r] <= now
      BY DEF CacheInv, TypeOK
    <3>4. e \in events
      BY <1>1, <1>2, <3>2, <3>3 DEF Known, ListingInv
    <3>5. cache[r][e.id] # Never /\ cache[r][e.id] <= e.at
      BY <3>2, <3>4 DEF CacheInv
    <3>6. e.id \in Identifier /\ e.at \in Nat
      BY <3>4, EventFields, StoreAssumption
    <3>7. CASE r = s /\ e.id = i
      <4>1. cache[s][i] \in Nat /\ cache'[s][i] \in Nat
        BY <1>5, <1>6, <3>5, <3>7
      <4>2. QED BY <1>6, <3>5, <3>6, <3>7, <4>1
    <3>8. CASE ~(r = s /\ e.id = i)
      BY <1>4, <3>5, <3>6, <3>8
    <3>9. QED BY <3>7, <3>8
  <2>3. QED BY <2>1, <2>2
<1>9. QED BY <1>3, <1>7, <1>8 DEF CacheInv

(* The refreshed cache has every event that is due.                        *)
LEMMA CacheRefresh ==
  ASSUME TypeOK, ListingInv, CacheInv, NEW s \in Store, FinishQuery(s)
  PROVE  CacheInv'
<1>1. PICK c \in [Identifier -> Instant \cup {Never}] :
        CurrentSet(c, read[s]) /\ cache' = [cache EXCEPT ![s] = c]
  BY DEF FinishQuery
<1>2. /\ loading[s] = "query" /\ listed[s] /\ UNCHANGED <<now, events, own>>
      /\ loadedAt' = [loadedAt EXCEPT ![s] = since[s]]
  BY DEF FinishQuery, LoadTime
<1>3. cache'[s] = c /\ loadedAt'[s] = since[s] /\ since[s] \in Nat /\ since[s] <= now
  BY <1>1, <1>2 DEF TypeOK, ListingInv
<1>4. \A r \in Store : r # s => cache'[r] = cache[r] /\ loadedAt'[r] = loadedAt[r]
  BY <1>1, <1>2 DEF TypeOK
<1>5. ASSUME NEW e \in events, Known(s, e)'
      PROVE  c[e.id] # Never /\ c[e.id] <= e.at
  <2>1. e \in read[s]
    BY <1>2, <1>3, <1>5 DEF Known, ListingInv, Owed, Passed
  <2>2. e.id \in Identifier /\ e.at \in Instant
    BY EventFields
  <2>3. c[e.id] <= e.at /\ \E d \in read[s] : d.at = c[e.id]
    BY <1>1, <2>1, <2>2 DEF CurrentSet
  <2>4. \A d \in read[s] : d.at # Never
    BY EventFields, StoreAssumption DEF ListingInv
  <2>5. QED BY <2>3, <2>4
<1>6. ASSUME NEW i \in Identifier, c[i] # Never
      PROVE  \E e \in events : e.id = i /\ e.at = c[i]
  BY <1>1, <1>6 DEF CurrentSet, ListingInv
<1>7. ASSUME NEW r \in Store
      PROVE  /\ loadedAt'[r] # Never => loadedAt'[r] <= now'
             /\ \A i \in Identifier : cache'[r][i] # Never =>
                  \E e \in events' : e.id = i /\ e.at = cache'[r][i]
             /\ \A e \in events' :
                  Known(r, e)' => cache'[r][e.id] # Never /\ cache'[r][e.id] <= e.at
  <2>1. CASE r = s
    BY <1>2, <1>3, <1>5, <1>6, <2>1
  <2>2. CASE r # s
    BY <1>2, <1>4, <2>2 DEF CacheInv, Known
  <2>3. QED BY <2>1, <2>2
<1>8. QED BY <1>7 DEF CacheInv

LEMMA CacheStep ==
  ASSUME TypeOK, ListingInv, CacheInv, [Next]_vars
  PROVE  CacheInv'
<1>1. CASE Tick
  <2>1. UNCHANGED <<events, cache, loadedAt, own>> /\ now' = now + 1
    BY <1>1 DEF Tick
  <2>2. \A s \in Store : loadedAt[s] # Never => loadedAt[s] <= now'
    BY <2>1 DEF CacheInv, TypeOK
  <2>3. QED BY <2>1, <2>2 DEF CacheInv, Known
<1>2. ASSUME NEW i \in Identifier, NEW t \in Instant, AppendElsewhere(i, t)
      PROVE  CacheInv'
  BY <1>2, CacheAppend DEF AppendElsewhere, Put
<1>3. ASSUME NEW s \in Store,
             BeginLoad(s) \/ LoadPage(s) \/ FinishExport(s) \/ LoadFails(s)
      PROVE  CacheInv'
  BY <1>3 DEF BeginLoad, LoadPage, FinishExport, LoadFails, CacheInv, Known
<1>4. ASSUME NEW s \in Store, FinishQuery(s) PROVE CacheInv'
  BY <1>4, CacheRefresh
<1>5. ASSUME NEW s \in Store, Restart(s) PROVE CacheInv'
  <2>1. /\ UNCHANGED <<now, events>>
        /\ loadedAt'[s] = Never /\ own'[s] = {}
        /\ \A i \in Identifier : cache'[s][i] = Never
    BY <1>5 DEF Restart, EmptyCache, TypeOK
  <2>2. \A r \in Store : r # s =>
          loadedAt'[r] = loadedAt[r] /\ own'[r] = own[r] /\ cache'[r] = cache[r]
    BY <1>5 DEF Restart, TypeOK
  <2>3. QED BY <2>1, <2>2 DEF CacheInv, Known
<1>6. ASSUME NEW s \in Store, NEW i \in Identifier, NEW t \in Instant,
             AddSuppression(s, i, t)
      PROVE  CacheInv'
  BY <1>6, CacheOwnWrite
<1>7. CASE UNCHANGED vars
  BY <1>7 DEF vars, CacheInv, Known
<1>8. QED
  BY <1>1, <1>2, <1>3, <1>4, <1>5, <1>6, <1>7 DEF Next, Step
-----------------------------------------------------------------------------
IInv == TypeOK /\ ListingInv /\ CacheInv

LEMMA InvInit == Init => IInv
<1> SUFFICES ASSUME Init PROVE IInv
  OBVIOUS
<1>1. TypeOK
  BY TypeInit
<1>2. 0 <= 0
  OBVIOUS
<1>3. ListingInv /\ CacheInv
  BY <1>2 DEF Init, ListingInv, CacheInv, EmptyCache
<1>4. QED BY <1>1, <1>3 DEF IInv

LEMMA InvStep == IInv /\ [Next]_vars => IInv'
BY TypeStep, ListingStep, CacheStep DEF IInv

LEMMA Invariant == Spec => []IInv
BY InvInit, InvStep, PTL DEF Spec

(* A cache that counts as fresh has every event of the log that is a TTL   *)
(* old, whoever appended it and however many pages, failures and restarts  *)
(* the refreshes met.                                                      *)
THEOREM FreshCachesReflectTheLog == Spec => []FreshCacheReflectsLog
<1>1. IInv => FreshCacheReflectsLog
  <2> SUFFICES ASSUME IInv, NEW s \in Store, Fresh(s), NEW e \in events, e.on + Ttl <= now
               PROVE  cache[s][e.id] # Never
    BY DEF FreshCacheReflectsLog
  <2>1. loadedAt[s] \in Nat /\ loadedAt[s] # Never /\ now \in Nat /\ e.on \in Nat
    BY EventFields DEF Fresh, IInv, TypeOK
  <2>2. e.on < loadedAt[s]
    BY <2>1, StoreAssumption DEF Fresh
  <2>3. QED BY <2>1, <2>2 DEF IInv, CacheInv, Known
<1>2. QED BY <1>1, Invariant, PTL

(* A process answers with its own opt-outs, or with earlier ones, for as   *)
(* long as it lives.                                                       *)
THEOREM WritersSeeTheirWrites == Spec => []WritersSeeOwnWrites
<1>1. IInv => WritersSeeOwnWrites
  BY DEF IInv, ListingInv, CacheInv, Known, WritersSeeOwnWrites
<1>2. QED BY <1>1, Invariant, PTL

(* A cache entry is an opt-out of the log, and none the cache has had to   *)
(* see is earlier.                                                         *)
THEOREM CachesKeepTheEarliest == Spec => []CacheIsEarliest
<1>1. IInv => CacheIsEarliest
  BY DEF IInv, CacheInv, Known, CacheIsEarliest
<1>2. QED BY <1>1, Invariant, PTL

LEMMA SnapshotStep ==
  ASSUME IInv, SnapshotReflectsLog, snapshot.asked # Never => snapshot.asked <= now,
         [Next]_vars
  PROVE  /\ SnapshotReflectsLog'
         /\ snapshot'.asked # Never => snapshot'.asked <= now'
<1> USE DEF IInv
<1>1. now \in Nat /\ snapshot.asked \in Nat \cup {Never}
  BY DEF TypeOK, Snapshot
<1>2. ASSUME UNCHANGED <<snapshot, now>>,
             events' = events
               \/ \E k \in Key, i \in Identifier, t \in Instant :
                    events' = events \cup {NewEvent(k, i, t)}
      PROVE  /\ SnapshotReflectsLog'
             /\ snapshot'.asked # Never => snapshot'.asked <= now'
  <2>1. events \subseteq events' /\ \A e \in events' : e \in events \/ e.on = now
    BY <1>2 DEF NewEvent
  <2>2. \A e \in events' :
          snapshot.asked # Never /\ e.on < snapshot.asked => e \in events
    BY <1>1, <2>1
  <2>3. QED BY <1>2, <2>1, <2>2 DEF SnapshotReflectsLog
<1>3. ASSUME NEW s \in Store, FinishExport(s)
      PROVE  /\ SnapshotReflectsLog'
             /\ snapshot'.asked # Never => snapshot'.asked <= now'
  <2>1. /\ loading[s] = "export" /\ listed[s] /\ UNCHANGED <<now, events>>
        /\ snapshot' = [ids |-> {e.id : e \in read[s]}, asked |-> since[s]]
    BY <1>3 DEF FinishExport
  <2>2. since[s] <= now /\ read[s] \subseteq events
    BY DEF ListingInv
  <2>3. \A e \in events : e.on < since[s] => e \in read[s]
    BY <2>1 DEF ListingInv, Owed, Passed
  <2>4. QED BY <2>1, <2>2, <2>3 DEF SnapshotReflectsLog
<1>4. CASE Tick
  BY <1>1, <1>4 DEF Tick, SnapshotReflectsLog
<1>5. ASSUME NEW s \in Store,
             \/ BeginLoad(s) \/ LoadPage(s) \/ FinishQuery(s) \/ LoadFails(s) \/ Restart(s)
             \/ \E i \in Identifier, t \in Instant : AddSuppression(s, i, t)
      PROVE  /\ SnapshotReflectsLog'
             /\ snapshot'.asked # Never => snapshot'.asked <= now'
  BY <1>2, <1>5
  DEF BeginLoad, LoadPage, FinishQuery, LoadFails, Restart, AddSuppression, Put
<1>6. ASSUME NEW i \in Identifier, NEW t \in Instant, AppendElsewhere(i, t)
      PROVE  /\ SnapshotReflectsLog'
             /\ snapshot'.asked # Never => snapshot'.asked <= now'
  BY <1>2, <1>6 DEF AppendElsewhere, Put
<1>7. CASE UNCHANGED vars
  BY <1>2, <1>7 DEF vars
<1>8. QED
  BY <1>3, <1>4, <1>5, <1>6, <1>7 DEF Next, Step

(* A snapshot leaves out no event older than the export that wrote it.     *)
THEOREM SnapshotsReflectTheLog == Spec => []SnapshotReflectsLog
<1> DEFINE Inv == SnapshotReflectsLog /\ (snapshot.asked # Never => snapshot.asked <= now)
<1>1. Init => Inv
  BY DEF Init, SnapshotReflectsLog
<1>2. IInv /\ Inv /\ [Next]_vars => Inv'
  BY SnapshotStep
<1> HIDE DEF Inv
<1>3. Inv => SnapshotReflectsLog
  BY DEF Inv
<1>4. QED BY <1>1, <1>2, <1>3, Invariant, PTL DEF Spec
-----------------------------------------------------------------------------
(* A job in the queue has made one attempt for every event it may have     *)
(* appended, and only logged opt-outs have jobs and events.                *)
MirrorInv ==
  /\ MirrorTypeOK
  /\ NothingDropped
  /\ queued \subseteq logged
  /\ \A i \in Stop :
       /\ i \notin logged => mirrored[i] = 0 /\ attempt[i] = 0
       /\ i \in queued => mirrored[i] <= attempt[i]
       /\ mirrored[i] <= MaxAttempts

LEMMA MirrorInvInit == MirrorInit => MirrorInv
BY MirrorAssumption DEF MirrorInit, MirrorInv, MirrorTypeOK, NothingDropped, MaxDelay

LEMMA RetryStep ==
  ASSUME MirrorInv, NEW i \in Stop, i \in queued, Retry(i), UNCHANGED <<logged, answered>>,
         mirrored' = mirrored \/ mirrored' = [mirrored EXCEPT ![i] = @ + 1]
  PROVE  MirrorInv'
<1> USE MirrorAssumption DEF MirrorInv, MirrorTypeOK
<1>1. /\ attempt[i] \in 0 .. MaxAttempts - 1 /\ mirrored[i] \in Nat
      /\ mirrored[i] <= attempt[i] /\ i \in logged
  OBVIOUS
<1>2. /\ mirrored'[i] \in Nat /\ mirrored'[i] <= attempt[i] + 1 /\ mirrored[i] <= mirrored'[i]
      /\ \A j \in Stop : j # i => mirrored'[j] = mirrored[j]
      /\ mirrored' \in [Stop -> Nat]
  OBVIOUS
<1>3. CASE attempt[i] + 1 < MaxAttempts
  <2>1. /\ attempt' = [attempt EXCEPT ![i] = @ + 1] /\ UNCHANGED <<queued, review>>
        /\ delay' = [delay EXCEPT ![i] = IF attempt[i] + 1 < MaxDelay THEN attempt[i] + 1
                                                                       ELSE MaxDelay]
    BY <1>3 DEF Retry
  <2>2. attempt' \in [Stop -> 0 .. MaxAttempts - 1] /\ delay' \in [Stop -> 0 .. MaxDelay]
    BY <1>1, <1>3, <2>1 DEF MaxDelay
  <2>3. NothingDropped'
    BY <2>1, <1>2 DEF NothingDropped
  <2>4. QED BY <1>1, <1>2, <1>3, <2>1, <2>2, <2>3
<1>4. CASE ~(attempt[i] + 1 < MaxAttempts)
  <2>1. queued' = queued \ {i} /\ review' = review \cup {i} /\ UNCHANGED <<attempt, delay>>
    BY <1>4 DEF Retry
  <2>2. NothingDropped'
    BY <2>1, <1>2 DEF NothingDropped
  <2>3. QED BY <1>1, <1>2, <2>1, <2>2
<1>5. QED BY <1>3, <1>4

LEMMA MirrorInvStep == MirrorInv /\ [MirrorNext]_mirrorVars => MirrorInv'
<1> SUFFICES ASSUME MirrorInv, [MirrorNext]_mirrorVars PROVE MirrorInv'
  OBVIOUS
<1>1. ASSUME NEW i \in Stop, HandleStop(i) PROVE MirrorInv'
  <2>1. answered' \subseteq Stop
    BY <1>1 DEF HandleStop, Answer, MirrorInv, MirrorTypeOK
  <2>2. QED BY <1>1, <2>1, MirrorAssumption
        DEF HandleStop, LogStop, MirrorInv, MirrorTypeOK, NothingDropped
<1>2. ASSUME NEW i \in Stop, AnswerWithoutInsert(i) PROVE MirrorInv'
  BY <1>2 DEF AnswerWithoutInsert, MirrorInv, MirrorTypeOK, NothingDropped
<1>3. ASSUME NEW i \in Stop, PostAccepted(i) PROVE MirrorInv'
  <2>1. /\ i \in queued /\ mirrored' = [mirrored EXCEPT ![i] = @ + 1]
        /\ queued' = queued \ {i} /\ UNCHANGED <<logged, answered, review, attempt, delay>>
    BY <1>3 DEF PostAccepted, Due, Append
  <2>2. mirrored[i] \in Nat /\ mirrored[i] + 1 <= MaxAttempts
    BY <2>1, MirrorAssumption DEF MirrorInv, MirrorTypeOK
  <2>3. QED BY <2>1, <2>2 DEF MirrorInv, MirrorTypeOK, NothingDropped
<1>4. ASSUME NEW i \in Stop, PostUnanswered(i) PROVE MirrorInv'
  BY <1>4, RetryStep DEF PostUnanswered, Due, Append
<1>5. ASSUME NEW i \in Stop, PostFails(i) PROVE MirrorInv'
  BY <1>5, RetryStep DEF PostFails, Due
<1>6. CASE Minute
  <2>1. /\ UNCHANGED <<logged, answered, review, queued, attempt, mirrored>>
        /\ delay' \in [Stop -> 0 .. MaxDelay]
    BY <1>6, MirrorAssumption DEF Minute, MirrorInv, MirrorTypeOK, MaxDelay
  <2>2. QED BY <2>1 DEF MirrorInv, MirrorTypeOK, NothingDropped
<1>7. CASE UNCHANGED mirrorVars
  BY <1>7 DEF mirrorVars, MirrorInv, MirrorTypeOK, NothingDropped
<1>8. QED BY <1>1, <1>2, <1>3, <1>4, <1>5, <1>6, <1>7 DEF MirrorNext, RunJob

LEMMA MirrorInvariant == MirrorSpec => []MirrorInv
BY MirrorInvInit, MirrorInvStep, PTL DEF MirrorSpec

(* Every opt-out is counted, queued and delayed within the bounds of its   *)
(* message, for any limit of attempts.                                     *)
THEOREM MirrorTypeCorrect == MirrorSpec => []MirrorTypeOK
<1>1. MirrorInv => MirrorTypeOK
  BY DEF MirrorInv
<1>2. QED BY <1>1, MirrorInvariant, PTL

(* A logged opt-out is on its way, in the log, or in the hands of a person.*)
THEOREM NoOptOutIsDropped == MirrorSpec => []NothingDropped
<1>1. MirrorInv => NothingDropped
  BY DEF MirrorInv
<1>2. QED BY <1>1, MirrorInvariant, PTL

(* The retries of one opt-out append at most MAX_ATTEMPTS events.          *)
THEOREM RetriesAreBounded == MirrorSpec => []EventsBounded
<1>1. MirrorInv => EventsBounded
  BY DEF MirrorInv, EventsBounded
<1>2. QED BY <1>1, MirrorInvariant, PTL
=============================================================================
