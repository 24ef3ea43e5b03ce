--------------------------- MODULE SuppressionStore ---------------------------
(***************************************************************************)
(* suppression/store.py: the opt-out list as an append-only log of S3      *)
(* objects, and the processes that keep a cache of it.  A process is       *)
(* sequential, but a refresh is a listing in pages during which the other  *)
(* processes go on appending, under keys (UUIDs) that may sort before or   *)
(* after the page just read.                                               *)
(***************************************************************************)
EXTENDS Integers, FiniteSets

CONSTANTS
  Store,        (* Processes, each with a SuppressionStore of its own.     *)
  Identifier,   (* Normalized phones and emails.                           *)
  Key,          (* Object keys, as numbers in the order of the listing.    *)
  Instant,      (* occurred_at of the events, as numbers.                  *)
  PageSize,     (* Keys in a page of list_objects_v2.                      *)
  Ttl,          (* REFRESH_TTL_SECONDS, in clock ticks.                    *)
  Never,        (* No time: not loaded, not suppressed.                    *)
  MaxNow        (* Bound: the clock stops here.                            *)

ASSUME StoreAssumption ==
  /\ Key \subseteq Nat \ {0} /\ Instant \subseteq Nat
  /\ PageSize \in Nat \ {0} /\ Ttl \in Nat \ {0} /\ MaxNow \in Nat
  /\ Never \notin Nat

VARIABLES
  now,        (* The monotonic clock.                                      *)
  events,     (* The log.                                                  *)
  cache,      (* cache[s][i]: occurred_at of i, Never if i is not in it.   *)
  loadedAt,   (* loadedAt[s]: _cache_loaded_at.                            *)
  loading,    (* loading[s]: what s is listing the log for, if it is.      *)
  since,      (* since[s]: the clock when that listing began.              *)
  token,      (* token[s]: the last key listed, 0 before the first page.   *)
  read,       (* read[s]: events read so far.                              *)
  listed,     (* listed[s]: whether the last page has been listed.         *)
  snapshot,   (* The Parquet object: its identifiers, and the clock when   *)
              (* the export that wrote it began.                           *)
  own         (* History, own[s]: events s has appended itself.            *)

listing == <<loading, since, token, read, listed>>
vars == <<now, events, cache, loadedAt, listing, snapshot, own>>

Event == [key: Key, id: Identifier, at: Instant, on: Nat]

Snapshot == [ids: SUBSET Identifier, asked: Nat \cup {Never}]

TypeOK ==
  /\ now \in Nat
  /\ events \subseteq Event
  /\ cache \in [Store -> [Identifier -> Instant \cup {Never}]]
  /\ loadedAt \in [Store -> Nat \cup {Never}]
  /\ loading \in [Store -> {"no", "query", "export"}]
  /\ since \in [Store -> Nat]
  /\ token \in [Store -> Key \cup {0}]
  /\ read \in [Store -> SUBSET Event]
  /\ listed \in [Store -> BOOLEAN]
  /\ snapshot \in Snapshot
  /\ own \in [Store -> SUBSET Event]

EmptyCache == [i \in Identifier |-> Never]

Init ==
  /\ now = 0 /\ events = {}
  /\ cache = [s \in Store |-> EmptyCache]
  /\ loadedAt = [s \in Store |-> Never]
  /\ loading = [s \in Store |-> "no"]
  /\ since = [s \in Store |-> 0]
  /\ token = [s \in Store |-> 0]
  /\ read = [s \in Store |-> {}]
  /\ listed = [s \in Store |-> FALSE]
  /\ snapshot = [ids |-> {}, asked |-> Never]
  /\ own = [s \in Store |-> {}]

-----------------------------------------------------------------------------
(* Mutant: the entry of an identifier is whichever event was read last.    *)
AnyEvent(c, E) ==
  \A i \in Identifier :
    \/ c[i] = Never /\ \A e \in E : e.id # i
    \/ \E e \in E : e.id = i /\ e.at = c[i]

(* c has one entry per identifier of E, its earliest opt-out.              *)
CurrentSet(c, E) ==
  \A i \in Identifier :
    \/ /\ c[i] = Never
       /\ \A e \in E : e.id # i
    \/ /\ \E e \in E : e.id = i /\ e.at = c[i]
       /\ \A e \in E : e.id = i => c[i] <= e.at

(* Mutant: the writer overwrites what it has.                              *)
Later(old, t) == t

Sooner(old, t) == IF old = Never \/ t < old THEN t ELSE old

Fresh(s) == loadedAt[s] # Never /\ now - loadedAt[s] < Ttl
-----------------------------------------------------------------------------
Put(e) ==
  /\ \A d \in events : d.key # e.key
  /\ events' = events \cup {e}

NewEvent(k, i, t) == [key |-> k, id |-> i, at |-> t, on |-> now]

(* add_suppression: one new object, then the cache of the writer.          *)
AddSuppression(s, i, t) ==
  /\ loading[s] = "no"
  /\ \E k \in Key :
       /\ Put(NewEvent(k, i, t))
       /\ own' = [own EXCEPT ![s] = @ \cup {NewEvent(k, i, t)}]
  /\ cache' = [cache EXCEPT ![s][i] = Sooner(@, t)]
  /\ UNCHANGED <<now, loadedAt, listing, snapshot>>

(* An append no cache learns of: by suppression/api.py, whose store lives  *)
(* for one request; or by a put_object that raises although S3 has stored  *)
(* the object, so that the caller will repeat the call.                    *)
AppendElsewhere(i, t) ==
  /\ \E k \in Key : Put(NewEvent(k, i, t))
  /\ UNCHANGED <<now, cache, loadedAt, listing, snapshot, own>>

(* _load_events, for is_suppressed or current_identifiers with a cache that*)
(* is not fresh, or for export_snapshot.  The clock is read before the     *)
(* listing.  A query of a fresh cache is answered from it at once and      *)
(* changes nothing.                                                        *)
BeginLoad(s) ==
  /\ loading[s] = "no"
  /\ \/ ~Fresh(s) /\ loading' = [loading EXCEPT ![s] = "query"]
     \/ loading' = [loading EXCEPT ![s] = "export"]
  /\ since' = [since EXCEPT ![s] = now]
  /\ UNCHANGED <<now, events, cache, loadedAt, token, read, listed, snapshot, own>>

(* A page: the next PageSize keys after the token, or what is left; and its*)
(* objects, which never change.                                            *)
Unlisted(s) == {e \in events : e.key > token[s]}

IsPage(P, s) ==
  /\ P \subseteq Unlisted(s) /\ \A e \in P, d \in Unlisted(s) \ P : e.key < d.key
  /\ \/ Cardinality(P) = PageSize
     \/ P = Unlisted(s) /\ Cardinality(P) < PageSize

LoadPage(s) ==
  /\ loading[s] # "no" /\ ~listed[s]
  /\ \E P \in SUBSET Unlisted(s) :
       /\ IsPage(P, s)
       /\ read' = [read EXCEPT ![s] = @ \cup P]
       /\ \/ /\ P = Unlisted(s)
             /\ listed' = [listed EXCEPT ![s] = TRUE]
             /\ UNCHANGED token
          \/ /\ P # Unlisted(s)
             /\ \E e \in P : /\ \A d \in P : d.key <= e.key
                             /\ token' = [token EXCEPT ![s] = e.key]
             /\ UNCHANGED listed
  /\ UNCHANGED <<now, events, cache, loadedAt, loading, since, snapshot, own>>

(* Mutant: the token outlives the listing it belongs to.                   *)
EndLoadKeepingToken(s) ==
  /\ loading' = [loading EXCEPT ![s] = "no"]
  /\ since' = [since EXCEPT ![s] = 0]
  /\ read' = [read EXCEPT ![s] = {}]
  /\ listed' = [listed EXCEPT ![s] = FALSE]
  /\ UNCHANGED token

EndLoad(s) ==
  /\ loading' = [loading EXCEPT ![s] = "no"]
  /\ since' = [since EXCEPT ![s] = 0]
  /\ token' = [token EXCEPT ![s] = 0]
  /\ read' = [read EXCEPT ![s] = {}]
  /\ listed' = [listed EXCEPT ![s] = FALSE]

(* Mutants: the cache counts as loaded when the listing ended, or a TTL    *)
(* before it began.                                                        *)
EndOfLoad(s) == now
AlreadyStale(s) == since[s] - Ttl

(* The cache is replaced by what was read, and counts as loaded when the   *)
(* listing began; the query is answered from it.                           *)
LoadTime(s) == since[s]

FinishQuery(s) ==
  /\ loading[s] = "query" /\ listed[s]
  /\ \E c \in [Identifier -> Instant \cup {Never}] :
       CurrentSet(c, read[s]) /\ cache' = [cache EXCEPT ![s] = c]
  /\ loadedAt' = [loadedAt EXCEPT ![s] = LoadTime(s)]
  /\ EndLoad(s)
  /\ UNCHANGED <<now, events, snapshot, own>>

(* The snapshot object is overwritten.                                     *)
FinishExport(s) ==
  /\ loading[s] = "export" /\ listed[s]
  /\ snapshot' = [ids |-> {e.id : e \in read[s]}, asked |-> since[s]]
  /\ EndLoad(s)
  /\ UNCHANGED <<now, events, cache, loadedAt, own>>

(* A listing or a read fails and the exception leaves the store: nothing   *)
(* has been assigned yet.                                                  *)
LoadFails(s) ==
  /\ loading[s] # "no"
  /\ EndLoad(s)
  /\ UNCHANGED <<now, events, cache, loadedAt, snapshot, own>>

(* The process ends and another starts: the cache is gone, the log is not. *)
Restart(s) ==
  /\ cache' = [cache EXCEPT ![s] = EmptyCache]
  /\ loadedAt' = [loadedAt EXCEPT ![s] = Never]
  /\ own' = [own EXCEPT ![s] = {}]
  /\ EndLoad(s)
  /\ UNCHANGED <<now, events, snapshot>>

Tick ==
  /\ now < MaxNow
  /\ now' = now + 1
  /\ UNCHANGED <<events, cache, loadedAt, listing, snapshot, own>>

Step(s) ==
  \/ BeginLoad(s) \/ LoadPage(s) \/ FinishQuery(s)
  \/ FinishExport(s) \/ LoadFails(s) \/ Restart(s)
  \/ \E i \in Identifier, t \in Instant : AddSuppression(s, i, t)

Next ==
  \/ Tick
  \/ \E s \in Store : Step(s)
  \/ \E i \in Identifier, t \in Instant : AppendElsewhere(i, t)

Spec == Init /\ [][Next]_vars
-----------------------------------------------------------------------------
(* Whoever appended it, and whatever was appended while the log was listed,*)
(* an event is in every answer that a fresh cache gives a TTL or more after*)
(* it (_refresh_if_stale, store.py:165-168), failed refreshes and restarts *)
(* included.  The query that had to refresh is answered as well, and what  *)
(* it is answered is CacheIsEarliest: the events before its listing began. *)
FreshCacheReflectsLog ==
  \A s \in Store : Fresh(s) =>
    \A e \in events : e.on + Ttl <= now => cache[s][e.id] # Never

(* "reads go through a cache refreshed from S3 whenever it is older than   *)
(* REFRESH_TTL_SECONDS (< 60, the compliance bound)" (store.py:9-11), taken*)
(* of every answer: also the one given after a refresh has events that are *)
(* a TTL old.  The listing may take longer than that.                      *)
EveryAnswerReflectsLog ==
  [][\A s \in Store : FinishQuery(s) =>
       \A e \in events : e.on + Ttl <= now => cache'[s][e.id] # Never]_vars

(* "A writer sees its own writes immediately" (store.py), and keeps seeing *)
(* them through every refresh: with its own opt-out or an earlier one.     *)
WritersSeeOwnWrites ==
  \A s \in Store : \A e \in own[s] :
    cache[s][e.id] # Never /\ cache[s][e.id] <= e.at

(* "keeping the earliest opt-out" (_current_set): a cached entry is an     *)
(* event of the log, and no event the cache has had to see is earlier.     *)
CacheIsEarliest ==
  \A s \in Store, i \in Identifier :
    /\ cache[s][i] # Never => \E e \in events : e.id = i /\ e.at = cache[s][i]
    /\ loadedAt[s] # Never =>
         \A e \in events : e.id = i /\ e.on < loadedAt[s] =>
           cache[s][i] # Never /\ cache[s][i] <= e.at

(* The snapshot lists every event older than the export that wrote it, and *)
(* nothing that is not in the log.                                         *)
SnapshotReflectsLog ==
  /\ \A i \in snapshot.ids : \E e \in events : e.id = i
  /\ snapshot.asked # Never =>
       \A e \in events : e.on < snapshot.asked => e.id \in snapshot.ids
=============================================================================
