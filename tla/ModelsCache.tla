---------------------------- MODULE ModelsCache ----------------------------
(***************************************************************************)
(* The cache of the model catalogue of one identity: an entry per          *)
(* credential, a refresh shared by its waiters, entries retired by a newer *)
(* credential and entries detached by clearModelsCache while their refresh *)
(* is on its way.                                                          *)
(***************************************************************************)
EXTENDS Naturals

CONSTANTS Keys,      \* modelsCacheKey of each credential of the identity
          Lookups,   \* calls of lookupModelsSnapshot
          Entries,   \* ModelsCacheEntry objects, numbered, a bound
          Refreshes, \* ModelsRefresh objects, numbered, a bound
          MaxClears, \* bound: clearModelsCache calls
          NoObject

ASSUME ObjectAssumption == Entries \subseteq Nat /\ Refreshes \subseteq Nat /\ NoObject \notin Entries \cup Refreshes

VARIABLES
  modelsCache,  \* the entry of each key
  entry,        \* the entry objects
  refresh,      \* the refresh objects
  lookup,       \* the calls
  clears        \* history: clearModelsCache calls

cacheVars == <<modelsCache, entry, refresh, lookup, clears>>

Ended(step) == [step |-> step, refresh |-> NoObject, stale |-> FALSE]
NoSnapshot == [age |-> "none", since |-> 0]

CacheInit ==
  /\ modelsCache = [k \in Keys |-> NoObject]
  /\ entry = [e \in Entries |-> [made |-> FALSE, retired |-> FALSE, snapshot |-> NoSnapshot,
                                 refresh |-> NoObject]]
  /\ refresh = [r \in Refreshes |-> [state |-> "unused", key |-> NoObject, entry |-> NoObject,
                                     since |-> 0]]
  /\ lookup = [c \in Lookups |-> Ended("idle")]
  /\ clears = 0

Waiters(r) == {c \in Lookups : lookup[c].step = "waiting" /\ lookup[c].refresh = r}

-----------------------------------------------------------------------------
Fresh(e) == ~entry[e].made /\ \A f \in Entries : f < e => entry[f].made
Unstarted(r) == refresh[r].state = "unused" /\ \A q \in Refreshes : q < r => refresh[q].state # "unused"

(* modelsCacheEntry(): the entry of key k, a new object when there is none. *)
IsEntryOf(k, e) == IF modelsCache[k] # NoObject THEN e = modelsCache[k] ELSE Fresh(e)

Current(k) == modelsCache[k] # NoObject /\ ~entry[modelsCache[k]].retired

(* The other credentials of the identity are retired ... *)
Retired(k, e) ==
  [o \in Entries |->
     IF o = e THEN [made |-> TRUE, retired |-> FALSE,
                    snapshot |-> entry[o].snapshot, refresh |-> entry[o].refresh]
     ELSE IF \E j \in Keys \ {k} : modelsCache[j] = o
     THEN [made |-> entry[o].made, retired |-> TRUE,
           snapshot |-> NoSnapshot, refresh |-> entry[o].refresh]
     ELSE entry[o]]

(* ... and dropped unless a refresh is on its way. *)
Dropped(k, e) ==
  [j \in Keys |-> IF j = k THEN e
                  ELSE IF modelsCache[j] # NoObject /\ entry[modelsCache[j]].refresh = NoObject
                  THEN NoObject ELSE modelsCache[j]]

(* lookupModelsSnapshot up to its await: a fresh snapshot is served, else the
   refresh of the entry is joined or a new one, r, started. *)
Lookup(c, k, e, r) ==
  LET entries == IF Current(k) THEN entry ELSE Retired(k, e)
      running == entry[e].refresh # NoObject
      used == IF running THEN entry[e].refresh ELSE r
  IN  /\ lookup[c].step = "idle" /\ IsEntryOf(k, e)
      /\ modelsCache' = IF Current(k) THEN modelsCache ELSE Dropped(k, e)
      /\ \/ /\ entry[e].snapshot.age = "fresh"
            /\ lookup' = [lookup EXCEPT ![c] = Ended("served")]
            /\ entry' = entries /\ UNCHANGED refresh
         \/ \E force \in BOOLEAN :
              /\ force \/ entry[e].snapshot.age # "fresh"
              /\ running \/ Unstarted(r)
              /\ lookup' = [lookup EXCEPT ![c] =
                   [step |-> "waiting", refresh |-> used,
                    stale |-> ~force /\ entry[e].snapshot.age = "stale"]]
              /\ entry' = [entries EXCEPT ![e] = [entries[e] EXCEPT !.refresh = used]]
              /\ refresh' = IF running THEN refresh
                            ELSE [refresh EXCEPT ![r] = [state |-> "fetching", key |-> k,
                                                         entry |-> e, since |-> clears]]
  /\ UNCHANGED clears

(* The entries without refresh r, and a retired one dropped from the map. *)
Detach(r) ==
  LET e == refresh[r].entry
      k == refresh[r].key
      own == entry[e].refresh = r
  IN  /\ entry' = IF own THEN [entry EXCEPT ![e] = [entry[e] EXCEPT !.refresh = NoObject]] ELSE entry
      /\ modelsCache' = [modelsCache EXCEPT ![k] =
           IF @ = e /\ entry[e].retired /\ (own \/ entry[e].refresh = NoObject) THEN NoObject ELSE @]

(* settleModelsRefresh with an error: a waiter falls back on the snapshot it
   saw unless the error says the credential is bad. *)
Settled(r, ok, bad) ==
  [c \in Lookups |-> IF c \notin Waiters(r) THEN lookup[c]
                     ELSE Ended(IF ok \/ (~bad /\ lookup[c].stale) THEN "served" ELSE "failed")]

(* Mutant: a fetched snapshot is stored although its entry was retired. *)
FetchedRetired(r) ==
  /\ refresh[r].state = "fetching"
  /\ refresh' = [refresh EXCEPT ![r] = [refresh[r] EXCEPT !.state = "settled"]]
  /\ lookup' = Settled(r, TRUE, FALSE)
  /\ LET e == refresh[r].entry IN
       /\ entry' = [entry EXCEPT ![e].refresh = IF @ = r THEN NoObject ELSE @,
                                 ![e].snapshot = [age |-> "fresh", since |-> refresh[r].since]]
       /\ UNCHANGED modelsCache
  /\ UNCHANGED clears

(* fetchModels answers in time. *)
Fetched(r) ==
  /\ refresh[r].state = "fetching"
  /\ refresh' = [refresh EXCEPT ![r] = [refresh[r] EXCEPT !.state = "settled"]]
  /\ lookup' = Settled(r, TRUE, FALSE)
  /\ LET e == refresh[r].entry
         own == entry[e].refresh = r
     IN  /\ entry' = [entry EXCEPT ![e] =
              [made |-> entry[e].made, retired |-> entry[e].retired,
               refresh |-> IF own THEN NoObject ELSE entry[e].refresh,
               snapshot |-> IF entry[e].retired THEN entry[e].snapshot
                            ELSE [age |-> "fresh", since |-> refresh[r].since]]]
         /\ modelsCache' = [modelsCache EXCEPT ![refresh[r].key] =
              IF @ = e /\ entry[e].retired THEN NoObject ELSE @]
  /\ UNCHANGED clears

(* fetchModels fails, or the timer of the refresh expires. *)
RefreshFailed(r) ==
  /\ refresh[r].state = "fetching"
  /\ refresh' = [refresh EXCEPT ![r] = [refresh[r] EXCEPT !.state = "settled"]]
  /\ \E bad \in BOOLEAN : lookup' = Settled(r, FALSE, bad)
  /\ Detach(r)
  /\ UNCHANGED clears

(* A caller leaves; the last one cancels the refresh and detaches it. *)
Abort(c) ==
  LET r == lookup[c].refresh IN
    /\ lookup[c].step = "waiting"
    /\ lookup' = [lookup EXCEPT ![c] = Ended("failed")]
    /\ IF Waiters(r) = {c}
       THEN refresh' = [refresh EXCEPT ![r] = [refresh[r] EXCEPT !.state = "cancelled"]] /\ Detach(r)
       ELSE UNCHANGED <<refresh, entry, modelsCache>>
    /\ UNCHANGED clears

(* listModelsWithMetadata: a rejected credential loses its entry. *)
Reject(k) ==
  /\ modelsCache[k] # NoObject /\ \E c \in Lookups : lookup[c].step = "failed"
  /\ modelsCache' = [modelsCache EXCEPT ![k] = NoObject]
  /\ UNCHANGED <<entry, refresh, lookup, clears>>

(* clearModelsCache: the entries are detached, their refreshes go on. *)
Clear ==
  /\ clears < MaxClears
  /\ clears' = clears + 1
  /\ modelsCache' = [k \in Keys |-> NoObject]
  /\ UNCHANGED <<entry, refresh, lookup>>

(* A snapshot passes its TTL, then the age up to which it may be served. *)
Ages(e) ==
  /\ entry[e].snapshot.age \in {"fresh", "stale"}
  /\ entry' = [entry EXCEPT ![e] = [entry[e] EXCEPT !.snapshot =
                 [age |-> IF entry[e].snapshot.age = "fresh" THEN "stale" ELSE "old",
                  since |-> entry[e].snapshot.since]]]
  /\ UNCHANGED <<modelsCache, refresh, lookup, clears>>

CacheNext ==
  \/ \E c \in Lookups : Abort(c) \/ \E k \in Keys, e \in Entries, r \in Refreshes : Lookup(c, k, e, r)
  \/ \E r \in Refreshes : Fetched(r) \/ RefreshFailed(r)
  \/ Clear \/ (\E k \in Keys : Reject(k)) \/ \E e \in Entries : Ages(e)

CacheSpec == CacheInit /\ [][CacheNext]_cacheVars

-----------------------------------------------------------------------------
(* Only the latest credential has a snapshot, and none that was asked for
   before the cache was cleared: a late refresh cannot bring one back. *)
CacheFollowsCredential ==
  /\ \A j, k \in Keys : j # k /\ NoObject \notin {modelsCache[j], modelsCache[k]} =>
       entry[modelsCache[j]].retired \/ entry[modelsCache[k]].retired
  /\ \A k \in Keys : modelsCache[k] # NoObject =>
       LET e == entry[modelsCache[k]] IN
         e.snapshot.age # "none" => ~e.retired /\ e.snapshot.since = clears

-----------------------------------------------------------------------------
(* Why a late refresh cannot. *)

Snapshot == [age : {"none", "fresh", "stale", "old"}, since : Nat]
Entry == [made : BOOLEAN, retired : BOOLEAN, snapshot : Snapshot, refresh : Refreshes \cup {NoObject}]
Refresh == [state : {"unused", "fetching", "settled", "cancelled"}, key : Keys \cup {NoObject},
            entry : Entries \cup {NoObject}, since : Nat]
LookupCall == [step : {"idle", "waiting", "served", "failed"}, refresh : Refreshes \cup {NoObject}, stale : BOOLEAN]

CacheTypeOK ==
  /\ modelsCache \in [Keys -> Entries \cup {NoObject}]
  /\ entry \in [Entries -> Entry] /\ refresh \in [Refreshes -> Refresh]
  /\ lookup \in [Lookups -> LookupCall] /\ clears \in Nat

(* An entry object is in use from its first lookup on, its refresh is its own
   and is on its way, and so is what a lookup waits for. *)
ObjectsInv ==
  /\ \A k \in Keys : modelsCache[k] # NoObject => entry[modelsCache[k]].made
  /\ \A e \in Entries : ~entry[e].made => entry[e].snapshot.age = "none" /\ entry[e].refresh = NoObject
  /\ \A e \in Entries : entry[e].refresh # NoObject =>
       refresh[entry[e].refresh].state = "fetching" /\ refresh[entry[e].refresh].entry = e
  /\ \A r \in Refreshes : refresh[r].state # "unused" =>
       refresh[r].key \in Keys /\ refresh[r].entry \in Entries /\ entry[refresh[r].entry].made
  /\ \A c \in Lookups : lookup[c].step = "waiting" =>
       lookup[c].refresh \in Refreshes /\ refresh[lookup[c].refresh].state = "fetching"

(* Two credentials have two entries; one that is retired keeps no snapshot. *)
EntriesInv ==
  /\ \A j, k \in Keys : j # k /\ modelsCache[j] # NoObject => modelsCache[j] # modelsCache[k]
  /\ \A j, k \in Keys : j # k /\ modelsCache[j] # NoObject /\ modelsCache[k] # NoObject =>
       entry[modelsCache[j]].retired \/ entry[modelsCache[k]].retired
  /\ \A k \in Keys : modelsCache[k] # NoObject /\ entry[modelsCache[k]].retired =>
       entry[modelsCache[k]].snapshot.age = "none"

(* What is asked for an entry of the map, and what it holds, is newer than the
   last clear: an entry that was detached does not come back. *)
SinceInv ==
  \A k \in Keys : modelsCache[k] # NoObject =>
    /\ entry[modelsCache[k]].snapshot.age # "none" => entry[modelsCache[k]].snapshot.since = clears
    /\ \A r \in Refreshes : refresh[r].state # "unused" /\ refresh[r].entry = modelsCache[k] =>
         refresh[r].since = clears

CacheInv == CacheTypeOK /\ ObjectsInv /\ EntriesInv /\ SinceInv

-----------------------------------------------------------------------------
(* A lookup that waits for a refresh is served or refused: the refresh ends
   by its timer, and is not cancelled while somebody waits. *)
LookupEnds == <>[](\A c \in Lookups : lookup[c].step # "waiting")
=============================================================================
