------------------------- MODULE LRUPersistentCache -------------------------
(***************************************************************************)
(* client/persistence: an in-memory LRU cache (LRUInMemoryCache) that a    *)
(* syncer thread writes to a persistence layer (FilePersistenceLayer).     *)
(* Clients call the cache from any thread; the layer may be replaced while *)
(* it is in use; writes fail; the process may crash at any point.          *)
(*                                                                         *)
(* One action is what a thread does under one acquisition of a lock, or    *)
(* one system call on the file.  stopSyncerMutex_ is held by the syncer    *)
(* whenever it is not waiting.                                             *)
(***************************************************************************)
EXTENDS Integers, Sequences, SequencesExt, Functions, TLC

CONSTANTS
  Client,        \* threads that use the cache
  Key, Val,
  Layer,         \* persistence layers, each on a file of its own
  NoPersistence,
  Capacity,
  nSyncRetries,
  MaxVersion,    \* bound on version_
  Crashes        \* the process may crash

ASSUME CacheAssumption ==
  /\ Capacity \in Nat \ {0} /\ nSyncRetries \in Nat /\ MaxVersion \in Nat \ {0}
  /\ NoPersistence \notin Layer
  /\ Crashes \in BOOLEAN

VARIABLES
  map, order,    \* cache_: what it maps, and its keys from most to least recent
  version,       \* version_
  persistence,   \* persistence_
  persistedVersion, \* of each layer
  file,          \* of each layer: what load() finds
  stopSyncer,
  pc, layer,     \* the syncer: where it is, its copy of persistence_
  snapshot,      \* what it serialised, and at which version
  orphan,        \* the file it is writing has been unlinked
  nSyncFailures,
  clearing,      \* of each client: where its clear(true) is
  tried,         \* of each layer: the last version sync() attempted
  givenUp        \* of each layer: persistedVersion was set without a write

cache == <<map, order, version>>
syncer == <<pc, layer, snapshot, nSyncFailures>>
vars == <<cache, persistence, persistedVersion, file, stopSyncer, syncer, orphan,
          clearing, tried, givenUp>>

Empty == [k \in {} |-> k]

(* A file's contents: the pairs in the order written, or nothing that      *)
(* load() can read.                                                        *)
Unreadable == [readable |-> FALSE, map |-> Empty, order |-> <<>>]
Contents(m, o) == [readable |-> TRUE, map |-> m, order |-> o]

-----------------------------------------------------------------------------
(* EvictingCacheMap (external): a set key becomes the most recent one, and *)
(* the least recent ones beyond the capacity go.                           *)

Evicted(o) == SubSeq(o, 1, IF Len(o) < Capacity THEN Len(o) ELSE Capacity)

(* syncNow's snapshot lasts until it returns, and the open file with it. *)
NoSnapshot == [contents |-> Unreadable, version |-> 0]

(* The order after ks have been set, the last of ks last. *)
Touched(o, ks) ==
  Evicted(Reverse(ks) \o SelectSeq(o, LAMBDA k : k \notin ToSet(ks)))

(* loadData: sets each pair of the file in the file's order. *)
Loaded(m, o, c) ==
  LET o2 == Touched(o, c.order) IN [order |-> o2, map |-> Restrict(c.map @@ m, ToSet(o2))]

(***************************************************************************)
(* The constructor: loads the layer and takes what it holds as persisted;  *)
(* a failed load returns false, which is version 0.                        *)
(***************************************************************************)
Construct(p, f) ==
  LET l == Loaded(Empty, <<>>, f[p])
      v == IF f[p].order = <<>> THEN 1 ELSE 2
  IN  /\ map' = l.map /\ order' = l.order
      /\ version' = v
      /\ persistence' = p
      /\ persistedVersion' = [q \in Layer |-> IF q = p /\ f[p].readable THEN v ELSE 0]

(* The syncer thread has started and holds no lock: it is where it is      *)
(* while it waits.                                                         *)
StartSyncer ==
  /\ stopSyncer' = FALSE
  /\ pc' = "wait"
  /\ layer' = NoPersistence
  /\ snapshot' = NoSnapshot
  /\ nSyncFailures' = 0
  /\ orphan' = FALSE
  /\ clearing' = [c \in Client |-> "no"]
  /\ tried' = [p \in Layer |-> 0]
  /\ givenUp' = [p \in Layer |-> FALSE]

(* A new cache without a persistence layer, and files that do not exist or *)
(* that an earlier run left.                                               *)
Init ==
  /\ map = Empty /\ order = <<>>
  /\ version = 1
  /\ persistence = NoPersistence
  /\ persistedVersion = [p \in Layer |-> 0]
  /\ file \in [Layer -> {Unreadable} \cup {Contents(k :> v, <<k>>) : k \in Key, v \in Val}]
  /\ stopSyncer = FALSE
  /\ pc = "wait"
  /\ layer = NoPersistence
  /\ snapshot = NoSnapshot
  /\ nSyncFailures = 0
  /\ orphan = FALSE
  /\ clearing = [c \in Client |-> "no"]
  /\ tried = [p \in Layer |-> 0]
  /\ givenUp = [p \in Layer |-> FALSE]

-----------------------------------------------------------------------------
(* The clients.  None uses the cache once its destructor has started. *)

Calls(c) == ~stopSyncer /\ clearing[c] = "no"
CanUpdate == version < MaxVersion

ClientOnly == UNCHANGED <<persistedVersion, stopSyncer, syncer, tried, givenUp>>

put(c, k, v) ==
  /\ Calls(c) /\ CanUpdate
  /\ order' = Touched(order, <<k>>)
  /\ map' = Restrict((k :> v) @@ map, ToSet(order'))
  /\ version' = version + 1
  /\ UNCHANGED <<persistence, file, orphan, clearing>> /\ ClientOnly

(* get moves the key to the front and does not change the version. *)
get(c, k) ==
  /\ Calls(c) /\ k \in DOMAIN map
  /\ order' = Touched(order, <<k>>)
  /\ UNCHANGED <<map, version, persistence, file, orphan, clearing>> /\ ClientOnly

remove(c, k) ==
  /\ Calls(c) /\ CanUpdate /\ k \in DOMAIN map
  /\ order' = SelectSeq(order, LAMBDA j : j # k)
  /\ map' = Restrict(map, DOMAIN map \ {k})
  /\ version' = version + 1
  /\ UNCHANGED <<persistence, file, orphan, clearing>> /\ ClientOnly

(* clear: an empty cache stays at its version. *)
clear(c, clearPersistence) ==
  /\ Calls(c) /\ (map = Empty \/ CanUpdate)
  /\ map' = Empty /\ order' = <<>>
  /\ version' = IF map = Empty THEN version ELSE version + 1
  /\ clearing' = [clearing EXCEPT ![c] = IF clearPersistence THEN "getPersistence" ELSE "no"]
  /\ UNCHANGED <<persistence, file, orphan>> /\ ClientOnly

clearGetsPersistence(c) ==
  /\ clearing[c] = "getPersistence"
  /\ clearing' = [clearing EXCEPT ![c] = IF persistence = NoPersistence THEN "no" ELSE persistence]
  /\ UNCHANGED <<cache, persistence, file, orphan>> /\ ClientOnly

(* FilePersistenceLayer::clear: unlinks the file, which persist may have   *)
(* open.                                                                   *)
clearPersistence(c, p) ==
  /\ clearing[c] = p
  /\ file' = [file EXCEPT ![p] = Unreadable]
  /\ orphan' = (orphan \/ (pc = "write" /\ layer = p))
  /\ clearing' = [clearing EXCEPT ![c] = "no"]
  /\ UNCHANGED <<cache, persistence>> /\ ClientOnly

(* setPersistence: loads a new layer, under the lock, into the cache that  *)
(* is there.  The layer stays at version 0, so that the result is synced.  *)
setPersistence(c, p) ==
  /\ Calls(c) /\ CanUpdate
  /\ p # persistence /\ p # layer /\ \A d \in Client : clearing[d] # p
  /\ LET l == Loaded(map, order, file[p])
     IN  map' = l.map /\ order' = l.order
  /\ version' = IF file[p].order = <<>> THEN version ELSE version + 1
  /\ persistence' = p
  /\ persistedVersion' = [persistedVersion EXCEPT ![p] = 0]
  /\ tried' = [tried EXCEPT ![p] = 0]
  /\ givenUp' = [givenUp EXCEPT ![p] = FALSE]
  /\ UNCHANGED <<file, orphan, clearing, stopSyncer, syncer>>

(* The destructor's first half: takes stopSyncerMutex_ and sets the flag.  *)
(* It then joins the syncer.                                               *)
destroy ==
  /\ ~stopSyncer /\ pc = "wait"
  /\ \A c \in Client : clearing[c] = "no"
  /\ stopSyncer' = TRUE
  /\ UNCHANGED <<cache, persistence, persistedVersion, file, syncer, orphan, clearing, tried, givenUp>>

(* The process ends, in order or not, and another one opens the file of    *)
(* the layer last set.                                                     *)
restart ==
  /\ Crashes /\ persistence # NoPersistence
  /\ Construct(persistence, file)
  /\ StartSyncer
  /\ UNCHANGED file

-----------------------------------------------------------------------------
(* The syncer: sync() and syncNow(). *)

hasChangedSince(v) == version # v

SyncerOnly == UNCHANGED <<cache, persistence, stopSyncer, clearing>>

(* The end of an iteration: waits, with the mutex released, unless told to *)
(* stop.                                                                   *)
Pause == pc' = IF stopSyncer THEN "loop" ELSE "wait"

wakeUp ==
  /\ pc = "wait"
  /\ pc' = "loop"
  /\ UNCHANGED <<layer, snapshot, nSyncFailures, persistedVersion, file, orphan, tried, givenUp>>
  /\ SyncerOnly

(* Mutation: a syncer without a layer does not look at the stop flag. *)
getPersistence_NullNeverStops ==
  /\ pc = "loop"
  /\ layer' = persistence
  /\ IF persistence = NoPersistence
     THEN /\ pc' = "wait"
          /\ nSyncFailures' = 0
     ELSE /\ pc' = IF stopSyncer THEN "stopping" ELSE "syncNow"
          /\ UNCHANGED nSyncFailures
  /\ UNCHANGED <<snapshot, persistedVersion, file, orphan, tried, givenUp>>
  /\ SyncerOnly

getPersistence ==
  /\ pc = "loop"
  /\ layer' = persistence
  /\ IF persistence = NoPersistence
     THEN /\ pc' = IF stopSyncer THEN "done" ELSE "wait"
          /\ nSyncFailures' = 0
     ELSE /\ pc' = IF stopSyncer THEN "stopping" ELSE "syncNow"
          /\ UNCHANGED nSyncFailures
  /\ UNCHANGED <<snapshot, persistedVersion, file, orphan, tried, givenUp>>
  /\ SyncerOnly

(* Mutation: a syncer that is told to stop does so at once. *)
checkStop_AtOnce ==
  /\ pc = "stopping"
  /\ pc' = "done"
  /\ UNCHANGED <<layer, snapshot, nSyncFailures, persistedVersion, file, orphan, tried, givenUp>>
  /\ SyncerOnly

(* Told to stop: ends unless there are pending updates. *)
checkStop ==
  /\ pc = "stopping"
  /\ pc' = IF hasChangedSince(persistedVersion[layer]) THEN "syncNow" ELSE "done"
  /\ UNCHANGED <<layer, snapshot, nSyncFailures, persistedVersion, file, orphan, tried, givenUp>>
  /\ SyncerOnly

(* syncNow: nothing to do at the persisted version. *)
syncNow ==
  /\ pc = "syncNow"
  /\ IF hasChangedSince(persistedVersion[layer])
     THEN pc' = "convert" /\ UNCHANGED nSyncFailures
     ELSE Pause /\ nSyncFailures' = 0
  /\ UNCHANGED <<layer, snapshot, persistedVersion, file, orphan, tried, givenUp>>
  /\ SyncerOnly

convertToKeyValuePairs ==
  /\ pc = "convert"
  /\ snapshot' = [contents |-> Contents(map, order), version |-> version]
  /\ tried' = [tried EXCEPT ![layer] = version]
  /\ pc' = "open"
  /\ UNCHANGED <<layer, nSyncFailures, persistedVersion, file, orphan, givenUp>>
  /\ SyncerOnly

(* FilePersistenceLayer::persist opens the file with O_TRUNC. *)
open ==
  /\ pc = "open"
  /\ file' = [file EXCEPT ![layer] = Unreadable]
  /\ orphan' = FALSE
  /\ pc' = "write"
  /\ UNCHANGED <<layer, snapshot, nSyncFailures, persistedVersion, tried, givenUp>>
  /\ SyncerOnly

(* Mutation: the file counts as written at the version of now. *)
persisted_AtCurrentVersion ==
  /\ pc = "write"
  /\ file' = IF orphan THEN file ELSE [file EXCEPT ![layer] = snapshot.contents]
  /\ persistedVersion' = [persistedVersion EXCEPT ![layer] = version]
  /\ givenUp' = [givenUp EXCEPT ![layer] = FALSE]
  /\ nSyncFailures' = 0
  /\ Pause
  /\ snapshot' = NoSnapshot /\ orphan' = FALSE
  /\ UNCHANGED <<layer, tried>>
  /\ SyncerOnly

(* persist succeeds; persistVersionedData records the snapshot's version. *)
persisted ==
  /\ pc = "write"
  /\ file' = IF orphan THEN file ELSE [file EXCEPT ![layer] = snapshot.contents]
  /\ persistedVersion' = [persistedVersion EXCEPT ![layer] = snapshot.version]
  /\ givenUp' = [givenUp EXCEPT ![layer] = FALSE]
  /\ nSyncFailures' = 0
  /\ Pause
  /\ snapshot' = NoSnapshot /\ orphan' = FALSE
  /\ UNCHANGED <<layer, tried>>
  /\ SyncerOnly

(* Mutation: one attempt too many. *)
CountFailure_OffByOne ==
  IF nSyncFailures = nSyncRetries
  THEN pc' = "giveUp" /\ UNCHANGED nSyncFailures
  ELSE Pause /\ nSyncFailures' = nSyncFailures + 1

(* A failure: the last one allowed makes sync() give up.  (The count stays *)
(* at nSyncRetries where the code's would run on.)                         *)
CountFailure ==
  IF nSyncFailures + 1 = nSyncRetries
  THEN pc' = "giveUp" /\ UNCHANGED nSyncFailures
  ELSE /\ Pause
       /\ nSyncFailures' = IF nSyncFailures < nSyncRetries THEN nSyncFailures + 1 ELSE nSyncFailures

(* The cache cannot be converted or serialised, or the file not opened. *)
syncFails ==
  /\ pc \in {"convert", "open"}
  /\ CountFailure
  /\ tried' = IF pc = "convert" THEN [tried EXCEPT ![layer] = version] ELSE tried
  /\ snapshot' = NoSnapshot
  /\ UNCHANGED <<layer, persistedVersion, file, orphan, givenUp>>
  /\ SyncerOnly

(* The write is short, or it is complete and fdatasync or close fails. *)
writeFails(complete) ==
  /\ pc = "write"
  /\ file' = IF complete /\ ~orphan THEN [file EXCEPT ![layer] = snapshot.contents] ELSE file
  /\ CountFailure
  /\ snapshot' = NoSnapshot /\ orphan' = FALSE
  /\ UNCHANGED <<layer, persistedVersion, tried, givenUp>>
  /\ SyncerOnly

(* Gives up: the cache's version, as it is now, counts as persisted. *)
giveUp ==
  /\ pc = "giveUp"
  /\ persistedVersion' = [persistedVersion EXCEPT ![layer] = version]
  /\ givenUp' = [givenUp EXCEPT ![layer] = TRUE]
  /\ nSyncFailures' = 0
  /\ Pause
  /\ UNCHANGED <<layer, snapshot, file, orphan, tried>>
  /\ SyncerOnly

-----------------------------------------------------------------------------
Sync ==
  \/ wakeUp
  \/ getPersistence
  \/ checkStop
  \/ syncNow
  \/ convertToKeyValuePairs
  \/ open
  \/ persisted
  \/ syncFails
  \/ \E complete \in BOOLEAN : writeFails(complete)
  \/ giveUp

Next ==
  \/ \E c \in Client :
       \/ \E k \in Key : \/ \E v \in Val : put(c, k, v)
                         \/ get(c, k)
                         \/ remove(c, k)
       \/ \E b \in BOOLEAN : clear(c, b)
       \/ clearGetsPersistence(c)
       \/ \E p \in Layer : clearPersistence(c, p) \/ setPersistence(c, p)
  \/ destroy
  \/ restart
  \/ Sync

Spec == Init /\ [][Next]_vars

(* The syncer's thread keeps running. *)
FairSpec == Spec /\ WF_vars(Sync)

-----------------------------------------------------------------------------
(* Properties. *)

TypeOK ==
  /\ ToSet(order) = DOMAIN map /\ DOMAIN map \subseteq Key /\ IsInjective(order)
  /\ \A k \in DOMAIN map : map[k] \in Val
  /\ Len(order) <= Capacity
  /\ version \in 1..MaxVersion
  /\ persistence \in Layer \cup {NoPersistence} /\ layer \in Layer \cup {NoPersistence}
  /\ persistedVersion \in [Layer -> 0..MaxVersion] /\ tried \in [Layer -> 0..MaxVersion]
  /\ givenUp \in [Layer -> BOOLEAN]
  /\ {stopSyncer, orphan} \subseteq BOOLEAN
  /\ pc \in {"wait", "loop", "stopping", "syncNow", "convert", "open", "write", "giveUp", "done"}
  /\ pc \in {"stopping", "syncNow", "convert", "open", "write", "giveUp"} => layer \in Layer
  /\ snapshot.version \in 0..MaxVersion
  /\ nSyncFailures \in 0..(IF nSyncRetries = 0 THEN 0 ELSE nSyncRetries - 1)
  /\ clearing \in [Client -> Layer \cup {"no", "getPersistence"}]

(***************************************************************************)
(* syncNow's comment on its unlocked check ("There is a chance that        *)
(* someone can update cache_ ... but that is ok") and the destructor's     *)
(* promise to wait for pending syncs: whenever the cache says it has no    *)
(* pending updates, its file holds its entries, whichever updates, layer   *)
(* changes, failures and crashes met the syncer at whichever point.  The   *)
(* exception is a layer that sync() gave up on.                            *)
(***************************************************************************)
SyncedIsPersisted ==
  \A p \in Layer :
    /\ p = persistence
    /\ ~hasChangedSince(persistedVersion[p])
    /\ ~givenUp[p]
    => file[p].map = map

(***************************************************************************)
(* A cache that was destroyed in order comes back with its entries: the    *)
(* destructor syncs, and the next constructor loads all of it.             *)
(***************************************************************************)
RestartRestores ==
  [][pc = "done" /\ pc' = "wait" /\ ~givenUp[persistence] => map' = map]_vars

(* ~LRUPersistentCache ends, however often its writes fail. *)
DestructorEnds == stopSyncer ~> pc = "done" \/ ~stopSyncer

(* Every update is written or given up on: a cache at rest has none        *)
(* pending.                                                                *)
PendingUpdatesEnd ==
  \A p \in Layer :
    persistence = p /\ hasChangedSince(persistedVersion[p])
      ~> persistence # p \/ ~hasChangedSince(persistedVersion[p])

(***************************************************************************)
(* LRUPersistentCache.h:124-126: sync() gives up on an update after it has *)
(* failed nSyncRetries times "and [does] not attempt to sync again until   *)
(* another update occurs": no update is given up on before it was tried.   *)
(***************************************************************************)
GivesUpOnTried == \A p \in Layer : givenUp[p] => persistedVersion[p] <= tried[p]
=============================================================================
