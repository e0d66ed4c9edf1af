------------------------------ MODULE MCLarge -------------------------------
(* The two instances for TLC that are large enough to need symmetry: a         *)
(* ConnectionManager of three connections, and a persistent cache of two keys  *)
(* and two layers in a process that may crash.  A behaviour picks one of them, *)
(* the other rests in an initial state.                                        *)
EXTENDS ConnectionManager, TLC

CONSTANTS
  Components,                                         \* those that may be picked
  Client, Key, Val, Layer, NoPersistence, Capacity, nSyncRetries, MaxVersion, Crashes

VARIABLES
  component,
  map, order, version, persistence, persistedVersion, file, stopSyncer, pc, layer,
  snapshot, orphan, nSyncFailures, clearing, tried, givenUp

Cache == INSTANCE LRUPersistentCache

cacheVars == <<map, order, version, persistence, persistedVersion, file, stopSyncer, pc,
               layer, snapshot, orphan, nSyncFailures, clearing, tried, givenUp>>

LargeInit ==
  /\ component \in Components
  /\ Init
  /\ Cache!Init
  /\ component # "cache" => file = [p \in Layer |-> Cache!Unreadable]

LargeNext ==
  /\ UNCHANGED component
  /\ \/ component = "connections" /\ Next /\ UNCHANGED cacheVars
     \/ component = "cache" /\ Cache!Next /\ UNCHANGED vars

LargeSpec == LargeInit /\ [][LargeNext]_<<component, vars, cacheVars>>

(* Which connection, key or layer is which does not matter. *)
Symmetry == Permutations(Conn) \cup Permutations(Key) \cup Permutations(Layer)

-----------------------------------------------------------------------------
(* The types of both components. *)
LargeTypeOK == TypeOK /\ Cache!TypeOK

(* What counts as persisted, and was not given up on, is in the layer's file. *)
SyncedIsPersisted == Cache!SyncedIsPersisted

(* A cache restarted after an orderly end holds what it held before. *)
RestartRestores == Cache!RestartRestores
=============================================================================
