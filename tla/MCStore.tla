------------------------------ MODULE MCStore -------------------------------
(* What is kept and looked up, for TLC: the progress of the persistent cache's *)
(* syncer, the etcd client and its watch, and the TLS contexts served by name  *)
(* with their ticket keys.  A behaviour picks one of them, the others rest in  *)
(* an initial state.                                                           *)
EXTENDS LRUPersistentCache, FiniteSets, Integers

CONSTANTS
  Components,                                         \* those that may be picked
  Clients, MaxByte, MaxCalls, MaxRevision,            \* EtcdClient
  MaxEvents, MaxBatch, MaxCancels,                    \* EtcdWatch
  MaxConfigs, MaxCtxs, Undecodable                    \* SSLContextManager

VARIABLES
  component,
  store, revision, call, calls,
  mode, sent, incoming, stream, cq_, reading, finishing, reply, batches, isCancelled,
  loop, seen, cancels,
  strict_, contexts_, ctx, noMatchFn_, last, dirty

(* The calls the clients make, on the keys 1, 1.3 and 2: two clients can meet  *)
(* on one key, and a prefix covers two.                                        *)
P(op, key, value, old_value, old_revision, withPrefix) ==
  [op |-> op, key |-> key, value |-> value, old_value |-> old_value,
   old_revision |-> old_revision, withPrefix |-> withPrefix]
Calls_ ==
  {P("get", <<1>>, 0, 0, 0, FALSE), P("get", <<1>>, 0, 0, 0, TRUE),
   P("delete", <<1>>, 0, 0, 0, TRUE), P("delete", <<1>>, 0, 0, 0, FALSE),
   P("create", <<1>>, 1, 0, 0, FALSE), P("create", <<1, 3>>, 1, 0, 0, FALSE),
   P("create", <<2>>, 1, 0, 0, FALSE), P("set", <<1>>, 2, 0, 0, FALSE),
   P("update", <<1>>, 2, 0, 0, FALSE), P("cas_value", <<1>>, 2, 1, 0, FALSE),
   P("cas_index", <<1>>, 1, 0, 2, FALSE), P("cad_value", <<1>>, 0, 1, 0, FALSE),
   P("cad_index", <<1>>, 0, 0, 2, FALSE)}

(* Certificates with exact names, wildcards, aliases and weak signatures, in   *)
(* configurations with one or two of them; names are lists of labels.          *)
AX == <<"a", "x">>
BX == <<"b", "x">>
WX == <<"*", "x">>
Crt(cn, san, sha1) == [cn |-> cn, san |-> san, sha1 |-> sha1, loads |-> TRUE]
Cfg(certs, default, tickets, noMatch) ==
  [certs |-> certs, clientCA |-> TRUE, default |-> default, tickets |-> tickets,
   noMatch |-> noMatch]
Configs_ ==
  {Cfg(<<Crt(AX, <<WX>>, FALSE)>>, TRUE, TRUE, TRUE),
   Cfg(<<Crt(AX, <<>>, TRUE)>>, FALSE, TRUE, FALSE),
   Cfg(<<Crt(WX, <<BX>>, TRUE)>>, TRUE, FALSE, TRUE),
   Cfg(<<Crt(BX, <<<<"b", "*">>, <<"x">>>>, FALSE)>>, FALSE, TRUE, FALSE),
   Cfg(<<Crt(AX, <<>>, TRUE), Crt(BX, <<>>, FALSE)>>, FALSE, TRUE, FALSE),
   Cfg(<<Crt(<<"*">>, <<>>, FALSE)>>, FALSE, TRUE, FALSE)}
Seed(old, current, new) == [old |-> old, current |-> current, new |-> new]
FirstSeeds == Seed(<<"1">>, <<"2">>, <<"3">>)
Seeds_ ==
  {FirstSeeds, Seed(<<"2">>, <<"3">>, <<"4">>), Seed(<<"2">>, <<"2", "4">>, <<"bad">>),
   Seed(<<"2">>, <<>>, <<>>)}

Etcd == INSTANCE EtcdClient WITH Keys <- {<<1>>, <<1, 3>>, <<2>>}, Parameters <- Calls_
Watch == INSTANCE EtcdWatch
Contexts == INSTANCE SSLContextManager WITH
  Configs <- Configs_, Hosts <- {AX, BX, WX, <<"x">>, <<"c", "x">>, <<"c", "a", "x">>},
  InitialSeeds <- FirstSeeds, Seeds <- Seeds_

etcdVars == <<store, revision, call, calls>>
watchVars == <<mode, sent, incoming, stream, cq_, reading, finishing, reply, batches,
               isCancelled, loop, seen, cancels>>
contextVars == <<strict_, contexts_, ctx, noMatchFn_, last, dirty>>
storeVars == <<component, vars, etcdVars, watchVars, contextVars>>

StoreInit ==
  /\ component \in Components
  /\ Init
  /\ Etcd!Init
  /\ Watch!Init
  /\ Contexts!Init
  /\ component # "cache" => file = [p \in Layer |-> Unreadable]
  /\ component # "watch" => mode = "once" /\ stream = "open"
  /\ component # "contexts" => strict_

StoreNext ==
  /\ UNCHANGED component
  /\ \/ component = "cache" /\ Next /\ UNCHANGED <<etcdVars, watchVars, contextVars>>
     \/ component = "etcd" /\ Etcd!Next /\ UNCHANGED <<vars, watchVars, contextVars>>
     \/ component = "watch" /\ Watch!Next /\ UNCHANGED <<vars, etcdVars, contextVars>>
     \/ /\ component = "contexts" /\ Contexts!Next /\ UNCHANGED strict_
        /\ UNCHANGED <<vars, etcdVars, watchVars>>

(* The fairness of the component picked, as its module states it. *)
StoreFairness ==
  /\ WF_vars(component = "cache" /\ Sync)
  /\ WF_watchVars(component = "watch" /\ Watch!completeRead)
  /\ WF_watchVars(component = "watch" /\ Watch!completeWritesDone)
  /\ WF_watchVars(component = "watch" /\ Watch!waitForResponse)
  /\ WF_watchVars(component = "watch" /\ Watch!waitForResponseCallback)
  /\ WF_watchVars(component = "watch" /\ stream = "half" /\ Watch!closeStream)

StoreSpec == StoreInit /\ [][StoreNext]_storeVars /\ StoreFairness

-----------------------------------------------------------------------------
(* The types of all components. *)
StoreTypeOK ==
  /\ TypeOK
  /\ component = "etcd" => Etcd!TypeOK
  /\ component = "watch" => Watch!TypeOK
  /\ component = "contexts" => Contexts!TypeOK

(* What a call reports is what it did, whatever the other client does: its     *)
(* error code tells whether the transaction took effect and what was not as it *)
(* asked, value and prev_value are of one moment of the key, and a prefix      *)
(* covers its keys and no others.                                              *)
AnswersMatchStore ==
  Etcd!CodeTellsEffect /\ Etcd!CodeTellsReason /\ Etcd!ReportsOneMoment /\ Etcd!PrefixExact

(* A watch reports the first event of each message, once and in order, and     *)
(* never while the next Read may write into the reply.                         *)
WatchReports == Watch!ReplyIsStable /\ Watch!ReportsEveryBatch

(* SNI selects the context that the list of contexts says it should, none for  *)
(* a name its certificate does not have; and a context issues tickets under    *)
(* current seeds and can decrypt them.                                         *)
ContextsServeRight ==
  component = "contexts" =>
    Contexts!SniBestMatch /\ Contexts!SniCoversName /\ Contexts!IssuesCurrentTickets

(* A reset of the contexts that fails changes nothing that is served, one that *)
(* succeeds keeps the tickets issued before valid, and so do new seeds that    *)
(* isValidRotation accepts.                                                    *)
ResetsKeepTickets ==
  Contexts!ResetIsAtomic /\ Contexts!ResetKeepsTickets /\ Contexts!ValidRotationKeepsTickets

(* A cancelled watch comes to an end, whatever events still arrive, and        *)
(* cancelling it again after that does nothing.                                *)
CancelEnds == Watch!CancelEnds /\ Watch!CancelAgainIsSafe

(* The syncer's work ends: the destructor returns however often writes fail,   *)
(* and every update is written or given up on.                                 *)
SyncerEnds == DestructorEnds /\ PendingUpdatesEnd
=============================================================================
