--------------------------- MODULE SSLSessionCache --------------------------
(* ssl/SSLSessionCacheManager: TLS sessions in a local LRU cache that all      *)
(* threads share (one bucket of ShardedLocalSSLSessionCache, each access under *)
(* its lock), and asynchronous lookups in an external cache through one        *)
(* manager per thread.  Session objects are counted by hand.  The callback     *)
(* that answers a lookup restarts the handshakes one by one, and other threads *)
(* run in between.                                                             *)
EXTENDS Naturals, Sequences, SequencesExt, FiniteSets

CONSTANTS
  Threads, Sockets,
  threadOf,        \* per socket, the thread it is accepted on
  Ids,             \* session ids
  Earlier,         \* those given out before the program started
  maxCacheSize, cacheCullSize,
  MaxSessions      \* session objects made

None == 0          \* nullptr

VARIABLES
  sessionCache,    \* the bucket: <<id, session>>, most recently used first
  externalCache_,  \* ids of the sessions sent to the external cache
  refs,            \* per session object, its reference count
  idOf,            \* per session object, its id
  pendingLookups_, \* per thread and id: the PendingLookup
  answering,       \* per thread: the id whose callback is running, or "no"
  sock,            \* per socket: the state of its handshake, id and session
  contexts_        \* threads whose SSL_CTX the context manager still holds

vars == <<sessionCache, externalCache_, refs, idOf, pendingLookups_, answering,
          sock, contexts_>>

Sessions == DOMAIN refs
NoLookup == [state |-> "none", session |-> None, waiters |-> <<>>]
Entries(cache, id) == {e \in Range(cache) : e[1] = id}
MostRecent(cache, id, o) == <<<<id, o>>>> \o SelectSeq(cache, LAMBDA e : e[1] # id)

(* What the lock protects: the session found for id, None if there is none or  *)
(* if what was stored could not be decoded.  find() makes it the most recent.  *)
Found(id) == IF Entries(sessionCache, id) = {} THEN None
             ELSE (CHOOSE e \in Entries(sessionCache, id) : TRUE)[2]
Promoted(id) == IF Entries(sessionCache, id) = {} THEN sessionCache
                ELSE MostRecent(sessionCache, id, Found(id))

-----------------------------------------------------------------------------
(* The local cache.                                                            *)

(* EvictingCacheMap: over its size it drops the least recently used ones.      *)
Culled(cache) ==
  LET over == Len(cache) > maxCacheSize
      n == IF over THEN Len(cache) - cacheCullSize ELSE Len(cache)
      kept == SubSeq(cache, 1, n)
  IN [kept |-> kept, pruned |-> {e[2] : e \in Range(cache) \ Range(kept)}]

(* Mutation: the session that is overwritten is not freed. *)
storeSession_NoFree(id, o, r) ==
  LET c == Culled(MostRecent(sessionCache, id, o))
  IN /\ sessionCache' = c.kept
     /\ refs' = [p \in DOMAIN r |-> IF p \in c.pruned THEN r[p] - 1 ELSE r[p]]

(* storeSession: the session stored for the same id is freed, and so is each   *)
(* one that is pruned.  r is the reference counts before.                      *)
storeSession(id, o, r) ==
  LET c == Culled(MostRecent(sessionCache, id, o))
      freed == c.pruned \cup {e[2] : e \in Entries(sessionCache, id)}
  IN /\ sessionCache' = c.kept
     /\ refs' = [p \in DOMAIN r |-> IF p \in freed THEN r[p] - 1 ELSE r[p]]

(* storeCacheRecord: sent to the external cache, which may not take it. *)
storeCacheRecord(id, stored) ==
  externalCache_' = IF stored THEN externalCache_ \cup {id} ELSE externalCache_

(* OpenSSL calls newSession at the end of a full handshake and gives it a      *)
(* reference: into the local cache, and sent to the external one.  The id is   *)
(* one never used before.                                                      *)
newSession(s, id, stored) ==
  LET o == Cardinality(Sessions) + 1 IN
  /\ sock[s].state = "full" /\ answering[threadOf[s]] = "no"
  /\ o <= MaxSessions /\ id \notin Earlier /\ \A p \in Sessions : idOf[p] # id
  /\ storeSession(id, o, Append(refs, 2))
  /\ idOf' = Append(idOf, id)
  /\ storeCacheRecord(id, stored)
  /\ sock' = [sock EXCEPT ![s] = [state |-> "done", id |-> id, session |-> o]]
  /\ UNCHANGED <<pendingLookups_, answering, contexts_>>

-----------------------------------------------------------------------------
(* The handshake that goes on with session o. *)
Resumed(id, o) ==
  [state |-> IF o = None THEN "full" ELSE "done", id |-> id, session |-> o]
Gone == [state |-> "gone", id |-> "no", session |-> None]
Blocked(id) == [state |-> "blocked", id |-> id, session |-> None]

(* lookupCacheRecord: the request goes out, and its context guards the socket. *)
(* The one that started it is the first of waiters.                            *)
lookupCacheRecord(s, id) ==
  pendingLookups_' = [pendingLookups_ EXCEPT ![threadOf[s]][id] =
                        [state |-> "inProgress", session |-> None, waiters |-> <<s>>]]

(* Someone else initiated the request: attach, with a guard too. *)
attach(s, id) ==
  pendingLookups_' = [pendingLookups_ EXCEPT ![threadOf[s]][id].waiters = Append(@, s)]

(* Mutation: no request goes out for the first handshake. *)
block_NotStarted(s, id) ==
  /\ sock' = [sock EXCEPT ![s] = Blocked(id)]
  /\ attach(s, id)

(* SSL_SESSION_CB_WOULD_BLOCK. *)
block(s, id) ==
  /\ sock' = [sock EXCEPT ![s] = Blocked(id)]
  /\ IF pendingLookups_[threadOf[s]][id].state = "inProgress" THEN attach(s, id)
     ELSE lookupCacheRecord(s, id)

(* The handshake goes on with o, which is referenced once more. *)
resume(s, id, o) ==
  /\ sock' = [sock EXCEPT ![s] = Resumed(id, o)]
  /\ refs' = IF o = None THEN refs ELSE [refs EXCEPT ![o] = @ + 1]

(* getSession for a client that offers id: the session of the local cache; or  *)
(* a lookup outside, if the handshake can wait (SSL_want_sess_cache_lookup)    *)
(* and the request in progress or a new one can be joined; or a miss.          *)
getSession(s, id, wants, sent) ==
  LET lookup == pendingLookups_[threadOf[s]][id] IN
  /\ sock[s].state = "new" /\ threadOf[s] \in contexts_ /\ answering[threadOf[s]] = "no"
  /\ sessionCache' = Promoted(id)
  /\ IF Found(id) = None /\ wants /\ (lookup.state = "inProgress" \/ sent)
     THEN block(s, id) /\ UNCHANGED refs
     ELSE resume(s, id, Found(id)) /\ UNCHANGED pendingLookups_
  /\ UNCHANGED <<externalCache_, idOf, answering, contexts_>>

-----------------------------------------------------------------------------
(* The external cache answers thread t's request.                              *)

(* onGetSuccess makes a session object of the record found (or none, when it   *)
(* does not decode); onGetFailure, for a record that is not there or for any   *)
(* error, has none.  restartSSLAccept begins.                                  *)
answer(t, id, found, o, r, ids) ==
  /\ pendingLookups_[t][id].state = "inProgress" /\ answering[t] = "no"
  /\ pendingLookups_' = [pendingLookups_ EXCEPT ![t][id].state = found,
                                                ![t][id].session = o]
  /\ answering' = [answering EXCEPT ![t] = id]
  /\ refs' = r /\ idOf' = ids
  /\ UNCHANGED <<sessionCache, externalCache_, sock, contexts_>>

onGetSuccess(t, id, decodes) ==
  /\ id \in externalCache_
  /\ IF decodes
     THEN /\ Cardinality(Sessions) < MaxSessions
          /\ answer(t, id, "found", Cardinality(Sessions) + 1, Append(refs, 1), Append(idOf, id))
     ELSE answer(t, id, "found", None, refs, idOf)

onGetFailure(t, id) == answer(t, id, "notFound", None, refs, idOf)

(* restartSSLAccept of one socket after the other: the handshake calls         *)
(* getSession again, looks in the local cache first and then finds the request *)
(* complete.  A socket that was closed meanwhile does nothing.                 *)
restartSSLAccept(t) ==
  LET id == answering[t]
      lookup == pendingLookups_[t][id]
      s == Head(lookup.waiters)
  IN /\ id # "no" /\ lookup.waiters # <<>>
     /\ pendingLookups_' = [pendingLookups_ EXCEPT ![t][id].waiters = Tail(@)]
     /\ IF sock[s].state = "blocked"
        THEN /\ resume(s, id, IF Found(id) # None THEN Found(id) ELSE lookup.session)
             /\ sessionCache' = Promoted(id)
        ELSE /\ sock' = [sock EXCEPT ![s] = Gone]
             /\ UNCHANGED <<refs, sessionCache>>
     /\ UNCHANGED <<externalCache_, idOf, answering, contexts_>>

(* All are restarted: the lookup is erased and what was found goes into the    *)
(* local cache, which takes the reference the object was made with.            *)
finish(t) ==
  LET id == answering[t]
      lookup == pendingLookups_[t][id]
  IN /\ id # "no" /\ lookup.waiters = <<>>
     /\ pendingLookups_' = [pendingLookups_ EXCEPT ![t][id] = NoLookup]
     /\ answering' = [answering EXCEPT ![t] = "no"]
     /\ IF lookup.state = "found" THEN storeSession(id, lookup.session, refs)
        ELSE UNCHANGED <<sessionCache, refs>>
     /\ UNCHANGED <<externalCache_, idOf, sock, contexts_>>

-----------------------------------------------------------------------------
(* A socket is closed.  One that is in a lookup is held by its DestructorGuard *)
(* until it has been restarted, and holds its SSL_CTX with the manager.        *)
closeNow(s) ==
  /\ sock[s].state \in {"blocked", "full", "done"} /\ answering[threadOf[s]] = "no"
  /\ sock' = [sock EXCEPT ![s] = IF @.state = "blocked" THEN [@ EXCEPT !.state = "closed"]
                                 ELSE Gone]
  /\ refs' = IF sock[s].session = None THEN refs
             ELSE [refs EXCEPT ![sock[s].session] = @ - 1]
  /\ UNCHANGED <<sessionCache, externalCache_, idOf, pendingLookups_, answering, contexts_>>

(* The context manager of the thread drops the SSL_CTX (its contexts are reset). *)
dropContext(t) ==
  /\ t \in contexts_ /\ answering[t] = "no"
  /\ contexts_' = contexts_ \ {t}
  /\ UNCHANGED <<sessionCache, externalCache_, refs, idOf, pendingLookups_, answering, sock>>

-----------------------------------------------------------------------------
Init ==
  /\ sessionCache = <<>> /\ externalCache_ = Earlier
  /\ refs = <<>> /\ idOf = <<>>
  /\ pendingLookups_ = [t \in Threads |-> [id \in Ids |-> NoLookup]]
  /\ answering = [t \in Threads |-> "no"]
  /\ sock = [s \in Sockets |-> [state |-> "new", id |-> "no", session |-> None]]
  /\ contexts_ = Threads

Answer(t, id) == onGetFailure(t, id) \/ \E d \in BOOLEAN : onGetSuccess(t, id, d)
Continue(t) == restartSSLAccept(t) \/ finish(t)

Next ==
  \/ \E s \in Sockets : \/ closeNow(s)
                        \/ \E id \in Ids, x \in BOOLEAN : newSession(s, id, x)
                        \/ \E id \in Ids, w, x \in BOOLEAN : getSession(s, id, w, x)
  \/ \E t \in Threads : dropContext(t) \/ Continue(t) \/ \E id \in Ids : Answer(t, id)

(* SSLCacheProvider.h: "When done, call the cache manager's onGetSuccess() or  *)
(* onGetFailure() callback"; the callback that has begun runs to its end.  A   *)
(* socket asks once, so a thread that goes on answers every request.           *)
Fairness == \A t \in Threads : WF_vars(Continue(t) \/ \E id \in Ids : Answer(t, id))

Spec == Init /\ [][Next]_vars /\ Fairness

-----------------------------------------------------------------------------
TypeOK ==
  /\ \A e \in Range(sessionCache) : e[1] \in Ids /\ e[2] \in Sessions \cup {None}
  /\ externalCache_ \subseteq Ids /\ contexts_ \subseteq Threads
  /\ refs \in Seq(Nat) /\ idOf \in Seq(Ids) /\ Len(refs) = Len(idOf)
  /\ \A s \in Sockets :
       sock[s].state \in {"new", "blocked", "closed", "full", "done", "gone"}

(* The count of every session object is the number of its users: the local     *)
(* cache, each handshake that has it, and the callback that is about to store  *)
(* it.  No session is freed under a user, whatever other threads store, cull   *)
(* or restore meanwhile, and none is leaked.                                   *)
RefsBalanced ==
  \A o \in Sessions :
    refs[o] = Cardinality({s \in Sockets : sock[s].session = o})
              + Cardinality({e \in Range(sessionCache) : e[2] = o})
              + Cardinality({x \in Threads \X Ids : pendingLookups_[x[1]][x[2]].session = o})

(* A handshake resumes the session it asked for. *)
ResumesOwnSession ==
  \A s \in Sockets : sock[s].session # None => idOf[sock[s].session] = sock[s].id

(* The local cache keeps to its size, with one session per id. *)
CacheBounded ==
  /\ Len(sessionCache) <= maxCacheSize
  /\ \A i, j \in DOMAIN sessionCache : sessionCache[i][1] = sessionCache[j][1] => i = j

(* "the 2nd - Nth callers attach to the original external cache requests"      *)
(* (SSLSessionCacheManager.h:129): a handshake that waits is known to the      *)
(* lookup of its thread, so the answer will restart it.                        *)
BlockedIsAttached ==
  \A s \in Sockets : sock[s].state \in {"blocked", "closed"} =>
    s \in Range(pendingLookups_[threadOf[s]][sock[s].id].waiters)

(* The manager that an external request will call back exists: the context     *)
(* manager holds its SSL_CTX, or the guarded sockets of the lookup do.         *)
ManagerExists ==
  \A t \in Threads, id \in Ids :
    LET lookup == pendingLookups_[t][id] IN
    lookup.state = "inProgress" =>
      \/ t \in contexts_
      \/ \E s \in Range(lookup.waiters) : sock[s].state \in {"blocked", "closed"}

(* Every handshake that waits for the external cache is restarted or closed. *)
BlockedGoesOn == \A s \in Sockets : sock[s].state = "blocked" ~> sock[s].state # "blocked"
=============================================================================
