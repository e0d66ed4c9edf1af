----------------------------- MODULE Broadcast ------------------------------
(* channel/broadcast: observers (ObservingHandler) of upstream broadcasts      *)
(* (BroadcastHandler), found by routing key in the pool of one thread          *)
(* (BroadcastPool, BroadcastManager).  Everything runs on one event loop; the  *)
(* raw pointers both ways are what can go wrong.                               *)
EXTENDS Naturals, FiniteSets

CONSTANTS
  Observers,  \* connections that want to observe a broadcast, each once
  Keys        \* routing data

VARIABLES
  bcast,      \* the pool: per key, the manager's state, waiters and subscribers
  connects,   \* per key, upstream connections started and not closed
  made,       \* per key, how many managers the pool has made: names the handler
  obs         \* per observer, its life, its key and broadcastHandler_ (0: null)

vars == <<bcast, connects, made, obs>>

Absent == [st |-> "absent", waiting |-> {}, subs |-> {}]
Present(o) == obs[o].st \in {"waiting", "watching"}
Close(S, f) == [o \in Observers |->
                 IF o \in S THEN [f[o] EXCEPT !.st = "closed", !.handler = 0] ELSE f[o]]

(* deleteBroadcast: the manager, its client and the upstream pipeline go. *)
deleteBroadcast(k) ==
  /\ bcast' = [bcast EXCEPT ![k] = Absent]
  /\ connects' = [connects EXCEPT ![k] = @ - 1]

(* The subscriber set of key k becomes S; a broadcast nobody listens to closes *)
(* its upstream connection, which deletes it from the pool.                    *)
closeIfIdle(k, S) ==
  IF S = {} THEN deleteBroadcast(k)
  ELSE /\ bcast' = [bcast EXCEPT ![k] = [st |-> "ready", waiting |-> {}, subs |-> S]]
       /\ UNCHANGED connects

-----------------------------------------------------------------------------
(* BroadcastPool::getHandler and BroadcastManager::getHandler, and what the    *)
(* observer does with the future: subscribe inline when it is complete, wait   *)
(* for the shared promise otherwise.                                           *)
getHandler(o, k) ==
  CASE bcast[k].st = "absent" ->
         /\ bcast' = [bcast EXCEPT ![k] = [st |-> "connecting", waiting |-> {o}, subs |-> {}]]
         /\ connects' = [connects EXCEPT ![k] = @ + 1]
         /\ made' = [made EXCEPT ![k] = @ + 1]
         /\ obs' = [obs EXCEPT ![o] = [st |-> "waiting", key |-> k, handler |-> 0]]
    [] bcast[k].st = "connecting" ->
         /\ bcast' = [bcast EXCEPT ![k].waiting = @ \cup {o}]
         /\ obs' = [obs EXCEPT ![o] = [st |-> "waiting", key |-> k, handler |-> 0]]
         /\ UNCHANGED <<connects, made>>
    [] bcast[k].st = "ready" ->
         /\ bcast' = [bcast EXCEPT ![k].subs = @ \cup {o}]
         /\ obs' = [obs EXCEPT ![o] = [st |-> "watching", key |-> k, handler |-> made[k]]]
         /\ UNCHANGED <<connects, made>>

(* ObservingHandler::transportActive: ingress is paused, the handler asked for.*)
transportActive(o, k) ==
  /\ obs[o].st = "new"
  /\ getHandler(o, k)

(* The upstream connect succeeded and setRoutingData() went well: the promise  *)
(* runs every waiting observer's continuation inline, and those not deleted    *)
(* meanwhile subscribe and resume ingress.                                     *)
connectDone(k) ==
  LET there == {o \in bcast[k].waiting : Present(o)} IN
  /\ bcast[k].st = "connecting"
  /\ obs' = [o \in Observers |->
               IF o \in there
               THEN [obs[o] EXCEPT !.st = "watching", !.handler = made[k]] ELSE obs[o]]
  /\ closeIfIdle(k, there)
  /\ UNCHANGED made

(* The connect failed, setRoutingData() threw, or the pipeline was deleted     *)
(* under it: the broadcast leaves the pool first, then every waiting observer  *)
(* closes.                                                                     *)
handleConnectError(k) ==
  /\ bcast[k].st = "connecting"
  /\ deleteBroadcast(k)
  /\ obs' = Close(bcast[k].waiting, obs)
  /\ UNCHANGED made

-----------------------------------------------------------------------------
(* BroadcastHandler::read: every subscriber writes the data on; the writes of  *)
(* the observers in F fail at once, their handlers close and unsubscribe while *)
(* the (copied) list is walked.                                                *)
read(k, F) ==
  /\ bcast[k].st = "ready" /\ F # {} /\ F \subseteq bcast[k].subs
  /\ obs' = Close(F, obs)
  /\ closeIfIdle(k, bcast[k].subs \ F)
  /\ UNCHANGED made

(* BroadcastHandler::readEOF and readException: onCompleted or onError of each *)
(* subscriber forgets the broadcast and closes, the list is cleared.           *)
readEOF(k) ==
  /\ bcast[k].st = "ready"
  /\ obs' = Close(bcast[k].subs, obs)
  /\ closeIfIdle(k, {})
  /\ UNCHANGED made

(* Mutation: an observer goes without unsubscribing. *)
leave_StaySubscribed(o) ==
  /\ Present(o)
  /\ obs' = Close({o}, obs)
  /\ UNCHANGED <<bcast, connects, made>>

(* An observer's own connection ends (readEOF, readException, a failed write): *)
(* it closes, and ~ObservingHandler unsubscribes it, or only marks it deleted  *)
(* while it still waits.                                                       *)
leave(o) ==
  /\ Present(o)
  /\ obs' = Close({o}, obs)
  /\ IF obs[o].st = "watching"
     THEN closeIfIdle(obs[o].key, bcast[obs[o].key].subs \ {o})
     ELSE UNCHANGED <<bcast, connects>>
  /\ UNCHANGED made

-----------------------------------------------------------------------------
Init ==
  /\ bcast = [k \in Keys |-> Absent]
  /\ connects = [k \in Keys |-> 0]
  /\ made = [k \in Keys |-> 0]
  /\ obs \in [Observers -> {[st |-> "new", key |-> k, handler |-> 0] : k \in Keys}]

Next ==
  \/ \E o \in Observers : transportActive(o, obs[o].key) \/ leave(o)
  \/ \E k \in Keys :
       \/ connectDone(k)
       \/ handleConnectError(k)
       \/ \E F \in SUBSET Observers : read(k, F)
       \/ readEOF(k)

(* An upstream connect ends, one way or the other. *)
Fairness == \A k \in Keys : WF_vars(connectDone(k) \/ handleConnectError(k))

Spec == Init /\ [][Next]_vars /\ Fairness

-----------------------------------------------------------------------------
TypeOK ==
  /\ bcast \in [Keys -> [st : {"absent", "connecting", "ready"},
                         waiting : SUBSET Observers, subs : SUBSET Observers]]
  /\ connects \in [Keys -> Nat] /\ made \in [Keys -> Nat]
  /\ obs \in [Observers -> [st : {"new", "waiting", "watching", "closed"},
                            key : Keys, handler : Nat]]

(* BroadcastPool: "There is atmost one broadcast for any unique routing data": *)
(* one upstream connection while the pool knows the key, none when it does not.*)
OneUpstream ==
  \A k \in Keys : connects[k] = IF bcast[k].st = "absent" THEN 0 ELSE 1

(* A connected broadcast has a subscriber: an upstream connection whose        *)
(* observers all left, before or after it was made, is not leaked.             *)
NoIdleBroadcast == \A k \in Keys : bcast[k].st = "ready" => bcast[k].subs # {}

(* Subscriber pointers lead to observers that exist and listen, so onNext and  *)
(* onCompleted are never called on a deleted handler.                          *)
SubscribersExist ==
  \A k \in Keys : \A o \in bcast[k].subs : obs[o].st = "watching" /\ obs[o].key = k

(* An observer's pointer leads to the broadcast that is in the pool now, with  *)
(* the observer among its subscribers: ~ObservingHandler unsubscribes from a   *)
(* live handler, and CHECK(subscribers_.empty()) of ~BroadcastHandler holds.   *)
HandlerExists ==
  \A o \in Observers : obs[o].handler # 0 =>
    LET k == obs[o].key IN
    bcast[k].st = "ready" /\ made[k] = obs[o].handler /\ o \in bcast[k].subs

(* An observer that waits for a broadcast is subscribed or closed in the end.  *)
WaitersAnswered ==
  \A o \in Observers : obs[o].st = "waiting" ~> obs[o].st \in {"watching", "closed"}
=============================================================================
