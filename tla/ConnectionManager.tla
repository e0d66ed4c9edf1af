-------------------------- MODULE ConnectionManager --------------------------
(***************************************************************************)
(* wangle::ConnectionManager: the connections of one event base thread, in *)
(* one intrusive list, with two iterators into it.  [begin, idleIterator)  *)
(* are the busy connections, [idleIterator, end) the idle ones; a drain    *)
(* walks drainIterator over the list in batches, one batch per iteration   *)
(* of the event loop, twice: a pass that notifies every connection of the  *)
(* shutdown and, after the idle grace period, a pass that tells each one   *)
(* to close when it is idle.                                               *)
(*                                                                         *)
(* All of it runs on the event base thread, so each public method and each *)
(* callback is one atomic action.  What interleaves are the event loop's   *)
(* callbacks (the next batch, the grace timer, a deferred closeWhenIdle)   *)
(* with the traffic of the connections between two batches.                *)
(*                                                                         *)
(* An intrusive iterator is the node it stands on: when the node is        *)
(* unlinked and linked again elsewhere, the iterator moves with it.  So an *)
(* iterator is a connection, or End.                                       *)
(***************************************************************************)
EXTENDS Integers, Sequences, FiniteSets

CONSTANTS
  Conn,           \* connections that may exist at a time
  End,            \* conns_.end()
  Batch,          \* connections handled per loop iteration (64 in the code)
  Graces,         \* is idleGrace > 0?  The values a caller may pass
  Pcts,           \* percentages a caller may pass to a partial drain or drop
  Timeouts,       \* values of addConnection's timeout argument
  Thresholds,     \* is a threshold passed to setLoweredIdleTimeout < timeout_?
  ArrivalStates   \* drain states a connection may be added with

ASSUME ConnAssumption == IsFiniteSet(Conn) /\ End \notin Conn
ASSUME BatchAssumption == Batch \in Nat \ {0}
ASSUME InputAssumption ==
  /\ Graces \subseteq BOOLEAN
  /\ Pcts \subseteq 0..100
  /\ Timeouts \subseteq BOOLEAN
  /\ Thresholds \subseteq BOOLEAN

(* ConnectionManager::ShutdownState, compared with >= in the code. *)
NONE == 0
NOTIFY_PENDING_SHUTDOWN == 1
NOTIFY_PENDING_SHUTDOWN_COMPLETE == 2
CLOSE_WHEN_IDLE == 3
CLOSE_WHEN_IDLE_COMPLETE == 4

(* ManagedConnection::DrainState. *)
DrainStates == {"NONE", "SENT_NOTIFY", "SENT_CLOSE"}

ASSUME ArrivalAssumption == ArrivalStates \subseteq DrainStates

VARIABLES
  conns,          \* conns_, front first
  drainIterator,  \* drainIterator_
  idleIterator,   \* idleIterator_
  drainState,     \* ManagedConnection::state_
  connTimeouts,   \* connections scheduled on connTimeouts_
  shutdownState,  \* DrainHelper::shutdownState_
  all,            \* DrainHelper::all_
  pct,            \* DrainHelper::pct_, in percent
  notifyPending,  \* notifyPendingShutdown_
  loopScheduled,  \* the DrainHelper is scheduled as a loop callback
  graceScheduled, \* the DrainHelper's idle grace timer is scheduled
  deferredClose,  \* connections with a closeWhenIdle deferred by addConnection
  earlyDrop,      \* idleConnEarlyDropThreshold_ < timeout_
  aborted,        \* a CHECK failed: the process is gone
  idleOrder,      \* history: the idle connections, longest idle first
  exempt          \* history: connections the drain in progress is known to miss

list == <<conns, drainIterator, idleIterator, drainState, connTimeouts, idleOrder>>
drain == <<shutdownState, all, pct, notifyPending, loopScheduled, graceScheduled, exempt>>
vars == <<list, drain, deferredClose, earlyDrop, aborted>>

-----------------------------------------------------------------------------
(* The list and its iterators. *)

Linked == {conns[i] : i \in 1..Len(conns)}

(* The node at a position of list s, End past its last one. *)
At(s, i) == IF i \in 1..Len(s) THEN s[i] ELSE End

(* The position of a node of list s, one past the last for End. *)
Pos(s, it) ==
  IF it = End THEN Len(s) + 1 ELSE CHOOSE i \in 1..Len(s) : s[i] = it

Without(s, gone) == SelectSeq(s, LAMBDA c : c \notin gone)

(* Where an iterator at it stands once the nodes in gone were unlinked one  *)
(* by one, each moving it to its successor when it stood on that node.      *)
StepPast(s, it, gone) ==
  LET left == {i \in Pos(s, it)..Len(s) : s[i] \notin gone}
  IN  IF left = {} THEN End
      ELSE s[CHOOSE i \in left : \A j \in left : i <= j]

(* How many of n connections a percentage stands for: min(n, n * pct). *)
Share(n, percent) == (n * percent) \div 100

(* Mutation: a full drain starts at the second connection. *)
drainStartIterator_SkipsFront(s, isAll, percent) ==
  At(s, IF isAll THEN 2 ELSE Len(s) - Share(Len(s), percent) + 1)

(* DrainHelper::drainStartIterator on list s. *)
drainStartIterator(s, isAll, percent) ==
  At(s, IF isAll THEN 1 ELSE Len(s) - Share(Len(s), percent) + 1)

(* getShutdownState: only a full drain counts. *)
getShutdownState == IF all THEN shutdownState ELSE NONE

(* fireNotifyPendingShutdown and fireCloseWhenIdle on state s. *)
FireNotify(s) == IF s = "NONE" THEN "SENT_NOTIFY" ELSE s
FireClose(s, force) ==
  IF force \/ s = "SENT_NOTIFY" THEN "SENT_CLOSE" ELSE s

(* Mutation: the timer of an unlinked connection is not cancelled. *)
Forget_KeepsTimer(gone) ==
  /\ conns' = Without(conns, gone)
  /\ idleIterator' = StepPast(conns, idleIterator, gone)
  /\ connTimeouts' = connTimeouts
  /\ idleOrder' = Without(idleOrder, gone)

(* Unlink the connections in gone: their timers are cancelled, iterators on *)
(* them step past them.  A connection that is unlinked is destroyed; its    *)
(* name stands for another, new connection when it is added again.          *)
Forget(gone) ==
  /\ conns' = Without(conns, gone)
  /\ idleIterator' = StepPast(conns, idleIterator, gone)
  /\ connTimeouts' = connTimeouts \ gone
  /\ idleOrder' = Without(idleOrder, gone)
-----------------------------------------------------------------------------
Init ==
  /\ conns = <<>>
  /\ drainIterator = End
  /\ idleIterator = End
  /\ drainState = [c \in Conn |-> "NONE"]
  /\ connTimeouts = {}
  /\ shutdownState = NONE
  /\ all = TRUE
  /\ pct = 100
  /\ notifyPending = TRUE
  /\ loopScheduled = FALSE
  /\ graceScheduled = FALSE
  /\ deferredClose = {}
  /\ earlyDrop = TRUE
  /\ aborted = FALSE
  /\ idleOrder = <<>>
  /\ exempt = {}

(***************************************************************************)
(* addConnection.  A connection that joins a full drain is notified at     *)
(* once, and told to close at the end of the loop iteration.  A connection *)
(* already in the list is only given its timeout and signals again.        *)
(***************************************************************************)
addConnection(c, timeout, arrival) ==
  /\ arrival \in IF c \in Linked THEN {drainState[c]} ELSE ArrivalStates
  /\ c \in deferredClose => c \in Linked  \* until then c is the old object
  /\ conns' = IF c \in Linked THEN conns ELSE <<c>> \o conns
  /\ connTimeouts' = IF timeout THEN connTimeouts \cup {c} ELSE connTimeouts
  /\ drainState' = [drainState EXCEPT ![c] =
       IF getShutdownState >= NOTIFY_PENDING_SHUTDOWN /\ notifyPending
       THEN FireNotify(arrival) ELSE arrival]
  /\ deferredClose' = IF getShutdownState >= CLOSE_WHEN_IDLE
                      THEN deferredClose \cup {c} ELSE deferredClose
  /\ UNCHANGED <<drainIterator, idleIterator, idleOrder, drain, earlyDrop>>

(* The lambda addConnection leaves to the end of the loop iteration.  The  *)
(* connection may be gone by then, and closeWhenIdle may destroy it.       *)
runDeferredClose(c) ==
  /\ c \in deferredClose
  /\ deferredClose' = deferredClose \ {c}
  /\ LET closed == FireClose(drainState[c], ~notifyPending)
         fired == c \in Linked /\ (~notifyPending \/ drainState[c] = "SENT_NOTIFY")
     IN  \E gone \in IF fired THEN {{}, {c}} ELSE {{}} :
           /\ Forget(gone)
           /\ drainIterator' = StepPast(conns, drainIterator, gone)
           /\ drainState' = [drainState EXCEPT ![c] =
                IF c \in Linked \ gone THEN closed ELSE "NONE"]
           /\ exempt' = exempt \ gone
  /\ UNCHANGED <<shutdownState, all, pct, notifyPending, loopScheduled,
                 graceScheduled, earlyDrop>>

(* removeConnection, or the destructor of a connection, which calls it. *)
removeConnection(c) ==
  /\ c \in Linked
  /\ Forget({c})
  /\ drainIterator' = StepPast(conns, drainIterator, {c})
  /\ drainState' = [drainState EXCEPT ![c] = "NONE"]
  /\ exempt' = exempt \ {c}
  /\ UNCHANGED <<shutdownState, all, pct, notifyPending, loopScheduled,
                 graceScheduled, deferredClose, earlyDrop>>

(* resetTimeout and resetTimeoutTo, with a positive timeout, of a connection *)
(* that uses them.                                                          *)
resetTimeout(c) ==
  /\ TRUE \in Timeouts
  /\ c \in Linked
  /\ connTimeouts' = connTimeouts \cup {c}
  /\ UNCHANGED <<conns, drainIterator, idleIterator, drainState, idleOrder,
                 drain, deferredClose, earlyDrop>>

(* The timer of a connection expires: the connection drops itself, or lives *)
(* on with no timer.                                                        *)
timeoutExpired(c) ==
  /\ c \in connTimeouts
  /\ \/ removeConnection(c)
     \/ /\ connTimeouts' = connTimeouts \ {c}
        /\ UNCHANGED <<conns, drainIterator, idleIterator, drainState, idleOrder,
                       drain, deferredClose, earlyDrop>>

(* Mutation: a grace timer that expired during the notify pass is forgotten. *)
endBatch_ForgetsExpiredGrace(state, next, pending, left) ==
  IF next # End THEN
    /\ drainIterator' = next
    /\ shutdownState' = state
    /\ loopScheduled' = TRUE
  ELSE
    /\ drainIterator' = End
    /\ shutdownState' = state + 1
    /\ loopScheduled' = pending

(***************************************************************************)
(* The end of DrainHelper::drainConnections, with the iterator at next,    *)
(* the given connections left and a loop callback pending or not.  More of *)
(* the list is for the next loop iteration.  At its end the notify pass    *)
(* waits for the grace timer, or, when that has expired already, starts    *)
(* the close pass in the next iteration.                                   *)
(***************************************************************************)
endBatch(state, next, pending, left) ==
  IF next # End THEN
    /\ drainIterator' = next
    /\ shutdownState' = state
    /\ loopScheduled' = TRUE
  ELSE IF state = NOTIFY_PENDING_SHUTDOWN /\ ~graceScheduled' THEN
    /\ drainIterator' = drainStartIterator(left, all', pct')
    /\ shutdownState' = CLOSE_WHEN_IDLE
    /\ loopScheduled' = TRUE
  ELSE
    /\ drainIterator' = End
    /\ shutdownState' = state + 1
    /\ loopScheduled' = pending

(***************************************************************************)
(* DrainHelper::drainConnections, entered in a shutdown state, with the    *)
(* iterator at it, with or without a loop callback still pending, and with *)
(* the history value missed; its callers have set all', pct',              *)
(* notifyPending' and graceScheduled'.  It fires the signal of the pass at *)
(* the next Batch connections, each of which may unlink itself in response. *)
(***************************************************************************)
drainConnections(state, it, pending, missed) ==
  LET from  == Pos(conns, it)
      next  == At(conns, from + Batch)
      batch == {At(conns, i) : i \in from..(from + Batch - 1)} \ {End}
      Fire(s) == IF state = NOTIFY_PENDING_SHUTDOWN
                 THEN FireNotify(s) ELSE FireClose(s, ~notifyPending')
      called == {c \in batch : \/ Fire(drainState[c]) # drainState[c]
                               \/ state = CLOSE_WHEN_IDLE /\ ~notifyPending'}
  IN  \E gone \in SUBSET called :
        /\ Forget(gone)
        /\ drainState' = [c \in Conn |->
             CASE c \in gone  -> "NONE"
               [] c \in batch \ gone -> Fire(drainState[c])
               [] OTHER -> drainState[c]]
        /\ exempt' = missed \ gone
        /\ endBatch(state, next, pending, Without(conns, gone))

(* DrainHelper::startDrain, after its callers chose what to drain and left *)
(* the grace timer scheduled or not.                                       *)
startDrain(grace, scheduled) ==
  /\ graceScheduled' = (grace \/ scheduled)
  /\ notifyPending' = (notifyPending /\ grace)
  /\ drainConnections(IF grace THEN NOTIFY_PENDING_SHUTDOWN ELSE CLOSE_WHEN_IDLE,
                      drainStartIterator(conns, all', pct'), loopScheduled, {})
  /\ UNCHANGED <<deferredClose, earlyDrop>>

(* initiateGracefulShutdown and startDrainAll, which cancels the grace     *)
(* timer of a partial drain.  Ignored when a full drain was begun before.  *)
initiateGracefulShutdown(grace) ==
  /\ getShutdownState = NONE
  /\ all' = TRUE
  /\ pct' = 100
  /\ startDrain(grace, FALSE)

(* Mutation: a partial drain is started over a full one. *)
drainPartially_OverFull(percent, grace) ==
  /\ all' = FALSE
  /\ pct' = percent
  /\ startDrain(grace, graceScheduled)

(* drainConnections(pct) of the manager and startDrainPartial. *)
drainPartially(percent, grace) ==
  /\ getShutdownState = NONE
  /\ all' = FALSE
  /\ pct' = percent
  /\ startDrain(grace, graceScheduled)

(* DrainHelper::runLoopCallback.  The CHECK of drainConnections aborts the *)
(* process unless a pass is in progress.                                   *)
runLoopCallback ==
  /\ loopScheduled
  /\ IF shutdownState \in {NOTIFY_PENDING_SHUTDOWN, CLOSE_WHEN_IDLE} THEN
       /\ UNCHANGED <<all, pct, notifyPending, graceScheduled, aborted>>
       /\ drainConnections(shutdownState, drainIterator, FALSE, exempt)
     ELSE
       /\ aborted' = TRUE
       /\ UNCHANGED <<list, drain>>
  /\ UNCHANGED <<deferredClose, earlyDrop>>

(* DrainHelper::timeoutExpired and idleGracefulTimeoutExpired: a timer     *)
(* that expires during the notify pass is left to the end of that pass.    *)
idleGracefulTimeoutExpired ==
  /\ graceScheduled
  /\ graceScheduled' = FALSE
  /\ IF shutdownState = NOTIFY_PENDING_SHUTDOWN_COMPLETE THEN
       /\ UNCHANGED <<all, pct, notifyPending>>
       /\ drainConnections(CLOSE_WHEN_IDLE, drainStartIterator(conns, all, pct),
                           loopScheduled, exempt)
     ELSE
       UNCHANGED <<list, shutdownState, all, pct, notifyPending, loopScheduled, exempt>>
  /\ UNCHANGED <<deferredClose, earlyDrop>>

(* dropAllConnections: stops any drain, pops and drops every connection,   *)
(* and cancels the pending loop callback.                                  *)
dropAllConnections ==
  /\ shutdownState' = CLOSE_WHEN_IDLE_COMPLETE
  /\ graceScheduled' = FALSE
  /\ conns' = <<>>
  /\ idleOrder' = <<>>
  /\ connTimeouts' = connTimeouts \ Linked
  /\ drainState' = [c \in Conn |-> "NONE"]
  /\ drainIterator' = End
  /\ idleIterator' = End
  /\ loopScheduled' = FALSE
  /\ exempt' = {}
  /\ UNCHANGED <<all, pct, notifyPending, deferredClose, earlyDrop>>

(* dropConnections(pct): stops any drain and drops connections from the    *)
(* front.  The pending loop callback stays scheduled.                      *)
dropConnections(percent) ==
  LET gone == {conns[i] : i \in 1..Share(Len(conns), percent)}
  IN  /\ shutdownState' = CLOSE_WHEN_IDLE_COMPLETE
      /\ graceScheduled' = FALSE
      /\ Forget(gone)
      /\ drainIterator' = StepPast(conns, drainIterator, gone)
      /\ drainState' = [c \in Conn |-> IF c \in gone THEN "NONE" ELSE drainState[c]]
      /\ exempt' = Linked \ gone
      /\ UNCHANGED <<all, pct, notifyPending, loopScheduled, deferredClose, earlyDrop>>

(***************************************************************************)
(* onActivated: to the front.  Only idleIterator_ is moved off the node;   *)
(* drainIterator_, if it stands there, moves to the front with it, and a   *)
(* connection it has not reached yet ends up behind it.                    *)
(***************************************************************************)
onActivated(c) ==
  /\ c \in Linked
  /\ conns' = <<c>> \o Without(conns, {c})
  /\ idleIterator' = StepPast(conns, idleIterator, {c})
  /\ idleOrder' = Without(idleOrder, {c})
  /\ exempt' = IF Pos(conns, drainIterator) < Pos(conns, c)
               THEN exempt \cup {c} ELSE exempt
  /\ UNCHANGED <<drainIterator, drainState, connTimeouts, shutdownState, all, pct,
                 notifyPending, loopScheduled, graceScheduled, deferredClose, earlyDrop>>

(* onDeactivated, when a busy or new connection becomes idle: to the back, *)
(* with both iterators kept off the end where the node is now the last.    *)
onDeactivated(c) ==
  LET moveDrainIter == drainIterator = c
      drainNext == StepPast(conns, drainIterator, {c})
  IN  /\ c \in Linked \ {idleOrder[i] : i \in 1..Len(idleOrder)}
      /\ conns' = Append(Without(conns, {c}), c)
      /\ idleIterator' = IF idleIterator = End THEN c ELSE idleIterator
      /\ drainIterator' = IF moveDrainIter /\ drainNext = End THEN c ELSE drainNext
      /\ idleOrder' = Append(idleOrder, c)
      /\ UNCHANGED <<drainState, connTimeouts, drain, deferredClose, earlyDrop>>

(* setLoweredIdleTimeout: below or at the default timeout. *)
setLoweredIdleTimeout ==
  /\ earlyDrop' \in Thresholds
  /\ UNCHANGED <<list, drain, deferredClose>>

(***************************************************************************)
(* dropIdleConnections(num): from idleIterator_ on, drops connections that *)
(* have been idle for longer than the threshold, and stops at the first    *)
(* that has not.  Those past the threshold are the ones idle for longest.  *)
(***************************************************************************)
dropIdleConnections(num, past) ==
  LET from == Pos(conns, idleIterator)
      old  == {idleOrder[i] : i \in 1..past}
      gone == {conns[i] : i \in {j \in from..Len(conns) :
                 j < from + num /\ \A k \in from..j : conns[k] \in old}}
  IN  /\ earlyDrop
      /\ Forget(gone)
      /\ drainIterator' = StepPast(conns, drainIterator, gone)
      /\ drainState' = [c \in Conn |-> IF c \in gone THEN "NONE" ELSE drainState[c]]
      /\ exempt' = exempt \ gone
      /\ UNCHANGED <<shutdownState, all, pct, notifyPending, loopScheduled,
                     graceScheduled, deferredClose, earlyDrop>>

-----------------------------------------------------------------------------
(* What the connections and the owner of the manager do between callbacks. *)
Traffic(c) == onActivated(c) \/ onDeactivated(c)

Calls ==
  \/ \E c \in Conn, timeout \in Timeouts, arrival \in DrainStates :
       addConnection(c, timeout, arrival)
  \/ \E c \in Conn : removeConnection(c)
  \/ \E c \in Conn : resetTimeout(c)
  \/ \E grace \in Graces : initiateGracefulShutdown(grace)
  \/ \E percent \in Pcts, grace \in Graces : drainPartially(percent, grace)
  \/ dropAllConnections
  \/ \E percent \in Pcts : dropConnections(percent)
  \/ \E num \in 1..Len(conns), past \in 1..Len(idleOrder) : dropIdleConnections(num, past)
  \/ setLoweredIdleTimeout

(* What the event loop runs. *)
Callbacks ==
  \/ idleGracefulTimeoutExpired
  \/ \E c \in Conn : runDeferredClose(c)
  \/ \E c \in Conn : timeoutExpired(c)

Next ==
  /\ ~aborted
  /\ \/ /\ \/ Calls
           \/ Callbacks
           \/ \E c \in Conn : Traffic(c)
        /\ UNCHANGED aborted
     \/ runLoopCallback

Spec == Init /\ [][Next]_vars

(* The event loop runs what is scheduled on it, and time passes. *)
FairSpec ==
  /\ Spec
  /\ WF_vars(runLoopCallback /\ ~aborted)
  /\ WF_vars(idleGracefulTimeoutExpired /\ UNCHANGED aborted /\ ~aborted)

-----------------------------------------------------------------------------
(* Properties. *)

TypeOK ==
  /\ conns \in Seq(Conn) /\ idleOrder \in Seq(Conn)
  /\ drainIterator \in Conn \cup {End} /\ idleIterator \in Conn \cup {End}
  /\ drainState \in [Conn -> DrainStates]
  /\ connTimeouts \in SUBSET Conn /\ deferredClose \in SUBSET Conn
  /\ exempt \in SUBSET Conn
  /\ shutdownState \in NONE..CLOSE_WHEN_IDLE_COMPLETE
  /\ pct \in 0..100
  /\ {all, notifyPending, loopScheduled, graceScheduled, earlyDrop, aborted} \subseteq BOOLEAN

(***************************************************************************)
(* No iterator and no timer outlives the connection it refers to: whatever *)
(* order connections are added, moved, dropped and drained in, both        *)
(* iterators stand on a linked node or at the end, and only linked         *)
(* connections have a timer on the wheel (removeConnection, onActivated,   *)
(* onDeactivated, dropIdleConnections, dropAllConnections).                *)
(***************************************************************************)
NothingDangles ==
  /\ {drainIterator, idleIterator} \subseteq Linked \cup {End}
  /\ connTimeouts \subseteq Linked

(***************************************************************************)
(* The list's comment in ConnectionManager.h: idleIterator_ separates busy *)
(* from idle connections, and the idle ones are ordered by decreasing idle *)
(* time.  dropIdleConnections relies on it to shed the longest idle first. *)
(***************************************************************************)
IdleSuffixByAge ==
  SubSeq(conns, Pos(conns, idleIterator), Len(conns)) = idleOrder

(***************************************************************************)
(* A drain in progress always has what continues it: a loop callback while *)
(* a pass is running, the grace timer between the passes.  So no order of  *)
(* timer, batches, restarts and drops leaves a drain that nobody resumes.  *)
(***************************************************************************)
DrainNeverStalls ==
  /\ shutdownState \in {NOTIFY_PENDING_SHUTDOWN, CLOSE_WHEN_IDLE} => loopScheduled
  /\ shutdownState = NOTIFY_PENDING_SHUTDOWN_COMPLETE => graceScheduled

(***************************************************************************)
(* What a completed pass of a full drain guarantees: each connection was   *)
(* notified, respectively told to close (or will be by its deferred call), *)
(* except those that became active while still ahead of the iterator, and  *)
(* those left over by a drop that cut the drain short.                     *)
(***************************************************************************)
CompletedPassReachedAll ==
  all => \A c \in Linked \ exempt :
    /\ shutdownState = NOTIFY_PENDING_SHUTDOWN_COMPLETE /\ notifyPending
         => drainState[c] # "NONE"
    /\ shutdownState = CLOSE_WHEN_IDLE_COMPLETE
         => drainState[c] = "SENT_CLOSE" \/ c \in deferredClose

(* The list and the drain through it stay sound: no iterator or timer      *)
(* dangles, the idle connections are last and by age, and a completed pass *)
(* has reached every connection it is not known to miss.                   *)
DrainListSound == NothingDangles /\ IdleSuffixByAge /\ CompletedPassReachedAll

(***************************************************************************)
(* A full drain, once begun, is never undone: later calls, partial drains  *)
(* among them, timers and drops only move it forward.                      *)
(***************************************************************************)
FullDrainAdvances ==
  [][getShutdownState # NONE => all' /\ shutdownState' >= shutdownState]_vars

(* A full drain ends, whatever the owner does meanwhile, once connections  *)
(* stop moving in the list: a connection that goes idle moves behind the   *)
(* iterator's remaining work, so endless traffic can extend a pass forever. *)
DrainCompletes ==
  <>[][\A c \in Conn : ~Traffic(c)]_vars =>
    (getShutdownState \in NOTIFY_PENDING_SHUTDOWN..CLOSE_WHEN_IDLE
       ~> shutdownState = CLOSE_WHEN_IDLE_COMPLETE \/ aborted)

(***************************************************************************)
(* ConnectionManager.cpp:192, CHECK at the head of drainConnections: it is *)
(* only ever entered while a pass is in progress.                          *)
(***************************************************************************)
DrainCheckHolds == ~aborted

(***************************************************************************)
(* ConnectionManager.h:178, on NOTIFY_PENDING_SHUTDOWN_COMPLETE: all       *)
(* managed connections have received notifyPendingShutdown.                *)
(***************************************************************************)
AllReceivedNotify ==
  all /\ shutdownState = NOTIFY_PENDING_SHUTDOWN_COMPLETE
    => \A c \in Linked : drainState[c] # "NONE"
=============================================================================
