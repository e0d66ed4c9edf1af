----------------------- MODULE ConnectionManagerProofs -----------------------
(***************************************************************************)
(* The drain of a ConnectionManager, for every set of connections, every   *)
(* batch size and every choice of grace periods and percentages: it never  *)
(* stalls, and a full drain never goes backwards.  Neither depends on what *)
(* the list holds, so the proofs never look at it.                         *)
(***************************************************************************)
EXTENDS ConnectionManager, TLAPS

DrainInv == shutdownState \in NONE..CLOSE_WHEN_IDLE_COMPLETE /\ DrainNeverStalls

(***************************************************************************)
(* What a batch leaves: the pass goes on with a loop callback, or it ended *)
(* and its state is the next one, the notify pass's with a grace timer.    *)
(***************************************************************************)
LEMMA BatchOutcome ==
  ASSUME NEW state \in {NOTIFY_PENDING_SHUTDOWN, CLOSE_WHEN_IDLE},
         NEW it, NEW pending, NEW missed,
         drainConnections(state, it, pending, missed)
  PROVE  /\ shutdownState' \in state..CLOSE_WHEN_IDLE_COMPLETE
         /\ DrainNeverStalls'
<1>1. PICK next, left : endBatch(state, next, pending, left)
  BY Zenon DEF drainConnections
<1>2. QED
  BY <1>1 DEF endBatch, DrainNeverStalls, NONE, NOTIFY_PENDING_SHUTDOWN,
       NOTIFY_PENDING_SHUTDOWN_COMPLETE, CLOSE_WHEN_IDLE, CLOSE_WHEN_IDLE_COMPLETE

LEMMA DrainInit == Init => DrainInv
BY DEF Init, DrainInv, DrainNeverStalls, NONE, NOTIFY_PENDING_SHUTDOWN,
       NOTIFY_PENDING_SHUTDOWN_COMPLETE, CLOSE_WHEN_IDLE, CLOSE_WHEN_IDLE_COMPLETE

(***************************************************************************)
(* One step keeps the drain alive, and moves a full drain only forward.    *)
(***************************************************************************)
LEMMA DrainStep ==
  ASSUME DrainInv, [Next]_vars
  PROVE  /\ DrainInv'
         /\ getShutdownState # NONE => all' /\ shutdownState' >= shutdownState
<1> USE DEF DrainInv, NONE, NOTIFY_PENDING_SHUTDOWN,
            NOTIFY_PENDING_SHUTDOWN_COMPLETE, CLOSE_WHEN_IDLE, CLOSE_WHEN_IDLE_COMPLETE
<1> DEFINE Unchanged == UNCHANGED <<shutdownState, all, loopScheduled, graceScheduled>>
           Goal == /\ DrainInv'
                   /\ getShutdownState # NONE => all' /\ shutdownState' >= shutdownState
<1>1. ASSUME Unchanged PROVE Goal
  BY <1>1 DEF DrainNeverStalls, getShutdownState
<1>2. ASSUME NEW grace, NEW scheduled, startDrain(grace, scheduled)
      PROVE  DrainInv'
  <2>1. ASSUME grace PROVE DrainInv'
    <3>1. PICK it, missed :
            drainConnections(NOTIFY_PENDING_SHUTDOWN, it, loopScheduled, missed)
      BY <1>2, <2>1, Zenon DEF startDrain
    <3>2. QED
      BY <3>1, BatchOutcome
  <2>2. ASSUME ~grace PROVE DrainInv'
    <3>1. PICK it, missed :
            drainConnections(CLOSE_WHEN_IDLE, it, loopScheduled, missed)
      BY <1>2, <2>2, Zenon DEF startDrain
    <3>2. QED
      BY <3>1, BatchOutcome
  <2>3. QED
    BY <2>1, <2>2
<1>3. ASSUME NEW grace \in Graces, initiateGracefulShutdown(grace) PROVE Goal
  BY <1>2, <1>3 DEF initiateGracefulShutdown
<1>4. ASSUME NEW percent \in Pcts, NEW grace \in Graces, drainPartially(percent, grace)
      PROVE  Goal
  BY <1>2, <1>4 DEF drainPartially
<1>5. CASE runLoopCallback
  <2>1. CASE shutdownState \in {NOTIFY_PENDING_SHUTDOWN, CLOSE_WHEN_IDLE}
    <3>1. /\ UNCHANGED all
          /\ drainConnections(shutdownState, drainIterator, FALSE, exempt)
      BY <1>5, <2>1 DEF runLoopCallback
    <3>2. /\ shutdownState' \in shutdownState..CLOSE_WHEN_IDLE_COMPLETE
          /\ DrainNeverStalls'
      BY <2>1, <3>1, BatchOutcome
    <3>3. QED
      BY <3>1, <3>2 DEF getShutdownState
  <2>2. CASE shutdownState \notin {NOTIFY_PENDING_SHUTDOWN, CLOSE_WHEN_IDLE}
    BY <1>1, <1>5, <2>2 DEF runLoopCallback, drain
  <2>3. QED
    BY <2>1, <2>2
<1>6. CASE idleGracefulTimeoutExpired
  BY <1>6, BatchOutcome DEF idleGracefulTimeoutExpired, getShutdownState, DrainNeverStalls
<1>7. CASE dropAllConnections
  BY <1>7 DEF dropAllConnections, DrainNeverStalls, getShutdownState
<1>8. ASSUME NEW percent \in Pcts, dropConnections(percent) PROVE Goal
  BY <1>8 DEF dropConnections, DrainNeverStalls, getShutdownState
<1>9. ASSUME NEW c \in Conn, Traffic(c) PROVE Unchanged
  BY <1>9 DEF Traffic, onActivated, onDeactivated, drain
<1>10. ASSUME NEW c \in Conn, removeConnection(c) PROVE Unchanged
  BY <1>10 DEF removeConnection
<1>11. CASE Calls
  <2>1. ASSUME NEW c \in Conn, NEW timeout, NEW arrival, addConnection(c, timeout, arrival)
        PROVE  Unchanged
    BY <2>1 DEF addConnection, drain
  <2>2. ASSUME NEW c \in Conn, resetTimeout(c) PROVE Unchanged
    BY <2>2 DEF resetTimeout, drain
  <2>3. ASSUME NEW num, NEW past, dropIdleConnections(num, past) PROVE Unchanged
    BY <2>3 DEF dropIdleConnections
  <2>4. ASSUME setLoweredIdleTimeout PROVE Unchanged
    BY <2>4 DEF setLoweredIdleTimeout, drain
  <2>5. QED
    BY <1>1, <1>3, <1>4, <1>7, <1>8, <1>10, <1>11, <2>1, <2>2, <2>3, <2>4 DEF Calls
<1>12. CASE Callbacks
  <2>1. ASSUME NEW c \in Conn, runDeferredClose(c) PROVE Unchanged
    BY <2>1 DEF runDeferredClose
  <2>2. ASSUME NEW c \in Conn, timeoutExpired(c) PROVE Unchanged
    BY <1>10, <2>2 DEF timeoutExpired, drain
  <2>3. QED
    BY <1>1, <1>6, <1>12, <2>1, <2>2 DEF Callbacks
<1>13. CASE UNCHANGED vars
  BY <1>1, <1>13 DEF vars, drain
<1>14. QED
  BY <1>1, <1>5, <1>9, <1>11, <1>12, <1>13 DEF Next

(***************************************************************************)
(* Every state of a drain has the callback that continues it, whatever the *)
(* connections, the batch size and the calls that interleave with it.      *)
(***************************************************************************)
THEOREM DrainNeverStallsAlways == Spec => []DrainNeverStalls
<1>1. DrainInv /\ [Next]_vars => DrainInv'
  BY DrainStep
<1>2. DrainInv => DrainNeverStalls
  BY DEF DrainInv
<1>3. QED
  BY DrainInit, <1>1, <1>2, PTL DEF Spec

(***************************************************************************)
(* A full drain is never undone, restarted or turned into a partial one.   *)
(***************************************************************************)
THEOREM FullDrainAdvancesAlways == Spec => FullDrainAdvances
<1>1. DrainInv /\ [Next]_vars => DrainInv'
  BY DrainStep
<1>2. DrainInv /\ [Next]_vars
        => [getShutdownState # NONE => all' /\ shutdownState' >= shutdownState]_vars
  BY DrainStep
<1>3. QED
  BY DrainInit, <1>1, <1>2, PTL DEF Spec, FullDrainAdvances
=============================================================================
