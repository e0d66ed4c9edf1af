------------------------- MODULE EvbHandshakeHelper -------------------------
(***************************************************************************)
(* wangle::EvbHandshakeHelper: TLS handshakes run on a handshake thread,   *)
(* and their results are delivered to an AcceptorHandshakeManager on the   *)
(* acceptor thread.  A drop (D in the header's notation: the manager's     *)
(* timeout or a shutdown) on the acceptor thread races a result (C) on the *)
(* handshake thread; both compare-and-swap state_, and both leave work to  *)
(* the other thread (D' and C').                                           *)
(*                                                                         *)
(* Each thread is an event loop: one task at a time, tasks it was posted   *)
(* in order.  Helpers share nothing but the two loops, so the order of     *)
(* tasks matters only within one helper.  A handler that another thread    *)
(* can observe between two of its steps is split there: after its          *)
(* compare-and-swap.                                                       *)
(***************************************************************************)
CONSTANTS
  Conn,  \* the handshakes
  Idle   \* a thread that is between two tasks

ASSUME IdleAssumption == Idle \notin Conn

VARIABLES
  state,      \* state_
  guard,      \* dropConnectionGuard_ is set
  life,       \* of the helper: the manager owns it, a guard delays deletion
  evb,        \* the event base the transport is attached to
  inner,      \* helper_, the SSLAcceptorHandshakeHelper doing the handshake
  hsTasks,    \* tasks posted to the handshake thread
  accTasks,   \* tasks posted to the acceptor thread
  hsBusy,     \* the helper whose result won, before it is posted
  accBusy,    \* the helper whose drop did its compare-and-swap
  accWon,     \* ... and whether the drop won
  observed    \* what callback_ was told: "twice" if more than once

vars == <<state, guard, life, evb, inner, hsTasks, accTasks, hsBusy, accBusy,
          accWon, observed>>

TypeOK ==
  /\ state \in [Conn -> {"Invalid", "Started", "Dropped", "Callback"}]
  /\ guard \in [Conn -> BOOLEAN]
  /\ life \in [Conn -> {"none", "alive", "destroyPending", "deleted"}]
  /\ evb \in [Conn -> {"original", "handshake", "detached"}]
  /\ inner \in [Conn -> {"none", "handshaking", "ready", "error", "gone"}]
  /\ hsTasks \in [Conn -> SUBSET {"start", "drop"}]
  /\ accTasks \in [Conn -> SUBSET {"ready", "error", "clearGuard"}]
  /\ hsBusy \in Conn \cup {Idle}
  /\ accBusy \in Conn \cup {Idle}
  /\ accWon \in BOOLEAN
  /\ observed \in [Conn -> {"none", "pending", "ready", "error"}]  \* never "twice"

Init ==
  /\ state = [c \in Conn |-> "Invalid"]
  /\ guard = [c \in Conn |-> FALSE]
  /\ life = [c \in Conn |-> "none"]
  /\ evb = [c \in Conn |-> "original"]
  /\ inner = [c \in Conn |-> "none"]
  /\ hsTasks = [c \in Conn |-> {}]
  /\ accTasks = [c \in Conn |-> {}]
  /\ hsBusy = Idle
  /\ accBusy = Idle
  /\ accWon = FALSE
  /\ observed = [c \in Conn |-> "none"]

-----------------------------------------------------------------------------
(* callback_->connectionReady or connectionError on the acceptor thread.   *)
(* AcceptorHandshakeManager destroys itself at the end of either.          *)
Observe(c, result) ==
  observed' = [observed EXCEPT ![c] = IF @ = "pending" THEN result ELSE "twice"]

-----------------------------------------------------------------------------
(* The acceptor thread. *)

(* AcceptorHandshakeManager::start, EvbHandshakeHelper::start. *)
start(c) ==
  /\ accBusy = Idle
  /\ life[c] = "none"
  /\ state' = [state EXCEPT ![c] = "Started"]
  /\ life' = [life EXCEPT ![c] = "alive"]
  /\ observed' = [observed EXCEPT ![c] = "pending"]
  /\ evb' = [evb EXCEPT ![c] = "detached"]
  /\ hsTasks' = [hsTasks EXCEPT ![c] = @ \cup {"start"}]
  /\ UNCHANGED <<guard, inner, accTasks, hsBusy, accBusy, accWon>>

(* D, up to its compare-and-swap.  A manager that still exists calls it,   *)
(* when its timeout expires or its connection is dropped.                  *)
dropConnection(c) ==
  /\ accBusy = Idle
  /\ life[c] = "alive"
  /\ accBusy' = c
  /\ accWon' = (state[c] = "Started")
  /\ state' = [state EXCEPT ![c] = IF @ = "Started" THEN "Dropped" ELSE @]
  /\ UNCHANGED <<guard, life, evb, inner, hsTasks, accTasks, hsBusy, observed>>

(* Mutation: no guard is set, so reporting the error deletes the helper. *)
finishDrop_NoGuard(c) ==
  /\ accBusy = c
  /\ Observe(c, "error")
  /\ life' = [life EXCEPT ![c] = "deleted"]
  /\ hsTasks' = [hsTasks EXCEPT ![c] = IF accWon THEN @ \cup {"drop"} ELSE @]
  /\ accBusy' = Idle
  /\ accWon' = FALSE
  /\ UNCHANGED <<state, guard, evb, inner, accTasks, hsBusy>>

(* The rest of D: it sets the guard and reports the error, which destroys  *)
(* the manager and, but for the guard, the helper.  If it won it posts D'. *)
finishDrop(c) ==
  /\ accBusy = c
  /\ guard' = [guard EXCEPT ![c] = TRUE]
  /\ Observe(c, "error")
  /\ life' = [life EXCEPT ![c] = "destroyPending"]
  /\ hsTasks' = [hsTasks EXCEPT ![c] = IF accWon THEN @ \cup {"drop"} ELSE @]
  /\ accBusy' = Idle
  /\ accWon' = FALSE
  /\ UNCHANGED <<state, evb, inner, accTasks, hsBusy>>

(* Mutation: the callback is fired without a look at the guard. *)
deliver_IgnoresGuard(c, result) ==
  /\ accBusy = Idle
  /\ result \in accTasks[c] \cap {"ready", "error"}
  /\ accTasks' = [accTasks EXCEPT ![c] = @ \ {result}]
  /\ evb' = [evb EXCEPT ![c] = "original"]
  /\ guard' = [guard EXCEPT ![c] = FALSE]
  /\ Observe(c, result)
  /\ life' = [life EXCEPT ![c] = "deleted"]
  /\ inner' = [inner EXCEPT ![c] = "gone"]
  /\ UNCHANGED <<state, hsTasks, hsBusy, accBusy, accWon>>

(* C': the result arrives on the acceptor thread.  With the guard set the  *)
(* observer has seen a drop already, and the callback is not fired.        *)
deliver(c, result) ==
  /\ accBusy = Idle
  /\ result \in accTasks[c] \cap {"ready", "error"}
  /\ accTasks' = [accTasks EXCEPT ![c] = @ \ {result}]
  /\ evb' = [evb EXCEPT ![c] = "original"]
  /\ guard' = [guard EXCEPT ![c] = FALSE]
  /\ IF guard[c] THEN UNCHANGED observed ELSE Observe(c, result)
  /\ life' = [life EXCEPT ![c] = "deleted"]
  /\ inner' = [inner EXCEPT ![c] = "gone"]
  /\ UNCHANGED <<state, hsTasks, hsBusy, accBusy, accWon>>

(* The task D' leaves: clear the guard, which deletes the helper. *)
clearGuard(c) ==
  /\ accBusy = Idle
  /\ "clearGuard" \in accTasks[c]
  /\ accTasks' = [accTasks EXCEPT ![c] = @ \ {"clearGuard"}]
  /\ guard' = [guard EXCEPT ![c] = FALSE]
  /\ life' = [life EXCEPT ![c] = "deleted"]
  /\ UNCHANGED <<state, evb, inner, hsTasks, hsBusy, accBusy, accWon, observed>>

-----------------------------------------------------------------------------
(* The handshake thread. *)

(* The task posted by start: the wrapped helper begins its handshake. *)
runStart(c) ==
  /\ hsBusy = Idle
  /\ "start" \in hsTasks[c]
  /\ hsTasks' = [hsTasks EXCEPT ![c] = @ \ {"start"}]
  /\ evb' = [evb EXCEPT ![c] = "handshake"]
  /\ inner' = [inner EXCEPT ![c] = "handshaking"]
  /\ UNCHANGED <<state, guard, life, accTasks, hsBusy, accBusy, accWon, observed>>

(* C, connectionReady or connectionError, up to its compare-and-swap.  A   *)
(* result that loses is ignored; its transport stays where it is.          *)
handshakeDone(c, result) ==
  /\ hsBusy = Idle
  /\ inner[c] = "handshaking"
  /\ inner' = [inner EXCEPT ![c] = result]
  /\ IF state[c] = "Started" THEN
       /\ state' = [state EXCEPT ![c] = "Callback"]
       /\ hsBusy' = c
     ELSE UNCHANGED <<state, hsBusy>>
  /\ UNCHANGED <<guard, life, evb, hsTasks, accTasks, accBusy, accWon, observed>>

(* The rest of C: detach the transport and post C'. *)
postResult(c) ==
  /\ hsBusy = c
  /\ evb' = [evb EXCEPT ![c] = "detached"]
  /\ accTasks' = [accTasks EXCEPT ![c] = @ \cup {inner[c]}]
  /\ hsBusy' = Idle
  /\ UNCHANGED <<state, guard, life, inner, hsTasks, accBusy, accWon, observed>>

(* Mutation: D' does not post the clearing of the guard. *)
runDrop_KeepsGuard(c) ==
  /\ hsBusy = Idle
  /\ "drop" \in hsTasks[c]
  /\ "start" \notin hsTasks[c]
  /\ hsTasks' = [hsTasks EXCEPT ![c] = @ \ {"drop"}]
  /\ inner' = [inner EXCEPT ![c] = "gone"]
  /\ UNCHANGED <<state, guard, life, evb, accTasks, hsBusy, accBusy, accWon, observed>>

(* D': drop and release the wrapped helper, and post the clearing of the   *)
(* guard.  A handshake still going on fails into connectionError, which    *)
(* loses against the drop that posted this.                                *)
runDrop(c) ==
  /\ hsBusy = Idle
  /\ "drop" \in hsTasks[c]
  /\ "start" \notin hsTasks[c]  \* posted before
  /\ hsTasks' = [hsTasks EXCEPT ![c] = @ \ {"drop"}]
  /\ inner' = [inner EXCEPT ![c] = "gone"]
  /\ accTasks' = [accTasks EXCEPT ![c] = @ \cup {"clearGuard"}]
  /\ UNCHANGED <<state, guard, life, evb, hsBusy, accBusy, accWon, observed>>

-----------------------------------------------------------------------------
AcceptorThread(c) ==
  \/ start(c)
  \/ dropConnection(c)
  \/ finishDrop(c)
  \/ \E result \in {"ready", "error"} : deliver(c, result)
  \/ clearGuard(c)

HandshakeThread(c) ==
  \/ runStart(c)
  \/ \E result \in {"ready", "error"} : handshakeDone(c, result)
  \/ postResult(c)
  \/ runDrop(c)

Next == \E c \in Conn : AcceptorThread(c) \/ HandshakeThread(c)

(* Both loops run what they were posted, and the handshake timeout that    *)
(* AcceptorHandshakeManager schedules expires: a handshake need not end.   *)
Fairness ==
  \A c \in Conn :
    /\ WF_vars(dropConnection(c))
    /\ WF_vars(finishDrop(c))
    /\ WF_vars(\E result \in {"ready", "error"} : deliver(c, result))
    /\ WF_vars(clearGuard(c))
    /\ WF_vars(runStart(c))
    /\ WF_vars(postResult(c))
    /\ WF_vars(runDrop(c))

Spec == Init /\ [][Next]_vars

FairSpec == Spec /\ Fairness

-----------------------------------------------------------------------------
(* Properties. *)

(***************************************************************************)
(* The scenario the header rules out: D' calls helper->dropConnection() on *)
(* the handshake thread only while the transport is attached to that       *)
(* thread's event base, never after a result began to move it.             *)
(***************************************************************************)
DropOnlyAttached ==
  \A c \in Conn :
    "drop" \in hsTasks[c] /\ "start" \notin hsTasks[c] =>
      evb[c] = "handshake" /\ hsBusy # c /\ accTasks[c] = {}

(***************************************************************************)
(* The helper is deleted only when nothing refers to it any more: no task  *)
(* of either thread, no handler in progress, no handshake still running    *)
(* with the helper as its callback.                                        *)
(***************************************************************************)
NoUseAfterDelete ==
  \A c \in Conn :
    life[c] = "deleted" =>
      /\ hsTasks[c] = {} /\ accTasks[c] = {}
      /\ hsBusy # c /\ accBusy # c
      /\ inner[c] = "gone"
      /\ ~guard[c]

(* The helper's two threads never meet it in the wrong place: a drop finds *)
(* its transport attached, and deletion finds nothing that refers to it.   *)
HelperSafe == DropOnlyAttached /\ NoUseAfterDelete

(* Every helper that was started is deleted: no order of drop and result   *)
(* leaves the guard set for ever.                                          *)
EventuallyDeleted ==
  \A c \in Conn : life[c] = "alive" ~> life[c] = "deleted"

(* The observer sees one result per handshake: the wrapped two-thread      *)
(* handshake keeps the contract of a handshake on the acceptor thread.     *)
Contract == INSTANCE HandshakeContract WITH outcome <- observed

ImplementsContract == Contract!Spec
=============================================================================
