------------------------- MODULE EvbHandshakeProofs -------------------------
(***************************************************************************)
(* EvbHandshakeHelper, for every set of handshakes: the two threads never  *)
(* meet on a transport, never use a deleted helper, and give the observer  *)
(* at most one result each, as HandshakeContract asks.                     *)
(*                                                                         *)
(* The inductive invariant says, for one helper, what the compare-and-swap *)
(* decides: who won owns the transport and the clearing of the guard.      *)
(***************************************************************************)
EXTENDS EvbHandshakeHelper, TLAPS

(* The transport and the wrapped helper before a result won the race: the  *)
(* handshake is yet to begin, or was begun on the handshake thread.        *)
Handshaking(c) ==
  /\ hsBusy # c
  /\ accTasks[c] = {}
  /\ "start" \in hsTasks[c] => evb[c] = "detached" /\ inner[c] = "none"
  /\ "start" \notin hsTasks[c] => evb[c] = "handshake" /\ inner[c] # "none"

(* A result won: it is about to be posted, or is posted to the acceptor. *)
Returning(c) ==
  /\ hsTasks[c] = {}
  /\ inner[c] \in {"ready", "error"}
  /\ IF hsBusy = c THEN accTasks[c] = {} ELSE accTasks[c] = {inner[c]}

(* The helper while its manager exists. *)
Owned(c) ==
  /\ observed[c] = "pending"
  /\ ~guard[c]
  /\ "drop" \notin hsTasks[c]
  /\ \/ state[c] = "Started" /\ Handshaking(c) /\ accBusy # c
        /\ inner[c] \in {"none", "handshaking"}
     \/ state[c] = "Dropped" /\ Handshaking(c) /\ accBusy = c /\ accWon
        /\ inner[c] # "gone"
     \/ state[c] = "Callback" /\ Returning(c) /\ (accBusy = c => ~accWon)

(* The helper after a drop, kept by its guard. *)
Dropped(c) ==
  /\ observed[c] = "error"
  /\ guard[c]
  /\ accBusy # c
  /\ \/ state[c] = "Dropped" /\ "drop" \in hsTasks[c] /\ Handshaking(c) /\ inner[c] # "gone"
     \/ /\ state[c] = "Dropped" /\ hsTasks[c] = {} /\ hsBusy # c
        /\ accTasks[c] = {"clearGuard"} /\ inner[c] = "gone"
     \/ state[c] = "Callback" /\ Returning(c)

Quiet(c) ==
  /\ hsTasks[c] = {} /\ accTasks[c] = {} /\ hsBusy # c /\ accBusy # c /\ ~guard[c]

HelperInv(c) ==
  \/ life[c] = "none" /\ Quiet(c) /\ observed[c] = "none" /\ inner[c] = "none"
  \/ life[c] = "alive" /\ Owned(c)
  \/ life[c] = "destroyPending" /\ Dropped(c)
  \/ life[c] = "deleted" /\ Quiet(c) /\ observed[c] \in {"ready", "error"}
     /\ inner[c] = "gone"

IInv == TypeOK /\ \A c \in Conn : HelperInv(c)

LEMMA InitIInv == Init => IInv
<1> SUFFICES ASSUME Init PROVE IInv
  OBVIOUS
<1>1. TypeOK
  BY DEF Init, TypeOK
<1>2. \A c \in Conn : HelperInv(c)
  BY IdleAssumption DEF Init, HelperInv, Quiet
<1>3. QED
  BY <1>1, <1>2 DEF IInv

(* Each action changes one helper; the others keep their invariant because *)
(* the thread it runs on was idle, or busy with this one.                  *)
LEMMA StepIInv == IInv /\ [Next]_vars => IInv'
<1> SUFFICES ASSUME IInv, [Next]_vars PROVE IInv'
  OBVIOUS
<1> USE IdleAssumption DEF IInv
<1>1. ASSUME NEW c \in Conn, start(c) PROVE IInv'
  <2>1. TypeOK'
    BY <1>1 DEF TypeOK, start
  <2>2. HelperInv(c)'
    BY <1>1 DEF TypeOK, HelperInv, Quiet, Owned, Dropped, Handshaking, Returning, start
  <2>3. ASSUME NEW d \in Conn \ {c} PROVE HelperInv(d)'
    BY <1>1 DEF TypeOK, HelperInv, Quiet, Owned, Dropped, Handshaking, Returning, start
  <2>4. QED
    BY <2>1, <2>2, <2>3
<1>2. ASSUME NEW c \in Conn, dropConnection(c) PROVE IInv'
  <2>1. TypeOK'
    BY <1>2 DEF TypeOK, dropConnection
  <2>2. HelperInv(c)'
    BY <1>2 DEF TypeOK, HelperInv, Quiet, Owned, Dropped, Handshaking, Returning, dropConnection
  <2>3. ASSUME NEW d \in Conn \ {c} PROVE HelperInv(d)'
    BY <1>2 DEF TypeOK, HelperInv, Quiet, Owned, Dropped, Handshaking, Returning, dropConnection
  <2>4. QED
    BY <2>1, <2>2, <2>3
<1>3. ASSUME NEW c \in Conn, finishDrop(c) PROVE IInv'
  <2>0. observed[c] = "pending"
    BY <1>3 DEF HelperInv, Quiet, Owned, Dropped, finishDrop
  <2>1. TypeOK'
    BY <1>3, <2>0 DEF TypeOK, finishDrop, Observe
  <2>2. HelperInv(c)'
    BY <1>3 DEF TypeOK, HelperInv, Quiet, Owned, Dropped, Handshaking, Returning, finishDrop, Observe
  <2>3. ASSUME NEW d \in Conn \ {c} PROVE HelperInv(d)'
    BY <1>3 DEF TypeOK, HelperInv, Quiet, Owned, Dropped, Handshaking, Returning, finishDrop, Observe
  <2>4. QED
    BY <2>1, <2>2, <2>3
<1>4. ASSUME NEW c \in Conn, NEW result \in {"ready", "error"}, deliver(c, result) PROVE IInv'
  <2>0. guard[c] \/ observed[c] = "pending"
    BY <1>4 DEF HelperInv, Quiet, Owned, Dropped, deliver
  <2>1. TypeOK'
    BY <1>4, <2>0 DEF TypeOK, deliver, Observe
  <2>2. HelperInv(c)'
    BY <1>4 DEF TypeOK, HelperInv, Quiet, Owned, Dropped, Handshaking, Returning, deliver, Observe
  <2>3. ASSUME NEW d \in Conn \ {c} PROVE HelperInv(d)'
    BY <1>4 DEF TypeOK, HelperInv, Quiet, Owned, Dropped, Handshaking, Returning, deliver, Observe
  <2>4. QED
    BY <2>1, <2>2, <2>3
<1>5. ASSUME NEW c \in Conn, clearGuard(c) PROVE IInv'
  <2>1. TypeOK'
    BY <1>5 DEF TypeOK, clearGuard
  <2>2. HelperInv(c)'
    BY <1>5 DEF TypeOK, HelperInv, Quiet, Owned, Dropped, Handshaking, Returning, clearGuard
  <2>3. ASSUME NEW d \in Conn \ {c} PROVE HelperInv(d)'
    BY <1>5 DEF TypeOK, HelperInv, Quiet, Owned, Dropped, Handshaking, Returning, clearGuard
  <2>4. QED
    BY <2>1, <2>2, <2>3
<1>6. ASSUME NEW c \in Conn, runStart(c) PROVE IInv'
  <2>1. TypeOK'
    BY <1>6 DEF TypeOK, runStart
  <2>2. HelperInv(c)'
    BY <1>6 DEF TypeOK, HelperInv, Quiet, Owned, Dropped, Handshaking, Returning, runStart
  <2>3. ASSUME NEW d \in Conn \ {c} PROVE HelperInv(d)'
    BY <1>6 DEF TypeOK, HelperInv, Quiet, Owned, Dropped, Handshaking, Returning, runStart
  <2>4. QED
    BY <2>1, <2>2, <2>3
<1>7. ASSUME NEW c \in Conn, NEW result \in {"ready", "error"}, handshakeDone(c, result) PROVE IInv'
  <2>1. TypeOK'
    BY <1>7 DEF TypeOK, handshakeDone
  <2>2. HelperInv(c)'
    BY <1>7 DEF TypeOK, HelperInv, Quiet, Owned, Dropped, Handshaking, Returning, handshakeDone
  <2>3. ASSUME NEW d \in Conn \ {c} PROVE HelperInv(d)'
    BY <1>7 DEF TypeOK, HelperInv, Quiet, Owned, Dropped, Handshaking, Returning, handshakeDone
  <2>4. QED
    BY <2>1, <2>2, <2>3
<1>8. ASSUME NEW c \in Conn, postResult(c) PROVE IInv'
  <2>1. inner[c] \in {"ready", "error"}
    BY <1>8 DEF HelperInv, Quiet, Owned, Dropped, Handshaking, Returning, postResult
  <2>2. TypeOK'
    BY <1>8, <2>1 DEF TypeOK, postResult
  <2>3. HelperInv(c)'
    BY <1>8 DEF TypeOK, HelperInv, Quiet, Owned, Dropped, Handshaking, Returning, postResult
  <2>4. ASSUME NEW d \in Conn \ {c} PROVE HelperInv(d)'
    BY <1>8 DEF TypeOK, HelperInv, Quiet, Owned, Dropped, Handshaking, Returning, postResult
  <2>5. QED
    BY <2>2, <2>3, <2>4
<1>9. ASSUME NEW c \in Conn, runDrop(c) PROVE IInv'
  <2>1. TypeOK'
    BY <1>9 DEF TypeOK, runDrop
  <2>2. HelperInv(c)'
    BY <1>9 DEF TypeOK, HelperInv, Quiet, Owned, Dropped, Handshaking, Returning, runDrop
  <2>3. ASSUME NEW d \in Conn \ {c} PROVE HelperInv(d)'
    BY <1>9 DEF TypeOK, HelperInv, Quiet, Owned, Dropped, Handshaking, Returning, runDrop
  <2>4. QED
    BY <2>1, <2>2, <2>3
<1>10. CASE UNCHANGED vars
  BY <1>10 DEF vars, TypeOK, HelperInv, Quiet, Owned, Dropped, Handshaking, Returning
<1>11. QED
  BY <1>1, <1>2, <1>3, <1>4, <1>5, <1>6, <1>7, <1>8, <1>9, <1>10 DEF Next, AcceptorThread, HandshakeThread

(* Every variable keeps its type; in particular no callback is told twice. *)
THEOREM TypeCorrect == Spec => []TypeOK
<1>1. IInv => TypeOK
  BY DEF IInv
<1>2. QED
  BY InitIInv, StepIInv, <1>1, PTL DEF Spec

(***************************************************************************)
(* D' never touches a transport that a result has begun to move: the       *)
(* scenario the header explicitly disallows.                               *)
(***************************************************************************)
THEOREM DropOnlyAttachedAlways == Spec => []DropOnlyAttached
<1>1. IInv => DropOnlyAttached
  BY DEF IInv, HelperInv, Quiet, Owned, Dropped, Handshaking, Returning, DropOnlyAttached
<1>2. QED
  BY InitIInv, StepIInv, <1>1, PTL DEF Spec

(***************************************************************************)
(* A helper is deleted only when no task, no handler in progress and no    *)
(* wrapped handshake refers to it.                                         *)
(***************************************************************************)
THEOREM NoUseAfterDeleteAlways == Spec => []NoUseAfterDelete
<1>1. IInv => NoUseAfterDelete
  BY DEF IInv, HelperInv, Quiet, Owned, Dropped, Handshaking, Returning, NoUseAfterDelete
<1>2. QED
  BY InitIInv, StepIInv, <1>1, PTL DEF Spec

(***************************************************************************)
(* Neither thread meets a helper in the wrong place, for any number of     *)
(* handshakes.                                                             *)
(***************************************************************************)
THEOREM HelperSafeAlways == Spec => []HelperSafe
<1>1. DropOnlyAttached /\ NoUseAfterDelete => HelperSafe
  BY DEF HelperSafe
<1>2. QED
  BY <1>1, DropOnlyAttachedAlways, NoUseAfterDeleteAlways, PTL

(***************************************************************************)
(* What the observer sees of a step: the start of a handshake, its result, *)
(* by drop or by delivery, or nothing.                                     *)
(***************************************************************************)
LEMMA StepContract ==
  ASSUME IInv, [Next]_vars
  PROVE  [Contract!Next]_observed
<1> DEFINE Internal(c) == dropConnection(c) \/ clearGuard(c) \/ HandshakeThread(c)
<1>1. CASE UNCHANGED vars \/ \E c \in Conn : Internal(c)
  BY <1>1 DEF vars, dropConnection, clearGuard, HandshakeThread, runStart, handshakeDone,
              postResult, runDrop
<1>2. CASE \E c \in Conn : start(c)
  <2>1. PICK c \in Conn : start(c)
    BY <1>2
  <2>2. Contract!Start(c)
    BY <2>1 DEF start, Contract!Start, IInv, HelperInv, Quiet, TypeOK
  <2>3. QED
    BY <2>2 DEF Contract!Next
<1>3. CASE \E c \in Conn : finishDrop(c)
  <2>1. PICK c \in Conn : finishDrop(c)
    BY <1>3
  <2>2. Contract!Finish(c)
    BY <2>1, IdleAssumption
       DEF finishDrop, Observe, Contract!Finish, IInv, HelperInv, Quiet, Owned, Dropped, TypeOK
  <2>3. QED
    BY <2>2 DEF Contract!Next
<1>4. CASE \E c \in Conn : \E result \in {"ready", "error"} : deliver(c, result)
  <2>1. PICK c \in Conn, result \in {"ready", "error"} : deliver(c, result)
    BY <1>4
  <2>2. Contract!Finish(c) \/ UNCHANGED observed
    BY <2>1 DEF deliver, Observe, Contract!Finish, IInv, HelperInv, Quiet, Owned, Dropped,
                TypeOK
  <2>3. QED
    BY <2>2 DEF Contract!Next
<1>5. QED
  BY <1>1, <1>2, <1>3, <1>4 DEF Next, AcceptorThread

(***************************************************************************)
(* The safety part of the contract: the observer is told one result per    *)
(* handshake, and none before it was started.                              *)
(***************************************************************************)
THEOREM ImplementsContractSafety == Spec => Contract!Init /\ [][Contract!Next]_observed
<1>1. Init => Contract!Init
  BY DEF Init, Contract!Init
<1>2. QED
  BY InitIInv, StepIInv, StepContract, <1>1, PTL DEF Spec
=============================================================================
