--------------------------- MODULE AcceptorProofs ---------------------------
(***************************************************************************)
(* Acceptor, for every number of connections, sockets and limits: the      *)
(* count of pending handshakes is exact, so none of the CHECKs on it fails, *)
(* and an acceptor that drains always has something to wait for.           *)
(***************************************************************************)
EXTENDS Acceptor, FiniteSetTheorems, TLAPS

(* What holds between two handlers. *)
IInv ==
  /\ state \in {"kInit", "kRunning", "kDraining", "kDone"}
  /\ state = "kInit" => listening = 0
  /\ conns \in SUBSET Conn
  /\ handshakes \in SUBSET Conn
  /\ PendingCounted
  /\ DrainingHasWork
  /\ PendingChecksHold

LEMMA HandshakesFinite ==
  ASSUME IInv
  PROVE  /\ IsFiniteSet(handshakes)
         /\ Cardinality(handshakes) \in Nat
BY ConnAssumption, FS_Subset, FS_CardinalityType DEF IInv

LEMMA InitIInv == Init => IInv
BY FS_EmptySet DEF Init, IInv, PendingCounted, DrainingHasWork, PendingChecksHold, Managed

(* A handler that ends with Settle leaves work behind, or is done. *)
LEMMA SettleKeepsWork ==
  ASSUME IInv, Settle, UNCHANGED forceShutdown,
         numPending' = Cardinality(handshakes'),
         handshakes' \in SUBSET Conn,
         state \in {"kRunning", "kDraining"}
  PROVE  /\ state' \in {"kRunning", "kDraining", "kDone"}
         /\ DrainingHasWork'
         /\ Managed' # {} => manager'
         /\ manager' <=> state' \in {"kRunning", "kDraining"}
<1>1. handshakes' = {} => numPending' = 0
  BY FS_EmptySet
<1>2. CASE state = "kRunning"
  BY <1>2 DEF Settle, IInv, PendingCounted, DrainingHasWork
<1>3. CASE state = "kDraining" /\ Drained
  BY <1>3 DEF Settle, checkDrained, Drained, DrainingHasWork, Managed
<1>4. CASE state = "kDraining" /\ ~Drained
  <2>1. UNCHANGED <<state, manager>>
    BY <1>4 DEF Settle, checkDrained
  <2>2. forceShutdown \/ Managed' # {}
    BY <1>4, <1>1 DEF Drained, Managed
  <2>3. QED
    BY <1>4, <2>1, <2>2 DEF IInv, PendingCounted, DrainingHasWork
<1>5. QED
  BY <1>2, <1>3, <1>4

(* The handshakes that a partial drop takes out were counted one by one. *)
LEMMA DropCounts ==
  ASSUME IInv, NEW gone
  PROVE  Cardinality(handshakes \ gone) = numPending - Cardinality(handshakes \cap gone)
BY HandshakesFinite, FS_Difference DEF IInv, PendingCounted

LEMMA StepIInv == IInv /\ [Next]_vars => IInv'
<1> SUFFICES ASSUME IInv, [Next]_vars PROVE IInv'
  OBVIOUS
<1> USE HandshakesFinite
<1>1. ASSUME init PROVE IInv'
  BY <1>1 DEF init, IInv, PendingCounted, DrainingHasWork, PendingChecksHold, Managed
<1>2. ASSUME NEW c \in Conn, NEW active, connectionAccepted(c, active), aborted = "no" PROVE IInv'
  <2>1. CASE secure
    <3>0. startHandshake(c) /\ c \notin Managed
      BY <1>2, <2>1 DEF connectionAccepted
    <3>1. CASE numPending + 1 > MaxHandshakes
      <4>1. /\ Settle
            /\ UNCHANGED <<listening, conns, handshakes, numPending, forceShutdown, aborted>>
        BY <3>0, <3>1 DEF startHandshake
      <4>2. CASE state \in {"kRunning", "kDraining"}
        <5>1. /\ state' \in {"kRunning", "kDraining", "kDone"}
              /\ DrainingHasWork'
              /\ Managed' # {} => manager'
              /\ manager' <=> state' \in {"kRunning", "kDraining"}
          BY <4>1, <4>2, SettleKeepsWork DEF IInv, PendingCounted
        <5>2. QED
          BY <4>1, <5>1 DEF IInv, PendingCounted, PendingChecksHold
      <4>3. CASE state \notin {"kRunning", "kDraining"}
        BY <4>1, <4>3 DEF Settle, IInv, PendingCounted, DrainingHasWork, PendingChecksHold, Managed
      <4>4. QED
        BY <4>2, <4>3
    <3>2. CASE numPending + 1 <= MaxHandshakes /\ ~manager
      BY <1>2, <3>0, <3>2, LimitAssumption
         DEF startHandshake, Abort, IInv, PendingCounted, DrainingHasWork,
             PendingChecksHold, Managed
    <3>3. CASE numPending + 1 <= MaxHandshakes /\ manager
      <4>0. ~(numPending + 1 > MaxHandshakes)
        BY <3>3, LimitAssumption DEF IInv, PendingCounted
      <4>1. /\ numPending' = numPending + 1
            /\ handshakes' = handshakes \cup {c}
            /\ UNCHANGED <<state, conns, manager, forceShutdown, aborted>>
        BY <3>0, <3>3, <4>0, Zenon DEF startHandshake
      <4>2. Cardinality(handshakes') = Cardinality(handshakes) + 1
        BY <3>0, <4>1, FS_AddElement DEF Managed
      <4>3. QED
        BY <3>0, <3>3, <4>1, <4>2 DEF IInv, PendingCounted, DrainingHasWork,
                                      PendingChecksHold, Managed
    <3>4. QED
      BY <3>1, <3>2, <3>3, LimitAssumption DEF IInv, PendingCounted
  <2>2. CASE ~secure
    BY <1>2, <2>2 DEF connectionAccepted, connectionReady, IInv, PendingCounted,
                      DrainingHasWork, PendingChecksHold, Managed
  <2>3. QED
    BY <2>1, <2>2
<1>3. ASSUME NEW c \in Conn, NEW ready \in BOOLEAN, finishHandshake(c, ready) PROVE IInv'
  <2>1. c \in handshakes /\ numPending > 0
    BY <1>3, FS_EmptySet DEF finishHandshake, IInv, PendingCounted
  <2>2. /\ handshakes' = handshakes \ {c}
        /\ numPending' = numPending - 1
        /\ conns' \in {conns, conns \cup {c}}
        /\ Settle
        /\ UNCHANGED <<forceShutdown, aborted>>
    BY <1>3, <2>1 DEF finishHandshake, connectionReady
  <2>3. numPending' = Cardinality(handshakes')
    BY <2>1, <2>2, FS_RemoveElement DEF IInv, PendingCounted
  <2>4. state \in {"kRunning", "kDraining"}
    BY <2>1 DEF IInv, PendingCounted, Managed
  <2>5. /\ state' \in {"kRunning", "kDraining", "kDone"}
        /\ DrainingHasWork'
        /\ Managed' # {} => manager'
        /\ manager' <=> state' \in {"kRunning", "kDraining"}
    BY <2>2, <2>3, <2>4, SettleKeepsWork DEF IInv
  <2>6. QED
    BY <2>2, <2>3, <2>5 DEF IInv, PendingCounted, PendingChecksHold
<1>4. ASSUME NEW gone \in SUBSET conns, gone # {}, closeConnections(gone) PROVE IInv'
  <2>1. state \in {"kRunning", "kDraining"}
    BY <1>4 DEF IInv, PendingCounted, Managed
  <2>2. CASE conns' \cup handshakes = {}
    <3>1. Settle /\ UNCHANGED <<handshakes, numPending, forceShutdown, aborted>> /\ conns' = conns \ gone
      BY <1>4, <2>2 DEF closeConnections
    <3>2. /\ state' \in {"kRunning", "kDraining", "kDone"}
          /\ DrainingHasWork'
          /\ Managed' # {} => manager'
          /\ manager' <=> state' \in {"kRunning", "kDraining"}
      BY <2>1, <3>1, SettleKeepsWork DEF IInv, PendingCounted
    <3>3. QED
      BY <3>1, <3>2 DEF IInv, PendingCounted, PendingChecksHold
  <2>3. CASE conns' \cup handshakes # {}
    BY <1>4, <2>1, <2>3 DEF closeConnections, IInv, PendingCounted, DrainingHasWork,
                            PendingChecksHold, Managed
  <2>4. QED
    BY <2>2, <2>3
<1>5. ASSUME acceptStopped PROVE IInv'
  <2>1. /\ state # "kInit"
        /\ conns' \in SUBSET conns
        /\ UNCHANGED <<handshakes, numPending, forceShutdown, aborted>>
    BY <1>5 DEF acceptStopped, IInv
  <2>2. CASE state = "kDone"
    BY <1>5, <2>1, <2>2 DEF acceptStopped, IInv, PendingCounted, DrainingHasWork,
                            PendingChecksHold, Managed
  <2>3. CASE state # "kDone" /\ Drained
    BY <1>5, <2>1, <2>3 DEF acceptStopped, Drained, IInv, PendingCounted, DrainingHasWork,
                            PendingChecksHold, Managed
  <2>4. CASE state # "kDone" /\ ~Drained
    <3>1. state' = "kDraining" /\ UNCHANGED manager
      BY <1>5, <2>4 DEF acceptStopped
    <3>2. forceShutdown \/ Managed' # {}
      BY <2>1, <2>4, FS_EmptySet DEF Drained, Managed, IInv, PendingCounted
    <3>3. QED
      BY <2>1, <2>4, <3>1, <3>2 DEF IInv, PendingCounted, DrainingHasWork,
                                    PendingChecksHold, Managed
  <2>5. QED
    BY <2>2, <2>3, <2>4
<1>6. ASSUME NEW task, post(task) PROVE IInv'
  BY <1>6 DEF post, IInv, PendingCounted, DrainingHasWork, PendingChecksHold, Managed
<1>7. ASSUME dropAllConnections PROVE IInv'
  <2>1. numPending = (IF manager THEN Cardinality(handshakes) ELSE 0)
    BY FS_EmptySet DEF IInv, PendingCounted, Managed
  <2>2. QED
    BY <1>7, <2>1, FS_EmptySet DEF dropAllConnections, IInv, PendingCounted, DrainingHasWork,
                            PendingChecksHold, Managed
<1>8. ASSUME NEW gone \in SUBSET Managed, dropSome(gone) PROVE IInv'
  <2>1. CASE manager
    <3>1. /\ forceShutdown'
          /\ conns' = conns \ gone
          /\ handshakes' = handshakes \ gone
          /\ numPending' = numPending - Cardinality(handshakes \cap gone)
          /\ UNCHANGED <<state, manager, aborted>>
      BY <1>8, <2>1 DEF dropSome
    <3>2. numPending' = Cardinality(handshakes')
      BY <3>1, DropCounts
    <3>3. QED
      BY <2>1, <3>1, <3>2 DEF IInv, PendingCounted, DrainingHasWork, PendingChecksHold, Managed
  <2>2. CASE ~manager
    BY <1>8, <2>2 DEF dropSome, IInv, PendingCounted, DrainingHasWork, PendingChecksHold, Managed
  <2>3. QED
    BY <2>1, <2>2
<1>9. CASE UNCHANGED vars
  BY <1>9 DEF vars, IInv, PendingCounted, DrainingHasWork, PendingChecksHold, Managed
<1>10. QED
  BY <1>1, <1>2, <1>3, <1>4, <1>5, <1>6, <1>7, <1>8, <1>9 DEF Next, Finish

(***************************************************************************)
(* No CHECK on numPendingSSLConns_ fails, in any order of accepts,         *)
(* handshake results, closes, stops and drops.                             *)
(***************************************************************************)
THEOREM PendingChecksHoldAlways == Spec => []PendingChecksHold
<1>1. IInv => PendingChecksHold
  BY DEF IInv
<1>2. QED
  BY InitIInv, StepIInv, <1>1, PTL DEF Spec

(* numPendingSSLConns_ is the number of handshakes under the manager, and  *)
(* a manager exists exactly while the acceptor runs or drains.             *)
THEOREM PendingCountedAlways == Spec => []PendingCounted
<1>1. IInv => PendingCounted
  BY DEF IInv
<1>2. QED
  BY InitIInv, StepIInv, <1>1, PTL DEF Spec

(* An acceptor that drains, without a forced drop, has a connection or a   *)
(* handshake left whose end makes it look again.                           *)
THEOREM DrainingHasWorkAlways == Spec => []DrainingHasWork
<1>1. IInv => DrainingHasWork
  BY DEF IInv
<1>2. QED
  BY InitIInv, StepIInv, <1>1, PTL DEF Spec

(* No step takes the acceptor back to an earlier state, and none hands a   *)
(* connection to the application once it is draining.                      *)
THEOREM StateAdvancesAlways == Spec => StateAdvances
<1> DEFINE Forward ==
      /\ Rank[state'] >= Rank[state]
      /\ state \in {"kDraining", "kDone"} => conns' \subseteq conns
<1>1. IInv /\ [Next]_vars => [Forward]_vars
  <2> SUFFICES ASSUME IInv, Next PROVE Forward
    OBVIOUS
  <2>1. Rank["kInit"] = 0 /\ Rank["kRunning"] = 1 /\ Rank["kDraining"] = 2 /\ Rank["kDone"] = 3
    BY DEF Rank
  <2>2. \/ state' = state
        \/ state = "kInit" /\ state' = "kRunning"
        \/ state # "kDone" /\ listening > 0 /\ state' = "kDraining"
        \/ state' = "kDone"
    <3>1. CASE Settle
      BY <3>1 DEF Settle, checkDrained
    <3>2. QED
      BY <3>1 DEF Next, init, connectionAccepted, startHandshake, Abort, Finish,
                  finishHandshake, closeConnections, acceptStopped, post,
                  dropAllConnections, dropSome
  <2>3. state \in {"kDraining", "kDone"} => conns' \subseteq conns
    BY DEF Next, init, connectionAccepted, connectionReady, startHandshake, Abort, Finish,
           finishHandshake, closeConnections, acceptStopped, post, dropAllConnections,
           dropSome
  <2>4. state = "kInit" => ~(listening > 0)
    BY DEF IInv
  <2>5. QED
    BY <2>1, <2>2, <2>3, <2>4 DEF IInv
<1>2. QED
  BY InitIInv, StepIInv, <1>1, PTL DEF Spec, StateAdvances

-----------------------------------------------------------------------------
(* Load shedding. *)

(* What is managed grows only by a connection canAccept let in: a finished *)
(* handshake only changes its place.                                       *)
LEMMA ManagedGrowth ==
  ASSUME IInv, Next
  PROVE  \/ Managed' \subseteq Managed
         \/ \E c \in Conn : \E active \in 0..Cardinality(Conn) :
              Managed' = Managed \cup {c} /\ canAccept(c, Cardinality(Managed), active)
<1>1. ASSUME NEW c \in Conn, NEW active \in 0..Cardinality(Conn), connectionAccepted(c, active)
      PROVE  \/ Managed' = Managed
             \/ Managed' = Managed \cup {c} /\ canAccept(c, Cardinality(Managed), active)
  <2>1. canAccept(c, Cardinality(Managed), active)
    BY <1>1 DEF connectionAccepted
  <2>2. Managed' = Managed \/ Managed' = Managed \cup {c}
    BY <1>1 DEF connectionAccepted, connectionReady, startHandshake, Abort, Managed
  <2>3. QED
    BY <2>1, <2>2
<1>2. ASSUME ~\E c \in Conn, active \in 0..Cardinality(Conn) : connectionAccepted(c, active)
      PROVE  Managed' \subseteq Managed
  BY <1>2 DEF Next, init, Finish, finishHandshake, connectionReady, Abort, closeConnections,
              acceptStopped, post, dropAllConnections, dropSome, Managed, IInv
<1>3. QED
  BY <1>1, <1>2, Zenon

(* Connections that are not whitelisted stay within the larger limit.      *)
THEOREM LoadIsBoundedAlways == Spec => []LoadIsBounded
<1> DEFINE Plain == Cardinality(Managed \ Whitelisted)
<1>1. Init => LoadIsBounded
  BY FS_EmptySet, LimitAssumption DEF Init, LoadIsBounded, Managed
<1>2. IInv /\ IInv' /\ LoadIsBounded /\ [Next]_vars => LoadIsBounded'
  <2> SUFFICES ASSUME IInv, IInv', LoadIsBounded, [Next]_vars PROVE LoadIsBounded'
    OBVIOUS
  <2>0. /\ IsFiniteSet(Managed) /\ IsFiniteSet(Managed') /\ IsFiniteSet(Managed \ Whitelisted)
        /\ {WorkerMax, TotalLimit} \subseteq Nat
    BY ConnAssumption, FS_Subset, LimitAssumption DEF IInv, Managed
  <2>1. CASE Managed' \subseteq Managed
    <3>1. Plain' \in Nat /\ Plain \in Nat /\ Plain' <= Plain
      BY <2>0, <2>1, FS_Subset, FS_CardinalityType
    <3>2. QED
      BY <2>0, <3>1 DEF LoadIsBounded
  <2>2. ASSUME NEW c \in Conn, NEW active \in 0..Cardinality(Conn),
               Managed' = Managed \cup {c}, canAccept(c, Cardinality(Managed), active)
        PROVE  LoadIsBounded'
    <3>1. CASE TotalLimit = 0
      BY <3>1 DEF LoadIsBounded
    <3>2. CASE c \in Whitelisted
      <4>1. Managed' \ Whitelisted = Managed \ Whitelisted
        BY <2>2, <3>2
      <4>2. QED
        BY <4>1 DEF LoadIsBounded
    <3>3. CASE Cardinality(Managed) < WorkerMax \/ Cardinality(Managed) < TotalLimit
      <4>1. Cardinality(Managed) \in Nat /\ Cardinality(Managed') <= Cardinality(Managed) + 1
        <5>1. Cardinality(Managed) \in Nat
          BY <2>0, FS_CardinalityType
        <5>2. CASE c \in Managed
          <6>1. Managed' = Managed
            BY <2>2, <5>2
          <6>2. Cardinality(Managed') = Cardinality(Managed)
            BY <6>1
          <6>3. QED
            BY <5>1, <6>2
        <5>3. CASE c \notin Managed
          <6>1. Cardinality(Managed \cup {c}) = Cardinality(Managed) + 1
            BY <2>0, <5>3, FS_AddElement
          <6>2. Cardinality(Managed') = Cardinality(Managed) + 1
            BY <2>2, <6>1
          <6>3. QED
            BY <5>1, <6>2
        <5>4. QED
          BY <5>2, <5>3
      <4>2. Plain' \in Nat /\ Plain' <= Cardinality(Managed') /\ Cardinality(Managed') \in Nat
        BY <2>0, FS_Subset, FS_CardinalityType
      <4>3. QED
        BY <2>0, <3>3, <4>1, <4>2 DEF LoadIsBounded
    <3>4. QED
      BY <2>2, <3>1, <3>2, <3>3 DEF canAccept
  <2>3. CASE UNCHANGED vars
    BY <2>1, <2>3 DEF vars, Managed
  <2>4. QED
    BY <2>1, <2>2, <2>3, ManagedGrowth
<1>3. QED
  BY InitIInv, StepIInv, <1>1, <1>2, PTL DEF Spec
(***************************************************************************)
(* All of what acceptor, handshakes and drops share stays consistent, for  *)
(* any set of connections, any limits and any whitelist.                   *)
(***************************************************************************)
THEOREM AcceptorSafeAlways == Spec => []AcceptorSafe
<1>1. PendingChecksHold /\ PendingCounted /\ DrainingHasWork /\ LoadIsBounded => AcceptorSafe
  BY DEF AcceptorSafe
<1>2. QED
  BY <1>1, PendingChecksHoldAlways, PendingCountedAlways, DrainingHasWorkAlways,
     LoadIsBoundedAlways, PTL
=============================================================================
