------------------------------ MODULE Acceptor ------------------------------
(***************************************************************************)
(* wangle::Acceptor: accepts connections for one event base, counts the    *)
(* TLS handshakes in progress, hands finished ones to the application and  *)
(* tears everything down when accepting stops or a stop is forced.         *)
(*                                                                         *)
(* Every handler runs on the acceptor's thread and is one action, with the *)
(* callbacks it runs into: the ConnectionManager's onEmpty, the drop of a  *)
(* handshake that comes back as connectionError.  Other threads only post  *)
(* tasks.  The ConnectionManager is the set of what it manages: established *)
(* connections and handshakes.  A handshake ends once, as HandshakeContract *)
(* says.  A listening socket is an accept callback registered with it; the *)
(* bootstrap registers one acceptor with every socket it binds.            *)
(***************************************************************************)
EXTENDS Integers, FiniteSets

CONSTANTS
  Conn,          \* client connections that may exist at a time
  Whitelisted,   \* those from an address LoadShedConfiguration whitelists
  Sockets,       \* number of sockets the acceptor is registered with
  MaxHandshakes, \* accConfig_.maxConcurrentSSLHandshakes
  WorkerMax,     \* connectionCounter_->getMaxConnections()
  TotalLimit,    \* loadShedConfig_.getMaxConnections(), 0 for none
  ActiveLimit    \* loadShedConfig_.getMaxActiveConnections(), 0 for none

ASSUME ConnAssumption == IsFiniteSet(Conn) /\ Whitelisted \subseteq Conn
ASSUME LimitAssumption ==
  {Sockets, MaxHandshakes, WorkerMax, TotalLimit, ActiveLimit} \subseteq Nat

VARIABLES
  state,         \* state_
  secure,        \* isSSL() with a default context: connections do a handshake
  listening,     \* sockets that have not called acceptStopped yet
  conns,         \* established connections in downstreamConnectionManager_
  handshakes,    \* AcceptorHandshakeManagers in downstreamConnectionManager_
  manager,       \* downstreamConnectionManager_ is not null
  numPending,    \* numPendingSSLConns_
  forceShutdown, \* forceShutdownInProgress_
  posted,        \* tasks posted by forceStop and dropConnections
  aborted        \* "check": a CHECK failed; "null": the null manager was used

vars == <<state, secure, listening, conns, handshakes, manager, numPending,
          forceShutdown, posted, aborted>>

Managed == conns \cup handshakes

Init ==
  /\ state = "kInit"
  /\ secure \in BOOLEAN
  /\ listening = 0
  /\ conns = {}
  /\ handshakes = {}
  /\ manager = FALSE
  /\ numPending = 0
  /\ forceShutdown = FALSE
  /\ posted = {}
  /\ aborted = "no"

-----------------------------------------------------------------------------
(* The process ends. *)
Abort(why) ==
  /\ aborted' = why
  /\ UNCHANGED <<state, secure, listening, conns, handshakes, manager, numPending,
                 forceShutdown, posted>>

(* The condition of checkDrained, on what the handler leaves behind. *)
Drained ==
  /\ ~forceShutdown
  /\ conns' \cup handshakes' = {}
  /\ numPending' = 0

(* checkDrained, where the code calls it: in state kDraining. *)
checkDrained ==
  IF Drained
  THEN state' = "kDone" /\ manager' = FALSE
  ELSE UNCHANGED <<state, manager>>

(* Mutation: the end of the last handshake is not noticed. *)
Settle_Never == UNCHANGED <<state, manager>>

(* onEmpty, sslConnectionReady and sslConnectionError end with it. *)
Settle == IF state = "kDraining" THEN checkDrained ELSE UNCHANGED <<state, manager>>

-----------------------------------------------------------------------------
(* init and initDownstreamConnectionManager; the bootstrap then registers  *)
(* the acceptor with its sockets.                                          *)
init ==
  /\ state = "kInit"
  /\ state' = "kRunning"
  /\ manager' = TRUE
  /\ listening' = Sockets
  /\ UNCHANGED <<secure, conns, handshakes, numPending, forceShutdown, posted, aborted>>

(* canAccept, for an acceptor whose counters count what its manager holds: *)
(* current connections, active ones among them.                            *)
canAccept(c, current, active) ==
  \/ TotalLimit = 0
  \/ current < WorkerMax
  \/ c \in Whitelisted
  \/ current < TotalLimit /\ (ActiveLimit > 0 => active < ActiveLimit)

(* Mutation: a connection is handed over while draining, too. *)
connectionReady_WhileDraining(c) ==
  \/ state # "kDone" /\ conns' = conns \cup {c}
  \/ conns' = conns

(* connectionReady: while draining, the socket is closed.  Otherwise       *)
(* onNewConnection adds the connection, or the application drops it.       *)
connectionReady(c) ==
  \/ state \in {"kInit", "kRunning"} /\ conns' = conns \cup {c}
  \/ conns' = conns

(* Mutation: a refused handshake stays counted. *)
startHandshake_LeaksCount(c) ==
  IF numPending + 1 > MaxHandshakes THEN
    /\ numPending' = numPending + 1
    /\ UNCHANGED <<state, secure, listening, conns, handshakes, manager,
                   forceShutdown, posted, aborted>>
  ELSE IF ~manager THEN Abort("null")
  ELSE
    /\ numPending' = numPending + 1
    /\ handshakes' = handshakes \cup {c}
    /\ UNCHANGED <<state, secure, listening, conns, manager, forceShutdown, posted,
                   aborted>>

(* The handshake of a new connection: counted, refused over the limit, or  *)
(* put under the manager, which must exist.                                *)
startHandshake(c) ==
  IF numPending + 1 > MaxHandshakes THEN
    /\ UNCHANGED <<secure, listening, conns, handshakes, numPending, forceShutdown,
                   posted, aborted>>
    /\ Settle
  ELSE IF ~manager THEN Abort("null")
  ELSE
    /\ numPending' = numPending + 1
    /\ handshakes' = handshakes \cup {c}
    /\ UNCHANGED <<state, secure, listening, conns, manager, forceShutdown, posted,
                   aborted>>

(* connectionAccepted and processEstablishedConnection.  A connection that *)
(* canAccept refuses is reset.                                             *)
connectionAccepted(c, active) ==
  /\ listening > 0
  /\ c \notin Managed
  /\ active <= Cardinality(Managed)
  /\ canAccept(c, Cardinality(Managed), active)
  /\ IF secure THEN startHandshake(c)
     ELSE /\ connectionReady(c)
          /\ UNCHANGED <<state, secure, listening, handshakes, manager, numPending,
                         forceShutdown, posted, aborted>>

(* AcceptorHandshakeManager::connectionReady and connectionError: out of   *)
(* the manager, whose onEmpty still sees the handshake counted, then       *)
(* sslConnectionReady or sslConnectionError.                               *)
finishHandshake(c, ready) ==
  /\ c \in handshakes
  /\ IF numPending > 0 THEN
       /\ handshakes' = handshakes \ {c}
       /\ numPending' = numPending - 1
       /\ IF ready THEN connectionReady(c) ELSE UNCHANGED conns
       /\ Settle
       /\ UNCHANGED <<secure, listening, forceShutdown, posted, aborted>>
     ELSE Abort("check")

(* Mutation: a connection that closes during the drain is not removed. *)
closeConnections_KeepsDraining(gone) ==
  /\ conns' = IF state = "kDraining" THEN conns ELSE conns \ gone
  /\ UNCHANGED handshakes
  /\ UNCHANGED <<secure, listening, numPending, forceShutdown, posted, aborted>>
  /\ UNCHANGED <<state, manager>>

(* Connections leave: one closes or times out, or a drain that has just    *)
(* begun finds them idle (drainConnections, and drainAllConnections called *)
(* by the application).  onEmpty fires when the last one is gone.          *)
closeConnections(gone) ==
  /\ conns' = conns \ gone
  /\ UNCHANGED handshakes
  /\ UNCHANGED <<secure, listening, numPending, forceShutdown, posted, aborted>>
  /\ IF conns' \cup handshakes = {} THEN Settle ELSE UNCHANGED <<state, manager>>

(* acceptStopped: the drain it begins may close idle connections at once.  *)
acceptStopped ==
  /\ listening > 0
  /\ listening' = listening - 1
  /\ \E gone \in SUBSET conns : conns' = conns \ gone
  /\ UNCHANGED <<secure, handshakes, numPending, forceShutdown, posted, aborted>>
  /\ IF state = "kDone" THEN UNCHANGED <<state, manager>>
     ELSE IF Drained THEN state' = "kDone" /\ manager' = FALSE
     ELSE state' = "kDraining" /\ UNCHANGED manager

(* forceStop and dropConnections, from any thread. *)
post(task) ==
  /\ state # "kInit"
  /\ posted' = posted \cup {task}
  /\ UNCHANGED <<state, secure, listening, conns, handshakes, manager, numPending,
                 forceShutdown, aborted>>

(* dropAllConnections on the acceptor's thread.  Each handshake comes back *)
(* through sslConnectionError; the flag keeps checkDrained from resetting  *)
(* the manager while it is dropping.                                       *)
dropAllConnections ==
  /\ "dropAll" \in posted
  /\ IF numPending # (IF manager THEN Cardinality(handshakes) ELSE 0) THEN Abort("check")
     ELSE
       /\ posted' = posted \ {"dropAll"}
       /\ forceShutdown' = (forceShutdown \/ manager)
       /\ conns' = {}
       /\ handshakes' = {}
       /\ numPending' = 0
       /\ manager' = FALSE
       /\ state' = "kDone"
       /\ UNCHANGED <<secure, listening, aborted>>

(* The task dropConnections posts: some of what is managed is dropped.     *)
dropSome(gone) ==
  /\ "drop" \in posted
  /\ posted' = posted \ {"drop"}
  /\ IF manager THEN
       /\ forceShutdown' = TRUE
       /\ conns' = conns \ gone
       /\ handshakes' = handshakes \ gone
       /\ numPending' = numPending - Cardinality(handshakes \cap gone)
     ELSE UNCHANGED <<conns, handshakes, numPending, forceShutdown>>
  /\ UNCHANGED <<state, secure, listening, manager, aborted>>

-----------------------------------------------------------------------------
Finish(c) == finishHandshake(c, TRUE) \/ finishHandshake(c, FALSE)

Next ==
  /\ aborted = "no"
  /\ \/ init
     \/ \E c \in Conn, active \in 0..Cardinality(Conn) : connectionAccepted(c, active)
     \/ \E c \in Conn : Finish(c)
     \/ \E gone \in SUBSET conns : gone # {} /\ closeConnections(gone)
     \/ acceptStopped
     \/ \E task \in {"dropAll", "drop"} : post(task)
     \/ dropAllConnections
     \/ \E gone \in SUBSET Managed : dropSome(gone)

Spec == Init /\ [][Next]_vars

(* Posted tasks run.  Handshakes end, at the latest when they time out.    *)
(* A connection that was told to close closes, at the latest when it times *)
(* out idle.                                                               *)
FairSpec ==
  /\ Spec
  /\ WF_vars(dropAllConnections)
  /\ WF_vars(\E gone \in SUBSET Managed : dropSome(gone))
  /\ \A c \in Conn :
       /\ WF_vars(Finish(c))
       /\ WF_vars(c \in conns /\ state = "kDraining" /\ closeConnections({c}))

-----------------------------------------------------------------------------
(* Properties. *)

TypeOK ==
  /\ state \in {"kInit", "kRunning", "kDraining", "kDone"}
  /\ secure \in BOOLEAN /\ manager \in BOOLEAN /\ forceShutdown \in BOOLEAN
  /\ listening \in 0..Sockets
  /\ conns \in SUBSET Conn /\ handshakes \in SUBSET Conn
  /\ numPending \in 0..MaxHandshakes
  /\ posted \in SUBSET {"dropAll", "drop"}
  /\ aborted \in {"no", "check", "null"}

(***************************************************************************)
(* The CHECKs of sslConnectionReady, sslConnectionError and                *)
(* dropAllConnections on numPendingSSLConns_ hold, however accepts,        *)
(* handshakes, drops and a forced stop follow each other.                  *)
(***************************************************************************)
PendingChecksHold == aborted # "check"

(* What they rest on: numPendingSSLConns_ is the number of handshakes the   *)
(* manager holds, and connections only exist under a manager.              *)
PendingCounted ==
  /\ numPending = Cardinality(handshakes)
  /\ conns \cap handshakes = {}
  /\ Managed # {} => manager
  /\ manager <=> state \in {"kRunning", "kDraining"}

(***************************************************************************)
(* An acceptor that is draining waits for something: unless a drop was     *)
(* forced, it becomes kDone in the step that ends its last connection or   *)
(* handshake.  Nothing would make it look again later.                     *)
(***************************************************************************)
DrainingHasWork == state = "kDraining" /\ ~forceShutdown => Managed # {}

(* The states follow each other in the order of Acceptor::State, and an    *)
(* acceptor that is draining or done hands no connection to the application. *)
Rank == [s \in {"kInit", "kRunning", "kDraining", "kDone"} |->
           CASE s = "kInit" -> 0 [] s = "kRunning" -> 1
             [] s = "kDraining" -> 2 [] s = "kDone" -> 3]

StateAdvances ==
  [][/\ Rank[state'] >= Rank[state]
     /\ state \in {"kDraining", "kDone"} => conns' \subseteq conns]_vars

(***************************************************************************)
(* Load shedding keeps its promise although connections are counted only   *)
(* when they are accepted: those from addresses that are not whitelisted,  *)
(* handshakes included, never exceed both limits (canAccept).              *)
(***************************************************************************)
LoadIsBounded ==
  TotalLimit > 0 =>
    \/ Cardinality(Managed \ Whitelisted) <= WorkerMax
    \/ Cardinality(Managed \ Whitelisted) <= TotalLimit

(* What an acceptor counts is what it has, at every point of its life: the *)
(* CHECKs on pending handshakes hold, the count is exact, a drain waits for *)
(* something, and the load stays within the limits.                        *)
AcceptorSafe == PendingChecksHold /\ PendingCounted /\ DrainingHasWork /\ LoadIsBounded

(* Stopping ends: an acceptor that drains gets done once its last socket   *)
(* has stopped too, unless drops are forced on it.  Until then the other   *)
(* sockets may keep it busy with handshakes whose connections it closes.   *)
DrainEnds ==
  state = "kDraining" /\ listening = 0
    ~> state = "kDone" \/ forceShutdown \/ aborted # "no"

(***************************************************************************)
(* Acceptor.cpp:384-388, in acceptStopped: a completely idle acceptor is   *)
(* considered drained at once, as no outstanding work would cause it to be *)
(* re-evaluated.                                                           *)
(***************************************************************************)
IdleIsDrained == state = "kDraining" => Managed # {}
=============================================================================
