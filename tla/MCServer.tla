------------------------------ MODULE MCServer ------------------------------
(* The accepting side of a server for TLC: one Acceptor, the bootstrap with    *)
(* its acceptor and IO threads, the routing of accepted connections, and the   *)
(* TLS sessions that acceptors share.  A behaviour picks one of them, the      *)
(* others rest in an initial state.                                            *)
EXTENDS Acceptor, Sequences

CONSTANTS
  Components,                                                  \* those that may be picked
  Threads, Acceptors, Ports, MaxBinds, MaxConns, Concurrent,   \* ServerBootstrap
  Conns, Workers, RoutingData, HeaderLen, Total,               \* AcceptRouting
  TlsThreads, TlsSockets, Ids, Earlier, maxCacheSize, cacheCullSize, MaxSessions
                                                               \* SSLSessionCache

VARIABLES
  component,
  main, sockets_, address, sock, binds, workers_, pool, loop, accepted, acceptor,
  acceptorsUp, stopped_,
  workers, acceptors_, routingPipelines_, moves, conn,
  sessionCache, externalCache_, refs, idOf, pendingLookups_, answering, tlsSocks, contexts_

Bootstrap == INSTANCE ServerBootstrap
Routing == INSTANCE AcceptRouting WITH loop <- moves
Sessions == INSTANCE SSLSessionCache WITH
  Threads <- TlsThreads, Sockets <- TlsSockets, sock <- tlsSocks,
  threadOf <- [s \in TlsSockets |-> IF s = "r" THEN "u" ELSE "t"]

bootstrapVars == <<main, sockets_, address, sock, binds, workers_, pool, loop, accepted,
                   acceptor, acceptorsUp, stopped_>>
routingVars == <<workers, acceptors_, routingPipelines_, moves, conn>>
sessionVars == <<sessionCache, externalCache_, refs, idOf, pendingLookups_, answering,
                 tlsSocks, contexts_>>
serverVars == <<component, vars, bootstrapVars, routingVars, sessionVars>>

ServerInit ==
  /\ component \in Components
  /\ Init
  /\ Bootstrap!Init
  /\ Routing!Init
  /\ Sessions!Init
  /\ component # "acceptor" => secure
  /\ component # "routing" =>
       workers = 1 /\ \A c \in Conns : conn[c].data = CHOOSE r \in RoutingData : TRUE

ServerNext ==
  /\ UNCHANGED component
  /\ \/ /\ component = "acceptor" /\ Next
        /\ UNCHANGED <<bootstrapVars, routingVars, sessionVars>>
     \/ /\ component = "bootstrap" /\ Bootstrap!Next
        /\ UNCHANGED <<vars, routingVars, sessionVars>>
     \/ /\ component = "routing" /\ Routing!Next
        /\ UNCHANGED <<vars, bootstrapVars, sessionVars>>
     \/ /\ component = "sessions" /\ Sessions!Next
        /\ UNCHANGED <<vars, bootstrapVars, routingVars>>

(* The fairness of the component picked, as its module states it. *)
ServerFairness ==
  /\ WF_vars(component = "acceptor" /\ dropAllConnections)
  /\ WF_vars(component = "acceptor" /\ \E gone \in SUBSET Managed : dropSome(gone))
  /\ \A c \in Conn :
       /\ WF_vars(component = "acceptor" /\ Finish(c))
       /\ WF_vars(/\ component = "acceptor" /\ c \in conns /\ state = "kDraining"
                  /\ closeConnections({c}))
  /\ WF_bootstrapVars(component = "bootstrap" /\ Bootstrap!Bind)
  /\ WF_bootstrapVars(component = "bootstrap" /\ Bootstrap!joined)
  /\ WF_bootstrapVars(component = "bootstrap" /\ Bootstrap!PoolStep)
  /\ WF_bootstrapVars(component = "bootstrap" /\ Bootstrap!StopThreads)
  /\ \A w \in Workers : WF_routingVars(component = "routing" /\ Routing!attach(w))
  /\ \A t \in TlsThreads :
       WF_sessionVars(/\ component = "sessions"
                      /\ Sessions!Continue(t) \/ \E id \in Ids : Sessions!Answer(t, id))

ServerSpec == ServerInit /\ [][ServerNext]_serverVars /\ ServerFairness

-----------------------------------------------------------------------------
(* The types of all components. *)
ServerTypeOK ==
  /\ TypeOK
  /\ component = "bootstrap" => Bootstrap!TypeOK
  /\ component = "routing" => Routing!TypeOK
  /\ component = "sessions" => Sessions!TypeOK

(* Sockets and workers belong together whatever is bound, stopped, started and *)
(* failing around: every worker listens once on every socket of the list, a    *)
(* bind() that threw leaves no socket, the sockets of one bind() share a port, *)
(* and nothing refers to the acceptor of a worker thread that was stopped.     *)
SocketsMatchWorkers ==
  /\ Bootstrap!ListensEverywhere /\ Bootstrap!FailedBindCloses
  /\ Bootstrap!OnePortPerBind /\ Bootstrap!AcceptorUnreachable

(* A connection that is routed is with one worker at a time, its child         *)
(* pipeline gets the bytes behind the routing data in order, and the same      *)
(* routing data leads to the same worker.                                      *)
RoutedIntact == Routing!OneOwner /\ Routing!BytesInOrder /\ Routing!SameDataSameWorker

(* TLS sessions that threads share: the count of references is the number of   *)
(* users, a handshake resumes the session it asked for, the local cache keeps  *)
(* to its size, a handshake that waits is known to the lookup that will        *)
(* restart it, and the manager that lookup calls back exists.                  *)
SessionsSound ==
  component = "sessions" =>
    /\ Sessions!RefsBalanced /\ Sessions!ResumesOwnSession /\ Sessions!CacheBounded
    /\ Sessions!BlockedIsAttached /\ Sessions!ManagerExists

(* Stopping ends: a draining acceptor is done once its last socket has stopped *)
(* and its connections are gone, and join() after stop() returns.              *)
StoppingEnds == DrainEnds /\ Bootstrap!JoinReturns

(* What waits for another thread goes on: a connection handed to another       *)
(* worker's loop arrives there, and a handshake that waits for the external    *)
(* session cache goes on or is closed.                                         *)
WaitingEnds == Routing!RoutedArrives /\ (component = "sessions" => Sessions!BlockedGoesOn)
=============================================================================
