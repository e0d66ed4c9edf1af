--------------------------- MODULE ServerBootstrap --------------------------
(* bootstrap: ServerBootstrap's bind, stop and join on the main thread, the    *)
(* ServerWorkerPool that follows the threads of the IO pool as they come and   *)
(* go, and the loops of the acceptor and IO threads they wait for.             *)
EXTENDS Naturals, Sequences, SequencesExt, FiniteSets

CONSTANTS
  Threads,     \* the threads the IO pool may have
  Acceptors,   \* number of acceptor threads
  Ports,       \* ports the kernel may choose
  MaxBinds,    \* bind() calls
  MaxConns,    \* connections accepted and not yet handed to a worker
  Concurrent   \* the IO pool is resized while another thread is in bind()

VARIABLES
  main,        \* what the main thread does
  sockets_,    \* the bootstrap's list of listening sockets
  address,     \* bindImpl's address: the port asked for, then the port got (0: any)
  sock,        \* per socket made: its port, and its callbacks per IO thread
  binds,
  workers_,    \* the worker pool's map, as the set of its threads
  pool,        \* what the thread that resizes the IO pool does
  loop,        \* per IO thread, the tasks posted to its event loop
  accepted,    \* per socket and IO thread, connections in its RemoteAcceptor's queue
  acceptor,    \* per IO thread, whether its Acceptor object exists
  acceptorsUp, \* the acceptor threads run
  stopped_

vars == <<main, sockets_, address, sock, binds, workers_, pool, loop, accepted, acceptor,
          acceptorsUp, stopped_>>

SocketIds == (1..MaxBinds) \X (1..Acceptors)
Idle == [op |-> "idle"]
Closed == [port |-> 0, cbs |-> [w \in Threads |-> 0]]
Listening(s) == sock[s].port # 0

poolVars == <<workers_, pool, loop, accepted, acceptor>>
mainVars == <<main, sockets_, address, binds, acceptorsUp, stopped_>>

(* addAcceptCB on the socket's loop, the caller waiting for it. *)
addAcceptCB(s, w) ==
  /\ acceptorsUp
  /\ sock' = [sock EXCEPT ![s].cbs[w] = @ + 1]
  /\ loop' = [loop EXCEPT ![w] = Append(@, <<"start", s>>)]

(* removeAcceptCB on the socket's loop: the RemoteAcceptor is told to stop. *)
removeAcceptCB(s, w) ==
  /\ acceptorsUp
  /\ sock' = [sock EXCEPT ![s].cbs[w] = 0]
  /\ loop' = [loop EXCEPT ![w] = IF sock[s].cbs[w] > 0 THEN Append(@, <<"stop", s>>) ELSE @]

(* ThreadSafeDestructor: the socket is destroyed on its own loop, which stops  *)
(* every RemoteAcceptor it has.                                                *)
destroySocket(s) ==
  /\ acceptorsUp
  /\ sock' = [sock EXCEPT ![s] = Closed]
  /\ loop' = [w \in Threads |->
                IF sock[s].cbs[w] > 0 THEN Append(loop[w], <<"stop", s>>) ELSE loop[w]]

-----------------------------------------------------------------------------
(* bind(), on a port or on any; each acceptor thread makes a socket in turn.   *)
bind(p) ==
  /\ main = Idle /\ ~stopped_ /\ binds < MaxBinds
  /\ Concurrent \/ pool = Idle
  /\ main' = [op |-> "open", made |-> <<>>, tried |-> 0, failed |-> FALSE]
  /\ address' = p
  /\ binds' = binds + 1
  /\ UNCHANGED <<sockets_, sock, acceptorsUp, stopped_, poolVars>>

(* startupFunc on the next acceptor thread, the main thread waiting for it: a  *)
(* socket listens on the port asked for, and later threads ask for the port    *)
(* this one got.                                                               *)
startupFunc(p) ==
  LET s == <<binds, main.tried + 1>> IN
  /\ main.op = "open" /\ main.tried < Acceptors
  /\ p = address \/ address = 0
  /\ main' = [main EXCEPT !.tried = @ + 1, !.made = Append(@, s)]
  /\ sock' = [sock EXCEPT ![s].port = p]
  /\ address' = p
  /\ UNCHANGED <<sockets_, binds, acceptorsUp, stopped_, poolVars>>

(* newSocket() throws: the exception is kept, the other threads still try. *)
startupThrows ==
  /\ main.op = "open" /\ main.tried < Acceptors
  /\ main' = [main EXCEPT !.tried = @ + 1, !.failed = TRUE]
  /\ UNCHANGED <<sockets_, address, sock, binds, acceptorsUp, stopped_, poolVars>>

(* All threads have tried and one failed: the sockets made are destroyed. *)
rethrow ==
  /\ main.op = "open" /\ main.tried = Acceptors /\ main.failed
  /\ sock' = [s \in SocketIds |-> IF Contains(main.made, s) THEN Closed ELSE sock[s]]
  /\ main' = Idle
  /\ UNCHANGED <<sockets_, address, binds, acceptorsUp, stopped_, poolVars>>

(* forEachWorker for the next socket: the map is locked for reading. *)
lockWorkers ==
  /\ \/ main.op = "open" /\ main.tried = Acceptors /\ ~main.failed
     \/ main.op = "next" /\ main.made # <<>>
  /\ main' = [op |-> "add", made |-> main.made, todo |-> workers_]
  /\ UNCHANGED <<sockets_, address, sock, binds, acceptorsUp, stopped_, poolVars>>

addWorker(w) ==
  /\ main.op = "add" /\ w \in main.todo
  /\ addAcceptCB(Head(main.made), w)
  /\ main' = [main EXCEPT !.todo = @ \ {w}]
  /\ UNCHANGED <<sockets_, address, binds, acceptorsUp, stopped_, workers_, pool, accepted,
                 acceptor>>

(* The lock is dropped, then the socket joins the list. *)
publish ==
  /\ main.op = "add" /\ main.todo = {}
  /\ sockets_' = Append(sockets_, Head(main.made))
  /\ main' = IF Len(main.made) = 1 THEN Idle ELSE [op |-> "next", made |-> Tail(main.made)]
  /\ UNCHANGED <<address, sock, binds, acceptorsUp, stopped_, poolVars>>

(* stop(): sockets_->clear() destroys the sockets one by one; the baton is     *)
(* posted once.                                                                *)
stop ==
  /\ main = Idle /\ ~stopped_
  /\ Concurrent \/ pool = Idle
  /\ IF sockets_ = <<>>
     THEN stopped_' = TRUE /\ UNCHANGED <<sockets_, sock, loop>>
     ELSE /\ destroySocket(Head(sockets_))
          /\ sockets_' = Tail(sockets_)
          /\ UNCHANGED stopped_
  /\ UNCHANGED <<main, address, binds, acceptorsUp, workers_, pool, accepted, acceptor>>

(* join(): the acceptor threads end, then the IO pool stops its threads. *)
join ==
  /\ main = Idle /\ stopped_
  /\ main' = [op |-> "joining"]
  /\ acceptorsUp' = FALSE
  /\ UNCHANGED <<sockets_, address, sock, binds, stopped_, poolVars>>

joined ==
  /\ main.op = "joining" /\ pool = Idle /\ \A w \in Threads : ~acceptor[w]
  /\ main' = [op |-> "joined"]
  /\ UNCHANGED <<sockets_, address, sock, binds, acceptorsUp, stopped_, poolVars>>

-----------------------------------------------------------------------------
MapFree == main.op # "add"

(* newAcceptor: an acceptor of w's own. *)
newAcceptor(w) == acceptor' = [acceptor EXCEPT ![w] = TRUE]

(* threadStarted: the pool gets a thread, its acceptor enters the map ... *)
threadStarted(w) ==
  /\ pool = Idle /\ ~acceptor[w] /\ loop[w] = <<>> /\ MapFree
  /\ ~stopped_ /\ (Concurrent \/ main = Idle)
  /\ newAcceptor(w)
  /\ workers_' = workers_ \cup {w}
  /\ pool' = [op |-> "start", w |-> w, i |-> 1]
  /\ UNCHANGED <<mainVars, sock, loop, accepted>>

(* ... and joins every socket of the list. *)
joinSocket ==
  /\ pool.op = "start"
  /\ IF pool.i > Len(sockets_)
     THEN pool' = Idle /\ UNCHANGED <<sock, loop>>
     ELSE /\ addAcceptCB(sockets_[pool.i], pool.w)
          /\ pool' = [pool EXCEPT !.i = @ + 1]
  /\ UNCHANGED <<mainVars, workers_, accepted, acceptor>>

(* threadStopped: the worker leaves the map ... *)
threadStopped(w) ==
  /\ pool = Idle /\ w \in workers_ /\ MapFree
  /\ Concurrent \/ main = Idle \/ main.op = "joining"
  /\ workers_' = workers_ \ {w}
  /\ pool' = [op |-> "stop", w |-> w, i |-> 1]
  /\ UNCHANGED <<mainVars, sock, loop, accepted, acceptor>>

(* Mutation: the acceptor is dropped without leaving the sockets first. *)
leaveSocket_DropFirst ==
  /\ pool.op = "stop"
  /\ loop' = [loop EXCEPT ![pool.w] = Append(@, <<"drop">>)]
  /\ pool' = [op |-> "drop", w |-> pool.w]
  /\ UNCHANGED <<mainVars, workers_, sock, accepted, acceptor>>

(* ... then leaves every socket of the list, and the drop of its connections   *)
(* and of the acceptor itself is posted to its loop and waited for.            *)
leaveSocket ==
  /\ pool.op = "stop"
  /\ IF pool.i > Len(sockets_)
     THEN /\ loop' = [loop EXCEPT ![pool.w] = Append(@, <<"drop">>)]
          /\ pool' = [op |-> "drop", w |-> pool.w]
          /\ UNCHANGED sock
     ELSE /\ removeAcceptCB(sockets_[pool.i], pool.w)
          /\ pool' = [pool EXCEPT !.i = @ + 1]
  /\ UNCHANGED <<mainVars, workers_, accepted, acceptor>>

(* A task of an IO thread's loop: a RemoteAcceptor starts or stops (with       *)
(* acceptStopped(), its queue dies), or the acceptor is dropped.               *)
runTask(w) ==
  LET task == Head(loop[w]) IN
  /\ loop[w] # <<>>
  /\ loop' = [loop EXCEPT ![w] = Tail(@)]
  /\ CASE task[1] = "start" -> UNCHANGED <<accepted, acceptor, pool>>
       [] task[1] = "stop" -> /\ accepted' = [accepted EXCEPT ![task[2]][w] = 0]
                              /\ UNCHANGED <<acceptor, pool>>
       [] task[1] = "drop" -> /\ acceptor' = [acceptor EXCEPT ![w] = FALSE]
                              /\ pool' = Idle
                              /\ UNCHANGED accepted
  /\ UNCHANGED <<mainVars, workers_, sock>>

(* A listening socket accepts a connection and hands it to one of its workers. *)
accept(s, w) ==
  /\ acceptorsUp /\ Listening(s) /\ sock[s].cbs[w] > 0 /\ accepted[s][w] < MaxConns
  /\ accepted' = [accepted EXCEPT ![s][w] = @ + 1]
  /\ UNCHANGED <<mainVars, sock, workers_, pool, loop, acceptor>>

(* connectionAccepted() on the worker's loop. *)
connectionAccepted(s, w) ==
  /\ accepted[s][w] > 0
  /\ accepted' = [accepted EXCEPT ![s][w] = @ - 1]
  /\ UNCHANGED <<mainVars, sock, workers_, pool, loop, acceptor>>

-----------------------------------------------------------------------------
(* group() has made the pool and its observer; the threads come next. *)
Init ==
  /\ main = Idle /\ sockets_ = <<>> /\ address = 0 /\ binds = 0
  /\ sock = [s \in SocketIds |-> Closed]
  /\ workers_ = {} /\ pool = Idle
  /\ loop = [w \in Threads |-> <<>>]
  /\ accepted = [s \in SocketIds |-> [w \in Threads |-> 0]]
  /\ acceptor = [w \in Threads |-> FALSE]
  /\ acceptorsUp = TRUE /\ stopped_ = FALSE

Bind == \/ startupThrows \/ rethrow \/ lockWorkers \/ publish
        \/ \E p \in Ports : startupFunc(p)
        \/ \E w \in Threads : addWorker(w)
PoolStep == \/ joinSocket \/ leaveSocket
            \/ \E w \in Threads : runTask(w)
StopThreads == main.op = "joining" /\ \E w \in Threads : threadStopped(w)

Next ==
  \/ \E p \in Ports \cup {0} : bind(p)
  \/ Bind \/ stop \/ join \/ joined \/ PoolStep
  \/ \E w \in Threads : threadStarted(w) \/ threadStopped(w)
  \/ \E s \in SocketIds, w \in Threads : accept(s, w) \/ connectionAccepted(s, w)

(* Every thread runs; a stop() and join() once begun go on. *)
Fairness == WF_vars(Bind) /\ WF_vars(joined) /\ WF_vars(PoolStep) /\ WF_vars(StopThreads)

Spec == Init /\ [][Next]_vars /\ Fairness

-----------------------------------------------------------------------------
TypeOK ==
  /\ main.op \in {"idle", "open", "next", "add", "joining", "joined"}
  /\ pool.op \in {"idle", "start", "stop", "drop"}
  /\ sockets_ \in Seq(SocketIds) /\ address \in Ports \cup {0} /\ binds \in 0..MaxBinds
  /\ sock \in [SocketIds -> [port : Ports \cup {0}, cbs : [Threads -> Nat]]]
  /\ workers_ \subseteq Threads /\ acceptor \in [Threads -> BOOLEAN]
  /\ accepted \in [SocketIds -> [Threads -> 0..MaxConns]]
  /\ {acceptorsUp, stopped_} \subseteq BOOLEAN

Quiet == main = Idle /\ pool = Idle

(* Between calls every worker is registered exactly once with every listening  *)
(* socket, whether the socket or the thread came first.                        *)
ListensEverywhere ==
  Quiet => \A s \in SocketIds : \A w \in Threads :
    sock[s].cbs[w] = IF Contains(sockets_, s) /\ w \in workers_ THEN 1 ELSE 0

(* Between calls the sockets that listen are those of the list: a bind() that  *)
(* threw leaves none behind.                                                   *)
FailedBindCloses ==
  Quiet => \A s \in SocketIds : Listening(s) <=> Contains(sockets_, s)

(* The sockets of one bind() share one port, also when it asked for any port.  *)
OnePortPerBind ==
  \A s, t \in SocketIds : s[1] = t[1] /\ Listening(s) /\ Listening(t) => sock[s].port = sock[t].port

(* A deleted acceptor is unreachable: no socket has it as callback, no task on *)
(* its loop and no connection in a queue is meant for it.                      *)
AcceptorUnreachable ==
  \A w \in Threads : ~acceptor[w] =>
    loop[w] = <<>> /\ \A s \in SocketIds : sock[s].cbs[w] = 0 /\ accepted[s][w] = 0

(* join() after stop() returns: no thread waits for a loop that has ended. *)
JoinReturns == main.op = "joining" ~> main.op = "joined"
=============================================================================
