---------------------------- MODULE ProviderAgent ----------------------------
(***************************************************************************)
(* chijinxin/ProviderAgent.cpp: one proxied session.  A consumer agent     *)
(* connects to the frontend pipeline; the frontend stops reading, connects *)
(* a backend pipeline to the dubbo server, and resumes when it is there.   *)
(* Then each side's bytes are written to the other side's pipeline.        *)
(*                                                                         *)
(* Both pipelines run on the same thread of the I/O pool: main gives one   *)
(* pool to both, and the executor (external) runs what a pool thread hands *)
(* it on that thread.  So each handler is one atomic step of an event      *)
(* loop, with all the handlers its event runs through, and only the order  *)
(* of the loop's events varies.  The continuation of connect() is a task   *)
(* of its own, run before the loop polls its sockets again (external).     *)
(* Payloads are numbered chunks.                                           *)
(***************************************************************************)
EXTENDS Integers, Sequences, SequencesExt

CONSTANTS
  MaxChunks,  \* chunks each peer may send
  Uninit      \* values the uninitialised backendPipeline_ may hold

ASSUME InputAssumption == MaxChunks \in Nat /\ Uninit \subseteq {"null", "garbage"}

VARIABLES
  front,            \* the frontend pipeline and its ServerConnection
  frontGood,        \* its socket's good()
  transport,        \* its transport_ is not null
  reading,          \* its AsyncSocketHandler is the socket's read callback
  backendPipeline,  \* ProxyFrontendHandler::backendPipeline_
  backend,          \* client_'s connection and pipeline
  resumeTask,       \* the continuation of connect() is queued on the executor
  clientSent, clientEOF, \* what the consumer agent has sent, and closed
  clientRead,       \* chunks the frontend has read
  serverSent, serverEOF, \* what the dubbo server has sent, and closed
  serverRead,       \* chunks the backend has read
  toServer,         \* chunks accepted for the dubbo server, in order
  toClient,         \* chunks accepted for the consumer agent, in order
  crashed           \* "backend": a bad backendPipeline_ was used;
                    \* "transport": EventBaseHandler used a null transport

peers == <<clientSent, clientEOF, serverSent, serverEOF>>
data == <<clientRead, serverRead, toServer, toClient>>
frontEnd == <<front, frontGood, transport, reading, backendPipeline>>
vars == <<frontEnd, backend, resumeTask, peers, data, crashed>>

Init ==
  /\ front = "none"
  /\ frontGood = TRUE
  /\ transport = FALSE
  /\ reading = FALSE
  /\ backendPipeline \in Uninit
  /\ backend = "none"
  /\ resumeTask = FALSE
  /\ clientSent = 0 /\ clientEOF = FALSE /\ clientRead = 0
  /\ serverSent = 0 /\ serverEOF = FALSE /\ serverRead = 0
  /\ toServer = <<>> /\ toClient = <<>>
  /\ crashed = "no"

Crash(why) ==
  /\ crashed' = why
  /\ UNCHANGED <<frontEnd, backend, resumeTask, peers, data>>

(* AsyncSocketHandler::write: a socket that is closed refuses the chunk,   *)
(* with a failed future that neither proxy handler looks at.               *)
write(good, sent, chunk) == IF good THEN Append(sent, chunk) ELSE sent

(* The loop polls its sockets once the tasks queued on it have run. *)
Polls == ~resumeTask

-----------------------------------------------------------------------------
(* The peers. *)

clientSend ==
  /\ front # "none" /\ ~clientEOF /\ clientSent < MaxChunks
  /\ clientSent' = clientSent + 1
  /\ UNCHANGED <<frontEnd, backend, resumeTask, clientEOF, serverSent, serverEOF, data, crashed>>

clientClose ==
  /\ front # "none" /\ ~clientEOF
  /\ clientEOF' = TRUE
  /\ UNCHANGED <<frontEnd, backend, resumeTask, clientSent, serverSent, serverEOF, data, crashed>>

serverSend ==
  /\ backend = "connected" /\ ~serverEOF /\ serverSent < MaxChunks
  /\ serverSent' = serverSent + 1
  /\ UNCHANGED <<frontEnd, backend, resumeTask, clientSent, clientEOF, serverEOF, data, crashed>>

serverClose ==
  /\ backend = "connected" /\ ~serverEOF
  /\ serverEOF' = TRUE
  /\ UNCHANGED <<frontEnd, backend, resumeTask, clientSent, clientEOF, serverSent, data, crashed>>

-----------------------------------------------------------------------------
(* The frontend. *)

(***************************************************************************)
(* A new connection: ServerAcceptor makes its pipeline active, which       *)
(* attaches the read callback; ProxyFrontendHandler::transportActive then  *)
(* makes it inactive again and connects, unless backendPipeline_ looks set. *)
(***************************************************************************)
transportActive ==
  /\ front = "none"
  /\ front' = "open"
  /\ IF backendPipeline = "null" THEN
       /\ transport' = FALSE
       /\ reading' = FALSE
       /\ backend' = "connecting"
     ELSE
       /\ transport' = TRUE
       /\ reading' = frontGood
       /\ UNCHANGED backend
  /\ UNCHANGED <<frontGood, backendPipeline, resumeTask, peers, data, crashed>>

(* The continuation of connect(): sets backendPipeline_ and makes the      *)
(* frontend pipeline active again, which leaves a closed socket unread.    *)
resume ==
  /\ resumeTask
  /\ resumeTask' = FALSE
  /\ backendPipeline' = "set"
  /\ transport' = TRUE
  /\ reading' = frontGood
  /\ UNCHANGED <<front, frontGood, backend, peers, data, crashed>>

(* Mutation: the frontend passes on a chunk it has passed on before. *)
frontRead_Repeats ==
  /\ reading
  /\ clientRead < clientSent
  /\ clientRead' = clientRead + 1
  /\ toServer' = toServer \o <<clientRead + 1, clientRead + 1>>
  /\ UNCHANGED <<frontEnd, backend, resumeTask, peers, serverRead, toClient, crashed>>

(* ProxyFrontendHandler::read. *)
frontRead ==
  /\ reading
  /\ clientRead < clientSent
  /\ IF backendPipeline # "set" THEN Crash("backend")
     ELSE
       /\ clientRead' = clientRead + 1
       /\ toServer' = write(backend \in {"connected", "readClosed"}, toServer, clientRead + 1)
       /\ UNCHANGED <<frontEnd, backend, resumeTask, peers, serverRead, toClient, crashed>>

(* Mutation: the end of the consumer agent's stream is not handled. *)
readEOF_Ignored ==
  /\ reading
  /\ clientEOF /\ clientRead = clientSent
  /\ reading' = FALSE
  /\ UNCHANGED <<front, frontGood, transport, backendPipeline, backend, resumeTask, peers, data, crashed>>

(* Mutation: only the frontend is closed. *)
readEOF_LeavesBackend ==
  /\ reading
  /\ clientEOF /\ clientRead = clientSent
  /\ front' = "destroyed"
  /\ frontGood' = FALSE /\ reading' = FALSE
  /\ UNCHANGED <<transport, backendPipeline, backend, resumeTask, peers, data, crashed>>

(***************************************************************************)
(* ProxyFrontendHandler::readEOF: closes the backend, then the frontend,   *)
(* whose AsyncSocketHandler deletes the pipeline and with it the handler,  *)
(* its ClientBootstrap and the backend pipeline.                           *)
(***************************************************************************)
readEOF ==
  /\ reading
  /\ clientEOF /\ clientRead = clientSent
  /\ IF backendPipeline # "set" THEN Crash("backend")
     ELSE
       /\ front' = "destroyed"
       /\ backend' = "destroyed"
       /\ frontGood' = FALSE /\ reading' = FALSE
       /\ UNCHANGED <<transport, backendPipeline, resumeTask, peers, data, crashed>>

(* A frontend socket that fails closes itself.  The exception it reports   *)
(* to the pipeline reaches its end: no handler takes it.                   *)
frontError ==
  /\ front = "open" /\ frontGood
  /\ reading  \* the error of a socket nobody reads is not noticed
  /\ frontGood' = FALSE
  /\ reading' = FALSE
  /\ UNCHANGED <<front, transport, backendPipeline, backend, resumeTask, peers, data, crashed>>

-----------------------------------------------------------------------------
(* The backend. *)

(* ConnectCallback::connectSuccess: makes the backend pipeline, active and *)
(* reading at once; the continuation of connect() goes via the executor.   *)
connectSuccess ==
  /\ backend = "connecting"
  /\ backend' = "connected"
  /\ resumeTask' = TRUE
  /\ UNCHANGED <<frontEnd, peers, data, crashed>>

(* ConnectCallback::connectErr: the handler only prints the error. *)
connectErr ==
  /\ backend = "connecting"
  /\ backend' = "failed"
  /\ UNCHANGED <<frontEnd, resumeTask, peers, data, crashed>>

(* ProxyBackendHandler::read.  The frontend's EventBaseHandler asks the    *)
(* pipeline's transport for its event base.                                *)
backRead ==
  /\ Polls /\ backend = "connected"
  /\ serverRead < serverSent
  /\ IF ~transport THEN Crash("transport")
     ELSE
       /\ serverRead' = serverRead + 1
       /\ toClient' = write(frontGood, toClient, serverRead + 1)
       /\ UNCHANGED <<frontEnd, backend, resumeTask, peers, clientRead, toServer, crashed>>

(* The backend's readEOF: no handler takes it, the pipeline stays. *)
backEOF ==
  /\ Polls /\ backend = "connected"
  /\ serverEOF /\ serverRead = serverSent
  /\ backend' = "readClosed"
  /\ UNCHANGED <<frontEnd, resumeTask, peers, data, crashed>>

(* A backend socket that fails closes itself; no handler takes the error. *)
backError ==
  /\ Polls /\ backend \in {"connected", "readClosed"}
  /\ backend' = "failed"
  /\ UNCHANGED <<frontEnd, resumeTask, peers, data, crashed>>

-----------------------------------------------------------------------------
Frontend == transportActive \/ resume \/ frontRead \/ readEOF \/ frontError
Backend == connectSuccess \/ connectErr \/ backRead \/ backEOF \/ backError
Peers == clientSend \/ clientClose \/ serverSend \/ serverClose

Next == crashed = "no" /\ (Frontend \/ Backend \/ Peers)

Spec == Init /\ [][Next]_vars

(* The event loop runs its tasks and serves readable sockets. *)
FairSpec ==
  /\ Spec
  /\ WF_vars(crashed = "no" /\ resume)
  /\ WF_vars(crashed = "no" /\ frontRead)
  /\ WF_vars(crashed = "no" /\ readEOF)

-----------------------------------------------------------------------------
(* Properties. *)

TypeOK ==
  /\ front \in {"none", "open", "destroyed"}
  /\ {frontGood, transport, reading, resumeTask, clientEOF, serverEOF} \subseteq BOOLEAN
  /\ backendPipeline \in {"null", "garbage", "set"}
  /\ backend \in {"none", "connecting", "connected", "readClosed", "failed", "destroyed"}
  /\ clientSent \in 0..MaxChunks /\ serverSent \in 0..MaxChunks
  /\ clientRead \in 0..clientSent /\ serverRead \in 0..serverSent
  /\ Len(toServer) <= clientRead /\ Len(toClient) <= serverRead
  /\ crashed \in {"no", "backend", "transport"}

(***************************************************************************)
(* Neither direction loses a chunk and passes on a later one, whichever    *)
(* socket fails when: what a peer gets is a prefix of what the other sent. *)
(***************************************************************************)
NoGaps ==
  /\ IsPrefix(toServer, [i \in 1..clientSent |-> i])
  /\ IsPrefix(toClient, [i \in 1..serverSent |-> i])

(***************************************************************************)
(* ProviderAgent.cpp:96, "Pause reading from the socket until remote       *)
(* connection succeeds": ProxyFrontendHandler::read and readEOF can only   *)
(* run once backendPipeline_ is the connected pipeline.                    *)
(***************************************************************************)
PausedUntilConnected ==
  /\ reading => backendPipeline = "set"
  /\ crashed # "backend"

(***************************************************************************)
(* The pipelines hold raw pointers to each other: the frontend is deleted  *)
(* only together with the backend, with no connect continuation queued.    *)
(***************************************************************************)
DeletedTogether ==
  /\ front = "destroyed" <=> backend = "destroyed"
  /\ front = "destroyed" => ~resumeTask

(* Once the backend is there, a consumer agent that closes is served to    *)
(* the end and both pipelines go, unless its own socket failed.            *)
CloseEndsSession ==
  clientEOF /\ backendPipeline = "set"
    ~> front = "destroyed" \/ ~frontGood \/ crashed # "no"

(***************************************************************************)
(* EventBaseHandler.h:27, DCHECK(ctx->getTransport()): the backend reads   *)
(* from the moment it connects and the paused frontend has no transport,   *)
(* yet no server, however early it sends, finds it missing.                *)
(***************************************************************************)
WritesFindTransport == crashed # "transport"

(***************************************************************************)
(* A session is a faithful pipe: no chunk is lost in the middle, the       *)
(* frontend waits for the backend, both go together and neither writes to  *)
(* a pipeline without a transport.                                         *)
(***************************************************************************)
SessionSound == NoGaps /\ PausedUntilConnected /\ DeletedTogether /\ WritesFindTransport
=============================================================================
