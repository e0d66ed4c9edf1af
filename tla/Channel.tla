------------------------------ MODULE Channel -------------------------------
(* One connection's channel: the pipeline AsyncSocketHandler (socket end) -    *)
(* OutputBufferingHandler - EventBaseHandler - application, owned by a         *)
(* ServerConnection on the server side and by a ClientBootstrap on the client  *)
(* side.  Writes are numbered in the order they reach OutputBufferingHandler.  *)
(* The folly socket is external: it finishes writes in order, fails or closes. *)
EXTENDS Naturals, Sequences, FiniteSets, SequencesExt

CONSTANTS
  MaxWrites,    \* bound on the writes of one behaviour
  MaxActive     \* bound on the calls of transportActive()

VARIABLES
  side,         \* "server" or "client"
  socket,       \* "connecting", "good", "shutWrite" or "dead"
  connected,    \* the future of ClientBootstrap::connect()
  pipeline,     \* "none", "held" or "gone"
  transport_,   \* the pipeline knows its transport
  readCB,       \* AsyncSocketHandler is the socket's read callback
  firedInactive_, pipelineDeleted_,
  sends_, scheduled,   \* OutputBufferingHandler: buffered writes, its loop callback
  batches,      \* writeChain() calls the socket has not finished, oldest first
  result,       \* of each write's future
  posted,       \* another thread waits for EventBaseHandler to run its write
  seen          \* what the handlers after the socket saw: counts of the two events

socketVars == <<socket, batches>>
handlerVars == <<transport_, readCB, firedInactive_, pipelineDeleted_, seen>>
bufferVars == <<sends_, scheduled>>
vars == <<side, connected, pipeline, posted, result, socketVars, handlerVars, bufferVars>>

Writes == 1..MaxWrites
Held == pipeline = "held"
Settle(S, r) == [w \in Writes |-> IF w \in S THEN r ELSE result[w]]
InFlight == UNION Range(batches)
Least(S) == CHOOSE w \in S : \A v \in S : w <= v
Unused == {w \in Writes : result[w] = "none"}

-----------------------------------------------------------------------------
(* AsyncSocketHandler.                                                         *)

detachReadCallback ==
  /\ readCB' = FALSE
  /\ firedInactive_' = TRUE
  /\ seen' = IF firedInactive_ THEN seen ELSE [seen EXCEPT !.inactive = @ + 1]

transportActive ==
  /\ transport_' = TRUE
  /\ readCB' = (socket' = "good")
  /\ firedInactive_' = FALSE
  /\ seen' = [seen EXCEPT !.active = @ + 1]

(* shutdown(): the socket is closed and fails what it still had to write, and  *)
(* the pipeline is given back to its manager once.  A ServerConnection then    *)
(* destroys itself and the pipeline, a client pipeline has no manager.         *)
shutdown(S) ==
  /\ detachReadCallback
  /\ socket' = "dead"
  /\ batches' = <<>>
  /\ pipelineDeleted_' = TRUE
  /\ pipeline' = IF side = "server" /\ ~pipelineDeleted_ THEN "gone" ELSE pipeline
  /\ LET broken == IF pipeline' = "gone" THEN Range(sends_) \ S ELSE {}
     IN /\ result' = Settle(InFlight \cup S \cup broken, "error")
        /\ sends_' = IF S = {} /\ broken = {} THEN sends_ ELSE <<>>
        /\ scheduled' = IF S = {} /\ broken = {} THEN scheduled ELSE FALSE
  /\ UNCHANGED transport_

(* write(): refused when the socket is not good, else handed to writeChain().  *)
socketWrite(S) ==
  IF socket = "good"
  THEN batches' = Append(batches, S) /\ result' = Settle(S, "waiting")
  ELSE batches' = batches /\ result' = Settle(S, "error")

-----------------------------------------------------------------------------
(* OutputBufferingHandler.                                                     *)
write ==
  /\ Held /\ transport_
  /\ Unused # {}
  /\ sends_' = Append(sends_, Least(Unused))
  /\ result' = Settle({Least(Unused)}, "waiting")
  /\ scheduled' = TRUE

appWrite ==
  /\ write
  /\ UNCHANGED <<side, connected, pipeline, posted, socketVars, handlerVars>>

runLoopCallback ==
  /\ scheduled
  /\ scheduled' = FALSE
  /\ sends_' = <<>>
  /\ socketWrite(Range(sends_))
  /\ UNCHANGED <<side, connected, pipeline, posted, socket, handlerVars>>

(* Mutation: close() that does not reach the socket. *)
close_BufferOnly(shutdownWriteOnly) ==
  /\ Held
  /\ result' = Settle(Range(sends_), "error")
  /\ sends_' = <<>> /\ scheduled' = FALSE
  /\ UNCHANGED <<side, connected, posted, pipeline, socketVars, handlerVars>>

(* close(): what is buffered is given up, then the socket end shuts its write  *)
(* side (WriteFlags::WRITE_SHUTDOWN) or closes.                                *)
close(shutdownWriteOnly) ==
  /\ Held
  /\ IF shutdownWriteOnly
     THEN /\ socket' = IF socket = "good" THEN "shutWrite" ELSE socket
          /\ result' = Settle(Range(sends_), "error")
          /\ sends_' = <<>> /\ scheduled' = FALSE
          /\ UNCHANGED <<pipeline, batches, handlerVars>>
     ELSE shutdown(Range(sends_))
  /\ UNCHANGED <<side, connected, posted>>

(* writeException() passes OutputBufferingHandler by and resets the socket. *)
writeException ==
  /\ Held
  /\ shutdown({})
  /\ UNCHANGED <<side, connected, posted>>

-----------------------------------------------------------------------------
(* EventBaseHandler: a thread that is not the loop's posts its write and waits.*)
foreignWrite ==
  /\ Held /\ transport_ /\ ~posted
  /\ posted' = TRUE
  /\ UNCHANGED <<side, connected, pipeline, result, socketVars, handlerVars, bufferVars>>

(* The loop runs the posted write.  The guard of the context the thread is in  *)
(* keeps a pipeline its owner has dropped until the thread returns, so a write *)
(* that comes after the close is buffered and breaks with the pipeline.        *)
runPosted ==
  /\ posted
  /\ posted' = FALSE
  /\ \/ write
     \/ /\ pipeline = "gone" /\ Unused # {}
        /\ result' = Settle({Least(Unused)}, "error")
        /\ UNCHANGED bufferVars
     \/ Unused = {} /\ UNCHANGED <<result, bufferVars>>
  /\ UNCHANGED <<side, connected, pipeline, socketVars, handlerVars>>

-----------------------------------------------------------------------------
(* The owner of the pipeline.                                                  *)

(* ServerAcceptor::read: a ServerConnection with its pipeline, then init(). *)
serverInit ==
  /\ side = "server" /\ pipeline = "none"
  /\ pipeline' = "held"
  /\ socket' \in {"good", "dead"}
  /\ transportActive
  /\ UNCHANGED <<side, connected, posted, result, batches, pipelineDeleted_, bufferVars>>

(* ConnectCallback::connectSuccess and connectErr; a bootstrap that is gone by *)
(* then makes no pipeline and breaks the promise.                              *)
connectDone(ok) ==
  /\ side = "client" /\ connected = "pending"
  /\ IF ok /\ pipeline = "none"
     THEN pipeline' = "held" /\ socket' = "good" /\ transportActive /\ connected' = "ok"
     ELSE /\ connected' = "error"
          /\ socket' = "dead"
          /\ UNCHANGED <<pipeline, transport_, readCB, firedInactive_, seen>>
  /\ UNCHANGED <<side, posted, result, batches, pipelineDeleted_, bufferVars>>

(* ~ClientBootstrap, or setPipeline() with another one: the pipeline goes, the *)
(* socket handler detaches and drops the socket, buffered writes break.        *)
destroyClient ==
  /\ side = "client" /\ pipeline # "gone"
  /\ pipeline' = "gone"
  /\ IF Held
     THEN /\ detachReadCallback
          /\ socket' = "dead" /\ batches' = <<>>
          /\ result' = Settle(InFlight \cup Range(sends_), "error")
          /\ sends_' = <<>> /\ scheduled' = FALSE
     ELSE UNCHANGED <<socketVars, result, bufferVars, readCB, firedInactive_, seen>>
  /\ UNCHANGED <<side, connected, posted, transport_, pipelineDeleted_>>

(* The application takes the channel off its loop and puts it back. *)
reactivate ==
  /\ Held /\ ~transport_ /\ seen.active < MaxActive
  /\ socket' = socket
  /\ transportActive
  /\ UNCHANGED <<side, connected, pipeline, posted, result, batches, pipelineDeleted_, bufferVars>>

transportInactive ==
  /\ Held /\ transport_ /\ ~posted
  /\ detachReadCallback
  /\ transport_' = FALSE
  /\ UNCHANGED <<side, connected, pipeline, posted, result, socketVars, pipelineDeleted_, bufferVars>>

-----------------------------------------------------------------------------
(* The socket.                                                                 *)
writeSuccess ==
  /\ batches # <<>> /\ socket \in {"good", "shutWrite"}
  /\ batches' = Tail(batches)
  /\ result' = Settle(Head(batches), "ok")
  /\ UNCHANGED <<side, connected, pipeline, posted, socket, handlerVars, bufferVars>>

(* A read or write error: every unfinished write gets writeErr, the read       *)
(* callback is taken out and told (readErr); readEOF only takes it out.        *)
socketError ==
  /\ socket \in {"good", "shutWrite"}
  /\ socket' = "dead"
  /\ batches' = <<>>
  /\ result' = Settle(InFlight, "error")
  /\ readCB' = FALSE
  /\ UNCHANGED <<side, connected, pipeline, posted, transport_, firedInactive_, pipelineDeleted_, seen, bufferVars>>

readEOF ==
  /\ readCB
  /\ readCB' = FALSE
  /\ UNCHANGED <<side, connected, pipeline, posted, result, socketVars, transport_, firedInactive_, pipelineDeleted_, seen, bufferVars>>

-----------------------------------------------------------------------------
Init ==
  /\ side \in {"server", "client"}
  /\ socket = "connecting"
  /\ connected = IF side = "client" THEN "pending" ELSE "none"
  /\ pipeline = "none"
  /\ transport_ = FALSE /\ readCB = FALSE
  /\ firedInactive_ = FALSE /\ pipelineDeleted_ = FALSE
  /\ sends_ = <<>> /\ scheduled = FALSE
  /\ batches = <<>>
  /\ result = [w \in Writes |-> "none"]
  /\ posted = FALSE
  /\ seen = [active |-> 0, inactive |-> 0]

Next ==
  \/ serverInit \/ \E ok \in BOOLEAN : connectDone(ok)
  \/ appWrite \/ foreignWrite \/ runPosted
  \/ \E only \in BOOLEAN : close(only)
  \/ writeException
  \/ destroyClient \/ transportInactive \/ reactivate
  \/ runLoopCallback
  \/ writeSuccess \/ socketError \/ readEOF

(* The loop runs its callbacks and what is posted to it; the socket finishes   *)
(* its writes or fails, and a connect attempt ends (its timeout).              *)
Fairness ==
  /\ WF_vars(runLoopCallback)
  /\ WF_vars(runPosted)
  /\ WF_vars(writeSuccess \/ socketError)
  /\ WF_vars(\E ok \in BOOLEAN : connectDone(ok))

Spec == Init /\ [][Next]_vars /\ Fairness

-----------------------------------------------------------------------------
TypeOK ==
  /\ side \in {"server", "client"}
  /\ socket \in {"connecting", "good", "shutWrite", "dead"}
  /\ connected \in {"none", "pending", "ok", "error"}
  /\ pipeline \in {"none", "held", "gone"}
  /\ {transport_, readCB, firedInactive_, pipelineDeleted_, scheduled, posted} \subseteq BOOLEAN
  /\ sends_ \in Seq(Writes) /\ batches \in Seq(SUBSET Writes)
  /\ result \in [Writes -> {"none", "waiting", "ok", "error"}]
  /\ seen \in [active : 0..MaxActive, inactive : Nat]

(* OutputBufferingHandler has a loop callback exactly while it holds writes:   *)
(* the two DCHECKs in write().                                                 *)
BufferedIffScheduled == scheduled <=> sends_ # <<>>

(* The socket calls AsyncSocketHandler only while it sits in a pipeline that   *)
(* was told the transport is active: getContext() in readDataAvailable and     *)
(* getReadBuffer is never null.                                                *)
CallbackInPipeline ==
  readCB => Held /\ transport_ /\ ~firedInactive_ /\ socket # "dead"

(* Handlers are told of the end of the transport at most once per activation,  *)
(* and never before it was active, on every path that detaches: close, reset,  *)
(* transportInactive, destruction.                                             *)
InactivePairs == seen.inactive \in {seen.active - 1, seen.active}

(* A write whose future succeeded was preceded only by writes that succeeded   *)
(* or are still waiting: buffering, closing and failing never drop a write     *)
(* from the middle of the stream.                                              *)
NoHoles ==
  \A v, w \in Writes : v < w /\ result[w] = "ok" => result[v] = "ok"

(* The future of every write is settled: none is forgotten by a close with     *)
(* writes buffered, a socket failing, or a pipeline destroyed.                 *)
WritesSettle == \A w \in Writes : result[w] = "waiting" ~> result[w] \in {"ok", "error"}
=============================================================================
