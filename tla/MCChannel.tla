----------------------------- MODULE MCChannel ------------------------------
(* What happens on one connection, for TLC: the proxy session of ProviderAgent,*)
(* and the parts it and its like are made of: the pipeline of handlers, the    *)
(* channel between socket and pipeline, frames, services, broadcasts, file     *)
(* regions.  A behaviour picks one of them, the others rest in an initial      *)
(* state.                                                                      *)
EXTENDS ProviderAgent, FiniteSets

CONSTANTS
  Components,                       \* those that may be picked
  MaxCtx,                           \* Pipeline
  MaxWrites, MaxActive,             \* Channel
  Base, Alphabet, MaxMessages, MaxStream,  \* Codec
  MaxReqs, IdMod,                   \* Service
  Observers, Keys,                  \* Broadcast
  Count, FileSizes, PipeCap         \* FileRegion

VARIABLES
  component,
  handlerOf, ctxs_, inCtxs_, outCtxs_, nextIn_, nextOut_, attached_, attachCount_, ctx_,
  front_, back_, owner_, finalized, at, life,
  side, socket, connected, pipeline, transport_, readCB, firedInactive_, pipelineDeleted_,
  sends_, scheduled, batches, result, posted, seen,
  config, messages, stream, fed, q, discarding_, frames, errors,
  kind, fut, p_, requestsOut, responsesOut, work, requestId_, lastWrittenId_, responses_,
  requests_, idleTimeout_, maxTimeout_, released, closes,
  bcast, connects, made, obs,
  file, bytesToRead_, pipe, queue_, bytesInPipe_, written, behind, started_, armed,
  readLoop, reader, handler, socketLoop, future, alive

(* Three handlers: p translates between bytes and messages in both directions, *)
(* q only takes what p reads, r only writes bytes.                             *)
ByHandler(p, q_, r) == [h \in {"p", "q", "r"} |->
                         CASE h = "p" -> p [] h = "q" -> q_ [] h = "r" -> r]
Pipelines == INSTANCE Pipeline WITH
  Handlers <- {"p", "q", "r"},
  Dir <- ByHandler("BOTH", "IN", "OUT"),
  Rin <- ByHandler("bytes", "msg", "unit"), Rout <- ByHandler("msg", "msg", "unit"),
  Win <- ByHandler("bytes", "unit", "bytes"), Wout <- ByHandler("bytes", "unit", "bytes"),
  R <- "bytes", W <- "bytes",
  Classes <- {{"p", "q"}}, StaticHandlers <- <<"p", "q">>

Channels == INSTANCE Channel

(* Decoders of each kind: length fields of one and two bytes in both orders,   *)
(* that count themselves or not, that are stripped or not, with room for every *)
(* message or not; lines with each terminator, stripped or not, short or long. *)
LengthField(n, max, adjustment, strip, be, includes) ==
  [kind |-> "length", lengthFieldLength |-> n, maxFrameLength |-> max,
   lengthFieldOffset |-> 0, lengthAdjustment |-> adjustment, strip |-> strip,
   networkByteOrder |-> be, prepAdjustment |-> 0, includesField |-> includes]
Decoders ==
  {[kind |-> "fixed", length |-> n] : n \in {2, 3}}
  \cup {LengthField(1, 9, 0, 1, TRUE, FALSE), LengthField(1, 9, -1, 0, TRUE, TRUE),
        LengthField(2, 9, 0, 2, FALSE, FALSE), LengthField(2, 4, -2, 2, TRUE, TRUE)}
  \cup {[kind |-> "line", maxLength |-> m, strip |-> s, terminator |-> t] :
          m \in {3, 9}, s \in BOOLEAN, t \in {"BOTH", "NEWLINE", "CARRIAGENEWLINE"}}
Codecs == INSTANCE Codec WITH
  Configs <- Decoders, Messages <- {<<>>, <<3>>, <<1, 2, 0>>, <<2, 2, 2, 2>>}

(* A serial client needs no order of the server; a pipelined one does. *)
Services == INSTANCE Service WITH
  Kinds <- ({"serial"} \X {"serial", "pipelined", "multiplex"})
           \cup ({"pipelined"} \X {"serial", "pipelined"}),
  toServer <- requestsOut, toClient <- responsesOut

Broadcasts == INSTANCE Broadcast
Regions == INSTANCE FileRegion

pipelineVars == <<handlerOf, ctxs_, inCtxs_, outCtxs_, nextIn_, nextOut_, attached_,
                  attachCount_, ctx_, front_, back_, owner_, finalized, at, life>>
channelVars == <<side, socket, connected, pipeline, transport_, readCB, firedInactive_,
                 pipelineDeleted_, sends_, scheduled, batches, result, posted, seen>>
codecVars == <<config, messages, stream, fed, q, discarding_, frames, errors>>
serviceVars == <<kind, fut, p_, requestsOut, responsesOut, work, requestId_, lastWrittenId_,
                 responses_, requests_, idleTimeout_, maxTimeout_, released, closes>>
broadcastVars == <<bcast, connects, made, obs>>
regionVars == <<file, bytesToRead_, pipe, queue_, bytesInPipe_, written, behind, started_,
                armed, readLoop, reader, handler, socketLoop, future, alive>>
allVars == <<component, vars, pipelineVars, channelVars, codecVars, serviceVars,
             broadcastVars, regionVars>>

ChannelInit ==
  /\ component \in Components
  /\ Init
  /\ Pipelines!Init
  /\ component # "pipeline" => handlerOf = <<>>
  /\ Channels!Init
  /\ component # "channel" => side = "server"
  /\ Services!Init
  /\ component # "service" => kind = <<"serial", "serial">> /\ maxTimeout_ = "none"
  /\ Broadcasts!Init
  /\ component # "broadcast" => \A o \in Observers : obs[o].key = CHOOSE k \in Keys : TRUE
  /\ Regions!Init
  /\ component # "region" => ~behind /\ file = Count
  /\ Codecs!Init
  /\ component # "codec" =>
       config = [kind |-> "fixed", length |-> 2] /\ stream = <<CHOOSE b \in Alphabet : TRUE>>

ChannelNext ==
  /\ UNCHANGED component
  /\ \/ /\ component = "agent" /\ Next
        /\ UNCHANGED <<pipelineVars, channelVars, codecVars, serviceVars,
                       broadcastVars, regionVars>>
     \/ /\ component = "pipeline" /\ Pipelines!Next
        /\ UNCHANGED <<vars, channelVars, codecVars, serviceVars,
                       broadcastVars, regionVars>>
     \/ /\ component = "channel" /\ Channels!Next
        /\ UNCHANGED <<vars, pipelineVars, codecVars, serviceVars,
                       broadcastVars, regionVars>>
     \/ /\ component = "codec" /\ Codecs!Next
        /\ UNCHANGED <<vars, pipelineVars, channelVars, serviceVars,
                       broadcastVars, regionVars>>
     \/ /\ component = "service" /\ Services!Next
        /\ UNCHANGED <<vars, pipelineVars, channelVars, codecVars,
                       broadcastVars, regionVars>>
     \/ /\ component = "broadcast" /\ Broadcasts!Next
        /\ UNCHANGED <<vars, pipelineVars, channelVars, codecVars,
                       serviceVars, regionVars>>
     \/ /\ component = "region" /\ Regions!Next
        /\ UNCHANGED <<vars, pipelineVars, channelVars, codecVars,
                       serviceVars, broadcastVars>>

(* The fairness of the component picked, as its module states it. *)
ChannelFairness ==
  /\ WF_vars(component = "agent" /\ crashed = "no" /\ resume)
  /\ WF_vars(component = "agent" /\ crashed = "no" /\ frontRead)
  /\ WF_vars(component = "agent" /\ crashed = "no" /\ readEOF)
  /\ WF_channelVars(component = "channel" /\ Channels!runLoopCallback)
  /\ WF_channelVars(component = "channel" /\ Channels!runPosted)
  /\ WF_channelVars(component = "channel" /\ (Channels!writeSuccess \/ Channels!socketError))
  /\ WF_channelVars(component = "channel" /\ \E ok \in BOOLEAN : Channels!connectDone(ok))
  /\ WF_serviceVars(component = "service" /\ Services!clientRead)
  /\ WF_serviceVars(component = "service" /\ Services!serverRead)
  /\ WF_serviceVars(component = "service" /\ \E x \in work : Services!serviceAnswers(x))
  /\ WF_serviceVars(component = "service" /\ Services!idleExpires)
  /\ WF_serviceVars(component = "service" /\ Services!idleCloses)
  /\ \A k \in Keys :
       WF_broadcastVars(/\ component = "broadcast"
                        /\ Broadcasts!connectDone(k) \/ Broadcasts!handleConnectError(k))
  /\ WF_regionVars(component = "region" /\ Regions!reachHead)
  /\ WF_regionVars(component = "region" /\ Regions!runSocketTask)
  /\ WF_regionVars(component = "region" /\ \E n \in 1..PipeCap : Regions!socketWritable(n))
  /\ WF_regionVars(component = "region" /\ \E n \in 0..PipeCap : Regions!messageAvailable(n))
  /\ WF_regionVars(component = "region" /\ \E ok \in BOOLEAN : Regions!runReadTask(ok))
  /\ WF_regionVars(component = "region" /\ \E n \in 1..PipeCap : Regions!handlerReady(n))

ChannelSpec == ChannelInit /\ [][ChannelNext]_allVars /\ ChannelFairness

-----------------------------------------------------------------------------
(* The types of all components. *)
ChannelTypeOK ==
  /\ TypeOK
  /\ component = "pipeline" => Pipelines!TypeOK
  /\ component = "channel" => Channels!TypeOK
  /\ component = "codec" => Codecs!TypeOK
  /\ component = "service" => Services!TypeOK
  /\ component = "broadcast" => Broadcasts!TypeOK
  /\ component = "region" => Regions!TypeOK

(* However handlers are added, removed and destroyed around an event: the      *)
(* directed lists hold the contexts of their direction, a finalized pipeline   *)
(* leads an event through all of them, no handler keeps a context it was       *)
(* detached from, the context an event is in exists, and a destroyed pipeline  *)
(* has let go of every handler but its owner.                                  *)
PipelineSound ==
  component = "pipeline" =>
    /\ Pipelines!SidesMatch /\ Pipelines!FinalizedLinks /\ Pipelines!ContextIsAttached
    /\ Pipelines!EventOnLiveContext /\ Pipelines!DestroyedIsDetached

(* Whatever fails or closes when: writes are buffered exactly while a loop     *)
(* callback will flush them, none is dropped from the middle of the stream,    *)
(* transportInactive pairs with transportActive, and the socket calls back     *)
(* only into a pipeline with an active transport.                              *)
ChannelSound ==
  component = "channel" =>
    /\ Channels!BufferedIffScheduled /\ Channels!NoHoles
    /\ Channels!InactivePairs /\ Channels!CallbackInPipeline

(* However a stream is cut, length-prefixed messages come out as written,      *)
(* fixed-length frames are its consecutive pieces, and frames of lines are its *)
(* lines (without a lone carriage return); none exceeds the maximum.           *)
FramesAreExact ==
  component = "codec" =>
    /\ Codecs!FramesAreMessages /\ Codecs!FramesArePieces
    /\ Codecs!FramesAreLines /\ Codecs!FramesBounded

(* A future holds the response to its own request, ExpiringFilter takes the    *)
(* service for idle only if no request is under way, the service is closed     *)
(* once, and after that no request reaches the dispatcher.                     *)
ServiceSound ==
  /\ [](component = "service" =>
          Services!RightResponse /\ Services!IdleMeansIdle /\ Services!ClosedOnce)
  /\ Services!NoCallAfterClose

(* There is one upstream connection at most for each routing data, a connected *)
(* broadcast has a subscriber, subscribers are observers that exist, and an    *)
(* observer's broadcast handler is the one in the pool.                        *)
BroadcastSound ==
  component = "broadcast" =>
    /\ Broadcasts!OneUpstream /\ Broadcasts!NoIdleBroadcast
    /\ Broadcasts!SubscribersExist /\ Broadcasts!HandlerExists

(* Every byte of a file region is in one place and counted right, and a        *)
(* deleted transfer has no task or handler on either loop.                     *)
RegionSound ==
  component = "region" => Regions!BytesConserved /\ Regions!NoUseAfterDelete

(* Every promise given is kept or broken in the end: a write's, a request's    *)
(* unless the service is closed meanwhile, an observer's that waits for a      *)
(* broadcast, and a transfer's of bytes the file holds.                        *)
PromisesSettle ==
  /\ component = "channel" => Channels!WritesSettle
  /\ component = "service" => Services!RequestsAnswered
  /\ component = "broadcast" => Broadcasts!WaitersAnswered
  /\ component = "region" => Regions!TransferSettles

(* A proxied session ends when the consumer agent closes, and a service nobody *)
(* calls closes.                                                               *)
SessionsEnd ==
  CloseEndsSession /\ (component = "service" => Services!IdleServiceCloses)
=============================================================================
