----------------------------- MODULE EtcdWatch ------------------------------
(* AsyncWatchAction of v3/: a watch stream whose operations complete on a      *)
(* completion queue.  One thread sits in waitForResponse, with a callback or   *)
(* until the first event, while another may call CancelWatch.  The stream and  *)
(* the server at its other end are external.                                   *)
EXTENDS Integers, Sequences, SequencesExt

CONSTANTS
  MaxEvents,   \* events of the watched keys; they are 1, 2, ...
  MaxBatch,    \* events the server puts into one message
  MaxCancels   \* calls of CancelWatch

VARIABLES
  mode,        \* "once" or "callback": the waitForResponse in use
  sent,        \* events the server has sent, -1 before "created"
  incoming,    \* messages on their way, sequences of events
  stream,      \* "open", "half" (the client is done writing), "closed"
  cq_,         \* completions: [tag, ok]
  reading,     \* a Read is outstanding
  finishing,   \* WritesDone: "no", "pending", "done"
  reply,       \* the message the last completed Read filled in
  batches,     \* messages with events that a Read completed with
  isCancelled,
  loop,        \* "waiting", "returned", or "aborted" by the library
  seen,        \* events reported to the caller
  cancels      \* calls of CancelWatch so far

server == <<mode, sent, incoming, stream>>
library == <<cq_, reading, finishing, reply, batches>>
client == <<isCancelled, loop, seen, cancels>>
vars == <<server, library, client>>

Tag(tag, ok) == [tag |-> tag, ok |-> ok]

(* The constructor: the stream, the create request, and a first Read. *)
Init ==
  /\ mode \in {"once", "callback"}
  /\ sent = -1 /\ incoming = <<>>
  /\ stream \in {"open", "closed"}           \* closed: it cannot be created
  /\ cq_ = <<Tag("create", stream = "open"), Tag("write", stream = "open")>>
  /\ reading = TRUE /\ finishing = "no" /\ reply = <<>> /\ batches = <<>>
  /\ isCancelled = FALSE /\ loop = "waiting" /\ seen = <<>> /\ cancels = 0

-----------------------------------------------------------------------------
(* The server and the library, external.                                       *)

(* "created" without events, then events, several in a message if they come    *)
(* close together.                                                             *)
send ==
  /\ stream # "closed"
  /\ \E n \in 0..MaxBatch :
       /\ (n = 0) = (sent = -1)
       /\ sent + n <= MaxEvents
       /\ incoming' = Append(incoming, [i \in 1..n |-> sent + i])
       /\ sent' = IF n = 0 THEN 0 ELSE sent + n
  /\ UNCHANGED <<mode, stream, library, client>>

(* A stream that the client has ended is ended by the server; it may also break. *)
closeStream ==
  /\ stream # "closed" /\ stream' = "closed"
  /\ UNCHANGED <<mode, sent, incoming, library, client>>

(* A Read completes with a message, or without one when the stream is over. *)
completeRead ==
  /\ reading /\ (incoming # <<>> \/ stream = "closed")
  /\ reading' = FALSE
  /\ cq_' = Append(cq_, Tag("read", incoming # <<>>))
  /\ IF incoming # <<>>
     THEN /\ reply' = Head(incoming) /\ incoming' = Tail(incoming)
          /\ batches' = IF reply' = <<>> THEN batches ELSE Append(batches, reply')
     ELSE UNCHANGED <<reply, incoming, batches>>
  /\ UNCHANGED <<mode, sent, stream, finishing, client>>

completeWritesDone ==
  /\ finishing = "pending" /\ finishing' = "done"
  /\ cq_' = Append(cq_, Tag("writes done", stream = "open"))
  /\ stream' = IF stream = "open" THEN "half" ELSE stream
  /\ UNCHANGED <<mode, sent, incoming, reading, reply, batches, client>>

(* WritesDone may be called once; the library aborts on a second call. *)
WritesDone == /\ finishing' = IF finishing = "no" THEN "pending" ELSE finishing
              /\ loop' = IF finishing = "no" THEN loop ELSE "aborted"

-----------------------------------------------------------------------------
(* AsyncWatchResponse::ParseResponse: the first event, if there is any. *)
AsyncWatchResponse(events) == IF events = <<>> THEN <<>> ELSE <<events[1]>>

(* ParseResponse of the action: what the reply holds now. *)
ParseResponse == AsyncWatchResponse(reply)

(* Mutation: read is called again before the reply has been parsed. *)
waitForResponse_ReadFirst ==
  /\ mode = "once" /\ loop = "waiting" /\ cq_ # <<>>
  /\ cq_' = Tail(cq_)
  /\ LET got == Head(cq_)
     IN CASE ~got.ok \/ got.tag = "writes done" ->
               loop' = "returned" /\ seen' = ParseResponse /\ UNCHANGED <<reading, finishing>>
          [] got.ok /\ got.tag = "read" /\ reply # <<>> ->
               WritesDone /\ reading' = TRUE /\ UNCHANGED seen
          [] got.ok /\ got.tag = "read" /\ reply = <<>> ->
               reading' = TRUE /\ UNCHANGED <<loop, seen, finishing>>
          [] OTHER -> UNCHANGED <<reading, loop, seen, finishing>>
  /\ UNCHANGED <<server, reply, batches, isCancelled, cancels>>

(* waitForResponse() takes one completion: it reads until there are events,    *)
(* then ends the stream, and returns when that is done or anything fails.      *)
waitForResponse ==
  /\ mode = "once" /\ loop = "waiting" /\ cq_ # <<>>
  /\ cq_' = Tail(cq_)
  /\ LET got == Head(cq_)
     IN CASE ~got.ok \/ got.tag = "writes done" ->
               loop' = "returned" /\ seen' = ParseResponse /\ UNCHANGED <<reading, finishing>>
          [] got.ok /\ got.tag = "read" /\ reply # <<>> ->
               WritesDone /\ UNCHANGED <<reading, seen>>
          [] got.ok /\ got.tag = "read" /\ reply = <<>> ->
               reading' = TRUE /\ UNCHANGED <<loop, seen, finishing>>
          [] OTHER -> UNCHANGED <<reading, loop, seen, finishing>>
  /\ UNCHANGED <<server, reply, batches, isCancelled, cancels>>

(* Mutation: a reply without events ends the reading. *)
waitForResponseCallback_NoRead ==
  /\ mode = "callback" /\ loop = "waiting" /\ cq_ # <<>>
  /\ cq_' = Tail(cq_)
  /\ LET got == Head(cq_)
     IN /\ loop' = IF got.ok THEN loop ELSE "returned"
        /\ isCancelled' = (isCancelled \/ (got.ok /\ got.tag = "writes done"))
        /\ seen' = IF got.ok /\ got.tag = "read" THEN seen \o ParseResponse ELSE seen
        /\ reading' = (reading \/ (got.ok /\ got.tag = "read" /\ reply # <<>>))
  /\ UNCHANGED <<server, finishing, reply, batches, cancels>>

(* waitForResponse(callback) takes one completion: it reports and reads on     *)
(* until anything fails, also after WritesDone.                                *)
waitForResponseCallback ==
  /\ mode = "callback" /\ loop = "waiting" /\ cq_ # <<>>
  /\ cq_' = Tail(cq_)
  /\ LET got == Head(cq_)
     IN /\ loop' = IF got.ok THEN loop ELSE "returned"
        /\ isCancelled' = (isCancelled \/ (got.ok /\ got.tag = "writes done"))
        /\ seen' = IF got.ok /\ got.tag = "read" THEN seen \o ParseResponse ELSE seen
        /\ reading' = (reading \/ (got.ok /\ got.tag = "read"))
  /\ UNCHANGED <<server, finishing, reply, batches, cancels>>

(* Called by another thread, also after the loop has returned. *)
CancelWatch ==
  /\ loop # "aborted" /\ cancels < MaxCancels /\ cancels' = cancels + 1
  /\ IF isCancelled THEN UNCHANGED <<finishing, loop>> ELSE WritesDone
  /\ UNCHANGED <<server, cq_, reading, reply, batches, isCancelled, seen>>

Next == send \/ closeStream \/ completeRead \/ completeWritesDone
        \/ waitForResponse \/ waitForResponseCallback \/ CancelWatch

(* The library completes operations, the thread takes completions, and the     *)
(* server ends a stream that the client has ended.                             *)
Fairness ==
  /\ WF_vars(completeRead) /\ WF_vars(completeWritesDone)
  /\ WF_vars(waitForResponse) /\ WF_vars(waitForResponseCallback)
  /\ WF_vars(closeStream /\ stream = "half")

Spec == Init /\ [][Next]_vars /\ Fairness

-----------------------------------------------------------------------------
TypeOK ==
  /\ sent \in -1..MaxEvents /\ cancels \in 0..MaxCancels
  /\ stream \in {"open", "half", "closed"} /\ finishing \in {"no", "pending", "done"}
  /\ loop \in {"waiting", "returned", "aborted"} /\ isCancelled \in BOOLEAN

(* The reply is not written while it may be read: while the loop has a         *)
(* completed Read to look at, or a reply with events to parse at the end, no   *)
(* other Read is outstanding.                                                  *)
ReplyIsStable ==
  loop = "waiting" => ~(reading /\ (\/ \E i \in DOMAIN cq_ : cq_[i].tag = "read"
                                    \/ (mode = "once" /\ reply # <<>>)))

(* With a callback, the first event of each message is reported once and in    *)
(* the order in which they were sent; without one, the first event since the   *)
(* watch began.                                                                *)
ReportsEveryBatch ==
  /\ mode = "callback" =>
       /\ IsPrefix(seen, [i \in DOMAIN batches |-> batches[i][1]])
       /\ Len(seen) + 1 >= Len(batches)
  /\ (mode = "once" /\ seen # <<>>) => seen = <<1>>

(* Cancelling a watch again once its end has been seen does nothing. *)
CancelAgainIsSafe ==
  [][isCancelled => loop' # "aborted"]_vars

(* A cancelled watch comes to an end, whatever events still arrive. *)
CancelEnds == (cancels > 0) ~> (loop # "waiting")
=============================================================================
