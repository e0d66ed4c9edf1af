----------------------------- MODULE FileRegion -----------------------------
(* channel/FileRegion: a file sent to a socket through a pipe.  The socket's   *)
(* event loop writes pipe to socket, a thread of the read pool fills the pipe  *)
(* and tells the socket's loop how much it put in through a queue of counts.   *)
EXTENDS Naturals, Sequences, SequencesExt

CONSTANTS
  Count,      \* count_: bytes to send
  FileSizes,  \* bytes the file may hold from offset_ on
  PipeCap     \* capacity of the pipe

VARIABLES
  file,         \* bytes of the file not yet read
  bytesToRead_, \* of the FileReadHandler
  pipe,         \* bytes in the pipe
  queue_,       \* counts put and not yet taken by the socket's loop
  bytesInPipe_, \* what the socket's loop believes the pipe holds
  written,      \* totalBytesWritten_
  behind,       \* an earlier write request is ahead of this one
  started_,
  armed,        \* the socket waits for a writable event
  readLoop,     \* tasks posted to readBase_
  reader,       \* "idle", or the task of the socket's loop the read thread awaits
  handler,      \* readHandler_ exists and is registered
  socketLoop,   \* tasks posted to the socket's loop
  future,       \* what transferTo() returned
  alive         \* the request has not been deleted

vars == <<file, bytesToRead_, pipe, queue_, bytesInPipe_, written, behind, started_,
          armed, readLoop, reader, handler, socketLoop, future, alive>>

readSide == <<file, bytesToRead_, pipe, reader, handler, alive>>
Pending == future = "pending"

(* start(): the reader's set-up is posted to a loop of the read pool. *)
start ==
  /\ started_' = TRUE
  /\ readLoop' = Append(readLoop, "start")

(* Settling the callback, then destroy(): the request is deleted on readBase_. *)
settle(result) ==
  /\ future' = result
  /\ readLoop' = Append(readLoop, "delete")

isComplete(w) == w = Count

(* AsyncSocket::handleWrite at this request: performWrite() splices n of the   *)
(* inPipe bytes it knows of (0: EAGAIN); a partial write waits for the socket  *)
(* to become writable; a complete one settles.                                 *)
performWrite(inPipe, n) ==
  /\ n \in 0..inPipe
  /\ bytesInPipe_' = inPipe - n
  /\ pipe' = pipe - n
  /\ written' = written + n
  /\ IF isComplete(written + n)
     THEN settle("ok") /\ armed' = FALSE
     ELSE armed' = TRUE /\ UNCHANGED <<future, readLoop>>

-----------------------------------------------------------------------------
(* The requests ahead are written; handleWrite reaches this one, whose first   *)
(* performWrite() only starts it.                                              *)
reachHead ==
  /\ behind /\ Pending
  /\ behind' = FALSE
  /\ start
  /\ armed' = TRUE
  /\ UNCHANGED <<readSide, queue_, bytesInPipe_, written, socketLoop, future>>

(* The socket is writable. *)
socketWritable(n) ==
  /\ armed /\ Pending
  /\ performWrite(bytesInPipe_, n)
  /\ UNCHANGED <<file, bytesToRead_, reader, handler, alive, queue_, behind, started_,
                 socketLoop>>

(* Mutation: messageAvailable tests whether the pipe is empty after adding the count. *)
messageAvailable_TestAfter(n) ==
  /\ queue_ # <<>> /\ "consuming" \in handler /\ alive
  /\ queue_' = Tail(queue_)
  /\ bytesInPipe_' = bytesInPipe_ + Head(queue_)
  /\ UNCHANGED <<readSide, written, behind, started_, armed, readLoop, socketLoop, future>>
  /\ n = 0

(* messageAvailable of the queue's consumer: more bytes are in the pipe; if it *)
(* was empty the socket is written to at once.                                 *)
messageAvailable(n) ==
  /\ queue_ # <<>> /\ "consuming" \in handler /\ alive
  /\ queue_' = Tail(queue_)
  /\ IF bytesInPipe_ = 0 /\ Pending
     THEN performWrite(Head(queue_), n)
     ELSE /\ n = 0
          /\ bytesInPipe_' = bytesInPipe_ + Head(queue_)
          /\ UNCHANGED <<pipe, written, armed, readLoop, future>>
  /\ UNCHANGED <<file, bytesToRead_, reader, handler, alive, behind, started_, socketLoop>>

(* A write fails or the socket is closed under a started request. *)
socketFails ==
  /\ Pending /\ started_
  /\ settle("error")
  /\ armed' = FALSE
  /\ UNCHANGED <<readSide, queue_, bytesInPipe_, written, behind, started_, socketLoop>>

(* The socket's loop runs a task: startConsuming, stopConsuming (each with the *)
(* read thread waiting), or WriteRequest::fail.                                *)
runSocketTask ==
  LET task == Head(socketLoop) IN
  /\ socketLoop # <<>>
  /\ socketLoop' = Tail(socketLoop)
  /\ CASE task = "startConsuming" ->
            /\ handler' = {"consuming", "registered"}
            /\ reader' = "idle"
            /\ UNCHANGED <<alive, future, readLoop, armed>>
       [] task = "stopConsuming" ->
            /\ handler' = {} /\ alive' = FALSE
            /\ reader' = "idle"
            /\ UNCHANGED <<future, readLoop, armed>>
       [] task = "fail" ->
            /\ IF Pending THEN settle("error") /\ armed' = FALSE
               ELSE UNCHANGED <<future, readLoop, armed>>
            /\ UNCHANGED <<handler, alive, reader>>
  /\ UNCHANGED <<file, bytesToRead_, pipe, queue_, bytesInPipe_, written, behind, started_>>

-----------------------------------------------------------------------------
(* Mutation: the destructor does not wait for the socket's loop. *)
runReadTask_NoWait(ok) ==
  LET task == Head(readLoop) IN
  /\ readLoop # <<>> /\ reader = "idle"
  /\ readLoop' = Tail(readLoop)
  /\ CASE task = "start" /\ ok ->
            /\ reader' = "startConsuming"
            /\ socketLoop' = Append(socketLoop, "startConsuming")
            /\ UNCHANGED <<alive, handler>>
       [] task = "start" /\ ~ok ->
            /\ socketLoop' = Append(socketLoop, "fail")
            /\ UNCHANGED <<reader, alive, handler>>
       [] task = "delete" ->
            /\ alive' = FALSE /\ handler' = {}
            /\ UNCHANGED <<reader, socketLoop>>
  /\ UNCHANGED <<file, bytesToRead_, pipe, queue_, bytesInPipe_, written, behind,
                 started_, armed, future>>

(* The read thread runs a task: the set-up, which finds the file unreadable or *)
(* no pipe to be had (~ok), or waits for the socket's loop to start consuming; *)
(* or the destructor, which waits for it to stop.                              *)
runReadTask(ok) ==
  LET task == Head(readLoop) IN
  /\ readLoop # <<>> /\ reader = "idle"
  /\ readLoop' = Tail(readLoop)
  /\ CASE task = "start" /\ ok ->
            /\ reader' = "startConsuming"
            /\ socketLoop' = Append(socketLoop, "startConsuming")
       [] task = "start" /\ ~ok ->
            /\ socketLoop' = Append(socketLoop, "fail")
            /\ UNCHANGED reader
       [] task = "delete" ->
            /\ reader' = "stopConsuming"
            /\ socketLoop' = Append(socketLoop, "stopConsuming")
  /\ UNCHANGED <<file, bytesToRead_, pipe, queue_, bytesInPipe_, written, behind,
                 started_, armed, handler, future, alive>>

(* FileReadHandler::handlerReady: the pipe has room; n bytes are spliced into  *)
(* it and announced.  At the end of a file that is too short splice() gives 0  *)
(* and the handler stays registered: a step that changes nothing.              *)
handlerReady(n) ==
  /\ "registered" \in handler /\ reader = "idle" /\ alive
  /\ n \in 1..PipeCap
  /\ n <= bytesToRead_ /\ n <= file /\ n <= PipeCap - pipe
  /\ file' = file - n
  /\ pipe' = pipe + n
  /\ bytesToRead_' = bytesToRead_ - n
  /\ queue_' = Append(queue_, n)
  /\ UNCHANGED <<bytesInPipe_, written, behind, started_, armed, readLoop, reader, handler,
                 socketLoop, future, alive>>

(* bytesToRead_ is zero. *)
readAll ==
  /\ "registered" \in handler /\ reader = "idle" /\ bytesToRead_ = 0
  /\ handler' = handler \ {"registered"}
  /\ UNCHANGED <<file, bytesToRead_, pipe, reader, alive, queue_, bytesInPipe_, written,
                 behind, started_, armed, readLoop, socketLoop, future>>

(* splice() or putMessage() fails.  The handler stays registered and may fail  *)
(* again; a fail already posted stands for the ones after it.                  *)
readFails ==
  /\ "registered" \in handler /\ reader = "idle" /\ bytesToRead_ > 0
  /\ ~Contains(socketLoop, "fail")
  /\ socketLoop' = Append(socketLoop, "fail")
  /\ UNCHANGED <<readSide, queue_, bytesInPipe_, written, behind, started_, armed, readLoop,
                 future>>

-----------------------------------------------------------------------------
(* transferTo(): AsyncSocket::writeRequest starts a request that is the first, *)
(* and queues it otherwise.                                                    *)
Init ==
  /\ file \in FileSizes /\ bytesToRead_ = Count
  /\ pipe = 0 /\ queue_ = <<>> /\ bytesInPipe_ = 0 /\ written = 0
  /\ behind \in BOOLEAN /\ started_ = ~behind /\ armed = FALSE
  /\ readLoop = (IF behind THEN <<>> ELSE <<"start">>)
  /\ reader = "idle" /\ handler = {} /\ socketLoop = <<>>
  /\ future = "pending" /\ alive = TRUE

Next ==
  \/ reachHead \/ socketFails \/ runSocketTask \/ readAll \/ readFails
  \/ \E n \in 0..PipeCap : socketWritable(n) \/ messageAvailable(n) \/ handlerReady(n)
  \/ \E ok \in BOOLEAN : runReadTask(ok)

(* Both threads run; a socket with bytes to send takes some of them.           *)
Fairness ==
  /\ WF_vars(reachHead) /\ WF_vars(runSocketTask)
  /\ WF_vars(\E n \in 1..PipeCap : socketWritable(n))
  /\ WF_vars(\E n \in 0..PipeCap : messageAvailable(n))
  /\ WF_vars(\E ok \in BOOLEAN : runReadTask(ok))
  /\ WF_vars(\E n \in 1..PipeCap : handlerReady(n))

Spec == Init /\ [][Next]_vars /\ Fairness

-----------------------------------------------------------------------------
TypeOK ==
  /\ {file, bytesToRead_, pipe, bytesInPipe_, written} \subseteq Nat
  /\ queue_ \in Seq(Nat) /\ handler \subseteq {"consuming", "registered"}
  /\ {behind, started_, armed, alive} \subseteq BOOLEAN
  /\ reader \in {"idle", "startConsuming", "stopConsuming"}
  /\ readLoop \in Seq({"start", "delete"})
  /\ socketLoop \in Seq({"startConsuming", "stopConsuming", "fail"})
  /\ future \in {"pending", "ok", "error"}

(* What the socket's loop counts and what is announced to it is what the pipe  *)
(* holds, and every byte of the region is in one place: in the file, the pipe  *)
(* or the socket.                                                              *)
BytesConserved ==
  /\ bytesInPipe_ + FoldSeq(LAMBDA n, sum : n + sum, 0, queue_) = pipe
  /\ bytesToRead_ + pipe + written = Count
  /\ future = "ok" => written = Count

(* While a task or a count for the request is posted, the request exists: the  *)
(* destructor waits on the socket's loop behind everything posted before it.   *)
NoUseAfterDelete == ~alive => readLoop = <<>> /\ socketLoop = <<>> /\ handler = {}

(* A transfer of a region the file really holds settles, and the request is    *)
(* deleted: no wakeup of the socket is lost and the two loops never wait for   *)
(* each other.                                                                 *)
TransferSettles == (file >= bytesToRead_) ~> (~Pending /\ ~alive)
=============================================================================
