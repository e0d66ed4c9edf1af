---------------------------- MODULE AcceptRouting ---------------------------
(* bootstrap/AcceptRoutingHandler and RoutingDataHandler: a connection is read *)
(* on the worker that accepted it until its routing data is parsed, then moves *)
(* with the bytes read so far to the worker its routing data hashes to.        *)
EXTENDS Naturals, Sequences, SequencesExt, FiniteSets

CONSTANTS
  Conns, Workers,  \* connections; IO workers 1..N
  RoutingData,     \* what connections are hashed by: naturals, the hash of each
  HeaderLen,       \* bytes parseRoutingData needs
  Total            \* bytes each client sends

VARIABLES
  workers,         \* size of the pool: workers 1..workers exist
  acceptors_,      \* per worker's handler, its snapshot of the pool's acceptors
  routingPipelines_, \* per worker's handler, the connections it has a pipeline for
  loop,            \* per worker, connections whose move was posted to its loop
  conn             \* per connection: where it is, what was read and passed on

vars == <<workers, acceptors_, routingPipelines_, loop, conn>>

N == Cardinality(Workers)
Fresh(r) == [st |-> "new", at |-> 0, from |-> 0, data |-> r, buf |-> <<>>, taken |-> 0, got |-> <<>>]

(* The next n bytes of c's stream, by position. *)
Bytes(c, n) == [i \in 1..n |-> conn[c].taken + i]

(* populateAcceptors: the workers there are at the first connection. *)
populateAcceptors(w) ==
  IF acceptors_[w] # <<>> THEN acceptors_[w] ELSE [i \in 1..workers |-> i]

(* AcceptRoutingHandler::read: a routing pipeline for the new connection; it   *)
(* is dropped, with the socket, if the addresses cannot be had any more.       *)
read(c, w, valid) ==
  /\ conn[c].st = "new" /\ w <= workers
  /\ acceptors_' = [acceptors_ EXCEPT ![w] = populateAcceptors(w)]
  /\ IF valid
     THEN /\ conn' = [conn EXCEPT ![c].st = "routing", ![c].at = w, ![c].from = w]
          /\ routingPipelines_' = [routingPipelines_ EXCEPT ![w] = @ \cup {c}]
     ELSE /\ conn' = [conn EXCEPT ![c].st = "closed"]
          /\ UNCHANGED routingPipelines_
  /\ UNCHANGED <<workers, loop>>

(* acceptors_[hash % acceptors_.size()] *)
worker(c) == LET a == acceptors_[conn[c].at] IN a[(conn[c].data % Len(a)) + 1]

(* Mutation: the bytes behind the routing data are left in the routing pipeline. *)
onRoutingData_DropRest(c, q) ==
  LET w == conn[c].at IN
  /\ routingPipelines_' = [routingPipelines_ EXCEPT ![w] = @ \ {c}]
  /\ conn' = [conn EXCEPT ![c].st = "moving", ![c].at = worker(c), ![c].buf = <<>>,
                          ![c].taken = Len(q)]
  /\ loop' = [loop EXCEPT ![worker(c)] = Append(@, c)]

(* onRoutingData: the pipeline leaves the map, reading stops, the socket is    *)
(* detached and the rest is posted to the chosen worker, which may be this one.*)
onRoutingData(c, q) ==
  LET w == conn[c].at IN
  /\ routingPipelines_' = [routingPipelines_ EXCEPT ![w] = @ \ {c}]
  /\ conn' = [conn EXCEPT ![c].st = "moving", ![c].at = worker(c),
                          ![c].buf = SubSeq(q, HeaderLen + 1, Len(q)), ![c].taken = Len(q)]
  /\ loop' = [loop EXCEPT ![worker(c)] = Append(@, c)]

(* RoutingDataHandler::read of n more bytes: not enough to parse, or parsed.   *)
routingRead(c, n) ==
  LET q == conn[c].buf \o Bytes(c, n) IN
  /\ conn[c].st = "routing" /\ conn[c].taken + n <= Total
  /\ IF Len(q) < HeaderLen
     THEN /\ conn' = [conn EXCEPT ![c].buf = q, ![c].taken = @ + n]
          /\ UNCHANGED <<routingPipelines_, loop>>
     ELSE onRoutingData(c, q)
  /\ UNCHANGED <<workers, acceptors_>>

(* readEOF or readException before the routing data is complete: onError       *)
(* deletes the routing pipeline and with it the socket.                        *)
onError(c) ==
  /\ conn[c].st = "routing"
  /\ conn' = [conn EXCEPT ![c].st = "closed"]
  /\ routingPipelines_' = [routingPipelines_ EXCEPT ![conn[c].at] = @ \ {c}]
  /\ UNCHANGED <<workers, acceptors_, loop>>

(* The lambda of onRoutingData on the chosen worker: the socket is attached,   *)
(* the child pipeline made and added, and the bytes read so far go in first.   *)
attach(w) ==
  LET c == Head(loop[w]) IN
  /\ loop[w] # <<>>
  /\ loop' = [loop EXCEPT ![w] = Tail(@)]
  /\ conn' = [conn EXCEPT ![c].st = "child", ![c].got = conn[c].buf, ![c].buf = <<>>]
  /\ UNCHANGED <<workers, acceptors_, routingPipelines_>>

(* The child pipeline reads on from the socket, or its connection ends. *)
childRead(c, n) ==
  /\ conn[c].st = "child" /\ conn[c].taken + n <= Total
  /\ conn' = [conn EXCEPT ![c].got = @ \o Bytes(c, n), ![c].taken = @ + n]
  /\ UNCHANGED <<workers, acceptors_, routingPipelines_, loop>>

childEnd(c) ==
  /\ conn[c].st = "child"
  /\ conn' = [conn EXCEPT ![c].st = "closed"]
  /\ UNCHANGED <<workers, acceptors_, routingPipelines_, loop>>

(* The IO pool gets another thread; snapshots already taken do not change. *)
grow ==
  /\ workers < N
  /\ workers' = workers + 1
  /\ UNCHANGED <<acceptors_, routingPipelines_, loop, conn>>

Init ==
  /\ workers \in 1..N
  /\ acceptors_ = [w \in Workers |-> <<>>]
  /\ routingPipelines_ = [w \in Workers |-> {}]
  /\ loop = [w \in Workers |-> <<>>]
  /\ conn \in [Conns -> {Fresh(r) : r \in RoutingData}]

Next ==
  \/ \E c \in Conns :
       \/ \E w \in Workers, valid \in BOOLEAN : read(c, w, valid)
       \/ \E n \in 1..Total : routingRead(c, n) \/ childRead(c, n)
       \/ onError(c) \/ childEnd(c)
  \/ \E w \in Workers : attach(w)
  \/ grow

(* The loops run; clients may leave a routing pipeline waiting for good. *)
Fairness == \A w \in Workers : WF_vars(attach(w))

Spec == Init /\ [][Next]_vars /\ Fairness

-----------------------------------------------------------------------------
TypeOK ==
  /\ workers \in 1..N
  /\ acceptors_ \in [Workers -> Seq(Workers)]
  /\ routingPipelines_ \in [Workers -> SUBSET Conns]
  /\ loop \in [Workers -> Seq(Conns)]
  /\ conn \in [Conns -> [st : {"new", "routing", "moving", "child", "closed"},
                         at : 0..N, from : 0..N, data : RoutingData, buf : Seq(1..Total),
                         taken : 0..Total, got : Seq(1..Total)]]

(* At any time one worker at most has a connection: its routing pipeline, the  *)
(* posted move, or the child pipeline, and never two of them.                  *)
OneOwner ==
  \A c \in Conns : \A w \in Workers :
    /\ c \in routingPipelines_[w] <=> conn[c].st = "routing" /\ conn[c].at = w
    /\ Contains(loop[w], c) <=> conn[c].st = "moving" /\ conn[c].at = w

(* The child pipeline gets the client's bytes behind the routing data, all and *)
(* in order, wherever the reads were cut.                                      *)
BytesInOrder ==
  \A c \in Conns : conn[c].st = "child" =>
    conn[c].got = [i \in 1..(conn[c].taken - HeaderLen) |-> HeaderLen + i]

(* "the ability to hash connections to a specific worker thread": connections  *)
(* with the same routing data meet on the same worker, whoever accepted them,  *)
(* if the accepting handlers took their snapshots of a pool of the same size.  *)
SameDataSameWorker ==
  \A c, d \in Conns :
    /\ conn[c].st = "child" /\ conn[d].st = "child" /\ conn[c].data = conn[d].data
    /\ acceptors_[conn[c].from] = acceptors_[conn[d].from]
    => conn[c].at = conn[d].at

(* A connection whose routing data was parsed, and which no thread owns until  *)
(* the posted lambda runs, reaches a child pipeline.                           *)
RoutedArrives == \A c \in Conns : conn[c].st = "moving" ~> conn[c].st = "child"
=============================================================================
