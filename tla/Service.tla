------------------------------- MODULE Service ------------------------------
(* service: requests through ExpiringFilter and CloseOnReleaseFilter to a      *)
(* client dispatcher, over a connection to a server dispatcher and its service *)
(* (behind an ExecutorFilter), and the responses back.  The timers of the      *)
(* ExpiringFilter fire on the thread of the timekeeper.                        *)
EXTENDS Naturals, Sequences, SequencesExt, FiniteSets, FiniteSetsExt

CONSTANTS
  MaxReqs,  \* requests
  IdMod,    \* the server's request ids are counted modulo IdMod (2^32 in the code)
  Kinds     \* <<client dispatcher, server dispatcher>> pairs that may be combined

VARIABLES
  kind,
  fut,      \* per request, what its future holds: a response, or a state
  p_,       \* promises of the client dispatcher, oldest first
  toServer, toClient,  \* the connection
  work,     \* <<id, request>> the service has not answered yet
  requestId_, lastWrittenId_, responses_,  \* PipelinedServerDispatcher
  requests_, idleTimeout_, maxTimeout_,    \* ExpiringFilter
  released, \* CloseOnReleaseFilter
  closes    \* close() calls that reached the client dispatcher

vars == <<kind, fut, p_, toServer, toClient, work, requestId_, lastWrittenId_, responses_,
          requests_, idleTimeout_, maxTimeout_, released, closes>>

Reqs == 1..MaxReqs
Unsent == 0                   \* the states of a future, beside the responses
Pending == MaxReqs + 1
ServiceClosed == MaxReqs + 2
Client == kind[1]
Server == kind[2]

server == <<work, requestId_, lastWrittenId_, responses_>>
filters == <<requests_, idleTimeout_, maxTimeout_, released, closes>>

(* startIdleTimer() with n requests left. *)
startIdleTimer(n) == IF n # 0 THEN idleTimeout_ ELSE "running"

(* operator() cancels a timer that has not fired; one that has is past that. *)
cancelIdle == IF idleTimeout_ = "running" THEN "none" ELSE idleTimeout_

-----------------------------------------------------------------------------
(* ExpiringFilter::operator(), CloseOnReleaseFilter::operator() and operator() *)
(* of the client dispatcher; a serial dispatcher is called with one request at *)
(* a time (CHECK(!p_)).  A released service fails the request at once, and the *)
(* filter's ensure() counts it down again.                                     *)
call(r) ==
  /\ fut[r] = Unsent /\ r - 1 \in {0} \cup {s \in Reqs : fut[s] # Unsent}
  /\ Client = "serial" => p_ = <<>>
  /\ IF released
     THEN /\ fut' = [fut EXCEPT ![r] = ServiceClosed]
          /\ idleTimeout_' = IF requests_ = 0 THEN "running" ELSE cancelIdle
          /\ UNCHANGED <<p_, toServer, requests_>>
     ELSE /\ fut' = [fut EXCEPT ![r] = Pending]
          /\ p_' = Append(p_, r)
          /\ toServer' = Append(toServer, r)
          /\ requests_' = requests_ + 1
          /\ idleTimeout_' = cancelIdle
  /\ UNCHANGED <<kind, toClient, server, maxTimeout_, released, closes>>

(* Mutation: the newest promise is served first. *)
clientRead_Newest ==
  /\ toClient # <<>>
  /\ toClient' = Tail(toClient)
  /\ p_' = Front(p_)
  /\ fut' = [fut EXCEPT ![Last(p_)] = Head(toClient)]
  /\ requests_' = requests_ - 1
  /\ idleTimeout_' = startIdleTimer(requests_ - 1)
  /\ UNCHANGED <<kind, toServer, server, maxTimeout_, released, closes>>

(* read() of the client dispatcher: the oldest promise gets the response, and  *)
(* the filter's ensure() runs.                                                 *)
clientRead ==
  /\ toClient # <<>>
  /\ toClient' = Tail(toClient)
  /\ p_' = Tail(p_)
  /\ fut' = [fut EXCEPT ![Head(p_)] = Head(toClient)]
  /\ requests_' = requests_ - 1
  /\ idleTimeout_' = startIdleTimer(requests_ - 1)
  /\ UNCHANGED <<kind, toServer, server, maxTimeout_, released, closes>>

-----------------------------------------------------------------------------
(* ExecutorFilter::operator(): the service works on r elsewhere. *)
execute(id, r) == work' = work \cup {<<id, r>>}

(* read() of the server dispatcher.  The serial one waits for the service, the *)
(* others hand the request over and return.                                    *)
serverRead ==
  LET r == Head(toServer) IN
  /\ toServer # <<>>
  /\ toServer' = Tail(toServer)
  /\ IF Server = "serial"
     THEN toClient' = Append(toClient, r) /\ UNCHANGED server
     ELSE /\ execute(requestId_, r)
          /\ requestId_' = (requestId_ + 1) % IdMod
          /\ UNCHANGED <<lastWrittenId_, responses_, toClient>>
  /\ UNCHANGED <<kind, fut, p_, filters>>

(* sendResponses(): the responses that continue the last one written, in order.*)
sendResponses(resps) ==
  LET id(k) == (lastWrittenId_ + k) % IdMod
      ready == {n \in 0..Cardinality(resps) :
                  \A k \in 1..n : \E x \in resps : x[1] = id(k)}
      run == Max(ready)
      resp(k) == (CHOOSE x \in resps : x[1] = id(k))[2]
  IN /\ responses_' = {x \in resps : \A k \in 1..run : x[1] # id(k)}
     /\ toClient' = toClient \o [k \in 1..run |-> resp(k)]
     /\ lastWrittenId_' = id(run)

(* The service answers a request, in any order, on its executor's thread and   *)
(* back on the connection's: the response is kept for its turn, or written.    *)
serviceAnswers(x) ==
  /\ x \in work
  /\ work' = work \ {x}
  /\ IF Server = "pipelined"
     THEN sendResponses(responses_ \cup {x})
     ELSE /\ toClient' = Append(toClient, x[2])
          /\ UNCHANGED <<responses_, lastWrittenId_>>
  /\ UNCHANGED <<kind, fut, p_, toServer, requestId_, filters>>

-----------------------------------------------------------------------------
(* The dispatcher's close ends the connection and what was on its way. *)
connectionEnds ==
  /\ toServer' = <<>> /\ toClient' = <<>>
  /\ work' = {} /\ responses_' = {}
  /\ UNCHANGED <<requestId_, lastWrittenId_>>

(* CloseOnReleaseFilter::close(): the first one closes the dispatcher. *)
close ==
  /\ released' = TRUE
  /\ IF released THEN UNCHANGED <<closes, toServer, toClient, server>>
     ELSE closes' = closes + 1 /\ connectionEnds

(* The idle timer expires on the timekeeper's thread ...                       *)
idleExpires ==
  /\ idleTimeout_ = "running"
  /\ idleTimeout_' = "expired"
  /\ UNCHANGED <<kind, fut, p_, toServer, toClient, server, requests_, maxTimeout_, released,
                 closes>>

(* ... and then closes the service, whatever was called in between.            *)
idleCloses ==
  /\ idleTimeout_ = "expired"
  /\ idleTimeout_' = "none"
  /\ close
  /\ UNCHANGED <<kind, fut, p_, requests_, maxTimeout_>>

maxCloses ==
  /\ maxTimeout_ = "running"
  /\ maxTimeout_' = "none"
  /\ close
  /\ UNCHANGED <<kind, fut, p_, requests_, idleTimeout_>>

(* The user closes the service. *)
userCloses ==
  /\ ~released /\ close
  /\ UNCHANGED <<kind, fut, p_, requests_, idleTimeout_,
                 maxTimeout_>>

-----------------------------------------------------------------------------
Init ==
  /\ kind \in Kinds
  /\ fut = [r \in Reqs |-> Unsent]
  /\ p_ = <<>> /\ toServer = <<>> /\ toClient = <<>>
  /\ work = {} /\ requestId_ = 1 /\ lastWrittenId_ = 0 /\ responses_ = {}
  /\ requests_ = 0 /\ idleTimeout_ = "running" /\ maxTimeout_ \in {"none", "running"}
  /\ released = FALSE /\ closes = 0

Next ==
  \/ \E r \in Reqs : call(r)
  \/ clientRead \/ serverRead \/ \E x \in work : serviceAnswers(x)
  \/ idleExpires \/ idleCloses \/ maxCloses \/ userCloses

(* The service answers, the connection delivers, timers expire. *)
Fairness ==
  /\ WF_vars(clientRead) /\ WF_vars(serverRead)
  /\ WF_vars(\E x \in work : serviceAnswers(x))
  /\ WF_vars(idleExpires) /\ WF_vars(idleCloses)

Spec == Init /\ [][Next]_vars /\ Fairness

-----------------------------------------------------------------------------
TypeOK ==
  /\ kind \in Kinds
  /\ \A r \in Reqs : fut[r] \in 0..(MaxReqs + 2)
  /\ {p_, toServer, toClient} \subseteq Seq(Reqs)
  /\ {work, responses_} \subseteq SUBSET ((0..(IdMod - 1)) \X Reqs)
  /\ {requestId_, lastWrittenId_} \subseteq 0..(IdMod - 1) /\ {requests_, closes} \subseteq Nat
  /\ idleTimeout_ \in {"none", "running", "expired"} /\ maxTimeout_ \in {"none", "running"}

(* A future holds the response to its own request: the dispatchers on the two  *)
(* ends restore the order that the service's completions and the wrapping ids  *)
(* could upset.                                                                *)
RightResponse == \A r \in Reqs : fut[r] \notin {Unsent, Pending, ServiceClosed} => fut[r] = r

(* The filter counts the requests under way, and its idle timer runs only when *)
(* there is none.                                                              *)
IdleMeansIdle ==
  /\ requests_ = Cardinality({r \in Reqs : fut[r] = Pending})
  /\ idleTimeout_ = "running" => requests_ = 0

(* The two timers and the user close the service once between them. *)
ClosedOnce == closes <= 1

(* After a close, whoever asked for it, no request reaches the dispatcher. *)
NoCallAfterClose == [][released => Len(p_') <= Len(p_)]_vars

(* Every request that reached the dispatcher is answered, unless the service   *)
(* is closed meanwhile.                                                        *)
RequestsAnswered == \A r \in Reqs : fut[r] = Pending ~> (fut[r] # Pending \/ released)

(* A service nobody calls closes: the idle timer is armed again after the last *)
(* request of a burst.                                                         *)
IdleServiceCloses == (requests_ = 0) ~> (released \/ requests_ > 0)
=============================================================================
