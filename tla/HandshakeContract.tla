------------------------- MODULE HandshakeContract -------------------------
(***************************************************************************)
(* What wangle::Acceptor relies on in an AcceptorHandshakeHelper: each     *)
(* handshake it starts calls back exactly once, with connectionReady or    *)
(* with connectionError, however the handshake, a timeout and a drop race. *)
(***************************************************************************)
CONSTANT Conn

VARIABLE outcome  \* per connection: not started, pending, ready or error

Outcomes == {"none", "pending", "ready", "error"}

Init == outcome = [c \in Conn |-> "none"]

Start(c) ==
  /\ outcome[c] = "none"
  /\ outcome' = [outcome EXCEPT ![c] = "pending"]

Finish(c) ==
  /\ outcome[c] = "pending"
  /\ \E result \in {"ready", "error"} : outcome' = [outcome EXCEPT ![c] = result]

Next == \E c \in Conn : Start(c) \/ Finish(c)

Spec ==
  /\ Init
  /\ [][Next]_outcome
  /\ \A c \in Conn : WF_outcome(Finish(c))
=============================================================================
