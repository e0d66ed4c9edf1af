-------------------------- MODULE PeekingHandshake --------------------------
(* acceptor/PeekingAcceptorHandshakeHelper with its SocketPeeker: the first    *)
(* bytes of a connection decide whether it is TLS or plaintext, and are then   *)
(* given back to the socket for the handshake to read.  One event base: each   *)
(* handler is one step.                                                        *)
EXTENDS Naturals, Sequences, SequencesExt

CONSTANTS
  Conn,        \* connections, with the handshake of each
  numBytes_,   \* bytes the peekers require (kPeekCount; the type is at Type)
  Type,        \* offset of the handshake type in a TLS record
  Limit        \* bytes a client sends

None == "none"

VARIABLES
  plaintextOK, \* allowInsecureConnectionsOnSecureServer
  sent,        \* per connection: the bytes the client has sent so far
  taken,       \* bytes read off the socket
  preReceived, \* bytes given back with setPreReceivedData
  readCB,      \* read callback of the socket: the peeker or none
  peekBytes_,  \* bytes the peeker holds
  socket_, helper_, \* what the peeking helper owns: the socket or a helper
  outcome      \* what the handshake manager was told

vars == <<plaintextOK, sent, taken, preReceived, readCB, peekBytes_, socket_, helper_, outcome>>

(* A byte of the client: the values looksLikeTLS tells apart.  Byte 0 is the   *)
(* handshake magic and byte 1 the major version, or not.                       *)
Bytes == {"tls", "other"}

-----------------------------------------------------------------------------
(* connectionReady, connectionError of the handshake manager. *)
tell(c, result) == outcome' = [outcome EXCEPT ![c] = result]

(* looksLikeTLS: magic, major version and handshake type. *)
looksLikeTLS(bytes) == bytes[1] = "tls" /\ bytes[2] = "tls" /\ bytes[Type + 1] = "tls"

(* addPeeker: the plaintext peeker, if there is one, needs numBytes_ bytes and *)
(* comes first; the default one needs none.                                    *)
getPeekBytes == IF plaintextOK THEN numBytes_ ELSE 0

(* getHelper of each peeker in turn: plaintext if allowed and it does not look *)
(* like TLS; TLS otherwise.                                                    *)
getHelper(bytes) == IF plaintextOK /\ ~looksLikeTLS(bytes) THEN "plain" ELSE "ssl"

(* peekSuccess: the helper takes the socket.  A plaintext helper calls         *)
(* connectionReady at once, and the manager destroys them all; a TLS one       *)
(* starts its handshake.                                                       *)
peekSuccess(c, bytes) ==
  /\ socket_' = [socket_ EXCEPT ![c] = FALSE]
  /\ IF getHelper(bytes) = "plain"
     THEN helper_' = helper_ /\ tell(c, "plain")
     ELSE helper_' = [helper_ EXCEPT ![c] = "ssl"] /\ UNCHANGED outcome

(* start of the manager and of the helper: nothing to peek goes on at once. *)
start(c) ==
  /\ outcome[c] = "none"
  /\ IF getPeekBytes = 0
     THEN /\ socket_' = socket_ /\ helper_' = [helper_ EXCEPT ![c] = "ssl"]
          /\ UNCHANGED readCB
     ELSE /\ socket_' = [socket_ EXCEPT ![c] = TRUE]
          /\ readCB' = [readCB EXCEPT ![c] = "peeker"]
          /\ UNCHANGED helper_
  /\ outcome' = [outcome EXCEPT ![c] = "pending"]
  /\ UNCHANGED <<plaintextOK, sent, taken, preReceived, peekBytes_>>

(* Mutation: what was peeked is not given back. *)
replay_Lost(c, bytes) == UNCHANGED preReceived
replay(c, bytes) == preReceived' = [preReceived EXCEPT ![c] = bytes]

(* readDataAvailable: at most the bytes that are still needed are read, in any *)
(* number of pieces.                                                           *)
readDataAvailable(c, len) ==
  LET bytes == peekBytes_[c] \o SubSeq(sent[c], taken[c] + 1, taken[c] + len) IN
  /\ readCB[c] = "peeker"
  /\ taken[c] + len <= Len(sent[c]) /\ Len(bytes) <= getPeekBytes
  /\ taken' = [taken EXCEPT ![c] = @ + len]
  /\ IF Len(bytes) = getPeekBytes
     THEN /\ replay(c, bytes)
          /\ readCB' = [readCB EXCEPT ![c] = None]
          /\ peekBytes_' = [peekBytes_ EXCEPT ![c] = <<>>]
          /\ peekSuccess(c, bytes)
     ELSE /\ peekBytes_' = [peekBytes_ EXCEPT ![c] = bytes]
          /\ UNCHANGED <<preReceived, readCB, socket_, helper_, outcome>>
  /\ UNCHANGED <<plaintextOK, sent>>

(* peekError, connectionError: the manager destroys itself and the helper. *)
connectionError(c) ==
  /\ tell(c, "error")
  /\ socket_' = [socket_ EXCEPT ![c] = FALSE]
  /\ helper_' = [helper_ EXCEPT ![c] = None]
  /\ readCB' = [readCB EXCEPT ![c] = None]
  /\ peekBytes_' = [peekBytes_ EXCEPT ![c] = <<>>]
  /\ UNCHANGED <<plaintextOK, sent, taken, preReceived>>

(* readEOF, readErr of the peeker. *)
readErr(c) == readCB[c] = "peeker" /\ connectionError(c)

(* Mutation: a TLS handshake that has begun is not dropped. *)
dropConnection_PeekOnly(c) == outcome[c] = "pending" /\ socket_[c] /\ readErr(c)

(* dropConnection of the handshake manager (its timeout, or a drop): closeNow  *)
(* on the socket is an EOF for the peeker; on a TLS handshake, handshakeErr.   *)
dropConnection(c) ==
  /\ outcome[c] = "pending"
  /\ IF socket_[c] THEN readErr(c) ELSE helper_[c] = "ssl" /\ connectionError(c)

(* The TLS handshake ends: handshakeSuc or handshakeErr. *)
handshakeSuc(c) ==
  /\ helper_[c] = "ssl" /\ outcome[c] = "pending"
  /\ tell(c, "tls")
  /\ helper_' = [helper_ EXCEPT ![c] = None]
  /\ UNCHANGED <<plaintextOK, sent, taken, preReceived, readCB, peekBytes_, socket_>>
handshakeErr(c) == helper_[c] = "ssl" /\ connectionError(c)

(* The client. *)
clientSends(c, byte) ==
  /\ Len(sent[c]) < Limit
  /\ sent' = [sent EXCEPT ![c] = Append(@, byte)]
  /\ UNCHANGED <<plaintextOK, taken, preReceived, readCB, peekBytes_, socket_, helper_, outcome>>

-----------------------------------------------------------------------------
Init ==
  /\ plaintextOK \in BOOLEAN
  /\ sent = [c \in Conn |-> <<>>] /\ taken = [c \in Conn |-> 0]
  /\ preReceived = [c \in Conn |-> <<>>] /\ peekBytes_ = [c \in Conn |-> <<>>]
  /\ readCB = [c \in Conn |-> None]
  /\ socket_ = [c \in Conn |-> FALSE] /\ helper_ = [c \in Conn |-> None]
  /\ outcome = [c \in Conn |-> "none"]

Next ==
  \E c \in Conn :
    \/ start(c) \/ readErr(c) \/ dropConnection(c) \/ handshakeSuc(c) \/ handshakeErr(c)
    \/ \E len \in 1..numBytes_ : readDataAvailable(c, len)
    \/ \E byte \in Bytes : clientSends(c, byte)

(* The handshake timeout that AcceptorHandshakeManager::start schedules. *)
Spec == Init /\ [][Next]_vars /\ \A c \in Conn : WF_vars(dropConnection(c))

-----------------------------------------------------------------------------
TypeOK ==
  /\ \A c \in Conn : /\ sent[c] \in Seq(Bytes) /\ taken[c] \in 0..Len(sent[c])
                     /\ readCB[c] \in {None, "peeker"} /\ helper_[c] \in {None, "ssl"}
                     /\ outcome[c] \in {"none", "pending", "error", "plain", "tls"}

(* dropConnection's CHECK_NE: as long as the handshake is pending, the helper  *)
(* owns the socket (and its peeker will be told) or an inner helper.           *)
DropReachesOne ==
  \A c \in Conn : outcome[c] = "pending" =>
    socket_[c] # (helper_[c] # None) /\ (socket_[c] => readCB[c] = "peeker")

(* Peeking takes nothing away: what was given back, and what is still in the   *)
(* socket, is all the client has sent, in its order.                           *)
NothingConsumed ==
  \A c \in Conn : ~socket_[c] /\ outcome[c] # "error" =>
    preReceived[c] \o SubSeq(sent[c], taken[c] + 1, Len(sent[c])) = sent[c]

(* However the first bytes are split, a connection is taken for plaintext only *)
(* if that is allowed and they are not the start of a client hello.            *)
RightProtocol ==
  \A c \in Conn :
    LET hello == \A i \in {1, 2, Type + 1} : i \in DOMAIN sent[c] /\ sent[c][i] = "tls"
    IN /\ outcome[c] = "plain" => plaintextOK /\ ~hello
       /\ (outcome[c] = "tls" /\ plaintextOK) => hello

(* The helper keeps the contract of all handshake helpers: one call back for   *)
(* each start.                                                                 *)
Contract ==
  INSTANCE HandshakeContract WITH
    outcome <- [c \in Conn |-> IF outcome[c] \in {"plain", "tls"} THEN "ready" ELSE outcome[c]]
CallsBackOnce == Contract!Spec
=============================================================================
