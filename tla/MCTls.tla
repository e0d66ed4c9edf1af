------------------------------- MODULE MCTls --------------------------------
(* Handshakes and credentials for TLC: the handshake helpers of the acceptor,  *)
(* and the pollers that follow credential files.  A behaviour picks one of     *)
(* them, the others rest in an initial state.                                  *)
EXTENDS EvbHandshakeHelper, Sequences, Integers

CONSTANTS
  Components,                                       \* those that may be picked
  Peeked, numBytes_, Type, Limit,                   \* PeekingHandshake
  Paths, MaxVersion, Threads, MaxId,                \* MultiFilePoller
  TicketPaths, CertPaths, Valid, MaxCredVersion, MaxCalls  \* TLSCredProcessor

VARIABLES
  component,
  plaintextOK, sent, taken, preReceived, readCB, peekBytes_, socket_, helper_, outcome,
  disk, clock, fileDatum_, filesMutex_, todo, checked, modData, lost,
  rwlock_, reading, lastCallbackId_, pathsToCallbackIds_, idsToCallbacks_, thread, calls,
  contents, known,
  credDisk, credClock, credDatum, credMutex, credTodo, credChecked, credModData, credLost,
  running, cob, ticketFile_, certFiles_, script, credCalls, credSeen, ran

Peeking == INSTANCE PeekingHandshake WITH Conn <- Peeked
Files == INSTANCE MultiFilePoller WITH
  Overlap <- TRUE, Registered <- {<<"a">>, <<"a", "b">>}
QuietFiles == INSTANCE MultiFilePoller WITH
  Overlap <- FALSE, Registered <- {<<"a">>, <<"a", "b">>}
Creds == INSTANCE TLSCredProcessor WITH
  Paths <- TicketPaths \cup CertPaths, MaxVersion <- MaxCredVersion,
  disk <- credDisk, clock <- credClock,
  fileDatum_ <- credDatum, filesMutex_ <- credMutex, todo <- credTodo,
  checked <- credChecked, modData <- credModData, lost <- credLost

peekVars == <<plaintextOK, sent, taken, preReceived, readCB, peekBytes_, socket_, helper_,
              outcome>>
fileVars == <<disk, clock, fileDatum_, filesMutex_, todo, checked, modData, lost, rwlock_,
              reading, lastCallbackId_, pathsToCallbackIds_, idsToCallbacks_, thread, calls,
              contents, known>>
credVars == <<credDisk, credClock, credDatum, credMutex, credTodo, credChecked, credModData,
              credLost, running, cob, ticketFile_, certFiles_, script, credCalls, credSeen,
              ran>>
tlsVars == <<component, vars, peekVars, fileVars, credVars>>

OnFiles == component \in {"files", "quiet files"}

TlsInit ==
  /\ component \in Components
  /\ Init /\ Peeking!Init /\ Files!Init /\ Creds!Init
  /\ component # "peeking" => plaintextOK

TlsNext ==
  /\ UNCHANGED component
  /\ \/ /\ component = "evb" /\ Next
        /\ UNCHANGED <<peekVars, fileVars, credVars>>
     \/ /\ component = "peeking" /\ Peeking!Next
        /\ UNCHANGED <<vars, fileVars, credVars>>
     \/ /\ \/ component = "files" /\ Files!Next
           \/ component = "quiet files" /\ QuietFiles!Next
        /\ UNCHANGED <<vars, peekVars, credVars>>
     \/ /\ component = "creds" /\ Creds!Next
        /\ UNCHANGED <<vars, peekVars, fileVars>>

(* The fairness of the component picked, as its module states it. *)
TlsFairness ==
  /\ \A c \in Conn :
       /\ WF_vars(component = "evb" /\ dropConnection(c))
       /\ WF_vars(component = "evb" /\ finishDrop(c))
       /\ WF_vars(component = "evb" /\ \E result \in {"ready", "error"} : deliver(c, result))
       /\ WF_vars(component = "evb" /\ clearGuard(c))
       /\ WF_vars(component = "evb" /\ runStart(c))
       /\ WF_vars(component = "evb" /\ postResult(c))
       /\ WF_vars(component = "evb" /\ runDrop(c))
  /\ \A c \in Peeked : WF_peekVars(component = "peeking" /\ Peeking!dropConnection(c))
  /\ WF_fileVars(\/ component = "files" /\ Files!Check
                 \/ component = "quiet files" /\ QuietFiles!Check)
  /\ WF_fileVars(OnFiles /\ Files!onFileUpdated)
  /\ WF_fileVars(OnFiles /\ Files!callBack)
  /\ WF_fileVars(OnFiles /\ Files!onFileUpdatedReturns)
  /\ \A t \in Threads :
       WF_fileVars(/\ OnFiles
                   /\ Files!registerPath(t) \/ Files!cancelPath(t) \/ Files!unlock(t))
  /\ WF_credVars(component = "creds" /\ Creds!Check)
  /\ WF_credVars(component = "creds" /\ Creds!fileUpdated)
  /\ WF_credVars(component = "creds" /\ Creds!fileUpdatedReturns)

TlsSpec == TlsInit /\ [][TlsNext]_tlsVars /\ TlsFairness

-----------------------------------------------------------------------------
(* The types of all components; that of EvbHandshakeHelper rules out a second  *)
(* callback.                                                                   *)
TlsTypeOK ==
  /\ TypeOK
  /\ component = "peeking" => Peeking!TypeOK
  /\ OnFiles => Files!TypeOK
  /\ component = "creds" => Creds!TypeOK

(* Peeking leaves no trace: the bytes looked at are given back, plaintext and  *)
(* TLS are told apart however the first bytes are split, and at any time one   *)
(* object is there that a drop reaches.                                        *)
PeekIsTransparent ==
  component = "peeking" =>
    Peeking!NothingConsumed /\ Peeking!RightProtocol /\ Peeking!DropReachesOne

(* Both kinds of handshake helper, that on another thread and the peeking one, *)
(* call back once for each start (HandshakeContract).                          *)
HelpersKeepContract == ImplementsContract /\ Peeking!CallsBackOnce

(* What the pollers know is true: the maps of MultiFilePoller and the tracked  *)
(* paths agree, no callback is cancelled while it is called, and a version the *)
(* poller has taken note of was shown to the callbacks.  The credentials' one  *)
(* tracks the paths that are set, and calls nobody once stop() has returned.   *)
PollersSound ==
  /\ OnFiles => Files!MapsAgree /\ Files!CallsExisting /\ Files!KnowsNoted
  /\ component = "creds" =>
       Creds!WatchesWhatIsSet /\ Creds!StoppedIsQuiet /\ Creds!NotedIsReported

(* A change of a registered file, or a new credential file, reaches the        *)
(* callbacks, as long as no thread registers or cancels while a check runs.    *)
ChangesReported ==
  /\ component = "quiet files" => QuietFiles!ChangeTriggers
  /\ component = "creds" => Creds!NewFilesReported

(* A callback "is triggered when any file it registers is changed"             *)
(* (MultiFilePoller.h:38), whatever other threads register meanwhile.          *)
EveryChangeTriggers == component = "files" => Files!ChangeTriggers
=============================================================================
