-------------------------- MODULE TLSCredProcessor --------------------------
(* ssl/TLSCredProcessor: a FilePoller that watches the file of ticket seeds    *)
(* and the certificate files of a server.  One thread sets what is watched     *)
(* ("This is not thread safe") while the poller's thread runs the callbacks.   *)
EXTENDS FilePoller, SequencesExt

CONSTANTS
  TicketPaths, CertPaths,   \* disjoint sets of paths
  Valid,       \* versions of a ticket file that processTLSTickets accepts
  MaxCalls     \* calls of the setting thread

VARIABLES
  running,     \* the poller's function is scheduled
  cob,         \* per path: the callback it is tracked with
  ticketFile_, certFiles_,
  script,      \* what is left of the setting thread's call, step by step
  credCalls,   \* calls so far
  credSeen,    \* per path: version the callbacks were given, or could read
  ran          \* the callback of the checked path has run

credVars == <<running, cob, ticketFile_, certFiles_, script, credCalls, credSeen, ran>>
tcpVars == <<pollerVars, credVars>>

Step(does, path) == [does |-> does, path |-> path, paths |-> {}]
ForEach(does, paths) == [i \in 1..Cardinality(paths) |-> Step(does, SetToSeq(paths)[i])]

(* setTicketPathToWatch, setCertPathsToWatch: the old paths are removed from   *)
(* the poller, the new ones remembered and added.                              *)
setTicketPathToWatch(old, path) ==
  (IF old = "" THEN <<>> ELSE <<Step("remove", old)>>) \o <<Step("ticketFile_", path)>>
  \o (IF path = "" THEN <<>> ELSE <<Step("addTicket", path)>>)
setCertPathsToWatch(old, paths) ==
  ForEach("remove", old) \o <<[Step("certFiles_", "") EXCEPT !.paths = paths]>>
  \o ForEach("addCert", paths)

(* setPollInterval: another poller, which is told the paths again. *)
setPollInterval ==
  <<Step("stop", ""), Step("newPoller", "")>> \o setTicketPathToWatch(ticketFile_, ticketFile_)
  \o setCertPathsToWatch(certFiles_, certFiles_)

Init ==
  /\ InitPoller
  /\ running = TRUE /\ cob = [f \in Paths |-> ""]
  /\ ticketFile_ = "" /\ certFiles_ = {} /\ script = <<>> /\ credCalls = 0
  /\ credSeen = [f \in Paths |-> 0] /\ ran = FALSE

Call(steps) ==
  /\ script = <<>> /\ credCalls < MaxCalls
  /\ script' = steps /\ credCalls' = credCalls + 1
  /\ UNCHANGED <<pollerVars, running, cob, ticketFile_, certFiles_, credSeen, ran>>

stop == Call(<<Step("stop", "")>>)

-----------------------------------------------------------------------------
(* The steps of a call.  stop waits for a check that is under way; the new     *)
(* poller knows no file.                                                       *)
Add(f, kind) ==
  /\ addFileToTrack(f)
  /\ cob' = [cob EXCEPT ![f] = kind] /\ credSeen' = [credSeen EXCEPT ![f] = disk[f]]
  /\ UNCHANGED <<running, ticketFile_, certFiles_>>

stopStep ==
  /\ ~filesMutex_ /\ running' = FALSE
  /\ UNCHANGED <<pollerVars, cob, ticketFile_, certFiles_, credSeen>>

newPoller ==
  /\ fileDatum_' = [f \in Paths |-> -1]
  /\ lost' = lost \cup {f \in Paths : Tracked(f) /\ fileDatum_[f] # disk[f]}
  /\ running' = TRUE /\ cob' = [f \in Paths |-> ""]
  /\ UNCHANGED <<disk, clock, filesMutex_, todo, checked, modData, ticketFile_, certFiles_,
                 credSeen>>

step ==
  /\ script # <<>>
  /\ LET s == Head(script)
     IN CASE s.does = "remove" ->
               /\ removeFileToTrack(s.path) /\ cob' = [cob EXCEPT ![s.path] = ""]
               /\ UNCHANGED <<running, ticketFile_, certFiles_, credSeen>>
          [] s.does = "ticketFile_" ->
               ticketFile_' = s.path /\ UNCHANGED <<pollerVars, running, cob, certFiles_, credSeen>>
          [] s.does = "certFiles_" ->
               certFiles_' = s.paths /\ UNCHANGED <<pollerVars, running, cob, ticketFile_, credSeen>>
          [] s.does = "addTicket" -> Add(s.path, "ticket")
          [] s.does = "addCert" -> Add(s.path, "cert")
          [] s.does = "stop" -> stopStep
          [] s.does = "newPoller" -> newPoller
  /\ script' = Tail(script)
  /\ UNCHANGED <<credCalls, ran>>

(* processTLSTickets: whether the file can be read and parsed. *)
processTLSTickets(f) == disk[f] \in Valid

-----------------------------------------------------------------------------
(* ticketFileUpdated: the seeds are handed on if the file can be read and      *)
(* parsed; certFileUpdated: the callbacks are called.                          *)
fileUpdated ==
  /\ checked # "" /\ ~ran /\ ran' = TRUE
  /\ credSeen' = IF cob[checked] = "ticket" /\ ~processTLSTickets(checked) THEN credSeen
                 ELSE [credSeen EXCEPT ![checked] = disk[checked]]
  /\ UNCHANGED <<pollerVars, running, cob, ticketFile_, certFiles_, script, credCalls>>

fileUpdatedReturns ==
  /\ ran /\ ran' = FALSE
  /\ callbackDone
  /\ UNCHANGED <<running, cob, ticketFile_, certFiles_, script, credCalls, credSeen>>

Check == /\ (running /\ startCheck) \/ (\E f \in Paths : checkFile(f)) \/ endCheck
         /\ UNCHANGED credVars

Next ==
  \/ Check \/ fileUpdated \/ fileUpdatedReturns \/ step \/ stop
  \/ \E f \in Paths : (modify(f) \/ delete(f)) /\ UNCHANGED credVars
  \/ \E f \in TicketPaths \cup {""} : Call(setTicketPathToWatch(ticketFile_, f))
  \/ \E paths \in SUBSET CertPaths : Call(setCertPathsToWatch(certFiles_, paths))
  \/ Call(setPollInterval)

(* The poller's thread runs. *)
Fairness == WF_tcpVars(Check) /\ WF_tcpVars(fileUpdated) /\ WF_tcpVars(fileUpdatedReturns)

Spec == Init /\ [][Next]_tcpVars /\ Fairness

-----------------------------------------------------------------------------
TypeOK ==
  /\ PollerTypeOK
  /\ ticketFile_ \in TicketPaths \cup {""} /\ certFiles_ \subseteq CertPaths
  /\ running \in BOOLEAN /\ (ran => checked # "")

(* Between calls the poller tracks exactly the paths that are set, the ticket  *)
(* file with the ticket callback: "Any previous ticket path will stop being    *)
(* watched" (TLSCredProcessor.h), also after the interval has changed.         *)
WatchesWhatIsSet ==
  script = <<>> =>
    \A f \in Paths :
      /\ Tracked(f) <=> (f = ticketFile_ \/ f \in certFiles_)
      /\ cob[f] = IF f = ticketFile_ THEN "ticket" ELSE IF f \in certFiles_ THEN "cert" ELSE ""

(* Once stopped, no callback runs: stop waits for the check under way. *)
StoppedIsQuiet == ~running => ~filesMutex_

(* A version that the poller has taken note of was handed to the callbacks,    *)
(* unless its tracking began anew before it was noted.                         *)
Behind(f) == /\ Tracked(f) /\ disk[f] # 0 /\ credSeen[f] # disk[f] /\ f \notin lost
             /\ cob[f] = "ticket" => processTLSTickets(f)
NotedIsReported == \A f \in Paths : Behind(f) => fileDatum_[f] # disk[f]

(* A valid new ticket file, or a new certificate, is reported while the poller *)
(* runs and keeps tracking it.                                                 *)
NewFilesReported == \A f \in Paths : (running /\ Behind(f)) ~> ~(running /\ Behind(f))
=============================================================================
