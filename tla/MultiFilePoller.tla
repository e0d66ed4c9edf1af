--------------------------- MODULE MultiFilePoller --------------------------
(* util/MultiFilePoller: callbacks that each follow several files.  Threads    *)
(* register and cancel them under rwlock_, while the thread of the FilePoller  *)
(* runs them under filesMutex_ and, for reading, rwlock_.                      *)
EXTENDS FilePoller, SequencesExt

CONSTANTS
  Threads,     \* threads that register and cancel
  Registered,  \* the lists of paths they register
  MaxId,       \* callbacks
  Overlap      \* registering and cancelling may happen during a check

VARIABLES
  rwlock_,     \* thread that holds it for writing, "" if none does
  reading,     \* the poller holds it for reading
  lastCallbackId_,
  pathsToCallbackIds_,  \* per path: ids in the order of their registration
  idsToCallbacks_,      \* per id: its paths, <<>> if there is no such callback
  thread,      \* per thread: what it does, and the paths still to be visited
  calls,       \* onFileUpdated: ids still to be called
  contents,    \* filePathsToFileContents: version read, 0 if it is not there
  known        \* per id and path: the version the callback knows

multiVars == <<rwlock_, reading, lastCallbackId_, pathsToCallbackIds_, idsToCallbacks_,
               thread, calls, contents, known>>
mfpVars == <<pollerVars, multiVars>>

Ids == 1..MaxId
Resting == [does |-> "", id |-> 0, paths |-> <<>>, all |-> <<>>]
NoContents == [f \in Paths |-> 0]

Init ==
  /\ InitPoller
  /\ rwlock_ = "" /\ reading = FALSE /\ lastCallbackId_ = 0
  /\ pathsToCallbackIds_ = [f \in Paths |-> <<>>]
  /\ idsToCallbacks_ = [i \in Ids |-> <<>>]
  /\ thread = [t \in Threads |-> Resting]
  /\ calls = <<>> /\ contents = NoContents
  /\ known = [i \in Ids |-> NoContents]

Quiet == Overlap \/ ~filesMutex_

(* Nobody holds the SharedMutex, for writing or for reading. *)
FreeForWriting == rwlock_ = "" /\ ~reading

-----------------------------------------------------------------------------
(* getNextCallbackId: ids are counted up; below MaxId they do not come round. *)
getNextCallbackId == lastCallbackId_ + 1

(* registerFiles: the lock, then one path after the other, each of which is    *)
(* tracked by the poller, then the callback itself.                            *)

startRegister(t, paths) ==
  /\ thread[t].does = "" /\ FreeForWriting /\ Quiet /\ lastCallbackId_ < MaxId
  /\ rwlock_' = t
  /\ lastCallbackId_' = getNextCallbackId
  /\ thread' = [thread EXCEPT ![t] = [does |-> "register", id |-> getNextCallbackId,
                                      paths |-> paths, all |-> paths]]
  /\ UNCHANGED <<pollerVars, reading, pathsToCallbackIds_, idsToCallbacks_, calls,
                 contents, known>>

registerPath(t) ==
  /\ thread[t].does = "register" /\ thread[t].paths # <<>>
  /\ LET f == Head(thread[t].paths)
         id == thread[t].id
     IN /\ addFileToTrack(f)
        /\ pathsToCallbackIds_' = [pathsToCallbackIds_ EXCEPT ![f] = Append(@, id)]
        /\ known' = [known EXCEPT ![id][f] = disk[f]]
  /\ thread' = [thread EXCEPT ![t].paths = Tail(@)]
  /\ UNCHANGED <<rwlock_, reading, lastCallbackId_, idsToCallbacks_, calls, contents>>

(* cancelCallback: its paths lose it, and the poller those nobody follows. *)
startCancel(t, id) ==
  /\ thread[t].does = "" /\ FreeForWriting /\ Quiet /\ idsToCallbacks_[id] # <<>>
  /\ rwlock_' = t
  /\ thread' = [thread EXCEPT ![t] = [does |-> "cancel", id |-> id,
                                      paths |-> idsToCallbacks_[id], all |-> <<>>]]
  /\ UNCHANGED <<pollerVars, reading, lastCallbackId_, pathsToCallbackIds_,
                 idsToCallbacks_, calls, contents, known>>

cancelPath(t) ==
  /\ thread[t].does = "cancel" /\ thread[t].paths # <<>>
  /\ LET f == Head(thread[t].paths)
         rest == SelectSeq(pathsToCallbackIds_[f], LAMBDA i : i # thread[t].id)
     IN /\ pathsToCallbackIds_' = [pathsToCallbackIds_ EXCEPT ![f] = rest]
        /\ IF rest = <<>> THEN removeFileToTrack(f) ELSE UNCHANGED pollerVars
  /\ thread' = [thread EXCEPT ![t].paths = Tail(@)]
  /\ UNCHANGED <<rwlock_, reading, lastCallbackId_, idsToCallbacks_, calls, contents, known>>

(* The end of either: the callback is there, or gone, and the lock released. *)
unlock(t) ==
  /\ thread[t].does # "" /\ thread[t].paths = <<>>
  /\ idsToCallbacks_' = [idsToCallbacks_ EXCEPT ![thread[t].id] = thread[t].all]
  /\ known' = IF thread[t].does = "register" THEN known
              ELSE [known EXCEPT ![thread[t].id] = NoContents]
  /\ rwlock_' = "" /\ thread' = [thread EXCEPT ![t] = Resting]
  /\ UNCHANGED <<pollerVars, reading, lastCallbackId_, pathsToCallbackIds_, calls, contents>>

-----------------------------------------------------------------------------
(* onFileUpdated, the poller's callback for a path: with the lock for reading, *)
(* the callbacks of the path one after the other.                              *)
onFileUpdated ==
  /\ checked # "" /\ ~reading /\ rwlock_ = ""
  /\ reading' = TRUE
  /\ calls' = pathsToCallbackIds_[checked]
  /\ UNCHANGED <<pollerVars, rwlock_, lastCallbackId_, pathsToCallbackIds_, idsToCallbacks_,
                 thread, contents, known>>

(* Each reads those of its files that have not been read yet, and is called    *)
(* with all that have.                                                         *)
callBack ==
  /\ reading /\ calls # <<>>
  /\ LET id == Head(calls)
         read == [f \in Paths |-> IF contents[f] = 0 /\ Contains(idsToCallbacks_[id], f)
                                  THEN disk[f] ELSE contents[f]]
     IN /\ contents' = read
        /\ known' = [known EXCEPT ![id] = [f \in Paths |->
                       IF read[f] # 0 /\ Contains(idsToCallbacks_[id], f)
                       THEN read[f] ELSE @[f]]]
  /\ calls' = Tail(calls)
  /\ UNCHANGED <<pollerVars, rwlock_, reading, lastCallbackId_, pathsToCallbackIds_,
                 idsToCallbacks_, thread>>

onFileUpdatedReturns ==
  /\ reading /\ calls = <<>>
  /\ reading' = FALSE /\ contents' = NoContents
  /\ callbackDone
  /\ UNCHANGED <<rwlock_, lastCallbackId_, pathsToCallbackIds_, idsToCallbacks_, thread,
                 calls, known>>

Check == /\ \/ startCheck /\ (Overlap \/ rwlock_ = "")
            \/ \E f \in Paths : checkFile(f)
            \/ endCheck
         /\ UNCHANGED multiVars

Next ==
  \/ Check \/ onFileUpdated \/ callBack \/ onFileUpdatedReturns
  \/ \E f \in Paths : (modify(f) \/ delete(f)) /\ UNCHANGED multiVars
  \/ \E t \in Threads :
       \/ \E paths \in Registered : startRegister(t, paths)
       \/ \E id \in Ids : startCancel(t, id)
       \/ registerPath(t) \/ cancelPath(t) \/ unlock(t)

(* The poller's thread runs, and so do threads in the middle of a call.  A     *)
(* file is checked by every check.                                             *)
Fairness ==
  /\ WF_mfpVars(Check) /\ WF_mfpVars(onFileUpdated)
  /\ WF_mfpVars(callBack) /\ WF_mfpVars(onFileUpdatedReturns)
  /\ \A t \in Threads : WF_mfpVars(registerPath(t) \/ cancelPath(t) \/ unlock(t))

Spec == Init /\ [][Next]_mfpVars /\ Fairness

-----------------------------------------------------------------------------
TypeOK ==
  /\ PollerTypeOK
  /\ lastCallbackId_ \in 0..MaxId
  /\ rwlock_ \in Threads \cup {""}

(* Whenever nobody holds the lock for writing, the two maps describe the same  *)
(* relation, and exactly the paths in it are tracked.                          *)
MapsAgree ==
  rwlock_ = "" =>
    \A f \in Paths :
      /\ Tracked(f) <=> pathsToCallbackIds_[f] # <<>>
      /\ \A i \in Ids : Contains(pathsToCallbackIds_[f], i) <=> Contains(idsToCallbacks_[i], f)

(* While the poller's thread goes through the callbacks of a file nobody       *)
(* changes the maps, and those still to be called have not been cancelled.     *)
CallsExisting ==
  reading => rwlock_ = "" /\ \A i \in ToSet(calls) : idsToCallbacks_[i] # <<>>

(* "triggered when any file it registers is changed": a callback knows the     *)
(* version of a file that the poller has taken note of, unless the path was    *)
(* tracked anew before that change was seen.                                   *)
KnowsNoted ==
  \A i \in Ids : \A f \in ToSet(idsToCallbacks_[i]) \ lost :
    (disk[f] # 0 /\ fileDatum_[f] = disk[f]) => known[i][f] = disk[f]

(* "is triggered when any file it registers is changed" (MultiFilePoller.h):   *)
(* what a callback has not seen of a file it will see, or the file or the      *)
(* callback goes away, or the change is overwritten by a registration.         *)
ChangeTriggers ==
  \A i \in Ids : \A f \in Paths :
    LET behind == Contains(idsToCallbacks_[i], f) /\ disk[f] # 0 /\ known[i][f] # disk[f]
                    /\ f \notin lost
    IN behind ~> ~behind
=============================================================================
