----------------------------- MODULE FilePoller -----------------------------
(* util/FilePoller: one thread that looks at the modification times of the     *)
(* tracked files again and again and runs a callback for each that changed.    *)
(* MultiFilePoller and TLSCredProcessor build on this module.                  *)
EXTENDS Integers, FiniteSets, Sequences

CONSTANTS
  Paths,
  MaxVersion   \* changes of files

VARIABLES
  disk,        \* per path: 0 if there is no file, else the version it has;
               \* the modification time and the content go with the version
  clock,       \* the latest version of any file
  fileDatum_,  \* per path: the version last seen by the poller (modData), -1 if
               \* it is not tracked
  filesMutex_, \* held by the poller thread
  todo,        \* checkFiles: paths left
  checked,     \* path whose callback runs, "" if none
  modData,     \* checkFiles: what stat returned for it
  lost         \* paths whose last change was overwritten by tracking them again

pollerVars == <<disk, clock, fileDatum_, filesMutex_, todo, checked, modData, lost>>

Tracked(f) == fileDatum_[f] >= 0

(* stat(): the modification of a file that exists, or 0. *)
getFileModData(f) == disk[f]

(* Files that are there before anybody tracks them are modified first. *)
InitPoller ==
  /\ disk = [f \in Paths |-> 0] /\ clock = 0
  /\ fileDatum_ = [f \in Paths |-> -1]
  /\ filesMutex_ = FALSE /\ todo = {} /\ checked = "" /\ modData = 0 /\ lost = {}

(* The environment writes, creates or deletes a file.  "it assumes that when   *)
(* the file is modified, the modfied time changes" (FilePoller.h).             *)
modify(f) ==
  /\ clock < MaxVersion /\ clock' = clock + 1
  /\ disk' = [disk EXCEPT ![f] = clock + 1]
  /\ UNCHANGED <<fileDatum_, filesMutex_, todo, checked, modData, lost>>
delete(f) ==
  /\ disk[f] # 0 /\ disk' = [disk EXCEPT ![f] = 0]
  /\ UNCHANGED <<clock, fileDatum_, filesMutex_, todo, checked, modData, lost>>

(* addFileToTrack and removeFileToTrack, under filesMutex_.  Tracking a path   *)
(* again replaces its entry and takes the file as it is now.                   *)
addFileToTrack(f) ==
  /\ ~filesMutex_
  /\ fileDatum_' = [fileDatum_ EXCEPT ![f] = getFileModData(f)]
  /\ lost' = IF Tracked(f) /\ fileDatum_[f] # disk[f] THEN lost \cup {f} ELSE lost
  /\ UNCHANGED <<disk, clock, filesMutex_, todo, checked, modData>>
removeFileToTrack(f) ==
  /\ ~filesMutex_
  /\ fileDatum_' = [fileDatum_ EXCEPT ![f] = -1]
  /\ lost' = IF Tracked(f) /\ fileDatum_[f] # disk[f] THEN lost \cup {f} ELSE lost
  /\ UNCHANGED <<disk, clock, filesMutex_, todo, checked, modData>>

(* fileTouchedCond: created, or there with another time. *)
fileTouchedCond(old, new) == new # 0 /\ new # old

-----------------------------------------------------------------------------
(* checkFiles.                                                                 *)

startCheck ==
  /\ ~filesMutex_ /\ filesMutex_' = TRUE
  /\ todo' = {f \in Paths : Tracked(f)}
  /\ UNCHANGED <<disk, clock, fileDatum_, checked, modData, lost>>

(* stat of the next file; without a callback the entry is brought up to date.  *)
checkFile(f) ==
  /\ filesMutex_ /\ checked = "" /\ f \in todo
  /\ todo' = todo \ {f}
  /\ IF fileTouchedCond(fileDatum_[f], getFileModData(f))
     THEN checked' = f /\ modData' = getFileModData(f) /\ UNCHANGED fileDatum_
     ELSE /\ fileDatum_' = [fileDatum_ EXCEPT ![f] = getFileModData(f)]
          /\ UNCHANGED <<checked, modData>>
  /\ UNCHANGED <<disk, clock, filesMutex_, lost>>

(* Mutation: the file is looked at again after the callback. *)
callbackDone_Restat ==
  /\ fileDatum_' = [fileDatum_ EXCEPT ![checked] = disk[checked]]
  /\ checked' = "" /\ modData' = 0 /\ lost' = lost \ {checked}
  /\ UNCHANGED <<disk, clock, filesMutex_, todo>>

(* The callback has returned: what stat said before it is remembered. *)
callbackDone ==
  /\ fileDatum_' = [fileDatum_ EXCEPT ![checked] = modData]
  /\ checked' = "" /\ modData' = 0 /\ lost' = lost \ {checked}
  /\ UNCHANGED <<disk, clock, filesMutex_, todo>>

(* Mutation: the mutex is not released. *)
endCheck_KeepMutex ==
  /\ filesMutex_ /\ todo = {} /\ checked = ""
  /\ UNCHANGED pollerVars

endCheck ==
  /\ filesMutex_ /\ todo = {} /\ checked = ""
  /\ filesMutex_' = FALSE
  /\ UNCHANGED <<disk, clock, fileDatum_, todo, checked, modData, lost>>

PollerTypeOK ==
  /\ disk \in [Paths -> 0..MaxVersion] /\ fileDatum_ \in [Paths -> -1..MaxVersion]
  /\ todo \subseteq Paths /\ lost \subseteq Paths
  /\ (checked # "" \/ todo # {}) => filesMutex_
=============================================================================
