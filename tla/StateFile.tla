----------------------------- MODULE StateFile -----------------------------
(***************************************************************************)
(* The singleton lock (internal/collector lock_linux.go) and the saves of  *)
(* the checkpoint (checkpoint.go, persist of main.go) of several processes *)
(* that are started for one input, step by step: every system call of      *)
(* saveState may fail, a process may die between any two of them, and the  *)
(* power may fail.                                                         *)
(*                                                                         *)
(* A position is the number of lines handled, and the output the number of *)
(* lines whose events were written.  Files are numbered in the order of    *)
(* their creation, 0 is no file; a lock file is an inode of its own, and a *)
(* lock belongs to the inode, not to its path.                             *)
(***************************************************************************)
EXTENDS Integers, Sequences, FiniteSets

CONSTANTS
    Process,
    None,
    MaxLines,     \* bound: lines of the input
    MaxEnds,      \* bound: saves that fail, and shutdowns
    MaxDeaths,    \* bound: deaths and power failures
    MaxInodes     \* bound: lock files that a process can come to hold

ASSUME StateFileAssumption ==
    /\ None \notin Process
    /\ MaxLines \in Nat /\ MaxInodes \in Nat
    /\ MaxEnds \in Nat /\ MaxDeaths \in Nat

VARIABLES
    lockPath,   \* the inode at the lock path
    inodes,     \* lock files ever created
    held,       \* who holds the lock of each inode
    proc,       \* [at, fd, pos, last, temp] of each process
    files,      \* each file of the state directory: [pos, synced]
    state,      \* the file at the checkpoint's path
    possible,   \* the files that may be at that path after a power failure
    temps,      \* the files that have a temporary name
    loose,      \* those whose temporary name was made or removed without a sync yet
    out, kept,  \* lines in the output, and those of them that are durable
    answered,   \* the last position whose save was answered
    errors, stops, deaths

locks == <<lockPath, inodes, held>>
disk == <<files, state, possible, temps, loose>>
output == <<out, kept>>
faults == <<errors, stops, deaths>>
vars == <<locks, proc, disk, output, answered, faults>>

-----------------------------------------------------------------------------
(* Files.                                                                  *)

Position == 0..MaxLines
Missing == -1      \* LoadCheckpoint returns nil
Damaged == MaxLines + 1

Found(f) == IF f = 0 THEN Missing ELSE files[f].pos

\* What a file may hold after a power failure.
Survivors(f) == IF f = 0 \/ files[f].synced THEN {Found(f)} ELSE {Found(f), Damaged}

-----------------------------------------------------------------------------
(* Start: AcquireFileLock, LoadCheckpoint.                                 *)

Down == [at |-> "down", fd |-> 0, pos |-> 0, last |-> Missing, temp |-> 0]
Owns(p) == proc[p].at \notin {"down", "opened"}
Goes(p, to) == proc' = [proc EXCEPT ![p].at = to]
Saving == {"commit", "create", "entry", "write", "sync", "rename", "settle"}

\* The lock file is created when the path has none.
OpenLock(p) ==
    /\ proc[p].at = "down"
    /\ IF lockPath # 0 THEN UNCHANGED locks
       ELSE /\ inodes < MaxInodes
            /\ inodes' = inodes + 1 /\ lockPath' = inodes' /\ UNCHANGED held
    /\ proc' = [proc EXCEPT ![p].at = "opened", ![p].fd = lockPath']
    /\ UNCHANGED <<disk, output, answered, faults>>

\* Another healthy process owns the lock: the start ends without an error.
LockBusy(p) ==
    /\ proc[p].at = "opened" /\ held[proc[p].fd] # None
    /\ proc' = [proc EXCEPT ![p] = Down]
    /\ UNCHANGED <<locks, disk, output, answered, faults>>
TryLock(p) ==
    /\ proc[p].at = "opened" /\ held[proc[p].fd] = None
    /\ held' = [held EXCEPT ![proc[p].fd] = p]
    /\ Goes(p, "starting")
    /\ UNCHANGED <<lockPath, inodes, disk, output, answered, faults>>

\* A damaged checkpoint is refused; without one the start is saved at once.
Load(p) ==
    /\ proc[p].at = "starting"
    /\ LET found == Found(state)
       IN proc' = CASE found = Damaged -> [proc EXCEPT ![p].at = "closing"]
                    [] found = Missing -> [proc EXCEPT ![p].at = "commit"]
                    [] OTHER -> [proc EXCEPT ![p].at = "running", ![p].pos = found,
                                             ![p].last = found]
    /\ UNCHANGED <<locks, disk, output, answered, faults>>

-----------------------------------------------------------------------------
(* The loop, and persist.                                                  *)

Handle(p) ==
    /\ proc[p].at = "running" /\ proc[p].pos < MaxLines
    /\ proc' = [proc EXCEPT ![p].pos = @ + 1]
    /\ out' = IF proc'[p].pos > out THEN proc'[p].pos ELSE out
    /\ UNCHANGED <<locks, disk, kept, answered, faults>>

\* Mutant of BeginSave: the output is committed after the save.
BeginUncommitted(p) ==
    /\ proc[p].at = "running" /\ proc[p].pos # proc[p].last
    /\ Goes(p, "create")
    /\ UNCHANGED <<locks, disk, output, answered, faults>>
BeginSave(p) ==
    /\ proc[p].at = "running" /\ proc[p].pos # proc[p].last
    /\ Goes(p, "commit")
    /\ UNCHANGED <<locks, disk, output, answered, faults>>

CommitOutput(p) ==
    /\ proc[p].at = "commit"
    /\ kept' = out
    /\ Goes(p, "create")
    /\ UNCHANGED <<locks, disk, out, answered, faults>>

\* OpenRegularAt creates the empty file, and then syncs it and the directory.
CreateTemporary(p) ==
    /\ proc[p].at = "create"
    /\ files' = Append(files, [pos |-> Damaged, synced |-> TRUE])
    /\ temps' = temps \cup {Len(files')} /\ loose' = loose \cup {Len(files')}
    /\ proc' = [proc EXCEPT ![p].at = "entry", ![p].temp = Len(files')]
    /\ UNCHANGED <<locks, state, possible, output, answered, faults>>
DirectorySynced == possible' = {state} /\ loose' = {}
SyncEntry(p) ==
    /\ proc[p].at = "entry"
    /\ DirectorySynced
    /\ Goes(p, "write")
    /\ UNCHANGED <<locks, files, state, temps, output, answered, faults>>

WriteTemporary(p) ==
    /\ proc[p].at = "write"
    /\ files' = [files EXCEPT ![proc[p].temp] = [pos |-> proc[p].pos, synced |-> FALSE]]
    /\ Goes(p, "sync")
    /\ UNCHANGED <<locks, state, possible, temps, loose, output, answered, faults>>

\* Mutant of SyncTemporary: the file is closed without a sync.
CloseUnsynced(p) ==
    /\ proc[p].at = "sync"
    /\ Goes(p, "rename")
    /\ UNCHANGED <<locks, disk, output, answered, faults>>
SyncTemporary(p) ==
    /\ proc[p].at = "sync"
    /\ files' = [files EXCEPT ![proc[p].temp].synced = TRUE]
    /\ Goes(p, "rename")
    /\ UNCHANGED <<locks, state, possible, temps, loose, output, answered, faults>>

\* Mutant of Rename: the file is linked, and its temporary name stays.
RenameLinking(p) ==
    /\ proc[p].at = "rename"
    /\ state' = proc[p].temp
    /\ possible' = possible \cup {state'}
    /\ Goes(p, "settle")
    /\ UNCHANGED <<locks, files, temps, loose, output, answered, faults>>
Rename(p) ==
    /\ proc[p].at = "rename"
    /\ state' = proc[p].temp
    /\ temps' = temps \ {state'}
    /\ possible' = possible \cup {state'}
    /\ Goes(p, "settle")
    /\ UNCHANGED <<locks, files, loose, output, answered, faults>>

Answer(p) ==
    /\ proc' = [proc EXCEPT ![p].at = "running", ![p].last = proc[p].pos, ![p].temp = 0]
    /\ answered' = proc[p].pos

\* Mutant of SettleDirectory: the save is answered without a sync.
SettleNothing(p) ==
    /\ proc[p].at = "settle"
    /\ Answer(p)
    /\ UNCHANGED <<locks, disk, output, faults>>
SettleDirectory(p) ==
    /\ proc[p].at = "settle"
    /\ DirectorySynced
    /\ Answer(p)
    /\ UNCHANGED <<locks, files, state, temps, output, faults>>

-----------------------------------------------------------------------------
(* Ends.                                                                   *)

MayEnd == errors + stops < MaxEnds
Failing == MayEnd /\ errors' = errors + 1 /\ UNCHANGED <<stops, deaths>>
Dying == deaths < MaxDeaths /\ deaths' = deaths + 1 /\ UNCHANGED <<errors, stops>>

GivesUp(p) == proc' = [proc EXCEPT ![p].at = "closing", ![p].temp = 0]

\* OpenRegularAt fails after the creation, in the check of the file or in a
\* sync: saveState returns before its deferred calls, and the file stays.
OpenFails(p) ==
    /\ Failing /\ proc[p].at = "entry"
    /\ GivesUp(p)
    /\ UNCHANGED <<locks, disk, output, answered>>

\* Elsewhere the deferred calls of saveState unlink the file, or fail to do
\* so; the directory is not synced, and the error ends the loop.
SaveFails(p) ==
    /\ Failing /\ proc[p].at \in Saving \ {"entry"}
    /\ \/ UNCHANGED <<temps, loose>>
       \/ /\ temps' = temps \ {proc[p].temp}
          /\ loose' = loose \cup (temps \cap {proc[p].temp})
    /\ GivesUp(p)
    /\ UNCHANGED <<locks, files, state, possible, output, answered>>

\* A shutdown has saved its position before it ends.
Stop(p) ==
    /\ MayEnd /\ stops' = stops + 1
    /\ proc[p].at = "running" /\ proc[p].pos = proc[p].last
    /\ Goes(p, "closing")
    /\ UNCHANGED <<locks, disk, output, answered, errors, deaths>>

\* sink.Close; a sink that failed is not synced.
CloseSink(p) ==
    /\ proc[p].at = "closing"
    /\ kept' \in {kept, out}
    /\ Goes(p, "unlocking")
    /\ UNCHANGED <<locks, disk, out, answered, faults>>

\* Mutant of Unlock: the lock file is removed.
UnlockRemoving(p) ==
    /\ proc[p].at = "unlocking"
    /\ held' = [held EXCEPT ![proc[p].fd] = None]
    /\ lockPath' = 0
    /\ proc' = [proc EXCEPT ![p] = Down]
    /\ UNCHANGED <<inodes, disk, output, answered, faults>>
Unlock(p) ==
    /\ proc[p].at = "unlocking"
    /\ held' = [held EXCEPT ![proc[p].fd] = None]
    /\ proc' = [proc EXCEPT ![p] = Down]
    /\ UNCHANGED <<lockPath, inodes, disk, output, answered, faults>>

Crash(p) ==
    /\ Dying /\ proc[p].at # "down"
    /\ held' = [i \in DOMAIN held |-> IF held[i] = p THEN None ELSE held[i]]
    /\ proc' = [proc EXCEPT ![p] = Down]
    /\ UNCHANGED <<lockPath, inodes, disk, output, answered>>

\* A rename, a creation or an unlink that was not synced may be undone, and
\* a file that was not synced may be damaged.
PowerFailure ==
    /\ Dying
    /\ held' = [i \in DOMAIN held |-> None]
    /\ proc' = [p \in Process |-> Down]
    /\ out' \in kept..out /\ kept' = out'
    /\ state' \in possible /\ possible' = {state'}
    /\ \E hold \in Survivors(state') :
           files' = [f \in DOMAIN files |-> [pos |-> IF f = state' THEN hold ELSE files[f].pos,
                                             synced |-> TRUE]]
    /\ \E back \in SUBSET loose :
           temps' = (temps \ loose) \cup back \cup {f \in possible : f > state'}
    /\ loose' = {}
    /\ UNCHANGED <<lockPath, inodes, answered>>

Init ==
    /\ lockPath = 0 /\ inodes = 0 /\ held = [i \in 1..MaxInodes |-> None]
    /\ proc = [p \in Process |-> Down]
    /\ files = << >> /\ state = 0 /\ possible = {0} /\ temps = {} /\ loose = {}
    /\ out = 0 /\ kept = 0 /\ answered = Missing
    /\ errors = 0 /\ stops = 0 /\ deaths = 0

Save(p) ==
    \/ BeginSave(p) \/ CommitOutput(p) \/ CreateTemporary(p) \/ SyncEntry(p)
    \/ WriteTemporary(p) \/ SyncTemporary(p) \/ Rename(p) \/ SettleDirectory(p)
Step(p) ==
    \/ OpenLock(p) \/ LockBusy(p) \/ TryLock(p) \/ Load(p) \/ Handle(p)
    \/ Save(p) \/ CloseSink(p) \/ Unlock(p)
Fault(p) == OpenFails(p) \/ SaveFails(p) \/ Stop(p) \/ Crash(p)
Next == (\E p \in Process : Step(p) \/ Fault(p)) \/ PowerFailure

\* A process that was started runs, and a supervisor or a schedule starts it
\* again; errors, stops and failures come to an end.
Spec == Init /\ [][Next]_vars /\ \A p \in Process : WF_vars(Step(p))

-----------------------------------------------------------------------------
(* Properties.                                                             *)

Place == {"down", "opened", "starting", "running", "closing", "unlocking"} \cup Saving
Holds == {"entry", "write", "sync", "rename", "settle"}
ProcessType ==
    [at : Place,
     fd : 0..MaxInodes, pos : Position, last : Position \cup {Missing}, temp : Nat]
FileType == [pos : Position \cup {Damaged}, synced : BOOLEAN]
TypeOK ==
    /\ lockPath \in 0..inodes /\ inodes \in 0..MaxInodes
    /\ held \in [1..MaxInodes -> Process \cup {None}]
    /\ proc \in [Process -> ProcessType]
    /\ \A p \in Process :
          /\ proc[p].temp <= Len(files)
          /\ proc[p].temp # 0 <=> proc[p].at \in Holds
    /\ files \in Seq(FileType)
    /\ state \in possible /\ possible \subseteq 0..Len(files)
    /\ temps \subseteq 1..Len(files) /\ loose \subseteq 1..Len(files)
    /\ out \in Position /\ kept \in 0..out
    /\ answered \in Position \cup {Missing}
    /\ errors \in 0..MaxEnds /\ stops \in 0..MaxEnds /\ deaths \in 0..MaxDeaths

(* One collector for each input: from the acquisition of the lock to its   *)
(* release no other process gets past AcquireFileLock, whoever created,    *)
(* opened or released the lock file meanwhile (FileLock, "remains on disk  *)
(* after Close so another process cannot race with unlink and recreation").*)
OneCollector == \A p, q \in Process : Owns(p) /\ Owns(q) => p = q

(* Whatever a power failure leaves, the checkpoint is whole and does not   *)
(* pass the durable output (persist, saveState).                           *)
NeverAhead ==
    \A f \in possible : \A pos \in Survivors(f) : pos <= kept

(* A save that was answered survives (saveState, directory.Sync).          *)
AnsweredSurvives ==
    \A f \in possible : \A pos \in Survivors(f) : pos >= answered

(* A save leaves a temporary file only when it fails or the process dies,  *)
(* and one at most, whatever unlinks and renames a power failure undoes:   *)
(* the saves that are answered, which have no end, leave none (saveState;  *)
(* that of a save which is going on is not counted).                       *)
LeftoversBounded ==
    Cardinality(temps \ {proc[p].temp : p \in Process}) <= errors + deaths

(* The checkpoint is replaced atomically (SaveCheckpoint): AtomicFile is   *)
(* implemented, with what a reader finds as its value.                     *)
File == INSTANCE AtomicFile WITH
    Value <- Position \cup {Missing},
    value <- Found(state),
    possible <- UNION {Survivors(f) : f \in possible}
AtomicReplacement == File!Spec

(* However processes are started, stopped and killed, the input is in the  *)
(* end handled and saved (runContext, persist).  A rename whose sync was   *)
(* cut off by a death is not synced by the next process, which finds its   *)
(* position saved already, so that more cannot be said of `possible`.      *)
SavedAtLast == <>[](Found(state) = MaxLines)

=============================================================================
