-------------------------- MODULE StateFileProofs --------------------------
(***************************************************************************)
(* What StateFile guarantees for any number of processes, lines, errors,   *)
(* deaths and power failures: one collector at a time, a checkpoint that   *)
(* is durable once answered and never ahead of the output, and the         *)
(* implementation of AtomicFile.                                           *)
(*                                                                         *)
(* The argument: as the lock file is never removed, every descriptor is of *)
(* the one inode, and its holder is the only process past AcquireFileLock; *)
(* so the only one that saves.  Therefore the temporary file of a save is  *)
(* nobody else's, and it is synced, with the position it was meant for,    *)
(* when it is renamed over the checkpoint.                                 *)
(***************************************************************************)
EXTENDS StateFile, SequenceTheorems, FiniteSetTheorems, TLAPS

LockInv ==
    /\ lockPath = inodes /\ inodes <= 1
    /\ \A p \in Process : proc[p].at # "down" => proc[p].fd = 1 /\ inodes = 1
    /\ \A p \in Process : Owns(p) => held[1] = p

\* Every file that may be found is whole, and between what was answered and
\* what is durable.
FilesInv ==
    \A f \in possible :
        /\ answered <= Found(f)
        /\ f # 0 => files[f].synced /\ files[f].pos <= kept

\* The process that saves, at each step of it.
SaverOK(p) ==
    /\ proc[p].at \in {"down", "opened", "starting"} => proc[p].pos = 0 /\ proc[p].last = Missing
    /\ proc[p].at \in {"running", "commit"} => proc[p].pos <= out
    /\ proc[p].at \in Saving \ {"commit"} => proc[p].pos <= kept
    /\ proc[p].at \in {"running"} \cup (Saving \ {"settle"}) => proc[p].last = Found(state)
    /\ proc[p].at = "running" => proc[p].pos >= proc[p].last
    /\ proc[p].at \in Saving => proc[p].pos > proc[p].last
    /\ proc[p].at \in Holds \ {"settle"} => proc[p].temp \notin possible
    /\ proc[p].at \in {"sync", "rename"} => files[proc[p].temp].pos = proc[p].pos
    /\ proc[p].at = "rename" => files[proc[p].temp].synced
    /\ proc[p].at = "settle" => state = proc[p].temp /\ Found(state) = proc[p].pos
SaverInv == \A p \in Process : SaverOK(p)

Safe == TypeOK /\ LockInv /\ FilesInv /\ SaverInv

USE StateFileAssumption DEF Position, Missing, Damaged, Holds

-----------------------------------------------------------------------------
(* What the actions do to a process.                                       *)

Turns(p, at, fd, pos, last, temp) ==
    /\ proc' \in [Process -> ProcessType]
    /\ proc'[p].at = at /\ proc'[p].fd = fd /\ proc'[p].pos = pos
    /\ proc'[p].last = last /\ proc'[p].temp = temp
    /\ \A q \in Process : q # p => proc'[q] = proc[q]

LEMMA Turning ==
    ASSUME proc \in [Process -> ProcessType], NEW p \in Process, NEW r \in ProcessType,
           proc' = [proc EXCEPT ![p] = r]
    PROVE  Turns(p, r.at, r.fd, r.pos, r.last, r.temp)
  BY DEF Turns

\* Only the place changes.
LEMMA Going ==
    ASSUME TypeOK, NEW p \in Process, NEW to \in Place, Goes(p, to)
    PROVE  Turns(p, to, proc[p].fd, proc[p].pos, proc[p].last, proc[p].temp)
<1> DEFINE r == [proc[p] EXCEPT !.at = to]
<1>1. proc[p] \in ProcessType /\ proc \in [Process -> ProcessType]
  BY DEF TypeOK
<1>2. /\ r \in ProcessType /\ r.at = to /\ r.fd = proc[p].fd
      /\ r.pos = proc[p].pos /\ r.last = proc[p].last /\ r.temp = proc[p].temp
  BY <1>1 DEF ProcessType
<1>3. proc' = [proc EXCEPT ![p] = r]
  BY DEF Goes
<1> HIDE DEF r
<1>4. QED
  BY <1>1, <1>2, <1>3, Turning

LEMMA Downing ==
    ASSUME TypeOK, NEW p \in Process, proc' = [proc EXCEPT ![p] = Down]
    PROVE  Turns(p, "down", 0, 0, Missing, 0)
<1>1. /\ Down \in ProcessType /\ Down.at = "down" /\ Down.fd = 0
      /\ Down.pos = 0 /\ Down.last = Missing /\ Down.temp = 0
  BY DEF Down, ProcessType, Place
<1>2. QED
  BY <1>1, Turning DEF TypeOK

LEMMA Opens ==
    ASSUME TypeOK, NEW p \in Process, OpenLock(p)
    PROVE  /\ Turns(p, "opened", lockPath', proc[p].pos, proc[p].last, proc[p].temp)
           /\ lockPath' \in 0..inodes' /\ inodes' \in 0..MaxInodes
<1>1. lockPath' \in 0..inodes' /\ inodes' \in 0..MaxInodes
  <2>1. lockPath \in 0..inodes /\ inodes \in 0..MaxInodes
    BY DEF TypeOK
  <2>2. \/ UNCHANGED <<lockPath, inodes>>
        \/ inodes < MaxInodes /\ inodes' = inodes + 1 /\ lockPath' = inodes'
    BY DEF OpenLock, locks
  <2>3. QED
    BY <2>1, <2>2, StateFileAssumption
<1> DEFINE r == [proc[p] EXCEPT !.at = "opened", !.fd = lockPath']
<1>2. proc[p] \in ProcessType /\ proc \in [Process -> ProcessType]
  BY DEF TypeOK
<1>3. lockPath' \in 0..MaxInodes
  BY <1>1
<1>4. /\ r \in ProcessType /\ r.at = "opened" /\ r.fd = lockPath'
      /\ r.pos = proc[p].pos /\ r.last = proc[p].last /\ r.temp = proc[p].temp
  BY <1>2, <1>3 DEF ProcessType, Place
<1>5. proc' = [proc EXCEPT ![p] = r]
  BY DEF OpenLock
<1> HIDE DEF r
<1>6. QED
  BY <1>1, <1>2, <1>4, <1>5, Turning

LEMMA FileTypes ==
    ASSUME TypeOK, NEW f \in 0..Len(files)
    PROVE  /\ Found(f) \in Position \cup {Missing, Damaged}
           /\ f # 0 => files[f] \in FileType
<1>1. files \in Seq(FileType) /\ Len(files) \in Nat
  BY DEF TypeOK
<1>5. f # 0 => files[f] \in FileType
  BY <1>1, ElementOfSeq
<1>6. \A x \in FileType : x.pos \in Position \cup {Damaged}
  BY DEF FileType
<1>2. f = 0 => Found(f) = -1
  BY DEF Found
<1>3. f # 0 => Found(f) = files[f].pos
  BY DEF Found
<1>4. QED
  BY <1>5, <1>6, <1>2, <1>3

LEMMA Loads ==
    ASSUME TypeOK, NEW p \in Process, Load(p)
    PROVE  \/ Found(state) = Damaged
              /\ Turns(p, "closing", proc[p].fd, proc[p].pos, proc[p].last, proc[p].temp)
           \/ Found(state) = Missing
              /\ Turns(p, "commit", proc[p].fd, proc[p].pos, proc[p].last, proc[p].temp)
           \/ Found(state) \in Position
              /\ Turns(p, "running", proc[p].fd, Found(state), Found(state), proc[p].temp)
<1>1. Found(state) \in Position \cup {Missing, Damaged}
  <2>1. state \in 0..Len(files)
    BY DEF TypeOK
  <2>2. QED
    BY <2>1, FileTypes
<1>2. CASE Found(state) = Damaged
  <2>1. Goes(p, "closing")
    BY <1>2 DEF Load, Goes
  <2>2. QED
    BY <1>2, <2>1, Going DEF Place
<1>5. CASE Found(state) = Missing
  <2>1. Goes(p, "commit")
    BY <1>5 DEF Load, Goes
  <2>2. QED
    BY <1>5, <2>1, Going DEF Place, Saving
<1>3. CASE Found(state) \notin {Damaged, Missing}
  <2> DEFINE found == Found(state)
             r == [proc[p] EXCEPT !.at = "running", !.pos = found, !.last = found]
  <2>1. proc[p] \in ProcessType /\ proc \in [Process -> ProcessType] /\ found \in Position
    BY <1>1, <1>3 DEF TypeOK
  <2>2. proc' = [proc EXCEPT ![p] = r]
    BY <1>3 DEF Load
  <2> HIDE DEF found
  <2>3. /\ r \in ProcessType /\ r.at = "running" /\ r.fd = proc[p].fd
        /\ r.pos = found /\ r.last = found /\ r.temp = proc[p].temp
    BY <2>1 DEF ProcessType, Place
  <2> HIDE DEF r
  <2>4. Turns(p, "running", proc[p].fd, found, found, proc[p].temp)
    BY <2>1, <2>2, <2>3, Turning
  <2>5. QED
    BY <2>1, <2>4 DEF found
<1>4. QED
  BY <1>2, <1>3, <1>5

LEMMA Handles ==
    ASSUME TypeOK, NEW p \in Process, Handle(p)
    PROVE  Turns(p, "running", proc[p].fd, proc[p].pos + 1, proc[p].last, proc[p].temp)
<1> DEFINE r == [proc[p] EXCEPT !.pos = proc[p].pos + 1]
<1>1. proc[p] \in ProcessType /\ proc \in [Process -> ProcessType]
  BY DEF TypeOK
<1>2. proc[p].at = "running" /\ proc[p].pos < MaxLines /\ proc' = [proc EXCEPT ![p] = r]
  BY <1>1 DEF Handle
<1>3. /\ r \in ProcessType /\ r.at = "running" /\ r.fd = proc[p].fd
      /\ r.pos = proc[p].pos + 1 /\ r.last = proc[p].last /\ r.temp = proc[p].temp
  BY <1>1, <1>2 DEF ProcessType
<1> HIDE DEF r
<1>4. QED
  BY <1>1, <1>2, <1>3, Turning

\* The place and the temporary file change.
LEMMA Handling ==
    ASSUME TypeOK, NEW p \in Process, NEW to \in Place, NEW f \in Nat,
           proc' = [proc EXCEPT ![p].at = to, ![p].temp = f]
    PROVE  Turns(p, to, proc[p].fd, proc[p].pos, proc[p].last, f)
<1> DEFINE r == [proc[p] EXCEPT !.at = to, !.temp = f]
<1>1. proc[p] \in ProcessType /\ proc \in [Process -> ProcessType]
  BY DEF TypeOK
<1>2. /\ r \in ProcessType /\ r.at = to /\ r.fd = proc[p].fd
      /\ r.pos = proc[p].pos /\ r.last = proc[p].last /\ r.temp = f
  BY <1>1 DEF ProcessType
<1>3. proc' = [proc EXCEPT ![p] = r]
  OBVIOUS
<1> HIDE DEF r
<1>4. QED
  BY <1>1, <1>2, <1>3, Turning

LEMMA GivingUp ==
    ASSUME TypeOK, NEW p \in Process, GivesUp(p)
    PROVE  Turns(p, "closing", proc[p].fd, proc[p].pos, proc[p].last, 0)
  BY Handling DEF GivesUp, Place

\* An error counts as one end.
LEMMA Failures ==
    ASSUME TypeOK, Failing
    PROVE  /\ errors' = errors + 1 /\ UNCHANGED <<stops, deaths>>
           /\ errors' \in 0..MaxEnds /\ stops' \in 0..MaxEnds
  BY DEF TypeOK, Failing, MayEnd

LEMMA Answers ==
    ASSUME TypeOK, NEW p \in Process, Answer(p)
    PROVE  Turns(p, "running", proc[p].fd, proc[p].pos, proc[p].pos, 0)
<1> DEFINE r == [proc[p] EXCEPT !.at = "running", !.last = proc[p].pos, !.temp = 0]
<1>1. proc[p] \in ProcessType /\ proc \in [Process -> ProcessType]
  BY DEF TypeOK
<1>2. /\ r \in ProcessType /\ r.at = "running" /\ r.fd = proc[p].fd
      /\ r.pos = proc[p].pos /\ r.last = proc[p].pos /\ r.temp = 0
  BY <1>1 DEF ProcessType, Place
<1>3. proc' = [proc EXCEPT ![p] = r]
  BY DEF Answer
<1> HIDE DEF r
<1>4. QED
  BY <1>1, <1>2, <1>3, Turning

-----------------------------------------------------------------------------
(* What they do to the files.                                              *)

Only(t) ==   \* no file but t changes
    /\ files' \in Seq(FileType) /\ Len(files') = Len(files)
    /\ \A f \in 1..Len(files) : f # t => files'[f] = files[f]

LEMMA Creates ==
    ASSUME TypeOK, NEW p \in Process, CreateTemporary(p)
    PROVE  /\ files' \in Seq(FileType) /\ Len(files') = Len(files) + 1
           /\ \A f \in 1..Len(files) : files'[f] = files[f]
<1> DEFINE new == [pos |-> Damaged, synced |-> TRUE]
<1>1. new \in FileType
  BY DEF FileType
<1>2. files' = Append(files, new) /\ files \in Seq(FileType)
  BY DEF CreateTemporary, TypeOK
<1> HIDE DEF new
<1>3. QED
  BY <1>1, <1>2, AppendProperties

LEMMA Replaces ==
    ASSUME TypeOK, NEW t \in 1..Len(files), NEW r \in FileType, files' = [files EXCEPT ![t] = r]
    PROVE  Only(t) /\ files'[t] = r
<1>1. files \in Seq(FileType)
  BY DEF TypeOK
<1>2. QED
  BY <1>1, ExceptSeq DEF Only

\* A process that writes, syncs or renames has a temporary file.
LEMMA Holding ==
    ASSUME TypeOK, NEW p \in Process, proc[p].at \in Holds
    PROVE  proc[p].temp \in 1..Len(files) /\ files[proc[p].temp] \in FileType
           /\ proc[p].pos \in Position
<1>1. proc[p] \in ProcessType /\ files \in Seq(FileType) /\ Len(files) \in Nat
  BY DEF TypeOK
<1>2. proc[p].temp \in Nat /\ proc[p].pos \in Position
  BY <1>1 DEF ProcessType
<1>3. proc[p].temp \in 1..Len(files)
  BY <1>1, <1>2 DEF TypeOK
<1>4. QED
  BY <1>1, <1>2, <1>3, ElementOfSeq

LEMMA Writes ==
    ASSUME TypeOK, NEW p \in Process, WriteTemporary(p)
    PROVE  /\ Only(proc[p].temp)
           /\ files'[proc[p].temp].pos = proc[p].pos
<1> DEFINE r == [pos |-> proc[p].pos, synced |-> FALSE]
<1>1. proc[p].temp \in 1..Len(files) /\ proc[p].pos \in Position
  BY Holding DEF WriteTemporary
<1>2. r \in FileType /\ r.pos = proc[p].pos
  BY <1>1 DEF FileType
<1>3. files' = [files EXCEPT ![proc[p].temp] = r]
  BY DEF WriteTemporary
<1> HIDE DEF r
<1>4. QED
  BY <1>1, <1>2, <1>3, Replaces

LEMMA Syncs ==
    ASSUME TypeOK, NEW p \in Process, SyncTemporary(p)
    PROVE  /\ Only(proc[p].temp)
           /\ files'[proc[p].temp].pos = files[proc[p].temp].pos
           /\ files'[proc[p].temp].synced
<1> DEFINE r == [files[proc[p].temp] EXCEPT !.synced = TRUE]
<1>1. proc[p].temp \in 1..Len(files) /\ files[proc[p].temp] \in FileType
  BY Holding DEF SyncTemporary
<1>2. r \in FileType /\ r.pos = files[proc[p].temp].pos /\ r.synced
  BY <1>1 DEF FileType
<1>3. files' = [files EXCEPT ![proc[p].temp] = r]
  BY <1>1 DEF SyncTemporary
<1> HIDE DEF r
<1>4. QED
  BY <1>1, <1>2, <1>3, Replaces

LEMMA PowerFails ==
    ASSUME TypeOK, PowerFailure
    PROVE  /\ files' \in Seq(FileType) /\ Len(files') = Len(files)
           /\ \A f \in 1..Len(files) :
                 files'[f].synced /\ (f # state' => files'[f].pos = files[f].pos)
           /\ state' # 0 => files'[state'].pos \in Survivors(state')
           /\ state' \in 0..Len(files)
<1>1. PICK hold \in Survivors(state') :
          files' = [f \in DOMAIN files |-> [pos |-> IF f = state' THEN hold ELSE files[f].pos,
                                            synced |-> TRUE]]
  BY DEF PowerFailure
<1>2. files \in Seq(FileType) /\ Len(files) \in Nat /\ DOMAIN files = 1..Len(files)
  BY DEF TypeOK
<1>3. state' \in 0..Len(files)
  BY DEF TypeOK, PowerFailure
<1>4. state' # 0 => hold \in Position \cup {Damaged}
  <2>1. CASE state' # 0
    <3>1. Found(state') \in Position \cup {Damaged}
      BY <1>3, <2>1, FileTypes DEF Found, FileType
    <3>2. QED
      BY <3>1 DEF Survivors
  <2>2. QED
    BY <2>1
<1>5. \A f \in 1..Len(files) : [pos |-> IF f = state' THEN hold ELSE files[f].pos,
                                synced |-> TRUE] \in FileType
  <2>1. \A f \in 1..Len(files) : files[f] \in FileType
    BY <1>2, ElementOfSeq
  <2>2. \A x \in FileType : x.pos \in Position \cup {Damaged}
    BY DEF FileType
  <2>3. \A pos \in Position \cup {Damaged} : [pos |-> pos, synced |-> TRUE] \in FileType
    BY DEF FileType
  <2>4. QED
    BY <1>4, <2>1, <2>2, <2>3
<1>6. files' \in [1..Len(files) -> FileType]
  BY <1>1, <1>2, <1>5
<1>7. files' \in Seq(FileType) /\ Len(files') = Len(files)
  BY <1>2, <1>6
<1>8. \A f \in 1..Len(files) :
          /\ files'[f].synced /\ (f # state' => files'[f].pos = files[f].pos)
          /\ f = state' => files'[f].pos = hold
  BY <1>1, <1>2
<1>9. QED
  BY <1>3, <1>7, <1>8, <1>1

-----------------------------------------------------------------------------
(* Types.                                                                  *)

LEMMA TypeInit == Init => TypeOK
  BY DEF Init, TypeOK, Down, Saving, ProcessType, Place

\* The parts of TypeOK: the processes, and the rest.
ProcTypes ==
    /\ proc \in [Process -> ProcessType]
    /\ \A p \in Process :
          /\ proc[p].temp <= Len(files)
          /\ proc[p].temp # 0 <=> proc[p].at \in Holds
LockTypes ==
    /\ lockPath \in 0..inodes /\ inodes \in 0..MaxInodes
    /\ held \in [1..MaxInodes -> Process \cup {None}]
DiskTypes ==
    /\ files \in Seq(FileType)
    /\ state \in possible /\ possible \subseteq 0..Len(files)
    /\ temps \subseteq 1..Len(files) /\ loose \subseteq 1..Len(files)
RestTypes ==
    /\ out \in Position /\ kept \in 0..out
    /\ answered \in Position \cup {Missing}
    /\ errors \in 0..MaxEnds /\ stops \in 0..MaxEnds /\ deaths \in 0..MaxDeaths

LEMMA TypeParts == TypeOK <=> ProcTypes /\ LockTypes /\ DiskTypes /\ RestTypes
  BY DEF TypeOK, ProcTypes, LockTypes, DiskTypes, RestTypes

LEMMA TypePartsNext == ProcTypes' /\ LockTypes' /\ DiskTypes' /\ RestTypes' => TypeOK'
  BY DEF TypeOK, ProcTypes, LockTypes, DiskTypes, RestTypes

LEMMA TypesTurn ==
    ASSUME TypeOK, NEW p \in Process, NEW at, NEW fd, NEW pos, NEW last, NEW temp,
           Turns(p, at, fd, pos, last, temp),
           Len(files) <= Len(files'), Len(files) \in Nat, Len(files') \in Nat,
           temp <= Len(files'), temp # 0 <=> at \in Holds
    PROVE  ProcTypes'
<1>1. \A q \in Process : proc[q].temp \in Nat
  BY DEF TypeOK, ProcessType
<1>2. QED
  BY <1>1 DEF TypeOK, Turns, ProcTypes

LEMMA TypeStep == TypeOK /\ [Next]_vars => TypeOK'
<1> SUFFICES ASSUME TypeOK, [Next]_vars PROVE TypeOK'
  OBVIOUS
<1>0. /\ files \in Seq(FileType) /\ Len(files) \in Nat
      /\ \A p \in Process :
            /\ proc[p].temp \in Nat /\ proc[p].temp <= Len(files)
            /\ proc[p].fd \in 0..MaxInodes /\ proc[p].pos \in Position
            /\ proc[p].temp # 0 <=> proc[p].at \in Holds
  BY DEF TypeOK, ProcessType
<1>1. CASE UNCHANGED vars
  BY <1>1 DEF vars, locks, disk, output, faults, TypeOK
<1>2. ASSUME NEW p \in Process, OpenLock(p) PROVE TypeOK'
  <2>1. UNCHANGED <<disk, output, answered, faults>> /\ proc[p].at = "down"
        /\ held' \in [1..MaxInodes -> Process \cup {None}]
    BY <1>2 DEF OpenLock, locks, TypeOK
  <2>2. ProcTypes'
    BY <1>0, <1>2, <2>1, Opens, TypesTurn DEF disk
  <2>3. LockTypes' /\ DiskTypes' /\ RestTypes'
    BY <1>0, <1>2, <2>1, Opens, TypeParts DEF LockTypes, DiskTypes, RestTypes, disk, output, faults
  <2>4. QED
    BY <2>2, <2>3, TypePartsNext
<1>3. ASSUME NEW p \in Process, LockBusy(p) PROVE TypeOK'
  <2>1. UNCHANGED <<locks, disk, output, answered, faults>>
    BY <1>3 DEF LockBusy
  <2>2. Turns(p, "down", 0, 0, Missing, 0)
    BY <1>3, Downing DEF LockBusy
  <2>3. ProcTypes'
    BY <1>0, <2>1, <2>2, TypesTurn DEF disk
  <2>4. LockTypes' /\ DiskTypes' /\ RestTypes'
    BY <1>0, <2>1, <2>2, TypeParts DEF LockTypes, DiskTypes, RestTypes, locks, disk, output, faults
  <2>5. QED
    BY <2>3, <2>4, TypePartsNext
<1>4. ASSUME NEW p \in Process, TryLock(p) PROVE TypeOK'
  <2>1. UNCHANGED <<lockPath, inodes, disk, output, answered, faults>> /\ proc[p].at = "opened"
        /\ held' \in [1..MaxInodes -> Process \cup {None}]
    BY <1>4 DEF TryLock, TypeOK
  <2>2. Turns(p, "starting", proc[p].fd, proc[p].pos, proc[p].last, proc[p].temp)
    BY <1>4, Going DEF TryLock, Place
  <2>3. ProcTypes'
    BY <1>0, <2>1, <2>2, TypesTurn DEF disk
  <2>4. LockTypes' /\ DiskTypes' /\ RestTypes'
    BY <1>0, <2>1, <2>2, TypeParts DEF LockTypes, DiskTypes, RestTypes, disk, output, faults
  <2>5. QED
    BY <2>3, <2>4, TypePartsNext
<1>5. ASSUME NEW p \in Process, Load(p) PROVE TypeOK'
  <2>1. UNCHANGED <<locks, disk, output, answered, faults>> /\ proc[p].at = "starting"
    BY <1>5 DEF Load
  <2>2. ProcTypes'
    BY <1>0, <1>5, <2>1, Loads, TypesTurn DEF disk
  <2>3. LockTypes' /\ DiskTypes' /\ RestTypes'
    BY <1>0, <1>5, <2>1, Loads, TypeParts DEF LockTypes, DiskTypes, RestTypes, locks, disk, output, faults
  <2>4. QED
    BY <2>2, <2>3, TypePartsNext
<1>6. ASSUME NEW p \in Process, Handle(p) PROVE TypeOK'
  <2>1. UNCHANGED <<locks, disk, kept, answered, faults>> /\ proc[p].at = "running"
    BY <1>6 DEF Handle
  <2>2. out' \in Position /\ kept \in 0..out'
    <3>1. proc[p].pos + 1 \in Position
      <4>1. proc[p] \in ProcessType
        BY DEF TypeOK
      <4>2. proc[p].pos \in Position
        BY <4>1 DEF ProcessType
      <4>3. proc[p].pos < MaxLines
        BY <1>6 DEF Handle
      <4> QED
        BY <4>2, <4>3
    <3>2. proc'[p].pos = proc[p].pos + 1
      BY <1>6, Handles DEF Turns
    <3>3. out' = IF proc'[p].pos > out THEN proc'[p].pos ELSE out
      BY <1>6 DEF Handle
    <3>4. out \in Position /\ kept \in 0..out
      BY DEF TypeOK
    <3> QED
      BY <3>1, <3>2, <3>3, <3>4
  <2>3. ProcTypes'
    BY <1>0, <1>6, <2>1, <2>2, Handles, TypesTurn DEF disk
  <2>4. LockTypes' /\ DiskTypes' /\ RestTypes'
    BY <1>0, <1>6, <2>1, <2>2, Handles, TypeParts DEF LockTypes, DiskTypes, RestTypes, locks, disk, faults
  <2>5. QED
    BY <2>3, <2>4, TypePartsNext
<1>7. ASSUME NEW p \in Process, BeginSave(p) PROVE TypeOK'
  <2>1. UNCHANGED <<locks, disk, output, answered, faults>> /\ proc[p].at = "running"
    BY <1>7 DEF BeginSave
  <2>2. Turns(p, "commit", proc[p].fd, proc[p].pos, proc[p].last, proc[p].temp)
    BY <1>7, Going DEF BeginSave, Place, Saving
  <2>3. ProcTypes'
    BY <1>0, <2>1, <2>2, TypesTurn DEF disk
  <2>4. LockTypes' /\ DiskTypes' /\ RestTypes'
    BY <1>0, <2>1, <2>2, TypeParts DEF LockTypes, DiskTypes, RestTypes, locks, disk, output, faults
  <2>5. QED
    BY <2>3, <2>4, TypePartsNext
<1>8. ASSUME NEW p \in Process, CommitOutput(p) PROVE TypeOK'
  <2>1. UNCHANGED <<locks, disk, out, answered, faults>> /\ proc[p].at = "commit" /\ kept' = out
    BY <1>8 DEF CommitOutput
  <2>2. Turns(p, "create", proc[p].fd, proc[p].pos, proc[p].last, proc[p].temp)
    BY <1>8, Going DEF CommitOutput, Place, Saving
  <2>3. ProcTypes'
    BY <1>0, <2>1, <2>2, TypesTurn DEF disk
  <2>6. out \in Position /\ out \in 0..out
    BY DEF TypeOK
  <2>4. LockTypes' /\ DiskTypes' /\ RestTypes'
    BY <2>1, <2>6, TypeParts DEF LockTypes, DiskTypes, RestTypes, locks, disk, faults
  <2>5. QED
    BY <2>3, <2>4, TypePartsNext
<1>9. ASSUME NEW p \in Process, CreateTemporary(p) PROVE TypeOK'
  <2>1. /\ UNCHANGED <<locks, state, possible, output, answered, faults>>
        /\ temps' = temps \cup {Len(files')} /\ loose' = loose \cup {Len(files')}
    BY <1>9 DEF CreateTemporary
  <2>2. files' \in Seq(FileType) /\ Len(files') = Len(files) + 1
    BY <1>9, Creates
  <2>3. proc' = [proc EXCEPT ![p].at = "entry", ![p].temp = Len(files')]
    BY <1>9 DEF CreateTemporary
  <2>4. Turns(p, "entry", proc[p].fd, proc[p].pos, proc[p].last, Len(files'))
    <3>1. "entry" \in Place /\ Len(files') \in Nat
      BY <1>0, <2>2 DEF Place, Saving
    <3>2. QED
      BY <2>3, <3>1, Handling
  <2>5. ProcTypes'
    BY <1>0, <2>1, <2>2, <2>4, TypesTurn
  <2>6. LockTypes' /\ RestTypes'
    BY <2>1, TypeParts DEF LockTypes, RestTypes, locks, output, faults
  <2>7. DiskTypes'
    <3>1. DiskTypes /\ Len(files) \in Nat
      BY <1>0, TypeParts DEF DiskTypes
    <3>2. /\ Len(files') \in 1..Len(files') /\ 0..Len(files) \subseteq 0..Len(files')
          /\ 1..Len(files) \subseteq 1..Len(files')
      BY <2>2, <3>1
    <3>3. state' \in possible' /\ possible' \subseteq 0..Len(files')
      BY <2>1, <3>1, <3>2 DEF DiskTypes
    <3>4. temps' \subseteq 1..Len(files') /\ loose' \subseteq 1..Len(files')
      BY <2>1, <3>1, <3>2 DEF DiskTypes
    <3>5. QED
      BY <2>2, <3>2, <3>3, <3>4 DEF DiskTypes
  <2>8. QED
    BY <2>5, <2>6, <2>7, TypePartsNext
<1>21. ASSUME NEW p \in Process, SyncEntry(p) PROVE TypeOK'
  <2>1. UNCHANGED <<locks, files, state, temps, output, answered, faults>>
        /\ possible' = {state} /\ loose' = {} /\ proc[p].at = "entry"
    BY <1>21 DEF SyncEntry, DirectorySynced
  <2>2. Turns(p, "write", proc[p].fd, proc[p].pos, proc[p].last, proc[p].temp)
    BY <1>21, Going DEF SyncEntry, Place, Saving
  <2>3. ProcTypes'
    BY <1>0, <2>1, <2>2, TypesTurn
  <2>4. LockTypes' /\ DiskTypes' /\ RestTypes'
    BY <2>1, TypeParts DEF LockTypes, DiskTypes, RestTypes, locks, output, faults
  <2>5. QED
    BY <2>3, <2>4, TypePartsNext
<1>22. ASSUME NEW p \in Process, OpenFails(p) PROVE TypeOK'
  <2>1. UNCHANGED <<locks, disk, output, answered>> /\ GivesUp(p) /\ Failing
    BY <1>22 DEF OpenFails
  <2>2. Turns(p, "closing", proc[p].fd, proc[p].pos, proc[p].last, 0)
    BY <2>1, GivingUp
  <2>3. ProcTypes'
    BY <1>0, <2>1, <2>2, TypesTurn DEF disk
  <2>4. LockTypes' /\ DiskTypes' /\ RestTypes'
    BY <1>0, <2>1, Failures, TypeParts DEF LockTypes, DiskTypes, RestTypes, locks, disk, output
  <2>5. QED
    BY <2>3, <2>4, TypePartsNext
<1>10. ASSUME NEW p \in Process, WriteTemporary(p) PROVE TypeOK'
  <2>1. UNCHANGED <<locks, state, possible, temps, loose, output, answered, faults>>
        /\ proc[p].at = "write"
    BY <1>10 DEF WriteTemporary
  <2>2. Turns(p, "sync", proc[p].fd, proc[p].pos, proc[p].last, proc[p].temp)
    BY <1>10, Going DEF WriteTemporary, Place, Saving
  <2>3. ProcTypes'
    BY <1>0, <1>10, <2>1, <2>2, Writes, TypesTurn DEF Only
  <2>4. LockTypes' /\ DiskTypes' /\ RestTypes'
    BY <1>0, <1>10, <2>1, <2>2, Writes, TypeParts DEF LockTypes, DiskTypes, RestTypes, locks, output, faults, Only
  <2>5. QED
    BY <2>3, <2>4, TypePartsNext
<1>11. ASSUME NEW p \in Process, SyncTemporary(p) PROVE TypeOK'
  <2>1. UNCHANGED <<locks, state, possible, temps, loose, output, answered, faults>>
        /\ proc[p].at = "sync"
    BY <1>11 DEF SyncTemporary
  <2>2. Turns(p, "rename", proc[p].fd, proc[p].pos, proc[p].last, proc[p].temp)
    BY <1>11, Going DEF SyncTemporary, Place, Saving
  <2>3. ProcTypes'
    BY <1>0, <1>11, <2>1, <2>2, Syncs, TypesTurn DEF Only
  <2>4. LockTypes' /\ DiskTypes' /\ RestTypes'
    BY <1>0, <1>11, <2>1, <2>2, Syncs, TypeParts DEF LockTypes, DiskTypes, RestTypes, locks, output, faults, Only
  <2>5. QED
    BY <2>3, <2>4, TypePartsNext
<1>12. ASSUME NEW p \in Process, Rename(p) PROVE TypeOK'
  <2>1. /\ UNCHANGED <<locks, files, loose, output, answered, faults>> /\ proc[p].at = "rename"
        /\ state' = proc[p].temp /\ temps' = temps \ {state'} /\ possible' = possible \cup {state'}
    BY <1>12 DEF Rename
  <2>2. Turns(p, "settle", proc[p].fd, proc[p].pos, proc[p].last, proc[p].temp)
    BY <1>12, Going DEF Rename, Place, Saving
  <2>3. ProcTypes'
    BY <1>0, <2>1, <2>2, TypesTurn
  <2>4. LockTypes' /\ RestTypes'
    BY <2>1, TypeParts DEF LockTypes, RestTypes, locks, output, faults
  <2>5. DiskTypes'
    <3>1. state' \in 0..Len(files)
      BY <1>0, <2>1, Holding
    <3>2. QED
      BY <2>1, <3>1, TypeParts DEF DiskTypes
  <2>6. QED
    BY <2>3, <2>4, <2>5, TypePartsNext
<1>13. ASSUME NEW p \in Process, SettleDirectory(p) PROVE TypeOK'
  <2>1. /\ UNCHANGED <<locks, files, state, temps, output, faults>>
        /\ possible' = {state} /\ loose' = {} /\ answered' = proc[p].pos
    BY <1>13 DEF SettleDirectory, DirectorySynced, Answer
  <2>2. Turns(p, "running", proc[p].fd, proc[p].pos, proc[p].pos, 0)
    BY <1>13, Answers DEF SettleDirectory
  <2>3. ProcTypes'
    BY <1>0, <2>1, <2>2, TypesTurn
  <2>4. LockTypes' /\ DiskTypes'
    BY <2>1, TypeParts DEF LockTypes, DiskTypes, locks
  <2>5. RestTypes'
    <3>1. proc[p].pos \in Position
      BY <1>0
    <3>2. QED
      BY <2>1, <3>1, TypeParts DEF RestTypes, output, faults
  <2>6. QED
    BY <2>3, <2>4, <2>5, TypePartsNext
<1>14. ASSUME NEW p \in Process, SaveFails(p) PROVE TypeOK'
  <2>1. /\ UNCHANGED <<locks, files, state, possible, output, answered>>
        /\ GivesUp(p) /\ Failing
    BY <1>14 DEF SaveFails
  <2>6. temps' \subseteq temps /\ loose' \subseteq loose \cup temps
    BY <1>14 DEF SaveFails
  <2>2. Turns(p, "closing", proc[p].fd, proc[p].pos, proc[p].last, 0)
    BY <2>1, GivingUp
  <2>3. ProcTypes'
    BY <1>0, <2>1, <2>2, TypesTurn
  <2>4. LockTypes' /\ DiskTypes' /\ RestTypes'
    BY <1>0, <2>1, <2>6, Failures, TypeParts DEF LockTypes, DiskTypes, RestTypes, locks, output
  <2>5. QED
    BY <2>3, <2>4, TypePartsNext
<1>15. ASSUME NEW p \in Process, Stop(p) PROVE TypeOK'
  <2>1. /\ UNCHANGED <<locks, disk, output, answered>> /\ proc[p].at = "running"
        /\ errors' \in 0..MaxEnds /\ stops' \in 0..MaxEnds /\ deaths' = deaths
    <3>1. errors \in 0..MaxEnds /\ stops \in 0..MaxEnds
      BY DEF TypeOK
    <3>2. /\ UNCHANGED <<locks, disk, output, answered>> /\ proc[p].at = "running"
          /\ errors + stops < MaxEnds /\ stops' = stops + 1 /\ errors' = errors /\ deaths' = deaths
      BY <1>15 DEF Stop, MayEnd
    <3>3. QED
      BY <3>1, <3>2, StateFileAssumption
  <2>2. Turns(p, "closing", proc[p].fd, proc[p].pos, proc[p].last, proc[p].temp)
    BY <1>15, Going DEF Stop, Place
  <2>3. ProcTypes'
    BY <1>0, <2>1, <2>2, TypesTurn DEF disk
  <2>4. LockTypes' /\ DiskTypes' /\ RestTypes'
    BY <1>0, <2>1, <2>2, TypeParts DEF LockTypes, DiskTypes, RestTypes, locks, disk, output
  <2>5. QED
    BY <2>3, <2>4, TypePartsNext
<1>16. ASSUME NEW p \in Process, CloseSink(p) PROVE TypeOK'
  <2>1. /\ UNCHANGED <<locks, disk, out, answered, faults>> /\ proc[p].at = "closing"
        /\ kept' \in 0..out
    BY <1>16 DEF CloseSink, TypeOK
  <2>2. Turns(p, "unlocking", proc[p].fd, proc[p].pos, proc[p].last, proc[p].temp)
    BY <1>16, Going DEF CloseSink, Place
  <2>3. ProcTypes'
    BY <1>0, <2>1, <2>2, TypesTurn DEF disk
  <2>4. LockTypes' /\ DiskTypes' /\ RestTypes'
    BY <1>0, <2>1, <2>2, TypeParts DEF LockTypes, DiskTypes, RestTypes, locks, disk, faults
  <2>5. QED
    BY <2>3, <2>4, TypePartsNext
<1>17. ASSUME NEW p \in Process, Unlock(p) PROVE TypeOK'
  <2>1. /\ UNCHANGED <<lockPath, inodes, disk, output, answered, faults>>
        /\ held' \in [1..MaxInodes -> Process \cup {None}]
    BY <1>17 DEF Unlock, TypeOK
  <2>2. Turns(p, "down", 0, 0, Missing, 0)
    BY <1>17, Downing DEF Unlock
  <2>3. ProcTypes'
    BY <1>0, <2>1, <2>2, TypesTurn DEF disk
  <2>4. LockTypes' /\ DiskTypes' /\ RestTypes'
    BY <1>0, <2>1, <2>2, TypeParts DEF LockTypes, DiskTypes, RestTypes, disk, output, faults
  <2>5. QED
    BY <2>3, <2>4, TypePartsNext
<1>18. ASSUME NEW p \in Process, Crash(p) PROVE TypeOK'
  <2>1. /\ UNCHANGED <<lockPath, inodes, disk, output, answered>>
        /\ held' \in [1..MaxInodes -> Process \cup {None}]
        /\ deaths' \in 0..MaxDeaths /\ UNCHANGED <<errors, stops>>
    BY <1>18 DEF Crash, Dying, TypeOK
  <2>2. Turns(p, "down", 0, 0, Missing, 0)
    BY <1>18, Downing DEF Crash
  <2>3. ProcTypes'
    BY <1>0, <2>1, <2>2, TypesTurn DEF disk
  <2>4. LockTypes' /\ DiskTypes' /\ RestTypes'
    BY <1>0, <2>1, <2>2, TypeParts DEF LockTypes, DiskTypes, RestTypes, disk, output
  <2>5. QED
    BY <2>3, <2>4, TypePartsNext
<1>19. CASE PowerFailure
  <2>1. /\ UNCHANGED <<lockPath, inodes, answered>>
        /\ held' \in [1..MaxInodes -> Process \cup {None}]
        /\ deaths' \in 0..MaxDeaths /\ UNCHANGED <<errors, stops>>
        /\ out' \in Position /\ kept' \in 0..out'
        /\ possible' = {state'} /\ loose' = {}
    BY <1>19 DEF PowerFailure, Dying, TypeOK
  <2>6. temps' \subseteq temps \cup loose \cup {f \in possible : f > state'}
    BY <1>19 DEF PowerFailure
  <2>2. /\ proc' \in [Process -> ProcessType]
        /\ \A q \in Process : proc'[q].temp = 0 /\ proc'[q].at = "down"
    BY <1>19 DEF PowerFailure, Down, ProcessType, Place
  <2>3. files' \in Seq(FileType) /\ Len(files') = Len(files) /\ state' \in 0..Len(files)
    BY <1>19, PowerFails
  <2>4. temps' \subseteq 1..Len(files)
    <3>1. \A f \in possible : f > state' => f \in 1..Len(files)
      BY <1>0, <2>3 DEF TypeOK
    <3> QED
      BY <3>1, <2>6, <2>3 DEF TypeOK
  <2>5. QED
    BY <1>0, <2>1, <2>2, <2>3, <2>4 DEF TypeOK
<1>20. QED
  BY <1>1, <1>2, <1>3, <1>4, <1>5, <1>6, <1>7, <1>8, <1>9, <1>10, <1>11, <1>12, <1>13,
     <1>14, <1>15, <1>16, <1>17, <1>18, <1>19, <1>21, <1>22 DEF Next, Step, Save, Fault

\* Every variable keeps its type, whatever the constants are (StateFile).
THEOREM TypeCorrect == Spec => []TypeOK
<1>1. QED
  BY TypeInit, TypeStep, PTL DEF Spec

-----------------------------------------------------------------------------
(* One collector.                                                          *)

LEMMA Alone ==
    ASSUME LockInv, NEW p \in Process, NEW q \in Process, Owns(p), Owns(q)
    PROVE  p = q
  BY DEF LockInv

LEMMA LockFirst ==
    ASSUME TypeOK, LockInv, NEW p \in Process, proc[p].at # "down"
    PROVE  1 \in 1..MaxInodes /\ proc[p].fd = 1 /\ lockPath = 1 /\ inodes = 1
  BY DEF TypeOK, LockInv

\* The steps between the acquisition of the lock and its release.
Inside(p) ==
    \/ Load(p) \/ Handle(p) \/ Save(p) \/ OpenFails(p) \/ SaveFails(p)
    \/ Stop(p) \/ CloseSink(p)

LEMMA Stays ==
    ASSUME TypeOK, NEW p \in Process, Inside(p)
    PROVE  /\ Owns(p) /\ UNCHANGED locks /\ proc'[p].fd = proc[p].fd
           /\ proc'[p].at \notin {"down", "opened"}
           /\ \A q \in Process : q # p => proc'[q] = proc[q]
<1>0. Len(files) \in Nat /\ files \in Seq(FileType)
  BY DEF TypeOK
<1>1. CASE Load(p)
  BY <1>1, Loads DEF Load, Turns, Owns
<1>2. CASE Handle(p)
  BY <1>2, Handles DEF Handle, Turns, Owns
<1>3. CASE BeginSave(p)
  BY <1>3, Going DEF BeginSave, Turns, Owns, Place, Saving
<1>4. CASE CommitOutput(p)
  BY <1>4, Going DEF CommitOutput, Turns, Owns, Place, Saving
<1>5. CASE CreateTemporary(p)
  <2>1. Len(files') \in Nat /\ "entry" \in Place
    BY <1>0, <1>5, Creates DEF Place, Saving
  <2>2. Turns(p, "entry", proc[p].fd, proc[p].pos, proc[p].last, Len(files'))
    BY <1>5, <2>1, Handling DEF CreateTemporary
  <2>3. QED
    BY <1>5, <2>2 DEF CreateTemporary, Turns, Owns
<1>14. CASE SyncEntry(p)
  BY <1>14, Going DEF SyncEntry, Turns, Owns, Place, Saving
<1>6. CASE WriteTemporary(p)
  BY <1>6, Going DEF WriteTemporary, Turns, Owns, Place, Saving
<1>7. CASE SyncTemporary(p)
  BY <1>7, Going DEF SyncTemporary, Turns, Owns, Place, Saving
<1>8. CASE Rename(p)
  BY <1>8, Going DEF Rename, Turns, Owns, Place, Saving
<1>9. CASE SettleDirectory(p)
  <2>1. Turns(p, "running", proc[p].fd, proc[p].pos, proc[p].pos, 0)
    BY <1>9, Answers DEF SettleDirectory
  <2>2. QED
    BY <1>9, <2>1 DEF SettleDirectory, Turns, Owns
<1>10. CASE OpenFails(p) \/ SaveFails(p)
  <2>1. Turns(p, "closing", proc[p].fd, proc[p].pos, proc[p].last, 0)
    BY <1>10, GivingUp DEF OpenFails, SaveFails
  <2>2. QED
    BY <1>10, <2>1 DEF OpenFails, SaveFails, Turns, Owns, Saving
<1>11. CASE Stop(p)
  BY <1>11, Going DEF Stop, Turns, Owns, Place, Saving
<1>12. CASE CloseSink(p)
  BY <1>12, Going DEF CloseSink, Turns, Owns, Place, Saving
<1>13. QED
  BY <1>1, <1>2, <1>3, <1>4, <1>5, <1>6, <1>7, <1>8, <1>9, <1>10, <1>11, <1>12, <1>14
     DEF Inside, Save

\* Every step is one of these.
LEMMA Steps ==
    ASSUME [Next]_vars
    PROVE  \/ UNCHANGED vars
           \/ \E p \in Process : OpenLock(p) \/ LockBusy(p) \/ TryLock(p) \/ Inside(p)
                                 \/ Unlock(p) \/ Crash(p)
           \/ PowerFailure
  BY DEF Next, Step, Fault, Inside

LEMMA LockStep == TypeOK /\ LockInv /\ [Next]_vars => LockInv'
<1> SUFFICES ASSUME TypeOK, LockInv, [Next]_vars PROVE LockInv'
  OBVIOUS
<1>1. CASE UNCHANGED vars
  BY <1>1 DEF vars, locks, LockInv, Owns
<1>2. ASSUME NEW p \in Process, OpenLock(p) PROVE LockInv'
  <2>1. lockPath' = 1 /\ inodes' = 1 /\ held' = held
    BY <1>2 DEF OpenLock, LockInv, TypeOK, locks
  <2>2. Turns(p, "opened", 1, proc[p].pos, proc[p].last, proc[p].temp)
    BY <1>2, <2>1, Opens
  <2>3. QED
    BY <2>1, <2>2 DEF LockInv, Owns, Turns
<1>3. ASSUME NEW p \in Process, LockBusy(p) PROVE LockInv'
  <2>1. UNCHANGED locks
    BY <1>3 DEF LockBusy
  <2>2. Turns(p, "down", 0, 0, Missing, 0)
    BY <1>3, Downing DEF LockBusy
  <2>3. QED
    BY <2>1, <2>2 DEF LockInv, Owns, Turns, locks
<1>4. ASSUME NEW p \in Process, TryLock(p) PROVE LockInv'
  <2>1. proc[p].at = "opened" /\ 1 \in 1..MaxInodes /\ proc[p].fd = 1 /\ inodes = 1
    BY <1>4, LockFirst DEF TryLock
  <2>2. held[1] = None /\ held'[1] = p /\ UNCHANGED <<lockPath, inodes>>
    BY <1>4, <2>1 DEF TryLock, TypeOK
  <2>3. Turns(p, "starting", proc[p].fd, proc[p].pos, proc[p].last, proc[p].temp)
    BY <1>4, Going DEF TryLock, Place
  <2>4. \A q \in Process : ~Owns(q)
    BY <2>2 DEF LockInv
  <2>5. QED
    BY <2>1, <2>2, <2>3, <2>4 DEF LockInv, Owns, Turns
<1>5. ASSUME NEW p \in Process, Inside(p) PROVE LockInv'
  BY <1>5, Stays DEF LockInv, Owns, locks
<1>6. ASSUME NEW p \in Process, Unlock(p) PROVE LockInv'
  <2>1. Owns(p) /\ UNCHANGED <<lockPath, inodes>>
    BY <1>6 DEF Unlock, Owns
  <2>2. Turns(p, "down", 0, 0, Missing, 0)
    BY <1>6, Downing DEF Unlock
  <2>3. \A q \in Process : q # p => ~Owns(q)
    BY <2>1, Alone
  <2>4. QED
    BY <2>1, <2>2, <2>3 DEF LockInv, Owns, Turns
<1>7. ASSUME NEW p \in Process, Crash(p) PROVE LockInv'
  <2>1. 1 \in 1..MaxInodes /\ UNCHANGED <<lockPath, inodes>>
    BY <1>7, LockFirst DEF Crash
  <2>2. Turns(p, "down", 0, 0, Missing, 0)
    BY <1>7, Downing DEF Crash
  <2>3. held'[1] = IF held[1] = p THEN None ELSE held[1]
    BY <1>7, <2>1 DEF Crash, TypeOK
  <2>4. QED
    BY <2>1, <2>2, <2>3 DEF LockInv, Owns, Turns
<1>8. CASE PowerFailure
  BY <1>8 DEF PowerFailure, Down, LockInv, Owns
<1>9. QED
  BY Steps, <1>1, <1>2, <1>3, <1>4, <1>5, <1>6, <1>7, <1>8

LEMMA LockInit == Init => LockInv
  BY DEF Init, LockInv, Owns, Down

(* One collector at a time, whatever the interleaving of starts, ends and  *)
(* deaths: the lock file keeps its inode (AcquireFileLock, FileLock.Close).*)
THEOREM LockHolds == Spec => []OneCollector
<1>1. TypeOK /\ LockInv => OneCollector
  BY Alone DEF OneCollector
<1>2. QED
  BY TypeInit, LockInit, TypeStep, LockStep, <1>1, PTL DEF Spec

-----------------------------------------------------------------------------
(* The saves.                                                              *)

\* Processes outside are no matter to the saves.
LEMMA Others ==
    ASSUME LockInv, SaverInv, NEW p \in Process, Owns(p),
           \A q \in Process : q # p => proc'[q] = proc[q]
    PROVE  \A q \in Process : q # p => SaverOK(q)'
<1>1. \A q \in Process : q # p => proc[q].at \in {"down", "opened"}
  BY Alone DEF Owns
<1>2. \A q \in Process : q # p => proc[q].pos = 0 /\ proc[q].last = Missing
  BY <1>1 DEF SaverInv, SaverOK
<1>3. QED
  BY <1>1, <1>2 DEF SaverOK, Saving

\* A process that is not inside keeps the files and the output.
LEMMA Idle ==
    ASSUME TypeOK, FilesInv, SaverInv, UNCHANGED <<disk, output, answered>>, NEW p \in Process,
           \A q \in Process : q # p => proc'[q] = proc[q],
           proc'[p].at \in {"down", "opened", "starting", "closing", "unlocking"},
           proc'[p].at \in {"down", "opened", "starting"}
              => proc'[p].pos = 0 /\ proc'[p].last = Missing
    PROVE  FilesInv' /\ SaverInv'
<1>1. FilesInv'
  BY DEF FilesInv, Found, disk, output
<1>2. SaverOK(p)'
  BY DEF SaverOK, Saving
<1>3. \A q \in Process : q # p => SaverOK(q)'
  BY DEF SaverInv, SaverOK, Found, disk, output
<1>4. QED
  BY <1>1, <1>2, <1>3 DEF SaverInv

\* What the files hold does not pass the output.
LEMMA Behind ==
    ASSUME TypeOK, FilesInv
    PROVE  /\ \A f \in possible : Found(f) \in Position \cup {Missing} /\ Found(f) <= kept
           /\ state \in possible /\ possible \subseteq 0..Len(files)
           /\ kept \in Position /\ out \in Position /\ kept <= out
<1>1. kept \in Position /\ out \in Position /\ kept <= out
  BY DEF TypeOK
<1>2. \A f \in possible : Found(f) \in Position \cup {Missing, Damaged}
  BY FileTypes DEF TypeOK
<1>3. \A f \in possible : Found(f) <= kept
  BY <1>1 DEF FilesInv, Found
<1>4. QED
  BY <1>1, <1>2, <1>3 DEF TypeOK

\* A position that is not after the old ones is no reason to change a file.
LEMMA Keeps ==
    ASSUME TypeOK, FilesInv, UNCHANGED <<disk, answered>>, kept <= kept', kept' \in Nat
    PROVE  FilesInv' /\ Found(state)' = Found(state)
<1>1. \A f \in possible : f # 0 => files[f].pos \in Int
  BY Behind DEF Found
<1>2. kept \in Int
  BY DEF TypeOK
<1>3. QED
  BY <1>1, <1>2 DEF FilesInv, Found, disk

LEMMA SafeInit == Init => FilesInv /\ SaverInv
  BY DEF Init, FilesInv, SaverInv, SaverOK, Down, Found, Saving

\* The steps that are not a save's.
LEMMA OutsideStep ==
    ASSUME Safe, NEW p \in Process,
           OpenLock(p) \/ LockBusy(p) \/ TryLock(p) \/ Unlock(p) \/ Crash(p)
    PROVE  FilesInv' /\ SaverInv'
<1>0. TypeOK /\ FilesInv /\ SaverInv /\ SaverOK(p)
  BY DEF Safe, SaverInv
<1>1. UNCHANGED <<disk, output, answered>>
  BY DEF OpenLock, LockBusy, TryLock, Unlock, Crash
<1>2. CASE OpenLock(p)
  <2>1. Turns(p, "opened", lockPath', proc[p].pos, proc[p].last, proc[p].temp)
    BY <1>0, <1>2, Opens
  <2>2. proc[p].pos = 0 /\ proc[p].last = Missing
    BY <1>0, <1>2 DEF OpenLock, SaverOK
  <2>3. QED
    BY <1>0, <1>1, <2>1, <2>2, Idle DEF Turns
<1>3. CASE TryLock(p)
  <2>1. Turns(p, "starting", proc[p].fd, proc[p].pos, proc[p].last, proc[p].temp)
    BY <1>0, <1>3, Going DEF TryLock, Place
  <2>2. proc[p].pos = 0 /\ proc[p].last = Missing
    BY <1>0, <1>3 DEF TryLock, SaverOK
  <2>3. QED
    BY <1>0, <1>1, <2>1, <2>2, Idle DEF Turns
<1>4. CASE LockBusy(p) \/ Unlock(p) \/ Crash(p)
  <2>1. Turns(p, "down", 0, 0, Missing, 0)
    BY <1>0, <1>4, Downing DEF LockBusy, Unlock, Crash
  <2>2. QED
    BY <1>0, <1>1, <2>1, Idle DEF Turns
<1>5. QED
  BY <1>2, <1>3, <1>4

\* A start and the lines handled.
LEMMA WorkStep ==
    ASSUME Safe, NEW p \in Process, Load(p) \/ Handle(p)
    PROVE  FilesInv' /\ SaverOK(p)'
<1>0. TypeOK /\ FilesInv /\ SaverOK(p) /\ Len(files) \in Nat
  BY DEF Safe, SaverInv, TypeOK
<1>1. UNCHANGED <<disk, answered, kept>> /\ kept \in Nat
  BY <1>0, Behind DEF Load, Handle, output
<1>2. FilesInv' /\ Found(state)' = Found(state)
  BY <1>0, <1>1, Keeps
<1>3. CASE Load(p)
  <2>1. out' = out /\ proc[p].at = "starting" /\ proc[p].pos = 0 /\ proc[p].last = Missing
    BY <1>0, <1>3 DEF Load, output, SaverOK
  <2>2. Found(state) <= out /\ out \in Nat
    BY <1>0, Behind
  <2>3. CASE Turns(p, "closing", proc[p].fd, proc[p].pos, proc[p].last, proc[p].temp)
    <3>1. proc'[p].at = "closing"
      BY <2>3 DEF Turns
    <3>2. QED
      BY <1>2, <3>1 DEF SaverOK, Saving
  <2>4. CASE Found(state) = Missing
             /\ Turns(p, "commit", proc[p].fd, proc[p].pos, proc[p].last, proc[p].temp)
    BY <1>2, <2>1, <2>2, <2>4 DEF Turns, SaverOK, Saving
  <2>5. CASE Found(state) \in Position
             /\ Turns(p, "running", proc[p].fd, Found(state), Found(state), proc[p].temp)
    BY <1>2, <2>1, <2>2, <2>5 DEF Turns, SaverOK, Saving
  <2>6. QED
    BY <1>0, <1>3, <1>2, <2>3, <2>4, <2>5, Loads
<1>4. CASE Handle(p)
  <2>1. proc[p].at = "running" /\ proc[p].last = Found(state) /\ proc[p].pos >= proc[p].last
    BY <1>0, <1>4 DEF Handle, SaverOK
  <2>2. Turns(p, "running", proc[p].fd, proc[p].pos + 1, proc[p].last, proc[p].temp)
    BY <1>0, <1>4, Handles
  <2>3. proc[p].pos \in Position /\ proc[p].last \in Int
    BY <1>0 DEF TypeOK, ProcessType
  <2>4. proc'[p].pos <= out'
    <3>1. out' = IF proc'[p].pos > out THEN proc'[p].pos ELSE out
      BY <1>4 DEF Handle
    <3>2. proc'[p].pos \in Int /\ out \in Int
      BY <1>0, <2>2, <2>3, Behind DEF Turns
    <3>3. QED
      BY <3>1, <3>2
  <2>5. QED
    BY <1>2, <2>1, <2>2, <2>3, <2>4 DEF Turns, SaverOK, Saving
<1>5. QED
  BY <1>3, <1>4

\* The steps of a save.
LEMMA SaveStep ==
    ASSUME Safe, NEW p \in Process, Save(p)
    PROVE  FilesInv' /\ SaverOK(p)'
<1>0. /\ TypeOK /\ FilesInv /\ SaverOK(p)
      /\ Len(files) \in Nat /\ files \in Seq(FileType)
  BY DEF Safe, SaverInv, TypeOK
<1>1. proc[p].pos \in Position /\ proc[p].last \in Int /\ answered \in Int
  BY <1>0 DEF TypeOK, ProcessType
<1>2. kept \in Position /\ out \in Position /\ kept <= out /\ state \in 0..Len(files)
  BY <1>0, Behind
<1>3. CASE BeginSave(p)
  <2>1. /\ proc[p].at = "running" /\ proc[p].pos # proc[p].last /\ Goes(p, "commit")
        /\ UNCHANGED <<disk, answered, kept, out>>
    BY <1>3 DEF BeginSave, output
  <2>2. Turns(p, "commit", proc[p].fd, proc[p].pos, proc[p].last, proc[p].temp)
    BY <1>0, <2>1, Going DEF Place, Saving
  <2>3. FilesInv' /\ Found(state)' = Found(state)
    BY <1>0, <1>2, <2>1, Keeps
  <2>4. QED
    BY <1>0, <1>1, <2>1, <2>2, <2>3 DEF SaverOK, Turns, Saving
<1>4. CASE CommitOutput(p)
  <2>1. /\ proc[p].at = "commit" /\ Goes(p, "create")
        /\ UNCHANGED <<disk, answered, out>> /\ kept' = out
    BY <1>4 DEF CommitOutput
  <2>2. Turns(p, "create", proc[p].fd, proc[p].pos, proc[p].last, proc[p].temp)
    BY <1>0, <2>1, Going DEF Place, Saving
  <2>3. FilesInv' /\ Found(state)' = Found(state)
    BY <1>0, <1>2, <2>1, Keeps
  <2>4. QED
    BY <1>0, <1>1, <2>1, <2>2, <2>3 DEF SaverOK, Turns, Saving
<1>5. CASE CreateTemporary(p)
  <2>1. /\ proc[p].at = "create"
        /\ UNCHANGED <<state, possible, answered, kept, out>>
        /\ proc' = [proc EXCEPT ![p].at = "entry", ![p].temp = Len(files')]
    BY <1>5 DEF CreateTemporary, output
  <2>2. Len(files') = Len(files) + 1 /\ \A f \in 1..Len(files) : files'[f] = files[f]
    BY <1>0, <1>5, Creates
  <2>3. Turns(p, "entry", proc[p].fd, proc[p].pos, proc[p].last, Len(files'))
    <3>1. "entry" \in Place /\ Len(files') \in Nat
      BY <1>0, <2>2 DEF Place, Saving
    <3>2. QED
      BY <1>0, <2>1, <3>1, Handling
  <2>4. \A f \in possible : f # 0 => files'[f] = files[f]
    BY <1>0, <2>2, Behind
  <2>5. FilesInv' /\ Found(state)' = Found(state)
    BY <1>0, <2>1, <2>4, Behind DEF FilesInv, Found
  <2>6. Len(files') \notin possible'
    BY <1>0, <2>1, <2>2, Behind
  <2>7. QED
    BY <1>0, <1>1, <1>2, <2>1, <2>3, <2>5, <2>6 DEF SaverOK, Turns, Saving
<1>11. CASE SyncEntry(p)
  <2>1. /\ proc[p].at = "entry" /\ Goes(p, "write")
        /\ UNCHANGED <<files, state, answered, kept, out>> /\ possible' = {state}
    BY <1>11 DEF SyncEntry, DirectorySynced, output
  <2>2. Turns(p, "write", proc[p].fd, proc[p].pos, proc[p].last, proc[p].temp)
    BY <1>0, <2>1, Going DEF Place, Saving
  <2>3. Found(state)' = Found(state)
    BY <2>1 DEF Found
  <2>4. FilesInv'
    BY <1>0, <2>1, <2>3, Behind DEF FilesInv
  <2>5. proc[p].temp \notin possible'
    BY <1>0, <2>1, Behind DEF SaverOK
  <2>6. QED
    BY <1>0, <1>1, <2>1, <2>2, <2>3, <2>4, <2>5 DEF SaverOK, Turns, Saving
<1>6. CASE WriteTemporary(p)
  <2>1. /\ proc[p].at = "write" /\ Goes(p, "sync")
        /\ UNCHANGED <<state, possible, answered, kept, out>>
    BY <1>6 DEF WriteTemporary, output
  <2>2. Only(proc[p].temp) /\ files'[proc[p].temp].pos = proc[p].pos
    BY <1>0, <1>6, Writes
  <2>3. Turns(p, "sync", proc[p].fd, proc[p].pos, proc[p].last, proc[p].temp)
    BY <1>0, <2>1, Going DEF Place, Saving
  <2>4. proc[p].temp \notin possible
    BY <1>0, <2>1 DEF SaverOK
  <2>5. \A f \in possible : f # 0 => files'[f] = files[f]
    BY <1>0, <2>2, <2>4, Behind DEF Only
  <2>6. FilesInv' /\ Found(state)' = Found(state)
    BY <1>0, <2>1, <2>5, Behind DEF FilesInv, Found
  <2>7. QED
    BY <1>0, <1>1, <2>1, <2>2, <2>3, <2>4, <2>6 DEF SaverOK, Turns, Saving
<1>7. CASE SyncTemporary(p)
  <2>1. /\ proc[p].at = "sync" /\ Goes(p, "rename")
        /\ UNCHANGED <<state, possible, answered, kept, out>>
    BY <1>7 DEF SyncTemporary, output
  <2>2. /\ Only(proc[p].temp) /\ files'[proc[p].temp].pos = files[proc[p].temp].pos
        /\ files'[proc[p].temp].synced
    BY <1>0, <1>7, Syncs
  <2>3. Turns(p, "rename", proc[p].fd, proc[p].pos, proc[p].last, proc[p].temp)
    BY <1>0, <2>1, Going DEF Place, Saving
  <2>4. proc[p].temp \notin possible /\ files[proc[p].temp].pos = proc[p].pos
    BY <1>0, <2>1 DEF SaverOK
  <2>5. \A f \in possible : f # 0 => files'[f] = files[f]
    BY <1>0, <2>2, <2>4, Behind DEF Only
  <2>6. FilesInv' /\ Found(state)' = Found(state)
    BY <1>0, <2>1, <2>5, Behind DEF FilesInv, Found
  <2>7. QED
    BY <1>0, <1>1, <2>1, <2>2, <2>3, <2>4, <2>6 DEF SaverOK, Turns, Saving
<1>8. CASE Rename(p)
  <2>1. /\ proc[p].at = "rename" /\ Goes(p, "settle")
        /\ state' = proc[p].temp /\ possible' = possible \cup {state'}
        /\ UNCHANGED <<files, answered, kept, out>>
    BY <1>8 DEF Rename, output
  <2>2. Turns(p, "settle", proc[p].fd, proc[p].pos, proc[p].last, proc[p].temp)
    BY <1>0, <2>1, Going DEF Place, Saving
  <2>3. /\ proc[p].last = Found(state) /\ proc[p].pos > proc[p].last /\ proc[p].pos <= kept
        /\ files[proc[p].temp].pos = proc[p].pos /\ files[proc[p].temp].synced
    BY <1>0, <2>1 DEF SaverOK, Saving
  <2>4. proc[p].temp \in 1..Len(files)
    BY <1>0, <2>1, Holding
  <2>5. answered <= proc[p].pos /\ Found(state)' = proc[p].pos
    BY <1>0, <1>1, <2>1, <2>3, <2>4, Behind DEF FilesInv, Found
  <2>6. FilesInv'
    BY <1>0, <2>1, <2>3, <2>4, <2>5 DEF FilesInv, Found
  <2>7. QED
    BY <2>1, <2>2, <2>3, <2>5, <2>6 DEF SaverOK, Turns, Saving
<1>9. CASE SettleDirectory(p)
  <2>1. /\ proc[p].at = "settle" /\ possible' = {state} /\ answered' = proc[p].pos
        /\ UNCHANGED <<files, state, kept, out>>
    BY <1>9 DEF SettleDirectory, DirectorySynced, Answer, output
  <2>2. Turns(p, "running", proc[p].fd, proc[p].pos, proc[p].pos, 0)
    BY <1>0, <1>9, Answers DEF SettleDirectory
  <2>3. Found(state) = proc[p].pos /\ proc[p].pos <= kept
    BY <1>0, <2>1 DEF SaverOK, Saving
  <2>4. Found(state)' = Found(state)
    BY <2>1 DEF Found
  <2>5. FilesInv'
    BY <1>0, <1>1, <2>1, <2>3, <2>4, Behind DEF FilesInv
  <2>6. QED
    BY <1>1, <1>2, <2>1, <2>2, <2>3, <2>4, <2>5 DEF SaverOK, Turns, Saving
<1>10. QED
  BY <1>3, <1>4, <1>5, <1>6, <1>7, <1>8, <1>9, <1>11 DEF Save

\* The ends of a process.
LEMMA EndStep ==
    ASSUME Safe, NEW p \in Process,
           OpenFails(p) \/ SaveFails(p) \/ Stop(p) \/ CloseSink(p)
    PROVE  FilesInv' /\ SaverOK(p)'
<1>0. TypeOK /\ FilesInv
  BY DEF Safe
<1>1. kept \in 0..out /\ out \in Position
  BY <1>0 DEF TypeOK
<1>2. UNCHANGED <<files, state, possible, answered>> /\ kept' \in {kept, out}
  BY DEF OpenFails, SaveFails, Stop, CloseSink, disk, output
<1>3. FilesInv'
  BY <1>0, <1>1, <1>2, Behind DEF FilesInv, Found
<1>4. proc'[p].at \in {"closing", "unlocking"}
  <2>1. CASE OpenFails(p) \/ SaveFails(p)
    BY <1>0, <2>1, GivingUp DEF OpenFails, SaveFails, Turns
  <2>2. CASE Stop(p)
    BY <1>0, <2>2, Going DEF Stop, Turns, Place
  <2>3. CASE CloseSink(p)
    BY <1>0, <2>3, Going DEF CloseSink, Turns, Place
  <2>4. QED
    BY <2>1, <2>2, <2>3
<1>5. QED
  BY <1>3, <1>4 DEF SaverOK, Saving

LEMMA SafeStep == Safe /\ [Next]_vars => FilesInv' /\ SaverInv'
<1> SUFFICES ASSUME Safe, [Next]_vars PROVE FilesInv' /\ SaverInv'
  OBVIOUS
<1>0. TypeOK /\ LockInv /\ FilesInv /\ SaverInv
  BY DEF Safe
<1>1. CASE UNCHANGED vars
  BY <1>0, <1>1 DEF vars, disk, output, FilesInv, SaverInv, SaverOK, Found
<1>2. ASSUME NEW p \in Process,
             OpenLock(p) \/ LockBusy(p) \/ TryLock(p) \/ Unlock(p) \/ Crash(p)
      PROVE  FilesInv' /\ SaverInv'
  BY <1>2, OutsideStep
<1>3. ASSUME NEW p \in Process, Inside(p) PROVE FilesInv' /\ SaverInv'
  <2>1. FilesInv' /\ SaverOK(p)'
    BY <1>3, WorkStep, SaveStep, EndStep DEF Inside
  <2>2. \A q \in Process : q # p => SaverOK(q)'
    BY <1>0, <1>3, Stays, Others
  <2>3. QED
    BY <2>1, <2>2 DEF SaverInv
<1>4. CASE PowerFailure
  <2>1. /\ possible' = {state'} /\ state' \in possible /\ answered' = answered
        /\ kept' \in Nat /\ kept <= kept' /\ kept \in Nat
        /\ \A p \in Process : proc'[p].at = "down" /\ proc'[p].pos = 0 /\ proc'[p].last = Missing
    BY <1>0, <1>4, Behind DEF PowerFailure, Down
  <2>2. /\ \A f \in 1..Len(files) : files'[f].synced
        /\ state' # 0 => files'[state'].pos \in Survivors(state')
        /\ state' \in 0..Len(files)
    BY <1>0, <1>4, PowerFails
  <2>3. state' # 0 => files'[state'].pos = files[state'].pos
    BY <1>0, <2>1, <2>2 DEF FilesInv, Survivors, Found
  <2>4. state' # 0 => files[state'].pos \in Int
    BY <1>0, <2>1, Behind DEF Found
  <2>5. FilesInv'
    BY <1>0, <2>1, <2>2, <2>3, <2>4 DEF FilesInv, Found
  <2>6. SaverInv'
    BY <2>1 DEF SaverInv, SaverOK, Saving
  <2>7. QED
    BY <2>5, <2>6
<1>5. QED
  BY Steps, <1>1, <1>2, <1>3, <1>4

LEMMA SafeHolds == Spec => []Safe
<1>1. Init => Safe
  BY TypeInit, LockInit, SafeInit DEF Safe
<1>2. Safe /\ [Next]_vars => Safe'
  BY TypeStep, LockStep, SafeStep DEF Safe
<1>3. QED
  BY <1>1, <1>2, PTL DEF Spec

\* What may be found after a power failure is what a reader would find.
LEMMA Surviving ==
    ASSUME Safe
    PROVE  \A f \in possible : Survivors(f) = {Found(f)}
  BY DEF Safe, FilesInv, Survivors

(* Neither a crash nor a power failure at any step of a save leaves a      *)
(* checkpoint that is damaged or ahead of the durable output (saveState,   *)
(* persist).                                                               *)
THEOREM CheckpointBehindOutput == Spec => []NeverAhead
<1>1. Safe => NeverAhead
  BY Surviving, Behind DEF Safe, NeverAhead
<1>2. QED
  BY SafeHolds, <1>1, PTL

(* What is found after any failure is not older than the last position     *)
(* whose save was answered (saveState, SyncDirectory).                     *)
THEOREM AnswerLasts == Spec => []AnsweredSurvives
<1>1. Safe => AnsweredSurvives
  BY Surviving, Behind DEF Safe, AnsweredSurvives, FilesInv, TypeOK
<1>2. QED
  BY SafeHolds, <1>1, PTL

-----------------------------------------------------------------------------
(* The refinement.                                                         *)

\* Under Safe a power failure finds one of the values of `possible`.
LEMMA Refined ==
    ASSUME Safe
    PROVE  UNION {Survivors(f) : f \in possible} = {Found(f) : f \in possible}
  BY Surviving

LEMMA RefinedNext ==
    ASSUME Safe'
    PROVE  (UNION {Survivors(f) : f \in possible})' = {Found(f)' : f \in possible'}
<1>1. \A f \in possible' : Survivors(f)' = {Found(f)'}
  BY DEF Safe, FilesInv, Survivors
<1>2. QED
  BY <1>1

LEMMA FileInit == Init => File!Init
  BY DEF Init, File!Init, Found, Survivors

\* A step that leaves the files that may be found is none of AtomicFile's.
LEMMA Stutters ==
    ASSUME Safe, Safe', UNCHANGED <<state, possible>>,
           \A f \in possible : f # 0 => files'[f].pos = files[f].pos
    PROVE  UNCHANGED File!vars
<1>1. \A f \in possible : Found(f)' = Found(f)
  BY DEF Found
<1>2. {Found(f)' : f \in possible'} = {Found(f) : f \in possible}
  BY <1>1
<1>3. Found(state)' = Found(state)
  BY <1>1, Behind DEF Safe, Found
<1>4. QED
  BY <1>2, <1>3, Refined, RefinedNext DEF File!vars

\* SyncEntry and SettleDirectory sync the directory.
LEMMA Settles ==
    ASSUME Safe, Safe', state' = state, possible' = {state},
           state # 0 => files'[state].pos = files[state].pos
    PROVE  File!Settle
<1>1. Found(state)' = Found(state)
  BY DEF Found
<1>2. {Found(f)' : f \in possible'} = {Found(state)}
  BY <1>1 DEF Found
<1>3. QED
  BY <1>1, <1>2, RefinedNext DEF File!Settle

LEMMA Renames ==
    ASSUME Safe, Safe', NEW p \in Process, Rename(p)
    PROVE  File!Replace(proc[p].pos)
<1>0. TypeOK /\ SaverOK(p)
  BY DEF Safe, SaverInv
<1>1. /\ proc[p].at = "rename" /\ state' = proc[p].temp
      /\ possible' = possible \cup {state'} /\ files' = files
  BY DEF Rename
<1>2. /\ proc[p].last = Found(state) /\ proc[p].pos > proc[p].last
      /\ files[proc[p].temp].pos = proc[p].pos
  BY <1>0, <1>1 DEF SaverOK, Saving
<1>3. \A f : Found(f)' = Found(f)
  BY <1>1 DEF Found
<1>4. Found(state)' = proc[p].pos
  BY <1>0, <1>1, <1>2, Holding DEF Found
<1>5. Found(state') = proc[p].pos
  BY <1>0, <1>1, <1>2, Holding DEF Found
<1>6. {Found(f)' : f \in possible'} = {Found(f) : f \in possible} \cup {proc[p].pos}
  BY <1>1, <1>3, <1>5
<1>7. QED
  BY <1>2, <1>4, <1>6, Refined, RefinedNext DEF File!Replace

LEMMA PowerLost ==
    ASSUME Safe, Safe', PowerFailure
    PROVE  File!PowerFailure
<1>0. TypeOK /\ FilesInv
  BY DEF Safe
<1>1. state' \in possible /\ possible' = {state'}
  BY DEF PowerFailure
<1>2. Found(state)' = Found(state')
  BY <1>0, <1>1, PowerFails DEF FilesInv, Survivors, Found
<1>3. {Found(f)' : f \in possible'} = {Found(state)'}
  BY <1>1 DEF Found
<1>4. QED
  BY <1>1, <1>2, <1>3, Refined, RefinedNext DEF File!PowerFailure

LEMMA RefinedStep == Safe /\ Safe' /\ [Next]_vars => [File!Next]_(File!vars)
<1> SUFFICES ASSUME Safe, Safe', [Next]_vars PROVE [File!Next]_(File!vars)
  OBVIOUS
<1>0. TypeOK /\ LockInv /\ FilesInv /\ SaverInv /\ Len(files) \in Nat
  <2>1. TypeOK /\ LockInv /\ FilesInv /\ SaverInv
    BY DEF Safe
  <2>2. files \in Seq(FileType)
    BY <2>1 DEF TypeOK
  <2>3. QED
    BY <2>1, <2>2
<1>1. CASE UNCHANGED <<files, state, possible>>
  BY <1>1, Stutters
<1>2. ASSUME NEW p \in Process, CreateTemporary(p) PROVE UNCHANGED File!vars
  <2>1. \A f \in 1..Len(files) : files'[f] = files[f]
    BY <1>0, <1>2, Creates
  <2>2. \A f \in possible : f # 0 => files'[f].pos = files[f].pos
    BY <1>0, <2>1, Behind
  <2>3. QED
    BY <1>2, <2>2, Stutters DEF CreateTemporary
<1>3. ASSUME NEW p \in Process, WriteTemporary(p) \/ SyncTemporary(p) PROVE UNCHANGED File!vars
  <2>1. Only(proc[p].temp) /\ UNCHANGED <<state, possible>>
    BY <1>0, <1>3, Writes, Syncs DEF WriteTemporary, SyncTemporary
  <2>2. proc[p].temp \notin possible
    BY <1>0, <1>3 DEF WriteTemporary, SyncTemporary, SaverInv, SaverOK
  <2>3. \A f \in possible : f # 0 => files'[f].pos = files[f].pos
    BY <1>0, <2>1, <2>2, Behind DEF Only
  <2>4. QED
    BY <2>1, <2>3, Stutters
<1>4. ASSUME NEW p \in Process, Rename(p) PROVE File!Next
  <2>1. proc[p].pos \in Position
    BY <1>0, <1>4, Holding DEF Rename
  <2>2. File!Replace(proc[p].pos)
    BY <1>4, Renames
  <2>3. QED
    BY <2>1, <2>2 DEF File!Next
<1>5. ASSUME NEW p \in Process, SyncEntry(p) \/ SettleDirectory(p) PROVE File!Settle
  BY <1>5, Settles DEF SyncEntry, SettleDirectory, DirectorySynced
<1>6. CASE PowerFailure
  BY <1>6, PowerLost DEF File!Next
<1>7. ASSUME NEW p \in Process,
             \/ OpenLock(p) \/ LockBusy(p) \/ TryLock(p) \/ Unlock(p) \/ Crash(p)
             \/ Load(p) \/ Handle(p) \/ BeginSave(p) \/ CommitOutput(p)
             \/ OpenFails(p) \/ SaveFails(p) \/ Stop(p) \/ CloseSink(p)
      PROVE  UNCHANGED <<files, state, possible>>
  BY <1>7 DEF OpenLock, LockBusy, TryLock, Unlock, Crash, Load, Handle, BeginSave,
              CommitOutput, OpenFails, SaveFails, Stop, CloseSink, disk
<1>8. UNCHANGED vars => UNCHANGED <<files, state, possible>>
  BY DEF vars, disk
<1>9. QED
  BY Steps, <1>1, <1>2, <1>3, <1>4, <1>5, <1>6, <1>7, <1>8 DEF Inside, Save, File!Next

(* SaveCheckpoint replaces the checkpoint atomically: every behaviour of   *)
(* the saves, step by step, is one of AtomicFile.                          *)
THEOREM Implements == Spec => AtomicReplacement
<1>1. Spec => []Safe
  BY SafeHolds
<1>2. QED
  BY <1>1, FileInit, RefinedStep, PTL DEF Spec, AtomicReplacement, File!Spec

-----------------------------------------------------------------------------
(* Leftovers.  The names a power failure may find are those there are, the *)
(* ones whose creation or unlink is not synced, and those of renames that  *)
(* it may undo.  Only an error or a death takes one of them from the save  *)
(* it belongs to; of several processes, only the owner of the lock has one.*)

Undone == {f \in possible : \E g \in possible : g < f}
Names == temps \cup loose \cup Undone
Lost == Names \ {proc[p].temp : p \in Process}
Unrenamed == {"write", "sync", "rename"}

LeftInv ==
    /\ Cardinality(Lost) <= errors + deaths
    /\ \A p \in Process :
          /\ proc[p].at \in Unrenamed => possible = {state}
          /\ proc[p].at \in Unrenamed \cup {"settle"} => loose = {}
          /\ proc[p].at \in Unrenamed \cup {"entry"} => \A f \in possible : f < proc[p].temp
          /\ proc[p].at = "settle" => proc[p].temp \notin temps

LEMMA NamesTypes ==
    ASSUME TypeOK
    PROVE  Names \subseteq 1..Len(files) /\ Len(files) \in Nat
<1>1. /\ files \in Seq(FileType) /\ possible \subseteq 0..Len(files)
      /\ temps \cup loose \subseteq 1..Len(files)
  BY DEF TypeOK
<1>2. Len(files) \in Nat
  BY <1>1
<1>3. Undone \subseteq 1..Len(files)
  <2>1. \A n \in Nat : \A f, g \in 0..n : g < f => f \in 1..n
    OBVIOUS
  <2>2. \A f, g \in possible : g < f => f \in 1..Len(files)
    BY <1>1, <1>2, <2>1
  <2>3. QED
    BY <2>2 DEF Undone
<1>4. QED
  BY <1>1, <1>2, <1>3 DEF Names

LEMMA LostFinite ==
    ASSUME TypeOK
    PROVE  IsFiniteSet(Lost) /\ Cardinality(Lost) \in Nat /\ errors \in Nat /\ deaths \in Nat
<1>1. IsFiniteSet(1..Len(files))
  BY FS_Interval DEF TypeOK
<1>2. IsFiniteSet(Lost)
  BY <1>1, NamesTypes, FS_Subset DEF Lost
<1>3. QED
  BY <1>2, FS_CardinalityType DEF TypeOK

LEMMA LostFewer ==
    ASSUME TypeOK, Cardinality(Lost) <= errors + deaths, Lost' \subseteq Lost,
           UNCHANGED <<errors, deaths>>
    PROVE  Cardinality(Lost') <= errors' + deaths'
<1>1. Cardinality(Lost') <= Cardinality(Lost) /\ Cardinality(Lost') \in Nat
  BY LostFinite, FS_Subset, FS_CardinalityType
<1>2. QED
  BY <1>1, LostFinite

LEMMA LostOneMore ==
    ASSUME TypeOK, Cardinality(Lost) <= errors + deaths, NEW f, Lost' \subseteq Lost \cup {f},
           errors' + deaths' = errors + deaths + 1
    PROVE  Cardinality(Lost') <= errors' + deaths'
<1>1. IsFiniteSet(Lost \cup {f}) /\ Cardinality(Lost \cup {f}) <= Cardinality(Lost) + 1
  <2>1. PICK L : L = Lost
    OBVIOUS
  <2>2. IsFiniteSet(L) /\ Cardinality(L) \in Nat
    BY <2>1, LostFinite
  <2>3. /\ IsFiniteSet(L \cup {f})
        /\ Cardinality(L \cup {f}) = IF f \in L THEN Cardinality(L) ELSE Cardinality(L) + 1
    BY <2>2, FS_AddElement
  <2>4. QED
    BY <2>1, <2>2, <2>3
<1>2. Cardinality(Lost') <= Cardinality(Lost \cup {f}) /\ Cardinality(Lost') \in Nat
      /\ Cardinality(Lost \cup {f}) \in Nat
  BY <1>1, FS_Subset, FS_CardinalityType
<1>3. QED
  BY <1>1, <1>2, LostFinite

\* A step that has nothing to do with temporary files.
LEMMA LeftAlone ==
    ASSUME TypeOK, LeftInv, UNCHANGED <<temps, loose, possible, state, errors, deaths>>,
           \A p \in Process :
              /\ proc'[p].temp = proc[p].temp
              /\ proc'[p].at \in Unrenamed => proc[p].at \in Unrenamed
              /\ proc'[p].at \notin {"entry", "settle"}
                 \/ proc'[p].at = proc[p].at
    PROVE  LeftInv'
<1>1. Lost' = Lost
  BY DEF Lost, Names, Undone
<1>2. QED
  BY <1>1 DEF LeftInv

\* Only the temporary file of p changes hands.
LEMMA LostTurns ==
    ASSUME TypeOK, NEW p \in Process, NEW at, NEW fd, NEW pos, NEW last, NEW f,
           Turns(p, at, fd, pos, last, f)
    PROVE  \A g : g \in Lost' <=> /\ g \in Names' /\ g # f
                                  /\ \A q \in Process : q # p => proc[q].temp # g
<1>1. \A g : g \in Lost' <=> g \in Names' /\ \A q \in Process : proc'[q].temp # g
  BY DEF Lost
<1>2. \A q \in Process : q # p => proc'[q] = proc[q]
  BY DEF Turns
<1>3. proc'[p].temp = f
  BY DEF Turns
<1>4. QED
  BY <1>1, <1>2, <1>3

LEMMA LostIs ==
    \A g : g \in Lost <=> g \in Names /\ \A q \in Process : proc[q].temp # g
  BY DEF Lost

LEMMA OthersUnused ==
    ASSUME TypeOK, LockInv, NEW p \in Process, Owns(p), NEW q \in Process, q # p
    PROVE  proc[q].temp = 0 /\ proc[q].at \notin Saving
<1>1. proc[q].at \in {"down", "opened"}
  BY Alone DEF Owns
<1>2. QED
  BY <1>1 DEF TypeOK, Saving

\* A step of the owner: what LeftInv says of the others is void.
LEMMA LeftOwner ==
    ASSUME TypeOK, LockInv, NEW p \in Process, Owns(p),
           NEW at, NEW fd, NEW pos, NEW last, NEW f, Turns(p, at, fd, pos, last, f),
           Cardinality(Lost') <= errors' + deaths',
           /\ at \in Unrenamed => possible' = {state'}
           /\ at \in Unrenamed \cup {"settle"} => loose' = {}
           /\ at \in Unrenamed \cup {"entry"} => \A g \in possible' : g < f
           /\ at = "settle" => f \notin temps'
    PROVE  LeftInv'
<1>1. \A q \in Process : q # p => proc'[q].at \notin Saving
  BY OthersUnused DEF Turns
<1>2. proc'[p].at = at /\ proc'[p].temp = f
  BY DEF Turns
<1>3. QED
  BY <1>1, <1>2 DEF LeftInv, Saving, Unrenamed

LEMMA LeftCreate ==
    ASSUME TypeOK, LockInv, LeftInv, NEW p \in Process, CreateTemporary(p)
    PROVE  LeftInv'
<1> DEFINE new == Len(files')
<1>1. /\ Owns(p) /\ proc[p].temp = 0 /\ temps' = temps \cup {new} /\ loose' = loose \cup {new}
      /\ UNCHANGED <<possible, state, errors, deaths>>
  BY DEF CreateTemporary, Owns, TypeOK, faults
<1>2. new \in Nat /\ \A f \in possible : f < new
  BY Creates DEF TypeOK
<1>3. Turns(p, "entry", proc[p].fd, proc[p].pos, proc[p].last, new)
  BY <1>2, Handling DEF CreateTemporary, Place, Saving
<1> HIDE DEF new
<1>4. Names' = Names \cup {new} /\ 0 \notin Names
  BY <1>1, NamesTypes DEF Names, Undone
<1>5. Lost' \subseteq Lost
  BY <1>1, <1>3, <1>4, LostTurns, LostIs
<1>6. Cardinality(Lost') <= errors' + deaths'
  BY <1>1, <1>5, LostFewer DEF LeftInv
<1>7. QED
  BY <1>1, <1>2, <1>3, <1>6, LeftOwner DEF Unrenamed

LEMMA LeftEntry ==
    ASSUME TypeOK, LockInv, LeftInv, NEW p \in Process, SyncEntry(p)
    PROVE  LeftInv'
<1>1. /\ Owns(p) /\ proc[p].at = "entry" /\ possible' = {state} /\ loose' = {}
      /\ UNCHANGED <<temps, state, errors, deaths>>
  BY DEF SyncEntry, DirectorySynced, Owns, faults
<1>2. state \in possible /\ state < proc[p].temp
  BY <1>1 DEF TypeOK, LeftInv
<1>3. Turns(p, "write", proc[p].fd, proc[p].pos, proc[p].last, proc[p].temp)
  BY Going DEF SyncEntry, Place, Saving
<1>4. Names' \subseteq Names
  BY <1>1, <1>2 DEF Names, Undone, TypeOK
<1>5. Lost' \subseteq Lost
  BY <1>3, <1>4, LostTurns, LostIs
<1>6. Cardinality(Lost') <= errors' + deaths'
  BY <1>1, <1>5, LostFewer DEF LeftInv
<1>7. QED
  BY <1>1, <1>2, <1>3, <1>6, LeftOwner

LEMMA LeftRename ==
    ASSUME TypeOK, LockInv, LeftInv, NEW p \in Process, Rename(p)
    PROVE  LeftInv'
<1>1. /\ Owns(p) /\ temps' = temps \ {proc[p].temp} /\ possible = {state} /\ loose = {}
      /\ state < proc[p].temp /\ state' = proc[p].temp /\ possible' = {state, proc[p].temp}
      /\ UNCHANGED <<loose, errors, deaths>>
  BY DEF Rename, Owns, LeftInv, Unrenamed, faults
<1>2. proc[p].temp \in Nat /\ state \in Nat
  BY DEF TypeOK, ProcessType
<1>3. Turns(p, "settle", proc[p].fd, proc[p].pos, proc[p].last, proc[p].temp)
  BY Going DEF Rename, Place, Saving
<1>4. Names' \subseteq Names \cup {proc[p].temp}
  BY <1>1, <1>2 DEF Names, Undone
<1>5. Lost' \subseteq Lost
  BY <1>3, <1>4, LostTurns, LostIs
<1>6. Cardinality(Lost') <= errors' + deaths'
  BY <1>1, <1>5, LostFewer DEF LeftInv
<1>7. QED
  BY <1>1, <1>3, <1>6, LeftOwner DEF Unrenamed

LEMMA LeftSettle ==
    ASSUME TypeOK, LockInv, LeftInv, NEW p \in Process, SettleDirectory(p)
    PROVE  LeftInv'
<1>1. /\ Owns(p) /\ proc[p].temp \notin temps /\ possible' = {state} /\ loose' = {}
      /\ UNCHANGED <<temps, state, errors, deaths>>
  BY DEF SettleDirectory, DirectorySynced, Owns, LeftInv, faults
<1>3. Turns(p, "running", proc[p].fd, proc[p].pos, proc[p].pos, 0)
  BY Answers DEF SettleDirectory
<1>4. Names' \subseteq Names \ {proc[p].temp}
  BY <1>1 DEF Names, Undone, TypeOK
<1>5. Lost' \subseteq Lost
  BY <1>3, <1>4, LostTurns, LostIs
<1>6. Cardinality(Lost') <= errors' + deaths'
  BY <1>1, <1>5, LostFewer DEF LeftInv
<1>7. QED
  BY <1>1, <1>3, <1>6, LeftOwner DEF Unrenamed

LEMMA LeftFails ==
    ASSUME TypeOK, LockInv, LeftInv, NEW p \in Process, OpenFails(p) \/ SaveFails(p)
    PROVE  LeftInv'
<1>1. /\ Owns(p) /\ UNCHANGED <<possible, state>> /\ GivesUp(p) /\ Failing
      /\ temps' \cup loose' \subseteq temps \cup loose
  BY DEF OpenFails, SaveFails, disk, Owns, Saving
<1>2. errors' = errors + 1 /\ deaths' = deaths
  BY <1>1, Failures
<1>3. Turns(p, "closing", proc[p].fd, proc[p].pos, proc[p].last, 0)
  BY <1>1, GivingUp
<1>4. Names' \subseteq Names
  BY <1>1 DEF Names, Undone
<1>5. Lost' \subseteq Lost \cup {proc[p].temp}
  BY <1>3, <1>4, LostTurns, LostIs
<1>6. Cardinality(Lost') <= errors' + deaths'
  <2>1. errors' + deaths' = errors + deaths + 1
    BY <1>2, LostFinite
  <2>2. QED
    BY <1>5, <2>1, LostOneMore DEF LeftInv
<1>7. QED
  BY <1>1, <1>3, <1>6, LeftOwner DEF Unrenamed

LEMMA LeftCrash ==
    ASSUME TypeOK, LeftInv, NEW p \in Process, Crash(p)
    PROVE  LeftInv'
<1>1. UNCHANGED <<temps, loose, possible, state>>
      /\ errors' + deaths' = errors + deaths + 1
  BY LostFinite DEF Crash, Dying, disk
<1>3. Turns(p, "down", 0, 0, Missing, 0)
  BY Downing DEF Crash
<1>4. Names' = Names
  BY <1>1 DEF Names, Undone
<1>5. Lost' \subseteq Lost \cup {proc[p].temp}
  BY <1>3, <1>4, LostTurns, LostIs
<1>6. Cardinality(Lost') <= errors' + deaths'
  BY <1>1, <1>5, LostOneMore DEF LeftInv
<1>7. \A q \in Process : proc'[q].at \in Saving => proc'[q] = proc[q]
  BY <1>3 DEF Turns, Saving
<1>8. QED
  BY <1>1, <1>6, <1>7 DEF LeftInv, Saving, Unrenamed

LEMMA LeftPower ==
    ASSUME TypeOK, LockInv, LeftInv, PowerFailure
    PROVE  LeftInv'
<1>1. /\ state' \in possible /\ possible' = {state'} /\ loose' = {}
      /\ temps' \subseteq temps \cup loose \cup {f \in possible : f > state'}
      /\ errors' + deaths' = errors + deaths + 1
      /\ \A p \in Process : proc'[p].at = "down" /\ proc'[p].temp = 0
  BY LostFinite DEF PowerFailure, Dying, Down
<1>2. possible \subseteq Int /\ possible' = {state'}
  BY <1>1 DEF TypeOK
<1>3. Names' \subseteq Names
  BY <1>1, <1>2 DEF Names, Undone
<1>4. \E y : \A p \in Process : proc[p].temp \in {0, y}
  <2>1. CASE \E p \in Process : Owns(p)
    <3>1. PICK p \in Process : Owns(p)
      BY <2>1
    <3>2. \A q \in Process : proc[q].temp \in {0, proc[p].temp}
      BY <3>1, OthersUnused
    <3>3. QED
      BY <3>2
  <2>2. CASE \A p \in Process : ~Owns(p)
    <3>1. \A p \in Process : proc[p].temp = 0
      BY <2>2 DEF TypeOK, Owns
    <3>2. QED
      BY <3>1
  <2>3. QED
    BY <2>1, <2>2
<1>5. PICK y : \A p \in Process : proc[p].temp \in {0, y}
  BY <1>4
<1>6. Lost' \subseteq Lost \cup {y}
  <2>1. \A f \in Lost' : f \in Names /\ f # 0
    BY <1>3, NamesTypes DEF Lost
  <2>2. QED
    BY <1>5, <2>1, LostIs
<1>7. Cardinality(Lost') <= errors' + deaths'
  BY <1>1, <1>6, LostOneMore DEF LeftInv
<1>8. QED
  BY <1>1, <1>7 DEF LeftInv, Unrenamed

LEMMA LeftStep == TypeOK /\ LockInv /\ LeftInv /\ [Next]_vars => LeftInv'
<1> SUFFICES ASSUME TypeOK, LockInv, LeftInv, [Next]_vars PROVE LeftInv'
  OBVIOUS
<1>1. CASE UNCHANGED vars
  BY <1>1, LeftAlone DEF vars, disk, faults
<1>2. ASSUME NEW p \in Process, OpenLock(p) PROVE LeftInv'
  <2>1. UNCHANGED <<temps, loose, possible, state, errors, deaths>>
    BY <1>2 DEF OpenLock, disk, faults
  <2>2. QED
    BY <1>2, <2>1, Opens, LeftAlone DEF Turns, Unrenamed
<1>3. ASSUME NEW p \in Process, LockBusy(p) \/ Unlock(p) PROVE LeftInv'
  <2>1. /\ UNCHANGED <<temps, loose, possible, state, errors, deaths>>
        /\ proc[p].at \in {"opened", "unlocking"}
    BY <1>3 DEF LockBusy, Unlock, disk, faults
  <2>2. Turns(p, "down", 0, 0, Missing, 0) /\ proc[p].temp = 0
    BY <1>3, <2>1, Downing DEF LockBusy, Unlock, TypeOK
  <2>3. QED
    BY <2>1, <2>2, LeftAlone DEF Turns, Unrenamed
<1>4. ASSUME NEW p \in Process, NEW to \in Place \ {"entry", "write", "settle"}, Goes(p, to),
             to \in Unrenamed => proc[p].at \in Unrenamed,
             UNCHANGED <<temps, loose, possible, state, errors, deaths>>
      PROVE  LeftInv'
  <2>1. Turns(p, to, proc[p].fd, proc[p].pos, proc[p].last, proc[p].temp)
    BY <1>4, Going
  <2>2. QED
    BY <1>4, <2>1, LeftAlone DEF Turns
<1>5. ASSUME NEW p \in Process,
             TryLock(p) \/ BeginSave(p) \/ CommitOutput(p) \/ Stop(p) \/ CloseSink(p)
      PROVE  LeftInv'
  <2>1. UNCHANGED <<temps, loose, possible, state, errors, deaths>>
    BY <1>5 DEF TryLock, BeginSave, CommitOutput, Stop, CloseSink, disk, faults
  <2>2. \E to \in {"starting", "commit", "create", "closing", "unlocking"} : Goes(p, to)
    BY <1>5 DEF TryLock, BeginSave, CommitOutput, Stop, CloseSink
  <2>3. QED
    BY <1>4, <2>1, <2>2 DEF Place, Saving, Unrenamed
<1>6. ASSUME NEW p \in Process, WriteTemporary(p) \/ SyncTemporary(p) PROVE LeftInv'
  <2>1. /\ UNCHANGED <<temps, loose, possible, state, errors, deaths>>
        /\ proc[p].at \in Unrenamed /\ \E to \in {"sync", "rename"} : Goes(p, to)
    BY <1>6 DEF WriteTemporary, SyncTemporary, faults, Unrenamed
  <2>2. QED
    BY <1>4, <2>1 DEF Place, Saving
<1>7. ASSUME NEW p \in Process, Load(p) \/ Handle(p) PROVE LeftInv'
  <2>1. UNCHANGED <<temps, loose, possible, state, errors, deaths>>
    BY <1>7 DEF Load, Handle, disk, faults
  <2>2. \E at \in {"closing", "commit", "running"} : \E pos, last :
            Turns(p, at, proc[p].fd, pos, last, proc[p].temp)
    BY <1>7, Loads, Handles
  <2>3. QED
    BY <2>1, <2>2, LeftAlone DEF Turns, Unrenamed
<1>8. QED
  BY Steps, <1>1, <1>2, <1>3, <1>5, <1>6, <1>7, LeftCreate, LeftEntry, LeftRename,
     LeftSettle, LeftFails, LeftCrash, LeftPower DEF Inside, Save

LEMMA LeftInit == Init => LeftInv
<1> SUFFICES ASSUME Init PROVE LeftInv
  OBVIOUS
<1>1. temps = {} /\ loose = {} /\ possible = {0} /\ errors = 0 /\ deaths = 0
      /\ \A p \in Process : proc[p].at = "down"
  BY DEF Init, Down
<1>2. Lost = {}
  BY <1>1 DEF Lost, Names, Undone
<1>3. QED
  BY <1>1, <1>2, FS_EmptySet DEF LeftInv, Unrenamed

(* Each save that fails and each death leave one temporary name at most,   *)
(* and saves that are answered none, in any number of saves: of the names  *)
(* the unlinks and renames that are not synced count as there, since a     *)
(* power failure brings them back (OpenRegularAt, saveState).              *)
THEOREM LeftoversFromFaults == Spec => []LeftoversBounded
<1>1. TypeOK /\ LeftInv => LeftoversBounded
  <2> SUFFICES ASSUME TypeOK, LeftInv PROVE LeftoversBounded
    OBVIOUS
  <2> DEFINE Left == temps \ {proc[p].temp : p \in Process}
  <2>1. Left \subseteq Lost
    BY DEF Lost, Names
  <2>2. Cardinality(Left) <= Cardinality(Lost) /\ Cardinality(Left) \in Nat
    BY <2>1, LostFinite, FS_Subset, FS_CardinalityType
  <2>3. QED
    BY <2>2, LostFinite DEF LeftInv, LeftoversBounded
<1>2. QED
  BY TypeInit, TypeStep, LockInit, LockStep, LeftInit, LeftStep, <1>1, PTL DEF Spec

=============================================================================
