----------------------------- MODULE Delivery ------------------------------
(***************************************************************************)
(* One collector process and what outlives it: the loop of main.go         *)
(* runFollower around the Assembler, the checkpointWriter, the managed     *)
(* output file and the durable checkpoint, across crashes, power loss and  *)
(* clean shutdowns.                                                        *)
(*                                                                         *)
(* The source is retained and continuous here: gaps are in GapRecovery,    *)
(* rotation in Rotation.  A position is a line number.                     *)
(***************************************************************************)
EXTENDS Assembler

CONSTANTS
    MaxCrashes,    \* bound: crashes ever
    MaxShutdowns   \* bound: clean shutdowns ever

ASSUME RestartAssumption == MaxCrashes \in Nat /\ MaxShutdowns \in Nat

VARIABLES
    pc,        \* "down", "running", "saving", "stopping"
    ckpt,      \* the checkpoint file: a position, or None
    saving,    \* the position persist is about to save, or None
    synced,    \* the events of `output' that survive a power loss
    crashes, shutdowns

durable == <<ckpt, synced>>
process == <<pc, saving>>
restarts == <<crashes, shutdowns>>
allVars == <<vars, durable, process, restarts>>

LinesOf(events) == UNION {e.lines : e \in events}

-----------------------------------------------------------------------------

DInit ==
    /\ Init
    /\ pc = "down" /\ saving = None
    /\ ckpt = None /\ synced = {}
    /\ crashes = 0 /\ shutdowns = 0

\* checkpointWriter.last and .initialized follow the file: a new writer takes
\* the position the follower was opened at, and each save updates both.
Last == IF ckpt = None THEN 1 ELSE ckpt

\* persist after the early returns: sink.Commit, which syncs the output.
Persist(position, stage) ==
    /\ synced' = output
    /\ saving' = position
    /\ pc' = stage

\* A new process replays from the checkpoint; without one it starts over and
\* writes its first checkpoint before reading (persist(startPosition, true)).
Start ==
    /\ pc = "down"
    /\ asm' = EmptyAssembler
    /\ broken' = [k \in Key |-> None]
    /\ now' = 0
    /\ next' = Last
    /\ IF ckpt = None THEN Persist(Last, "saving")
                      ELSE pc' = "running" /\ UNCHANGED <<saving, synced>>
    /\ UNCHANGED <<input, output, ckpt, restarts>>

ProcessLine ==
    /\ pc = "running"
    /\ \E line \in Lines : HandleLine(line)
    /\ UNCHANGED <<durable, process, restarts>>

Poll ==
    /\ pc = "running"
    /\ Idle
    /\ UNCHANGED <<durable, process, restarts>>

Clock ==
    /\ pc = "running"
    /\ Tick
    /\ UNCHANGED <<durable, process, restarts>>

\* Mutant of SafeToSave: a checkpoint at the end of what was read.
SaveWhatWasRead == next

SafeToSave == SafeSourcePosition(asm, next)

\* persist(safe, false) once the interval has elapsed, which may be any time.
\* A position before Last would end the process with "checkpoint position
\* regressed"; PersistNeverFatal says there is none.
CommitOutput ==
    /\ pc = "running"
    /\ SafeToSave > Last
    /\ Persist(SafeToSave, "saving")
    /\ UNCHANGED <<vars, ckpt, restarts>>

\* SaveCheckpoint replaces the file by an atomic rename.
SaveCheckpoint ==
    /\ pc \in {"saving", "stopping"}
    /\ ckpt' = saving
    /\ saving' = None
    /\ pc' = IF pc = "saving" THEN "running" ELSE "down"
    /\ UNCHANGED <<vars, synced, restarts>>

\* SIGTERM: flushAll(shutdown), then persist(CompletePosition, true).
Shutdown ==
    /\ pc = "running"
    /\ shutdowns < MaxShutdowns
    /\ shutdowns' = shutdowns + 1
    /\ FlushAllWith("shutdown")
    /\ IF next = Last THEN pc' = "down" /\ UNCHANGED <<saving, synced>>
       ELSE synced' = output' /\ saving' = next /\ pc' = "stopping"
    /\ UNCHANGED <<ckpt, crashes>>

\* Any failure that ends the process, power loss included: of the events not
\* yet synced some may be lost.  A crash in the middle of emit is one of them.
Crash ==
    /\ pc # "down"
    /\ crashes < MaxCrashes
    /\ crashes' = crashes + 1
    /\ \E kept \in SUBSET (output \ synced) : output' = synced \cup kept
    /\ pc' = "down"
    /\ saving' = None
    /\ UNCHANGED <<asm, now, input, next, broken, durable, shutdowns>>

DNext ==
    \/ Start
    \/ ProcessLine
    \/ Poll
    \/ Clock
    \/ CommitOutput
    \/ SaveCheckpoint
    \/ Shutdown
    \/ Crash

Replay == ProcessLine /\ next <= Len(input)

\* The supervisor restarts the process, and the process's loop keeps turning.
DFairness ==
    /\ WF_allVars(Start)
    /\ WF_allVars(Replay)
    /\ WF_allVars(Poll)
    /\ WF_allVars(Clock)
    /\ WF_allVars(CommitOutput)
    /\ WF_allVars(SaveCheckpoint)

DSpec == DInit /\ [][DNext]_allVars /\ DFairness

-----------------------------------------------------------------------------
(* Properties.                                                             *)

DTypeOK ==
    /\ TypeOK
    /\ pc \in {"down", "running", "saving", "stopping"}
    /\ ckpt \in Nat \cup {None}
    /\ saving \in Nat \cup {None}
    /\ saving # None <=> pc \in {"saving", "stopping"}
    /\ synced \subseteq output
    /\ crashes \in 0..MaxCrashes /\ shutdowns \in 0..MaxShutdowns

\* "Never advances before the selected sink accepts the corresponding
\* completed events [nor] past the first record of the oldest unresolved
\* event" (reliability.md): all evidence behind the durable checkpoint has
\* survived in the output, over any crashes (persist, SafeSourcePosition).
NoLoss ==
    ckpt # None =>
        \A l \in 1..(ckpt - 1) : Payload(input[l]) => l \in LinesOf(synced)

\* persist's "checkpoint position regressed" never fires.
PersistNeverFatal == pc = "running" => SafeToSave >= Last

\* The collector implements the at-least-once promise: the durable checkpoint
\* never passes evidence that is not durable and is never taken back, across
\* processes.
Promise == INSTANCE AtLeastOnce WITH
    Line <- Lines,
    Evidence <- {line \in Lines : Payload(line)},
    source <- input,
    delivered <- LinesOf(synced),
    cursor <- Last
AtLeastOnceDelivery == Promise!Spec

\* Whatever was read is behind a durable checkpoint in the end, so that
\* nothing is replayed for ever and nothing stays unresolved.
EventuallyDurable == <>[](ckpt = Len(input) + 1)

TerminatorOf(line, k) == line.kind = "record" /\ line.key = k /\ ClosesRejection(line.type)

\* "Their replay barrier prevents a restart in the middle of exceptional
\* evidence from manufacturing a complete suffix event" (isolation.go): no
\* complete event of a key begins behind a refused line of that key with no
\* terminator in between.
NoManufacturedSuffix ==
    \A e, x \in output :
        /\ Complete(e) /\ x.key = e.key /\ x.completion = "exception"
        /\ \A l \in e.lines : \A m \in x.lines : m < l
        => \E t \in 1..Len(input) :
              /\ TerminatorOf(input[t], e.key)
              /\ \E m \in x.lines : m <= t
              /\ \A l \in e.lines : t < l

=============================================================================
