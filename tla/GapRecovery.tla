---------------------------- MODULE GapRecovery ----------------------------
(***************************************************************************)
(* The write-ahead transition across a source gap: cmd/ag-audit            *)
(* gap_recovery.go (openGapRecovery, pending, prepare, commit), the        *)
(* callers in main.go runFollower, and internal/collector recovery.go (the *)
(* ledger) and checkpoint.go saveState (each save is one atomic replace).  *)
(*                                                                         *)
(* The source is abstract: a lineage is one contiguous chain of retained   *)
(* generations, and a break (a lost generation, a truncation) starts the   *)
(* next.  A position is an offset in a lineage and names the line there.   *)
(* The assembler and the sink are abstract as well: a line is held until   *)
(* its event is durable.  The process may die between any two steps, and a *)
(* save that fails ends it, which is the same as dying before that save.   *)
(***************************************************************************)
EXTENDS Integers, Sequences, SequencesExt

CONSTANTS
    None,             \* no checkpoint, no ledger
    KeptIncidents,    \* incidents the ledger keeps (8 in the code)
    MaxLineage,       \* bound: breaks of the source
    MaxOffset,        \* bound: lines of one lineage
    MaxCrashes        \* bound: deaths of the process

Position == [lineage : Nat, offset : Nat]
Incident == [number : Nat, previous : Position \cup {None}, resume : Position,
             prepared : BOOLEAN, superseded : BOOLEAN]
Ledger == [total : Nat, incidents : Seq(Incident)]

ASSUME GapAssumption ==
    /\ KeptIncidents \in Nat \ {0}
    /\ MaxLineage \in Nat /\ MaxOffset \in Nat /\ MaxCrashes \in Nat
    /\ None \notin Position /\ None \notin Ledger

VARIABLES
    checkpointed, \* options.checkpointPath # ""; a process never changes it
    lineage,    \* the lineage the source retains
    ckpt,       \* durable: the checkpoint file
    ledger,     \* durable: the gap ledger file
    durable,    \* durable: the lines whose events are in the output
    pc,         \* what the process does next
    mem,        \* gapRecovery.ledger
    at,         \* the follower's position
    held,       \* lines accepted, not known to be durable
    target,     \* the checkpoint being saved
    crashes

process == <<pc, mem, at, held, target>>
vars == <<lineage, ckpt, ledger, durable, process, crashes, checkpointed>>

-----------------------------------------------------------------------------
(* The ledger.                                                             *)

LastIncident(l) == Last(l.incidents)
Prepared(l) == l # None /\ LastIncident(l).prepared

\* What pending() makes of the last incident.
PendingResume(l) == IF Prepared(l) THEN LastIncident(l).resume ELSE None

\* A prepared incident that never completed gives way to the new one.
Superseded(l) ==
    [i \in DOMAIN l.incidents |->
        IF l.incidents[i].prepared
        THEN [l.incidents[i] EXCEPT !.prepared = FALSE, !.superseded = TRUE]
        ELSE l.incidents[i]]

\* prepare: one more incident, of which the most recent are kept.
WithIncident(l, previous, resume) ==
    LET total == IF l = None THEN 1 ELSE l.total + 1
        before == IF l = None THEN << >> ELSE Superseded(l)
        all == Append(before, [number |-> total, previous |-> previous, resume |-> resume,
                               prepared |-> TRUE, superseded |-> FALSE])
        excess == IF Len(all) > KeptIncidents THEN Len(all) - KeptIncidents ELSE 0
    IN [total |-> total, incidents |-> SubSeq(all, excess + 1, Len(all))]

Completed(l) == [l EXCEPT !.incidents[Len(l.incidents)].prepared = FALSE]

\* GapLedger.Validate, which both a save and a load insist on.
Valid(l) ==
    /\ l.total > 0
    /\ Len(l.incidents) \in 1..KeptIncidents
    /\ \A i \in DOMAIN l.incidents :
         LET g == l.incidents[i]
         IN /\ ~(g.prepared /\ g.superseded)
            /\ g.number \in 1..l.total
            /\ i > 1 => g.number = l.incidents[i - 1].number + 1
            /\ g.resume.offset = 0
            /\ g.prepared => i = Len(l.incidents)
    /\ LastIncident(l).number = l.total

-----------------------------------------------------------------------------
(* The source.                                                             *)

Origin == [lineage |-> lineage, offset |-> 0]

\* A position of a lost lineage cannot be opened: RecoverableSourceGap.
Opens(position) == position # None => position.lineage = lineage

Break ==
    /\ lineage < MaxLineage
    /\ lineage' = lineage + 1
    /\ UNCHANGED <<ckpt, ledger, durable, process, crashes, checkpointed>>

-----------------------------------------------------------------------------
(* Startup.                                                                *)

Opening == IF Prepared(ledger) THEN PendingResume(ledger) ELSE ckpt

\* pending() refuses a checkpoint that neither end of the transition explains.
Explained == Prepared(ledger) => ckpt \in {LastIncident(ledger).previous, PendingResume(ledger)}

\* Mutant of Start: an unfinished transition is opened but not committed.
StartUncommitted ==
    /\ pc = "down" /\ Explained
    /\ Opens(Opening)
    /\ mem' = ledger
    /\ at' = IF Opening = None THEN Origin ELSE Opening
    /\ pc' = "baseline"
    /\ UNCHANGED <<lineage, ckpt, ledger, durable, held, target, crashes, checkpointed>>

Start ==
    /\ pc = "down" /\ Explained
    /\ Opens(Opening)
    /\ mem' = ledger
    /\ at' = IF Opening = None THEN Origin ELSE Opening
    /\ pc' = IF Prepared(ledger) THEN "flush" ELSE "baseline"
    /\ UNCHANGED <<lineage, ckpt, ledger, durable, held, target, crashes, checkpointed>>

StartInGap ==
    /\ pc = "down" /\ Explained
    /\ ~Opens(Opening)
    /\ at' = Origin
    /\ mem' = WithIncident(ledger, ckpt, Origin)
    /\ pc' = "evidence"
    /\ UNCHANGED <<lineage, ckpt, ledger, durable, held, target, crashes, checkpointed>>

\* The first checkpoint is written before the first line is read.
Baseline ==
    /\ pc = "baseline"
    /\ ckpt' = IF checkpointed /\ ckpt = None THEN at ELSE ckpt
    /\ pc' = "running"
    /\ UNCHANGED <<lineage, ledger, durable, mem, at, held, target, crashes, checkpointed>>

-----------------------------------------------------------------------------
(* Following.                                                              *)

\* The old descriptor may still be read after the break.
ReadLine ==
    /\ pc = "running"
    /\ at.offset < MaxOffset
    /\ held' = held \cup {at}
    /\ at' = [at EXCEPT !.offset = @ + 1]
    /\ UNCHANGED <<lineage, ckpt, ledger, durable, pc, mem, target, crashes, checkpointed>>

Before(line, position) ==
    line.lineage = position.lineage /\ line.offset < position.offset

\* Mutant of Persist: the checkpoint is saved without committing the output.
PersistUncommitted ==
    /\ pc = "running" /\ checkpointed
    /\ \E safe \in [lineage : {at.lineage}, offset : 0..at.offset] :
         /\ Before(ckpt, safe)
         /\ target' = safe
         /\ held' = {l \in held : ~Before(l, safe)}
    /\ pc' = "saving"
    /\ UNCHANGED <<lineage, ckpt, ledger, durable, mem, at, crashes, checkpointed>>

\* persist: everything before the safe position is committed, then saved.
Persist ==
    /\ pc = "running" /\ checkpointed
    /\ \E safe \in [lineage : {at.lineage}, offset : 0..at.offset] :
         /\ Before(ckpt, safe)
         /\ target' = safe
         /\ durable' = durable \cup {l \in held : Before(l, safe)}
         /\ held' = {l \in held : ~Before(l, safe)}
    /\ pc' = "saving"
    /\ UNCHANGED <<lineage, ckpt, ledger, mem, at, crashes, checkpointed>>

SaveCheckpoint ==
    /\ pc = "saving"
    /\ ckpt' = target
    /\ target' = None
    /\ pc' = "running"
    /\ UNCHANGED <<lineage, ledger, durable, mem, at, held, crashes, checkpointed>>

\* Mutant of DetectGap: the evidence quotes the follower, not the checkpoint.
DetectGapStale ==
    /\ pc = "running"
    /\ at.lineage # lineage
    /\ mem' = WithIncident(mem, at, Origin)
    /\ pc' = "evidence"
    /\ UNCHANGED <<lineage, ckpt, ledger, durable, at, held, target, crashes, checkpointed>>

DetectGap ==
    /\ pc = "running"
    /\ at.lineage # lineage
    /\ mem' = WithIncident(mem, ckpt, Origin)
    /\ pc' = "evidence"
    /\ UNCHANGED <<lineage, ckpt, ledger, durable, at, held, target, crashes, checkpointed>>

-----------------------------------------------------------------------------
(* The transition: evidence, output, checkpoint, completion, in that order. *)

\* Mutant of SaveEvidence: the evidence stays in memory.
EvidenceInMemory ==
    /\ pc = "evidence"
    /\ pc' = "flush"
    /\ UNCHANGED <<lineage, ckpt, ledger, durable, mem, at, held, target, crashes, checkpointed>>

SaveEvidence ==
    /\ pc = "evidence"
    /\ ledger' = mem
    /\ pc' = "flush"
    /\ UNCHANGED <<lineage, ckpt, durable, mem, at, held, target, crashes, checkpointed>>

\* Mutant of FlushOutput: pending events survive into the new lineage.
FlushNothing ==
    /\ pc = "flush"
    /\ pc' = IF checkpointed THEN "rebase" ELSE "complete"
    /\ UNCHANGED <<lineage, ckpt, ledger, durable, mem, at, held, target, crashes, checkpointed>>

\* flushAll and sink.Commit.
FlushOutput ==
    /\ pc = "flush"
    /\ durable' = durable \cup held
    /\ held' = {}
    /\ pc' = IF checkpointed THEN "rebase" ELSE "complete"
    /\ UNCHANGED <<lineage, ckpt, ledger, mem, at, target, crashes, checkpointed>>

\* Mutant of Rebase: the transition completes on the old checkpoint.
RebaseSkipped ==
    /\ pc = "rebase"
    /\ pc' = "complete"
    /\ UNCHANGED <<lineage, ckpt, ledger, durable, mem, at, held, target, crashes, checkpointed>>

Rebase ==
    /\ pc = "rebase"
    /\ ckpt' = LastIncident(mem).resume
    /\ pc' = "complete"
    /\ UNCHANGED <<lineage, ledger, durable, mem, at, held, target, crashes, checkpointed>>

\* At startup the baseline checkpoint is the resume position already.
Complete ==
    /\ pc = "complete"
    /\ mem' = Completed(mem)
    /\ ledger' = Completed(mem)
    /\ at' = LastIncident(mem).resume
    /\ pc' = "running"
    /\ UNCHANGED <<lineage, ckpt, durable, held, target, crashes, checkpointed>>

\* What was written but not committed may survive.
Crash ==
    /\ pc # "down"
    /\ crashes < MaxCrashes
    /\ crashes' = crashes + 1
    /\ \E kept \in SUBSET held : durable' = durable \cup kept
    /\ pc' = "down" /\ mem' = None /\ at' = Origin /\ held' = {} /\ target' = None
    /\ UNCHANGED <<lineage, ckpt, ledger, checkpointed>>

Init ==
    /\ checkpointed \in BOOLEAN
    /\ lineage = 0
    /\ ckpt = None /\ ledger = None /\ durable = {}
    /\ pc = "down" /\ mem = None /\ at = Origin /\ held = {} /\ target = None
    /\ crashes = 0

Progress ==
    \/ Start \/ StartInGap \/ Baseline \/ SaveCheckpoint \/ DetectGap
    \/ SaveEvidence \/ FlushOutput \/ Rebase \/ Complete

Next == Progress \/ ReadLine \/ Persist \/ Break \/ Crash

\* The supervisor restarts the process, which never blocks on the way.
Spec == Init /\ [][Next]_vars /\ WF_vars(Progress)

-----------------------------------------------------------------------------
(* Properties.                                                             *)

TypeOK ==
    /\ checkpointed \in BOOLEAN /\ lineage \in Nat /\ crashes \in Nat
    /\ ckpt \in Position \cup {None} /\ target \in Position \cup {None}
    /\ ledger \in Ledger \cup {None} /\ mem \in Ledger \cup {None}
    /\ durable \subseteq Position /\ held \subseteq Position
    /\ pc \in {"down", "baseline", "running", "saving",
               "evidence", "flush", "rebase", "complete"}
    /\ at \in Position

\* A restart is never refused by what an earlier run left behind: the durable
\* ledger passes Validate, and a prepared incident explains the checkpoint it
\* is found with (recovery.go Validate, gap_recovery.go pending), although
\* ledger and checkpoint are two files replaced one after the other.
RestartExplained ==
    /\ ledger # None => Valid(ledger)
    /\ Explained

\* "GapIncident preserves the pre-transition checkpoint" (recovery.go): the
\* checkpoint leaves a lineage only with a durable prepared incident that
\* names both the position it leaves and the one it resumes at.
GapRecorded ==
    [][ckpt # None /\ ckpt'.lineage # ckpt.lineage =>
         /\ Prepared(ledger)
         /\ LastIncident(ledger).previous = ckpt
         /\ PendingResume(ledger) = ckpt']_vars

\* The kept incidents tell one story without a hole: a completed transition is
\* followed by one out of the lineage it entered, a superseded one by a
\* retry from either of its ends, and the checkpoint is where the story ends.
Follows(g, position) ==
    IF g.prepared \/ g.superseded THEN position \in {g.previous, g.resume}
    ELSE position # None /\ position.lineage = g.resume.lineage
HistoryIsAChain ==
    checkpointed /\ ledger # None =>
        /\ \A i \in 2..Len(ledger.incidents) :
             Follows(ledger.incidents[i - 1], ledger.incidents[i].previous)
        /\ Follows(LastIncident(ledger), ckpt)

\* "Do not join pending events across a missing generation" and accepted
\* evidence crosses the sink boundary first (commit): what is held belongs to
\* the lineage that is followed and that the checkpoint is still in.
NothingJoined ==
    \A l \in held :
        /\ l.lineage = at.lineage
        /\ ckpt # None => l.lineage = ckpt.lineage

\* Across gaps, crashes and retries the checkpoint never passes a line of its
\* lineage whose event is not durable (persist, commit).
NothingBehind ==
    ckpt # None =>
        \A offset \in 0..(ckpt.offset - 1) :
            [lineage |-> ckpt.lineage, offset |-> offset] \in durable

\* Every prepared incident is in the end completed or superseded: once the
\* source and the process stop failing none stays prepared.
GapsSettle == <>[]~Prepared(ledger)

=============================================================================
