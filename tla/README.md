# A verification of AesirGuard Audit

`ag-audit` follows the log of the Linux audit daemon, groups physical records
into logical events, and writes one canonical event per line to a managed
output. It promises at-least-once delivery across crashes, rotation and source
gaps, with bounded memory and without ever presenting damaged evidence as a
complete event. This directory holds TLA+ models of the parts that keep that
promise, the TLC runs that check them on small instances, and TLAPS proofs of
what matters most for every instance.

    tlc -config AssemblerIsolation.cfg MCAssembler.tla      # a run
    tlapm DeliveryProofs.tla                                # a proof

## The system

The collector is one sequential loop: `RotatingFollower.Next` yields a line,
`addSourceLine` parses it and hands it to the `Assembler`, the events that
leave the assembler are made canonical and written to the `Sink`, and from time
to time `persist` commits the sink and replaces the checkpoint file. What makes
it hard is what happens around that loop: the log is written and renamed under
the reader, other processes share the output, the clock expires what is
waiting, and the process may die between any two system calls.

| Component | Source | State | Operations | What makes it correct |
|---|---|---|---|---|
| Assembler, isolation | `internal/audit/assembler.go`, `isolation.go`, `cmd/ag-audit/line_limit.go` | open groups, rejected keys, fence, byte counters, newest event time | add a record, reject an oversize line, expire, flush, safe position | limits hold; every line in exactly one place; a damaged key is never completed; the safe position never moves back and in the end catches up |
| Collector loop, checkpoint writer | `cmd/ag-audit/main.go` | position, last saved position, time of the last save | read, poll, persist, shut down, recover | no evidence behind the durable checkpoint is lost |
| Rotating follower | `internal/collector/rotation.go`, `follower.go`, `recovery.go` | open file, offset, read buffer, unfinished line, queue, drain observation | `Next`, discover, open, restart, recover | nothing skipped or read twice; no jump into other content; a gap only for a cause; catches up |
| Gap recovery | `cmd/ag-audit/gap_recovery.go`, `internal/collector/recovery.go` | ledger of incidents, checkpoint | prepare, commit, resume | every change of lineage has durable evidence; a restart is never refused |
| Managed output | `internal/output/sink.go`, `internal/securefile/open_linux.go` | open file, lock, sticky failure | write, commit, reopen, close | nothing behind an incomplete line; a commit is durable; no hole after a power failure |
| State files | `internal/collector/checkpoint.go` | checkpoint and ledger files | load, save | a save is one atomic replacement; durable once answered, never ahead of the output; what is left behind is bounded by the saves that failed and the deaths |
| Singleton lock | `internal/collector/lock_linux.go` | kernel lock | acquire, release | one collector for each input |
| Batch mode | `cmd/ag-audit/batch.go` | unfinished line | read, cancel | all input flushed once |
| Parser | `internal/audit/parser.go`, `decoding.go` | none | parse a line | a verdict for every line |
| Canonical event | `internal/audit/canonical.go`, `argv.go`, `conflicts.go`, `results.go`, `login.go`, `security_evidence.go`, ... | none | build an event from a group | conflicts are reported, never resolved silently; the order of arrival decides only what is listed by it; nothing is borrowed from another record; no evidence is lost |
| Classification, rendering | `internal/audit/classify.go`, `render.go`, `data/` | none | table lookup, text | no operation and no outcome is claimed without evidence |
| Configuration, diagnostics | `cmd/ag-audit/config.go`, `operations.go` | counters | parse options, log | - |

The components meet at few places. The follower gives the loop lines with their
start and end positions and a `CompletePosition`; the assembler turns that into
a `SafeSourcePosition` that stays in front of everything unresolved; `persist`
saves it only after `Sink.Commit`. A `SourceGapError` or `SourceTruncatedError`
of the follower leads to gap recovery, which flushes the assembler, commits the
sink, rebases the checkpoint and replaces the follower. Nothing else is shared.

The hazards this leads to are listed, line by line, in `PROJECT.json`.

## The modules

| Module | Models | Composes or refines |
|---|---|---|
| `Assembler` | the assembler and the line handlers | |
| `AssemblerProofs`, `PlacementProofs` | theorems about `Assembler`: types, limits and isolation; the place of every line and what closes a group | `PlacementProofs` extends `AssemblerProofs` |
| `AtLeastOnce` | what the collector promises, without crashes | |
| `Delivery` | loop, checkpoint, output, crashes, shutdown | extends `Assembler`, implements `AtLeastOnce` |
| `DeliveryProofs` | theorems about `Delivery`, the refinement among them | extends `PlacementProofs` |
| `GapRecovery` | the write-ahead transition across a gap | |
| `GapProofs` | theorems about `GapRecovery` | |
| `Rotation` | the rotating follower against a rotating directory | |
| `RotationProofs` | theorems about `Rotation` | |
| `Sink` | the managed output shared by several processes | |
| `SinkProofs` | theorems about `Sink` | |
| `AtomicFile` | what a save of a state file promises | |
| `StateFile` | the singleton lock, and the saves of the checkpoint call by call | implements `AtomicFile` |
| `StateFileProofs` | theorems about `StateFile` | |
| `Arguments` | argument vectors from EXECVE tokens | |
| `Evidence` | what a group says of a field: decoding, conflicts, results | extends `Arguments` |
| `Canonical` | the canonical event of a group, token by token | extends `Evidence` |
| `CanonicalClaims` | what a published event may say | extends `Canonical` |
| `ClaimProofs` | theorems about what a published event may say | extends `CanonicalClaims` |
| `MC...` | instances for TLC | |

### Assembler

`asm` is the `Assembler` struct as a record; each Go map is a function with the
present keys as its domain. A line's position is its number in `input`, and the
evidence a group or an event holds is a set of line numbers, which is what the
properties are about. `HandleLine` is one call of `addSourceLine` or
`rejectLine`: its disjuncts are the outcomes of `AddRecovering` (a known damaged
key, a full group closed, a fenced key, an orphan EOE, admission, refusal) and of
`RejectPhysicalLine` (with or without a usable key), and `S` is the state after
the expiry that every call does first. `Idle` is `FlushExpired` on a poll and
`FlushAllWith` a shutdown or gap flush. `broken` is history: when evidence of a
key was last refused. A full table turns any unseen key into one that renews the
fence, as `isolation.go:137-139` and `docs/reliability.md:311-320` say;
`FenceRenewal` is about everything else, which must not: tracked and pending
keys, keys for which the table has room, terminators and expiry.

Event time is an abstract number with `OneMinute` as the unit of the jump
filter; byte sizes are small numbers. The events of one call form a set: their
order is given by sequence numbers in the code and no property is about it.

### Delivery and AtLeastOnce

`Delivery` puts the loop around the assembler. `CommitOutput` and
`SaveCheckpoint` are two steps, because the process may die between them;
`Crash` keeps any subset of the events that were not synced. `Start` replays
from the checkpoint with an empty assembler. A shutdown flushes, commits and
saves the complete position. The clock restarts with the process because no
state that outlives it holds a time.

`AtLeastOnce` has a source, a set of delivered lines and a cursor, and does not
know about crashes. `Delivery` implements it with the durable checkpoint as the
cursor and the synced events as what is delivered.

### GapRecovery

The source is a number, its lineage; a break starts the next lineage and makes
every earlier position unreadable. The process runs through evidence, flush,
rebase and complete, each a step, with crashes and further breaks in between; a
save that fails ends the process and is a crash before the save. The ledger is
kept with its incidents, its count, its trimming and its validation.

### Rotation

The directory maps each rotation number to a generation. A rotation renames
from the oldest to the newest, creates the path, and only then makes the writer
reopen, so the old generation still grows after it was renamed. A generation is
a sequence of eras, a new one with each truncation; an era is a sequence of
pieces, and a piece says whether it ends a line, so that a line may be spread
over several writes and generations.

`Next` of the follower is cut at the points where the outside can act: after the
read that fills the buffer, before each buffered line is handed over with a
content anchor sampled from the file as it then is, after the look at the path,
after the listing of the directory and before each look at one of its entries,
before the open. The drain interval is assumed to outlast the writer's hold on
its old descriptor (`DrainElapsed`), which is what `--rotation-drain` is set for.
A restart opens the checkpointed generation when size and anchor allow it,
recovers behind a gap, or fails and is tried again by the supervisor
(`Restart=on-failure` in the service unit). Errors that the loop treats as fatal
end the process, among them a name that vanishes between listing and look, and
an anchor that cannot be sampled because the file was cut off below buffered
lines.

Things this shows that are easy to get wrong in a review. A truncation
under buffered lines is not recovered by the running process, which dies of the
anchor, but by the next start. A whole rotation between the listing and the
looks at its entries can yield a gap where nothing is missing; that replays, and
loses nothing. A file that shrank and grew back to the reader's offset between
two looks is not noticed, as `docs/reliability.md:110` says; nor is one that,
between the two looks of a drain, was cut and grew back to the size observed.
`blind` records both, and the reading properties say nothing of such a run from
then on. A file that has no end of line at the checkpoint's offset, or another
anchor, keeps the process from starting (`RestartFails`) until it is rotated
away or an operator intervenes.

Compressed and foreign names and links are not in the directory. Of copytruncate
only the truncation, to zero, is modelled. One bound is a shape, not a number:
no second rotation begins while a discovery goes by a file that the first one
renamed (`Overtaken`).

### Sink

Each file has lines, a durable prefix, and a lock. A call of a writer is cut
before each system call, so that renames, other writers, deaths and power
failures fall in between. A power failure keeps the durable prefix of each file
and any beginning of the rest, which may end in the middle of a line.
`OpenExisting` syncs the file it opens because `OpenRegularAt` does so whenever
it may create. A failed `Write` poisons the sink; a failed open or commit ends
the process, as its callers do. The error of closing the old file after a swap
and the loss of dirty pages after a failed sync are left out.

### StateFile and AtomicFile

Several processes are started for one input over and over. `OpenLock` and
`TryLock` are the two halves of `AcquireFileLock`: a lock file is an inode with
a number of its own, a kernel lock belongs to the inode and is released by
`Close` or by death. A process then loads the checkpoint, refuses a damaged one,
handles lines and saves: `CommitOutput` of `persist`, then the calls of
`saveState` one by one - create, sync of the file and of its directory entry,
write, sync, rename, sync of the directory. Any of them may fail. `OpenFails` is
an error of `OpenRegularAt` after the name exists (`open_linux.go:99-110`):
`saveState` returns at `checkpoint.go:141`, before its deferred unlink, and the
file stays. After an error elsewhere (`SaveFails`) the deferred unlink removes
it, or fails too. The process may die between any two calls (`Crash`), and the
power may fail: `PowerFailure` may undo a rename, a creation or an unlink that no
sync of the directory followed (`loose`), and may damage a file that was not
synced. `possible` is the set of files that may then be found at the
checkpoint's path. Nothing removes a temporary file later, as its name is
random; `LeftoversBounded` says that errors and deaths leave one each at most,
and the saves that are answered none.

`AtomicFile` has a value, the set of values a power failure may leave, and three
steps: replace by a newer value, settle, fail. `StateFile` implements it with
what a reader finds as the value; the replacement is the rename. That is the step
`SaveCheckpoint` of `Delivery` and the saves of `GapRecovery` stand for.

A death between the rename and the sync of the directory leaves a checkpoint
that the next process loads and, having nothing newer, never syncs itself: it
may be undone by a later power failure. That is harmless, since no save of that
position was answered, but it is why `SavedAtLast` speaks of what is found and
not of what is durable.

### Arguments, Evidence, Canonical and CanonicalClaims

The canonical event is a pure function of a completed group, and what makes it
hard is the number of ways in which records can disagree. `Canonical` builds a
group one token at a time, records in any order, and keeps the event and the
issues that `BuildCanonicalEvent` yields; each reachable group is one that a
timeout or shutdown may close. A token has a key and a value; values stand for
decoded text, and `"garbled"` is one that is not valid text. `Evidence` has the
selections of the parser and of `canonical.go`, the conflicts of
`markSingletonConflicts` and the results of `canonicalSuccess`; `Arguments` is
`buildArguments`, over letters in which a character can be cut in two.

A theme (`MCCanonical`) names the record types of an instance, the tokens each
may carry, and the number of records and tokens: ten themes, one for each
question that `CanonicalClaims` asks - identities, decisions, spellings, results,
logins, commands and filters, changes, operations,
argument vectors and fragments.

The properties do not repeat the functions: they are stated on the tokens of the
group. A field that is published is one no token contradicts (`Unanimous`).
Swapping two neighbouring records changes neither the operation nor any field
but three (`OrderFree`, which covers every permutation because all groups are
reached). Those three follow the arrival by the code's design: rule keys are
listed as they first occur (`canonical.go:251-260`, `docs/schema.md:225`) and
paths without an item as they come, so that only their sets are fixed; and
the name of the target is that of the first record other than a PATH
(`canonical.go:357-361`), and may change only where two records give different
ones. Every security token is shown or kept as an issue (`EvidenceKept`);
subject, target context and decision are of one record (`NothingBorrowed`, which
does not speak of the target's name); an outcome rests on a result that was read,
and a rule key alone proves no operation (`ClaimsOnEvidence`); a login
transition is whole or withheld (`TransitionFaithful`); and an argument vector is
published exactly when the tokens encode it, compared with the encoding from the
other side, `Encodes` over all vectors of two arguments
(`ArgvExact`).

## The runs

| Run | Question | Bounds |
|---|---|---|
| `assembler_isolation` | limits, isolation, exactly one place, monotone safe position, fence renewal | three keys, one group slot, two records a group, three bytes: every slot is contended by the second line; four lines, five ticks, timeout two |
| `assembler_watermark` | who may complete a group by age; mixed nodes | four IDs with times 0, 1, 3 and 8 around a window of two, two producers, four lines |
| `delivery_crash` | loss, monotony, refinement | three lines, two crashes, one shutdown: a checkpoint is taken, used, taken again and used again |
| `delivery_settles` | is everything behind a checkpoint in the end | two lines of two keys, oversize and uncorrelated ones included, one crash, one shutdown |
| `delivery_suffix` | finding, below | four lines, no time, one crash |
| `gap_recovery` | is a restart always explained, is the history a chain, do transitions end | with and without a checkpoint file; three breaks, three crashes, a ledger of two, so that trimming happens and two incidents can be superseded in a row |
| `rotation` | exact reading, no jumps, boundaries, causes of gaps, does the follower reach the path | two retained numbers (the least with a hole), three generations, of which the oldest may be removed under the reader; two pieces, so that a line can be cut by a rotation; one truncation, one crash; a file that grows back to a size observed in a drain takes four pieces and is left to the theorems |
| `rotation_retained` | finding, below | two retained numbers, two pieces |
| `sink` | incomplete lines, durability, holes | two writers, two events each, two files, three lines in all, one power failure; with and without a sync on each write |
| `state_file` | one collector, whole and durable checkpoints, refinement, leftovers, is the input saved in the end | two processes, two lines, so that a save replaces a save; two deaths or power failures, one failed save or shutdown, two lock files, which is what a removed lock file would need |
| `canonical` | what may a published event say | ten themes of up to three records and four tokens: a contradiction needs two tokens, and three tell a majority from an agreement |
| `canonical_withheld` | finding, below | one record with both spellings of the decision |

The bounds are small because each hazard needs few actors: two keys or one key
and the fence contend for a slot, two restarts show a checkpoint written after a
replay, two files show a reopen. Every property is falsified under the same
bounds by a plausible defect of the code; those mutants stand beside the
definitions they replace, marked as such in the modules, and are no part of any
specification.

Each module states the types of its variables in `TypeOK` (`DTypeOK`), which is
part of every inductive invariant below and so proved for `Assembler`,
`Delivery`, `GapRecovery`, `Rotation`, `Sink` and `StateFile`. The runs spend their
properties on what several steps are needed to break.

### Fairness

`Assembler`: while the process lives the poll loop turns and time passes, and a
line that was written is read. `Delivery` adds that the supervisor restarts the
process and that `persist` is reached on each pass of the loop; crashes and
shutdowns are bounded, which says that failures end. `GapRecovery`: the process
never waits for anything between its steps. `Rotation`: the poll loop turns,
the supervisor starts a process that ended, and a rotation that has begun ends;
writes, truncations and new rotations are bounded. `StateFile`: a process that
was started takes its next step, and each process is started again by its
supervisor or schedule (`docs/architecture.md:98`, `docs/runbook.md:50`); errors,
stops and failures are bounded. No
fairness is assumed of a writer of the log, of an operator, or of failures. The
`Sink` has no liveness property: an incomplete tail stops it for good, by design.

## What the runs found

**A suffix of refused evidence can become a complete event** (`delivery_suffix`).
`isolation.go:54-56` says that the replay barrier of a rejected key prevents a
restart in the middle of exceptional evidence from manufacturing a complete
suffix event. A terminator removes that barrier at once, while an older group of
another key may still hold the safe position between the key's first and last
exceptional lines. A crash then replays from there with an empty rejected table,
and the remaining lines of the key are assembled and closed as complete. In
the trace line 1 is an oversize line of key 1, line 2 data of key 2, lines 3 and
4 data and EOE of key 1; the checkpoint is line 2.

**A listing in the middle of a rotation drops retained records**
(`rotation_retained`). Between the rename of `.1` to `.2` and the rename of the
active file to `.1` the directory has the path and `.2` but no `.1`. A listing at
that moment is reported as `missing_intermediate_generation`, recovery starts
at the path, and the unread end of the generation at `.2` is skipped, although
the file is still there and the hole closes with the next rename. Only an absent
path is retried. `docs/reliability.md:28-32` promises that nothing is dropped
while the checkpointed generation and the rotated files remain available. The
incident is recorded as a potential loss, so the loss is not silent.

**A contradicted decision is published under its other spelling**
(`canonical_withheld`). `docs/schema.md:215-218` says that distinct values of a
repeated singleton field withhold the canonical field. `decision` and `apparmor`
are two spellings of one, and `markSingletonConflicts` compares them by the last
value of each (`conflicts.go:52`). A record with `decision=denied`,
`decision=granted` and `apparmor=granted` withholds `decision` and publishes
`granted` from `apparmor`. The issues keep both `decision` tokens, so the
evidence is not lost, but the field is not withheld.

## The proofs

Every theorem holds for all values of the constants that satisfy the named
assumptions of its module: positive limits, timeout and ledger length, natural
byte sizes and bounds, lines that are physical lines, and a `None` outside the
data it stands in for. For canonical events (`CanonicalAssumption`) the order of
record types names each type once, tokens are a key and a text, those of an
EXECVE are of the kinds that `parseExecArgKey` reads, and `Vectors` holds
sequences of letter sequences. Nothing is assumed of the number of keys, nodes,
lines, processes, files, crashes, restarts, records or tokens. A theorem that
names a property of a run extends what that run shows on its instance.

| Module | Theorem | Property |
|---|---|---|
| `AssemblerProofs` | `TypeCorrect`, `LimitsRespected`, `TaintNeverForgotten`, `TaintedKeyOpensNoGroup` | `TypeOK`, `LimitsHold`, `TaintRemembered`, `NoTaintedGroup` |
| `PlacementProofs` | `EvidenceExactlyOnce`, `SafePositionNeverRegresses`, `FenceRenewedByUntracked`, `TwinsAreMarked`, `WatermarkHasWitness` | `ExactlyOnce`, `SafeNeverRegresses`, `FenceRenewal`, `MixedMarked`, `WatermarkJustified` |
| `DeliveryProofs` | `NothingLost`, `PersistIsSafe`, `ImplementsPromise` | `NoLoss`, `PersistNeverFatal`, `AtLeastOnceDelivery` |
| `GapProofs` | `RestartsExplained`, `LedgerIsAChain`, `NothingCrossesAGap`, `CheckpointOnDurable`, `GapsAreRecorded` | `RestartExplained`, `HistoryIsAChain`, `NothingJoined`, `NothingBehind`, `GapRecorded` |
| `RotationProofs` | `GapsHaveCauses`, `ReadsWithoutHole`, `NeverJumpsAhead`, `PositionsAreBoundaries`, `TypeCorrect` | `GapHasCause`, `NothingSkipped`, `NothingJumped`, `PositionIsBoundary`, types |
| `SinkProofs` | `IncompleteLineIsLast`, `CommittedIsDurable`, `SurvivorsAreAPrefix` | `TornOnlyLast`, `AckedDurable`, `NoHole` |
| `StateFileProofs` | `LockHolds`, `CheckpointBehindOutput`, `AnswerLasts`, `LeftoversFromFaults`, `Implements`, `TypeCorrect` | `OneCollector`, `NeverAhead`, `AnsweredSurvives`, `LeftoversBounded`, `AtomicReplacement`, types |
| `ClaimProofs` | `ValuesUnanimous`, `ArrivalIrrelevant`, `NoEvidenceLost`, `OneRecordDecides`, `ClaimsHaveEvidence`, `TransitionsFaithful`, `VectorsExact` | `Unanimous`, `OrderFree`, `EvidenceKept`, `NothingBorrowed`, `ClaimsOnEvidence`, `TransitionFaithful`, `ArgvExact` |

### The assembler

One lemma for each operator on the assembler's state says what the operator
changes and keeps; one lemma for each action composes them.

*Limits* (`AssemblerProofs`). `LimitsHold` with the tables finite is inductive
(`Limited`). The byte counters are compared with `MapThenSumSet`, a recursion
over a set. The proof counts instead: a key of n bytes stands for n units, and
the sum over a set of keys is the cardinality of their units (`SumsAreWeight`, by
a least set on which the two would differ). Units of disjoint sets of keys add
up (`WeightAdds`), which is all that an operator needs to show that it charges
and releases exactly what it adds and removes.

*Isolation* (`AssemblerProofs`). `NoTaintedGroup`, that no group is open for a key
whose evidence was refused less than a timeout ago with no terminator since, is
not inductive: a step could admit a key that no table remembers.
`TaintRemembered` strengthens it: every such key is not pending, and is in the
rejected table, or behind the fence, with a time no older than the refusal; and
no key is both pending and rejected. Expiry keeps it because a table entry or
fence expires a full timeout after its own time, hence after the refusal's; a
full table keeps it because the fence is then raised or renewed; a fence keeps
it because no unknown key is admitted behind one, and a terminator ends the
taint with the barrier. TLC checks the same invariant in `assembler_isolation`.

*Placement* (`PlacementProofs`). `ExactlyOnce` counts; its inductive form
`PlacedInv` does not. No two groups, no two events, and no group and event
share a line, no line is from beyond the read position, and a line with evidence
is somewhere. Each operator is shown to carry this along as a move of lines
between places (`Carries`), the new line being the only one that may come from
nowhere; an action is a chain of such moves. The safe position needs `From`:
every group, rejected key and fence stays at or after a position p, and a group
still holds its first line. What was from p on stays so under every step, and p
can be taken to be the safe position itself.

*Closure* (`PlacementProofs`). Only `Admit` opens a group, moves the watermark or
adds a line; every other step retires groups as they are, but for a mark. So
each invariant is carried by one lemma for retiring and one for storing.
`MixedMarked` speaks of two events, and `Marked` adds what must be true while one
or both are still open: two open twins are both marked, and so is an open group
with a line before one of its twin's event. `WatermarkJustified` needs `Epoch`:
a group that has an event time is of the producer whose times are now observed,
and is not past the watermark between calls. Hence a group that passes it does so
in the very call that moves it, and the record of that call is the witness.

### Delivery

`PlacedInv` does not survive a replay, which writes lines again. `DeliveryInv`
keeps what does: a running process has located all evidence before its position,
nothing unresolved lies before the checkpoint or before the position being saved
(`From`), and every line with evidence before either of them is in the synced
part of the output. It contains `NoLoss`. `PersistNeverFatal` follows, as the
checkpoint is a lower bound of every barrier: a replay starts from it, and no
step moves a barrier below it. For `ImplementsPromise` each step is mapped:
reading a new line is `Append1` of `AtLeastOnce`, a commit, a start and a
shutdown are `Deliver`, a save of the checkpoint is `Advance`, and every other
step, the crash too, a stutter.

### Gap recovery

`GapInv` says, for each place of the transition (`pc`), how the ledger in memory,
the one on disk and the checkpoint stand to one another: which writes have been
made. Both ledgers pass the code's own validation, and the checkpoint is
explained by the last incident. `RestartExplained` alone is not inductive: it
says what a start accepts, not why the next write leads to another state that a
start accepts. Appending an incident (with the trimming of the oldest and the
superseding of an undecided one) and completing the last are the only two changes of
a ledger, and two lemmas show what they keep of `Valid` and of the chain.
TLC checks `GapInv` on the instance of `gap_recovery`.

### Rotation

Four invariants are stacked, because each is used by the next.

`SourceInv` is of the writer and the rotation alone. A name holds the generation
that its age gives it, or, in the middle of a rotation and above the slot that is
next, its neighbour's; a hole below an older file exists only at that slot.
`DiscoveryInv` says what is left of this when a directory is listed and then
looked at name by name while it moves: what was found is in the order of the
names, and a run of names without a hole holds consecutive generations. So
`QueueAfterIs` can show that the queue built from a contiguous chain is the
generations after the open one, one by one. `FollowInv` carries that along with
the types. `GapHasCause` follows: with nothing gone, no hole and no rename during
the listing, the chain that discovery looks for is whole (`ChainIsWhole`).

`DataInv` is of what was read, and is where the three reading properties come
from; none of them is inductive alone.

- `MarkInv` is the argument of the drain. In the era the observation is of, a
  file only grows; when the reader has come to its end again, its offset is at
  least the size observed; when a second look finds that size, all of it was
  read; and behind `DrainElapsed` the writer holds a newer generation, so that
  nothing can be added any more.
- `Bounds` places the reader: the buffer within what was written of its era,
  `CompletePosition` no further than the offset, nothing read of a generation
  that is yet to come.
- `Unended` is what an unfinished line stands for: none of its pieces ends a
  line, and with no unfinished line the piece at the offset does.
- `Sound`, of the checkpoint and of `CompletePosition`, is what makes a position
  a boundary: its offset is behind an end of line in the era of its anchor and
  everything up to it was handed over; at offset 0 the previous generation is
  closed by an end of line, unless it was cut.
- `Read` and `NothingJumped` are the properties themselves.

A restart then begins behind what was handed over because its anchor names the
present era, and a switch leaves a generation that was read whole because of
`MarkInv`. `Sound` and `Read` are about runs that are not `blind`; `MarkInv`,
`Bounds` and `Unended` are not, which is what the last clause of
`PositionIsBoundary` needs. `DataInv` was model-checked before it was
proved, on the instance of `rotation` and on one with four pieces.

### The sink

`SinkInv` has the advisory lock at its centre: the open file of a writer, and
the one about to become it, is locked by it, a sink that has not failed appends
behind a complete line, and what it accepted is durable or in the file it still
has open. `Backed` is what `NoHole` needs before the failure: in front of every
line, or durable, are all earlier events of its writer. A step of one writer
leaves this to the others because it writes to no file they have locked; a
power failure keeps it because it takes only suffixes.

### State files

`Safe` is inductive and has four parts. `LockInv`: as no one removes the lock
file, there is at most one inode, every descriptor is of it, and a process past
`AcquireFileLock` is its holder; so there is only one (`LockHolds`). `FilesInv`:
every file that a power failure may leave at the path is synced, not ahead of
the durable output, and not older than what was answered. `SaverInv` says, for
the one process that saves, what each step has established for the next: the
position is committed before the temporary file exists, the temporary file is
nobody's checkpoint until its rename, and is synced with that position when it
is renamed. For the other processes `SaverInv` is vacuous because of `LockInv`:
without the lock the argument does not go through, and neither does the code.
`NeverAhead` and `AnsweredSurvives` follow at once, and so does `Implements`:
under `Safe` each action of `Next` is a replacement, a settlement, a power
failure or a stutter of `AtomicFile`. `LeftInv` counts, against errors and
deaths, every file that has a temporary name or may have one again: `temps`,
those whose unlink or creation was not synced (`loose`), and those whose rename
a power failure may undo, less the one of the save that is going on. The count
only grows by the file of a save that ends, by an error or by a death; what a
power failure brings back was counted before. For that the rename that may be
undone must be the one of the save that is going on: the sync of the directory
after the creation settles everything older (`possible` is a singleton and
`loose` empty from `SyncEntry` to `Rename`).

### The canonical event

`Published` is inductive: `group` is a sequence of well-formed records that a
theme yields, `event` and `issues` are `Event` and `Issues` of it. After that the
properties are facts about one group, of any number of records and tokens, and
what they need are facts about the selections. A selection of the first value
that is not empty is a minimum of places, and every set of naturals has one, so
no induction over the tokens is needed.

- *What a view shows.* `RecordHeard` and `FirstHeard` say of every selection that
  its value is one that a token says and that no token contradicts, and that an
  empty selection means that nobody says anything or that somebody contradicts.
  `ValuesUnanimous`, `OneRecordDecides` and `TransitionsFaithful` follow field by
  field, from those and from what the issues keep (`IssuesKeep`).
- *What is shown or kept.* For `NoEvidenceLost` a token that is not an issue is
  in no conflict, so the view has its value (`ValueKept`), a second spelling of
  the field has none or the same (`SynonymKept`), and the decision that is shown
  is the one of its record or equal to it (`FieldShown`). `Evidential` leaves
  out what the code does not read as evidence: a mode that is neither of the two
  (`canonical.go:408-413`) and a filter outside the raw section.
- *What is claimed.* An outcome comes from the record type that decides, whose
  readings are one value (`SuccessIsRead`); a rule that names an operation
  matches without the keys too (`NamedWithoutKeys`).
- *Argument vectors.* `VectorsExact` has two halves. From the vector to the
  encoding, the fragments are the pieces that `Encodes` asks for, and as many as
  their numbers because none contradicts another (`PartsCounted`). From an
  encoding to the vector, the announced length and the numbers determine the
  pieces, whatever the order of the tokens (`ArgumentRead`). The tokens of
  several records are joined by a recursive function; that it is defined at every
  record count is shown by a least count at which it would not be
  (`ExecveTokensAre`).
- *The order of the records.* Two groups that are a permutation of one another
  (`Permuted`) say the same of every field and have the same conflicts. A first
  value is not a matter of order because the value is the only one: a field on
  which records differ is withheld in all of them (`SameFirst`). A vector depends
  on the set of the tokens alone, because each of two groups with the same tokens
  publishes what encodes them (`VectorUnordered`). Paths are numbered by a total
  order of which the records' places are the last criterion, so another order
  of arrival yields the same set of paths (`PathsRange`); rule keys are numbered
  by where they first stand, with the same argument (`Ranked`, `KeysRange`). The
  first of several names is one of them, and there is one in both groups or in
  neither (`NamesDiffer`). The records that close
  a group and the title are at places that no swap of `OrderFree` moves.

### Only model-checked

The four liveness properties, `EventuallyDurable`, `GapsSettle`, `CatchesUp` and
`SavedAtLast`: liveness under fairness and `ENABLED` are out of this prover's
reach. The three runs that find a disagreement stand as counterexamples. Every
other property of a run is a theorem.

## Not modelled

Parsing of characters; wording of messages; capability masks, node and host names
and the splitting of one value into rule keys in canonical events; all but a few
of the classification rules, which are data of one form; options, heartbeats and
diagnostics; ownership, mode and symbolic-link checks, which are preconditions;
inode reuse, and the copy that copytruncate makes.

Batch mode has no state of its own but an unfinished line, and no checkpoint; it
drives the same assembler. What could go wrong in it is the interruption of a
read that blocks, which is decided by the Go runtime's poller and not by this
code.

A panic is possible in `rotation.go:197` when the old file is back at the path
between the look and the listing; no rotation by renaming does that, so the
model has no such step.

## Plan

1. Rotation composed with `GapRecovery`'s transition, so that the position a
   recovery begins at is the one the ledger quotes.
