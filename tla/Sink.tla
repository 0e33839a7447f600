------------------------------- MODULE Sink -------------------------------
(***************************************************************************)
(* NDJSONSink over a managed file (internal/output sink.go, with           *)
(* OpenRegularAt of internal/securefile): Write, Commit, reopenIfRotated   *)
(* and openManagedFile, of several processes that share one output path,   *)
(* while the path is renamed and recreated and processes and power fail.   *)
(*                                                                         *)
(* A file is one inode, numbered in order of creation; it holds lines, of  *)
(* which the last may be incomplete.  A writer numbers its events; after   *)
(* it has ended it begins again behind what it committed, as the           *)
(* checkpoint of its input tells it to.                                    *)
(***************************************************************************)
EXTENDS Integers, Sequences, Functions

CONSTANTS
    Writer,          \* processes that use the path
    None,            \* no writer
    MaxEvents,       \* bound: events of a writer
    MaxFiles,        \* bound: files ever created
    MaxLines,        \* bound: lines in all the files when a Write begins
    MaxPowerFailures \* bound: power failures

ASSUME SinkAssumption ==
    /\ None \notin Writer
    /\ MaxEvents \in Nat /\ MaxFiles \in Nat
    /\ MaxLines \in Nat /\ MaxPowerFailures \in Nat

VARIABLES
    syncEachWrite, \* the sink's sync, an argument of OpenFileSink; never changed
    data,      \* the lines of every file
    synced,    \* how many lines of each file are durable
    path,      \* the file at the output path; 0 when there is none
    lock,      \* the advisory lock of each file
    pc,        \* where each writer is in a call
    call,      \* the call it is in
    fd,        \* sink.file; 0 when not open
    repl,      \* the file openManagedFile has just opened
    failed,    \* sink.failed
    sent,      \* events of each writer accepted by Write
    acked,     \* events of each writer covered by a Commit
    failures

files == <<data, synced, path, lock>>
writers == <<pc, call, fd, repl, failed, sent, acked>>
vars == <<files, writers, failures, syncEachWrite>>

File == DOMAIN data
Line == [by : Writer, n : Nat, whole : BOOLEAN]

Lines == FoldFunction(LAMBDA d, n : Len(d) + n, 0, data)

\* The lines of f become durable.
Synced(f) == [synced EXCEPT ![f] = Len(data[f])]

CompleteTail(f) == data[f] # << >> => data[f][Len(data[f])].whole

\* A process that ends gives up its locks and what it did not commit.
End(p) ==
    /\ pc' = [pc EXCEPT ![p] = "down"]
    /\ fd' = [fd EXCEPT ![p] = 0] /\ repl' = [repl EXCEPT ![p] = 0]
    /\ call' = [call EXCEPT ![p] = "none"]
    /\ failed' = [failed EXCEPT ![p] = FALSE]
    /\ lock' = [f \in File |-> IF lock[f] = p THEN None ELSE lock[f]]
    /\ sent' = [sent EXCEPT ![p] = acked[p]]
    /\ UNCHANGED acked

\* An error of a Write poisons the sink and closes a replacement that was
\* just opened; an error of OpenFileSink or Commit ends the process.
Fail(p) ==
    IF call[p] = "write"
    THEN /\ failed' = [failed EXCEPT ![p] = TRUE]
         /\ pc' = [pc EXCEPT ![p] = "ready"]
         /\ call' = [call EXCEPT ![p] = "none"]
         /\ lock' = [f \in File |-> IF f = repl[p] /\ lock[f] = p THEN None ELSE lock[f]]
         /\ repl' = [repl EXCEPT ![p] = 0]
         /\ UNCHANGED <<fd, sent, acked>>
    ELSE End(p)

-----------------------------------------------------------------------------
(* Calls.                                                                  *)

BeginWrite(p) ==
    /\ pc[p] = "ready" /\ ~failed[p]
    /\ sent[p] < MaxEvents /\ Lines < MaxLines
    /\ call' = [call EXCEPT ![p] = "write"]
    /\ pc' = [pc EXCEPT ![p] = "look"]
    /\ UNCHANGED <<files, fd, repl, failed, sent, acked, failures, syncEachWrite>>

BeginCommit(p) ==
    /\ pc[p] = "ready" /\ ~failed[p]
    /\ acked[p] < sent[p]
    /\ call' = [call EXCEPT ![p] = "commit"]
    /\ pc' = [pc EXCEPT ![p] = "look"]
    /\ UNCHANGED <<files, fd, repl, failed, sent, acked, failures, syncEachWrite>>

\* reopenIfRotated: does the path still name the open file?
Look(p) ==
    /\ pc[p] = "look"
    /\ pc' = [pc EXCEPT ![p] = IF path = fd[p] THEN "do" ELSE "open"]
    /\ UNCHANGED <<files, call, fd, repl, failed, sent, acked, failures, syncEachWrite>>

Start(p) ==
    /\ pc[p] = "down"
    /\ pc' = [pc EXCEPT ![p] = "open"]
    /\ UNCHANGED <<files, call, fd, repl, failed, sent, acked, failures, syncEachWrite>>

-----------------------------------------------------------------------------
(* openManagedFile.                                                        *)

\* What is there is synced, and so is the directory entry.
OpenExisting(p) ==
    /\ pc[p] = "open" /\ path # 0
    /\ repl' = [repl EXCEPT ![p] = path]
    /\ synced' = Synced(path)
    /\ pc' = [pc EXCEPT ![p] = "lock"]
    /\ UNCHANGED <<data, path, lock, call, fd, failed, sent, acked, failures, syncEachWrite>>

OpenNew(p) ==
    /\ pc[p] = "open" /\ path = 0
    /\ data' = Append(data, << >>) /\ synced' = Append(synced, 0)
    /\ lock' = Append(lock, None)
    /\ path' = Len(data) + 1
    /\ repl' = [repl EXCEPT ![p] = Len(data) + 1]
    /\ pc' = [pc EXCEPT ![p] = "lock"]
    /\ UNCHANGED <<call, fd, failed, sent, acked, failures, syncEachWrite>>

\* Mutant of Lock: the lock is not taken.
LockNothing(p) ==
    /\ pc[p] = "lock"
    /\ pc' = [pc EXCEPT ![p] = "tail"]
    /\ UNCHANGED <<files, call, fd, repl, failed, sent, acked, failures, syncEachWrite>>

Lock(p) ==
    /\ pc[p] = "lock" /\ lock[repl[p]] = None
    /\ lock' = [lock EXCEPT ![repl[p]] = p]
    /\ pc' = [pc EXCEPT ![p] = "tail"]
    /\ UNCHANGED <<data, synced, path, call, fd, repl, failed, sent, acked,
                   failures, syncEachWrite>>

LockBusy(p) ==
    /\ pc[p] = "lock" /\ lock[repl[p]] # None
    /\ Fail(p)
    /\ UNCHANGED <<data, synced, path, failures, syncEachWrite>>

TailComplete(p) ==
    /\ pc[p] = "tail" /\ CompleteTail(repl[p])
    /\ pc' = [pc EXCEPT ![p] = "swap"]
    /\ UNCHANGED <<files, call, fd, repl, failed, sent, acked, failures, syncEachWrite>>

\* An incomplete line stays as it is, and the new descriptor is closed.
TailIncomplete(p) ==
    /\ pc[p] = "tail" /\ ~CompleteTail(repl[p])
    /\ Fail(p)
    /\ UNCHANGED <<data, synced, path, failures, syncEachWrite>>

\* The old file is unlocked, the opened one is the sink's; the call goes on.
Replaced(p) ==
    /\ lock' = [f \in File |-> IF f = fd[p] THEN None ELSE lock[f]]
    /\ fd' = [fd EXCEPT ![p] = repl[p]] /\ repl' = [repl EXCEPT ![p] = 0]
    /\ pc' = [pc EXCEPT ![p] = IF call[p] = "none" THEN "ready" ELSE "do"]
    /\ UNCHANGED <<data, path, call, failed, sent, acked, failures, syncEachWrite>>

\* Mutant of Swap: the old file is left to the kernel.
SwapUnsynced(p) ==
    /\ pc[p] = "swap"
    /\ Replaced(p)
    /\ UNCHANGED synced

\* The old file is synced before the sink lets go of it.
Swap(p) ==
    /\ pc[p] = "swap"
    /\ synced' = IF fd[p] = 0 THEN synced ELSE Synced(fd[p])
    /\ Replaced(p)

-----------------------------------------------------------------------------
(* Write and Commit.                                                       *)

Event(p) == [by |-> p, n |-> sent[p] + 1, whole |-> TRUE]

Accept(p) ==
    /\ sent' = [sent EXCEPT ![p] = @ + 1]
    /\ pc' = [pc EXCEPT ![p] = "ready"]
    /\ call' = [call EXCEPT ![p] = "none"]

WriteLine(p) ==
    /\ pc[p] = "do" /\ call[p] = "write"
    /\ data' = [data EXCEPT ![fd[p]] = Append(@, Event(p))]
    /\ IF syncEachWrite THEN pc' = [pc EXCEPT ![p] = "sync"] /\ UNCHANGED <<call, sent>>
                        ELSE Accept(p)
    /\ UNCHANGED <<synced, path, lock, fd, repl, failed, acked, failures, syncEachWrite>>

\* A line is cut short: the disk is full, a limit is reached.
WritePartial(p) ==
    /\ pc[p] = "do" /\ call[p] = "write"
    /\ data' = [data EXCEPT ![fd[p]] = Append(@, [Event(p) EXCEPT !.whole = FALSE])]
    /\ Fail(p)
    /\ UNCHANGED <<synced, path, failures, syncEachWrite>>

WriteSync(p) ==
    /\ pc[p] = "sync"
    /\ synced' = Synced(fd[p])
    /\ Accept(p)
    /\ UNCHANGED <<data, path, lock, fd, repl, failed, acked, failures, syncEachWrite>>

Committed(p) ==
    /\ acked' = [acked EXCEPT ![p] = sent[p]]
    /\ pc' = [pc EXCEPT ![p] = "ready"]
    /\ call' = [call EXCEPT ![p] = "none"]
    /\ UNCHANGED <<data, path, lock, fd, repl, failed, sent, failures, syncEachWrite>>

\* Mutant of Commit: the file at the path is synced, whatever the sink has open.
CommitPath(p) ==
    /\ pc[p] = "do" /\ call[p] = "commit"
    /\ synced' = IF path = 0 THEN synced ELSE Synced(path)
    /\ Committed(p)

Commit(p) ==
    /\ pc[p] = "do" /\ call[p] = "commit"
    /\ synced' = Synced(fd[p])
    /\ Committed(p)

SyncFails(p) ==
    /\ \/ pc[p] \in {"sync", "swap"}
       \/ pc[p] = "do" /\ call[p] = "commit"
    /\ pc[p] = "swap" => fd[p] # 0
    /\ Fail(p)
    /\ UNCHANGED <<data, synced, path, failures, syncEachWrite>>

-----------------------------------------------------------------------------
(* The environment.                                                        *)

\* Close, or the death of the process between two system calls.
Exit(p) ==
    /\ pc[p] # "down"
    /\ End(p)
    /\ UNCHANGED <<data, synced, path, failures, syncEachWrite>>

\* The output is renamed; the file stays open where it is.
RenameOutput ==
    /\ path # 0 /\ Len(data) < MaxFiles
    /\ path' = 0
    /\ UNCHANGED <<data, synced, lock, writers, failures, syncEachWrite>>

\* A file keeps what is durable and any beginning of the rest.
Remains(f) ==
    {SubSeq(data[f], 1, n) : n \in synced[f]..Len(data[f])}
    \cup {Append(SubSeq(data[f], 1, n), [data[f][n + 1] EXCEPT !.whole = FALSE]) :
            n \in synced[f]..(Len(data[f]) - 1)}

PowerFailure ==
    /\ failures < MaxPowerFailures
    /\ failures' = failures + 1
    /\ data' \in {d \in [File -> UNION {Remains(f) : f \in File}] :
                    \A f \in File : d[f] \in Remains(f)}
    /\ synced' = [f \in File |-> Len(data'[f])]
    /\ lock' = [f \in File |-> None]
    /\ pc' = [p \in Writer |-> "down"] /\ call' = [p \in Writer |-> "none"]
    /\ fd' = [p \in Writer |-> 0] /\ repl' = [p \in Writer |-> 0]
    /\ failed' = [p \in Writer |-> FALSE]
    /\ sent' = acked
    /\ UNCHANGED <<path, acked, syncEachWrite>>

Init ==
    /\ syncEachWrite \in BOOLEAN
    /\ data = << >> /\ synced = << >> /\ lock = << >> /\ path = 0
    /\ pc = [p \in Writer |-> "down"] /\ call = [p \in Writer |-> "none"]
    /\ fd = [p \in Writer |-> 0] /\ repl = [p \in Writer |-> 0]
    /\ failed = [p \in Writer |-> FALSE]
    /\ sent = [p \in Writer |-> 0] /\ acked = [p \in Writer |-> 0]
    /\ failures = 0

Next ==
    \/ \E p \in Writer :
        \/ Start(p) \/ BeginWrite(p) \/ BeginCommit(p) \/ Look(p)
        \/ OpenExisting(p) \/ OpenNew(p) \/ Lock(p) \/ LockBusy(p)
        \/ TailComplete(p) \/ TailIncomplete(p) \/ Swap(p)
        \/ WriteLine(p) \/ WritePartial(p) \/ WriteSync(p)
        \/ Commit(p) \/ SyncFails(p) \/ Exit(p)
    \/ RenameOutput \/ PowerFailure

Spec == Init /\ [][Next]_vars

-----------------------------------------------------------------------------
(* Properties.                                                             *)

TypeOK ==
    /\ syncEachWrite \in BOOLEAN
    /\ data \in Seq(Seq(Line))
    /\ synced \in [File -> Nat] /\ \A f \in File : synced[f] <= Len(data[f])
    /\ path \in 0..Len(data)
    /\ lock \in [File -> Writer \cup {None}]
    /\ pc \in [Writer -> {"down", "ready", "look", "open", "lock", "tail", "swap", "do", "sync"}]
    /\ call \in [Writer -> {"none", "write", "commit"}]
    /\ fd \in [Writer -> 0..Len(data)] /\ repl \in [Writer -> 0..Len(data)]
    /\ failed \in [Writer -> BOOLEAN]
    /\ acked \in [Writer -> Nat] /\ sent \in [Writer -> Nat]
    /\ \A p \in Writer : sent[p] \in acked[p]..MaxEvents
    /\ failures \in Nat

\* "An incomplete tail fails closed without changing any output bytes"
\* (reliability.md): nothing is ever written behind an incomplete line, by the
\* writer that cut it, by another process, or after a restart or a power
\* failure (failed, the lock and the tail check of openManagedFile together).
TornOnlyLast ==
    \A f \in File : \A i \in 1..(Len(data[f]) - 1) : data[f][i].whole

Durable(p, n) ==
    \E f \in File : \E i \in 1..synced[f] :
        data[f][i] = [by |-> p, n |-> n, whole |-> TRUE]

\* "Commit establishes the sink durability boundary used by checkpoints": what
\* was accepted before a Commit is durable, in whichever file it went to while
\* the output was renamed under the calls.  "When syncEachWrite is true, Write
\* returns only after the event line is synced locally" (OpenFileSink): also
\* across a reopen in the same call.
Promised(p) == IF syncEachWrite THEN sent[p] ELSE acked[p]
AckedDurable == \A p \in Writer : \A n \in 1..Promised(p) : Durable(p, n)

Written(p) ==
    {n \in 1..MaxEvents : \E f \in File : \E i \in DOMAIN data[f] :
        data[f][i] = [by |-> p, n |-> n, whole |-> TRUE]}

\* A power failure takes the newest events of a writer and leaves no hole: the
\* old file is synced before the first line goes to its replacement
\* (reopenIfRotated).
NoHole == \A p \in Writer : \A n \in Written(p) : 1..n \subseteq Written(p)

=============================================================================
