----------------------------- MODULE SinkProofs -----------------------------
(***************************************************************************)
(* What the managed output promises for any number of writers, files and   *)
(* power failures: an incomplete line stays the last of its file, what     *)
(* Commit or a synchronous Write has returned for is durable, and a power  *)
(* failure leaves no hole.                                                 *)
(*                                                                         *)
(* The argument: the advisory lock makes a file belong to one open sink,   *)
(* which has seen its tail to be complete and has not failed since; an     *)
(* accepted event is durable or in the file the sink still has open; and a *)
(* line is only ever written behind all the earlier events of its writer.  *)
(***************************************************************************)
EXTENDS Sink, SequenceTheorems, TLAPS

-----------------------------------------------------------------------------
(* The inductive invariant.                                                *)

Whole(p, n) == [by |-> p, n |-> n, whole |-> TRUE]

Has(f, p, n) == \E i \in 1..Len(data[f]) : data[f][i] = Whole(p, n)

\* Where a call stands and which files it has.  Once the path names another
\* file than the open one it never comes back to it.
CallOK(p) ==
    /\ pc[p] \in {"down", "ready"} => call[p] = "none"
    /\ pc[p] \in {"look", "do"} => call[p] # "none"
    /\ pc[p] = "sync" => call[p] = "write"
    /\ call[p] = "write" => sent[p] < MaxEvents
    /\ fd[p] = 0 <=> pc[p] # "ready" /\ call[p] = "none"
    /\ failed[p] => pc[p] = "ready"
    /\ repl[p] # 0 <=> pc[p] \in {"lock", "tail", "swap"}
    /\ repl[p] # 0 => repl[p] # fd[p]
    /\ pc[p] = "open" /\ path # 0 => path # fd[p]

\* The open file, and one about to become it, is locked.
LockOK(p) ==
    /\ fd[p] # 0 => lock[fd[p]] = p
    /\ pc[p] \in {"tail", "swap"} => lock[repl[p]] = p

\* A sink that has not failed appends behind a complete line.
TailOK(p) ==
    /\ fd[p] # 0 /\ ~failed[p] => CompleteTail(fd[p])
    /\ pc[p] = "swap" => CompleteTail(repl[p])

\* What Write has accepted is durable or in the open file.
KeptOK(p) ==
    /\ \A n \in 1..sent[p] : Durable(p, n) \/ (fd[p] # 0 /\ Has(fd[p], p, n))
    /\ pc[p] = "sync" => Has(fd[p], p, sent[p] + 1)
    /\ \A n \in 1..Promised(p) : Durable(p, n)

\* The earlier events of a line's writer are durable, or in front of it.
Backed(f, i) ==
    LET g == data[f][i] IN
    g.whole =>
        \A m \in 1..(g.n - 1) :
            \/ Durable(g.by, m)
            \/ \E j \in 1..(i - 1) : data[f][j] = Whole(g.by, m)

WriterOK(p) == CallOK(p) /\ LockOK(p) /\ TailOK(p) /\ KeptOK(p)

SinkInv ==
    /\ TypeOK
    /\ TornOnlyLast
    /\ \A f \in File : \A i \in 1..Len(data[f]) : Backed(f, i)
    /\ \A p \in Writer : WriterOK(p)

-----------------------------------------------------------------------------
(* What a step of one writer leaves to the others.                         *)

LEMMA Types ==
    ASSUME TypeOK
    PROVE  /\ Len(data) \in Nat /\ File = 1..Len(data)
           /\ \A f \in File :
                 /\ data[f] \in Seq(Line) /\ Len(data[f]) \in Nat
                 /\ synced[f] \in 0..Len(data[f])
                 /\ lock[f] \in Writer \cup {None}
                 /\ \A i \in 1..Len(data[f]) : data[f][i] \in Line
           /\ \A p \in Writer :
                 /\ fd[p] # 0 => fd[p] \in File
                 /\ repl[p] # 0 => repl[p] \in File
                 /\ sent[p] \in Nat /\ acked[p] \in Nat /\ acked[p] <= sent[p]
           /\ path # 0 => path \in File
  <1>1. data \in Seq(Seq(Line)) /\ Len(data) \in Nat /\ File = 1..Len(data)
    BY DEF TypeOK, File
  <1>2. ASSUME NEW f \in File
        PROVE  /\ data[f] \in Seq(Line) /\ Len(data[f]) \in Nat
               /\ synced[f] \in 0..Len(data[f])
               /\ lock[f] \in Writer \cup {None}
               /\ \A i \in 1..Len(data[f]) : data[f][i] \in Line
    <2>1. data[f] \in Seq(Line)
      BY <1>1
    <2>2. synced[f] \in Nat /\ synced[f] <= Len(data[f]) /\ lock[f] \in Writer \cup {None}
      BY DEF TypeOK
    <2>. QED
      BY <2>1, <2>2
  <1>3. ASSUME NEW p \in Writer
        PROVE  /\ fd[p] # 0 => fd[p] \in File
               /\ repl[p] # 0 => repl[p] \in File
               /\ sent[p] \in Nat /\ acked[p] \in Nat /\ acked[p] <= sent[p]
    <2>1. fd[p] \in 0..Len(data) /\ repl[p] \in 0..Len(data)
      BY DEF TypeOK
    <2>2. sent[p] \in Nat /\ acked[p] \in Nat /\ sent[p] \in acked[p]..MaxEvents
      BY DEF TypeOK
    <2>. QED
      BY <1>1, <2>1, <2>2, SinkAssumption
  <1>4. path # 0 => path \in File
    BY <1>1 DEF TypeOK
  <1>. QED
    BY <1>1, <1>2, <1>3, <1>4

\* Files only gain lines and files, and what is durable stays so.
Grows ==
    \A f \in File :
        /\ f \in File' /\ synced[f] <= synced'[f]
        /\ Len(data[f]) <= Len(data'[f])
        /\ \A i \in 1..Len(data[f]) : data'[f][i] = data[f][i]

\* A step of p: it writes to no file, and takes or gives up no lock, of another.
StepOf(p) ==
    /\ TypeOK'
    /\ Grows
    /\ \A f \in File : lock[f] # p => data'[f] = data[f]
    /\ \A f \in File : lock[f] \notin {p, None} => lock'[f] = lock[f]
    /\ path' \in {path, 0, Len(data) + 1}
    /\ syncEachWrite' = syncEachWrite
    /\ \A q \in Writer \ {p} :
          /\ pc'[q] = pc[q] /\ call'[q] = call[q] /\ fd'[q] = fd[q] /\ repl'[q] = repl[q]
          /\ failed'[q] = failed[q] /\ sent'[q] = sent[q] /\ acked'[q] = acked[q]

LEMMA DurableStays ==
    ASSUME TypeOK, TypeOK', Grows, NEW p \in Writer, NEW n \in Nat
    PROVE  /\ Durable(p, n) => Durable(p, n)'
           /\ \A f \in File : Has(f, p, n) => Has(f, p, n)'
  <1>1. ASSUME NEW f \in File, NEW i \in 1..synced[f],
               data[f][i] = [by |-> p, n |-> n, whole |-> TRUE]
        PROVE  /\ f \in File' /\ i \in 1..synced'[f]
               /\ data'[f][i] = [by |-> p, n |-> n, whole |-> TRUE]
    <2>1. /\ f \in File' /\ synced[f] <= synced'[f] /\ synced'[f] \in Nat
          /\ synced[f] \in 0..Len(data[f]) /\ Len(data[f]) \in Nat
      BY Types DEF TypeOK, Grows
    <2>. QED
      BY <1>1, <2>1 DEF Grows
  <1>2. ASSUME NEW f \in File, NEW i \in 1..Len(data[f]), data[f][i] = Whole(p, n)
        PROVE  i \in 1..Len(data'[f]) /\ data'[f][i] = Whole(p, n)
    <2>1. /\ Len(data[f]) <= Len(data'[f]) /\ Len(data[f]) \in Nat
          /\ f \in File'
      BY Types DEF Grows
    <2>2. Len(data'[f]) \in Nat
      <3>1. data' \in Seq(Seq(Line)) /\ f \in DOMAIN data'
        BY <2>1 DEF TypeOK, File
      <3>2. data'[f] \in Seq(Line)
        BY <3>1
      <3>. QED
        BY <3>2
    <2>. QED
      BY <1>2, <2>1, <2>2 DEF Grows
  <1>. QED
    BY <1>1, <1>2 DEF Durable, Has

LEMMA OthersKept ==
    ASSUME SinkInv, NEW p \in Writer, StepOf(p), NEW q \in Writer, q # p
    PROVE  WriterOK(q)'
  <1>1. /\ pc'[q] = pc[q] /\ call'[q] = call[q] /\ fd'[q] = fd[q] /\ repl'[q] = repl[q]
        /\ failed'[q] = failed[q] /\ sent'[q] = sent[q] /\ acked'[q] = acked[q]
        /\ syncEachWrite' = syncEachWrite
    BY DEF StepOf
  <1>2. WriterOK(q) /\ TypeOK /\ TypeOK' /\ Grows
    BY DEF SinkInv, StepOf
  <1>3. q # None
    BY SinkAssumption
  <1>4. /\ fd[q] # 0 => fd[q] \in File /\ lock[fd[q]] = q
        /\ pc[q] \in {"tail", "swap"} => repl[q] \in File /\ lock[repl[q]] = q
    BY <1>2, Types DEF WriterOK, LockOK, CallOK
  <1>5. ASSUME NEW f \in File, lock[f] = q
        PROVE  lock'[f] = q /\ data'[f] = data[f]
    BY <1>3, <1>5 DEF StepOf
  <1>6. CallOK(q)'
    <2>1. fd[q] \in 0..Len(data) /\ Len(data) \in Nat
      BY <1>2, Types DEF TypeOK
    <2>2. path' \in {path, 0, Len(data) + 1}
      BY DEF StepOf
    <2>3. pc[q] = "open" /\ path' # 0 => path' # fd[q]
      BY <1>2, <2>1, <2>2 DEF WriterOK, CallOK
    <2>. QED
      BY <1>1, <1>2, <2>3 DEF WriterOK, CallOK
  <1>7. LockOK(q)'
    BY <1>1, <1>2, <1>4, <1>5 DEF WriterOK, LockOK
  <1>8. TailOK(q)'
    BY <1>1, <1>2, <1>4, <1>5 DEF WriterOK, TailOK, CompleteTail
  <1>9. KeptOK(q)'
    <2>1. sent[q] \in Nat /\ acked[q] \in Nat /\ Promised(q) \in Nat
          /\ Promised(q)' = Promised(q)
      BY <1>1, <1>2, Types DEF Promised
    <2>2. PICK f : f = fd[q] /\ f = fd'[q]
      BY <1>1
    <2>3. ASSUME NEW n \in Nat
          PROVE  /\ Durable(q, n) => Durable(q, n)'
                 /\ f # 0 /\ Has(f, q, n) => Has(f, q, n)'
      BY <1>2, <1>4, <2>2, DurableStays
    <2>4. \A n \in 1..sent[q] : Durable(q, n)' \/ (f # 0 /\ Has(f, q, n)')
      BY <1>2, <2>1, <2>2, <2>3 DEF WriterOK, KeptOK
    <2>5. pc[q] = "sync" => Has(f, q, sent[q] + 1)'
      <3>1. PICK n \in Nat : n = sent[q] + 1 /\ n = sent'[q] + 1
        BY <1>1, <2>1
      <3>2. pc[q] = "sync" => f # 0 /\ Has(f, q, n)
        BY <1>2, <2>2, <3>1 DEF WriterOK, CallOK, KeptOK
      <3>3. pc[q] = "sync" => Has(f, q, n)'
        BY <2>3, <3>2
      <3>. QED
        BY <3>1, <3>3
    <2>6. \A n \in 1..Promised(q) : Durable(q, n)'
      BY <1>2, <2>1, <2>3 DEF WriterOK, KeptOK
    <2>. QED
      BY <1>1, <2>1, <2>2, <2>4, <2>5, <2>6 DEF KeptOK
  <1>. QED
    BY <1>6, <1>7, <1>8, <1>9 DEF WriterOK

\* A line that was backed stays backed.
LEMMA BackedStays ==
    ASSUME TypeOK, TypeOK', Grows, NEW f \in File, NEW i \in 1..Len(data[f]), Backed(f, i)
    PROVE  Backed(f, i)'
  <1>1. /\ f \in File' /\ data'[f][i] = data[f][i] /\ data[f][i] \in Line
        /\ \A j \in 1..(i - 1) : j \in 1..Len(data[f]) /\ data'[f][j] = data[f][j]
    BY Types DEF Grows
  <1>2. PICK g \in Line : g = data[f][i] /\ g = data'[f][i]
    BY <1>1
  <1>3. \A m \in 1..(g.n - 1) : Durable(g.by, m) => Durable(g.by, m)'
    <2>1. g.by \in Writer
      BY DEF Line
    <2>2. \A m \in Nat : Durable(g.by, m) => Durable(g.by, m)'
      BY <2>1, DurableStays
    <2>. QED
      BY <2>2 DEF Line
  <1>4. SUFFICES ASSUME g.whole, NEW m \in 1..(g.n - 1)
                 PROVE  \/ Durable(g.by, m)'
                        \/ \E j \in 1..(i - 1) : data'[f][j] = Whole(g.by, m)
    BY <1>2 DEF Backed, Whole
  <1>5. Durable(g.by, m) \/ \E j \in 1..(i - 1) : data[f][j] = Whole(g.by, m)
    BY <1>2, <1>4 DEF Backed
  <1>. QED
    BY <1>1, <1>3, <1>4, <1>5

\* So a step of p preserves the invariant when p and its new lines are in order.
LEMMA StepKeepsInv ==
    ASSUME SinkInv, NEW p \in Writer, StepOf(p), WriterOK(p)',
           TornOnlyLast',
           \A f \in File' : \A i \in 1..Len(data'[f]) :
               (f \in File /\ i \in 1..Len(data[f])) \/ Backed(f, i)'
    PROVE  SinkInv'
  <1>1. TypeOK /\ TypeOK' /\ Grows
    BY DEF SinkInv, StepOf
  <1>2. \A q \in Writer : WriterOK(q)'
    BY OthersKept
  <1>3. \A f \in File' : \A i \in 1..Len(data'[f]) : Backed(f, i)'
    BY <1>1, BackedStays DEF SinkInv
  <1>. QED
    BY <1>1, <1>2, <1>3 DEF SinkInv

\* Most steps write no line.
LEMMA NoLineWritten ==
    ASSUME SinkInv, NEW p \in Writer, StepOf(p), WriterOK(p)', data' = data
    PROVE  SinkInv'
  <1>1. TornOnlyLast'
    BY DEF SinkInv, TornOnlyLast, File
  <1>2. \A f \in File' : \A i \in 1..Len(data'[f]) :
            (f \in File /\ i \in 1..Len(data[f])) \/ Backed(f, i)'
    BY DEF File
  <1>. QED
    BY <1>1, <1>2, StepKeepsInv

-----------------------------------------------------------------------------
(* Steps that only move p in its call.                                     *)

LEMMA QuietStep ==
    ASSUME SinkInv, NEW p \in Writer,
           UNCHANGED <<files, fd, repl, failed, sent, acked, failures, syncEachWrite>>,
           NEW a \in {"ready", "look", "open", "swap", "do"}, pc' = [pc EXCEPT ![p] = a],
           NEW c \in {"none", "write", "commit"}, call' = [call EXCEPT ![p] = c],
           CallOK(p)', LockOK(p)', TailOK(p)'
    PROVE  SinkInv'
  <1>1. /\ pc'[p] = a /\ TypeOK /\ UNCHANGED <<data, synced, path, lock>>
        /\ \A q \in Writer \ {p} : pc'[q] = pc[q] /\ call'[q] = call[q]
    BY DEF SinkInv, TypeOK, files
  <1>2. TypeOK'
    BY <1>1 DEF TypeOK, File
  <1>3. Grows
    BY <1>1, Types DEF Grows, File
  <1>4. StepOf(p)
    BY <1>1, <1>2, <1>3 DEF StepOf
  <1>5. KeptOK(p)'
    BY <1>1 DEF SinkInv, WriterOK, KeptOK, Promised, Durable, Has, File
  <1>6. WriterOK(p)'
    BY <1>5 DEF WriterOK
  <1>. QED
    BY <1>1, <1>4, <1>6, NoLineWritten

LEMMA BeginStep ==
    ASSUME SinkInv, NEW p \in Writer, BeginWrite(p) \/ BeginCommit(p)
    PROVE  SinkInv'
  <1>1. PICK c \in {"write", "commit"} :
           /\ call' = [call EXCEPT ![p] = c]
           /\ c = "write" => sent[p] < MaxEvents
    BY DEF BeginWrite, BeginCommit
  <1>2. /\ pc[p] = "ready" /\ pc' = [pc EXCEPT ![p] = "look"]
        /\ UNCHANGED <<files, fd, repl, failed, sent, acked, failures, syncEachWrite>>
        /\ ~failed[p] /\ UNCHANGED <<data, synced, path, lock>>
    BY DEF BeginWrite, BeginCommit, files
  <1>3. pc'[p] = "look" /\ call'[p] = c
    BY <1>1, <1>2 DEF SinkInv, TypeOK
  <1>4. CallOK(p)'
    BY <1>1, <1>2, <1>3 DEF SinkInv, WriterOK, CallOK
  <1>5. LockOK(p)' /\ TailOK(p)'
    BY <1>2, <1>3 DEF SinkInv, WriterOK, LockOK, TailOK, CompleteTail
  <1>. QED
    BY <1>1, <1>2, <1>4, <1>5, QuietStep

LEMMA LookStep ==
    ASSUME SinkInv, NEW p \in Writer, Look(p)
    PROVE  SinkInv'
  <1>1. PICK a \in {"open", "do"} :
           /\ pc' = [pc EXCEPT ![p] = a]
           /\ a = "open" => path # fd[p]
    BY DEF Look
  <1>2. /\ pc[p] = "look" /\ call' = [call EXCEPT ![p] = call[p]]
        /\ call' = call /\ call[p] \in {"none", "write", "commit"}
        /\ UNCHANGED <<files, fd, repl, failed, sent, acked, failures, syncEachWrite>>
        /\ UNCHANGED <<data, synced, path, lock>>
    BY DEF Look, files, SinkInv, TypeOK
  <1>3. pc'[p] = a
    BY <1>1 DEF SinkInv, TypeOK
  <1>4. CallOK(p)'
    BY <1>1, <1>2, <1>3 DEF SinkInv, WriterOK, CallOK
  <1>5. LockOK(p)' /\ TailOK(p)'
    BY <1>2, <1>3 DEF SinkInv, WriterOK, LockOK, TailOK, CompleteTail
  <1>. QED
    BY <1>1, <1>2, <1>4, <1>5, QuietStep

LEMMA StartStep ==
    ASSUME SinkInv, NEW p \in Writer, Start(p)
    PROVE  SinkInv'
  <1>1. /\ pc[p] = "down" /\ call' = [call EXCEPT ![p] = call[p]]
        /\ call' = call /\ call[p] \in {"none", "write", "commit"}
        /\ pc' = [pc EXCEPT ![p] = "open"] /\ pc'[p] = "open"
        /\ UNCHANGED <<files, fd, repl, failed, sent, acked, failures, syncEachWrite>>
        /\ UNCHANGED <<data, synced, path, lock>>
    BY DEF Start, files, SinkInv, TypeOK
  <1>2. CallOK(p)'
    BY <1>1 DEF SinkInv, WriterOK, CallOK
  <1>3. LockOK(p)' /\ TailOK(p)'
    BY <1>1 DEF SinkInv, WriterOK, LockOK, TailOK, CompleteTail
  <1>. QED
    BY <1>1, <1>2, <1>3, QuietStep

LEMMA TailCompleteStep ==
    ASSUME SinkInv, NEW p \in Writer, TailComplete(p)
    PROVE  SinkInv'
  <1>1. /\ pc[p] = "tail" /\ call' = [call EXCEPT ![p] = call[p]]
        /\ call' = call /\ call[p] \in {"none", "write", "commit"}
        /\ pc' = [pc EXCEPT ![p] = "swap"] /\ pc'[p] = "swap" /\ CompleteTail(repl[p])
        /\ UNCHANGED <<files, fd, repl, failed, sent, acked, failures, syncEachWrite>>
        /\ UNCHANGED <<data, synced, path, lock>>
    BY DEF TailComplete, files, SinkInv, TypeOK
  <1>2. CallOK(p)'
    BY <1>1 DEF SinkInv, WriterOK, CallOK
  <1>3. LockOK(p)' /\ TailOK(p)'
    BY <1>1 DEF SinkInv, WriterOK, LockOK, TailOK, CompleteTail
  <1>. QED
    BY <1>1, <1>2, <1>3, QuietStep

-----------------------------------------------------------------------------
(* openManagedFile and the swap.                                           *)

LEMMA SyncedIs ==
    ASSUME TypeOK, NEW f \in File
    PROVE  /\ Synced(f) \in [File -> Nat] /\ Synced(f)[f] = Len(data[f])
           /\ \A g \in File : synced[g] <= Synced(f)[g] /\ Synced(f)[g] <= Len(data[g])
  BY Types DEF Synced, TypeOK

LEMMA OpenExistingStep ==
    ASSUME SinkInv, NEW p \in Writer, OpenExisting(p)
    PROVE  SinkInv'
  <1>1. /\ pc[p] = "open" /\ path # 0 /\ pc'[p] = "lock" /\ repl'[p] = path
        /\ UNCHANGED <<data, path, lock, call, fd, failed, sent, acked, failures,
                       syncEachWrite>>
        /\ \A q \in Writer \ {p} : pc'[q] = pc[q] /\ repl'[q] = repl[q]
        /\ synced' = Synced(path) /\ TypeOK
    BY DEF OpenExisting, SinkInv, TypeOK
  <1>2. /\ path \in File /\ synced' \in [File -> Nat]
        /\ \A f \in File : synced[f] <= synced'[f] /\ synced'[f] <= Len(data[f])
    BY <1>1, SyncedIs, Types
  <1>3. TypeOK'
    BY <1>1, <1>2 DEF TypeOK, File, OpenExisting
  <1>4. Grows
    BY <1>1, <1>2, Types DEF Grows, File
  <1>5. StepOf(p)
    BY <1>1, <1>3, <1>4 DEF StepOf
  <1>6. CallOK(p)' /\ LockOK(p)' /\ TailOK(p)'
    BY <1>1 DEF SinkInv, WriterOK, CallOK, LockOK, TailOK, CompleteTail
  <1>7. KeptOK(p)'
    <2>1. /\ sent'[p] = sent[p] /\ Promised(p)' = Promised(p) /\ fd'[p] = fd[p]
          /\ sent[p] \in Nat /\ Promised(p) \in Nat
      BY <1>1, Types DEF Promised
    <2>2. \A n \in Nat : Durable(p, n) => Durable(p, n)'
      BY <1>1, <1>3, <1>4, DurableStays
    <2>3. \A n \in Nat : Has(fd[p], p, n) => Has(fd[p], p, n)'
      BY <1>1 DEF Has
    <2>. QED
      BY <1>1, <2>1, <2>2, <2>3 DEF SinkInv, WriterOK, KeptOK
  <1>. QED
    BY <1>1, <1>5, <1>6, <1>7, NoLineWritten DEF WriterOK

\* A function on 1..n is a sequence.
LEMMA FunctionIsSeq ==
    ASSUME NEW S, NEW n \in Nat, NEW s \in [1..n -> S]
    PROVE  s \in Seq(S) /\ Len(s) = n
  OBVIOUS

LEMMA OpenNewStep ==
    ASSUME SinkInv, NEW p \in Writer, OpenNew(p)
    PROVE  SinkInv'
  <1> DEFINE new == Len(data) + 1
  <1>1. /\ pc[p] = "open" /\ pc'[p] = "lock" /\ repl'[p] = new /\ path' = new
        /\ UNCHANGED <<call, fd, failed, sent, acked, failures, syncEachWrite>>
        /\ \A q \in Writer \ {p} : pc'[q] = pc[q] /\ repl'[q] = repl[q]
        /\ TypeOK /\ Len(data) \in Nat /\ File = 1..Len(data) /\ fd[p] \in 0..Len(data)
    BY Types DEF OpenNew, SinkInv, TypeOK
  <1>2. /\ data' \in Seq(Seq(Line)) /\ Len(data') = new
        /\ data'[new] = << >> /\ \A f \in File : data'[f] = data[f]
    BY <1>1 DEF OpenNew, TypeOK
  <1>3. File' = 1..new /\ new \in File' /\ File \subseteq File'
    BY <1>1, <1>2 DEF File
  <1>4. /\ synced' \in [1..new -> Nat] /\ synced'[new] = 0
        /\ \A f \in File : synced'[f] = synced[f]
    <2>1. synced \in [1..Len(data) -> Nat] /\ synced' = Append(synced, 0)
      BY <1>1 DEF TypeOK, OpenNew
    <2>2. synced \in Seq(Nat) /\ Len(synced) = Len(data)
      BY <1>1, <2>1
    <2>3. /\ synced' \in Seq(Nat) /\ Len(synced') = new /\ synced'[new] = 0
          /\ \A f \in 1..Len(data) : synced'[f] = synced[f]
      BY <2>1, <2>2, AppendProperties
    <2>. QED
      BY <1>1, <2>3
  <1>5. /\ lock' \in [1..new -> Writer \cup {None}]
        /\ \A f \in File : lock'[f] = lock[f]
    <2>1. /\ lock \in [1..Len(data) -> Writer \cup {None}]
          /\ lock' = Append(lock, None) /\ None \in Writer \cup {None}
      BY <1>1 DEF TypeOK, OpenNew
    <2>2. lock \in Seq(Writer \cup {None}) /\ Len(lock) = Len(data)
      BY <1>1, <2>1
    <2>3. /\ lock' \in Seq(Writer \cup {None}) /\ Len(lock') = new
          /\ \A f \in 1..Len(data) : lock'[f] = lock[f]
      BY <2>1, <2>2, AppendProperties
    <2>. QED
      BY <1>1, <2>3
  <1>6. TypeOK'
    <2>1. synced' \in [File' -> Nat] /\ lock' \in [File' -> Writer \cup {None}]
      BY <1>3, <1>4, <1>5
    <2>2. \A f \in File' : synced'[f] <= Len(data'[f])
      <3>1. synced'[new] = 0 /\ Len(data'[new]) = 0
        BY <1>2, <1>3, <1>4
      <3>2. \A f \in File : synced'[f] <= Len(data'[f])
        BY <1>1, <1>2, <1>4 DEF TypeOK
      <3>. QED
        BY <1>1, <1>3, <3>1, <3>2
    <2>3. path' \in 0..Len(data')
      BY <1>1, <1>2
    <2>4. fd' \in [Writer -> 0..Len(data')] /\ repl' \in [Writer -> 0..Len(data')]
      BY <1>1, <1>2 DEF TypeOK, OpenNew
    <2>5. pc' \in [Writer -> {"down", "ready", "look", "open", "lock", "tail", "swap",
                              "do", "sync"}]
      BY <1>1 DEF TypeOK, OpenNew
    <2>. QED
      BY <1>1, <1>2, <2>1, <2>2, <2>3, <2>4, <2>5 DEF TypeOK
  <1>7. Grows
    <2>1. ASSUME NEW f \in File
          PROVE  /\ f \in File' /\ synced[f] <= synced'[f]
                 /\ data'[f] = data[f] /\ Len(data[f]) \in Nat
      <3>1. synced[f] \in Int /\ Len(data[f]) \in Nat
        BY <1>1, Types
      <3>. QED
        BY <1>2, <1>3, <1>4, <3>1
    <2>. QED
      BY <2>1 DEF Grows
  <1>8. StepOf(p)
    BY <1>1, <1>2, <1>5, <1>6, <1>7 DEF StepOf
  <1>9. fd[p] # 0 => fd[p] \in File
    BY <1>1
  <1>10. CallOK(p)'
    BY <1>1 DEF SinkInv, WriterOK, CallOK
  <1>11. LockOK(p)' /\ TailOK(p)'
    BY <1>1, <1>2, <1>5, <1>9 DEF SinkInv, WriterOK, LockOK, TailOK, CompleteTail
  <1>12. KeptOK(p)'
    <2>1. /\ sent'[p] = sent[p] /\ Promised(p)' = Promised(p) /\ fd'[p] = fd[p]
          /\ sent[p] \in Nat /\ Promised(p) \in Nat
      BY <1>1, Types DEF Promised
    <2>2. \A n \in Nat : Durable(p, n) => Durable(p, n)'
      BY <1>1, <1>6, <1>7, DurableStays
    <2>3. fd[p] # 0 => \A n \in Nat : Has(fd[p], p, n) => Has(fd[p], p, n)'
      BY <1>1, <1>2, <1>9 DEF Has
    <2>. QED
      BY <1>1, <2>1, <2>2, <2>3 DEF SinkInv, WriterOK, KeptOK
  <1>13. TornOnlyLast'
    <2>1. ASSUME NEW f \in File', NEW i \in 1..(Len(data'[f]) - 1)
          PROVE  data'[f][i].whole
      <3>1. f # new
        BY <1>2, <2>1
      <3>2. f \in File /\ data'[f] = data[f]
        BY <1>1, <1>2, <1>3, <3>1
      <3>. QED
        BY <2>1, <3>2 DEF SinkInv, TornOnlyLast
    <2>. QED
      BY <2>1 DEF TornOnlyLast
  <1>14. \A f \in File' : \A i \in 1..Len(data'[f]) : f \in File /\ i \in 1..Len(data[f])
    <2>. SUFFICES ASSUME NEW f \in File', NEW i \in 1..Len(data'[f])
                  PROVE  f \in File /\ i \in 1..Len(data[f])
      OBVIOUS
    <2>1. f # new
      BY <1>2
    <2>2. f \in File
      BY <1>1, <1>3, <2>1
    <2>. QED
      BY <1>2, <2>2
  <1>. QED
    BY <1>8, <1>10, <1>11, <1>12, <1>13, <1>14, StepKeepsInv DEF WriterOK

LEMMA LockStep ==
    ASSUME SinkInv, NEW p \in Writer, Lock(p)
    PROVE  SinkInv'
  <1>1. /\ pc[p] = "lock" /\ pc'[p] = "tail" /\ lock[repl[p]] = None
        /\ UNCHANGED <<data, synced, path, call, fd, repl, failed, sent, acked, failures,
                       syncEachWrite>>
        /\ \A q \in Writer \ {p} : pc'[q] = pc[q]
        /\ lock' = [lock EXCEPT ![repl[p]] = p] /\ TypeOK
    BY DEF Lock, SinkInv, TypeOK
  <1>2. repl[p] \in File /\ repl[p] # fd[p] /\ (fd[p] # 0 => fd[p] \in File)
    BY <1>1, Types DEF SinkInv, WriterOK, CallOK
  <1>3. /\ lock' \in [File -> Writer \cup {None}] /\ lock'[repl[p]] = p
        /\ \A f \in File : f # repl[p] => lock'[f] = lock[f]
    BY <1>1, <1>2 DEF TypeOK
  <1>4. TypeOK'
    BY <1>1, <1>3 DEF TypeOK, File, Lock
  <1>5. Grows
    BY <1>1, Types DEF Grows, File
  <1>6. StepOf(p)
    BY <1>1, <1>3, <1>4, <1>5 DEF StepOf
  <1>7. CallOK(p)' /\ LockOK(p)' /\ TailOK(p)'
    BY <1>1, <1>2, <1>3 DEF SinkInv, WriterOK, CallOK, LockOK, TailOK, CompleteTail
  <1>8. KeptOK(p)'
    BY <1>1 DEF SinkInv, WriterOK, KeptOK, Promised, Durable, Has, File
  <1>. QED
    BY <1>1, <1>6, <1>7, <1>8, NoLineWritten DEF WriterOK

\* The lock moves with the descriptor; what was in the old file is durable.
LEMMA SwapStep ==
    ASSUME SinkInv, NEW p \in Writer, Swap(p)
    PROVE  SinkInv'
  <1>1. /\ pc[p] = "swap" /\ repl'[p] = 0 /\ fd'[p] = repl[p]
        /\ pc'[p] = IF call[p] = "none" THEN "ready" ELSE "do"
        /\ UNCHANGED <<data, path, call, failed, sent, acked, failures, syncEachWrite>>
        /\ \A q \in Writer \ {p} :
              pc'[q] = pc[q] /\ repl'[q] = repl[q] /\ fd'[q] = fd[q]
        /\ synced' = IF fd[p] = 0 THEN synced ELSE Synced(fd[p])
        /\ lock' = [f \in File |-> IF f = fd[p] THEN None ELSE lock[f]] /\ TypeOK
    BY DEF Swap, Replaced, SinkInv, TypeOK
  <1>2. /\ repl[p] \in File /\ repl[p] # fd[p] /\ lock[repl[p]] = p /\ repl[p] # 0
        /\ CompleteTail(repl[p])
        /\ fd[p] # 0 => fd[p] \in File /\ lock[fd[p]] = p
    BY <1>1, Types DEF SinkInv, WriterOK, CallOK, LockOK, TailOK
  <1>3. /\ synced' \in [File -> Nat]
        /\ \A f \in File : synced[f] <= synced'[f] /\ synced'[f] <= Len(data[f])
        /\ fd[p] # 0 => synced'[fd[p]] = Len(data[fd[p]])
    <2>1. CASE fd[p] = 0
      BY <1>1, <2>1, Types DEF TypeOK
    <2>2. CASE fd[p] # 0
      <3>1. fd[p] \in File /\ synced' = Synced(fd[p])
        BY <1>1, <1>2, <2>2
      <3>. QED
        BY <1>1, <3>1, SyncedIs
    <2>. QED
      BY <2>1, <2>2
  <1>4. TypeOK'
    <2>1. lock' \in [File -> Writer \cup {None}]
      BY <1>1 DEF TypeOK
    <2>2. /\ fd' \in [Writer -> 0..Len(data)] /\ repl' \in [Writer -> 0..Len(data)]
          /\ pc' \in [Writer -> {"down", "ready", "look", "open", "lock", "tail", "swap",
                                 "do", "sync"}]
      BY <1>1, <1>2, Types DEF TypeOK, Swap, Replaced
    <2>. QED
      BY <1>1, <1>3, <2>1, <2>2 DEF TypeOK, File
  <1>5. Grows
    BY <1>1, <1>3, Types DEF Grows, File
  <1>6. StepOf(p)
    <2>1. \A f \in File : lock[f] \notin {p, None} => lock'[f] = lock[f]
      BY <1>1, <1>2, Types
    <2>2. path' = path /\ \A f \in File : lock[f] # p => data'[f] = data[f]
      BY <1>1
    <2>. QED
      BY <1>1, <1>4, <1>5, <2>1, <2>2 DEF StepOf
  <1>7. CallOK(p)'
    BY <1>1, <1>2 DEF SinkInv, WriterOK, CallOK
  <1>8. LockOK(p)' /\ TailOK(p)'
    BY <1>1, <1>2 DEF LockOK, TailOK, CompleteTail
  <1>9. KeptOK(p)'
    <2>1. /\ sent'[p] = sent[p] /\ Promised(p)' = Promised(p)
          /\ sent[p] \in Nat /\ Promised(p) \in Nat
      BY <1>1, Types DEF Promised
    <2>2. \A n \in Nat : Durable(p, n) => Durable(p, n)'
      BY <1>1, <1>4, <1>5, DurableStays
    <2>3. fd[p] # 0 => \A n \in Nat : Has(fd[p], p, n) => Durable(p, n)'
      BY <1>1, <1>2, <1>3 DEF Has, Durable, File, Whole
    <2>4. \A n \in 1..sent[p] : Durable(p, n)'
      BY <2>1, <2>2, <2>3 DEF SinkInv, WriterOK, KeptOK
    <2>5. \A n \in 1..Promised(p) : Durable(p, n)'
      BY <2>1, <2>2 DEF SinkInv, WriterOK, KeptOK
    <2>. QED
      BY <1>1, <2>1, <2>4, <2>5 DEF KeptOK
  <1>. QED
    BY <1>1, <1>6, <1>7, <1>8, <1>9, NoLineWritten DEF WriterOK

-----------------------------------------------------------------------------
(* A call that fails, and the end of a process.                            *)

LEMMA FailIs ==
    ASSUME SinkInv, NEW p \in Writer, Fail(p) \/ End(p), Grows,
           data' \in Seq(Seq(Line)), Len(data') = Len(data),
           \A f \in File : lock[f] # p => data'[f] = data[f],
           UNCHANGED <<synced, path, failures, syncEachWrite>>
    PROVE  StepOf(p) /\ WriterOK(p)'
  <1>1. /\ TypeOK /\ File' = File /\ WriterOK(p)
        /\ \A f \in File : synced[f] <= Len(data'[f])
    <2>1. TypeOK /\ Len(data) \in Nat /\ File = 1..Len(data) /\ WriterOK(p)
      BY Types DEF SinkInv
    <2>2. File' = File
      BY <2>1 DEF File
    <2>3. ASSUME NEW f \in File PROVE synced[f] <= Len(data'[f])
      <3>1. data'[f] \in Seq(Line) /\ Len(data'[f]) \in Nat
        BY <2>1
      <3>2. Len(data[f]) <= Len(data'[f]) /\ synced[f] \in 0..Len(data[f])
            /\ Len(data[f]) \in Nat
        BY <2>1, Types DEF Grows
      <3>. QED
        BY <3>1, <3>2
    <2>. QED
      BY <2>1, <2>2, <2>3
  <1>2. CASE Fail(p) /\ call[p] = "write"
    <2>1. /\ failed' = [failed EXCEPT ![p] = TRUE] /\ failed'[p]
          /\ pc' = [pc EXCEPT ![p] = "ready"] /\ pc'[p] = "ready"
          /\ call' = [call EXCEPT ![p] = "none"] /\ call'[p] = "none"
          /\ lock' = [f \in File |-> IF f = repl[p] /\ lock[f] = p THEN None ELSE lock[f]]
          /\ repl' = [repl EXCEPT ![p] = 0] /\ repl'[p] = 0
          /\ UNCHANGED <<fd, sent, acked>>
      BY <1>1, <1>2 DEF Fail, TypeOK
    <2>2. fd[p] # 0 /\ fd[p] \in File /\ lock[fd[p]] = p /\ fd[p] # repl[p]
      BY <1>1, <1>2, Types DEF WriterOK, CallOK, LockOK
    <2>3. TypeOK'
      <3>1. lock' \in [File -> Writer \cup {None}]
        BY <1>1, <2>1 DEF TypeOK
      <3>2. Len(data) \in Nat /\ 0 \in 0..Len(data)
        BY <1>1, Types
      <3>3. repl' \in [Writer -> 0..Len(data)] /\ failed' \in [Writer -> BOOLEAN]
        BY <1>1, <2>1, <3>2 DEF TypeOK
      <3>4. /\ call' \in [Writer -> {"none", "write", "commit"}]
            /\ pc' \in [Writer -> {"down", "ready", "look", "open", "lock", "tail", "swap",
                                   "do", "sync"}]
        BY <1>1, <2>1 DEF TypeOK
      <3>. QED
        BY <1>1, <2>1, <3>1, <3>3, <3>4 DEF TypeOK
    <2>4. StepOf(p)
      BY <1>1, <2>1, <2>3 DEF StepOf, TypeOK
    <2>5. CallOK(p)' /\ LockOK(p)' /\ TailOK(p)'
      BY <2>1, <2>2 DEF CallOK, LockOK, TailOK
    <2>6. KeptOK(p)'
      <3>1. /\ Promised(p)' = Promised(p) /\ sent[p] \in Nat /\ Promised(p) \in Nat
        BY <1>1, <2>1, Types DEF Promised
      <3>2. \A n \in Nat : Durable(p, n) => Durable(p, n)'
        BY <1>1, <2>3, DurableStays
      <3>3. PICK f \in File : f = fd[p] /\ f = fd'[p]
        BY <2>1, <2>2
      <3>4. \A n \in Nat : Has(f, p, n) => Has(f, p, n)'
        BY <1>1, <2>3, DurableStays
      <3>5. \A n \in 1..sent[p] : Durable(p, n)' \/ Has(f, p, n)'
        BY <1>1, <3>1, <3>2, <3>3, <3>4 DEF WriterOK, KeptOK
      <3>6. \A n \in 1..Promised(p) : Durable(p, n)'
        BY <1>1, <3>1, <3>2 DEF WriterOK, KeptOK
      <3>. QED
        BY <2>1, <2>2, <3>1, <3>3, <3>5, <3>6 DEF KeptOK
    <2>. QED
      BY <2>4, <2>5, <2>6 DEF WriterOK
  <1>3. CASE End(p)
    <2>1. /\ pc' = [pc EXCEPT ![p] = "down"] /\ pc'[p] = "down"
          /\ fd' = [fd EXCEPT ![p] = 0] /\ fd'[p] = 0
          /\ repl' = [repl EXCEPT ![p] = 0] /\ repl'[p] = 0
          /\ call' = [call EXCEPT ![p] = "none"] /\ call'[p] = "none"
          /\ failed' = [failed EXCEPT ![p] = FALSE] /\ ~failed'[p]
          /\ lock' = [f \in File |-> IF lock[f] = p THEN None ELSE lock[f]]
          /\ sent' = [sent EXCEPT ![p] = acked[p]] /\ sent'[p] = acked[p]
          /\ acked' = acked
      BY <1>1, <1>3 DEF End, TypeOK
    <2>2. /\ acked[p] \in Nat /\ sent[p] \in Nat /\ acked[p] <= sent[p]
          /\ sent[p] <= MaxEvents
      BY <1>1, Types, SinkAssumption DEF TypeOK
    <2>3. TypeOK'
      <3>1. lock' \in [File -> Writer \cup {None}]
        BY <1>1, <2>1 DEF TypeOK
      <3>2. /\ repl' \in [Writer -> 0..Len(data)] /\ fd' \in [Writer -> 0..Len(data)]
            /\ failed' \in [Writer -> BOOLEAN]
            /\ call' \in [Writer -> {"none", "write", "commit"}]
            /\ pc' \in [Writer -> {"down", "ready", "look", "open", "lock", "tail", "swap",
                                   "do", "sync"}]
        BY <1>1, <2>1, Types DEF TypeOK
      <3>3. /\ sent' \in [Writer -> Nat]
            /\ \A q \in Writer : sent'[q] \in acked[q]..MaxEvents
        BY <1>1, <2>1, <2>2, SinkAssumption DEF TypeOK
      <3>. QED
        BY <1>1, <2>1, <3>1, <3>2, <3>3 DEF TypeOK
    <2>4. StepOf(p)
      BY <1>1, <2>1, <2>3 DEF StepOf, TypeOK
    <2>5. CallOK(p)' /\ LockOK(p)' /\ TailOK(p)'
      BY <2>1 DEF CallOK, LockOK, TailOK
    <2>6. KeptOK(p)'
      <3>1. \A n \in Nat : Durable(p, n) => Durable(p, n)'
        BY <1>1, <2>3, DurableStays
      <3>2. \A n \in 1..acked[p] : Durable(p, n)
        BY <1>1, <2>2 DEF WriterOK, KeptOK, Promised
      <3>3. \A n \in 1..acked[p] : Durable(p, n)'
        BY <2>2, <3>1, <3>2
      <3>. QED
        BY <2>1, <3>3 DEF KeptOK, Promised
    <2>. QED
      BY <2>4, <2>5, <2>6 DEF WriterOK
  <1>. QED
    BY <1>2, <1>3 DEF Fail

LEMMA FailingStep ==
    ASSUME SinkInv, NEW p \in Writer,
           LockBusy(p) \/ TailIncomplete(p) \/ SyncFails(p) \/ Exit(p)
    PROVE  SinkInv'
  <1>1. /\ Fail(p) \/ End(p)
        /\ UNCHANGED <<data, synced, path, failures, syncEachWrite>>
    BY DEF LockBusy, TailIncomplete, SyncFails, Exit
  <1>2. Grows /\ data' \in Seq(Seq(Line)) /\ Len(data') = Len(data)
        /\ \A f \in File : lock[f] # p => data'[f] = data[f]
    BY <1>1, Types DEF Grows, File, SinkInv, TypeOK
  <1>3. StepOf(p) /\ WriterOK(p)'
    BY <1>1, <1>2, FailIs
  <1>. QED
    BY <1>1, <1>3, NoLineWritten

-----------------------------------------------------------------------------
(* What a call does to the open file.                                      *)

\* In the middle of its work a call has a file, locked, with a complete tail.
LEMMA AtWork ==
    ASSUME SinkInv, NEW p \in Writer, pc[p] \in {"do", "sync"}
    PROVE  /\ TypeOK /\ WriterOK(p)
           /\ fd[p] # 0 /\ fd[p] \in File /\ lock[fd[p]] = p
           /\ ~failed[p] /\ CompleteTail(fd[p]) /\ repl[p] = 0
           /\ sent[p] \in Nat /\ acked[p] \in Nat /\ acked[p] <= sent[p]
           /\ sent[p] <= MaxEvents
           /\ call[p] = "write" => sent[p] + 1 <= MaxEvents
  <1>1. TypeOK /\ WriterOK(p)
    BY DEF SinkInv
  <1>2. fd[p] # 0 /\ ~failed[p] /\ repl[p] = 0 /\ (call[p] = "write" => sent[p] < MaxEvents)
    BY <1>1 DEF WriterOK, CallOK
  <1>3. /\ sent[p] \in Nat /\ acked[p] \in Nat /\ acked[p] <= sent[p]
        /\ sent[p] <= MaxEvents /\ fd[p] \in File
    BY <1>1, <1>2, Types, SinkAssumption DEF TypeOK
  <1>. QED
    BY <1>1, <1>2, <1>3, SinkAssumption DEF WriterOK, LockOK, TailOK

LEMMA WriteSyncStep ==
    ASSUME SinkInv, NEW p \in Writer, WriteSync(p)
    PROVE  SinkInv'
  <1>1. /\ pc[p] = "sync" /\ pc'[p] = "ready" /\ call'[p] = "none" /\ sent'[p] = sent[p] + 1
        /\ UNCHANGED <<data, path, lock, fd, repl, failed, acked, failures, syncEachWrite>>
        /\ \A q \in Writer \ {p} :
              pc'[q] = pc[q] /\ call'[q] = call[q] /\ sent'[q] = sent[q]
        /\ synced' = Synced(fd[p]) /\ call[p] = "write"
    BY DEF WriteSync, Accept, SinkInv, TypeOK, WriterOK, CallOK
  <1>2. /\ TypeOK /\ WriterOK(p) /\ fd[p] # 0 /\ fd[p] \in File /\ lock[fd[p]] = p
        /\ ~failed[p] /\ CompleteTail(fd[p]) /\ repl[p] = 0
        /\ sent[p] \in Nat /\ acked[p] \in Nat /\ acked[p] <= sent[p]
        /\ sent[p] + 1 <= MaxEvents
    BY <1>1, AtWork
  <1>3. /\ synced' \in [File -> Nat] /\ synced'[fd[p]] = Len(data[fd[p]])
        /\ \A f \in File : synced[f] <= synced'[f] /\ synced'[f] <= Len(data[f])
    BY <1>1, <1>2, SyncedIs
  <1>4. TypeOK'
    <2>1. /\ sent' \in [Writer -> Nat] /\ \A q \in Writer : sent'[q] \in acked[q]..MaxEvents
      BY <1>1, <1>2, SinkAssumption DEF TypeOK, WriteSync, Accept
    <2>2. /\ call' \in [Writer -> {"none", "write", "commit"}]
          /\ pc' \in [Writer -> {"down", "ready", "look", "open", "lock", "tail", "swap",
                                 "do", "sync"}]
      BY <1>2 DEF TypeOK, WriteSync, Accept
    <2>. QED
      BY <1>1, <1>2, <1>3, <2>1, <2>2 DEF TypeOK, File
  <1>5. Grows
    BY <1>1, <1>2, <1>3, Types DEF Grows, File
  <1>6. StepOf(p)
    BY <1>1, <1>4, <1>5 DEF StepOf
  <1>7. CallOK(p)' /\ LockOK(p)' /\ TailOK(p)'
    BY <1>1, <1>2 DEF CallOK, LockOK, TailOK, CompleteTail
  <1>8. KeptOK(p)'
    <2>1. \A n \in Nat : Durable(p, n) => Durable(p, n)'
      BY <1>2, <1>4, <1>5, DurableStays
    <2>2. \A n \in Nat : Has(fd[p], p, n) => Durable(p, n)'
      BY <1>1, <1>2, <1>3 DEF Has, Durable, File, Whole
    <2>3. Has(fd[p], p, sent[p] + 1)
      BY <1>1, <1>2 DEF WriterOK, KeptOK
    <2>4. \A n \in 1..sent[p] : Durable(p, n) \/ Has(fd[p], p, n)
      BY <1>2 DEF WriterOK, KeptOK
    <2>5. \A n \in 1..(sent[p] + 1) : Durable(p, n)'
      <3>1. \A n \in 1..(sent[p] + 1) : n \in Nat /\ (n = sent[p] + 1 \/ n \in 1..sent[p])
        BY <1>2
      <3>. QED
        BY <2>1, <2>2, <2>3, <2>4, <3>1
    <2>. QED
      BY <1>1, <1>2, <2>5 DEF KeptOK, Promised
  <1>. QED
    BY <1>1, <1>6, <1>7, <1>8, NoLineWritten DEF WriterOK

LEMMA CommitStep ==
    ASSUME SinkInv, NEW p \in Writer, Commit(p)
    PROVE  SinkInv'
  <1>1. /\ pc[p] = "do" /\ pc'[p] = "ready" /\ call'[p] = "none" /\ acked'[p] = sent[p]
        /\ UNCHANGED <<data, path, lock, fd, repl, failed, sent, failures, syncEachWrite>>
        /\ \A q \in Writer \ {p} :
              pc'[q] = pc[q] /\ call'[q] = call[q] /\ acked'[q] = acked[q]
        /\ synced' = Synced(fd[p])
    BY DEF Commit, Committed, SinkInv, TypeOK
  <1>2. /\ TypeOK /\ WriterOK(p) /\ fd[p] # 0 /\ fd[p] \in File /\ lock[fd[p]] = p
        /\ ~failed[p] /\ CompleteTail(fd[p]) /\ repl[p] = 0
        /\ sent[p] \in Nat /\ sent[p] <= MaxEvents
    BY <1>1, AtWork
  <1>3. /\ synced' \in [File -> Nat] /\ synced'[fd[p]] = Len(data[fd[p]])
        /\ \A f \in File : synced[f] <= synced'[f] /\ synced'[f] <= Len(data[f])
    BY <1>1, <1>2, SyncedIs
  <1>4. TypeOK'
    <2>1. /\ acked' \in [Writer -> Nat] /\ \A q \in Writer : sent[q] \in acked'[q]..MaxEvents
      BY <1>1, <1>2, SinkAssumption DEF TypeOK, Commit, Committed
    <2>2. /\ call' \in [Writer -> {"none", "write", "commit"}]
          /\ pc' \in [Writer -> {"down", "ready", "look", "open", "lock", "tail", "swap",
                                 "do", "sync"}]
      BY <1>2 DEF TypeOK, Commit, Committed
    <2>. QED
      BY <1>1, <1>2, <1>3, <2>1, <2>2 DEF TypeOK, File
  <1>5. Grows
    BY <1>1, <1>2, <1>3, Types DEF Grows, File
  <1>6. StepOf(p)
    BY <1>1, <1>4, <1>5 DEF StepOf
  <1>7. CallOK(p)' /\ LockOK(p)' /\ TailOK(p)'
    BY <1>1, <1>2 DEF CallOK, LockOK, TailOK, CompleteTail
  <1>8. KeptOK(p)'
    <2>1. \A n \in Nat : Durable(p, n) => Durable(p, n)'
      BY <1>2, <1>4, <1>5, DurableStays
    <2>2. \A n \in Nat : Has(fd[p], p, n) => Durable(p, n)'
      BY <1>1, <1>2, <1>3 DEF Has, Durable, File, Whole
    <2>3. \A n \in 1..sent[p] : Durable(p, n) \/ Has(fd[p], p, n)
      BY <1>2 DEF WriterOK, KeptOK
    <2>4. \A n \in 1..sent[p] : Durable(p, n)'
      BY <1>2, <2>1, <2>2, <2>3
    <2>. QED
      BY <1>1, <1>2, <2>4 DEF KeptOK, Promised
  <1>. QED
    BY <1>1, <1>6, <1>7, <1>8, NoLineWritten DEF WriterOK

\* A line behind a complete tail.
LEMMA AppendedIs ==
    ASSUME SinkInv, NEW p \in Writer, pc[p] = "do", NEW g \in Line,
           data' = [data EXCEPT ![fd[p]] = Append(@, g)], synced' = synced
    PROVE  /\ data' \in Seq(Seq(Line)) /\ Len(data') = Len(data) /\ File' = File
           /\ \A f \in File : f # fd[p] => data'[f] = data[f]
           /\ \A f \in File : lock[f] # p => data'[f] = data[f]
           /\ Len(data'[fd[p]]) = Len(data[fd[p]]) + 1
           /\ data'[fd[p]][Len(data[fd[p]]) + 1] = g
           /\ \A i \in 1..Len(data[fd[p]]) : data'[fd[p]][i] = data[fd[p]][i]
           /\ Grows
           /\ TornOnlyLast'
  <1>1. /\ TypeOK /\ fd[p] \in File /\ lock[fd[p]] = p /\ CompleteTail(fd[p])
    BY AtWork
  <1>. DEFINE old == data[fd[p]]
  <1>2. /\ old \in Seq(Line) /\ Len(old) \in Nat /\ Len(data) \in Nat
        /\ File = 1..Len(data) /\ data \in Seq(Seq(Line))
    BY <1>1, Types DEF TypeOK
  <1>3. /\ Append(old, g) \in Seq(Line) /\ Len(Append(old, g)) = Len(old) + 1
        /\ Append(old, g)[Len(old) + 1] = g
        /\ \A i \in 1..Len(old) : Append(old, g)[i] = old[i]
    BY <1>2, AppendProperties
  <1>4. data' = [data EXCEPT ![fd[p]] = Append(old, g)]
    OBVIOUS
  <1>5. /\ data' \in Seq(Seq(Line)) /\ Len(data') = Len(data)
        /\ data'[fd[p]] = Append(old, g)
        /\ \A f \in File : f # fd[p] => data'[f] = data[f]
    BY <1>1, <1>2, <1>3, <1>4, ExceptSeq
  <1>6. File' = File
    BY <1>2, <1>5 DEF File
  <1>7. Grows
    <2>1. ASSUME NEW f \in File
          PROVE  /\ Len(data[f]) <= Len(data'[f])
                 /\ \A i \in 1..Len(data[f]) : data'[f][i] = data[f][i]
      <3>1. CASE f = fd[p]
        BY <1>2, <1>3, <1>5, <3>1
      <3>2. CASE f # fd[p]
        BY <1>1, <1>5, <3>2, Types
      <3>. QED
        BY <3>1, <3>2
    <2>. QED
      BY <1>1, <1>6, <2>1, Types DEF Grows
  <1>8. TornOnlyLast'
    <2>1. ASSUME NEW f \in File, NEW i \in 1..(Len(data'[f]) - 1)
          PROVE  data'[f][i].whole
      <3>1. CASE f = fd[p]
        <4>1. i \in 1..Len(old) /\ data'[f][i] = old[i]
          BY <1>2, <1>3, <1>5, <2>1, <3>1
        <4>2. i = Len(old) => old[i].whole
          BY <1>1, <1>2, <4>1 DEF CompleteTail
        <4>3. i # Len(old) => old[i].whole
          BY <1>1, <1>2, <4>1 DEF SinkInv, TornOnlyLast
        <4>. QED
          BY <4>1, <4>2, <4>3
      <3>2. CASE f # fd[p]
        BY <1>5, <2>1, <3>2 DEF SinkInv, TornOnlyLast
      <3>. QED
        BY <3>1, <3>2
    <2>. QED
      BY <1>6, <2>1 DEF TornOnlyLast
  <1>. QED
    BY <1>1, <1>3, <1>5, <1>6, <1>7, <1>8

LEMMA WriteLineStep ==
    ASSUME SinkInv, NEW p \in Writer, WriteLine(p)
    PROVE  SinkInv'
  <1>0. PICK k \in Nat : k = sent[p] + 1
    BY Types DEF SinkInv
  <1>1. /\ pc[p] = "do" /\ call[p] = "write"
        /\ data' = [data EXCEPT ![fd[p]] = Append(@, Event(p))]
        /\ UNCHANGED <<synced, path, lock, fd, repl, failed, acked, failures,
                       syncEachWrite>>
        /\ \A q \in Writer \ {p} :
              pc'[q] = pc[q] /\ call'[q] = call[q] /\ sent'[q] = sent[q]
        /\ syncEachWrite => pc'[p] = "sync" /\ call' = call /\ sent' = sent
        /\ ~syncEachWrite => pc'[p] = "ready" /\ call'[p] = "none" /\ sent'[p] = k
    BY <1>0 DEF WriteLine, Accept, SinkInv, TypeOK
  <1>2. /\ TypeOK /\ WriterOK(p) /\ fd[p] # 0 /\ fd[p] \in File /\ lock[fd[p]] = p
        /\ ~failed[p] /\ CompleteTail(fd[p]) /\ repl[p] = 0
        /\ sent[p] \in Nat /\ acked[p] \in Nat /\ acked[p] <= sent[p]
        /\ k <= MaxEvents /\ sent[p] <= MaxEvents
    BY <1>0, <1>1, AtWork
  <1>3. Event(p) = Whole(p, k) /\ Event(p) \in Line
    BY <1>0 DEF Event, Whole, Line
  <1>. DEFINE last == Len(data[fd[p]]) + 1
  <1>4. /\ data' \in Seq(Seq(Line)) /\ Len(data') = Len(data) /\ File' = File
        /\ \A f \in File : f # fd[p] => data'[f] = data[f]
        /\ \A f \in File : lock[f] # p => data'[f] = data[f]
        /\ Len(data'[fd[p]]) = last /\ data'[fd[p]][last] = Whole(p, k)
        /\ \A i \in 1..Len(data[fd[p]]) : data'[fd[p]][i] = data[fd[p]][i]
        /\ Grows
        /\ TornOnlyLast'
    BY <1>1, <1>3, AppendedIs
  <1>5. Len(data[fd[p]]) \in Nat /\ last \in Nat
    BY <1>2, Types
  <1>6. TypeOK'
    <2>1. \A f \in File : synced[f] <= Len(data'[f])
      <3>1. ASSUME NEW f \in File PROVE synced[f] <= Len(data'[f])
        <4>1. CASE f = fd[p]
          <5>1. synced[fd[p]] \in 0..Len(data[fd[p]])
            BY <1>2, Types
          <5>2. Len(data'[fd[p]]) = Len(data[fd[p]]) + 1
            BY <1>4
          <5>. QED
            BY <1>5, <4>1, <5>1, <5>2
        <4>2. CASE f # fd[p]
          <5>1. synced[f] \in 0..Len(data[f])
            BY <1>2, Types
          <5>2. data'[f] = data[f]
            BY <1>4, <4>2
          <5>. QED
            BY <5>1, <5>2
        <4>. QED
          BY <4>1, <4>2
      <3>. QED
        BY <3>1
    <2>2. /\ sent' \in [Writer -> Nat] /\ \A q \in Writer : sent'[q] \in acked[q]..MaxEvents
      <3>1. CASE syncEachWrite
        BY <1>1, <1>2, <3>1 DEF TypeOK
      <3>2. CASE ~syncEachWrite
        <4>1. sent' = [sent EXCEPT ![p] = k] /\ sent'[p] = k
          BY <1>0, <1>1, <3>2 DEF WriteLine, Accept
        <4>2. k \in acked[p]..MaxEvents /\ k \in Nat
          BY <1>0, <1>2, SinkAssumption
        <4>3. /\ sent \in [Writer -> Nat]
              /\ \A q \in Writer : sent[q] \in acked[q]..MaxEvents
          BY <1>2 DEF TypeOK
        <4>. QED
          BY <4>1, <4>2, <4>3
      <3>. QED
        BY <3>1, <3>2
    <2>3. /\ call' \in [Writer -> {"none", "write", "commit"}]
          /\ pc' \in [Writer -> {"down", "ready", "look", "open", "lock", "tail", "swap",
                                 "do", "sync"}]
      BY <1>2 DEF TypeOK, WriteLine, Accept
    <2>. QED
      BY <1>1, <1>2, <1>4, <2>1, <2>2, <2>3 DEF TypeOK
  <1>7. StepOf(p)
    BY <1>1, <1>4, <1>6 DEF StepOf
  <1>8. CallOK(p)' /\ LockOK(p)'
    BY <1>1, <1>2 DEF WriterOK, CallOK, LockOK, SinkInv, TypeOK
  <1>9. TailOK(p)'
    BY <1>1, <1>2, <1>4, <1>5 DEF TailOK, CompleteTail, Whole
  <1>10. KeptOK(p)'
    <2>1. PICK f \in File : f = fd[p] /\ f = fd'[p]
      BY <1>1, <1>2
    <2>2. \A n \in Nat : Durable(p, n) => Durable(p, n)'
      BY <1>2, <1>4, <1>6, DurableStays
    <2>3. \A n \in Nat : Has(f, p, n) => Has(f, p, n)'
      BY <1>2, <1>4, <1>6, DurableStays
    <2>4. Has(f, p, k)'
      <3>1. last \in 1..Len(data'[f]) /\ data'[f][last] = Whole(p, k)
        BY <1>4, <1>5, <2>1
      <3>. HIDE DEF last
      <3>. QED
        BY <3>1 DEF Has, Whole
    <2>5. \A n \in 1..sent[p] : Durable(p, n)' \/ Has(f, p, n)'
      BY <1>2, <2>1, <2>2, <2>3 DEF WriterOK, KeptOK
    <2>6. \A n \in 1..Promised(p) : Durable(p, n)
      BY <1>2 DEF WriterOK, KeptOK
    <2>7. CASE syncEachWrite
      <3>1. PICK n \in Nat : n = k /\ n = sent'[p] + 1
        BY <1>0, <1>1, <1>2, <2>7
      <3>2. Has(f, p, n)'
        BY <2>4, <3>1 DEF Has, Whole
      <3>. QED
        BY <1>1, <1>2, <2>1, <2>2, <2>5, <2>6, <2>7, <3>1, <3>2 DEF KeptOK, Promised
    <2>8. CASE ~syncEachWrite
      <3>1. \A n \in 1..k : n \in 1..sent[p] \/ n = k
        BY <1>0, <1>2
      <3>2. \A n \in 1..k : Durable(p, n)' \/ Has(f, p, n)'
        BY <2>4, <2>5, <3>1
      <3>3. sent'[p] = k /\ pc'[p] # "sync" /\ Promised(p) = acked[p]
            /\ Promised(p)' = acked[p]
        BY <1>1, <2>8 DEF Promised
      <3>. QED
        BY <1>1, <1>2, <2>1, <2>2, <2>6, <3>2, <3>3 DEF KeptOK
    <2>. QED
      BY <2>7, <2>8
  <1>11. ASSUME NEW f \in File', NEW i \in 1..Len(data'[f])
         PROVE  (f \in File /\ i \in 1..Len(data[f])) \/ Backed(f, i)'
    <2>1. CASE f = fd[p] /\ i = last
      <3>1. ASSUME NEW m \in 1..(k - 1)
            PROVE  Durable(p, m)' \/ \E j \in 1..(i - 1) : data'[f][j] = Whole(p, m)
        <4>1. m \in 1..sent[p] /\ m \in Nat
          BY <1>0, <1>2
        <4>2. Durable(p, m) \/ Has(f, p, m)
          BY <1>2, <2>1, <4>1 DEF WriterOK, KeptOK
        <4>3. Durable(p, m) => Durable(p, m)'
          BY <1>2, <1>4, <1>6, <4>1, DurableStays
        <4>4. ASSUME Has(f, p, m)
              PROVE  \E j \in 1..(i - 1) : data'[f][j] = Whole(p, m)
          <5>1. PICK j \in 1..Len(data[f]) : data[f][j] = Whole(p, m)
            BY <4>4 DEF Has
          <5>2. j \in 1..(i - 1) /\ data'[f][j] = data[f][j]
            <6>1. j \in 1..Len(data[fd[p]]) /\ i - 1 = Len(data[fd[p]])
              BY <1>5, <2>1, <5>1
            <6>2. data'[fd[p]][j] = data[fd[p]][j]
              BY <1>4, <6>1
            <6>. QED
              BY <2>1, <6>1, <6>2
          <5>. QED
            BY <5>1, <5>2
        <4>. QED
          BY <4>2, <4>3, <4>4
      <3>2. data'[f][i] = Whole(p, k)
        BY <1>4, <2>1
      <3>3. data'[f][i].by = p /\ data'[f][i].n = k
        BY <3>2 DEF Whole
      <3>. QED
        BY <3>1, <3>3 DEF Backed, Whole
    <2>2. CASE ~(f = fd[p] /\ i = last)
      BY <1>4, <1>5, <2>2
    <2>. QED
      BY <2>1, <2>2
  <1>. QED
    BY <1>4, <1>7, <1>8, <1>9, <1>10, <1>11, StepKeepsInv DEF WriterOK

LEMMA WritePartialStep ==
    ASSUME SinkInv, NEW p \in Writer, WritePartial(p)
    PROVE  SinkInv'
  <1>. DEFINE g == [Event(p) EXCEPT !.whole = FALSE]
              last == Len(data[fd[p]]) + 1
  <1>1. /\ pc[p] = "do" /\ data' = [data EXCEPT ![fd[p]] = Append(@, g)]
        /\ Fail(p) /\ UNCHANGED <<synced, path, failures, syncEachWrite>>
    BY DEF WritePartial
  <1>2. TypeOK /\ fd[p] \in File /\ sent[p] \in Nat /\ Len(data[fd[p]]) \in Nat
    BY <1>1, AtWork, Types
  <1>3. g \in Line /\ ~g.whole
    <2>1. Event(p) \in Line
      BY <1>2 DEF Event, Line
    <2>. QED
      BY <2>1 DEF Line
  <1>. HIDE DEF g
  <1>4. /\ data' \in Seq(Seq(Line)) /\ Len(data') = Len(data) /\ File' = File
        /\ \A f \in File : f # fd[p] => data'[f] = data[f]
        /\ \A f \in File : lock[f] # p => data'[f] = data[f]
        /\ Len(data'[fd[p]]) = last /\ data'[fd[p]][last] = g
        /\ Grows
        /\ TornOnlyLast'
    BY <1>1, <1>3, AppendedIs
  <1>5. StepOf(p) /\ WriterOK(p)'
    BY <1>1, <1>4, FailIs
  <1>6. ASSUME NEW f \in File', NEW i \in 1..Len(data'[f])
        PROVE  (f \in File /\ i \in 1..Len(data[f])) \/ Backed(f, i)'
    <2>1. CASE f = fd[p] /\ i = last
      BY <1>3, <1>4, <2>1 DEF Backed
    <2>2. CASE ~(f = fd[p] /\ i = last)
      BY <1>2, <1>4, <2>2
    <2>. QED
      BY <2>1, <2>2
  <1>. QED
    BY <1>4, <1>5, <1>6, StepKeepsInv

-----------------------------------------------------------------------------
(* The environment.                                                        *)

LEMMA RenameStep ==
    ASSUME SinkInv, RenameOutput \/ UNCHANGED vars
    PROVE  SinkInv'
  <1>1. /\ path' \in {path, 0}
        /\ UNCHANGED <<data, synced, lock, pc, call, fd, repl, failed, sent, acked,
                       failures, syncEachWrite>>
    BY DEF RenameOutput, vars, files, writers
  <1>2. TypeOK' /\ TornOnlyLast'
    BY <1>1 DEF SinkInv, TypeOK, TornOnlyLast, File
  <1>3. \A f \in File' : \A i \in 1..Len(data'[f]) : Backed(f, i)'
    BY <1>1 DEF SinkInv, Backed, Durable, File
  <1>4. ASSUME NEW p \in Writer PROVE WriterOK(p)'
    <2>1. WriterOK(p)
      BY DEF SinkInv
    <2>2. CallOK(p)'
      BY <1>1, <2>1 DEF WriterOK, CallOK
    <2>3. LockOK(p)' /\ TailOK(p)'
      BY <1>1, <2>1 DEF WriterOK, LockOK, TailOK, CompleteTail
    <2>4. KeptOK(p)'
      BY <1>1, <2>1 DEF WriterOK, KeptOK, Promised, Durable, Has, File
    <2>. QED
      BY <2>2, <2>3, <2>4 DEF WriterOK
  <1>. QED
    BY <1>2, <1>3, <1>4 DEF SinkInv

\* What a power failure leaves of a file.
LEMMA RemainsIs ==
    ASSUME TypeOK, NEW f \in File, NEW d \in Remains(f)
    PROVE  /\ d \in Seq(Line) /\ Len(d) \in synced[f]..Len(data[f])
           /\ \A i \in 1..synced[f] : d[i] = data[f][i]
           /\ \A i \in 1..Len(d) : d[i] = data[f][i] \/ (i = Len(d) /\ ~d[i].whole)
  <1>. DEFINE all == data[f]
  <1>1. /\ all \in Seq(Line) /\ Len(all) \in Nat /\ synced[f] \in 0..Len(all)
        /\ \A i \in 1..Len(all) : all[i] \in Line
    BY Types
  <1>2. ASSUME NEW n \in synced[f]..Len(all)
        PROVE  /\ SubSeq(all, 1, n) \in Seq(Line) /\ Len(SubSeq(all, 1, n)) = n
               /\ \A i \in 1..n : SubSeq(all, 1, n)[i] = all[i]
    <2>1. n \in Int /\ 1 <= n + 1 /\ \A i \in 1..n : all[i] \in Line
      BY <1>1
    <2>2. /\ SubSeq(all, 1, n) \in Seq(Line) /\ Len(SubSeq(all, 1, n)) = n - 1 + 1
          /\ \A i \in 1..(n - 1 + 1) : SubSeq(all, 1, n)[i] = all[1 + i - 1]
      BY <2>1, SubSeqProperties
    <2>. QED
      BY <2>1, <2>2
  <1>3. CASE \E n \in synced[f]..Len(all) : d = SubSeq(all, 1, n)
    BY <1>1, <1>2, <1>3
  <1>4. CASE \E n \in synced[f]..(Len(all) - 1) :
               d = Append(SubSeq(all, 1, n), [all[n + 1] EXCEPT !.whole = FALSE])
    <2>1. PICK n \in synced[f]..(Len(all) - 1) :
             d = Append(SubSeq(all, 1, n), [all[n + 1] EXCEPT !.whole = FALSE])
      BY <1>4
    <2>. DEFINE whole == SubSeq(all, 1, n)
                torn == [all[n + 1] EXCEPT !.whole = FALSE]
    <2>2. all[n + 1] \in Line /\ n \in synced[f]..Len(all) /\ n \in Nat
      BY <1>1
    <2>3. torn \in Line /\ ~torn.whole
      BY <2>2 DEF Line
    <2>4. whole \in Seq(Line) /\ Len(whole) = n /\ \A i \in 1..n : whole[i] = all[i]
      BY <1>2, <2>2
    <2>. HIDE DEF whole, torn
    <2>5. d = Append(whole, torn)
      BY <2>1 DEF whole, torn
    <2>6. /\ d \in Seq(Line) /\ Len(d) = n + 1 /\ d[n + 1] = torn
          /\ \A i \in 1..n : d[i] = all[i]
      BY <2>3, <2>4, <2>5, AppendProperties
    <2>. QED
      BY <1>1, <2>2, <2>3, <2>6
  <1>. QED
    BY <1>3, <1>4 DEF Remains

LEMMA PowerFailureStep ==
    ASSUME SinkInv, PowerFailure
    PROVE  SinkInv'
  <1>1. /\ TypeOK /\ Len(data) \in Nat /\ File = 1..Len(data)
    BY Types DEF SinkInv
  <1>2. /\ data' \in [File -> UNION {Remains(f) : f \in File}]
        /\ \A f \in File : data'[f] \in Remains(f)
        /\ synced' = [f \in File |-> Len(data'[f])]
        /\ lock' = [f \in File |-> None]
        /\ pc' = [p \in Writer |-> "down"] /\ call' = [p \in Writer |-> "none"]
        /\ fd' = [p \in Writer |-> 0] /\ repl' = [p \in Writer |-> 0]
        /\ failed' = [p \in Writer |-> FALSE] /\ sent' = acked
        /\ failures' = failures + 1 /\ UNCHANGED <<path, acked, syncEachWrite>>
    BY DEF PowerFailure
  <1>3. ASSUME NEW f \in File
        PROVE  /\ data'[f] \in Seq(Line) /\ Len(data'[f]) \in synced[f]..Len(data[f])
               /\ \A i \in 1..synced[f] : data'[f][i] = data[f][i]
               /\ \A i \in 1..Len(data'[f]) :
                     data'[f][i] = data[f][i] \/ (i = Len(data'[f]) /\ ~data'[f][i].whole)
               /\ synced[f] \in Nat /\ Len(data[f]) \in Nat /\ Len(data'[f]) \in Nat
    <2>1. PICK d \in Remains(f) : d = data'[f]
      BY <1>2
    <2>2. synced[f] \in Nat /\ Len(data[f]) \in Nat
      BY <1>1, Types
    <2>3. /\ d \in Seq(Line) /\ Len(d) \in synced[f]..Len(data[f])
          /\ \A i \in 1..synced[f] : d[i] = data[f][i]
          /\ \A i \in 1..Len(d) : d[i] = data[f][i] \/ (i = Len(d) /\ ~d[i].whole)
      BY <1>1, RemainsIs
    <2>. QED
      BY <2>1, <2>2, <2>3
  <1>4. data' \in Seq(Seq(Line)) /\ Len(data') = Len(data) /\ File' = File
    <2>1. data' \in [1..Len(data) -> Seq(Line)]
      BY <1>1, <1>2, <1>3
    <2>2. data' \in Seq(Seq(Line)) /\ Len(data') = Len(data)
      BY <1>1, <2>1
    <2>. QED
      BY <1>1, <2>2 DEF File
  <1>5. TypeOK'
    <2>1. /\ synced' \in [File -> Nat] /\ \A f \in File : synced'[f] <= Len(data'[f])
      BY <1>2, <1>3
    <2>2. \A p \in Writer : acked[p] \in acked[p]..MaxEvents
      BY <1>1, SinkAssumption DEF TypeOK
    <2>. QED
      BY <1>1, <1>2, <1>4, <2>1, <2>2 DEF TypeOK
  <1>6. TornOnlyLast'
    <2>1. ASSUME NEW f \in File, NEW i \in 1..(Len(data'[f]) - 1)
          PROVE  data'[f][i].whole
      <3>1. i \in 1..Len(data'[f]) /\ i # Len(data'[f]) /\ i \in 1..(Len(data[f]) - 1)
        BY <1>3
      <3>. QED
        BY <1>3, <3>1 DEF SinkInv, TornOnlyLast
    <2>. QED
      BY <1>4, <2>1 DEF TornOnlyLast
  <1>7. ASSUME NEW p \in Writer, NEW n \in Nat, Durable(p, n)
        PROVE  Durable(p, n)'
    <2>1. PICK f \in File : \E i \in 1..synced[f] :
             data[f][i] = [by |-> p, n |-> n, whole |-> TRUE]
      BY <1>7 DEF Durable
    <2>2. PICK i \in 1..synced[f] : data[f][i] = [by |-> p, n |-> n, whole |-> TRUE]
      BY <2>1
    <2>3. i \in 1..synced'[f] /\ data'[f][i] = data[f][i]
      BY <1>2, <1>3, <2>2
    <2>. QED
      BY <1>4, <2>2, <2>3 DEF Durable
  <1>8. ASSUME NEW f \in File, NEW i \in 1..Len(data'[f])
        PROVE  Backed(f, i)'
    <2>1. CASE ~data'[f][i].whole
      BY <2>1 DEF Backed
    <2>2. CASE data'[f][i].whole
      <3>1. data'[f][i] = data[f][i] /\ i \in 1..Len(data[f])
        BY <1>3, <2>2
      <3>2. PICK g \in Line : g = data[f][i] /\ g = data'[f][i]
        BY <1>1, <3>1, Types
      <3>3. Backed(f, i)
        BY <3>1 DEF SinkInv
      <3>4. ASSUME NEW m \in 1..(g.n - 1)
            PROVE  \/ Durable(g.by, m)'
                   \/ \E j \in 1..(i - 1) : data'[f][j] = Whole(g.by, m)
        <4>1. Durable(g.by, m) \/ \E j \in 1..(i - 1) : data[f][j] = Whole(g.by, m)
          BY <2>2, <3>2, <3>3 DEF Backed
        <4>2. g.by \in Writer /\ m \in Nat
          BY DEF Line
        <4>3. \A j \in 1..(i - 1) : j \in 1..Len(data'[f]) /\ j # Len(data'[f])
          BY <1>3
        <4>. QED
          BY <1>3, <1>7, <4>1, <4>2, <4>3 DEF Whole
      <3>. QED
        BY <3>2, <3>4 DEF Backed, Whole
    <2>. QED
      BY <2>1, <2>2
  <1>9. ASSUME NEW p \in Writer PROVE WriterOK(p)'
    <2>1. CallOK(p)' /\ LockOK(p)' /\ TailOK(p)'
      BY <1>2 DEF CallOK, LockOK, TailOK
    <2>2. KeptOK(p)'
      <3>1. acked[p] \in Nat /\ acked[p] <= sent[p] /\ sent[p] \in Nat
        BY <1>1, Types
      <3>2. \A n \in 1..acked[p] : Durable(p, n)
        BY <3>1 DEF SinkInv, WriterOK, KeptOK, Promised
      <3>3. \A n \in 1..acked[p] : Durable(p, n)'
        BY <1>7, <3>1, <3>2
      <3>. QED
        BY <1>2, <3>3 DEF KeptOK, Promised
    <2>. QED
      BY <2>1, <2>2 DEF WriterOK
  <1>. QED
    BY <1>4, <1>5, <1>6, <1>8, <1>9 DEF SinkInv

LEMMA InitSink == Init => SinkInv
  <1> SUFFICES ASSUME Init PROVE SinkInv
    OBVIOUS
  <1>1. File = {}
    BY DEF Init, File
  <1>2. TypeOK
    <2>1. data \in Seq(Seq(Line)) /\ Len(data) = 0
      BY DEF Init
    <2>2. synced \in [File -> Nat] /\ lock \in [File -> Writer \cup {None}]
      BY <1>1 DEF Init
    <2>. QED
      BY <1>1, <2>1, <2>2, SinkAssumption DEF Init, TypeOK
  <1>3. \A p \in Writer : WriterOK(p)
    BY DEF Init, WriterOK, CallOK, LockOK, TailOK, KeptOK, Promised
  <1>. QED
    BY <1>1, <1>2, <1>3 DEF SinkInv, TornOnlyLast

LEMMA SinkInvariant == Spec => []SinkInv
  <1>1. SinkInv /\ [Next]_vars => SinkInv'
    BY StartStep, BeginStep, LookStep, OpenExistingStep, OpenNewStep, LockStep, FailingStep,
       TailCompleteStep, SwapStep, WriteLineStep, WritePartialStep, WriteSyncStep,
       CommitStep, RenameStep, PowerFailureStep, Zenon DEF Next
  <1>. QED
    BY InitSink, <1>1, PTL DEF Spec

-----------------------------------------------------------------------------
(* The properties.                                                         *)

\* An incomplete line, of a failed write or of a power failure, is never
\* written behind (Write's failed, the lock and the tail check).
THEOREM IncompleteLineIsLast == Spec => []TornOnlyLast
  <1>1. SinkInv => TornOnlyLast
    BY DEF SinkInv
  <1>. QED
    BY SinkInvariant, <1>1, PTL

\* What Commit, or a synchronous Write, has returned for is durable, however
\* often the output was renamed and reopened meanwhile.
THEOREM CommittedIsDurable == Spec => []AckedDurable
  <1>1. SinkInv => AckedDurable
    BY DEF SinkInv, WriterOK, KeptOK, AckedDurable
  <1>. QED
    BY SinkInvariant, <1>1, PTL

\* The events of a writer that survive are its first ones: reopenIfRotated
\* syncs the old file before the first line goes to its replacement.
THEOREM SurvivorsAreAPrefix == Spec => []NoHole
  <1>1. ASSUME SinkInv PROVE NoHole
    <2>1. ASSUME NEW p \in Writer, NEW n \in Written(p), NEW m \in 1..n
          PROVE  m \in Written(p)
      <3>0. PICK f \in File : \E i \in DOMAIN data[f] :
               data[f][i] = [by |-> p, n |-> n, whole |-> TRUE]
        BY DEF Written
      <3>1. PICK i \in DOMAIN data[f] : data[f][i] = [by |-> p, n |-> n, whole |-> TRUE]
        BY <3>0
      <3>2. n \in 1..MaxEvents /\ m \in 1..MaxEvents
        BY SinkAssumption DEF Written
      <3>3. \A g \in File : /\ DOMAIN data[g] = 1..Len(data[g]) /\ Len(data[g]) \in Nat
                            /\ synced[g] \in 0..Len(data[g])
        BY <1>1, Types DEF SinkInv
      <3>4. CASE m = n
        BY <3>4
      <3>5. CASE m # n
        <4>1. i \in 1..Len(data[f]) /\ m \in 1..(n - 1) /\ Backed(f, i)
          BY <1>1, <3>2, <3>3, <3>5 DEF SinkInv
        <4>2. Durable(p, m) \/ \E j \in 1..(i - 1) : data[f][j] = Whole(p, m)
          BY <3>1, <4>1 DEF Backed
        <4>3. \E g \in File : \E j \in DOMAIN data[g] :
                 data[g][j] = [by |-> p, n |-> m, whole |-> TRUE]
          <5>1. CASE Durable(p, m)
            BY <3>3, <5>1 DEF Durable
          <5>2. CASE \E j \in 1..(i - 1) : data[f][j] = Whole(p, m)
            BY <3>3, <4>1, <5>2 DEF Whole
          <5>. QED
            BY <4>2, <5>1, <5>2
        <4>. QED
          BY <3>2, <4>3 DEF Written
      <3>. QED
        BY <3>4, <3>5
    <2>. QED
      BY <2>1 DEF NoHole
  <1>. QED
    BY SinkInvariant, <1>1, PTL

=============================================================================
