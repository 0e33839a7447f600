----------------------------- MODULE Assembler -----------------------------
(***************************************************************************)
(* The event assembler of internal/audit (assembler.go, isolation.go) and  *)
(* the line handlers of cmd/ag-audit that drive it (main.go addSourceLine, *)
(* line_limit.go rejectLine).                                              *)
(*                                                                         *)
(* Physical audit lines arrive one at a time.  Records with the same       *)
(* correlation key are grouped until a boundary is seen: an explicit       *)
(* terminator, a newer event time (the watermark), inactivity, or a limit. *)
(* A key whose evidence was refused is isolated: it is remembered in a     *)
(* bounded table, or, when that is full, every unknown key is fenced.      *)
(*                                                                         *)
(* A line's position in the source is its number in `input'.  Several      *)
(* events leaving the assembler in one call form a set: the order in which *)
(* one call writes them is not modelled.                                   *)
(***************************************************************************)
EXTENDS Integers, Sequences, FiniteSets, FiniteSetsExt, Functions

CONSTANTS
    Id,                  \* Audit IDs
    Node,                \* values of the node= field
    None,                \* an absent node, time or position
    AuditTimeOf,         \* auditTimeFromID: [Id -> Nat \cup {None}]
    IdBytes, NodeBytes,  \* len(key.ID), len(key.Node)
    Lines,               \* the physical lines this instance can read
    MaxPendingEvents, MaxRecordsPerEvent, MaxPendingBytes,  \* AssemblerLimits
    Timeout,             \* --event-timeout, in ticks
    OneMinute,           \* time.Minute, in ticks
    MaxLines,            \* bound: lines ever read
    LastArrival,         \* bound: no line arrives after this tick
    MaxNow               \* bound: the clock stops at this tick

Key == [id : Id, node : Node \cup {None}]
RecordType == {"data", "proctitle", "single", "eoe"}
PhysicalLine ==
    [kind : {"record"}, key : Key, type : RecordType, bytes : Nat]
        \cup [kind : {"malformed"}]
        \cup [kind : {"oversize"}, key : Key]      \* usable envelope prefix
        \cup [kind : {"uncorrelated"}]             \* oversize, no usable key

ASSUME LimitsAssumption ==
    /\ MaxPendingEvents \in Nat \ {0}
    /\ MaxRecordsPerEvent \in Nat \ {0}
    /\ MaxPendingBytes \in Nat \ {0}
ASSUME TimeAssumption ==
    /\ Timeout \in Nat \ {0}
    /\ OneMinute \in Nat \ {0}
    /\ AuditTimeOf \in [Id -> Nat \cup {None}]
ASSUME BytesAssumption == IdBytes \in [Id -> Nat] /\ NodeBytes \in [Node -> Nat]
ASSUME LinesAssumption == Lines \subseteq PhysicalLine
ASSUME BoundsAssumption == MaxLines \in Nat /\ LastArrival \in Nat /\ MaxNow \in Nat
ASSUME NoneAssumption == None \notin Nat /\ None \notin Node /\ None \notin Key

VARIABLES
    asm,      \* the Assembler struct
    now,      \* the monotonic clock
    input,    \* history: the physical lines of the source, in order
    next,     \* the number of the next line to read
    output,   \* history: the events handed to the sink
    broken    \* history: when evidence of a key was last refused

vars == <<asm, now, input, next, output, broken>>

-----------------------------------------------------------------------------
(* The assembler's state.  A partial function stands for each Go map.      *)

Group == [lines : SUBSET Nat, first : Nat, bytes : Nat, lastSeen : Nat,
          auditTime : Nat \cup {None}, mixed : BOOLEAN]
Rejection == [source : Nat, lastSeen : Nat]
Completion == {"eoe", "proctitle", "single_record", "watermark", "timeout",
               "source_gap", "shutdown", "exception", "malformed"}
Event == [key : Key \cup {None}, lines : SUBSET Nat,
          completion : Completion, mixed : BOOLEAN]

\* finish(..., complete = TRUE): the source itself closed the group.
Complete(e) == e.completion \in {"eoe", "proctitle", "single_record", "watermark"}

EmptyAssembler ==
    [pending |-> << >>, pendingBytes |-> 0,
     rejected |-> << >>, rejectionBytes |-> 0,
     spillSince |-> None, spillSource |-> None,
     latestAuditTime |-> None, latestAuditNode |-> None]

\* m[k] = v
With(m, k, v) == [q \in DOMAIN m \cup {k} |-> IF q = k THEN v ELSE m[q]]

KeyBytes(k) == IdBytes[k.id] + (IF k.node = None THEN 0 ELSE NodeBytes[k.node])

Pending(a) == DOMAIN a.pending
Rejected(a) == DOMAIN a.rejected
Fenced(a) == a.spillSince # None

GroupEvent(a, k, completion) ==
    [key |-> k, lines |-> a.pending[k].lines,
     completion |-> completion, mixed |-> a.pending[k].mixed]

\* Mutant of Exceptions: only the triggering record is written.
ExceptionsLast(k, ls) ==
    {[key |-> k, lines |-> {Max(ls)}, completion |-> "exception", mixed |-> FALSE]
        : l \in ls}

\* emit writes an exceptional event as one ASSEMBLY_EXCEPTION per record.
Exceptions(k, ls) ==
    {[key |-> k, lines |-> {l}, completion |-> "exception", mixed |-> FALSE] : l \in ls}

Finish(a, keys) ==
    [a EXCEPT !.pending = Restrict(@, DOMAIN @ \ keys),
              !.pendingBytes = @ - MapThenSumSet(LAMBDA k : a.pending[k].bytes, keys)]

-----------------------------------------------------------------------------
(* Expiry.                                                                 *)

WallExpired(a, k, t) == t >= a.pending[k].lastSeen + Timeout
PastWatermark(a, k) ==
    /\ a.pending[k].auditTime # None
    /\ a.latestAuditTime >= a.pending[k].auditTime + Timeout

\* Mutant of Expired: no inactivity timeout.
ExpiredByWatermark(a, t) == {k \in Pending(a) : PastWatermark(a, k)}

Expired(a, t) == {k \in Pending(a) : WallExpired(a, k, t) \/ PastWatermark(a, k)}

\* Event age closes a group; wall-clock inactivity only bounds its wait.
ExpiredEvents(a, t) ==
    {GroupEvent(a, k, IF PastWatermark(a, k) THEN "watermark" ELSE "timeout")
        : k \in Expired(a, t)}

ExpireRejected(a, t) ==
    LET stale == {k \in Rejected(a) : t >= a.rejected[k].lastSeen + Timeout}
        lifted == Fenced(a) /\ t >= a.spillSince + Timeout
    IN [a EXCEPT !.rejected = Restrict(@, DOMAIN @ \ stale),
                 !.rejectionBytes = @ - MapThenSumSet(KeyBytes, stale),
                 !.spillSince = IF lifted THEN None ELSE @,
                 !.spillSource = IF lifted THEN None ELSE @]

\* What every line does first, whatever happens to it afterwards.
Serviced(a, t) == ExpireRejected(Finish(a, Expired(a, t)), t)

-----------------------------------------------------------------------------
(* Isolation.                                                              *)

Trackable(a, k) ==
    /\ Cardinality(Rejected(a)) < MaxPendingEvents
    /\ KeyBytes(k) <= MaxPendingBytes - a.rejectionBytes

Track(a, k, source, t) ==
    [a EXCEPT !.rejected = With(@, k, [source |-> source, lastSeen |-> t]),
              !.rejectionBytes = @ + KeyBytes(k)]

\* Mutants of StartSpill: the boundary is not recorded; the fence is not renewed.
StartSpillBare(a, source, t) == [a EXCEPT !.spillSince = t]
StartSpillOnce(a, source, t) ==
    IF Fenced(a) THEN a ELSE [a EXCEPT !.spillSince = t, !.spillSource = source]

StartSpill(a, source, t) ==
    [a EXCEPT !.spillSince = t,
              !.spillSource = IF ~Fenced(a) \/ source < @ THEN source ELSE @]

\* Mutant of Isolate: a tracked key raises the fence as well.
IsolateAndSpill(a, k, source, t) ==
    StartSpill(IF Trackable(a, k) THEN Track(a, k, source, t) ELSE a, source, t)

Isolate(a, k, source, t) ==
    IF Trackable(a, k) THEN Track(a, k, source, t) ELSE StartSpill(a, source, t)

\* Mutant of Touch: activity does not refresh the rejected key.
TouchNothing(a, k, t) == a

Touch(a, k, t) == [a EXCEPT !.rejected[k].lastSeen = t]

\* Mutant of Forget: the key's bytes stay charged.
ForgetKeepsBytes(a, k) == [a EXCEPT !.rejected = Restrict(@, DOMAIN @ \ {k})]

Forget(a, k) ==
    [a EXCEPT !.rejected = Restrict(@, DOMAIN @ \ {k}),
              !.rejectionBytes = @ - KeyBytes(k)]

FlushAll(a) ==
    [Finish(a, Pending(a)) EXCEPT
        !.rejected = << >>, !.rejectionBytes = 0,
        !.spillSince = None, !.spillSource = None]

-----------------------------------------------------------------------------
(* Admission.                                                              *)

\* The same ID with and without a node= field: which producer is unknown.
Twins(q, k) == q.id = k.id /\ (q.node = None) # (k.node = None)

\* Mutant of MarkMixed: the group that came first is not marked.
MarkNothing(a, k) == a

MarkMixed(a, k) ==
    [a EXCEPT !.pending =
        [q \in Pending(a) |->
            [a.pending[q] EXCEPT !.mixed = @ \/ Twins(q, k)]]]

LimitHit(a, k, bytes) ==
    \/ k \notin Pending(a) /\ Cardinality(Pending(a)) >= MaxPendingEvents
    \/ k \in Pending(a) /\ Cardinality(a.pending[k].lines) >= MaxRecordsPerEvent
    \/ bytes > MaxPendingBytes - a.pendingBytes

ForwardWindow == IF Timeout > OneMinute \div 2 THEN 2 * Timeout ELSE OneMinute

\* Mutant of NewEpoch: one producer's clock completes another's groups.
NewEpochOnJump(a, k) ==
    LET delta == AuditTimeOf[k.id] - a.latestAuditTime
    IN a.latestAuditTime # None /\ (delta > ForwardWindow \/ delta <= -Timeout)

\* A watermark never spans two producers or a clock jump.
NewEpoch(a, k) ==
    LET delta == AuditTimeOf[k.id] - a.latestAuditTime
    IN /\ a.latestAuditTime # None
       /\ \/ k.node # a.latestAuditNode
          \/ delta > ForwardWindow
          \/ delta <= -Timeout

\* The groups of a previous epoch lose their event time.
ObserveAuditTime(a, k) ==
    LET time == AuditTimeOf[k.id]
        restart == NewEpoch(a, k)
        newest == restart \/ a.latestAuditTime = None \/ time > a.latestAuditTime
    IN [a EXCEPT !.pending = [q \in Pending(a) |->
                    IF restart THEN [a.pending[q] EXCEPT !.auditTime = None]
                               ELSE a.pending[q]],
                 !.latestAuditNode = k.node,
                 !.latestAuditTime = IF newest THEN time ELSE @]

Open(a, k, n, t) ==
    LET group == [lines |-> {}, first |-> n, bytes |-> 0, lastSeen |-> t,
                  auditTime |-> AuditTimeOf[k.id],
                  mixed |-> \E q \in Pending(a) : Twins(q, k)]
        observed == IF AuditTimeOf[k.id] = None THEN a ELSE ObserveAuditTime(a, k)
    IN [observed EXCEPT !.pending = With(@, k, group)]

Extended(g, n, bytes, t) ==
    [g EXCEPT !.lines = @ \cup {n}, !.bytes = @ + bytes, !.lastSeen = t]

Store(a, k, n, bytes, t) ==
    [a EXCEPT !.pending[k] = Extended(@, n, bytes, t),
              !.pendingBytes = @ + bytes]

Stored(a, k, n, bytes, t) ==
    LET marked == MarkMixed(a, k)
        opened == IF k \in Pending(a) THEN marked ELSE Open(marked, k, n, t)
    IN Store(opened, k, n, bytes, t)

Terminal(type) == type \in {"single", "eoe"}
ClosesRejection(type) == Terminal(type) \/ type = "proctitle"

\* How a record closes the group it was stored in; None when it does not.
Boundary(type, existed) ==
    CASE type = "proctitle" /\ existed -> "proctitle"
      [] type = "eoe"                  -> "eoe"
      [] type = "single"               -> "single_record"
      [] OTHER                         -> None

-----------------------------------------------------------------------------
(* SafeSourcePosition: no line from here on may be skipped by a restart.   *)

\* Mutant of Barriers: a group holds back its last record only.
BarriersOfLast(a) ==
    {Max(a.pending[k].lines) : k \in Pending(a)}
        \cup {a.rejected[k].source : k \in Rejected(a)}
        \cup ({a.spillSource} \ {None})

Barriers(a) ==
    (UNION {a.pending[k].lines : k \in Pending(a)})
        \cup {a.rejected[k].source : k \in Rejected(a)}
        \cup ({a.spillSource} \ {None})

SafeSourcePosition(a, fallback) == Min(Barriers(a) \cup {fallback})
-----------------------------------------------------------------------------
(* One action per way a line, or an idle poll, is handled.  Each line      *)
(* handler starts from the serviced assembler S.                           *)

S == Serviced(asm, now)

\* The next physical line: a new one, or one read before a restart.
Read(line) ==
    /\ next <= MaxLines
    /\ now <= LastArrival
    /\ IF next <= Len(input)
         THEN line = input[next] /\ UNCHANGED input
         ELSE input' = Append(input, line)
    /\ next' = next + 1
    /\ UNCHANGED now

ReadRecord(line) == line.kind = "record" /\ Read(line)

\* The events leave behind those that service itself expired.
Emit(events) == output' = output \cup ExpiredEvents(asm, now) \cup events

Taint(k) == broken' = [broken EXCEPT ![k] = now]
Untaint(k) == broken' = [broken EXCEPT ![k] = None]
TaintUnless(closed, k) == IF closed THEN Untaint(k) ELSE Taint(k)

\* The key is isolated: the record is exceptional and a terminator ends it.
AddRejected(line) ==
    LET k == line.key
        closes == ClosesRejection(line.type)
    IN /\ ReadRecord(line)
       /\ k \in Rejected(S)
       /\ asm' = IF closes THEN Forget(S, k) ELSE Touch(S, k, now)
       /\ Emit(Exceptions(k, {next}))
       /\ TaintUnless(closes, k)

\* An EOE carries no evidence: it closes a full group without being stored.
CloseFullGroup(line) ==
    LET k == line.key
    IN /\ ReadRecord(line)
       /\ k \in Pending(S) \ Rejected(S)
       /\ line.type = "eoe"
       /\ \/ Cardinality(S.pending[k].lines) >= MaxRecordsPerEvent
          \/ line.bytes > MaxPendingBytes - S.pendingBytes
       /\ asm' = Finish(S, {k})
       /\ Emit({GroupEvent(S, k, "eoe")})
       /\ UNCHANGED broken

\* Behind the fence a key nobody tracks cannot be told from a forgotten one.
AddFenced(line) ==
    LET k == line.key
        closes == ClosesRejection(line.type)
    IN /\ ReadRecord(line)
       /\ k \notin Pending(S) \cup Rejected(S)
       /\ Fenced(S)
       /\ asm' = IF closes THEN S
                 ELSE IF Trackable(S, k) THEN Track(S, k, S.spillSource, now)
                 ELSE StartSpill(S, next, now)
       /\ Emit(Exceptions(k, {next}))
       /\ TaintUnless(closes, k)

\* What is left is ordinary admission, addAt.
Admissible(line) ==
    LET k == line.key
    IN /\ k \notin Rejected(S)
       /\ k \notin Pending(S) => ~Fenced(S)
       /\ ~(/\ k \in Pending(S)
            /\ line.type = "eoe"
            /\ LimitHit(S, k, line.bytes))

OrphanEOE(line) ==
    /\ ReadRecord(line)
    /\ Admissible(line)
    /\ line.type = "eoe" /\ line.key \notin Pending(S)
    /\ asm' = MarkMixed(S, line.key)
    /\ Emit({})
    /\ UNCHANGED broken

Admit(line) ==
    LET k == line.key
        existed == k \in Pending(S)
        stored == Stored(S, k, next, line.bytes, now)
        boundary == Boundary(line.type, existed)
        closed == IF boundary = None THEN {} ELSE {k}
        settled == Finish(stored, closed)
    IN /\ ReadRecord(line)
       /\ Admissible(line)
       /\ line.type = "eoe" => existed
       /\ ~LimitHit(S, k, line.bytes)
       /\ asm' = Finish(settled, Expired(settled, now))
       /\ Emit({GroupEvent(stored, q, boundary) : q \in closed}
                   \cup ExpiredEvents(settled, now))
       /\ UNCHANGED broken

\* A record beyond a limit takes its whole group out as physical evidence.
Refuse(line) ==
    LET k == line.key
        existed == k \in Pending(S)
        retained == IF existed THEN S.pending[k].lines ELSE {}
        source == IF existed THEN S.pending[k].first ELSE next
        dropped == Finish(MarkMixed(S, k), {k} \cap Pending(S))
        closes == ClosesRejection(line.type)
    IN /\ ReadRecord(line)
       /\ Admissible(line)
       /\ line.type = "eoe" => existed
       /\ LimitHit(S, k, line.bytes)
       /\ asm' = IF closes THEN dropped ELSE Isolate(dropped, k, source, now)
       /\ Emit(Exceptions(k, retained \cup {next}))
       /\ TaintUnless(closes, k)

LineEvent(k, completion) ==
    [key |-> k, lines |-> {next}, completion |-> completion, mixed |-> FALSE]

ParseFailure(line) ==
    /\ line.kind = "malformed" /\ Read(line)
    /\ asm' = S
    /\ Emit({LineEvent(None, "malformed")})
    /\ UNCHANGED broken

\* An oversize line whose prefix still names its key isolates that key.
RejectKnownLine(line) ==
    LET k == line.key
        existed == k \in Pending(S)
        retained == IF existed THEN S.pending[k].lines ELSE {}
        source == IF existed THEN S.pending[k].first ELSE next
        dropped == Finish(S, {k} \cap Pending(S))
    IN /\ line.kind = "oversize" /\ Read(line)
       /\ asm' = IF k \in Rejected(S) THEN Touch(dropped, k, now)
                 ELSE Isolate(dropped, k, source, now)
       /\ Emit(Exceptions(k, retained) \cup {LineEvent(k, "exception")})
       /\ Taint(k)

\* An oversize line without a key may belong to any group: all are broken.
RejectUnknownLine(line) ==
    /\ line.kind = "uncorrelated" /\ Read(line)
    /\ asm' = StartSpill(FlushAll(S), next, now)
    /\ Emit((UNION {Exceptions(k, S.pending[k].lines) : k \in Pending(S)})
                \cup {LineEvent(None, "exception")})
    /\ broken' = [k \in Key |-> now]

\* runFollower at end of input: FlushExpired.
Idle ==
    /\ next > Len(input)
    /\ asm' = S
    /\ Emit({})
    /\ UNCHANGED <<now, input, next, broken>>

\* flushAll, at a source gap or at shutdown: nothing is joined across it.
FlushAllWith(completion) ==
    /\ asm' = FlushAll(asm)
    /\ output' = output \cup {GroupEvent(asm, k, completion) : k \in Pending(asm)}
    /\ broken' = [k \in Key |-> None]
    /\ UNCHANGED <<now, input, next>>

\* The bounded clock leaves time to read what is already there.
Tick ==
    /\ now < IF next <= Len(input) THEN LastArrival ELSE MaxNow
    /\ now' = now + 1
    /\ UNCHANGED <<asm, input, next, output, broken>>

HandleLine(line) ==
    \/ AddRejected(line)
    \/ CloseFullGroup(line)
    \/ AddFenced(line)
    \/ OrphanEOE(line)
    \/ Admit(line)
    \/ Refuse(line)
    \/ ParseFailure(line)
    \/ RejectKnownLine(line)
    \/ RejectUnknownLine(line)

Init ==
    /\ asm = EmptyAssembler
    /\ now = 0
    /\ input = << >>
    /\ next = 1
    /\ output = {}
    /\ broken = [k \in Key |-> None]

Next ==
    \/ \E line \in Lines : HandleLine(line)
    \/ Idle
    \/ FlushAllWith("source_gap")
    \/ Tick

\* The poll loop of runFollower keeps turning and the clock keeps running.
Fairness == WF_vars(Idle) /\ WF_vars(Tick)

Spec == Init /\ [][Next]_vars /\ Fairness

-----------------------------------------------------------------------------
(* Properties.                                                             *)

AsmTypeOK(a) ==
    /\ a = [f \in DOMAIN EmptyAssembler |-> a[f]]
    /\ Pending(a) \subseteq Key
    /\ a.pending \in [Pending(a) -> Group]
    /\ Rejected(a) \subseteq Key
    /\ a.rejected \in [Rejected(a) -> Rejection]
    /\ a.spillSince \in Nat \cup {None}
    /\ a.spillSource \in Nat \cup {None}
    /\ Fenced(a) <=> a.spillSource # None
    /\ a.latestAuditTime \in Nat \cup {None}
    /\ a.latestAuditNode \in Node \cup {None}

TypeOK ==
    /\ AsmTypeOK(asm)
    /\ now \in Nat /\ next \in Nat \ {0}
    /\ input \in Seq(Lines)
    /\ output \subseteq Event
    /\ broken \in [Key -> Nat \cup {None}]

\* The unresolved state never exceeds the configured limits, and the counters
\* the limits are tested with are the true sums (assembler.go checkLimits and
\* finish, isolation.go rejectionBytes): a drift would starve admission or
\* grow memory without bound, long after the call that caused it.
LimitsHold ==
    /\ asm.pendingBytes = MapThenSumSet(LAMBDA k : asm.pending[k].bytes, Pending(asm))
    /\ asm.rejectionBytes = MapThenSumSet(KeyBytes, Rejected(asm))
    /\ asm.pendingBytes <= MaxPendingBytes
    /\ asm.rejectionBytes <= MaxPendingBytes
    /\ Cardinality(Pending(asm)) <= MaxPendingEvents
    /\ Cardinality(Rejected(asm)) <= MaxPendingEvents
    /\ \A k \in Pending(asm) :
         Cardinality(asm.pending[k].lines) <= MaxRecordsPerEvent

\* "Never forget a tainted key and later normalize its tail as a complete
\* event" (isolation.go AddRecovering): while evidence of a key was refused
\* less than Timeout ago and no terminator was seen, the key opens no group,
\* whatever the table and the fence went through in between.
NoTaintedGroup ==
    \A k \in Pending(asm) :
        broken[k] # None => now >= broken[k] + Timeout

\* Why NoTaintedGroup holds: a freshly broken key is not pending, and is
\* either in the rejected table or behind the fence, each no older than the
\* refusal, and a key is never both pending and rejected.
KeyRemembered(a, t, k, refused) ==
    /\ refused <= t
    /\ t < refused + Timeout =>
         /\ k \notin Pending(a)
         /\ \/ k \in Rejected(a) /\ a.rejected[k].lastSeen >= refused
            \/ Fenced(a) /\ a.spillSince >= refused
Remembered(a, t, refusals) ==
    /\ Pending(a) \cap Rejected(a) = {}
    /\ \A k \in Key : refusals[k] # None => KeyRemembered(a, t, k, refusals[k])
TaintRemembered == Remembered(asm, now, broken)

\* An orphan EOE, and the EOE that closes a full group, carry no evidence.
Payload(line) == ~(line.kind = "record" /\ line.type = "eoe")

\* "No source record is intentionally dropped" (reliability.md), and none is
\* written twice by one run: each line with evidence is in exactly one place,
\* an unresolved group or an event (addAt, finish, AddRecovering's exceptions).
ExactlyOnce ==
    \A l \in 1..(next - 1) :
        LET places == Cardinality({k \in Pending(asm) : l \in asm.pending[k].lines})
                        + Cardinality({e \in output : l \in e.lines})
        IN places <= 1 /\ (Payload(input[l]) => places = 1)

\* A watermark completion has a witness: a later record of the same producer
\* whose event time is Timeout beyond the group's but no clock jump beyond what
\* the group itself had seen (observeAuditTime, expired).
WatermarkJustified ==
    \A e \in output : e.completion = "watermark" =>
        \E l \in 1..(next - 1) :
            /\ \E first \in e.lines : first < l
            /\ input[l].kind = "record"
            /\ input[l].key.node = e.key.node
            /\ AuditTimeOf[input[l].key.id] # None
            /\ LET age == AuditTimeOf[input[l].key.id] - AuditTimeOf[e.key.id]
               IN age >= Timeout /\ age < Timeout + ForwardWindow

\* Two groups of one ID, with and without a node, whose lines interleave may
\* be one event of one producer: both are marked, whichever came first and
\* however each of them ended (addAt's mixedNode).
MixedMarked ==
    \A e, f \in output :
        /\ ~(e.completion = "exception" \/ f.completion = "exception")
        /\ e.key # None /\ f.key # None /\ Twins(e.key, f.key)
        /\ \E l \in f.lines : (\E m \in e.lines : m < l) /\ (\E m \in e.lines : l < m)
        => e.mixed /\ f.mixed

\* The position a checkpoint may be written at never moves back, which main.go
\* persist treats as fatal ("checkpoint position regressed").
SafeNeverRegresses ==
    [][SafeSourcePosition(asm, next) <= SafeSourcePosition(asm', next')]_vars

\* "Only genuinely untracked, unresolved input extends this fence" (isolation.go
\* AddRecovering): a line that renews it names no key, and takes every group out,
\* or names one whose evidence it loses in that very step and for which there is
\* no room in the table, neither pending nor tracked nor ended by the line.  With
\* a full table any key may be such a key, and does renew the fence ("additional
\* unseen keys conservatively extend a global ambiguity fence", reliability.md).
Untracked(a, k) == k \notin Pending(a) \cup Rejected(a) /\ ~Trackable(a, k)
RenewsFence(line, a, refusals) ==
    \/ line.kind = "uncorrelated" /\ \A k \in Key : refusals[k] = now
    \/ /\ line.kind = "oversize" \/ (line.kind = "record" /\ ~ClosesRejection(line.type))
       /\ Untracked(a, line.key)
       /\ refusals[line.key] = now
FenceRenewal ==
    [][asm'.spillSince \notin {None, asm.spillSince}
          => RenewsFence(input'[next], asm', broken')]_vars

=============================================================================
