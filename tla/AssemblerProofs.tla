-------------------------- MODULE AssemblerProofs --------------------------
(***************************************************************************)
(* What Assembler guarantees of its types and of its bounded memory, for   *)
(* every value of its constants.  The two tables stay within the limits    *)
(* and their byte counters are exact; and although the rejected table is   *)
(* bounded, it and the fence together remember every key whose evidence    *)
(* was refused less than Timeout ago, so the rest of its records open no   *)
(* group.                                                                  *)
(*                                                                         *)
(* One lemma per operator on the assembler's state says what the operator  *)
(* changes; the invariant proofs, here and in PlacementProofs, are built   *)
(* from those: one lemma per operator shows what it preserves, and the     *)
(* theorem composes them action by action.                                 *)
(*                                                                         *)
(* The limits: LimitsHold with the tables finite is inductive (Limited).   *)
(* A byte counter is compared with MapThenSumSet, a recursion over a set;  *)
(* here the sum is the cardinality of a set with one unit per byte, which  *)
(* adds up over disjoint sets of keys by the theorems on cardinality.      *)
(*                                                                         *)
(* The memory: NoTaintedGroup alone is not inductive, for a key absent     *)
(* from the pending groups could be admitted by the next record.           *)
(* Remembered adds where the key is kept meanwhile.                        *)
(***************************************************************************)
EXTENDS Assembler, FiniteSetTheorems, WellFoundedInduction, TLAPS

USE DEF Pending, Rejected, Fenced

-----------------------------------------------------------------------------
(* The operators, one by one.                                              *)

LEMMA EmptyType == AsmTypeOK(EmptyAssembler)
  BY NoneAssumption DEF AsmTypeOK, EmptyAssembler

LEMMA FinishLemma ==
    ASSUME NEW a, AsmTypeOK(a), NEW keys
    PROVE  LET b == Finish(a, keys) IN
           /\ AsmTypeOK(b)
           /\ Pending(b) = Pending(a) \ keys
           /\ \A k \in Pending(b) : b.pending[k] = a.pending[k]
           /\ b.rejected = a.rejected
           /\ b.spillSince = a.spillSince
           /\ b.spillSource = a.spillSource
  BY DEF AsmTypeOK, Finish, Restrict, EmptyAssembler

LEMMA ExpireRejectedLemma ==
    ASSUME NEW a, AsmTypeOK(a), NEW t \in Nat
    PROVE  LET b == ExpireRejected(a, t) IN
           /\ AsmTypeOK(b)
           /\ b.pending = a.pending
           /\ Rejected(b) = {k \in Rejected(a) : ~(t >= a.rejected[k].lastSeen + Timeout)}
           /\ \A k \in Rejected(b) : b.rejected[k] = a.rejected[k]
           /\ Fenced(b) <=> Fenced(a) /\ ~(t >= a.spillSince + Timeout)
           /\ Fenced(b) => /\ b.spillSince = a.spillSince
                           /\ b.spillSource = a.spillSource
  BY NoneAssumption, TimeAssumption DEF AsmTypeOK, ExpireRejected, Restrict, EmptyAssembler

LEMMA TrackLemma ==
    ASSUME NEW a, AsmTypeOK(a), NEW k \in Key, NEW source \in Nat, NEW t \in Nat
    PROVE  LET b == Track(a, k, source, t) IN
           /\ AsmTypeOK(b)
           /\ b.pending = a.pending
           /\ Rejected(b) = Rejected(a) \cup {k}
           /\ b.rejected[k].source = source
           /\ b.rejected[k].lastSeen = t
           /\ \A q \in Rejected(a) : q # k => b.rejected[q] = a.rejected[q]
           /\ b.spillSince = a.spillSince
           /\ b.spillSource = a.spillSource
  BY DEF AsmTypeOK, Track, With, Rejection, EmptyAssembler

LEMMA StartSpillLemma ==
    ASSUME NEW a, AsmTypeOK(a), NEW source \in Nat, NEW t \in Nat
    PROVE  LET b == StartSpill(a, source, t) IN
           /\ AsmTypeOK(b)
           /\ b.pending = a.pending
           /\ b.rejected = a.rejected
           /\ Fenced(b)
           /\ b.spillSince = t
           /\ b.spillSource = source \/ b.spillSource = a.spillSource
           /\ b.spillSource # None
  BY NoneAssumption DEF AsmTypeOK, StartSpill, EmptyAssembler

LEMMA TouchLemma ==
    ASSUME NEW a, AsmTypeOK(a), NEW k \in Rejected(a), NEW t \in Nat
    PROVE  LET b == Touch(a, k, t) IN
           /\ AsmTypeOK(b)
           /\ b.pending = a.pending
           /\ Rejected(b) = Rejected(a)
           /\ b.rejected[k].lastSeen = t
           /\ \A q \in Rejected(a) : b.rejected[q].source = a.rejected[q].source
           /\ \A q \in Rejected(a) : q # k => b.rejected[q] = a.rejected[q]
           /\ b.spillSince = a.spillSince
           /\ b.spillSource = a.spillSource
  BY DEF AsmTypeOK, Touch, Rejection, EmptyAssembler

LEMMA ForgetLemma ==
    ASSUME NEW a, AsmTypeOK(a), NEW k
    PROVE  LET b == Forget(a, k) IN
           /\ AsmTypeOK(b)
           /\ b.pending = a.pending
           /\ Rejected(b) = Rejected(a) \ {k}
           /\ \A q \in Rejected(b) : b.rejected[q] = a.rejected[q]
           /\ b.spillSince = a.spillSince
           /\ b.spillSource = a.spillSource
  BY DEF AsmTypeOK, Forget, Restrict, EmptyAssembler

LEMMA FlushAllLemma ==
    ASSUME NEW a, AsmTypeOK(a)
    PROVE  LET b == FlushAll(a) IN
           AsmTypeOK(b) /\ Pending(b) = {} /\ Rejected(b) = {} /\ ~Fenced(b)
  <1> DEFINE f == Finish(a, Pending(a))
  <1>1. AsmTypeOK(f) /\ Pending(f) = {}
    BY FinishLemma
  <1>2. FlushAll(a) = [f EXCEPT !.rejected = << >>, !.rejectionBytes = 0,
                                !.spillSince = None, !.spillSource = None]
    BY DEF FlushAll
  <1>3. DOMAIN << >> = {} /\ << >> \in [{} -> Rejection]
    OBVIOUS
  <1>. HIDE DEF f
  <1>. QED
    BY <1>1, <1>2, <1>3, NoneAssumption DEF AsmTypeOK, EmptyAssembler

\* Two assemblers whose groups differ at most in event time and mark.
SameGroups(a, b) ==
    /\ Pending(b) = Pending(a)
    /\ \A k \in Pending(a) : /\ b.pending[k].lines = a.pending[k].lines
                              /\ b.pending[k].first = a.pending[k].first

SameIsolation(a, b) ==
    /\ b.rejected = a.rejected
    /\ b.spillSince = a.spillSince
    /\ b.spillSource = a.spillSource

LEMMA GroupMixed ==
    ASSUME NEW g \in Group, NEW mark
    PROVE  LET h == [g EXCEPT !.mixed = @ \/ mark] IN
           h \in Group /\ h.lines = g.lines /\ h.first = g.first
  BY DEF Group

LEMMA GroupTimeless ==
    ASSUME NEW g \in Group
    PROVE  LET h == [g EXCEPT !.auditTime = None] IN
           h \in Group /\ h.lines = g.lines /\ h.first = g.first
  BY DEF Group

LEMMA ExtendedType ==
    ASSUME NEW g \in Group, NEW n \in Nat, NEW bytes \in Nat, NEW t \in Nat
    PROVE  Extended(g, n, bytes, t) \in Group
  <1>1. ASSUME NEW ls \in SUBSET Nat, NEW m \in Nat
        PROVE  [g EXCEPT !.lines = ls, !.bytes = m, !.lastSeen = t] \in Group
    BY DEF Group
  <1>2. g.lines \cup {n} \in SUBSET Nat /\ g.bytes + bytes \in Nat
    BY DEF Group
  <1>. QED
    BY <1>1, <1>2 DEF Extended

LEMMA ExtendedFields ==
    ASSUME NEW g \in Group, NEW n, NEW bytes, NEW t
    PROVE  /\ Extended(g, n, bytes, t).lines = g.lines \cup {n}
           /\ Extended(g, n, bytes, t).first = g.first
  BY DEF Extended, Group

LEMMA MarkMixedLemma ==
    ASSUME NEW a, AsmTypeOK(a), NEW k
    PROVE  LET b == MarkMixed(a, k) IN
           AsmTypeOK(b) /\ SameGroups(a, b) /\ SameIsolation(a, b)
  <1> DEFINE groups == [q \in Pending(a) |->
                         [a.pending[q] EXCEPT !.mixed = @ \/ Twins(q, k)]]
  <1>1. ASSUME NEW q \in Pending(a)
        PROVE  /\ groups[q] \in Group
               /\ groups[q].lines = a.pending[q].lines
               /\ groups[q].first = a.pending[q].first
    <2>1. a.pending[q] \in Group
      BY DEF AsmTypeOK
    <2>. QED
      BY <2>1, GroupMixed
  <1>2. groups = [q \in Pending(a) |-> groups[q]]
    OBVIOUS
  <1>3. MarkMixed(a, k) = [a EXCEPT !.pending = groups]
    BY DEF MarkMixed
  <1>. HIDE DEF groups
  <1>. QED
    BY <1>1, <1>2, <1>3 DEF AsmTypeOK, SameGroups, SameIsolation, EmptyAssembler

LEMMA ObserveAuditTimeLemma ==
    ASSUME NEW a, AsmTypeOK(a), NEW k \in Key, AuditTimeOf[k.id] # None
    PROVE  LET b == ObserveAuditTime(a, k) IN
           AsmTypeOK(b) /\ SameGroups(a, b) /\ SameIsolation(a, b)
  <1> DEFINE groups == [q \in Pending(a) |->
                         IF NewEpoch(a, k) THEN [a.pending[q] EXCEPT !.auditTime = None]
                                           ELSE a.pending[q]]
             time == AuditTimeOf[k.id]
             latest == IF \/ NewEpoch(a, k)
                          \/ a.latestAuditTime = None
                          \/ time > a.latestAuditTime
                       THEN time ELSE a.latestAuditTime
  <1>1. ASSUME NEW q \in Pending(a)
        PROVE  /\ groups[q] \in Group
               /\ groups[q].lines = a.pending[q].lines
               /\ groups[q].first = a.pending[q].first
    <2>1. a.pending[q] \in Group
      BY DEF AsmTypeOK
    <2>2. CASE NewEpoch(a, k)
      BY <2>1, <2>2, GroupTimeless
    <2>3. CASE ~NewEpoch(a, k)
      BY <2>1, <2>3
    <2>. QED
      BY <2>2, <2>3
  <1>2. groups = [q \in Pending(a) |-> groups[q]]
    OBVIOUS
  <1>3. time \in Nat \cup {None} /\ latest \in Nat \cup {None}
    BY TimeAssumption DEF Key, AsmTypeOK
  <1>4. ObserveAuditTime(a, k) = [a EXCEPT !.pending = groups,
                                           !.latestAuditNode = k.node,
                                           !.latestAuditTime = latest]
    BY DEF ObserveAuditTime
  <1>5. k.node \in Node \cup {None}
    BY DEF Key
  <1>. HIDE DEF groups, time, latest
  <1>. QED
    BY <1>1, <1>2, <1>3, <1>4, <1>5
    DEF AsmTypeOK, SameGroups, SameIsolation, EmptyAssembler

LEMMA OpenLemma ==
    ASSUME NEW a, AsmTypeOK(a), NEW k \in Key, k \notin Pending(a),
           NEW n \in Nat, NEW t \in Nat
    PROVE  LET b == Open(a, k, n, t) IN
           /\ AsmTypeOK(b)
           /\ Pending(b) = Pending(a) \cup {k}
           /\ b.pending[k].lines = {} /\ b.pending[k].first = n
           /\ \A q \in Pending(a) : /\ b.pending[q].lines = a.pending[q].lines
                                     /\ b.pending[q].first = a.pending[q].first
           /\ SameIsolation(a, b)
  <1> DEFINE group == [lines |-> {}, first |-> n, bytes |-> 0, lastSeen |-> t,
                       auditTime |-> AuditTimeOf[k.id],
                       mixed |-> \E q \in Pending(a) : Twins(q, k)]
             observed == IF AuditTimeOf[k.id] = None THEN a ELSE ObserveAuditTime(a, k)
  <1>1. AsmTypeOK(observed) /\ SameGroups(a, observed) /\ SameIsolation(a, observed)
    BY ObserveAuditTimeLemma DEF SameGroups, SameIsolation
  <1>2. group \in Group
    <2>1. AuditTimeOf[k.id] \in Nat \cup {None}
      BY TimeAssumption DEF Key
    <2>. QED
      BY <2>1 DEF Group
  <1>3. group.lines = {} /\ group.first = n
    OBVIOUS
  <1>4. Open(a, k, n, t) = [observed EXCEPT !.pending = With(@, k, group)]
    BY DEF Open
  <1>. HIDE DEF group, observed
  <1>. QED
    BY <1>1, <1>2, <1>3, <1>4
    DEF AsmTypeOK, With, SameGroups, SameIsolation, EmptyAssembler

LEMMA StoreLemma ==
    ASSUME NEW a, AsmTypeOK(a), NEW k \in Pending(a),
           NEW n \in Nat, NEW bytes \in Nat, NEW t \in Nat
    PROVE  LET b == Store(a, k, n, bytes, t) IN
           /\ AsmTypeOK(b)
           /\ Pending(b) = Pending(a)
           /\ b.pending[k].lines = a.pending[k].lines \cup {n}
           /\ b.pending[k].first = a.pending[k].first
           /\ \A q \in Pending(a) : q # k => b.pending[q] = a.pending[q]
           /\ SameIsolation(a, b)
  <1>. PICK g : g = a.pending[k]
    OBVIOUS
  <1>. DEFINE h == Extended(g, n, bytes, t)
             groups == [a.pending EXCEPT ![k] = h]
  <1>1. g \in Group
    BY DEF AsmTypeOK
  <1>2. h \in Group
    BY <1>1, ExtendedType
  <1>3. h.lines = g.lines \cup {n} /\ h.first = g.first
    BY <1>1, ExtendedFields
  <1>4. Store(a, k, n, bytes, t) =
          [a EXCEPT !.pending = groups, !.pendingBytes = @ + bytes]
    BY DEF Store
  <1>. HIDE DEF h
  <1>5. /\ groups \in [Pending(a) -> Group]
        /\ groups[k] = h
        /\ \A q \in Pending(a) : q # k => groups[q] = a.pending[q]
    BY <1>2 DEF AsmTypeOK
  <1>. HIDE DEF groups
  <1>. QED
    BY <1>2, <1>3, <1>4, <1>5 DEF AsmTypeOK, SameIsolation, EmptyAssembler

LEMMA IsolateLemma ==
    ASSUME NEW a, AsmTypeOK(a), NEW k \in Key, NEW source \in Nat, NEW t \in Nat
    PROVE  /\ AsmTypeOK(Isolate(a, k, source, t))
           /\ Isolate(a, k, source, t).pending = a.pending
  <1>1. Isolate(a, k, source, t) \in {Track(a, k, source, t), StartSpill(a, source, t)}
    BY DEF Isolate
  <1>2. /\ AsmTypeOK(Track(a, k, source, t))
        /\ Track(a, k, source, t).pending = a.pending
    BY TrackLemma
  <1>3. /\ AsmTypeOK(StartSpill(a, source, t))
        /\ StartSpill(a, source, t).pending = a.pending
    BY StartSpillLemma
  <1>. QED
    BY <1>1, <1>2, <1>3

LEMMA ServicedLemma ==
    ASSUME NEW a, AsmTypeOK(a), NEW t \in Nat
    PROVE  LET b == Serviced(a, t) IN
           /\ AsmTypeOK(b)
           /\ Pending(b) = Pending(a) \ Expired(a, t)
           /\ \A k \in Pending(b) : b.pending[k] = a.pending[k]
           /\ Rejected(b) = {k \in Rejected(a) : ~(t >= a.rejected[k].lastSeen + Timeout)}
           /\ \A k \in Rejected(b) : b.rejected[k] = a.rejected[k]
           /\ Fenced(b) <=> Fenced(a) /\ ~(t >= a.spillSince + Timeout)
           /\ Fenced(b) => /\ b.spillSince = a.spillSince
                           /\ b.spillSource = a.spillSource
  BY FinishLemma, ExpireRejectedLemma DEF Serviced

-----------------------------------------------------------------------------
(* Types: what every step hands over is well formed.                       *)

LEMMA RecordLineType ==
    ASSUME NEW line \in Lines, line.kind = "record"
    PROVE  line.key \in Key /\ line.type \in RecordType /\ line.bytes \in Nat
  BY LinesAssumption DEF PhysicalLine

LEMMA OversizeLineType ==
    ASSUME NEW line \in Lines, line.kind = "oversize"
    PROVE  line.key \in Key
  BY LinesAssumption DEF PhysicalLine

LEMMA GroupEventType ==
    ASSUME NEW a, AsmTypeOK(a), NEW k \in Pending(a), NEW c \in Completion
    PROVE  GroupEvent(a, k, c) \in Event
  BY DEF AsmTypeOK, GroupEvent, Event, Group

LEMMA ExceptionsType ==
    ASSUME NEW k \in Key, NEW ls \in SUBSET Nat
    PROVE  Exceptions(k, ls) \subseteq Event
  <1>. SUFFICES ASSUME NEW l \in ls
                PROVE  [key |-> k, lines |-> {l},
                        completion |-> "exception", mixed |-> FALSE] \in Event
    BY DEF Exceptions
  <1>1. {l} \in SUBSET Nat
    OBVIOUS
  <1>. QED
    BY <1>1 DEF Event, Completion

LEMMA LineEventType ==
    ASSUME TypeOK, NEW k \in Key \cup {None}, NEW c \in Completion
    PROVE  LineEvent(k, c) \in Event
  BY DEF LineEvent, Event, TypeOK

LEMMA ExpiredEventsType ==
    ASSUME NEW a, AsmTypeOK(a), NEW t
    PROVE  ExpiredEvents(a, t) \subseteq Event
  <1>. SUFFICES ASSUME NEW k \in Expired(a, t)
                PROVE  GroupEvent(a, k, IF PastWatermark(a, k) THEN "watermark"
                                                              ELSE "timeout") \in Event
    BY DEF ExpiredEvents
  <1>. DEFINE c == IF PastWatermark(a, k) THEN "watermark" ELSE "timeout"
  <1>1. k \in Pending(a)
    BY DEF Expired
  <1>2. c \in Completion
    BY DEF Completion
  <1>. HIDE DEF c
  <1>3. GroupEvent(a, k, c) \in Event
    BY <1>1, <1>2, GroupEventType
  <1>. QED
    BY <1>3 DEF c

LEMMA EmitType ==
    ASSUME TypeOK, NEW events, events \subseteq Event, Emit(events)
    PROVE  output' \subseteq Event
  BY ExpiredEventsType DEF TypeOK, Emit

LEMMA ReadType ==
    ASSUME TypeOK, NEW line \in Lines, Read(line)
    PROVE  now' = now /\ now' \in Nat /\ next' \in Nat \ {0} /\ input' \in Seq(Lines)
  BY DEF TypeOK, Read

LEMMA TaintType ==
    ASSUME TypeOK, NEW k \in Key,
           Taint(k) \/ Untaint(k) \/ broken' = broken \/ broken' = [q \in Key |-> now]
                    \/ broken' = [q \in Key |-> None]
    PROVE  broken' \in [Key -> Nat \cup {None}]
  BY DEF TypeOK, Taint, Untaint

LEMMA SType == ASSUME TypeOK PROVE AsmTypeOK(S)
  BY ServicedLemma DEF TypeOK, S

LEMMA InitType == Init => TypeOK
  <1>. SUFFICES ASSUME Init PROVE TypeOK
    OBVIOUS
  <1>1. << >> \in Seq(Lines)
    OBVIOUS
  <1>. QED
    BY <1>1, EmptyType DEF Init, TypeOK

\* A line handler keeps the types when its new assembler and events have them.
LEMMA HandlerType ==
    ASSUME TypeOK, NEW line \in Lines, Read(line),
           AsmTypeOK(asm'), NEW events, events \subseteq Event, Emit(events),
           broken' \in [Key -> Nat \cup {None}]
    PROVE  TypeOK'
  BY ReadType, EmitType DEF TypeOK

LEMMA DroppedType ==
    ASSUME NEW a, AsmTypeOK(a), NEW keys, NEW k \in Key, NEW source \in Nat, NEW t \in Nat
    PROVE  /\ AsmTypeOK(Finish(a, keys))
           /\ AsmTypeOK(Finish(MarkMixed(a, k), keys))
           /\ AsmTypeOK(Isolate(Finish(a, keys), k, source, t))
           /\ AsmTypeOK(Isolate(Finish(MarkMixed(a, k), keys), k, source, t))
  BY FinishLemma, MarkMixedLemma, IsolateLemma

\* The position an isolated key is charged with, and the lines it gives up.
LEMMA RetainedType ==
    ASSUME NEW a, AsmTypeOK(a), NEW k \in Key, NEW n \in Nat
    PROVE  /\ (IF k \in Pending(a) THEN a.pending[k].first ELSE n) \in Nat
           /\ (IF k \in Pending(a) THEN a.pending[k].lines ELSE {}) \in SUBSET Nat
  BY DEF AsmTypeOK, Group

LEMMA AddRejectedType ==
    ASSUME TypeOK, NEW line \in Lines, AddRejected(line)
    PROVE  TypeOK'
  <1>1. line.key \in Key /\ line.type \in RecordType
    BY RecordLineType DEF AddRejected, ReadRecord
  <1>2. AsmTypeOK(asm')
    <2>1. asm' \in {Forget(S, line.key), Touch(S, line.key, now)}
      BY DEF AddRejected
    <2>. QED
      BY <2>1, SType, ForgetLemma, TouchLemma DEF AddRejected, TypeOK
  <1>3. Exceptions(line.key, {next}) \subseteq Event
    BY <1>1, ExceptionsType DEF TypeOK
  <1>4. broken' \in [Key -> Nat \cup {None}]
    BY <1>1, TaintType DEF AddRejected, TaintUnless
  <1>. QED
    BY <1>2, <1>3, <1>4, HandlerType DEF AddRejected, ReadRecord

LEMMA CloseFullGroupType ==
    ASSUME TypeOK, NEW line \in Lines, CloseFullGroup(line)
    PROVE  TypeOK'
  <1>1. AsmTypeOK(asm')
    BY SType, FinishLemma DEF CloseFullGroup
  <1>2. {GroupEvent(S, line.key, "eoe")} \subseteq Event
    BY SType, GroupEventType DEF CloseFullGroup, Completion
  <1>3. broken' \in [Key -> Nat \cup {None}]
    BY DEF CloseFullGroup, TypeOK
  <1>. QED
    BY <1>1, <1>2, <1>3, HandlerType DEF CloseFullGroup, ReadRecord

LEMMA AddFencedType ==
    ASSUME TypeOK, NEW line \in Lines, AddFenced(line)
    PROVE  TypeOK'
  <1>1. line.key \in Key /\ line.type \in RecordType
    BY RecordLineType DEF AddFenced, ReadRecord
  <1>2. AsmTypeOK(asm')
    <2>1. asm' \in {S, Track(S, line.key, S.spillSource, now), StartSpill(S, next, now)}
      BY DEF AddFenced
    <2>2. S.spillSource \in Nat
      BY SType DEF AddFenced, AsmTypeOK
    <2>3. now \in Nat /\ next \in Nat
      BY DEF TypeOK
    <2>4. AsmTypeOK(S)
      BY SType
    <2>5. AsmTypeOK(Track(S, line.key, S.spillSource, now))
      BY <1>1, <2>2, <2>3, <2>4, TrackLemma
    <2>6. AsmTypeOK(StartSpill(S, next, now))
      BY <2>3, <2>4, StartSpillLemma
    <2>. QED
      BY <2>1, <2>4, <2>5, <2>6
  <1>3. Exceptions(line.key, {next}) \subseteq Event
    BY <1>1, ExceptionsType DEF TypeOK
  <1>4. broken' \in [Key -> Nat \cup {None}]
    BY <1>1, TaintType DEF AddFenced, TaintUnless
  <1>. QED
    BY <1>2, <1>3, <1>4, HandlerType DEF AddFenced, ReadRecord

LEMMA OrphanEOEType ==
    ASSUME TypeOK, NEW line \in Lines, OrphanEOE(line)
    PROVE  TypeOK'
  <1>1. AsmTypeOK(asm')
    BY SType, MarkMixedLemma DEF OrphanEOE
  <1>2. broken' \in [Key -> Nat \cup {None}]
    BY DEF OrphanEOE, TypeOK
  <1>. QED
    BY <1>1, <1>2, HandlerType DEF OrphanEOE, ReadRecord

LEMMA BoundaryType ==
    ASSUME NEW type, NEW existed, Boundary(type, existed) # None
    PROVE  Boundary(type, existed) \in Completion
  BY DEF Boundary, Completion

\* b is a with line n stored under k.
StoredAs(a, b, k, n) ==
    /\ \A q : q \in Pending(b) <=> q \in Pending(a) \/ q = k
    /\ SameIsolation(a, b)
    /\ \A q \in Pending(a) : b.pending[q].first = a.pending[q].first
    /\ \A q \in Pending(a) : q # k => b.pending[q].lines = a.pending[q].lines
    /\ k \in Pending(a) => b.pending[k].lines = a.pending[k].lines \cup {n}
    /\ k \notin Pending(a) => b.pending[k].lines = {n} /\ b.pending[k].first = n

\* The assembler an admitted record is stored in, before any group is closed.
LEMMA StoredLemma ==
    ASSUME NEW a, AsmTypeOK(a), NEW k \in Key, NEW n \in Nat,
           NEW bytes \in Nat, NEW t \in Nat
    PROVE  /\ AsmTypeOK(Stored(a, k, n, bytes, t))
           /\ StoredAs(a, Stored(a, k, n, bytes, t), k, n)
  <1> DEFINE marked == MarkMixed(a, k)
             opened == IF k \in Pending(a) THEN marked ELSE Open(marked, k, n, t)
             b == Store(opened, k, n, bytes, t)
  <1>1. AsmTypeOK(marked) /\ SameGroups(a, marked) /\ SameIsolation(a, marked)
    BY MarkMixedLemma
  <1>. HIDE DEF marked
  <1>2. CASE k \in Pending(a)
    <2>1. opened = marked
      BY <1>2
    <2>. HIDE DEF opened
    <2>2. /\ AsmTypeOK(opened) /\ k \in Pending(opened)
          /\ SameGroups(a, opened) /\ SameIsolation(a, opened)
      BY <1>1, <1>2, <2>1 DEF SameGroups
    <2>3. /\ AsmTypeOK(b)
          /\ Pending(b) = Pending(opened)
          /\ b.pending[k].lines = opened.pending[k].lines \cup {n}
          /\ b.pending[k].first = opened.pending[k].first
          /\ \A q \in Pending(opened) : q # k => b.pending[q] = opened.pending[q]
          /\ SameIsolation(opened, b)
      BY <2>2, StoreLemma
    <2>. HIDE DEF b
    <2>4. \A q : q \in Pending(b) <=> q \in Pending(a) \/ q = k
      BY <1>2, <2>2, <2>3 DEF SameGroups
    <2>5. AsmTypeOK(b) /\ StoredAs(a, b, k, n)
      BY <1>2, <2>2, <2>3, <2>4 DEF SameGroups, SameIsolation, StoredAs
    <2>6. b = Stored(a, k, n, bytes, t)
      BY <1>2 DEF b, opened, marked, Stored
    <2>. QED
      BY <2>5, <2>6
  <1>3. CASE k \notin Pending(a)
    <2>1. opened = Open(marked, k, n, t)
      BY <1>3
    <2>2. k \notin Pending(marked)
      BY <1>1, <1>3 DEF SameGroups
    <2>. HIDE DEF opened
    <2>3. /\ AsmTypeOK(opened)
          /\ Pending(opened) = Pending(marked) \cup {k}
          /\ opened.pending[k].lines = {} /\ opened.pending[k].first = n
          /\ \A q \in Pending(marked) :
                /\ opened.pending[q].lines = marked.pending[q].lines
                /\ opened.pending[q].first = marked.pending[q].first
          /\ SameIsolation(marked, opened)
      BY <1>1, <2>1, <2>2, OpenLemma
    <2>4. /\ AsmTypeOK(b)
          /\ Pending(b) = Pending(opened)
          /\ b.pending[k].lines = opened.pending[k].lines \cup {n}
          /\ b.pending[k].first = opened.pending[k].first
          /\ \A q \in Pending(opened) : q # k => b.pending[q] = opened.pending[q]
          /\ SameIsolation(opened, b)
      BY <2>3, StoreLemma
    <2>. HIDE DEF b
    <2>5. /\ \A q : q \in Pending(b) <=> q \in Pending(a) \/ q = k
          /\ SameIsolation(a, b)
      BY <1>1, <1>3, <2>3, <2>4 DEF SameGroups, SameIsolation
    <2>6. /\ \A q \in Pending(a) : q # k =>
                /\ b.pending[q].first = a.pending[q].first
                /\ b.pending[q].lines = a.pending[q].lines
          /\ b.pending[k].lines = {n} /\ b.pending[k].first = n
      BY <1>1, <1>3, <2>3, <2>4 DEF SameGroups
    <2>7. AsmTypeOK(b) /\ StoredAs(a, b, k, n)
      BY <1>3, <2>4, <2>5, <2>6 DEF StoredAs
    <2>8. b = Stored(a, k, n, bytes, t)
      BY <1>3 DEF b, opened, marked, Stored
    <2>. QED
      BY <2>7, <2>8
  <1>. QED
    BY <1>2, <1>3

LEMMA AdmitType ==
    ASSUME TypeOK, NEW line \in Lines, Admit(line)
    PROVE  TypeOK'
  <1> DEFINE k == line.key
             stored == Stored(S, k, next, line.bytes, now)
             boundary == Boundary(line.type, k \in Pending(S))
             closed == IF boundary = None THEN {} ELSE {k}
             settled == Finish(stored, closed)
             events == {GroupEvent(stored, q, boundary) : q \in closed}
                          \cup ExpiredEvents(settled, now)
  <1>1. /\ Read(line)
        /\ asm' = Finish(settled, Expired(settled, now))
        /\ Emit(events)
        /\ UNCHANGED broken
    BY DEF Admit, ReadRecord
  <1>2. k \in Key /\ line.bytes \in Nat /\ next \in Nat /\ now \in Nat
    BY RecordLineType DEF Admit, ReadRecord, TypeOK
  <1>3. AsmTypeOK(stored) /\ k \in Pending(stored)
    <2>1. AsmTypeOK(S)
      BY SType
    <2>. HIDE DEF k
    <2>2. AsmTypeOK(stored)
      BY <1>2, <2>1, StoredLemma, Zenon
    <2>3. k \in Pending(stored)
      BY <1>2, <2>1, StoredLemma DEF StoredAs
    <2>. QED
      BY <2>2, <2>3
  <1>. HIDE DEF stored
  <1>4. AsmTypeOK(settled)
    BY <1>3, FinishLemma
  <1>. HIDE DEF settled
  <1>5. AsmTypeOK(Finish(settled, Expired(settled, now)))
    BY <1>4, FinishLemma
  <1>6. events \subseteq Event
    <2>1. ASSUME NEW q \in closed
          PROVE  GroupEvent(stored, q, boundary) \in Event
      <3>1. q = k /\ boundary # None
        OBVIOUS
      <3>2. boundary \in Completion
        BY <3>1, BoundaryType
      <3>. HIDE DEF boundary, k
      <3>. QED
        BY <1>3, <3>1, <3>2, GroupEventType
    <2>2. ExpiredEvents(settled, now) \subseteq Event
      BY <1>4, ExpiredEventsType
    <2>. HIDE DEF closed, boundary
    <2>. QED
      BY <2>1, <2>2
  <1>. HIDE DEF events
  <1>7. broken' \in [Key -> Nat \cup {None}]
    BY <1>1 DEF TypeOK
  <1>8. AsmTypeOK(asm')
    BY <1>1, <1>5
  <1>. QED
    BY <1>1, <1>6, <1>7, <1>8, HandlerType

LEMMA RefuseType ==
    ASSUME TypeOK, NEW line \in Lines, Refuse(line)
    PROVE  TypeOK'
  <1> DEFINE k == line.key
             retained == IF k \in Pending(S) THEN S.pending[k].lines ELSE {}
             source == IF k \in Pending(S) THEN S.pending[k].first ELSE next
             dropped == Finish(MarkMixed(S, k), {k} \cap Pending(S))
  <1>1. /\ Read(line)
        /\ asm' \in {dropped, Isolate(dropped, k, source, now)}
        /\ Emit(Exceptions(k, retained \cup {next}))
        /\ Taint(k) \/ Untaint(k)
    BY DEF Refuse, ReadRecord, TaintUnless
  <1>2. k \in Key /\ next \in Nat /\ now \in Nat
    BY RecordLineType DEF Refuse, ReadRecord, TypeOK
  <1>3. source \in Nat /\ retained \cup {next} \in SUBSET Nat
    BY <1>2, SType, RetainedType
  <1>. HIDE DEF source, retained, k
  <1>4. AsmTypeOK(asm')
    BY <1>1, <1>2, <1>3, SType, DroppedType
  <1>5. Exceptions(k, retained \cup {next}) \subseteq Event
    BY <1>2, <1>3, ExceptionsType
  <1>6. broken' \in [Key -> Nat \cup {None}]
    BY <1>1, <1>2, TaintType
  <1>. QED
    BY <1>1, <1>4, <1>5, <1>6, HandlerType

LEMMA ParseFailureType ==
    ASSUME TypeOK, NEW line \in Lines, ParseFailure(line)
    PROVE  TypeOK'
  <1>1. AsmTypeOK(asm')
    BY SType DEF ParseFailure
  <1>2. {LineEvent(None, "malformed")} \subseteq Event
    BY LineEventType DEF Completion
  <1>3. broken' \in [Key -> Nat \cup {None}]
    BY DEF ParseFailure, TypeOK
  <1>. QED
    BY <1>1, <1>2, <1>3, HandlerType DEF ParseFailure

LEMMA RejectKnownLineType ==
    ASSUME TypeOK, NEW line \in Lines, RejectKnownLine(line)
    PROVE  TypeOK'
  <1> DEFINE k == line.key
             retained == IF k \in Pending(S) THEN S.pending[k].lines ELSE {}
             source == IF k \in Pending(S) THEN S.pending[k].first ELSE next
             dropped == Finish(S, {k} \cap Pending(S))
  <1>1. /\ Read(line)
        /\ asm' = IF k \in Rejected(S) THEN Touch(dropped, k, now)
                  ELSE Isolate(dropped, k, source, now)
        /\ Emit(Exceptions(k, retained) \cup {LineEvent(k, "exception")})
        /\ Taint(k)
    BY DEF RejectKnownLine
  <1>2. k \in Key /\ next \in Nat /\ now \in Nat
    BY OversizeLineType DEF RejectKnownLine, TypeOK
  <1>3. source \in Nat /\ retained \in SUBSET Nat
    BY <1>2, SType, RetainedType
  <1>4. AsmTypeOK(dropped) /\ Rejected(dropped) = Rejected(S)
    BY SType, FinishLemma
  <1>. HIDE DEF source, retained, k, dropped
  <1>5. AsmTypeOK(asm')
    <2>1. CASE k \in Rejected(S)
      BY <1>1, <1>2, <1>4, <2>1, TouchLemma
    <2>2. CASE k \notin Rejected(S)
      BY <1>1, <1>2, <1>3, <1>4, <2>2, IsolateLemma
    <2>. QED
      BY <2>1, <2>2
  <1>6. Exceptions(k, retained) \cup {LineEvent(k, "exception")} \subseteq Event
    BY <1>2, <1>3, ExceptionsType, LineEventType DEF Completion
  <1>7. broken' \in [Key -> Nat \cup {None}]
    BY <1>1, <1>2, TaintType
  <1>. QED
    BY <1>1, <1>5, <1>6, <1>7, HandlerType

LEMMA RejectUnknownLineType ==
    ASSUME TypeOK, NEW line \in Lines, RejectUnknownLine(line)
    PROVE  TypeOK'
  <1> DEFINE events == (UNION {Exceptions(k, S.pending[k].lines) : k \in Pending(S)})
                          \cup {LineEvent(None, "exception")}
  <1>1. AsmTypeOK(FlushAll(S)) /\ next \in Nat /\ now \in Nat
    BY SType, FlushAllLemma DEF TypeOK
  <1>2. AsmTypeOK(asm')
    BY <1>1, StartSpillLemma DEF RejectUnknownLine
  <1>3. ASSUME NEW e \in events PROVE e \in Event
    <2>1. ASSUME NEW k \in Pending(S)
          PROVE  Exceptions(k, S.pending[k].lines) \subseteq Event
      <3>1. k \in Key /\ S.pending[k].lines \in SUBSET Nat
        BY SType DEF AsmTypeOK, Group
      <3>. QED
        BY <3>1, ExceptionsType
    <2>2. LineEvent(None, "exception") \in Event
      BY LineEventType DEF Completion
    <2>3. \/ e = LineEvent(None, "exception")
          \/ \E k \in Pending(S) : e \in Exceptions(k, S.pending[k].lines)
      OBVIOUS
    <2>. QED
      BY <2>1, <2>2, <2>3
  <1>. HIDE DEF events
  <1>4. broken' \in [Key -> Nat \cup {None}]
    BY <1>1 DEF RejectUnknownLine
  <1>5. Read(line) /\ Emit(events)
    BY DEF RejectUnknownLine, events
  <1>. QED
    BY <1>2, <1>3, <1>4, <1>5, HandlerType

LEMMA IdleType == ASSUME TypeOK, Idle PROVE TypeOK'
  <1>1. AsmTypeOK(asm')
    BY SType DEF Idle
  <1>2. output' \subseteq Event
    BY EmitType DEF Idle
  <1>. QED
    BY <1>1, <1>2 DEF Idle, TypeOK

LEMMA FlushAllWithType ==
    ASSUME TypeOK, NEW c \in Completion, FlushAllWith(c)
    PROVE  TypeOK'
  <1>1. AsmTypeOK(asm')
    BY FlushAllLemma DEF FlushAllWith, TypeOK
  <1>2. output' \subseteq Event
    <2>1. ASSUME NEW k \in Pending(asm) PROVE GroupEvent(asm, k, c) \in Event
      BY GroupEventType DEF TypeOK
    <2>. QED
      BY <2>1 DEF FlushAllWith, TypeOK
  <1>. QED
    BY <1>1, <1>2 DEF FlushAllWith, TypeOK

LEMMA NextType == ASSUME TypeOK, [Next]_vars PROVE TypeOK'
  <1>1. ASSUME NEW line \in Lines, HandleLine(line) PROVE TypeOK'
    BY <1>1, AddRejectedType, CloseFullGroupType, AddFencedType, OrphanEOEType,
       AdmitType, RefuseType, ParseFailureType, RejectKnownLineType,
       RejectUnknownLineType DEF HandleLine
  <1>2. CASE Idle
    BY <1>2, IdleType
  <1>3. CASE FlushAllWith("source_gap")
    BY <1>3, FlushAllWithType DEF Completion
  <1>4. CASE Tick
    BY <1>4 DEF Tick, TypeOK
  <1>5. CASE UNCHANGED vars
    BY <1>5 DEF vars, TypeOK
  <1>. QED
    BY <1>1, <1>2, <1>3, <1>4, <1>5 DEF Next

\* The assembler's tables, clock and outgoing events keep their types, whatever
\* lines arrive and whatever the limits (assembler.go, isolation.go): in
\* particular the fence is up exactly when it holds a source position.
THEOREM TypeCorrect == Spec => []TypeOK
  BY InitType, NextType, PTL DEF Spec

-----------------------------------------------------------------------------
(* Sums.  The sum of sizes over a finite set is the number of units of it. *)

Units(size, keys) == {u \in keys \X Nat : u[2] \in 1..size[u[1]]}
Weight(size, keys) == Cardinality(Units(size, keys))

Sized(size, keys) == IsFiniteSet(keys) /\ \A k \in keys : size[k] \in Nat

LEMMA LeastSubset ==
    ASSUME NEW K, IsFiniteSet(K), NEW B \in SUBSET (SUBSET K), B # {}
    PROVE  \E s \in B : \A x \in s : s \ {x} \notin B
  <1> DEFINE R == StrictSubsetOrdering(K)
  <1>1. IsWellFoundedOn(R, FiniteSubsetsOf(K))
    BY FS_StrictSubsetOrderingWellFounded
  <1>2. B \subseteq FiniteSubsetsOf(K)
    BY FS_Subset DEF FiniteSubsetsOf
  <1>3. \A s, t \in SUBSET K : s \subseteq t /\ s # t => <<s, t>> \in R
    BY DEF StrictSubsetOrdering
  <1>. HIDE DEF R
  <1>4. PICK s \in B : \A t \in B : ~ (<<t, s>> \in R)
    BY <1>1, <1>2, WFMin
  <1>5. ASSUME NEW x \in s PROVE s \ {x} \notin B
    <2>1. s \in SUBSET K /\ s \ {x} \in SUBSET K /\ s \ {x} \subseteq s /\ s \ {x} # s
      OBVIOUS
    <2>. QED
      BY <1>3, <1>4, <2>1, Zenon
  <1>. QED
    BY <1>5

LEMMA UnitsOfOne ==
    ASSUME NEW size, NEW k, size[k] \in Nat
    PROVE  IsFiniteSet(Units(size, {k})) /\ Weight(size, {k}) = size[k]
  <1> DEFINE n == size[k]
             U == Units(size, {k})
             f == [i \in 1..n |-> <<k, i>>]
  <1>1. U = {<<k, i>> : i \in 1..n}
    BY DEF Units
  <1>2. f \in Bijection(1..n, U)
    <2>1. f \in [1..n -> U]
      BY <1>1
    <2>2. \A i, j \in 1..n : f[i] = f[j] => i = j
      OBVIOUS
    <2>3. \A u \in U : \E i \in 1..n : f[i] = u
      BY <1>1
    <2>. HIDE DEF f, U, n
    <2>4. f \in Injection(1..n, U)
      BY <2>1, <2>2 DEF Injection, IsInjective
    <2>5. f \in Surjection(1..n, U)
      BY <2>1, <2>3 DEF Surjection
    <2>. QED
      BY <2>4, <2>5 DEF Bijection
  <1>3. ExistsBijection(1..n, U)
    BY <1>2 DEF ExistsBijection
  <1>. HIDE DEF U, f, n
  <1>4. n \in Nat
    BY DEF n
  <1>5. IsFiniteSet(1..n) /\ Cardinality(1..n) = n
    BY <1>4, FS_Interval
  <1>6. IsFiniteSet(U) /\ Cardinality(U) = n
    BY <1>3, <1>5, FS_Bijection
  <1>. QED
    BY <1>6 DEF U, n, Weight

LEMMA UnitsFinite ==
    ASSUME NEW size, NEW keys, Sized(size, keys)
    PROVE  IsFiniteSet(Units(size, keys)) /\ Weight(size, keys) \in Nat
  <1> DEFINE B == {s \in SUBSET keys : ~IsFiniteSet(Units(size, s))}
  <1>1. B = {}
    <2>1. SUFFICES ASSUME B # {} PROVE FALSE
      OBVIOUS
    <2>2. PICK s \in B : \A x \in s : s \ {x} \notin B
      BY <2>1, LeastSubset DEF Sized
    <2>3. s # {}
      <3>1. Units(size, {}) = {}
        BY DEF Units
      <3>. QED
        BY <3>1, FS_EmptySet
    <2>4. PICK x \in s : TRUE
      BY <2>3
    <2>5. IsFiniteSet(Units(size, s \ {x}))
      BY <2>2
    <2>6. IsFiniteSet(Units(size, {x}))
      BY UnitsOfOne DEF Sized
    <2>7. Units(size, s) = Units(size, s \ {x}) \cup Units(size, {x})
      BY DEF Units
    <2>. QED
      BY <2>5, <2>6, <2>7, FS_Union
  <1>. QED
    BY <1>1, FS_CardinalityType DEF Weight

LEMMA WeightAdds ==
    ASSUME NEW size, NEW keys, Sized(size, keys), NEW T \in SUBSET keys
    PROVE  /\ Weight(size, T) \in Nat /\ Weight(size, keys \ T) \in Nat
           /\ Weight(size, keys) = Weight(size, T) + Weight(size, keys \ T)
  <1>1. Sized(size, T) /\ Sized(size, keys \ T)
    BY FS_Subset DEF Sized
  <1> DEFINE A == Units(size, T)
             B == Units(size, keys \ T)
  <1>2. /\ IsFiniteSet(A) /\ Weight(size, T) \in Nat
        /\ IsFiniteSet(B) /\ Weight(size, keys \ T) \in Nat
    BY <1>1, UnitsFinite
  <1>3. Units(size, keys) = A \cup B /\ A \cap B = {}
    BY DEF Units
  <1>. HIDE DEF A, B
  <1>4. Cardinality(A \cup B) = Cardinality(A) + Cardinality(B) - Cardinality(A \cap B)
    BY <1>2, FS_Union
  <1>5. Cardinality({}) = 0
    BY FS_EmptySet
  <1>6. Cardinality(A) = Weight(size, T) /\ Cardinality(B) = Weight(size, keys \ T)
    BY DEF A, B, Weight
  <1>7. Weight(size, keys) = Cardinality(A \cup B)
    BY <1>3 DEF Weight
  <1>8. Cardinality(A \cap B) = 0
    BY <1>3, <1>5
  <1>. QED
    BY <1>2, <1>4, <1>6, <1>7, <1>8

LEMMA WeightMore ==
    ASSUME NEW size, NEW keys, Sized(size, keys), NEW k, k \notin keys, size[k] \in Nat
    PROVE  /\ Sized(size, keys \cup {k}) /\ Weight(size, keys) \in Nat
           /\ Weight(size, keys \cup {k}) = Weight(size, keys) + size[k]
  <1> DEFINE R == keys \cup {k}
  <1>1. Sized(size, R)
    BY FS_AddElement DEF Sized
  <1>2. {k} \in SUBSET R /\ R \ {k} = keys
    OBVIOUS
  <1>. HIDE DEF R
  <1>3. /\ Weight(size, {k}) \in Nat /\ Weight(size, R \ {k}) \in Nat
        /\ Weight(size, R) = Weight(size, {k}) + Weight(size, R \ {k})
    BY <1>1, <1>2, WeightAdds
  <1>4. Weight(size, {k}) = size[k]
    BY UnitsOfOne
  <1>5. Weight(size, R) = Weight(size, keys) + size[k] /\ Weight(size, keys) \in Nat
    BY <1>2, <1>3, <1>4
  <1>. QED
    BY <1>1, <1>5 DEF R

LEMMA WeightSame ==
    ASSUME NEW size, NEW size2, NEW keys, \A k \in keys : size2[k] = size[k]
    PROVE  Weight(size2, keys) = Weight(size, keys)
  <1>1. Units(size2, keys) = Units(size, keys)
    BY DEF Units
  <1>. QED
    BY <1>1 DEF Weight

LEMMA WeightWithout ==
    ASSUME NEW size, NEW keys, Sized(size, keys), NEW k \in keys
    PROVE  /\ size[k] \in Nat /\ Weight(size, keys \ {k}) \in Nat
           /\ Weight(size, keys) = size[k] + Weight(size, keys \ {k})
  <1>. PICK T : T = {k}
    OBVIOUS
  <1>1. T \in SUBSET keys /\ size[k] \in Nat
    BY DEF Sized
  <1>2. /\ Weight(size, T) \in Nat /\ Weight(size, keys \ T) \in Nat
        /\ Weight(size, keys) = Weight(size, T) + Weight(size, keys \ T)
    BY <1>1, WeightAdds
  <1>3. Weight(size, T) = size[k]
    BY <1>1, UnitsOfOne
  <1>. QED
    BY <1>1, <1>2, <1>3

LEMMA WeightGrows ==
    ASSUME NEW size, NEW size2, NEW keys, Sized(size, keys), NEW k \in keys, NEW n \in Nat,
           size2[k] = size[k] + n, \A q \in keys : q # k => size2[q] = size[q]
    PROVE  Weight(size, keys) \in Nat /\ Weight(size2, keys) = Weight(size, keys) + n
  <1> DEFINE rest == keys \ {k}
  <1>1. Sized(size2, keys)
    BY DEF Sized
  <1>2. /\ size[k] \in Nat /\ Weight(size, rest) \in Nat
        /\ Weight(size, keys) = size[k] + Weight(size, rest)
    BY WeightWithout
  <1>3. /\ size2[k] \in Nat /\ Weight(size2, rest) \in Nat
        /\ Weight(size2, keys) = size2[k] + Weight(size2, rest)
    BY <1>1, WeightWithout
  <1>4. Weight(size2, rest) = Weight(size, rest)
    BY WeightSame
  <1>. HIDE DEF rest
  <1>. QED
    BY <1>2, <1>3, <1>4

\* What MapThenSumSet computes with, for sizes given by a function.
Summing(it, size, keys) ==
    it = [s \in SUBSET keys |->
            IF s = {} THEN 0
            ELSE size[CHOOSE x \in s : TRUE] + it[s \ {CHOOSE x \in s : TRUE}]]

LEMMA WeightSums ==
    ASSUME NEW size, NEW keys, Sized(size, keys)
    PROVE  \E it : Summing(it, size, keys)
  <1> DEFINE it == [s \in SUBSET keys |-> Weight(size, s)]
  <1>1. ASSUME NEW s \in SUBSET keys
        PROVE  it[s] = IF s = {} THEN 0
                       ELSE size[CHOOSE x \in s : TRUE] + it[s \ {CHOOSE x \in s : TRUE}]
    <2>1. CASE s = {}
      <3>1. Units(size, {}) = {}
        BY DEF Units
      <3>2. Weight(size, {}) = 0
        BY <3>1, FS_EmptySet DEF Weight
      <3>. QED
        BY <2>1, <3>2
    <2>2. CASE s # {}
      <3>1. PICK x : x = CHOOSE y \in s : TRUE
        OBVIOUS
      <3>2. x \in s
        BY <2>2, <3>1
      <3>3. Sized(size, s)
        BY FS_Subset DEF Sized
      <3>4. Weight(size, s) = Weight(size, {x}) + Weight(size, s \ {x})
        BY <3>2, <3>3, WeightAdds
      <3>5. Weight(size, {x}) = size[x]
        BY <3>2, UnitsOfOne DEF Sized
      <3>6. it[s] = size[x] + it[s \ {x}]
        BY <3>4, <3>5
      <3>. HIDE DEF it
      <3>. QED
        BY <2>2, <3>1, <3>6
    <2>. QED
      BY <2>1, <2>2
  <1>2. it = [s \in SUBSET keys |-> it[s]]
    OBVIOUS
  <1>. HIDE DEF it
  <1>3. Summing(it, size, keys)
    BY <1>1, <1>2, Zenon DEF Summing
  <1>. QED
    BY <1>3

LEMMA SumsAreWeight ==
    ASSUME NEW size, NEW keys, Sized(size, keys), NEW it, Summing(it, size, keys)
    PROVE  it[keys] = Weight(size, keys)
  <1> DEFINE B == {s \in SUBSET keys : it[s] # Weight(size, s)}
  <1>0. /\ it[{}] = 0
        /\ \A s \in SUBSET keys : s # {} =>
              \E x \in s : it[s] = size[x] + it[s \ {x}]
    BY DEF Summing
  <1>1. B = {}
    <2>1. SUFFICES ASSUME B # {} PROVE FALSE
      OBVIOUS
    <2>2. PICK s \in B : \A x \in s : s \ {x} \notin B
      BY <2>1, LeastSubset DEF Sized
    <2>3. s # {}
      <3>1. Units(size, {}) = {}
        BY DEF Units
      <3>. QED
        BY <1>0, <3>1, FS_EmptySet DEF Weight
    <2>4. PICK x \in s : it[s] = size[x] + it[s \ {x}]
      BY <1>0, <2>3
    <2>5. it[s \ {x}] = Weight(size, s \ {x})
      BY <2>2
    <2>6. Sized(size, s)
      BY FS_Subset DEF Sized
    <2>7. Weight(size, s) = Weight(size, {x}) + Weight(size, s \ {x})
      BY <2>6, WeightAdds
    <2>8. Weight(size, {x}) = size[x]
      BY <2>6, UnitsOfOne DEF Sized
    <2>. QED
      BY <2>4, <2>5, <2>7, <2>8
  <1>. QED
    BY <1>1

LEMMA PendingSum ==
    ASSUME NEW a, NEW keys, NEW size, Sized(size, keys),
           \A k \in keys : size[k] = a.pending[k].bytes
    PROVE  MapThenSumSet(LAMBDA k : a.pending[k].bytes, keys) = Weight(size, keys)
  <1> DEFINE Good(it) == it = [s \in SUBSET keys |->
                IF s = {} THEN 0
                ELSE LET x == CHOOSE x \in s : TRUE
                     IN  a.pending[x].bytes + it[s \ {x}]]
             iter == CHOOSE it : Good(it)
  <1>1. MapThenSumSet(LAMBDA k : a.pending[k].bytes, keys) = iter[keys]
    BY DEF MapThenSumSet, MapThenFoldSet
  <1>2. ASSUME NEW it PROVE Good(it) <=> Summing(it, size, keys)
    BY DEF Summing
  <1>. HIDE DEF Good
  <1>3. Good(iter)
    BY <1>2, WeightSums, Zenon
  <1>. QED
    BY <1>1, <1>2, <1>3, SumsAreWeight

SizeOfKey == [k \in Key |-> KeyBytes(k)]

LEMMA KeyBytesType == ASSUME NEW k \in Key PROVE KeyBytes(k) \in Nat
  <1>1. k.id \in Id /\ k.node \in Node \cup {None}
    BY DEF Key
  <1>2. IdBytes[k.id] \in Nat /\ (k.node # None => NodeBytes[k.node] \in Nat)
    BY <1>1, BytesAssumption
  <1>. QED
    BY <1>2 DEF KeyBytes

LEMMA RejectedSum ==
    ASSUME NEW keys \in SUBSET Key, IsFiniteSet(keys)
    PROVE  MapThenSumSet(KeyBytes, keys) = Weight(SizeOfKey, keys)
  <1> DEFINE Good(it) == it = [s \in SUBSET keys |->
                IF s = {} THEN 0
                ELSE LET x == CHOOSE x \in s : TRUE
                     IN  KeyBytes(x) + it[s \ {x}]]
             iter == CHOOSE it : Good(it)
  <1>1. MapThenSumSet(KeyBytes, keys) = iter[keys]
    BY DEF MapThenSumSet, MapThenFoldSet
  <1>2. Sized(SizeOfKey, keys) /\ \A k \in keys : SizeOfKey[k] = KeyBytes(k)
    BY KeyBytesType DEF Sized, SizeOfKey
  <1>3. ASSUME NEW it PROVE Good(it) <=> Summing(it, SizeOfKey, keys)
    BY <1>2 DEF Summing
  <1>. HIDE DEF Good
  <1>4. Good(iter)
    BY <1>2, <1>3, WeightSums, Zenon
  <1>. QED
    BY <1>1, <1>2, <1>3, <1>4, SumsAreWeight

-----------------------------------------------------------------------------
(* The limits of the two tables, and what each operator does to them.      *)

Sizes(a) == [k \in Pending(a) |-> a.pending[k].bytes]

GroupsLimited(a) ==
    /\ IsFiniteSet(Pending(a)) /\ Cardinality(Pending(a)) <= MaxPendingEvents
    /\ \A k \in Pending(a) :
         /\ IsFiniteSet(a.pending[k].lines)
         /\ Cardinality(a.pending[k].lines) <= MaxRecordsPerEvent
    /\ a.pendingBytes = Weight(Sizes(a), Pending(a))
    /\ a.pendingBytes <= MaxPendingBytes

KeysLimited(a) ==
    /\ IsFiniteSet(Rejected(a)) /\ Cardinality(Rejected(a)) <= MaxPendingEvents
    /\ a.rejectionBytes = Weight(SizeOfKey, Rejected(a))
    /\ a.rejectionBytes <= MaxPendingBytes

Limited(a) == AsmTypeOK(a) /\ GroupsLimited(a) /\ KeysLimited(a)

SameLoad(a, b) ==
    /\ Pending(b) = Pending(a)
    /\ \A k \in Pending(a) : /\ b.pending[k].lines = a.pending[k].lines
                              /\ b.pending[k].bytes = a.pending[k].bytes
    /\ b.pendingBytes = a.pendingBytes

SameCharge(a, b) == Rejected(b) = Rejected(a) /\ b.rejectionBytes = a.rejectionBytes

LEMMA SizesType ==
    ASSUME NEW a, AsmTypeOK(a), IsFiniteSet(Pending(a))
    PROVE  Sized(Sizes(a), Pending(a))
  <1>1. ASSUME NEW k \in Pending(a) PROVE a.pending[k].bytes \in Nat
    <2>1. a.pending[k] \in Group
      BY DEF AsmTypeOK
    <2>. QED
      BY <2>1 DEF Group
  <1>. QED
    BY <1>1 DEF Sized, Sizes

LEMMA LoadLimited ==
    ASSUME NEW a, NEW b, GroupsLimited(a), SameLoad(a, b)
    PROVE  GroupsLimited(b)
  <1>1. \A k \in Pending(a) : Sizes(b)[k] = Sizes(a)[k]
    BY DEF SameLoad, Sizes
  <1>2. Weight(Sizes(b), Pending(a)) = Weight(Sizes(a), Pending(a))
    BY <1>1, WeightSame
  <1>. QED
    BY <1>2 DEF GroupsLimited, SameLoad

LEMMA ChargeLimited ==
    ASSUME NEW a, NEW b, KeysLimited(a), SameCharge(a, b)
    PROVE  KeysLimited(b)
  BY DEF KeysLimited, SameCharge

LEMMA FinishLimited ==
    ASSUME NEW a, Limited(a), NEW keys \in SUBSET Pending(a)
    PROVE  Limited(Finish(a, keys))
  <1> DEFINE b == Finish(a, keys)
             sum == MapThenSumSet(LAMBDA k : a.pending[k].bytes, keys)
  <1>1. /\ AsmTypeOK(b) /\ Pending(b) = Pending(a) \ keys
        /\ \A k \in Pending(b) : b.pending[k] = a.pending[k]
        /\ b.rejected = a.rejected
    BY FinishLemma DEF Limited
  <1>2. b.pendingBytes = a.pendingBytes - sum /\ b.rejectionBytes = a.rejectionBytes
    <2>. HIDE DEF sum
    <2>1. b = [a EXCEPT !.pending = Restrict(@, DOMAIN @ \ keys), !.pendingBytes = @ - sum]
      BY DEF Finish, sum
    <2>. QED
      BY <2>1 DEF Limited, AsmTypeOK, EmptyAssembler
  <1>. HIDE DEF b
  <1>3. IsFiniteSet(Pending(a)) /\ IsFiniteSet(keys) /\ Sized(Sizes(a), Pending(a))
    BY FS_Subset, SizesType DEF Limited, GroupsLimited
  <1>4. sum = Weight(Sizes(a), keys)
    <2>1. Sized(Sizes(a), keys) /\ \A k \in keys : Sizes(a)[k] = a.pending[k].bytes
      BY <1>3 DEF Sized, Sizes
    <2>. QED
      BY <2>1, PendingSum
  <1>. HIDE DEF sum
  <1>5. /\ Weight(Sizes(a), keys) \in Nat /\ Weight(Sizes(a), Pending(b)) \in Nat
        /\ Weight(Sizes(a), Pending(a)) = Weight(Sizes(a), keys) + Weight(Sizes(a), Pending(b))
    <2>1. /\ Weight(Sizes(a), keys) \in Nat /\ Weight(Sizes(a), Pending(a) \ keys) \in Nat
          /\ Weight(Sizes(a), Pending(a))
               = Weight(Sizes(a), keys) + Weight(Sizes(a), Pending(a) \ keys)
      BY <1>3, WeightAdds
    <2>. QED
      BY <1>1, <2>1
  <1>6. Weight(Sizes(b), Pending(b)) = Weight(Sizes(a), Pending(b))
    <2>1. \A k \in Pending(b) : Sizes(b)[k] = Sizes(a)[k]
      BY <1>1 DEF Sizes
    <2>. QED
      BY <2>1, WeightSame
  <1>7. /\ IsFiniteSet(Pending(b)) /\ Cardinality(Pending(b)) \in Nat
        /\ Cardinality(Pending(a)) \in Nat
        /\ Cardinality(Pending(b)) <= Cardinality(Pending(a))
    BY <1>1, <1>3, FS_Subset, FS_CardinalityType
  <1>8. GroupsLimited(b)
    <2>1. b.pendingBytes = Weight(Sizes(b), Pending(b)) /\ b.pendingBytes <= MaxPendingBytes
      BY <1>2, <1>4, <1>5, <1>6, LimitsAssumption DEF Limited, GroupsLimited
    <2>2. Cardinality(Pending(b)) <= MaxPendingEvents
      BY <1>7, LimitsAssumption DEF Limited, GroupsLimited
    <2>. QED
      BY <1>1, <1>7, <2>1, <2>2 DEF Limited, GroupsLimited
  <1>9. KeysLimited(b)
    BY <1>1, <1>2, ChargeLimited DEF Limited, SameCharge
  <1>. QED
    BY <1>1, <1>8, <1>9 DEF Limited, b

\* Taking keys out of the rejected table, with their charge.
LEMMA ReleaseLimited ==
    ASSUME NEW a, KeysLimited(a), NEW b, NEW keys \in SUBSET Rejected(a),
           Rejected(a) \subseteq Key, Rejected(b) = Rejected(a) \ keys,
           b.rejectionBytes = a.rejectionBytes - Weight(SizeOfKey, keys)
    PROVE  KeysLimited(b)
  <1>1. Sized(SizeOfKey, Rejected(a))
    BY KeyBytesType DEF Sized, SizeOfKey, KeysLimited
  <1>2. /\ Weight(SizeOfKey, keys) \in Nat /\ Weight(SizeOfKey, Rejected(a) \ keys) \in Nat
        /\ Weight(SizeOfKey, Rejected(a))
             = Weight(SizeOfKey, keys) + Weight(SizeOfKey, Rejected(a) \ keys)
    <2>. PICK R : R = Rejected(a)
      OBVIOUS
    <2>1. /\ Weight(SizeOfKey, keys) \in Nat /\ Weight(SizeOfKey, R \ keys) \in Nat
          /\ Weight(SizeOfKey, R) = Weight(SizeOfKey, keys) + Weight(SizeOfKey, R \ keys)
      BY <1>1, WeightAdds
    <2>. QED
      BY <2>1
  <1>3. /\ IsFiniteSet(Rejected(a) \ keys) /\ Cardinality(Rejected(a) \ keys) \in Nat
        /\ Cardinality(Rejected(a)) \in Nat
        /\ Cardinality(Rejected(a) \ keys) <= Cardinality(Rejected(a))
    <2>1. IsFiniteSet(Rejected(a))
      BY DEF KeysLimited
    <2>. QED
      BY <2>1, FS_Subset, FS_CardinalityType
  <1>4. b.rejectionBytes = Weight(SizeOfKey, Rejected(b)) /\ b.rejectionBytes <= MaxPendingBytes
    BY <1>2, LimitsAssumption DEF KeysLimited
  <1>5. IsFiniteSet(Rejected(b)) /\ Cardinality(Rejected(b)) <= MaxPendingEvents
    BY <1>3, LimitsAssumption DEF KeysLimited
  <1>. QED
    BY <1>4, <1>5 DEF KeysLimited

LEMMA ExpireRejectedLimited ==
    ASSUME NEW a, Limited(a), NEW t \in Nat
    PROVE  Limited(ExpireRejected(a, t))
  <1> DEFINE b == ExpireRejected(a, t)
             stale == {k \in Rejected(a) : t >= a.rejected[k].lastSeen + Timeout}
             charge == MapThenSumSet(KeyBytes, stale)
             lifted == Fenced(a) /\ t >= a.spillSince + Timeout
  <1>1. /\ AsmTypeOK(b) /\ b.pending = a.pending
        /\ Rejected(b) = {k \in Rejected(a) : ~(t >= a.rejected[k].lastSeen + Timeout)}
    BY ExpireRejectedLemma DEF Limited
  <1>2. Rejected(b) = Rejected(a) \ stale /\ stale \in SUBSET Rejected(a)
    BY <1>1
  <1>3. b = [a EXCEPT !.rejected = Restrict(@, DOMAIN @ \ stale),
                      !.rejectionBytes = @ - charge,
                      !.spillSince = IF lifted THEN None ELSE @,
                      !.spillSource = IF lifted THEN None ELSE @]
    BY DEF ExpireRejected
  <1>. HIDE DEF b, charge, lifted, stale
  <1>4. b.rejectionBytes = a.rejectionBytes - charge /\ b.pendingBytes = a.pendingBytes
    BY <1>3 DEF Limited, AsmTypeOK, EmptyAssembler
  <1>5. Rejected(a) \subseteq Key /\ IsFiniteSet(Rejected(a))
    BY DEF Limited, AsmTypeOK, KeysLimited
  <1>6. charge = Weight(SizeOfKey, stale)
    <2>1. stale \in SUBSET Key /\ IsFiniteSet(stale)
      BY <1>2, <1>5, FS_Subset
    <2>. QED
      BY <2>1, RejectedSum DEF charge
  <1>7. KeysLimited(b)
    BY <1>2, <1>4, <1>5, <1>6, ReleaseLimited DEF Limited
  <1>8. GroupsLimited(b)
    BY <1>1, <1>4, LoadLimited DEF Limited, SameLoad
  <1>. QED
    BY <1>1, <1>7, <1>8 DEF Limited, b

LEMMA ServicedLimited ==
    ASSUME NEW a, Limited(a), NEW t \in Nat
    PROVE  Limited(Serviced(a, t))
  <1>1. Expired(a, t) \in SUBSET Pending(a)
    BY DEF Expired
  <1>. QED
    BY <1>1, FinishLimited, ExpireRejectedLimited DEF Serviced

LEMMA ForgetLimited ==
    ASSUME NEW a, Limited(a), NEW k \in Rejected(a)
    PROVE  Limited(Forget(a, k))
  <1> DEFINE b == Forget(a, k)
  <1>1. AsmTypeOK(b) /\ b.pending = a.pending /\ Rejected(b) = Rejected(a) \ {k}
    BY ForgetLemma DEF Limited
  <1>2. b.rejectionBytes = a.rejectionBytes - KeyBytes(k) /\ b.pendingBytes = a.pendingBytes
    BY DEF Forget, Limited, AsmTypeOK, EmptyAssembler
  <1>. HIDE DEF b
  <1>3. Rejected(a) \subseteq Key
    BY DEF Limited, AsmTypeOK
  <1>4. Weight(SizeOfKey, {k}) = KeyBytes(k)
    BY <1>3, UnitsOfOne, KeyBytesType DEF SizeOfKey
  <1>5. {k} \in SUBSET Rejected(a)
    OBVIOUS
  <1>6. KeysLimited(b)
    BY <1>1, <1>2, <1>3, <1>4, <1>5, ReleaseLimited DEF Limited
  <1>7. GroupsLimited(b)
    BY <1>1, <1>2, LoadLimited DEF Limited, SameLoad
  <1>. QED
    BY <1>1, <1>6, <1>7 DEF Limited, b

LEMMA TrackLimited ==
    ASSUME NEW a, Limited(a), NEW k \in Key, k \notin Rejected(a), Trackable(a, k),
           NEW source \in Nat, NEW t \in Nat
    PROVE  Limited(Track(a, k, source, t))
  <1> DEFINE b == Track(a, k, source, t)
             R == Rejected(a) \cup {k}
  <1>1. AsmTypeOK(b) /\ b.pending = a.pending /\ Rejected(b) = R
    BY TrackLemma DEF Limited
  <1>2. b.rejectionBytes = a.rejectionBytes + KeyBytes(k) /\ b.pendingBytes = a.pendingBytes
    BY DEF Track, Limited, AsmTypeOK, EmptyAssembler
  <1>. HIDE DEF b
  <1>3. /\ Rejected(a) \subseteq Key /\ IsFiniteSet(Rejected(a))
        /\ a.rejectionBytes = Weight(SizeOfKey, Rejected(a))
    BY DEF Limited, AsmTypeOK, KeysLimited
  <1>4. IsFiniteSet(R) /\ Cardinality(R) = Cardinality(Rejected(a)) + 1
    BY <1>3, FS_AddElement
  <1>5. /\ KeyBytes(k) \in Nat /\ Weight(SizeOfKey, Rejected(a)) \in Nat
        /\ Weight(SizeOfKey, R) = Weight(SizeOfKey, Rejected(a)) + KeyBytes(k)
    <2>1. Sized(SizeOfKey, Rejected(a)) /\ SizeOfKey[k] = KeyBytes(k) /\ KeyBytes(k) \in Nat
      BY <1>3, KeyBytesType DEF Sized, SizeOfKey
    <2>. QED
      BY <2>1, WeightMore
  <1>6. /\ Cardinality(Rejected(a)) \in Nat /\ Cardinality(Rejected(a)) < MaxPendingEvents
        /\ KeyBytes(k) <= MaxPendingBytes - a.rejectionBytes
    BY <1>3, FS_CardinalityType DEF Trackable
  <1>7. b.rejectionBytes = Weight(SizeOfKey, R) /\ b.rejectionBytes <= MaxPendingBytes
    BY <1>2, <1>3, <1>5, <1>6, LimitsAssumption
  <1>8. Cardinality(R) <= MaxPendingEvents
    BY <1>4, <1>6, LimitsAssumption
  <1>9. KeysLimited(b)
    BY <1>1, <1>4, <1>7, <1>8 DEF KeysLimited
  <1>10. GroupsLimited(b)
    BY <1>1, <1>2, LoadLimited DEF Limited, SameLoad
  <1>. QED
    BY <1>1, <1>9, <1>10 DEF Limited, b

LEMMA AloneLimited ==
    ASSUME NEW a, Limited(a), NEW b, AsmTypeOK(b), SameLoad(a, b), SameCharge(a, b)
    PROVE  Limited(b)
  BY LoadLimited, ChargeLimited DEF Limited

LEMMA StartSpillLimited ==
    ASSUME NEW a, Limited(a), NEW source \in Nat, NEW t \in Nat
    PROVE  Limited(StartSpill(a, source, t))
  <1> DEFINE b == StartSpill(a, source, t)
  <1>1. AsmTypeOK(b) /\ b.pending = a.pending /\ b.rejected = a.rejected
    BY StartSpillLemma DEF Limited
  <1>2. b.pendingBytes = a.pendingBytes /\ b.rejectionBytes = a.rejectionBytes
    BY DEF StartSpill, Limited, AsmTypeOK, EmptyAssembler
  <1>. HIDE DEF b
  <1>3. Limited(b)
    BY <1>1, <1>2, AloneLimited DEF SameLoad, SameCharge
  <1>. QED
    BY <1>3 DEF b

LEMMA TouchLimited ==
    ASSUME NEW a, Limited(a), NEW k \in Rejected(a), NEW t \in Nat
    PROVE  Limited(Touch(a, k, t))
  <1> DEFINE b == Touch(a, k, t)
  <1>1. AsmTypeOK(b) /\ b.pending = a.pending /\ Rejected(b) = Rejected(a)
    BY TouchLemma DEF Limited
  <1>2. b.pendingBytes = a.pendingBytes /\ b.rejectionBytes = a.rejectionBytes
    BY DEF Touch, Limited, AsmTypeOK, EmptyAssembler
  <1>. HIDE DEF b
  <1>3. Limited(b)
    BY <1>1, <1>2, AloneLimited DEF SameLoad, SameCharge
  <1>. QED
    BY <1>3 DEF b

LEMMA IsolateLimited ==
    ASSUME NEW a, Limited(a), NEW k \in Key, k \notin Rejected(a),
           NEW source \in Nat, NEW t \in Nat
    PROVE  Limited(Isolate(a, k, source, t))
  BY TrackLimited, StartSpillLimited DEF Isolate

LEMMA GroupBytes ==
    ASSUME NEW g \in Group, NEW mark
    PROVE  /\ [g EXCEPT !.mixed = @ \/ mark].bytes = g.bytes
           /\ [g EXCEPT !.auditTime = None].bytes = g.bytes
  BY DEF Group

LEMMA MarkMixedLimited ==
    ASSUME NEW a, Limited(a), NEW k
    PROVE  /\ Limited(MarkMixed(a, k))
           /\ SameLoad(a, MarkMixed(a, k)) /\ SameCharge(a, MarkMixed(a, k))
  <1> DEFINE b == MarkMixed(a, k)
  <1>1. AsmTypeOK(b) /\ SameGroups(a, b) /\ SameIsolation(a, b)
    BY MarkMixedLemma DEF Limited
  <1>2. b.pendingBytes = a.pendingBytes /\ b.rejectionBytes = a.rejectionBytes
    BY DEF MarkMixed, Limited, AsmTypeOK, EmptyAssembler
  <1>3. ASSUME NEW q \in Pending(a) PROVE b.pending[q].bytes = a.pending[q].bytes
    <2>1. a.pending[q] \in Group
      BY DEF Limited, AsmTypeOK
    <2>2. b.pending[q] = [a.pending[q] EXCEPT !.mixed = @ \/ Twins(q, k)]
      BY DEF MarkMixed, Limited, AsmTypeOK, EmptyAssembler
    <2>. HIDE DEF b
    <2>. QED
      BY <2>1, <2>2, GroupBytes
  <1>. HIDE DEF b
  <1>4. SameLoad(a, b) /\ SameCharge(a, b)
    BY <1>1, <1>2, <1>3 DEF SameGroups, SameIsolation, SameLoad, SameCharge
  <1>5. Limited(b)
    BY <1>1, <1>4, AloneLimited
  <1>. QED
    BY <1>4, <1>5 DEF b

LEMMA ObserveAuditTimeLimited ==
    ASSUME NEW a, Limited(a), NEW k \in Key, AuditTimeOf[k.id] # None
    PROVE  /\ Limited(ObserveAuditTime(a, k)) /\ SameLoad(a, ObserveAuditTime(a, k))
  <1> DEFINE b == ObserveAuditTime(a, k)
  <1>1. AsmTypeOK(b) /\ SameGroups(a, b) /\ SameIsolation(a, b)
    BY ObserveAuditTimeLemma DEF Limited
  <1>2. b.pendingBytes = a.pendingBytes /\ b.rejectionBytes = a.rejectionBytes
    BY DEF ObserveAuditTime, Limited, AsmTypeOK, EmptyAssembler
  <1>3. ASSUME NEW q \in Pending(a) PROVE b.pending[q].bytes = a.pending[q].bytes
    <2>1. a.pending[q] \in Group
      BY DEF Limited, AsmTypeOK
    <2>2. b.pending[q] \in {a.pending[q], [a.pending[q] EXCEPT !.auditTime = None]}
      BY DEF ObserveAuditTime, Limited, AsmTypeOK, EmptyAssembler
    <2>. HIDE DEF b
    <2>. QED
      BY <2>1, <2>2, GroupBytes
  <1>. HIDE DEF b
  <1>4. SameLoad(a, b) /\ SameCharge(a, b)
    BY <1>1, <1>2, <1>3 DEF SameGroups, SameIsolation, SameLoad, SameCharge
  <1>5. Limited(b)
    BY <1>1, <1>4, AloneLimited
  <1>. QED
    BY <1>4, <1>5 DEF b

LEMMA OpenLimited ==
    ASSUME NEW a, Limited(a), NEW k \in Key, k \notin Pending(a),
           Cardinality(Pending(a)) < MaxPendingEvents, NEW n \in Nat, NEW t \in Nat
    PROVE  LET b == Open(a, k, n, t) IN
           /\ Limited(b)
           /\ k \in Pending(b) /\ b.pending[k].lines = {}
           /\ b.pendingBytes = a.pendingBytes
  <1> DEFINE group == [lines |-> {}, first |-> n, bytes |-> 0, lastSeen |-> t,
                       auditTime |-> AuditTimeOf[k.id],
                       mixed |-> \E q \in Pending(a) : Twins(q, k)]
             observed == IF AuditTimeOf[k.id] = None THEN a ELSE ObserveAuditTime(a, k)
             b == Open(a, k, n, t)
             P == Pending(a) \cup {k}
  <1>1. Limited(observed) /\ SameLoad(a, observed)
    BY ObserveAuditTimeLimited DEF SameLoad
  <1>2. AsmTypeOK(b) /\ Pending(b) = P
    BY OpenLemma DEF Limited
  <1>3. group.lines = {} /\ group.bytes = 0
    OBVIOUS
  <1>4. b = [observed EXCEPT !.pending = With(@, k, group)]
    BY DEF Open
  <1>. HIDE DEF group, observed, b
  <1>5. /\ b.pending = With(observed.pending, k, group) /\ b.rejected = observed.rejected
        /\ b.pendingBytes = observed.pendingBytes
        /\ b.rejectionBytes = observed.rejectionBytes
    BY <1>1, <1>4 DEF Limited, AsmTypeOK, EmptyAssembler
  <1>6. /\ b.pending[k] = group
        /\ \A q \in Pending(a) : b.pending[q] = observed.pending[q]
    BY <1>1, <1>5 DEF With, SameLoad
  <1>7. /\ IsFiniteSet(Pending(a)) /\ Cardinality(Pending(a)) \in Nat
        /\ IsFiniteSet(P) /\ Cardinality(P) = Cardinality(Pending(a)) + 1
    BY FS_AddElement, FS_CardinalityType DEF Limited, GroupsLimited
  <1>8. Weight(Sizes(b), P) = Weight(Sizes(a), Pending(a))
    <2>1. \A q \in Pending(a) : Sizes(b)[q] = Sizes(a)[q]
      BY <1>1, <1>2, <1>6 DEF Sizes, SameLoad
    <2>2. Sizes(b)[k] = 0
      BY <1>2, <1>3, <1>6 DEF Sizes
    <2>3. Sized(Sizes(b), Pending(a))
      <3>1. Sized(Sizes(a), Pending(a))
        BY <1>7, SizesType DEF Limited
      <3>. QED
        BY <2>1, <3>1 DEF Sized
    <2>4. /\ Weight(Sizes(b), Pending(a)) \in Nat
          /\ Weight(Sizes(b), P) = Weight(Sizes(b), Pending(a)) + 0
      <3>. PICK z, R : z = Sizes(b) /\ R = Pending(a)
        OBVIOUS
      <3>1. Sized(z, R) /\ k \notin R /\ z[k] \in Nat /\ z[k] = 0
        BY <2>2, <2>3
      <3>2. /\ Weight(z, R) \in Nat
            /\ Weight(z, R \cup {k}) = Weight(z, R) + z[k]
        BY <3>1, WeightMore
      <3>. QED
        BY <3>1, <3>2
    <2>5. Weight(Sizes(b), Pending(a)) = Weight(Sizes(a), Pending(a))
      BY <2>1, WeightSame
    <2>. QED
      BY <2>4, <2>5
  <1>9. \A q \in P : /\ IsFiniteSet(b.pending[q].lines)
                      /\ Cardinality(b.pending[q].lines) <= MaxRecordsPerEvent
    <2>1. IsFiniteSet({}) /\ Cardinality({}) = 0
      BY FS_EmptySet
    <2>2. IsFiniteSet(group.lines) /\ Cardinality(group.lines) <= MaxRecordsPerEvent
      BY <1>3, <2>1, LimitsAssumption
    <2>. QED
      BY <1>1, <1>6, <2>2 DEF SameLoad, Limited, GroupsLimited
  <1>10. GroupsLimited(b)
    <2>1. Cardinality(P) <= MaxPendingEvents
      BY <1>7, LimitsAssumption
    <2>2. b.pendingBytes = Weight(Sizes(b), P) /\ b.pendingBytes <= MaxPendingBytes
      BY <1>1, <1>5, <1>8 DEF SameLoad, Limited, GroupsLimited
    <2>. QED
      BY <1>2, <1>7, <1>9, <2>1, <2>2 DEF GroupsLimited
  <1>11. KeysLimited(b)
    BY <1>1, <1>5, ChargeLimited DEF Limited, SameCharge
  <1>12. Limited(b) /\ k \in Pending(b) /\ b.pending[k].lines = {}
         /\ b.pendingBytes = a.pendingBytes
    BY <1>1, <1>2, <1>3, <1>5, <1>6, <1>10, <1>11 DEF Limited, SameLoad
  <1>. QED
    BY <1>12 DEF b

LEMMA StoreLimited ==
    ASSUME NEW a, Limited(a), NEW k \in Pending(a),
           NEW n \in Nat, NEW bytes \in Nat, NEW t \in Nat,
           Cardinality(a.pending[k].lines) < MaxRecordsPerEvent,
           bytes <= MaxPendingBytes - a.pendingBytes
    PROVE  Limited(Store(a, k, n, bytes, t))
  <1> DEFINE b == Store(a, k, n, bytes, t)
             ls == a.pending[k].lines
             P == Pending(a)
  <1>1. /\ AsmTypeOK(b) /\ Pending(b) = P
        /\ b.pending[k].lines = ls \cup {n}
        /\ \A q \in P : q # k => b.pending[q] = a.pending[q]
        /\ b.rejected = a.rejected
    BY StoreLemma DEF Limited, SameIsolation
  <1>2. /\ b.pendingBytes = a.pendingBytes + bytes
        /\ b.rejectionBytes = a.rejectionBytes
        /\ b.pending[k] = Extended(a.pending[k], n, bytes, t)
    BY DEF Store, Limited, AsmTypeOK, EmptyAssembler
  <1>3. b.pending[k].bytes = a.pending[k].bytes + bytes
    <2>1. a.pending[k] \in Group
      BY DEF Limited, AsmTypeOK
    <2>. HIDE DEF b
    <2>. QED
      BY <1>2, <2>1 DEF Extended, Group
  <1>. HIDE DEF b, ls
  <1>4. Sized(Sizes(a), P)
    BY SizesType DEF Limited, GroupsLimited
  <1>5. Weight(Sizes(b), P) = Weight(Sizes(a), P) + bytes /\ Weight(Sizes(a), P) \in Nat
    <2>1. Sizes(b)[k] = Sizes(a)[k] + bytes
      BY <1>1, <1>3 DEF Sizes
    <2>2. \A q \in P : q # k => Sizes(b)[q] = Sizes(a)[q]
      BY <1>1 DEF Sizes
    <2>. HIDE DEF P
    <2>3. k \in P
      BY DEF P
    <2>. QED
      BY <1>4, <2>1, <2>2, <2>3, WeightGrows
  <1>6. b.pendingBytes = Weight(Sizes(b), P) /\ b.pendingBytes <= MaxPendingBytes
    BY <1>2, <1>5, LimitsAssumption DEF Limited, GroupsLimited
  <1>7. /\ IsFiniteSet(ls \cup {n})
        /\ Cardinality(ls \cup {n}) <= MaxRecordsPerEvent
    <2>1. IsFiniteSet(ls) /\ Cardinality(ls) \in Nat
      BY FS_CardinalityType DEF Limited, GroupsLimited, ls
    <2>2. /\ IsFiniteSet(ls \cup {n})
          /\ Cardinality(ls \cup {n}) \in {Cardinality(ls), Cardinality(ls) + 1}
      BY <2>1, FS_AddElement
    <2>3. Cardinality(ls) < MaxRecordsPerEvent
      BY DEF ls
    <2>. QED
      BY <2>1, <2>2, <2>3, LimitsAssumption
  <1>8. \A q \in P : /\ IsFiniteSet(b.pending[q].lines)
                      /\ Cardinality(b.pending[q].lines) <= MaxRecordsPerEvent
    BY <1>1, <1>7 DEF Limited, GroupsLimited
  <1>9. GroupsLimited(b)
    BY <1>1, <1>6, <1>8 DEF Limited, GroupsLimited
  <1>10. KeysLimited(b)
    BY <1>1, <1>2, ChargeLimited DEF Limited, SameCharge
  <1>. QED
    BY <1>1, <1>9, <1>10 DEF Limited, b

LEMMA CountsType ==
    ASSUME NEW a, Limited(a)
    PROVE  /\ a.pendingBytes \in Nat /\ a.rejectionBytes \in Nat
           /\ Cardinality(Pending(a)) \in Nat
           /\ \A k \in Pending(a) : Cardinality(a.pending[k].lines) \in Nat
  <1>1. Weight(Sizes(a), Pending(a)) \in Nat
    <2>1. Sized(Sizes(a), Pending(a))
      BY SizesType DEF Limited, GroupsLimited
    <2>. QED
      BY <2>1, UnitsFinite
  <1>2. Weight(SizeOfKey, Rejected(a)) \in Nat
    <2>1. Sized(SizeOfKey, Rejected(a))
      BY KeyBytesType DEF Sized, SizeOfKey, Limited, AsmTypeOK, KeysLimited
    <2>. QED
      BY <2>1, UnitsFinite
  <1>. QED
    BY <1>1, <1>2, FS_CardinalityType DEF Limited, GroupsLimited, KeysLimited

LEMMA StoredLimited ==
    ASSUME NEW a, Limited(a), NEW k \in Key, NEW n \in Nat, NEW bytes \in Nat,
           NEW t \in Nat, ~LimitHit(a, k, bytes)
    PROVE  Limited(Stored(a, k, n, bytes, t))
  <1> DEFINE marked == MarkMixed(a, k)
             opened == Open(marked, k, n, t)
  <1>1. Limited(marked) /\ SameLoad(a, marked)
    BY MarkMixedLimited
  <1>. HIDE DEF marked
  <1>2. bytes <= MaxPendingBytes - a.pendingBytes
    BY CountsType, LimitsAssumption DEF LimitHit
  <1>3. CASE k \in Pending(a)
    <2>1. Cardinality(a.pending[k].lines) < MaxRecordsPerEvent
      BY <1>3, CountsType, LimitsAssumption DEF LimitHit
    <2>2. /\ k \in Pending(marked) /\ bytes <= MaxPendingBytes - marked.pendingBytes
          /\ Cardinality(marked.pending[k].lines) < MaxRecordsPerEvent
      BY <1>1, <1>2, <1>3, <2>1 DEF SameLoad
    <2>3. Limited(Store(marked, k, n, bytes, t))
      BY <1>1, <2>2, StoreLimited
    <2>. QED
      BY <1>3, <2>3 DEF Stored, marked
  <1>4. CASE k \notin Pending(a)
    <2>1. Cardinality(Pending(a)) < MaxPendingEvents
      BY <1>4, CountsType, LimitsAssumption DEF LimitHit
    <2>2. k \notin Pending(marked) /\ Cardinality(Pending(marked)) < MaxPendingEvents
      BY <1>1, <1>4, <2>1 DEF SameLoad
    <2>3. /\ Limited(opened) /\ k \in Pending(opened)
          /\ opened.pending[k].lines = {}
          /\ opened.pendingBytes = marked.pendingBytes
      BY <1>1, <2>2, OpenLimited
    <2>. HIDE DEF opened
    <2>4. /\ Cardinality(opened.pending[k].lines) < MaxRecordsPerEvent
          /\ bytes <= MaxPendingBytes - opened.pendingBytes
      BY <1>1, <1>2, <2>3, FS_EmptySet, LimitsAssumption DEF SameLoad
    <2>5. Limited(Store(opened, k, n, bytes, t))
      BY <2>3, <2>4, StoreLimited
    <2>. QED
      BY <1>4, <2>5 DEF Stored, marked, opened
  <1>. QED
    BY <1>3, <1>4

LEMMA NothingLimited ==
    ASSUME NEW a, AsmTypeOK(a), Pending(a) = {}, Rejected(a) = {},
           a.pendingBytes = 0, a.rejectionBytes = 0
    PROVE  Limited(a)
  <1>1. IsFiniteSet({}) /\ Cardinality({}) = 0
    BY FS_EmptySet
  <1>2. \A size : Weight(size, {}) = 0
    <2>1. \A size : Units(size, {}) = {}
      BY DEF Units
    <2>. QED
      BY <1>1, <2>1 DEF Weight
  <1>3. GroupsLimited(a) /\ KeysLimited(a)
    BY <1>1, <1>2, LimitsAssumption DEF GroupsLimited, KeysLimited
  <1>. QED
    BY <1>3 DEF Limited

LEMMA FlushAllLimited ==
    ASSUME NEW a, Limited(a)
    PROVE  Limited(FlushAll(a))
  <1> DEFINE f == Finish(a, Pending(a))
             b == FlushAll(a)
  <1>1. Limited(f) /\ Pending(f) = {}
    BY FinishLimited, FinishLemma DEF Limited
  <1>2. AsmTypeOK(b) /\ Pending(b) = {} /\ Rejected(b) = {}
    BY FlushAllLemma DEF Limited
  <1>3. f.pendingBytes = 0
    <2>1. Units(Sizes(f), {}) = {}
      BY DEF Units
    <2>. HIDE DEF f
    <2>. QED
      BY <1>1, <2>1, FS_EmptySet DEF Limited, GroupsLimited, Weight
  <1>4. b = [f EXCEPT !.rejected = << >>, !.rejectionBytes = 0,
                      !.spillSince = None, !.spillSource = None]
    BY DEF FlushAll
  <1>. HIDE DEF f, b
  <1>5. b.pendingBytes = 0 /\ b.rejectionBytes = 0
    BY <1>1, <1>3, <1>4 DEF Limited, AsmTypeOK, EmptyAssembler
  <1>. QED
    BY <1>2, <1>5, NothingLimited DEF b

-----------------------------------------------------------------------------
(* The steps, one by one.                                                  *)

LEMMA SLimited == ASSUME TypeOK, Limited(asm) PROVE Limited(S)
  BY ServicedLimited DEF S, TypeOK

\* What a handler drops, and the key it isolates for it.
LEMMA DroppedLimited ==
    ASSUME NEW a, Limited(a), NEW k \in Key
    PROVE  /\ Limited(Finish(a, {k} \cap Pending(a)))
           /\ Rejected(Finish(a, {k} \cap Pending(a))) = Rejected(a)
  <1>1. {k} \cap Pending(a) \in SUBSET Pending(a)
    OBVIOUS
  <1>. QED
    BY <1>1, FinishLimited, FinishLemma DEF Limited

LEMMA AddRejectedLimited ==
    ASSUME TypeOK, Limited(asm), NEW line \in Lines, AddRejected(line)
    PROVE  Limited(asm')
  <1>1. /\ line.key \in Rejected(S)
        /\ asm' \in {Forget(S, line.key), Touch(S, line.key, now)}
    BY DEF AddRejected
  <1>2. Limited(Forget(S, line.key)) /\ Limited(Touch(S, line.key, now))
    BY <1>1, SLimited, ForgetLimited, TouchLimited DEF TypeOK
  <1>. QED
    BY <1>1, <1>2

LEMMA CloseFullGroupLimited ==
    ASSUME TypeOK, Limited(asm), NEW line \in Lines, CloseFullGroup(line)
    PROVE  Limited(asm')
  <1>1. {line.key} \in SUBSET Pending(S) /\ asm' = Finish(S, {line.key})
    BY DEF CloseFullGroup
  <1>. QED
    BY <1>1, SLimited, FinishLimited

LEMMA AddFencedLimited ==
    ASSUME TypeOK, Limited(asm), NEW line \in Lines, AddFenced(line)
    PROVE  Limited(asm')
  <1>1. /\ line.key \in Key /\ line.key \notin Rejected(S)
        /\ S.spillSource \in Nat /\ now \in Nat /\ next \in Nat
    BY RecordLineType, SType DEF AddFenced, ReadRecord, TypeOK, AsmTypeOK
  <1>2. \/ asm' = S
        \/ Trackable(S, line.key) /\ asm' = Track(S, line.key, S.spillSource, now)
        \/ asm' = StartSpill(S, next, now)
    BY DEF AddFenced
  <1>3. Limited(S) /\ Limited(StartSpill(S, next, now))
    BY <1>1, SLimited, StartSpillLimited
  <1>4. Trackable(S, line.key) => Limited(Track(S, line.key, S.spillSource, now))
    BY <1>1, SLimited, TrackLimited
  <1>. QED
    BY <1>2, <1>3, <1>4

LEMMA OrphanEOELimited ==
    ASSUME TypeOK, Limited(asm), NEW line \in Lines, OrphanEOE(line)
    PROVE  Limited(asm')
  BY SLimited, MarkMixedLimited DEF OrphanEOE

LEMMA AdmitLimited ==
    ASSUME TypeOK, Limited(asm), NEW line \in Lines, Admit(line)
    PROVE  Limited(asm')
  <1> DEFINE k == line.key
             stored == Stored(S, k, next, line.bytes, now)
             closed == IF Boundary(line.type, k \in Pending(S)) = None THEN {} ELSE {k}
             settled == Finish(stored, closed)
  <1>1. /\ asm' = Finish(settled, Expired(settled, now))
        /\ ~LimitHit(S, k, line.bytes)
    BY DEF Admit
  <1>2. k \in Key /\ line.bytes \in Nat /\ next \in Nat /\ now \in Nat
    BY RecordLineType DEF Admit, ReadRecord, TypeOK
  <1>3. Limited(stored)
    BY <1>1, <1>2, SLimited, StoredLimited
  <1>4. closed \in SUBSET Pending(stored)
    <2>1. k \in Pending(stored)
      <3>1. StoredAs(S, stored, k, next)
        BY <1>2, SType, StoredLemma
      <3>. HIDE DEF stored
      <3>. QED
        BY <3>1 DEF StoredAs
    <2>. HIDE DEF stored, k
    <2>. QED
      BY <2>1
  <1>. HIDE DEF stored, closed
  <1>5. Limited(settled)
    BY <1>3, <1>4, FinishLimited
  <1>. HIDE DEF settled
  <1>6. Expired(settled, now) \in SUBSET Pending(settled)
    BY DEF Expired
  <1>. QED
    BY <1>1, <1>5, <1>6, FinishLimited

LEMMA RefuseLimited ==
    ASSUME TypeOK, Limited(asm), NEW line \in Lines, Refuse(line)
    PROVE  Limited(asm')
  <1> DEFINE k == line.key
             marked == MarkMixed(S, k)
             source == IF k \in Pending(S) THEN S.pending[k].first ELSE next
             dropped == Finish(marked, {k} \cap Pending(S))
  <1>1. asm' \in {dropped, Isolate(dropped, k, source, now)} /\ k \notin Rejected(S)
    BY DEF Refuse, Admissible
  <1>2. k \in Key /\ next \in Nat /\ now \in Nat
    BY RecordLineType DEF Refuse, ReadRecord, TypeOK
  <1>3. source \in Nat
    BY <1>2, SType, RetainedType
  <1>4. /\ Limited(marked) /\ Pending(marked) = Pending(S) /\ Rejected(marked) = Rejected(S)
    BY SLimited, MarkMixedLimited DEF SameLoad, SameCharge
  <1>. HIDE DEF k, source, marked
  <1>5. Limited(dropped) /\ Rejected(dropped) = Rejected(S)
    BY <1>2, <1>4, DroppedLimited
  <1>. HIDE DEF dropped
  <1>6. Limited(Isolate(dropped, k, source, now))
    BY <1>1, <1>2, <1>3, <1>5, IsolateLimited
  <1>. QED
    BY <1>1, <1>5, <1>6

LEMMA RejectKnownLineLimited ==
    ASSUME TypeOK, Limited(asm), NEW line \in Lines, RejectKnownLine(line)
    PROVE  Limited(asm')
  <1> DEFINE k == line.key
             source == IF k \in Pending(S) THEN S.pending[k].first ELSE next
             dropped == Finish(S, {k} \cap Pending(S))
  <1>1. asm' = IF k \in Rejected(S) THEN Touch(dropped, k, now)
               ELSE Isolate(dropped, k, source, now)
    BY DEF RejectKnownLine
  <1>2. k \in Key /\ next \in Nat /\ now \in Nat
    BY OversizeLineType DEF RejectKnownLine, TypeOK
  <1>3. source \in Nat
    BY <1>2, SType, RetainedType
  <1>. HIDE DEF k, source
  <1>4. Limited(dropped) /\ Rejected(dropped) = Rejected(S)
    BY <1>2, SLimited, DroppedLimited
  <1>. HIDE DEF dropped
  <1>5. CASE k \in Rejected(S)
    <2>1. k \in Rejected(dropped)
      BY <1>4, <1>5
    <2>2. Limited(Touch(dropped, k, now))
      BY <1>2, <1>4, <2>1, TouchLimited
    <2>. QED
      BY <1>1, <1>5, <2>2
  <1>6. CASE k \notin Rejected(S)
    <2>1. k \notin Rejected(dropped)
      BY <1>4, <1>6
    <2>2. Limited(Isolate(dropped, k, source, now))
      BY <1>2, <1>3, <1>4, <2>1, IsolateLimited
    <2>. QED
      BY <1>1, <1>6, <2>2
  <1>. QED
    BY <1>5, <1>6

LEMMA RejectUnknownLineLimited ==
    ASSUME TypeOK, Limited(asm), NEW line \in Lines, RejectUnknownLine(line)
    PROVE  Limited(asm')
  <1>1. Limited(FlushAll(S))
    BY SLimited, FlushAllLimited
  <1>2. asm' = StartSpill(FlushAll(S), next, now) /\ next \in Nat /\ now \in Nat
    BY DEF RejectUnknownLine, TypeOK
  <1>. QED
    BY <1>1, <1>2, StartSpillLimited

LEMMA NextLimited ==
    ASSUME TypeOK, Limited(asm), [Next]_vars
    PROVE  Limited(asm')
  <1>1. ASSUME NEW line \in Lines, HandleLine(line) PROVE Limited(asm')
    <2>1. CASE ParseFailure(line)
      BY <2>1, SLimited DEF ParseFailure
    <2>. QED
      BY <1>1, <2>1, AddRejectedLimited, CloseFullGroupLimited, AddFencedLimited,
         OrphanEOELimited, AdmitLimited, RefuseLimited, RejectKnownLineLimited,
         RejectUnknownLineLimited DEF HandleLine
  <1>2. CASE Idle
    BY <1>2, SLimited DEF Idle
  <1>3. CASE FlushAllWith("source_gap")
    BY <1>3, FlushAllLimited DEF FlushAllWith
  <1>4. CASE Tick
    BY <1>4 DEF Tick
  <1>5. CASE UNCHANGED vars
    BY <1>5 DEF vars
  <1>. QED
    BY <1>1, <1>2, <1>3, <1>4, <1>5 DEF Next

LEMMA InitLimited == Init => Limited(asm)
  <1>. SUFFICES ASSUME Init PROVE Limited(asm)
    OBVIOUS
  <1>1. asm.pending = << >> /\ asm.rejected = << >> /\ asm.pendingBytes = 0
        /\ asm.rejectionBytes = 0
    BY DEF Init, EmptyAssembler
  <1>2. DOMAIN << >> = {}
    OBVIOUS
  <1>3. AsmTypeOK(asm)
    BY EmptyType DEF Init
  <1>. QED
    BY <1>1, <1>2, <1>3, NothingLimited

LEMMA LimitedHolds == ASSUME Limited(asm) PROVE LimitsHold
  <1>1. MapThenSumSet(LAMBDA k : asm.pending[k].bytes, Pending(asm))
          = Weight(Sizes(asm), Pending(asm))
    <2>1. /\ Sized(Sizes(asm), Pending(asm))
          /\ \A k \in Pending(asm) : Sizes(asm)[k] = asm.pending[k].bytes
      BY SizesType DEF Limited, GroupsLimited, Sizes
    <2>. QED
      BY <2>1, PendingSum
  <1>2. MapThenSumSet(KeyBytes, Rejected(asm)) = Weight(SizeOfKey, Rejected(asm))
    <2>1. Rejected(asm) \in SUBSET Key /\ IsFiniteSet(Rejected(asm))
      BY DEF Limited, AsmTypeOK, KeysLimited
    <2>. QED
      BY <2>1, RejectedSum
  <1>. QED
    BY <1>1, <1>2 DEF LimitsHold, Limited, GroupsLimited, KeysLimited

\* The unresolved state never exceeds the configured limits, and the two byte
\* counters the limits are tested with are the true sums (assembler.go
\* checkLimits and finish, isolation.go rejectionBytes), for every limit, every
\* weighing of the keys and every sequence of lines.
THEOREM LimitsRespected == Spec => []LimitsHold
  <1>1. Init => TypeOK /\ Limited(asm)
    BY InitType, InitLimited
  <1>2. TypeOK /\ Limited(asm) /\ [Next]_vars => (TypeOK /\ Limited(asm))'
    BY NextType, NextLimited
  <1>3. TypeOK /\ Limited(asm) => LimitsHold
    BY LimitedHolds
  <1>. QED
    BY <1>1, <1>2, <1>3, PTL DEF Spec

-----------------------------------------------------------------------------
(* Refused evidence, and what each operator does to the memory of it.      *)

Refusals == [Key -> Nat \cup {None}]

\* When evidence of k is refused at t; when its terminator has been seen.
Refused(r, k, t) == [r EXCEPT ![k] = t]
Settled(r, k) == [r EXCEPT ![k] = None]

LEMMA RefusalsType ==
    ASSUME NEW r \in Refusals, NEW k \in Key, NEW t \in Nat
    PROVE  Refused(r, k, t) \in Refusals /\ Settled(r, k) \in Refusals
  BY DEF Refusals, Refused, Settled

LEMMA RememberedServiced ==
    ASSUME NEW a, AsmTypeOK(a), NEW t \in Nat, NEW r \in Refusals, Remembered(a, t, r)
    PROVE  Remembered(Serviced(a, t), t, r)
  <1> DEFINE b == Serviced(a, t)
  <1>1. /\ Pending(b) \subseteq Pending(a)
        /\ Rejected(b) = {k \in Rejected(a) : ~(t >= a.rejected[k].lastSeen + Timeout)}
        /\ \A k \in Rejected(b) : b.rejected[k] = a.rejected[k]
        /\ Fenced(b) <=> Fenced(a) /\ ~(t >= a.spillSince + Timeout)
        /\ Fenced(b) => b.spillSince = a.spillSince
    BY ServicedLemma
  <1>. HIDE DEF b
  <1>2. Pending(b) \cap Rejected(b) = {}
    BY <1>1 DEF Remembered
  <1>3. ASSUME NEW k \in Key, NEW s \in Nat, KeyRemembered(a, t, k, s)
        PROVE  KeyRemembered(b, t, k, s)
    <2>1. SUFFICES ASSUME t < s + Timeout
                   PROVE  /\ k \notin Pending(b)
                          /\ \/ k \in Rejected(b) /\ b.rejected[k].lastSeen >= s
                             \/ Fenced(b) /\ b.spillSince >= s
      BY <1>3 DEF KeyRemembered
    <2>2. k \notin Pending(b)
      BY <1>1, <1>3, <2>1 DEF KeyRemembered
    <2>3. CASE k \in Rejected(a) /\ a.rejected[k].lastSeen >= s
      <3>1. a.rejected[k].lastSeen \in Nat
        BY <2>3 DEF AsmTypeOK, Rejection
      <3>2. ~(t >= a.rejected[k].lastSeen + Timeout)
        BY <2>1, <2>3, <3>1, TimeAssumption
      <3>. QED
        BY <1>1, <2>2, <2>3, <3>2
    <2>4. CASE Fenced(a) /\ a.spillSince >= s
      <3>1. a.spillSince \in Nat
        BY <2>4 DEF AsmTypeOK
      <3>2. ~(t >= a.spillSince + Timeout)
        BY <2>1, <2>4, <3>1, TimeAssumption
      <3>. QED
        BY <1>1, <2>2, <2>4, <3>2
    <2>. QED
      BY <1>3, <2>1, <2>3, <2>4 DEF KeyRemembered
  <1>4. ASSUME NEW k \in Key, r[k] # None PROVE KeyRemembered(b, t, k, r[k])
    <2>1. r[k] \in Nat
      BY <1>4 DEF Refusals
    <2>. QED
      BY <1>3, <1>4, <2>1 DEF Remembered
  <1>5. Remembered(b, t, r)
    BY <1>2, <1>4 DEF Remembered
  <1>. QED
    BY <1>5 DEF b

\* How Remembered survives a step that leaves every other key as it was, while
\* k is refused at t, settled, or not concerned.
LEMMA RememberedOthers ==
    ASSUME NEW a, NEW b, NEW k \in Key, NEW t, NEW r \in Refusals, NEW u \in Refusals,
           Remembered(a, t, r),
           Pending(b) \cap Rejected(b) = {},
           \A q \in Key \ {k} : u[q] = r[q],
           \A q \in Key \ {k}, s \in Nat :
              KeyRemembered(a, t, q, s) => KeyRemembered(b, t, q, s),
           u[k] # None => KeyRemembered(b, t, k, u[k])
    PROVE  Remembered(b, t, u)
  <1>1. ASSUME NEW q \in Key, u[q] # None, q # k PROVE KeyRemembered(b, t, q, u[q])
    <2>1. u[q] \in Nat /\ u[q] = r[q]
      BY <1>1 DEF Refusals
    <2>2. KeyRemembered(a, t, q, r[q])
      BY <1>1, <2>1 DEF Remembered
    <2>. QED
      BY <1>1, <2>1, <2>2
  <1>. QED
    BY <1>1 DEF Remembered

\* Closing groups, or changing what is stored in them, forgets nothing.
LEMMA RememberedFewer ==
    ASSUME NEW a, NEW b, NEW t \in Nat, NEW r \in Refusals,
           Pending(b) \subseteq Pending(a), SameIsolation(a, b), Remembered(a, t, r)
    PROVE  Remembered(b, t, r)
  <1>1. ASSUME NEW k, NEW s \in Nat, KeyRemembered(a, t, k, s)
        PROVE  KeyRemembered(b, t, k, s)
    BY <1>1 DEF KeyRemembered, SameIsolation
  <1>2. ASSUME NEW k \in Key, r[k] # None PROVE KeyRemembered(b, t, k, r[k])
    <2>1. r[k] \in Nat
      BY <1>2 DEF Refusals
    <2>. QED
      BY <1>1, <1>2, <2>1 DEF Remembered
  <1>3. Pending(b) \cap Rejected(b) = {}
    BY DEF Remembered, SameIsolation
  <1>. QED
    BY <1>2, <1>3 DEF Remembered

LEMMA RememberedFinish ==
    ASSUME NEW a, AsmTypeOK(a), NEW keys, NEW t \in Nat, NEW r \in Refusals,
           Remembered(a, t, r)
    PROVE  Remembered(Finish(a, keys), t, r)
  <1>1. Pending(Finish(a, keys)) \subseteq Pending(a) /\ SameIsolation(a, Finish(a, keys))
    BY FinishLemma DEF SameIsolation
  <1>. QED
    BY <1>1, RememberedFewer

LEMMA RememberedMarkMixed ==
    ASSUME NEW a, AsmTypeOK(a), NEW k, NEW t \in Nat, NEW r \in Refusals,
           Remembered(a, t, r)
    PROVE  Remembered(MarkMixed(a, k), t, r)
  <1>1. Pending(MarkMixed(a, k)) = Pending(a) /\ SameIsolation(a, MarkMixed(a, k))
    BY MarkMixedLemma DEF SameGroups
  <1>. QED
    BY <1>1, RememberedFewer

\* A key neither rejected nor fenced out carries no fresh refusal, so that
\* opening a group for it is sound.
LEMMA RememberedStored ==
    ASSUME NEW a, AsmTypeOK(a), NEW k \in Key, NEW n \in Nat, NEW bytes \in Nat,
           NEW t \in Nat, NEW r \in Refusals, Remembered(a, t, r),
           k \notin Rejected(a), k \notin Pending(a) => ~Fenced(a)
    PROVE  Remembered(Stored(a, k, n, bytes, t), t, r)
  <1> DEFINE b == Stored(a, k, n, bytes, t)
  <1>1. \A q : q \in Pending(b) <=> q \in Pending(a) \/ q = k
    BY StoredLemma DEF StoredAs
  <1>2. SameIsolation(a, b)
    BY StoredLemma DEF StoredAs
  <1>. HIDE DEF b
  <1>3. Pending(b) \cap Rejected(b) = {}
    BY <1>1, <1>2 DEF Remembered, SameIsolation
  <1>4. ASSUME NEW q \in Key \ {k}, NEW s \in Nat, KeyRemembered(a, t, q, s)
        PROVE  KeyRemembered(b, t, q, s)
    BY <1>1, <1>2, <1>4 DEF KeyRemembered, SameIsolation
  <1>5. r[k] # None => KeyRemembered(b, t, k, r[k])
    <2>1. SUFFICES ASSUME r[k] # None PROVE KeyRemembered(b, t, k, r[k])
      OBVIOUS
    <2>2. KeyRemembered(a, t, k, r[k])
      BY <2>1 DEF Remembered
    <2>. QED
      BY <2>2 DEF KeyRemembered
  <1>6. Remembered(b, t, r)
    BY <1>3, <1>4, <1>5, RememberedOthers
  <1>. QED
    BY <1>6 DEF b

LEMMA RefusedFields ==
    ASSUME NEW r \in Refusals, NEW k \in Key, NEW t \in Nat
    PROVE  /\ Refused(r, k, t)[k] = t /\ Settled(r, k)[k] = None
           /\ \A q \in Key \ {k} : Refused(r, k, t)[q] = r[q]
           /\ \A q \in Key \ {k} : Settled(r, k)[q] = r[q]
  BY DEF Refusals, Refused, Settled

LEMMA RememberedRefused ==
    ASSUME NEW a, NEW b, NEW k \in Key, NEW t \in Nat, NEW r \in Refusals,
           Remembered(a, t, r),
           Pending(b) \cap Rejected(b) = {},
           \A q \in Key \ {k}, s \in Nat :
              KeyRemembered(a, t, q, s) => KeyRemembered(b, t, q, s),
           KeyRemembered(b, t, k, t)
    PROVE  Remembered(b, t, Refused(r, k, t))
  <1> DEFINE u == Refused(r, k, t)
  <1>1. u \in Refusals
    BY RefusalsType
  <1>2. u[k] = t /\ \A q \in Key \ {k} : u[q] = r[q]
    BY RefusedFields
  <1>. HIDE DEF u
  <1>3. Remembered(b, t, u)
    BY <1>1, <1>2, RememberedOthers
  <1>. QED
    BY <1>3 DEF u

LEMMA RememberedTouch ==
    ASSUME NEW a, AsmTypeOK(a), NEW k \in Key, k \in Rejected(a), NEW t \in Nat,
           NEW r \in Refusals, Remembered(a, t, r)
    PROVE  Remembered(Touch(a, k, t), t, Refused(r, k, t))
  <1> DEFINE b == Touch(a, k, t)
  <1>1. /\ b.pending = a.pending
        /\ Rejected(b) = Rejected(a)
        /\ b.rejected[k].lastSeen = t
        /\ \A q \in Rejected(a) : q # k => b.rejected[q] = a.rejected[q]
        /\ b.spillSince = a.spillSince
    BY TouchLemma
  <1>. HIDE DEF b
  <1>2. ASSUME NEW q \in Key \ {k}, NEW s \in Nat, KeyRemembered(a, t, q, s)
        PROVE  KeyRemembered(b, t, q, s)
    BY <1>1, <1>2 DEF KeyRemembered
  <1>3. Pending(b) \cap Rejected(b) = {} /\ KeyRemembered(b, t, k, t)
    BY <1>1 DEF Remembered, KeyRemembered
  <1>4. Remembered(b, t, Refused(r, k, t))
    BY <1>2, <1>3, RememberedRefused
  <1>. QED
    BY <1>4 DEF b

LEMMA RememberedTrack ==
    ASSUME NEW a, AsmTypeOK(a), NEW k \in Key, k \notin Pending(a),
           NEW source \in Nat, NEW t \in Nat, NEW r \in Refusals, Remembered(a, t, r)
    PROVE  Remembered(Track(a, k, source, t), t, Refused(r, k, t))
  <1> DEFINE b == Track(a, k, source, t)
  <1>1. /\ b.pending = a.pending
        /\ \A q : q \in Rejected(b) <=> q \in Rejected(a) \/ q = k
        /\ b.rejected[k].lastSeen = t
        /\ \A q \in Rejected(a) : q # k => b.rejected[q] = a.rejected[q]
        /\ b.spillSince = a.spillSince
    BY TrackLemma
  <1>. HIDE DEF b
  <1>2. ASSUME NEW q \in Key \ {k}, NEW s \in Nat, KeyRemembered(a, t, q, s)
        PROVE  KeyRemembered(b, t, q, s)
    BY <1>1, <1>2 DEF KeyRemembered
  <1>3. Pending(b) \cap Rejected(b) = {} /\ KeyRemembered(b, t, k, t)
    BY <1>1 DEF Remembered, KeyRemembered
  <1>4. Remembered(b, t, Refused(r, k, t))
    BY <1>2, <1>3, RememberedRefused
  <1>. QED
    BY <1>4 DEF b

LEMMA RememberedStartSpill ==
    ASSUME NEW a, AsmTypeOK(a), NEW k \in Key, k \notin Pending(a),
           NEW source \in Nat, NEW t \in Nat, NEW r \in Refusals, Remembered(a, t, r)
    PROVE  Remembered(StartSpill(a, source, t), t, Refused(r, k, t))
  <1> DEFINE b == StartSpill(a, source, t)
  <1>1. b.pending = a.pending /\ b.rejected = a.rejected /\ Fenced(b) /\ b.spillSince = t
    BY StartSpillLemma
  <1>. HIDE DEF b
  <1>2. ASSUME NEW q \in Key \ {k}, NEW s \in Nat, KeyRemembered(a, t, q, s)
        PROVE  KeyRemembered(b, t, q, s)
    BY <1>1, <1>2 DEF KeyRemembered
  <1>3. Pending(b) \cap Rejected(b) = {} /\ KeyRemembered(b, t, k, t)
    BY <1>1 DEF Remembered, KeyRemembered
  <1>4. Remembered(b, t, Refused(r, k, t))
    BY <1>2, <1>3, RememberedRefused
  <1>. QED
    BY <1>4 DEF b

LEMMA RememberedIsolate ==
    ASSUME NEW a, AsmTypeOK(a), NEW k \in Key, k \notin Pending(a),
           NEW source \in Nat, NEW t \in Nat, NEW r \in Refusals, Remembered(a, t, r)
    PROVE  Remembered(Isolate(a, k, source, t), t, Refused(r, k, t))
  <1>1. Isolate(a, k, source, t) \in {Track(a, k, source, t), StartSpill(a, source, t)}
    BY DEF Isolate
  <1>2. Remembered(Track(a, k, source, t), t, Refused(r, k, t))
    BY RememberedTrack
  <1>3. Remembered(StartSpill(a, source, t), t, Refused(r, k, t))
    BY RememberedStartSpill
  <1>. QED
    BY <1>1, <1>2, <1>3

LEMMA RememberedSettled ==
    ASSUME NEW a, NEW k \in Key, NEW t \in Nat, NEW r \in Refusals, Remembered(a, t, r)
    PROVE  Remembered(a, t, Settled(r, k))
  <1>1. Pending(a) \cap Rejected(a) = {}
    BY DEF Remembered
  <1>. QED
    BY <1>1, RefusalsType, RefusedFields, RememberedOthers

LEMMA RememberedForget ==
    ASSUME NEW a, AsmTypeOK(a), NEW k \in Key, NEW t \in Nat, NEW r \in Refusals,
           Remembered(a, t, r)
    PROVE  Remembered(Forget(a, k), t, Settled(r, k))
  <1> DEFINE b == Forget(a, k)
  <1>1. /\ b.pending = a.pending
        /\ Rejected(b) = Rejected(a) \ {k}
        /\ \A q \in Rejected(b) : b.rejected[q] = a.rejected[q]
        /\ b.spillSince = a.spillSince
    BY ForgetLemma
  <1>. HIDE DEF b
  <1>2. ASSUME NEW q \in Key \ {k}, NEW s \in Nat, KeyRemembered(a, t, q, s)
        PROVE  KeyRemembered(b, t, q, s)
    BY <1>1, <1>2 DEF KeyRemembered
  <1>3. Pending(b) \cap Rejected(b) = {}
    BY <1>1 DEF Remembered
  <1>4. Remembered(b, t, Settled(r, k))
    BY <1>2, <1>3, RefusalsType, RefusedFields, RememberedOthers
  <1>. QED
    BY <1>4 DEF b

-----------------------------------------------------------------------------
(* The actions.                                                            *)

Inv == TypeOK /\ TaintRemembered

LEMMA AtSRemembers ==
    ASSUME Inv
    PROVE  /\ AsmTypeOK(S) /\ Remembered(S, now, broken)
           /\ now \in Nat /\ next \in Nat /\ broken \in Refusals
  <1>1. AsmTypeOK(asm) /\ now \in Nat /\ next \in Nat /\ broken \in Refusals
    BY DEF Inv, TypeOK, Refusals
  <1>. QED
    BY <1>1, SType, RememberedServiced DEF Inv, TaintRemembered, S

LEMMA TaintIsRefused ==
    ASSUME NEW k
    PROVE  /\ Taint(k) => broken' = Refused(broken, k, now)
           /\ Untaint(k) => broken' = Settled(broken, k)
  BY DEF Taint, Untaint, Refused, Settled

LEMMA AddRejectedRemembers ==
    ASSUME Inv, NEW line \in Lines, AddRejected(line)
    PROVE  Remembered(asm', now, broken')
  <1>1. line.key \in Key
    BY RecordLineType DEF AddRejected, ReadRecord
  <1>2. CASE ClosesRejection(line.type)
    <2>1. asm' = Forget(S, line.key) /\ broken' = Settled(broken, line.key)
      BY <1>2, TaintIsRefused DEF AddRejected, TaintUnless
    <2>. QED
      BY <1>1, <2>1, AtSRemembers, RememberedForget
  <1>3. CASE ~ClosesRejection(line.type)
    <2>1. asm' = Touch(S, line.key, now) /\ broken' = Refused(broken, line.key, now)
      BY <1>3, TaintIsRefused DEF AddRejected, TaintUnless
    <2>. QED
      BY <1>1, <2>1, AtSRemembers, RememberedTouch DEF AddRejected
  <1>. QED
    BY <1>2, <1>3

LEMMA CloseFullGroupRemembers ==
    ASSUME Inv, NEW line \in Lines, CloseFullGroup(line)
    PROVE  Remembered(asm', now, broken')
  BY AtSRemembers, RememberedFinish DEF CloseFullGroup

LEMMA AddFencedRemembers ==
    ASSUME Inv, NEW line \in Lines, AddFenced(line)
    PROVE  Remembered(asm', now, broken')
  <1>1. line.key \in Key /\ line.key \notin Pending(S)
    BY RecordLineType DEF AddFenced, ReadRecord
  <1>2. S.spillSource \in Nat
    BY AtSRemembers DEF AddFenced, AsmTypeOK
  <1>3. CASE ClosesRejection(line.type)
    <2>1. asm' = S /\ broken' = Settled(broken, line.key)
      BY <1>3, TaintIsRefused DEF AddFenced, TaintUnless
    <2>. QED
      BY <1>1, <2>1, AtSRemembers, RememberedSettled
  <1>4. CASE ~ClosesRejection(line.type)
    <2>1. broken' = Refused(broken, line.key, now)
      BY <1>4, TaintIsRefused DEF AddFenced, TaintUnless
    <2>2. asm' \in {Track(S, line.key, S.spillSource, now), StartSpill(S, next, now)}
      BY <1>4 DEF AddFenced
    <2>3. Remembered(Track(S, line.key, S.spillSource, now), now, broken')
      BY <1>1, <1>2, <2>1, AtSRemembers, RememberedTrack
    <2>4. Remembered(StartSpill(S, next, now), now, broken')
      BY <1>1, <2>1, AtSRemembers, RememberedStartSpill
    <2>. QED
      BY <2>2, <2>3, <2>4
  <1>. QED
    BY <1>3, <1>4

LEMMA OrphanEOERemembers ==
    ASSUME Inv, NEW line \in Lines, OrphanEOE(line)
    PROVE  Remembered(asm', now, broken')
  BY AtSRemembers, RememberedMarkMixed DEF OrphanEOE

LEMMA AdmitRemembers ==
    ASSUME Inv, NEW line \in Lines, Admit(line)
    PROVE  Remembered(asm', now, broken')
  <1> DEFINE stored == Stored(S, line.key, next, line.bytes, now)
  <1>1. line.key \in Key /\ line.bytes \in Nat
    BY RecordLineType DEF Admit, ReadRecord
  <1>2. /\ line.key \notin Rejected(S)
        /\ line.key \notin Pending(S) => ~Fenced(S)
        /\ broken' = broken
    BY DEF Admit, Admissible
  <1>3. PICK keys, others : asm' = Finish(Finish(stored, keys), others)
    BY DEF Admit
  <1>4. AsmTypeOK(stored)
    BY <1>1, AtSRemembers, StoredLemma
  <1>5. Remembered(stored, now, broken)
    BY <1>1, <1>2, AtSRemembers, RememberedStored
  <1>. HIDE DEF stored
  <1>6. AsmTypeOK(Finish(stored, keys)) /\ Remembered(Finish(stored, keys), now, broken)
    BY <1>4, <1>5, AtSRemembers, FinishLemma, RememberedFinish
  <1>. QED
    BY <1>2, <1>3, <1>6, AtSRemembers, RememberedFinish

LEMMA RefuseRemembers ==
    ASSUME Inv, NEW line \in Lines, Refuse(line)
    PROVE  Remembered(asm', now, broken')
  <1> DEFINE k == line.key
             source == IF k \in Pending(S) THEN S.pending[k].first ELSE next
             marked == MarkMixed(S, k)
             dropped == Finish(marked, {k} \cap Pending(S))
  <1>1. k \in Key
    BY RecordLineType DEF Refuse, ReadRecord
  <1>2. source \in Nat
    BY <1>1, AtSRemembers, RetainedType
  <1>3. /\ AsmTypeOK(marked) /\ Pending(marked) = Pending(S)
        /\ Remembered(marked, now, broken)
    BY AtSRemembers, MarkMixedLemma, RememberedMarkMixed DEF SameGroups
  <1>4. /\ IF ClosesRejection(line.type) THEN asm' = dropped
           ELSE asm' = Isolate(dropped, k, source, now)
        /\ TaintUnless(ClosesRejection(line.type), k)
    BY DEF Refuse
  <1>. HIDE DEF marked
  <1>5. AsmTypeOK(dropped) /\ Remembered(dropped, now, broken) /\ k \notin Pending(dropped)
    BY <1>3, AtSRemembers, FinishLemma, RememberedFinish
  <1>. HIDE DEF dropped, source, k
  <1>6. CASE ClosesRejection(line.type)
    <2>1. asm' = dropped /\ broken' = Settled(broken, k)
      BY <1>4, <1>6, TaintIsRefused DEF TaintUnless
    <2>. QED
      BY <1>1, <1>5, <2>1, AtSRemembers, RememberedSettled
  <1>7. CASE ~ClosesRejection(line.type)
    <2>1. asm' = Isolate(dropped, k, source, now) /\ broken' = Refused(broken, k, now)
      BY <1>4, <1>7, TaintIsRefused DEF TaintUnless
    <2>. QED
      BY <1>1, <1>2, <1>5, <2>1, AtSRemembers, RememberedIsolate
  <1>. QED
    BY <1>6, <1>7

LEMMA RejectKnownLineRemembers ==
    ASSUME Inv, NEW line \in Lines, RejectKnownLine(line)
    PROVE  Remembered(asm', now, broken')
  <1> DEFINE k == line.key
             source == IF k \in Pending(S) THEN S.pending[k].first ELSE next
             dropped == Finish(S, {k} \cap Pending(S))
  <1>1. k \in Key
    BY OversizeLineType DEF RejectKnownLine
  <1>2. source \in Nat
    BY <1>1, AtSRemembers, RetainedType
  <1>3. IF k \in Rejected(S) THEN asm' = Touch(dropped, k, now)
        ELSE asm' = Isolate(dropped, k, source, now)
    BY DEF RejectKnownLine
  <1>4. broken' = Refused(broken, k, now)
    BY TaintIsRefused DEF RejectKnownLine
  <1>5. /\ AsmTypeOK(dropped) /\ Remembered(dropped, now, broken)
        /\ k \notin Pending(dropped) /\ Rejected(dropped) = Rejected(S)
    BY AtSRemembers, FinishLemma, RememberedFinish
  <1>. HIDE DEF dropped, source, k
  <1>6. CASE k \in Rejected(S)
    BY <1>1, <1>3, <1>4, <1>5, <1>6, AtSRemembers, RememberedTouch
  <1>7. CASE k \notin Rejected(S)
    BY <1>1, <1>2, <1>3, <1>4, <1>5, <1>7, AtSRemembers, RememberedIsolate
  <1>. QED
    BY <1>6, <1>7

\* The fence that follows a line without a key stands for every key at once.
LEMMA RejectUnknownLineRemembers ==
    ASSUME Inv, NEW line \in Lines, RejectUnknownLine(line)
    PROVE  Remembered(asm', now, broken')
  <1> DEFINE flushed == FlushAll(S)
             fenced == StartSpill(flushed, next, now)
  <1>1. AsmTypeOK(flushed) /\ Pending(flushed) = {}
    BY AtSRemembers, FlushAllLemma
  <1>2. asm' = fenced /\ broken' = [k \in Key |-> now]
    BY DEF RejectUnknownLine
  <1>. HIDE DEF flushed
  <1>3. now \in Nat /\ next \in Nat
    BY AtSRemembers
  <1>4. fenced.pending = flushed.pending /\ Fenced(fenced) /\ fenced.spillSince = now
    BY <1>1, <1>3, StartSpillLemma
  <1>. HIDE DEF fenced
  <1>. QED
    BY <1>1, <1>2, <1>3, <1>4 DEF Remembered, KeyRemembered

LEMMA FlushAllWithRemembers ==
    ASSUME Inv, NEW c, FlushAllWith(c)
    PROVE  Remembered(asm', now, broken')
  <1>1. Pending(asm') = {}
    BY FlushAllLemma DEF FlushAllWith, Inv, TypeOK
  <1>2. broken' = [k \in Key |-> None]
    BY DEF FlushAllWith
  <1>. QED
    BY <1>1, <1>2 DEF Remembered

LEMMA TickRemembers ==
    ASSUME Inv, Tick
    PROVE  Remembered(asm, now + 1, broken)
  <1>1. now \in Nat /\ broken \in Refusals
    BY AtSRemembers
  <1>2. ASSUME NEW k \in Key, broken[k] # None
        PROVE  KeyRemembered(asm, now + 1, k, broken[k])
    <2>1. broken[k] \in Nat /\ KeyRemembered(asm, now, k, broken[k])
      BY <1>1, <1>2 DEF Refusals, Inv, TaintRemembered, Remembered
    <2>. QED
      BY <1>1, <2>1, TimeAssumption DEF KeyRemembered
  <1>. QED
    BY <1>2 DEF Remembered, Inv, TaintRemembered

LEMMA NextRemembers == ASSUME Inv, [Next]_vars PROVE TaintRemembered'
  <1>1. ASSUME NEW line \in Lines, HandleLine(line) PROVE TaintRemembered'
    <2>1. now' = now
      BY <1>1 DEF HandleLine, AddRejected, CloseFullGroup, AddFenced, OrphanEOE, Admit,
        Refuse, ParseFailure, RejectKnownLine, RejectUnknownLine, ReadRecord, Read
    <2>2. ParseFailure(line) => Remembered(asm', now, broken')
      BY AtSRemembers DEF ParseFailure
    <2>3. Remembered(asm', now, broken')
      BY <1>1, <2>2, AddRejectedRemembers, CloseFullGroupRemembers, AddFencedRemembers,
         OrphanEOERemembers, AdmitRemembers, RefuseRemembers,
         RejectKnownLineRemembers, RejectUnknownLineRemembers DEF HandleLine
    <2>. QED
      BY <2>1, <2>3 DEF TaintRemembered
  <1>2. CASE Idle
    BY <1>2, AtSRemembers DEF Idle, TaintRemembered
  <1>3. CASE FlushAllWith("source_gap")
    BY <1>3, FlushAllWithRemembers DEF FlushAllWith, TaintRemembered
  <1>4. CASE Tick
    BY <1>4, TickRemembers DEF Tick, TaintRemembered
  <1>5. CASE UNCHANGED vars
    BY <1>5 DEF vars, Inv, TaintRemembered
  <1>. QED
    BY <1>1, <1>2, <1>3, <1>4, <1>5 DEF Next

LEMMA InvHolds == Spec => []Inv
  <1>1. Init => Inv
    <2>1. Init => TaintRemembered
      BY DEF Init, EmptyAssembler, TaintRemembered, Remembered
    <2>. QED
      BY <2>1, InitType DEF Inv
  <1>2. Inv /\ [Next]_vars => Inv'
    BY NextType, NextRemembers DEF Inv
  <1>. QED
    BY <1>1, <1>2, PTL DEF Spec

\* Refused evidence is remembered until it is Timeout old, in the table or by
\* the fence, however the limits, the clock and the lines interleave
\* (isolation.go AddRecovering, RejectPhysicalLine, expireRejected).
THEOREM TaintNeverForgotten == Spec => []TaintRemembered
  BY InvHolds, PTL DEF Inv

\* A key whose evidence was refused less than Timeout ago has no open group:
\* its tail is never normalized as a complete event (isolation.go AddRecovering).
THEOREM TaintedKeyOpensNoGroup == Spec => []NoTaintedGroup
  <1>1. Inv => NoTaintedGroup
    <2>. SUFFICES ASSUME Inv, NEW k \in Pending(asm), broken[k] # None
                  PROVE  now >= broken[k] + Timeout
      BY DEF NoTaintedGroup
    <2>1. k \in Key /\ broken[k] \in Nat /\ now \in Nat
      BY DEF Inv, TypeOK, AsmTypeOK
    <2>2. KeyRemembered(asm, now, k, broken[k])
      BY <2>1 DEF Inv, TaintRemembered, Remembered
    <2>. QED
      BY <2>1, <2>2, TimeAssumption DEF KeyRemembered
  <1>. QED
    BY <1>1, InvHolds, PTL

=============================================================================
