------------------------------ MODULE Rotation ------------------------------
(***************************************************************************)
(* RotatingFollower of internal/collector (rotation.go, with the reading   *)
(* of follower.go and OpenRecoveryFollower of recovery.go): it follows one *)
(* path through rename/create rotation, generation by generation, and      *)
(* notices a file that was truncated under it.                             *)
(*                                                                         *)
(* A generation is one inode, numbered in order of creation.  Its content  *)
(* is a sequence of eras, a new one for each truncation, and an era is a   *)
(* sequence of pieces; a piece says whether it ends a physical line, so    *)
(* that a line may be spread over several writes and generations.  The     *)
(* directory gives the generation under each name: 0 is the configured     *)
(* path, n its ".n" rotation.                                              *)
(*                                                                         *)
(* One call of Next is a read, a poll interval, then a look at the path;   *)
(* a discovery lists the directory and then looks at its entries one by    *)
(* one.  The rotation and the writer interleave with all of these steps.   *)
(* They are not in this repository: the rotation program renames the       *)
(* oldest file first, and the writer keeps its descriptor until it is told *)
(* to reopen.  The copy that copytruncate makes is not modelled, only its  *)
(* truncation.                                                             *)
(***************************************************************************)
EXTENDS Integers, Sequences, FiniteSets, FiniteSetsExt, Functions

CONSTANTS
    Retained,      \* highest rotation number kept
    MaxGen,        \* bound: generations ever created
    MaxPieces,     \* bound: pieces ever written
    MaxCuts,       \* bound: truncations
    MaxCrashes     \* bound: deaths of the collector

ASSUME RotationAssumption ==
    /\ Retained \in Nat \ {0} /\ MaxGen \in Nat \ {0}
    /\ MaxPieces \in Nat /\ MaxCuts \in Nat /\ MaxCrashes \in Nat

VARIABLES
    content,     \* the eras of every generation, present or deleted
    dir,         \* the generation under each name; 0 when there is none
    writing,     \* the generation the writer holds open
    rotating,    \* what the rotation program does next
    slot,        \* the rotation number it renames to
    pc,          \* where the follower is in Next
    cur, off,    \* the open generation and the offset read so far
    buf,         \* the offset up to which the reader has buffered it
    partial,     \* pieces read of a line that has not ended
    atPath,      \* currentAtPath
    queue,       \* the newer generations, as found by the last discovery
    complete,    \* CompletePosition: the end of the last complete line
    mark,        \* stableForSwitch: pending identity and size, or << >>, and
                 \* (history) the era they were observed in
    listed,      \* the directory has been listed
    todo, found, \* its names still to look at; what was found under the others
    ckpt,        \* the position on disk
    on,          \* history: the era of the open generation that was read
    blind,       \* history: another era was read, or anchored, unnoticed
    from,        \* history: where reading began without a gap since
    delivered,   \* history: pieces of lines handed over since then
    before,      \* history: pieces handed over earlier
    crashes

source == <<content, dir, writing, rotating, slot>>
reading == <<cur, off, buf, partial, complete>>
switching == <<atPath, queue, mark>>
listing == <<listed, todo, found>>
history == <<on, blind, from, delivered, before>>
vars == <<source, pc, reading, switching, listing, ckpt, history, crashes>>

Name == 0..Retained
Generations == DOMAIN content
Present == Range(dir) \ {0}
Nothing == [n \in Name |-> 0]
NameIn(names, g) == CHOOSE n \in Name : names[n] = g

Era(g) == Len(content[g])
Lines(g) == content[g][Era(g)]
SizeOf(g) == Len(Lines(g))
Size == SizeOf(cur)

\* A SourcePosition; its anchor tells in which era the prefix was sampled.
At(g, o) == [gen |-> g, off |-> o, anchor |-> IF o = 0 THEN 0 ELSE Era(g)]

\* A piece is <<generation, era, index>>.
Span(g, e, i, j) == {<<g, e, k>> : k \in i..j}
EndsLine(x) == content[x[1]][x[2]][x[3]]
After(p, x) == x[1] > p.gen \/ (x[1] = p.gen /\ x[3] > p.off)

-----------------------------------------------------------------------------
(* The writer and the rotation program.                                    *)

Collector == <<pc, reading, switching, listing, ckpt, history, crashes>>

Pieces(g) == UNION {Span(g, e, 1, Len(content[g][e])) : e \in 1..Era(g)}
Written == Cardinality(UNION {Pieces(g) : g \in Generations})
Cuts == Cardinality(UNION {{g} \X (2..Era(g)) : g \in Generations})

Write(ends) ==
    /\ Written < MaxPieces
    /\ content' = [content EXCEPT ![writing][Era(writing)] = Append(@, ends)]
    /\ UNCHANGED <<dir, writing, rotating, slot, Collector>>

\* A file that is present is cut to nothing; the writer appends to it again.
Truncate(g) ==
    /\ Cuts < MaxCuts
    /\ SizeOf(g) > 0
    /\ content' = [content EXCEPT ![g] = Append(@, << >>)]
    /\ UNCHANGED <<dir, writing, rotating, slot, Collector>>

\* Bound: rotations are so far apart that no second one begins while a
\* discovery still goes by a file that a first one has renamed since.
Overtaken == \E n \in Name : found[n] \notin {0, dir[n]}

BeginRotation ==
    /\ rotating = "nothing" /\ Len(content) < MaxGen
    /\ ~Overtaken
    /\ rotating' = "rename" /\ slot' = Retained
    /\ UNCHANGED <<content, dir, writing, Collector>>

\* Rename the file before slot to slot; whatever was under slot is gone.
Rename ==
    /\ rotating = "rename"
    /\ dir' = IF dir[slot - 1] = 0 THEN dir
              ELSE [dir EXCEPT ![slot] = dir[slot - 1], ![slot - 1] = 0]
    /\ rotating' = IF slot = 1 THEN "create" ELSE "rename"
    /\ slot' = slot - 1
    /\ UNCHANGED <<content, writing, Collector>>

\* The oldest rotation is removed, or compressed, which discovery passes over.
Expire ==
    /\ rotating = "nothing"
    /\ \E n \in Name \ {0} :
          /\ dir[n] # 0 /\ \A k \in (n + 1)..Retained : dir[k] = 0
          /\ dir' = [dir EXCEPT ![n] = 0]
    /\ UNCHANGED <<content, writing, rotating, slot, Collector>>

Create ==
    /\ rotating = "create"
    /\ content' = Append(content, << << >> >>)
    /\ dir' = [dir EXCEPT ![0] = Len(content) + 1]
    /\ rotating' = "reopen"
    /\ UNCHANGED <<writing, slot, Collector>>

Reopen ==
    /\ rotating = "reopen"
    /\ writing' = Len(content)
    /\ rotating' = "nothing"
    /\ UNCHANGED <<content, dir, slot, Collector>>

-----------------------------------------------------------------------------
(* The end of a process.                                                   *)

\* What a follower had in memory goes with it.
Drop ==
    /\ cur' = complete'.gen /\ on' = 1 /\ off' = 0 /\ buf' = 0 /\ partial' = {}
    /\ atPath' = FALSE /\ queue' = << >> /\ mark' = << >>
    /\ listed' = FALSE /\ todo' = {} /\ found' = Nothing
    /\ before' = before \cup delivered /\ delivered' = {}
    /\ UNCHANGED <<source, ckpt, blind, from>>

\* A fatal error, or death: the position on disk remains, and the next process
\* starts, once the supervisor runs it.
Exit == pc' = "start" /\ complete' = ckpt /\ Drop

\* A source gap: recovery opens another follower in this one's place.
Gap == pc' = "gap" /\ UNCHANGED <<complete, crashes>> /\ Drop

Crash ==
    /\ pc # "start" /\ crashes < MaxCrashes
    /\ crashes' = crashes + 1
    /\ Exit

-----------------------------------------------------------------------------
(* Discovery: ReadDir, then Info of each entry in the order of the names.  *)

Discovering == pc \in {"refresh", "await", "find", "start", "gap"}

\* A recovery opens the path before it discovers anything.
ReadDir ==
    /\ Discovering /\ ~listed
    /\ pc = "gap" => dir[0] # 0
    /\ listed' = TRUE
    /\ todo' = {n \in Name : dir[n] # 0}
    /\ UNCHANGED <<source, pc, reading, switching, found, ckpt, history, crashes>>

Info ==
    /\ listed /\ todo # {}
    /\ LET n == Min(todo)
       IN /\ dir[n] \notin Range(found)
          /\ found' = [found EXCEPT ![n] = dir[n]]
          /\ todo' = todo \ {n}
    /\ UNCHANGED <<source, pc, reading, switching, listed, ckpt, history, crashes>>

\* An entry that is gone since it was listed, or a generation that is met
\* under a second name, is a fatal error.
InfoFails ==
    /\ listed /\ todo # {}
    /\ dir[Min(todo)] \in Range(found) \cup {0}
    /\ Exit
    /\ UNCHANGED crashes

Discovered == listed /\ todo = {}
Forget == listed' = FALSE /\ todo' = {} /\ found' = Nothing

\* The names newer than n, oldest first, as the queue of a follower at n.
QueueAfter(n) ==
    LET m == Cardinality({k \in 0..(n - 1) : found[k] # 0})
        nth(i) == CHOOSE k \in 0..(n - 1) :
                    /\ found[k] # 0
                    /\ Cardinality({j \in k..(n - 1) : found[j] # 0}) = i
    IN [i \in 1..m |-> [gen |-> found[nth(i)], name |-> nth(i)]]

\* validateGenerationChain: .n, ..., .1 and the path, none missing.
Contiguous(n) == \A k \in 0..n : found[k] # 0

-----------------------------------------------------------------------------
(* Next: reading.                                                          *)

\* What ReadSlice can reach: the buffer, of the era it was filled from, and
\* the file behind it, as it is now.
Buffered == Span(cur, on, off + 1, buf)
Behind == Span(cur, Era(cur), buf + 1, Size)
EndsIn(e, i, j) == {k \in i..j : content[cur][e][k]}
BufferedEnds == EndsIn(on, off + 1, buf)
BehindEnds == EndsIn(Era(cur), buf + 1, Size)
UpTo(end) == {x \in Buffered \cup Behind : x[3] <= end}

\* A line end in the buffer: the line is handed over with the anchor of the
\* file as it is now.
ReadBuffered ==
    /\ pc = "read"
    /\ BufferedEnds # {}
    /\ LET end == Min(BufferedEnds)
       IN /\ end <= Size
          /\ delivered' = delivered \cup partial \cup UpTo(end)
          /\ off' = end
          /\ complete' = At(cur, end)
    /\ partial' = {}
    /\ blind' = (blind \/ on # Era(cur))
    /\ UNCHANGED <<source, pc, cur, buf, switching, listing, ckpt, on, from,
                   before, crashes>>

\* ContentAnchor cannot read a prefix that was truncated: a fatal error.
AnchorFails ==
    /\ pc = "read"
    /\ BufferedEnds # {}
    /\ Min(BufferedEnds) > Size
    /\ Exit
    /\ UNCHANGED crashes

\* No line end in the buffer: it is filled with all that the file has behind it.
Fill ==
    /\ BufferedEnds = {}
    /\ buf' = Max({buf, Size})
    /\ on' = IF Size > buf THEN Era(cur) ELSE on
    /\ blind' = (blind \/ (0 < buf /\ buf < Size /\ on # Era(cur)))

ReadFilled ==
    /\ pc = "read"
    /\ Fill
    /\ BehindEnds # {}
    /\ LET end == Min(BehindEnds)
       IN /\ delivered' = delivered \cup partial \cup UpTo(end)
          /\ off' = end
          /\ complete' = At(cur, end)
    /\ partial' = {}
    /\ UNCHANGED <<source, pc, cur, switching, listing, ckpt, from, before, crashes>>

\* At end of file the unfinished line is kept, and the poll is idle.
ReadToEnd ==
    /\ pc = "read"
    /\ Fill
    /\ BehindEnds = {}
    /\ partial' = partial \cup Buffered \cup Behind
    /\ off' = buf'
    /\ pc' = CASE atPath                    -> "stat"
               [] ~atPath /\ queue # << >>  -> "refresh"
               [] ~atPath /\ queue = << >>  -> "await"
    /\ UNCHANGED <<source, cur, complete, switching, listing, ckpt, from,
                   delivered, before, crashes>>

-----------------------------------------------------------------------------
(* Next: the path.                                                         *)

Short == Size < off

\* The path names nothing for a moment.
StatAbsent ==
    /\ pc = "stat"
    /\ dir[0] = 0
    /\ pc' = "read"
    /\ UNCHANGED <<source, reading, switching, listing, ckpt, history, crashes>>

\* Mutant of StatSame: a file that shrank is read on.
StatTrustsSize ==
    /\ pc = "stat"
    /\ dir[0] = cur
    /\ queue' = << >> /\ mark' = << >>
    /\ pc' = "read"
    /\ UNCHANGED <<source, reading, atPath, listing, ckpt, history, crashes>>

\* The path still names the open generation.
StatSame ==
    /\ pc = "stat"
    /\ dir[0] = cur /\ ~Short
    /\ queue' = << >> /\ mark' = << >>
    /\ pc' = "read"
    /\ UNCHANGED <<source, reading, atPath, listing, ckpt, history, crashes>>

\* It is shorter than what was read of it: SourceTruncatedError.
StatShort ==
    /\ pc = "stat"
    /\ dir[0] = cur /\ Short
    /\ Gap

StatReplaced ==
    /\ pc = "stat"
    /\ dir[0] \notin {0, cur}
    /\ pc' = "refresh"
    /\ UNCHANGED <<source, reading, switching, listing, ckpt, history, crashes>>

-----------------------------------------------------------------------------
(* Next: refreshQueue.                                                     *)

Refreshing == pc \in {"refresh", "await"} /\ Discovered

\* Discovery is retried while the path is absent.
RefreshPending ==
    /\ Refreshing
    /\ found[0] = 0
    /\ pc' = "read" /\ Forget
    /\ UNCHANGED <<source, reading, switching, ckpt, history, crashes>>

\* A file that was renamed never returns to the path (refreshQueue handles it
\* all the same: then the follower is at the path again, with no queue).
Known == {queue[i].gen : i \in DOMAIN queue}
Newer(n) == {found[k] : k \in 0..(n - 1)} \ {0}
InOrder ==
    /\ cur \in Range(found)
    /\ Known \subseteq Newer(NameIn(found, cur))
    /\ Contiguous(NameIn(found, cur))

\* The newer generations are known; a follower that waited for them reads on.
RefreshFound ==
    /\ Refreshing
    /\ found[0] # 0
    /\ InOrder
    /\ queue' = QueueAfter(NameIn(found, cur))
    /\ pc' = (IF pc = "await" THEN "read" ELSE "drain") /\ Forget
    /\ UNCHANGED <<source, reading, atPath, mark, ckpt, history, crashes>>

\* Mutant of RefreshGap: a path absent during the rename counts as a gap.
GapWhileAbsent == Refreshing /\ (found[0] = 0 \/ cur \notin Range(found)) /\ Gap

RefreshGap == Refreshing /\ found[0] # 0 /\ ~InOrder /\ Gap

-----------------------------------------------------------------------------
(* Next: stableForSwitch and switchTo.                                     *)

Observed == <<queue[1].gen, Size>>
Still == mark # << >> /\ <<mark[1], mark[2]>> = Observed

\* The drain interval outlasts the writer's hold on the old descriptor.
DrainElapsed == writing # cur

\* The old end of file must stand still for the interval.
DrainWait ==
    /\ pc = "drain" /\ ~Short
    /\ ~Still \/ ~DrainElapsed
    /\ mark' = <<queue[1].gen, Size, Era(cur)>>
    /\ pc' = "read"
    /\ UNCHANGED <<source, reading, atPath, queue, listing, ckpt, history, crashes>>

DrainShort == pc = "drain" /\ Short /\ Gap

SwitchReady == pc = "drain" /\ ~Short /\ Still /\ DrainElapsed

\* The queued name holds another generation now: findCandidate looks again.
SwitchMoved ==
    /\ SwitchReady
    /\ dir[queue[1].name] # queue[1].gen
    /\ pc' = "find"
    /\ UNCHANGED <<source, reading, switching, listing, ckpt, history, crashes>>

FindPending ==
    /\ pc = "find" /\ Discovered
    /\ found[0] = 0
    /\ pc' = "read" /\ Forget
    /\ UNCHANGED <<source, reading, switching, ckpt, history, crashes>>

FindGap ==
    /\ pc = "find" /\ Discovered
    /\ found[0] # 0 /\ queue[1].gen \notin Range(found)
    /\ Gap

Finds(n) ==
    /\ pc = "find" /\ Discovered
    /\ found[0] # 0
    /\ found[n] = queue[1].gen

\* It has moved once more.
FindFails ==
    /\ \E n \in Name : Finds(n) /\ dir[n] # found[n]
    /\ Exit
    /\ UNCHANGED crashes

\* candidate.current was decided when the candidate was found.  That the file
\* was cut during the drain, and grew back to the size observed, is not noticed.
SwitchTo(n) ==
    /\ cur' = queue[1].gen /\ off' = 0 /\ buf' = 0
    /\ on' = Era(queue[1].gen)
    /\ atPath' = (n = 0)
    /\ queue' = Tail(queue)
    /\ mark' = << >>
    /\ blind' = (blind \/ (mark # << >> /\ mark[3] # Era(cur)))
    /\ pc' = "read" /\ Forget
    /\ UNCHANGED <<source, ckpt, from, delivered, before, crashes>>

\* The queued generation is where it was found, or was found again.
Opens(n) ==
    /\ (SwitchReady /\ n = queue[1].name) \/ Finds(n)
    /\ dir[n] = queue[1].gen

\* Mutants of Switch: the position passes an unfinished line; the drain is
\* not waited for.
SwitchPosition(n) ==
    /\ Opens(n)
    /\ complete' = At(queue[1].gen, 0)
    /\ SwitchTo(n)
    /\ UNCHANGED partial
SwitchAtOnce(n) ==
    /\ pc = "drain"
    /\ n = queue[1].name /\ dir[n] = queue[1].gen
    /\ complete' = IF partial = {} THEN At(queue[1].gen, 0) ELSE complete
    /\ SwitchTo(n)
    /\ UNCHANGED partial

\* A line that is not finished moves along, and its start stays the position.
Switch(n) ==
    /\ Opens(n)
    /\ complete' = IF partial = {} THEN At(queue[1].gen, 0) ELSE complete
    /\ SwitchTo(n)
    /\ UNCHANGED partial

-----------------------------------------------------------------------------
(* Positions on disk, restarts and recovery from a gap.                    *)

Persist ==
    /\ pc = "read"
    /\ ckpt # complete
    /\ ckpt' = complete
    /\ UNCHANGED <<source, pc, reading, switching, listing, history, crashes>>

\* The state of a follower opened at the name n and offset.
OpenAt(n, offset) ==
    /\ cur' = dir[n] /\ off' = offset /\ buf' = offset /\ partial' = {}
    /\ atPath' = (n = 0)
    /\ queue' = QueueAfter(n)
    /\ complete' = At(dir[n], offset)
    /\ mark' = << >>
    /\ on' = Era(dir[n])
    /\ from' = At(dir[n], offset) /\ delivered' = {}
    /\ before' = before \cup delivered
    /\ pc' = "read" /\ Forget
    /\ UNCHANGED <<source, blind, crashes>>

\* OpenRotatingFollower: the checkpoint's generation, its size, its anchor,
\* and then the chain that leads from it to the path.
Opening == pc = "start" /\ Discovered
Kept == found[0] # 0 /\ ckpt.gen \in Range(found)
KeptName == NameIn(found, ckpt.gen)
InPlace == Kept /\ dir[KeptName] = ckpt.gen
TooShort == SizeOf(ckpt.gen) < ckpt.off
SameAnchor == ckpt.off > 0 => ckpt.anchor = Era(ckpt.gen)
AtBoundary == ckpt.off > 0 => Lines(ckpt.gen)[ckpt.off]
SameContent == SameAnchor /\ AtBoundary

\* Mutant of Restart: a line end at the offset tells that the content is the same.
RestartUnanchored ==
    /\ Opening
    /\ InPlace /\ ~TooShort /\ AtBoundary /\ Contiguous(KeptName)
    /\ OpenAt(KeptName, ckpt.off)
    /\ UNCHANGED ckpt

Restart ==
    /\ Opening
    /\ InPlace /\ ~TooShort /\ SameContent /\ Contiguous(KeptName)
    /\ OpenAt(KeptName, ckpt.off)
    /\ UNCHANGED ckpt

RestartGap ==
    /\ Opening
    /\ found[0] # 0
    /\ Kept => InPlace /\ (TooShort \/ (SameContent /\ ~Contiguous(KeptName)))
    /\ Gap

\* No path, the generation renamed since it was listed, or content that is not
\* what the checkpoint sampled, or has no line end there, which nobody may pass
\* over: the process ends.
RestartFails ==
    /\ Opening
    /\ found[0] = 0 \/ (Kept /\ ~InPlace) \/ (InPlace /\ ~TooShort /\ ~SameContent)
    /\ Exit
    /\ UNCHANGED crashes

\* OpenRecoveryFollower: the oldest contiguous chain that ends at the path.
Oldest == Max({k \in Name : Contiguous(k)})
Recover ==
    /\ pc = "gap" /\ Discovered
    /\ found[0] # 0 /\ dir[Oldest] = found[Oldest]
    /\ OpenAt(Oldest, 0)
    /\ ckpt' = At(dir[Oldest], 0)

\* Without the path, or when a name moved, recovery fails and the process ends.
RecoverFails ==
    /\ pc = "gap"
    /\ \/ ~listed /\ dir[0] = 0
       \/ Discovered /\ (found[0] = 0 \/ dir[Oldest] # found[Oldest])
    /\ Exit
    /\ UNCHANGED crashes

Init ==
    /\ content = << << << >> >> >>
    /\ dir = [n \in Name |-> IF n = 0 THEN 1 ELSE 0]
    /\ writing = 1 /\ rotating = "nothing" /\ slot = 0
    /\ pc = "read" /\ cur = 1 /\ off = 0 /\ buf = 0 /\ partial = {}
    /\ atPath = TRUE /\ queue = << >> /\ mark = << >>
    /\ listed = FALSE /\ todo = {} /\ found = Nothing
    /\ complete = At(1, 0) /\ ckpt = At(1, 0)
    /\ on = 1 /\ blind = FALSE
    /\ from = At(1, 0) /\ delivered = {} /\ before = {}
    /\ crashes = 0

Rotate == BeginRotation \/ Expire \/ Rename \/ Create \/ Reopen

Discover == ReadDir \/ Info \/ InfoFails

Follow ==
    \/ ReadBuffered \/ AnchorFails \/ ReadFilled \/ ReadToEnd
    \/ StatAbsent \/ StatSame \/ StatShort \/ StatReplaced
    \/ Discover
    \/ RefreshPending \/ RefreshFound \/ RefreshGap
    \/ DrainWait \/ DrainShort \/ SwitchMoved
    \/ FindPending \/ FindGap \/ FindFails
    \/ \E n \in Name : Switch(n)
    \/ Restart \/ RestartGap \/ RestartFails
    \/ Recover \/ RecoverFails

Next ==
    \/ Follow \/ Rotate \/ Persist \/ Crash
    \/ \E ends \in BOOLEAN : Write(ends)
    \/ \E g \in Present : Truncate(g)

\* The poll loop turns, the supervisor starts the process again, and a
\* rotation that has begun ends.
Spec == Init /\ [][Next]_vars /\ WF_vars(Follow) /\ WF_vars(Rename \/ Create \/ Reopen)

-----------------------------------------------------------------------------
(* Properties.                                                             *)

Piece == Nat \X Nat \X Nat
Pos == [gen : Nat, off : Nat, anchor : Nat]
TypeOK ==
    /\ content \in Seq(Seq(Seq(BOOLEAN))) /\ dir \in [Name -> 0..Len(content)]
    /\ writing \in Generations /\ cur \in Generations
    /\ rotating \in {"nothing", "rename", "create", "reopen"} /\ slot \in Name
    /\ pc \in {"read", "stat", "drain"} \/ Discovering
    /\ buf \in Nat /\ off \in 0..buf
    /\ on \in 1..Era(cur) /\ blind \in BOOLEAN
    /\ {partial, delivered, before} \subseteq SUBSET Piece
    /\ atPath \in BOOLEAN
    /\ queue \in Seq([gen : Generations, name : Name])
    /\ {complete, ckpt, from} \subseteq Pos
    /\ mark = << >> \/ mark \in Nat \X Nat \X Nat
    /\ listed \in BOOLEAN /\ todo \subseteq Name /\ found \in [Name -> 0..Len(content)]
    /\ listed => Discovering
    /\ crashes \in Nat

\* Nothing is skipped and nothing is read twice between gaps, however renames,
\* late writes, partial lines, truncations and restarts interleave: of every
\* generation one era is read without a hole, up to its end, unless the era
\* was cut off, before the next generation is opened; and what is behind
\* CompletePosition is exactly the unfinished line ("read the old inode until
\* stable EOF; preserve partial lines", reliability.md; Next, switchTo,
\* transferPartialTo).  A file that shrank and grew back to the offset
\* between two looks is not noticed (blind, reliability.md:110).
ReadOf(g) == {x \in delivered \cup partial : x[1] = g}
First(g) == IF g = from.gen THEN from.off + 1 ELSE 1
NothingSkipped ==
    pc \notin {"start", "gap"} /\ ~blind =>
        /\ \A g \in from.gen..(cur - 1) :
              \E e \in DOMAIN content[g] : \E n \in 0..Len(content[g][e]) :
                 /\ ReadOf(g) = Span(g, e, First(g), n)
                 /\ e = Era(g) => n = SizeOf(g)
        /\ ReadOf(cur) = Span(cur, on, First(cur), off)
        /\ partial = {x \in delivered \cup partial : After(complete, x)}

\* A process never begins behind content that no process has read: the lines
\* up to a position it resumes at, in the file as it is now, were handed over
\* ("never seeks into replacement bytes using an old offset", recovery.go:48;
\* "content-anchor checks remain mandatory at restart", reliability.md:110).
NothingJumped ==
    ~blind => Span(from.gen, from.anchor, 1, from.off) \subseteq before

\* A restart begins at a line boundary: what is handed over ends with a whole
\* line, and no end of line is held back (SourcePosition: "a durable
\* complete-line boundary in one generation").
PositionIsBoundary ==
    /\ \A x \in partial : ~EndsLine(x)
    /\ ~blind /\ ckpt.off > 0 => EndsLine(<<ckpt.gen, ckpt.anchor, ckpt.off>>)
    /\ ckpt.off = 0 /\ ckpt.gen > from.gen =>
          LET g == ckpt.gen - 1
          IN Era(g) = 1 /\ SizeOf(g) >= First(g) => EndsLine(<<g, 1, SizeOf(g)>>)

\* A gap is declared only when a generation is gone, when a file is shorter
\* than what was read of it, while a rotation has left a hole between two
\* rotation numbers, or when one renamed a file during the discovery; never
\* because the path is absent between rename and create (rotationPending).
Hole == \E k \in 1..Retained : dir[k] = 0 /\ \E j \in k..Retained : dir[j] # 0
Gone == \E g \in Min({cur, ckpt.gen})..Len(content) : g \notin Present
GapHasCause ==
    [][pc # "gap" /\ pc' = "gap" =>
          Gone \/ Hole \/ Short \/ TooShort \/ (listed /\ found # dir)]_vars

\* Once writes, rotations and truncations have ended, reading reaches the end
\* of the path: whatever was torn, cut or fatal on the way.  Only content that
\* is not what the checkpoint sampled keeps the collector from starting.
Refused ==
    /\ pc = "start"
    /\ ckpt.gen \in Present /\ ~TooShort /\ ~SameContent
CatchesUp ==
    \/ <>[](pc \in {"read", "stat"} /\ cur = dir[0] /\ off = Size)
    \/ <>[]Refused

\* "No source record is intentionally dropped when [...] the checkpointed file
\* generation is still available; rotated files remain available until they
\* are drained" (reliability.md, lossless scope): a recovery never passes over
\* a piece that its generation still holds under a rotation name.
Skipped(p, q) ==
    {x \in UNION {Span(g, Era(g), 1, SizeOf(g)) : g \in Present} :
        After(p, x) /\ x[1] < q.gen}
LosslessScope == [][pc = "gap" /\ pc' = "read" => Skipped(complete, complete') = {}]_vars

=============================================================================
