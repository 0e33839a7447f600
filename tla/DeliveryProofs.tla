-------------------------- MODULE DeliveryProofs ---------------------------
(***************************************************************************)
(* Delivery across crashes: no evidence behind the durable checkpoint is   *)
(* ever lost, persist never meets a position that moved back, and the      *)
(* collector implements AtLeastOnce.                                       *)
(*                                                                         *)
(* A replay writes lines again, so that Placed does not survive a crash.   *)
(* What does is that a running process has located all evidence before     *)
(* its position, that nothing unresolved lies before the checkpoint, and   *)
(* that everything before it is in the part of the output that is synced.  *)
(***************************************************************************)
EXTENDS Delivery, PlacementProofs

USE DEF Pending, Rejected, Fenced

LEMMA LinesOfIs ==
    ASSUME NEW events, NEW l
    PROVE  l \in LinesOf(events) <=> \E e \in events : l \in e.lines
  BY DEF LinesOf

\* The evidence of the lines before n is durable.
DurableTo(n) == \A l \in 1..(n - 1) : Payload(input[l]) => l \in LinesOf(synced)

\* Lines are located only if they were read.
Bounded == \A l : Located(asm, output, l) => l \in 1..Len(input)

\* What a process works from: nothing before p is unresolved.
Holds(p) == p \in Nat \ {0} /\ p <= next /\ From(asm, p)

DeliveryInv ==
    /\ DTypeOK
    /\ ReadSoFar
    /\ Bounded
    /\ Last \in Nat \ {0} /\ Last <= Len(input) + 1
    /\ DurableTo(Last)
    /\ pc # "down" => EvidenceKept /\ Holds(Last)
    /\ saving # None => Last <= saving /\ Holds(saving) /\ DurableTo(saving)

LEMMA LastIs ==
    /\ ckpt # None => Last = ckpt
    /\ ckpt = None => Last = 1
  BY DEF Last

LEMMA DeliveryTypes ==
    ASSUME DeliveryInv
    PROVE  /\ TypeOK /\ AsmTypeOK(asm)
           /\ next \in Nat \ {0} /\ now \in Nat
           /\ input \in Seq(Lines) /\ Len(input) \in Nat
           /\ output \subseteq Event /\ synced \subseteq output
  BY DEF DeliveryInv, DTypeOK, TypeOK

-----------------------------------------------------------------------------
(* Steps.                                                                  *)

LEMMA DeliveryInit == DInit => DeliveryInv
  <1>. SUFFICES ASSUME DInit PROVE DeliveryInv
    OBVIOUS
  <1>1. TypeOK
    BY InitType DEF DInit
  <1>2. DTypeOK
    BY <1>1, RestartAssumption, NoneAssumption DEF DInit, DTypeOK
  <1>3. Last = 1
    BY DEF DInit, Last
  <1>4. \A l : ~Located(asm, output, l)
    BY DEF DInit, Init, EmptyAssembler, Located
  <1>5. ReadSoFar /\ Len(input) = 0
    BY DEF DInit, Init, ReadSoFar
  <1>6. DurableTo(Last)
    BY <1>3 DEF DurableTo
  <1>. QED
    BY <1>2, <1>3, <1>4, <1>5, <1>6 DEF DeliveryInv, Bounded, DInit

LEMMA StartKeeps == ASSUME DeliveryInv, Start PROVE DeliveryInv'
  <1>1. /\ asm' = EmptyAssembler /\ next' = Last /\ now' = 0
        /\ broken' = [k \in Key |-> None]
        /\ input' = input /\ output' = output /\ ckpt' = ckpt
        /\ crashes' = crashes /\ shutdowns' = shutdowns /\ saving = None
    BY DEF Start, restarts, DeliveryInv, DTypeOK
  <1>2. Last' = Last /\ Last \in Nat \ {0} /\ Last <= Len(input) + 1
    BY <1>1 DEF Last, DeliveryInv
  <1>3. TypeOK'
    BY <1>1, <1>2, DeliveryTypes, EmptyType DEF TypeOK
  <1>4. \/ synced' = output /\ saving' = Last /\ pc' = "saving"
        \/ synced' = synced /\ saving' = None /\ pc' = "running"
    BY <1>1 DEF Start, Persist, Last
  <1>5. DTypeOK'
    BY <1>1, <1>2, <1>3, <1>4, NoneAssumption DEF DTypeOK, DeliveryInv
  <1>6. synced \subseteq synced' /\ synced' \subseteq output
    BY <1>4, DeliveryTypes
  <1>7. DurableTo(Last)'
    BY <1>1, <1>2, <1>6, LinesOfIs DEF DurableTo, DeliveryInv
  <1>8. \A l : Located(asm', output', l) => Located(asm, output, l)
    BY <1>1 DEF Located, EmptyAssembler
  <1>9. Bounded'
    BY <1>1, <1>8 DEF Bounded, DeliveryInv
  <1>10. EvidenceKept'
    BY <1>1, <1>2, LinesOfIs, DeliveryTypes
    DEF EvidenceKept, Located, DeliveryInv, DurableTo
  <1>11. \A p : From(asm', p)
    BY <1>1, NoneAssumption DEF From, EmptyAssembler
  <1>12. Holds(Last)'
    BY <1>1, <1>2, <1>11 DEF Holds
  <1>13. ReadSoFar'
    BY <1>1, <1>2 DEF ReadSoFar
  <1>14. saving' # None => saving' = Last'
    BY <1>2, <1>4
  <1>. QED
    BY <1>1, <1>2, <1>5, <1>7, <1>9, <1>10, <1>12, <1>13, <1>14 DEF DeliveryInv

LEMMA LineKeeps == ASSUME DeliveryInv, ProcessLine PROVE DeliveryInv'
  <1>1. PICK line \in Lines : HandleLine(line)
    BY DEF ProcessLine
  <1>2. /\ pc = "running" /\ pc' = pc /\ saving' = saving /\ saving = None
        /\ ckpt' = ckpt /\ synced' = synced
        /\ crashes' = crashes /\ shutdowns' = shutdowns
    BY DEF ProcessLine, durable, process, restarts, DeliveryInv, DTypeOK
  <1>3. TypeOK /\ TypeOK' /\ Read(line) /\ ReadSoFar /\ EvidenceKept /\ Holds(Last)
    BY <1>1, <1>2, DeliveryTypes, HandlerReads DEF DeliveryInv
  <1>4. /\ next' = next + 1 /\ ReadSoFar'
        /\ \A l \in 1..(next - 1) : input'[l] = input[l]
        /\ Len(input) <= Len(input')
    BY <1>3, ReadLine
  <1>5. EvidenceKept'
    BY <1>1, <1>3, LineKeepsEvidence
  <1>6. next \in Nat \ {0} /\ Len(input) \in Nat /\ Len(input') \in Nat
    BY <1>3 DEF TypeOK
  <1>7. Bounded'
    <2>1. \A l : Located(asm', output', l) => Located(asm, output, l) \/ l = next
      BY <1>1, <1>3, HandleLineMoves DEF Moves, Carries
    <2>2. next \in 1..Len(input')
      BY <1>4, <1>6 DEF ReadSoFar
    <2>3. \A l \in 1..Len(input) : l \in 1..Len(input')
      BY <1>4, <1>6
    <2>. QED
      BY <2>1, <2>2, <2>3 DEF Bounded, DeliveryInv
  <1>8. output \subseteq output'
    BY <1>1 DEF HandleLine, Emit, AddRejected, CloseFullGroup, AddFenced,
       OrphanEOE, Admit, Refuse, ParseFailure, RejectKnownLine, RejectUnknownLine
  <1>9. DTypeOK'
    BY <1>2, <1>3, <1>8 DEF DTypeOK, DeliveryInv
  <1>10. Last' = Last /\ Last \in Nat \ {0} /\ Last <= next
    BY <1>2, <1>3 DEF Last, Holds
  <1>11. From(asm', Last)
    BY <1>1, <1>3, <1>10, HandleLineFrom DEF Holds
  <1>12. Holds(Last)'
    BY <1>4, <1>6, <1>10, <1>11 DEF Holds
  <1>13. DurableTo(Last)'
    <2>1. \A l \in 1..(Last - 1) : l \in 1..(next - 1)
      BY <1>6, <1>10
    <2>. QED
      BY <1>2, <1>4, <1>10, <2>1 DEF DurableTo, DeliveryInv
  <1>14. Last' <= Len(input') + 1
    BY <1>4, <1>6, <1>10 DEF DeliveryInv
  <1>. QED
    BY <1>2, <1>4, <1>5, <1>7, <1>9, <1>10, <1>12, <1>13, <1>14 DEF DeliveryInv

\* A step of the running process that reads nothing and saves nothing.
LEMMA RestKeeps ==
    ASSUME DeliveryInv, pc = "running", TypeOK', Moves, output \subseteq output',
           UNCHANGED <<input, next, durable, process, restarts>>,
           Holds(Last) => From(asm', Last)
    PROVE  DeliveryInv'
  <1>1. /\ pc' = pc /\ saving' = saving /\ saving = None /\ ckpt' = ckpt
        /\ synced' = synced /\ crashes' = crashes /\ shutdowns' = shutdowns
        /\ input' = input /\ next' = next
    BY DEF durable, process, restarts, DeliveryInv, DTypeOK
  <1>2. DTypeOK' /\ ReadSoFar'
    BY <1>1 DEF DTypeOK, DeliveryInv, ReadSoFar
  <1>3. Bounded'
    BY <1>1 DEF Bounded, DeliveryInv, Moves, Carries
  <1>4. EvidenceKept'
    BY <1>1 DEF EvidenceKept, DeliveryInv, Moves, Carries
  <1>5. Last' = Last
    BY <1>1 DEF Last
  <1>6. Holds(Last)' /\ DurableTo(Last)'
    BY <1>1, <1>5 DEF Holds, DurableTo, DeliveryInv
  <1>7. Last' \in Nat \ {0} /\ Last' <= Len(input') + 1
    BY <1>1, <1>5 DEF DeliveryInv
  <1>. QED
    BY <1>1, <1>2, <1>3, <1>4, <1>6, <1>7 DEF DeliveryInv

LEMMA PollKeeps == ASSUME DeliveryInv, Poll PROVE DeliveryInv'
  <1>1. TypeOK /\ Idle
    BY DeliveryTypes DEF Poll
  <1>2. TypeOK' /\ Moves
    BY <1>1, IdleType, IdleMoves
  <1>3. output \subseteq output' /\ UNCHANGED <<input, next, durable, process, restarts>>
    BY DEF Poll, Idle, Emit
  <1>4. Holds(Last) => From(asm', Last)
    BY <1>1, FromS DEF Idle, Holds
  <1>. QED
    BY <1>2, <1>3, <1>4, RestKeeps DEF Poll

LEMMA ClockKeeps == ASSUME DeliveryInv, Clock PROVE DeliveryInv'
  <1>1. TypeOK /\ Tick
    BY DeliveryTypes DEF Clock
  <1>2. TypeOK'
    BY <1>1, NextType DEF Next
  <1>3. /\ asm' = asm /\ output' = output
        /\ UNCHANGED <<input, next, durable, process, restarts>>
    BY DEF Clock, Tick
  <1>4. Moves
    BY <1>3 DEF Moves, Carries
  <1>5. Holds(Last) => From(asm', Last)
    BY <1>3 DEF Holds
  <1>. QED
    BY <1>2, <1>3, <1>4, <1>5, RestKeeps DEF Clock

\* The safe position is past the checkpoint, and the evidence before it has
\* left the assembler.
LEMMA SafeToSaveIs ==
    ASSUME DeliveryInv, pc = "running"
    PROVE  /\ Last <= SafeToSave /\ Holds(SafeToSave)
           /\ \A l \in 1..(SafeToSave - 1) : Payload(input[l]) => l \in LinesOf(output)
  <1> DEFINE p == SafeToSave
  <1>1. /\ AsmTypeOK(asm) /\ next \in Nat \ {0}
        /\ Holds(Last) /\ EvidenceKept
    BY DeliveryTypes DEF DeliveryInv
  <1>2. Last \in Nat \ {0} /\ Last <= next /\ From(asm, Last)
    BY <1>1 DEF Holds
  <1>3. /\ p \in Nat /\ p <= next /\ \A l \in Barriers(asm) : p <= l
        /\ \A q \in Nat : q <= next /\ (\A l \in Barriers(asm) : q <= l) => q <= p
    BY <1>1, SafeIs DEF SafeToSave
  <1>. HIDE DEF p
  <1>4. Last <= p
    BY <1>1, <1>2, <1>3, FromIsBarrier
  <1>5. From(asm, 0)
    <2>1. \A l \in Nat : 0 <= l
      OBVIOUS
    <2>2. /\ \A k \in Pending(asm) : asm.pending[k].lines \subseteq Nat
          /\ \A k \in Rejected(asm) : asm.rejected[k].source \in Nat
          /\ Fenced(asm) => asm.spillSource \in Nat
      BY <1>1 DEF AsmTypeOK, Group, Rejection
    <2>. QED
      BY <1>2, <2>1, <2>2 DEF From
  <1>6. From(asm, p)
    BY <1>1, <1>3, <1>5, FromIsBarrier
  <1>7. p \in Nat \ {0}
    BY <1>2, <1>3, <1>4
  <1>8. ASSUME NEW l \in 1..(p - 1), Payload(input[l])
        PROVE  l \in LinesOf(output)
    <2>1. l \in 1..(next - 1) /\ ~(p <= l)
      BY <1>1, <1>3
    <2>2. Located(asm, output, l)
      BY <1>1, <1>8, <2>1 DEF EvidenceKept
    <2>3. \A k \in Pending(asm) : l \notin asm.pending[k].lines
      BY <1>6, <2>1 DEF From
    <2>. QED
      BY <2>2, <2>3, LinesOfIs DEF Located
  <1>9. Holds(p)
    BY <1>3, <1>6, <1>7 DEF Holds
  <1>. QED
    BY <1>4, <1>8, <1>9 DEF p

LEMMA CommitKeeps == ASSUME DeliveryInv, CommitOutput PROVE DeliveryInv'
  <1>1. /\ pc = "running" /\ pc' = "saving" /\ saving' = SafeToSave
        /\ synced' = output /\ ckpt' = ckpt
        /\ crashes' = crashes /\ shutdowns' = shutdowns /\ UNCHANGED vars
    BY DEF CommitOutput, Persist, restarts
  <1>2. /\ asm' = asm /\ now' = now /\ input' = input /\ next' = next
        /\ output' = output /\ broken' = broken
    BY <1>1 DEF vars
  <1>3. Last <= SafeToSave /\ Holds(SafeToSave)
    BY <1>1, SafeToSaveIs
  <1>4. TypeOK'
    BY <1>2, DeliveryTypes DEF TypeOK
  <1>5. DTypeOK'
    BY <1>1, <1>2, <1>3, <1>4, NoneAssumption DEF DTypeOK, DeliveryInv, Holds
  <1>6. ReadSoFar' /\ Bounded' /\ EvidenceKept'
    BY <1>1, <1>2 DEF ReadSoFar, Bounded, EvidenceKept, DeliveryInv
  <1>7. Last' = Last
    BY <1>1 DEF Last
  <1>8. DurableTo(Last)'
    BY <1>1, <1>2, <1>7, LinesOfIs, DeliveryTypes DEF DurableTo, DeliveryInv
  <1>9. DurableTo(saving)'
    BY <1>1, <1>2, SafeToSaveIs DEF DurableTo
  <1>10. Holds(Last)' /\ Holds(saving)' /\ Last' <= saving'
    BY <1>1, <1>2, <1>3, <1>7 DEF Holds, DeliveryInv
  <1>11. Last' \in Nat \ {0} /\ Last' <= Len(input') + 1
    BY <1>2, <1>7 DEF DeliveryInv
  <1>. QED
    BY <1>5, <1>6, <1>8, <1>9, <1>10, <1>11 DEF DeliveryInv

LEMMA SaveKeeps == ASSUME DeliveryInv, SaveCheckpoint PROVE DeliveryInv'
  <1>1. /\ pc \in {"saving", "stopping"} /\ saving # None
        /\ ckpt' = saving /\ saving' = None /\ pc' \in {"running", "down"}
        /\ synced' = synced /\ crashes' = crashes /\ shutdowns' = shutdowns
        /\ UNCHANGED vars
    BY DEF SaveCheckpoint, restarts, DeliveryInv, DTypeOK
  <1>2. /\ asm' = asm /\ now' = now /\ input' = input /\ next' = next
        /\ output' = output /\ broken' = broken
    BY <1>1 DEF vars
  <1>3. Last' = saving
    BY <1>1 DEF Last
  <1>4. Holds(saving) /\ DurableTo(saving) /\ EvidenceKept
    BY <1>1 DEF DeliveryInv
  <1>5. TypeOK'
    BY <1>2, DeliveryTypes DEF TypeOK
  <1>6. DTypeOK'
    BY <1>1, <1>2, <1>4, <1>5 DEF DTypeOK, DeliveryInv, Holds
  <1>7. ReadSoFar' /\ Bounded' /\ EvidenceKept'
    BY <1>2, <1>4 DEF ReadSoFar, Bounded, EvidenceKept, DeliveryInv
  <1>8. Holds(Last)' /\ DurableTo(Last)'
    BY <1>1, <1>2, <1>3, <1>4 DEF Holds, DurableTo
  <1>9. Last' \in Nat \ {0} /\ Last' <= Len(input') + 1
    BY <1>2, <1>3, <1>4, DeliveryTypes DEF Holds, DeliveryInv, ReadSoFar
  <1>. QED
    BY <1>1, <1>6, <1>7, <1>8, <1>9 DEF DeliveryInv

LEMMA ShutdownKeeps == ASSUME DeliveryInv, Shutdown PROVE DeliveryInv'
  <1>1. /\ pc = "running" /\ saving = None /\ ckpt' = ckpt
        /\ shutdowns' = shutdowns + 1 /\ shutdowns < MaxShutdowns /\ crashes' = crashes
        /\ FlushAllWith("shutdown")
    BY DEF Shutdown, DeliveryInv, DTypeOK
  <1>2. /\ asm' = FlushAll(asm) /\ input' = input /\ next' = next
        /\ output \subseteq output'
    BY <1>1 DEF FlushAllWith
  <1>3. TypeOK /\ AsmTypeOK(asm) /\ next \in Nat \ {0} /\ Holds(Last) /\ EvidenceKept
    BY <1>1, DeliveryTypes DEF DeliveryInv
  <1>4. Moves /\ TypeOK'
    BY <1>1, <1>3, FlushAllWithMoves, FlushAllWithType DEF Completion
  <1>5. \A p : From(asm', p)
    BY <1>2, <1>3, FromFlushAll
  <1>6. Pending(asm') = {}
    BY <1>2, <1>3, FlushAllLemma
  <1>7. \/ next = Last /\ pc' = "down" /\ saving' = None /\ synced' = synced
        \/ pc' = "stopping" /\ saving' = next /\ synced' = output'
    BY <1>1 DEF Shutdown
  <1>8. synced \subseteq synced' /\ synced' \subseteq output'
    BY <1>2, <1>7, DeliveryTypes
  <1>9. DTypeOK'
    <2>1. shutdowns' \in 0..MaxShutdowns /\ crashes' \in 0..MaxCrashes
      BY <1>1, RestartAssumption DEF DeliveryInv, DTypeOK
    <2>2. ckpt' \in Nat \cup {None}
      BY <1>1 DEF DeliveryInv, DTypeOK
    <2>3. saving' \in Nat \cup {None} /\ (saving' # None <=> pc' \in {"saving", "stopping"})
      BY <1>3, <1>7, NoneAssumption
    <2>4. pc' \in {"down", "running", "saving", "stopping"}
      BY <1>7
    <2>. QED
      BY <1>4, <1>8, <2>1, <2>2, <2>3, <2>4 DEF DTypeOK
  <1>10. ReadSoFar' /\ Bounded'
    BY <1>2, <1>4 DEF ReadSoFar, Bounded, DeliveryInv, Moves, Carries
  <1>11. EvidenceKept'
    BY <1>2, <1>3, <1>4 DEF EvidenceKept, Moves, Carries
  <1>12. Last' = Last
    BY <1>1 DEF Last
  <1>13. DurableTo(Last)'
    BY <1>2, <1>8, <1>12, LinesOfIs DEF DurableTo, DeliveryInv
  <1>14. Last' \in Nat \ {0} /\ Last' <= Len(input') + 1 /\ Holds(Last)'
    BY <1>2, <1>3, <1>5, <1>12 DEF DeliveryInv, Holds
  <1>15. ASSUME saving' # None
         PROVE  Last' <= saving' /\ Holds(saving)' /\ DurableTo(saving)'
    <2>1. saving' = next /\ synced' = output'
      BY <1>7, <1>15
    <2>2. Last' <= saving' /\ Holds(saving)'
      BY <1>2, <1>3, <1>5, <1>12, <2>1 DEF Holds
    <2>3. \A l : Located(asm', output', l) => l \in LinesOf(output')
      BY <1>6, LinesOfIs DEF Located
    <2>4. DurableTo(saving)'
      BY <1>2, <1>11, <2>1, <2>3 DEF DurableTo, EvidenceKept
    <2>. QED
      BY <2>2, <2>4
  <1>. QED
    BY <1>9, <1>10, <1>11, <1>13, <1>14, <1>15 DEF DeliveryInv

LEMMA CrashKeeps == ASSUME DeliveryInv, Crash PROVE DeliveryInv'
  <1>1. /\ pc' = "down" /\ saving' = None /\ crashes' = crashes + 1
        /\ crashes < MaxCrashes /\ shutdowns' = shutdowns
        /\ asm' = asm /\ now' = now /\ input' = input /\ next' = next
        /\ broken' = broken /\ ckpt' = ckpt /\ synced' = synced
    BY DEF Crash, durable
  <1>2. synced \subseteq output' /\ output' \subseteq output
    BY DeliveryTypes DEF Crash
  <1>3. TypeOK'
    BY <1>1, <1>2, DeliveryTypes DEF TypeOK
  <1>4. DTypeOK'
    BY <1>1, <1>2, <1>3, RestartAssumption DEF DTypeOK, DeliveryInv
  <1>5. Bounded' /\ ReadSoFar'
    BY <1>1, <1>2 DEF Bounded, Located, ReadSoFar, DeliveryInv
  <1>6. Last' = Last
    BY <1>1 DEF Last
  <1>7. DurableTo(Last)' /\ Last' \in Nat \ {0} /\ Last' <= Len(input') + 1
    BY <1>1, <1>6 DEF DurableTo, DeliveryInv
  <1>. QED
    BY <1>1, <1>4, <1>5, <1>7 DEF DeliveryInv

LEMMA DeliveryNext == ASSUME DeliveryInv, [DNext]_allVars PROVE DeliveryInv'
  <1>1. CASE UNCHANGED allVars
    BY <1>1 DEF allVars, vars, durable, process, restarts, DeliveryInv, DTypeOK, TypeOK,
       ReadSoFar, Bounded, Last, DurableTo, EvidenceKept, Holds
  <1>. QED
    BY <1>1, StartKeeps, LineKeeps, PollKeeps, ClockKeeps, CommitKeeps, SaveKeeps,
       ShutdownKeeps, CrashKeeps DEF DNext

LEMMA DeliveryInvHolds == DSpec => []DeliveryInv
  BY DeliveryInit, DeliveryNext, PTL DEF DSpec

-----------------------------------------------------------------------------
(* Theorems.                                                               *)

\* All evidence before the durable checkpoint is in the synced output, over
\* any crashes, replays and shutdowns (reliability.md, "Checkpoint
\* invariants"; checkpointWriter.persist commits the sink before it saves).
THEOREM NothingLost == DSpec => []NoLoss
  <1>1. DeliveryInv => NoLoss
    BY LastIs DEF DeliveryInv, NoLoss, DurableTo
  <1>. QED
    BY <1>1, DeliveryInvHolds, PTL

\* persist's "checkpoint position regressed" never ends a collector, whatever
\* was refused, isolated, fenced or replayed before it.
THEOREM PersistIsSafe == DSpec => []PersistNeverFatal
  <1>1. DeliveryInv => PersistNeverFatal
    BY SafeToSaveIs DEF PersistNeverFatal
  <1>. QED
    BY <1>1, DeliveryInvHolds, PTL

LEMMA PromiseInit == DInit => Promise!Init
  BY DEF DInit, Init, Last, LinesOf, Promise!Init

LEMMA DeliverStep ==
    ASSUME DeliveryInv, DeliveryInv', input' = input, Last' = Last,
           synced \subseteq synced'
    PROVE  Promise!Deliver
  <1>1. LinesOf(synced) \subseteq LinesOf(synced')
    BY DEF LinesOf
  <1>2. LinesOf(synced') \subseteq 1..Len(input)
    BY LinesOfIs DEF DeliveryInv, DTypeOK, Bounded, Located
  <1>. QED
    BY <1>1, <1>2 DEF Promise!Deliver

LEMMA AppendStep ==
    ASSUME DeliveryInv, NEW line \in Lines, Read(line), Last' = Last, synced' = synced
    PROVE  Promise!Append1 \/ input' = input
  BY DEF Read, Promise!Append1

LEMMA AdvanceStep == ASSUME DeliveryInv, SaveCheckpoint PROVE Promise!Advance
  <1>1. /\ saving # None /\ ckpt' = saving /\ synced' = synced /\ input' = input
    BY DEF SaveCheckpoint, DeliveryInv, DTypeOK, vars
  <1>2. Last' = saving
    BY <1>1 DEF Last
  <1>3. /\ Last <= saving /\ saving \in Nat \ {0} /\ saving <= next
        /\ next <= Len(input) + 1 /\ Last \in Nat \ {0}
    BY <1>1 DEF DeliveryInv, Holds, ReadSoFar
  <1>4. saving \in Last..(Len(input) + 1)
    BY <1>3, DeliveryTypes
  <1>5. Promise!Passable(saving)
    BY <1>1 DEF DeliveryInv, DurableTo, Promise!Passable
  <1>. QED
    BY <1>1, <1>2, <1>4, <1>5 DEF Promise!Advance

LEMMA PromiseStep ==
    ASSUME DeliveryInv, DeliveryInv', [DNext]_allVars
    PROVE  Promise!Next \/ UNCHANGED <<input, synced, Last>>
  <1>1. CASE Start
    <2>1. input' = input /\ ckpt' = ckpt
      BY <1>1 DEF Start
    <2>2. synced \subseteq synced' /\ Last' = Last
      BY <1>1, <2>1, DeliveryTypes DEF Start, Persist, Last
    <2>. QED
      BY <2>1, <2>2, DeliverStep DEF Promise!Next
  <1>2. CASE ProcessLine
    <2>1. PICK line \in Lines : HandleLine(line)
      BY <1>2 DEF ProcessLine
    <2>2. synced' = synced /\ Last' = Last /\ Read(line)
      BY <1>2, <2>1, DeliveryTypes, HandlerReads DEF ProcessLine, durable, Last
    <2>. QED
      BY <2>2, AppendStep DEF Promise!Next
  <1>3. CASE CommitOutput
    <2>1. input' = input /\ ckpt' = ckpt /\ synced' = output
      BY <1>3 DEF CommitOutput, Persist, vars
    <2>. QED
      BY <2>1, DeliveryTypes, DeliverStep DEF Promise!Next, Last
  <1>4. CASE SaveCheckpoint
    BY <1>4, AdvanceStep DEF Promise!Next
  <1>5. CASE Shutdown
    <2>1. /\ input' = input /\ ckpt' = ckpt /\ output \subseteq output'
          /\ synced' = synced \/ synced' = output'
      BY <1>5 DEF Shutdown, FlushAllWith
    <2>. QED
      BY <2>1, DeliveryTypes, DeliverStep DEF Promise!Next, Last
  <1>6. CASE UNCHANGED <<input, synced, ckpt>>
    BY <1>6 DEF Last
  <1>7. (Poll \/ Clock \/ Crash \/ UNCHANGED allVars) => UNCHANGED <<input, synced, ckpt>>
    BY DEF Poll, Clock, Crash, Idle, Tick, allVars, vars, durable
  <1>. QED
    BY <1>1, <1>2, <1>3, <1>4, <1>5, <1>6, <1>7 DEF DNext

LEMMA PromiseKept ==
    DeliveryInv /\ DeliveryInv' /\ [DNext]_allVars => [Promise!Next]_Promise!vars
  <1>. SUFFICES ASSUME DeliveryInv, DeliveryInv', [DNext]_allVars
                PROVE  [Promise!Next]_Promise!vars
    OBVIOUS
  <1>1. Promise!Next \/ UNCHANGED <<input, synced, Last>>
    BY PromiseStep
  <1>2. UNCHANGED <<input, synced, Last>> => UNCHANGED Promise!vars
    BY DEF Promise!vars, LinesOf
  <1>. QED
    BY <1>1, <1>2

\* The collector, with its crashes, replays and shutdowns, implements the
\* at-least-once promise step by step: reading appends, Commit delivers, and
\* SaveCheckpoint advances over delivered evidence only.
THEOREM ImplementsPromise == DSpec => AtLeastOnceDelivery
  BY PromiseInit, PromiseKept, DeliveryInvHolds, PTL
  DEF DSpec, AtLeastOnceDelivery, Promise!Spec

=============================================================================
