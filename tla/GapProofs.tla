----------------------------- MODULE GapProofs -----------------------------
(***************************************************************************)
(* What GapRecovery guarantees for any number of breaks, crashes and kept  *)
(* incidents: a restart is never refused, the ledger tells where the       *)
(* checkpoint came from, nothing is joined across a gap and nothing is     *)
(* behind the checkpoint that is not durable.                              *)
(*                                                                         *)
(* The argument: the place in the transition (pc) says how the ledger in   *)
(* memory, the one on disk and the checkpoint stand to one another; a      *)
(* ledger is only written with one incident more, whose previous position  *)
(* is the checkpoint of that moment, or with its last incident completed,  *)
(* when the checkpoint is the position the incident resumes at.            *)
(***************************************************************************)
EXTENDS GapRecovery, SequenceTheorems, TLAPS

-----------------------------------------------------------------------------
(* Ledgers.                                                                *)

\* A ledger in use: its last incident has not been superseded.
LedgerOK(l) == l \in Ledger /\ Valid(l) /\ ~LastIncident(l).superseded

Linked(l) ==
    \A i \in 2..Len(l.incidents) :
        Follows(l.incidents[i - 1], l.incidents[i].previous)

\* Two incidents that differ at most in how they ended.
SameIncident(g, h) ==
    /\ h.number = g.number /\ h.previous = g.previous /\ h.resume = g.resume
    /\ (h.prepared \/ h.superseded) = (g.prepared \/ g.superseded)

LEMMA LedgerFields ==
    ASSUME NEW l, LedgerOK(l)
    PROVE  /\ l.total \in Nat \ {0} /\ l.incidents \in Seq(Incident)
           /\ Len(l.incidents) \in 1..KeptIncidents
           /\ DOMAIN l.incidents = 1..Len(l.incidents)
           /\ \A i \in 1..Len(l.incidents) : l.incidents[i] \in Incident
           /\ LastIncident(l) = l.incidents[Len(l.incidents)]
           /\ LastIncident(l) \in Incident
           /\ l # None
  BY GapAssumption DEF LedgerOK, Ledger, Valid, LastIncident, Last

LEMMA IncidentIs ==
    ASSUME NEW l, LedgerOK(l), NEW j \in 1..Len(l.incidents)
    PROVE  /\ l.incidents[j] \in Incident
           /\ l.incidents[j].number \in 1..l.total
           /\ l.incidents[j].resume.offset = 0
           /\ j > 1 => l.incidents[j].number = l.incidents[j - 1].number + 1
           /\ l.incidents[j].prepared => j = Len(l.incidents)
           /\ j = Len(l.incidents) => l.incidents[j].number = l.total
  BY LedgerFields DEF LedgerOK, Valid

LEMMA SupersededIs ==
    ASSUME NEW l, LedgerOK(l)
    PROVE  LET s == Superseded(l) IN
           /\ s \in Seq(Incident) /\ Len(s) = Len(l.incidents)
           /\ \A i \in 1..Len(l.incidents) :
                 SameIncident(l.incidents[i], s[i]) /\ ~s[i].prepared
  <1> DEFINE inc == l.incidents
             n == Len(inc)
             s == [i \in 1..n |-> IF inc[i].prepared
                                  THEN [inc[i] EXCEPT !.prepared = FALSE, !.superseded = TRUE]
                                  ELSE inc[i]]
  <1>1. n \in Nat /\ DOMAIN inc = 1..n /\ \A i \in 1..n : inc[i] \in Incident
    BY LedgerFields
  <1>2. Superseded(l) = s
    BY <1>1 DEF Superseded
  <1>3. ASSUME NEW i \in 1..n
        PROVE  s[i] \in Incident /\ SameIncident(inc[i], s[i]) /\ ~s[i].prepared
    <2>1. inc[i] \in Incident
      BY <1>1
    <2>2. CASE inc[i].prepared
      BY <2>1, <2>2 DEF Incident, SameIncident
    <2>3. CASE ~inc[i].prepared
      BY <2>1, <2>3 DEF Incident, SameIncident
    <2>. QED
      BY <2>2, <2>3
  <1>4. s \in Seq(Incident) /\ Len(s) = n
    <2>1. s = [i \in 1..n |-> s[i]]
      OBVIOUS
    <2>. HIDE DEF s
    <2>2. s \in [1..n -> Incident]
      BY <1>3, <2>1
    <2>. QED
      BY <1>1, <2>2
  <1>. HIDE DEF s
  <1>. QED
    BY <1>2, <1>3, <1>4

\* The incidents with one more, of which the most recent are kept.
Trimmed(all) ==
    SubSeq(all, (IF Len(all) > KeptIncidents THEN Len(all) - KeptIncidents ELSE 0) + 1,
           Len(all))

\* Of before at most the first is left out.
TrimOf(before, g, out) ==
    /\ out \in Seq(Incident) /\ Len(out) \in 1..KeptIncidents
    /\ out[Len(out)] = g
    /\ \E e \in {0, 1} :
          /\ Len(out) = Len(before) + 1 - e
          /\ \A i \in 1..(Len(out) - 1) : out[i] = before[i + e]

LEMMA TrimmedIs ==
    ASSUME NEW before \in Seq(Incident), Len(before) <= KeptIncidents,
           NEW g \in Incident
    PROVE  TrimOf(before, g, Trimmed(Append(before, g)))
  <1> DEFINE all == Append(before, g)
             n == Len(before)
             e == IF Len(all) > KeptIncidents THEN Len(all) - KeptIncidents ELSE 0
             out == SubSeq(all, e + 1, Len(all))
  <1>1. n \in Nat /\ KeptIncidents \in Nat \ {0} /\ n <= KeptIncidents
    BY GapAssumption
  <1>2. /\ all \in Seq(Incident) /\ Len(all) = n + 1 /\ all[n + 1] = g
        /\ \A i \in 1..n : all[i] = before[i]
        /\ \A i \in 1..(n + 1) : all[i] \in Incident
    BY <1>1, AppendProperties, ElementOfSeq
  <1>3. Trimmed(all) = out
    BY DEF Trimmed
  <1>. HIDE DEF all
  <1>4. e \in {0, 1} /\ (e = 1 => n = KeptIncidents) /\ (e = 0 => n < KeptIncidents)
    BY <1>1, <1>2
  <1>. HIDE DEF e, n
  <1>5. /\ out \in Seq(Incident) /\ Len(out) = n + 1 - e
        /\ \A i \in 1..(n + 1 - e) : out[i] = all[i + e]
    <2>1. e + 1 \in Int /\ n + 1 \in Int /\ e + 1 <= n + 1
      BY <1>1, <1>4
    <2>2. \A i \in (e + 1)..(n + 1) : all[i] \in Incident
      BY <1>1, <1>2, <1>4
    <2>3. /\ out \in Seq(Incident) /\ Len(out) = (n + 1) - (e + 1) + 1
          /\ \A i \in 1..((n + 1) - (e + 1) + 1) : out[i] = all[(e + 1) + i - 1]
      BY <1>2, <2>1, <2>2, SubSeqProperties
    <2>. HIDE DEF out
    <2>. QED
      BY <1>1, <1>4, <2>3
  <1>. HIDE DEF out
  <1>6. Len(out) \in 1..KeptIncidents
    BY <1>1, <1>4, <1>5
  <1>7. out[Len(out)] = g
    <2>1. Len(out) \in 1..(n + 1 - e) /\ Len(out) + e = n + 1
      BY <1>1, <1>4, <1>5
    <2>. QED
      BY <1>2, <1>5, <2>1
  <1>8. \A i \in 1..(Len(out) - 1) : out[i] = before[i + e]
    <2>1. \A i \in 1..(Len(out) - 1) : i \in 1..(n + 1 - e) /\ i + e \in 1..n
      BY <1>1, <1>4, <1>5
    <2>. QED
      BY <1>2, <1>5, <2>1
  <1>9. Len(out) = Len(before) + 1 - e
    BY <1>5 DEF n
  <1>10. TrimOf(before, g, out)
    BY <1>4, <1>5, <1>6, <1>7, <1>8, <1>9 DEF TrimOf
  <1>. QED
    BY <1>3, <1>10 DEF all

\* What prepare writes: the incidents of l, none of them prepared any more, and
\* the new one.
LEMMA WithIncidentIs ==
    ASSUME NEW l, l # None => LedgerOK(l),
           NEW previous \in Position \cup {None},
           NEW resume \in Position, resume.offset = 0
    PROVE  LET m == WithIncident(l, previous, resume) IN
           /\ LedgerOK(m) /\ Prepared(m)
           /\ LastIncident(m).previous = previous
           /\ LastIncident(m).resume = resume
           /\ (l # None => Linked(l) /\ Follows(LastIncident(l), previous)) => Linked(m)
  <1> DEFINE total == IF l = None THEN 1 ELSE l.total + 1
             before == IF l = None THEN << >> ELSE Superseded(l)
             g == [number |-> total, previous |-> previous, resume |-> resume,
                   prepared |-> TRUE, superseded |-> FALSE]
             out == Trimmed(Append(before, g))
             m == [total |-> total, incidents |-> out]
  <1>1. WithIncident(l, previous, resume) = m
    BY DEF WithIncident, Trimmed
  <1>2. total \in Nat \ {0} /\ (l # None => total = l.total + 1)
    BY LedgerFields
  <1>3. g \in Incident /\ g.number = total /\ g.previous = previous
        /\ g.resume = resume /\ g.prepared /\ ~g.superseded
    BY <1>2 DEF Incident
  <1>4. /\ before \in Seq(Incident) /\ Len(before) <= KeptIncidents
        /\ l = None => Len(before) = 0
    <2>1. CASE l = None
      BY <2>1, GapAssumption
    <2>2. CASE l # None
      BY <2>2, LedgerFields, SupersededIs
    <2>. QED
      BY <2>1, <2>2
  <1>5. l # None =>
           /\ LedgerOK(l) /\ Len(before) = Len(l.incidents)
           /\ \A i \in 1..Len(before) :
                 SameIncident(l.incidents[i], before[i]) /\ ~before[i].prepared
    BY SupersededIs
  <1>. HIDE DEF total, before, g
  <1>6. TrimOf(before, g, out)
    BY <1>3, <1>4, TrimmedIs
  <1>. HIDE DEF out
  <1>7. /\ out \in Seq(Incident) /\ Len(out) \in 1..KeptIncidents
        /\ out[Len(out)] = g
    BY <1>6 DEF TrimOf
  <1>8. PICK e \in {0, 1} :
           /\ Len(out) = Len(before) + 1 - e
           /\ \A i \in 1..(Len(out) - 1) : out[i] = before[i + e]
    BY <1>6 DEF TrimOf
  <1>9. /\ m \in Ledger /\ m # None /\ m.incidents = out /\ m.total = total
        /\ LastIncident(m) = g
    BY <1>2, <1>7, GapAssumption DEF Ledger, LastIncident, Last
  <1>. HIDE DEF m
  <1>10. ASSUME NEW i \in 1..(Len(out) - 1)
        PROVE  /\ l # None /\ LedgerOK(l)
               /\ i + e \in 1..Len(l.incidents) /\ Len(l.incidents) = Len(out) - 1 + e
               /\ SameIncident(l.incidents[i + e], out[i]) /\ ~out[i].prepared
    <2>1. i + e \in 1..Len(before) /\ Len(before) = Len(out) - 1 + e
      BY <1>4, <1>7, <1>8
    <2>2. l # None
      BY <1>4, <2>1
    <2>. QED
      BY <1>5, <1>8, <2>1, <2>2
  <1>11. Valid(m)
    <2>1. m.total > 0 /\ Len(m.incidents) \in 1..KeptIncidents
          /\ LastIncident(m).number = m.total /\ total \in Nat \ {0}
      BY <1>2, <1>3, <1>7, <1>9
    <2>2. ASSUME NEW i \in 1..Len(out)
          PROVE  /\ ~(out[i].prepared /\ out[i].superseded)
                 /\ out[i].number \in 1..total
                 /\ i > 1 => out[i].number = out[i - 1].number + 1
                 /\ out[i].resume.offset = 0
                 /\ out[i].prepared => i = Len(out)
      <3>1. CASE i = Len(out)
        <4>1. out[i] = g
          BY <1>7, <3>1
        <4>2. i > 1 => out[i - 1].number = total - 1
          <5>1. SUFFICES ASSUME i > 1 PROVE out[i - 1].number = total - 1
            OBVIOUS
          <5>2. i - 1 \in 1..(Len(out) - 1)
            BY <1>7, <3>1, <5>1
          <5>3. /\ l # None /\ LedgerOK(l) /\ i - 1 + e = Len(l.incidents)
                /\ out[i - 1].number = l.incidents[i - 1 + e].number
            BY <1>7, <1>10, <3>1, <5>2 DEF SameIncident
          <5>4. i - 1 + e \in 1..Len(l.incidents)
            BY <5>3, LedgerFields
          <5>5. l.incidents[i - 1 + e].number = l.total
            BY <5>3, <5>4, IncidentIs
          <5>6. l.total \in Nat /\ total = l.total + 1
            BY <1>2, <5>3, LedgerFields
          <5>. QED
            BY <5>3, <5>5, <5>6
        <4>. QED
          BY <1>2, <1>3, <3>1, <4>1, <4>2
      <3>2. CASE i # Len(out)
        <4>1. i \in 1..(Len(out) - 1)
          BY <1>7, <3>2
        <4>2. /\ l # None /\ LedgerOK(l) /\ i + e \in 1..Len(l.incidents)
              /\ SameIncident(l.incidents[i + e], out[i]) /\ ~out[i].prepared
          BY <1>10, <4>1
        <4>3. /\ l.incidents[i + e].number \in 1..l.total
              /\ l.incidents[i + e].resume.offset = 0
              /\ i + e > 1 => l.incidents[i + e].number = l.incidents[i + e - 1].number + 1
          BY <4>2, IncidentIs
        <4>4. i > 1 => out[i].number = out[i - 1].number + 1
          <5>1. SUFFICES ASSUME i > 1 PROVE out[i].number = out[i - 1].number + 1
            OBVIOUS
          <5>2. i - 1 \in 1..(Len(out) - 1) /\ i + e > 1 /\ i - 1 + e = i + e - 1
            BY <4>1, <5>1
          <5>3. out[i - 1].number = l.incidents[i + e - 1].number
            BY <1>10, <5>2 DEF SameIncident
          <5>. QED
            BY <4>2, <4>3, <5>2, <5>3 DEF SameIncident
        <4>5. out[i].number \in 1..total
          BY <1>2, <4>2, <4>3, LedgerFields DEF SameIncident
        <4>. QED
          BY <3>2, <4>2, <4>3, <4>4, <4>5 DEF SameIncident
      <3>. QED
        BY <3>1, <3>2
    <2>3. DOMAIN out = 1..Len(out)
      BY <1>7
    <2>. QED
      BY <1>9, <2>1, <2>2, <2>3 DEF Valid
  <1>12. ASSUME l # None, Linked(l), Follows(LastIncident(l), previous)
         PROVE  Linked(m)
    <2>1. ASSUME NEW i \in 2..Len(out) PROVE Follows(out[i - 1], out[i].previous)
      <3>1. /\ i - 1 \in 1..(Len(out) - 1)
            /\ LedgerOK(l) /\ i - 1 + e \in 1..Len(l.incidents)
            /\ SameIncident(l.incidents[i - 1 + e], out[i - 1])
        BY <1>7, <1>10
      <3>2. Follows(l.incidents[i - 1 + e], out[i].previous)
        <4>1. CASE i = Len(out)
          <5>1. i - 1 + e = Len(l.incidents)
            BY <1>10, <3>1, <4>1
          <5>2. out[i].previous = previous
            BY <1>3, <1>7, <4>1
          <5>. QED
            BY <1>12, <3>1, <5>1, <5>2, LedgerFields
        <4>2. CASE i # Len(out)
          <5>1. i \in 1..(Len(out) - 1) /\ i + e - 1 = i - 1 + e
            BY <1>7, <4>2
          <5>2. out[i].previous = l.incidents[i + e].previous /\ i + e \in 2..Len(l.incidents)
            BY <1>10, <5>1 DEF SameIncident
          <5>. QED
            BY <1>12, <5>1, <5>2 DEF Linked
        <4>. QED
          BY <4>1, <4>2
      <3>. QED
        BY <3>1, <3>2 DEF Follows, SameIncident
    <2>. QED
      BY <1>9, <2>1 DEF Linked
  <1>13. l = None => Linked(m)
    <2>1. SUFFICES ASSUME l = None PROVE Linked(m)
      OBVIOUS
    <2>2. Len(out) = 1
      BY <1>4, <1>7, <1>8, <2>1
    <2>3. 2..Len(out) = {}
      BY <2>2
    <2>. QED
      BY <1>9, <2>3 DEF Linked
  <1>14. /\ LedgerOK(m) /\ Prepared(m)
         /\ LastIncident(m).previous = previous
         /\ LastIncident(m).resume = resume
    BY <1>3, <1>9, <1>11 DEF LedgerOK, Prepared
  <1>. QED
    BY <1>1, <1>12, <1>13, <1>14

\* What commit writes: the last incident is no longer prepared.
LEMMA CompletedIs ==
    ASSUME NEW l, LedgerOK(l), Prepared(l)
    PROVE  LET m == Completed(l) IN
           /\ LedgerOK(m) /\ ~Prepared(m)
           /\ LastIncident(m).resume = LastIncident(l).resume
           /\ Linked(l) => Linked(m)
  <1> DEFINE inc == l.incidents
             n == Len(inc)
             g == [inc[n] EXCEPT !.prepared = FALSE]
             out == [inc EXCEPT ![n] = g]
             m == Completed(l)
  <1>1. /\ n \in 1..KeptIncidents /\ n \in Nat /\ inc \in Seq(Incident)
        /\ l \in Ledger /\ l # None /\ LastIncident(l) = inc[n]
        /\ inc[n] \in Incident /\ DOMAIN inc = 1..n
    BY LedgerFields, GapAssumption DEF LedgerOK
  <1>2. /\ g \in Incident /\ ~g.prepared /\ ~g.superseded
        /\ g.number = inc[n].number /\ g.previous = inc[n].previous
        /\ g.resume = inc[n].resume
    BY <1>1 DEF Incident, LedgerOK
  <1>3. m = [l EXCEPT !.incidents = out]
    BY DEF Completed
  <1>. HIDE DEF g
  <1>4. /\ out \in Seq(Incident) /\ Len(out) = n /\ out[n] = g /\ DOMAIN out = 1..n
        /\ \A i \in 1..n : i # n => out[i] = inc[i]
    BY <1>1, <1>2
  <1>. HIDE DEF out
  <1>5. /\ m \in Ledger /\ m # None /\ m.incidents = out /\ m.total = l.total
        /\ LastIncident(m) = g
    BY <1>1, <1>3, <1>4, GapAssumption DEF Ledger, LastIncident, Last
  <1>. HIDE DEF m, inc, n
  <1>6. Valid(m)
    <2>1. ASSUME NEW i \in 1..n
          PROVE  /\ ~(out[i].prepared /\ out[i].superseded)
                 /\ out[i].number \in 1..l.total
                 /\ i > 1 => out[i].number = out[i - 1].number + 1
                 /\ out[i].resume.offset = 0
                 /\ out[i].prepared => i = n
      <3>1. /\ out[i].number = inc[i].number /\ out[i].resume = inc[i].resume
            /\ ~out[i].prepared
        <4>1. i # n => ~inc[i].prepared
          BY IncidentIs DEF n, inc
        <4>. QED
          BY <1>2, <1>4, <4>1
      <3>2. i > 1 => out[i - 1].number = inc[i - 1].number
        BY <1>1, <1>4
      <3>. QED
        BY <3>1, <3>2, IncidentIs DEF n, inc
    <2>2. l.total > 0 /\ out[n].number = l.total
      BY <1>1, <1>2, <1>4, IncidentIs, LedgerFields DEF n, inc
    <2>. QED
      BY <1>1, <1>4, <1>5, <2>1, <2>2 DEF Valid
  <1>7. LedgerOK(m) /\ ~Prepared(m) /\ LastIncident(m).resume = LastIncident(l).resume
    BY <1>1, <1>2, <1>5, <1>6 DEF LedgerOK, Prepared
  <1>8. ASSUME Linked(l) PROVE Linked(m)
    <2>1. ASSUME NEW i \in 2..n PROVE Follows(out[i - 1], out[i].previous)
      <3>1. i - 1 \in 1..n /\ i - 1 # n /\ i \in 1..n
        BY <1>1
      <3>2. out[i - 1] = inc[i - 1] /\ out[i].previous = inc[i].previous
        BY <1>2, <1>4, <3>1
      <3>. QED
        BY <1>8, <3>2 DEF Linked, n, inc
    <2>. QED
      BY <1>4, <1>5, <2>1 DEF Linked
  <1>. QED
    BY <1>7, <1>8 DEF m

-----------------------------------------------------------------------------
(* The inductive invariant.                                                *)

\* The lines of p's lineage before p are all in S.
AllBefore(p, S) ==
    \A offset \in 0..(p.offset - 1) : [lineage |-> p.lineage, offset |-> offset] \in S

Following == pc \in {"baseline", "running", "saving"}

\* Both ledgers pass Validate, and the one on disk explains the checkpoint.
LedgersValid ==
    /\ ledger # None => LedgerOK(ledger)
    /\ mem # None => LedgerOK(mem)
    /\ Explained

Story ==
    checkpointed /\ ledger # None =>
        Linked(ledger) /\ Follows(LastIncident(ledger), ckpt)

\* How far the transition is: what memory holds and the disk does not.
Transition ==
    /\ pc = "down" => mem = None
    /\ Following => mem = ledger /\ ~Prepared(ledger)
    /\ pc = "evidence" =>
         \E resume \in Position :
             resume.offset = 0 /\ mem = WithIncident(ledger, ckpt, resume)
    /\ pc \in {"flush", "rebase", "complete"} => mem = ledger /\ Prepared(ledger)

\* Where the checkpoint is meanwhile.
CheckpointPlace ==
    /\ ~checkpointed => ckpt = None
    /\ pc = "rebase" => checkpointed
    /\ checkpointed /\ pc = "complete" => ckpt = LastIncident(ledger).resume
    /\ checkpointed /\ pc \in {"running", "saving"} => ckpt # None
    /\ Following /\ ckpt # None => at.lineage = ckpt.lineage

\* Lines accepted are held until they are durable, and none crosses a gap.
Held ==
    /\ held # {} => pc \in {"running", "saving", "evidence", "flush"}
    /\ NothingJoined
    /\ Following => AllBefore(at, durable \cup held)

\* The checkpoint, and the one being saved, are behind what is durable.
Behind ==
    /\ NothingBehind
    /\ (pc = "saving") = (target # None)
    /\ target # None => /\ checkpointed /\ ckpt # None /\ target.lineage = ckpt.lineage
                        /\ AllBefore(target, durable)

GapInv ==
    /\ TypeOK /\ LedgersValid /\ Story /\ Transition
    /\ CheckpointPlace /\ Held /\ Behind

-----------------------------------------------------------------------------
(* The steps.                                                              *)

USE DEF TypeOK

LEMMA InitGap == Init => GapInv
  BY GapAssumption DEF Init, GapInv, LedgersValid, Explained, Prepared, Story, Transition,
     CheckpointPlace, Held, Behind, NothingJoined, NothingBehind, Following, Origin, Position

\* What is opened when nothing is missing.
LEMMA OpeningIs ==
    ASSUME GapInv, pc = "down", Opens(Opening),
           NEW place, place = IF Opening = None THEN Origin ELSE Opening
    PROVE  /\ place \in Position /\ held = {}
           /\ ~Prepared(ledger) /\ ckpt # None => place = ckpt
           /\ AllBefore(place, durable)
  <1>1. /\ Origin \in Position /\ Origin.offset = 0 /\ held = {}
    BY DEF Origin, Position, GapInv, Held
  <1>2. Prepared(ledger) =>
           /\ Opening = LastIncident(ledger).resume
           /\ Opening \in Position /\ Opening.offset = 0
    <2>1. SUFFICES ASSUME Prepared(ledger)
          PROVE  /\ Opening = LastIncident(ledger).resume
                 /\ Opening \in Position /\ Opening.offset = 0
      OBVIOUS
    <2>2. LedgerOK(ledger) /\ Opening = LastIncident(ledger).resume
      BY <2>1 DEF Prepared, GapInv, LedgersValid, Opening, PendingResume
    <2>3. Len(ledger.incidents) \in 1..Len(ledger.incidents)
      BY <2>2, LedgerFields
    <2>. QED
      BY <2>2, <2>3, LedgerFields, IncidentIs DEF Incident
  <1>3. ~Prepared(ledger) => Opening = ckpt
    BY DEF Opening
  <1>4. \A p \in Position : p.offset = 0 => AllBefore(p, durable)
    BY DEF AllBefore
  <1>5. ckpt # None => ckpt \in Position /\ AllBefore(ckpt, durable)
    BY DEF GapInv, Behind, NothingBehind, AllBefore
  <1>6. CASE Prepared(ledger)
    BY <1>1, <1>2, <1>4, <1>6, GapAssumption
  <1>7. CASE ~Prepared(ledger)
    BY <1>1, <1>3, <1>4, <1>5, <1>7
  <1>. QED
    BY <1>6, <1>7

LEMMA StartStep ==
    ASSUME GapInv, Start
    PROVE  GapInv'
  <1>1. /\ at' \in Position /\ held = {}
        /\ ~Prepared(ledger) /\ ckpt # None => at' = ckpt
        /\ AllBefore(at', durable)
    BY OpeningIs DEF Start
  <1>2. TypeOK'
    BY <1>1 DEF GapInv, Start
  <1>3. LedgersValid' /\ Story'
    BY DEF GapInv, Start, LedgersValid, Story, Explained, PendingResume
  <1>4. Transition'
    BY DEF GapInv, Start, Transition, Following
  <1>5. CheckpointPlace'
    BY <1>1 DEF GapInv, Start, CheckpointPlace, Following
  <1>6. Held'
    BY <1>1 DEF GapInv, Start, Held, NothingJoined, Following, AllBefore
  <1>7. Behind'
    BY DEF GapInv, Start, Behind, NothingBehind, AllBefore
  <1>. QED
    BY <1>2, <1>3, <1>4, <1>5, <1>6, <1>7 DEF GapInv

\* Evidence of a gap: the ledger with one incident more, out of the checkpoint.
LEMMA EvidenceIs ==
    ASSUME GapInv, mem' = WithIncident(ledger, ckpt, Origin)
    PROVE  /\ LedgerOK(mem')
           /\ \E resume \in Position :
                 resume.offset = 0 /\ mem' = WithIncident(ledger, ckpt, resume)
  <1>1. Origin \in Position /\ Origin.offset = 0
    BY DEF Origin, Position, GapInv
  <1>2. LedgerOK(WithIncident(ledger, ckpt, Origin))
    BY <1>1, WithIncidentIs DEF GapInv, LedgersValid
  <1>. QED
    BY <1>1, <1>2

LEMMA StartInGapStep ==
    ASSUME GapInv, StartInGap
    PROVE  GapInv'
  <1>1. /\ LedgerOK(mem')
        /\ \E resume \in Position :
              resume.offset = 0 /\ mem' = WithIncident(ledger, ckpt, resume)
    BY EvidenceIs DEF StartInGap
  <1>2. at' \in Position /\ held = {}
    BY DEF GapInv, StartInGap, Origin, Position, Held
  <1>3. TypeOK'
    BY <1>1, <1>2 DEF GapInv, StartInGap, LedgerOK
  <1>4. LedgersValid' /\ Story'
    BY <1>1 DEF GapInv, StartInGap, LedgersValid, Story, Explained, PendingResume
  <1>5. Transition'
    BY <1>1 DEF GapInv, StartInGap, Transition, Following
  <1>6. CheckpointPlace'
    BY DEF GapInv, StartInGap, CheckpointPlace, Following
  <1>7. Held'
    BY <1>2 DEF GapInv, StartInGap, Held, NothingJoined, Following
  <1>8. Behind'
    BY DEF GapInv, StartInGap, Behind, NothingBehind, AllBefore
  <1>. QED
    BY <1>3, <1>4, <1>5, <1>6, <1>7, <1>8 DEF GapInv

LEMMA DetectGapStep ==
    ASSUME GapInv, DetectGap
    PROVE  GapInv'
  <1>1. mem = ledger
    BY DEF GapInv, DetectGap, Transition, Following
  <1>2. /\ LedgerOK(mem')
        /\ \E resume \in Position :
              resume.offset = 0 /\ mem' = WithIncident(ledger, ckpt, resume)
    BY <1>1, EvidenceIs DEF DetectGap
  <1>3. TypeOK'
    BY <1>2 DEF GapInv, DetectGap, LedgerOK
  <1>4. LedgersValid' /\ Story'
    BY <1>2 DEF GapInv, DetectGap, LedgersValid, Story, Explained, PendingResume
  <1>5. Transition'
    BY <1>2 DEF GapInv, DetectGap, Transition, Following
  <1>6. CheckpointPlace'
    BY DEF GapInv, DetectGap, CheckpointPlace, Following
  <1>7. Held'
    BY DEF GapInv, DetectGap, Held, NothingJoined, Following
  <1>8. Behind'
    BY DEF GapInv, DetectGap, Behind, NothingBehind, AllBefore
  <1>. QED
    BY <1>3, <1>4, <1>5, <1>6, <1>7, <1>8 DEF GapInv

\* The first checkpoint ends no story: a completed incident has left one.
LEMMA BaselineStep ==
    ASSUME GapInv, Baseline
    PROVE  GapInv'
  <1>1. pc = "baseline" /\ mem = ledger /\ ~Prepared(ledger) /\ held = {} /\ target = None
    BY DEF GapInv, Baseline, Transition, Following, Held, Behind
  <1>2. checkpointed /\ ckpt = None => ledger = None
    BY <1>1, GapAssumption
       DEF GapInv, Story, Follows, Prepared, LedgersValid, LedgerOK
  <1>3. AllBefore(at, durable) /\ (ckpt # None => at.lineage = ckpt.lineage)
    BY <1>1 DEF GapInv, Held, Following, CheckpointPlace
  <1>4. ckpt' # None => at.lineage = ckpt'.lineage
    BY <1>3 DEF Baseline
  <1>5. TypeOK'
    BY DEF GapInv, Baseline
  <1>6. LedgersValid' /\ Story'
    BY <1>1, <1>2 DEF GapInv, Baseline, LedgersValid, Story, Explained, Prepared, PendingResume
  <1>7. Transition'
    BY <1>1 DEF GapInv, Baseline, Transition, Following
  <1>8. CheckpointPlace'
    BY <1>1, <1>4, GapAssumption DEF GapInv, Baseline, CheckpointPlace, Following
  <1>9. Held'
    BY <1>1, <1>3 DEF Baseline, Held, NothingJoined, AllBefore
  <1>10. Behind'
    BY <1>1, <1>3 DEF GapInv, Baseline, Behind, NothingBehind, AllBefore
  <1>. QED
    BY <1>5, <1>6, <1>7, <1>8, <1>9, <1>10 DEF GapInv

LEMMA ReadLineStep ==
    ASSUME GapInv, ReadLine
    PROVE  GapInv'
  <1>1. pc = "running" /\ at \in Position /\ (ckpt # None => at.lineage = ckpt.lineage)
    BY DEF GapInv, ReadLine, CheckpointPlace, Following
  <1>2. /\ at' \in Position /\ at'.lineage = at.lineage /\ at'.offset = at.offset + 1
        /\ held' = held \cup {at}
    BY <1>1 DEF ReadLine, Position
  <1>3. TypeOK'
    BY <1>1, <1>2 DEF GapInv, ReadLine
  <1>4. LedgersValid' /\ Story'
    BY DEF GapInv, ReadLine, LedgersValid, Story, Explained, PendingResume
  <1>5. Transition'
    BY DEF GapInv, ReadLine, Transition, Following
  <1>6. CheckpointPlace'
    BY <1>2 DEF GapInv, ReadLine, CheckpointPlace, Following
  <1>7. Held'
    <2>1. NothingJoined'
      BY <1>1, <1>2 DEF GapInv, ReadLine, Held, NothingJoined
    <2>2. AllBefore(at', durable \cup held')
      <3>1. ASSUME NEW offset \in 0..(at'.offset - 1)
            PROVE  [lineage |-> at'.lineage, offset |-> offset] \in durable \cup held'
        <4>1. CASE offset = at.offset
          <5>1. at = [lineage |-> at'.lineage, offset |-> offset]
            BY <1>1, <1>2, <4>1 DEF Position
          <5>. QED
            BY <1>2, <5>1
        <4>2. CASE offset # at.offset
          <5>1. offset \in 0..(at.offset - 1)
            BY <1>1, <1>2, <4>2 DEF Position
          <5>. QED
            BY <1>1, <1>2, <5>1 DEF GapInv, Held, Following, AllBefore
        <4>. QED
          BY <4>1, <4>2
      <3>. QED
        BY <3>1 DEF AllBefore
    <2>. QED
      BY <2>1, <2>2 DEF ReadLine, Held, AllBefore
  <1>8. Behind'
    BY DEF GapInv, ReadLine, Behind, NothingBehind, AllBefore
  <1>. QED
    BY <1>3, <1>4, <1>5, <1>6, <1>7, <1>8 DEF GapInv

LEMMA PersistStep ==
    ASSUME GapInv, Persist
    PROVE  GapInv'
  <1>1. PICK safe \in [lineage : {at.lineage}, offset : 0..at.offset] :
           /\ target' = safe
           /\ durable' = durable \cup {l \in held : Before(l, safe)}
           /\ held' = {l \in held : ~Before(l, safe)}
    BY DEF Persist
  <1>2. /\ safe \in Position /\ safe.lineage = at.lineage /\ safe.offset <= at.offset
        /\ at \in Position
    BY <1>1 DEF GapInv, Position
  <1>3. /\ pc = "running" /\ checkpointed /\ ckpt # None
        /\ at.lineage = ckpt.lineage /\ AllBefore(at, durable \cup held)
    BY DEF GapInv, Persist, CheckpointPlace, Following, Held
  <1>4. durable' \cup held' = durable \cup held
    BY <1>1
  <1>5. AllBefore(safe, durable')
    <2>1. ASSUME NEW offset \in 0..(safe.offset - 1)
          PROVE  [lineage |-> safe.lineage, offset |-> offset] \in durable'
      <3>1. offset \in 0..(at.offset - 1) /\ offset < safe.offset
        BY <1>2 DEF Position
      <3>2. [lineage |-> safe.lineage, offset |-> offset] \in durable \cup held
        BY <1>2, <1>3, <3>1 DEF AllBefore
      <3>. QED
        BY <1>1, <3>1, <3>2 DEF Before
    <2>. QED
      BY <2>1 DEF AllBefore
  <1>6. TypeOK'
    BY <1>1, <1>2 DEF GapInv, Persist
  <1>7. LedgersValid' /\ Story'
    BY DEF GapInv, Persist, LedgersValid, Story, Explained, PendingResume
  <1>8. Transition'
    BY DEF GapInv, Persist, Transition, Following
  <1>9. CheckpointPlace'
    BY DEF GapInv, Persist, CheckpointPlace, Following
  <1>10. Held'
    <2>1. NothingJoined'
      BY <1>1 DEF GapInv, Persist, Held, NothingJoined
    <2>2. AllBefore(at, durable' \cup held')
      BY <1>3, <1>4 DEF AllBefore
    <2>. QED
      BY <2>1, <2>2 DEF Persist, Held, AllBefore
  <1>11. Behind'
    <2>1. target' # None /\ pc' = "saving"
      BY <1>1, <1>2, GapAssumption DEF Persist
    <2>2. durable \subseteq durable'
      BY <1>1
    <2>. QED
      BY <1>1, <1>2, <1>3, <1>5, <2>1, <2>2
         DEF GapInv, Persist, Behind, NothingBehind, AllBefore
  <1>. QED
    BY <1>6, <1>7, <1>8, <1>9, <1>10, <1>11 DEF GapInv

LEMMA SaveCheckpointStep ==
    ASSUME GapInv, SaveCheckpoint
    PROVE  GapInv'
  <1>1. /\ pc = "saving" /\ target # None /\ ckpt # None /\ checkpointed
        /\ target.lineage = ckpt.lineage /\ AllBefore(target, durable)
        /\ mem = ledger /\ ~Prepared(ledger)
    BY DEF GapInv, SaveCheckpoint, Behind, Transition, Following
  <1>2. TypeOK'
    BY DEF GapInv, SaveCheckpoint
  <1>3. LedgersValid'
    BY <1>1 DEF GapInv, SaveCheckpoint, LedgersValid, Explained, Prepared
  <1>4. Story'
    <2>1. ledger # None => ~LastIncident(ledger).prepared /\ ~LastIncident(ledger).superseded
      BY <1>1 DEF GapInv, LedgersValid, LedgerOK, Prepared
    <2>. QED
      BY <1>1, <2>1 DEF GapInv, SaveCheckpoint, Story, Follows
  <1>5. Transition'
    BY <1>1 DEF SaveCheckpoint, Transition, Following
  <1>6. CheckpointPlace'
    BY <1>1 DEF GapInv, SaveCheckpoint, CheckpointPlace, Following
  <1>7. Held'
    BY <1>1 DEF GapInv, SaveCheckpoint, Held, NothingJoined, Following, AllBefore
  <1>8. Behind'
    BY <1>1 DEF SaveCheckpoint, Behind, NothingBehind, AllBefore
  <1>. QED
    BY <1>2, <1>3, <1>4, <1>5, <1>6, <1>7, <1>8 DEF GapInv

\* The evidence explains the checkpoint: it is where the incident starts.
LEMMA SaveEvidenceStep ==
    ASSUME GapInv, SaveEvidence
    PROVE  GapInv'
  <1>1. PICK resume \in Position :
           resume.offset = 0 /\ mem = WithIncident(ledger, ckpt, resume)
    BY DEF GapInv, SaveEvidence, Transition
  <1>2. /\ LedgerOK(mem) /\ Prepared(mem) /\ LastIncident(mem).previous = ckpt
        /\ (ledger # None => Linked(ledger) /\ Follows(LastIncident(ledger), ckpt))
              => Linked(mem)
    <2>1. /\ ledger # None => LedgerOK(ledger)
          /\ ckpt \in Position \cup {None}
      BY DEF GapInv, LedgersValid
    <2>. QED
      BY <1>1, <2>1, WithIncidentIs, Zenon
  <1>3. TypeOK'
    BY DEF GapInv, SaveEvidence
  <1>4. LedgersValid'
    BY <1>2 DEF GapInv, SaveEvidence, LedgersValid, Explained
  <1>5. Story'
    BY <1>2 DEF GapInv, SaveEvidence, Story, Follows, Prepared
  <1>6. Transition'
    BY <1>2 DEF SaveEvidence, Transition, Following, Prepared
  <1>7. CheckpointPlace'
    BY DEF GapInv, SaveEvidence, CheckpointPlace, Following
  <1>8. Held'
    BY DEF GapInv, SaveEvidence, Held, NothingJoined, Following
  <1>9. Behind'
    BY DEF GapInv, SaveEvidence, Behind, NothingBehind, AllBefore
  <1>. QED
    BY <1>3, <1>4, <1>5, <1>6, <1>7, <1>8, <1>9 DEF GapInv

LEMMA FlushOutputStep ==
    ASSUME GapInv, FlushOutput
    PROVE  GapInv'
  <1>1. TypeOK'
    BY DEF GapInv, FlushOutput
  <1>2. LedgersValid' /\ Story'
    BY DEF GapInv, FlushOutput, LedgersValid, Story, Explained, PendingResume
  <1>3. Transition'
    BY DEF GapInv, FlushOutput, Transition, Following, Prepared
  <1>4. CheckpointPlace'
    BY DEF GapInv, FlushOutput, CheckpointPlace, Following
  <1>5. Held'
    BY DEF FlushOutput, Held, NothingJoined, Following
  <1>6. Behind'
    BY DEF GapInv, FlushOutput, Behind, NothingBehind, AllBefore
  <1>. QED
    BY <1>1, <1>2, <1>3, <1>4, <1>5, <1>6 DEF GapInv

\* The resume position of the prepared incident.
LEMMA ResumeIs ==
    ASSUME GapInv, Prepared(ledger)
    PROVE  /\ LedgerOK(ledger) /\ LastIncident(ledger).resume \in Position
           /\ LastIncident(ledger).resume.offset = 0
           /\ LastIncident(ledger).resume # None
           /\ AllBefore(LastIncident(ledger).resume, durable)
  <1>1. LedgerOK(ledger)
    BY DEF GapInv, LedgersValid, Prepared
  <1>2. Len(ledger.incidents) \in 1..Len(ledger.incidents)
    BY <1>1, LedgerFields
  <1>3. LastIncident(ledger).resume \in Position /\ LastIncident(ledger).resume.offset = 0
    BY <1>1, <1>2, LedgerFields, IncidentIs DEF Incident
  <1>. QED
    BY <1>1, <1>3, GapAssumption DEF AllBefore

LEMMA RebaseStep ==
    ASSUME GapInv, Rebase
    PROVE  GapInv'
  <1>1. /\ pc = "rebase" /\ checkpointed /\ mem = ledger /\ Prepared(ledger)
        /\ held = {} /\ target = None
    BY DEF GapInv, Rebase, Transition, CheckpointPlace, Held, Behind
  <1>2. /\ ckpt' = LastIncident(ledger).resume /\ ckpt' \in Position /\ ckpt' # None
        /\ AllBefore(ckpt', durable)
    BY <1>1, ResumeIs DEF Rebase
  <1>3. TypeOK'
    BY <1>2 DEF GapInv, Rebase
  <1>4. LedgersValid'
    BY <1>1, <1>2 DEF GapInv, Rebase, LedgersValid, Explained, PendingResume, Prepared
  <1>5. Story'
    BY <1>1, <1>2 DEF GapInv, Rebase, Story, Follows, Prepared
  <1>6. Transition'
    BY <1>1 DEF Rebase, Transition, Following, Prepared
  <1>7. CheckpointPlace'
    BY <1>1, <1>2 DEF Rebase, CheckpointPlace, Following
  <1>8. Held'
    BY <1>1 DEF Rebase, Held, NothingJoined, Following
  <1>9. Behind'
    BY <1>1, <1>2 DEF Rebase, Behind, NothingBehind, AllBefore
  <1>. QED
    BY <1>3, <1>4, <1>5, <1>6, <1>7, <1>8, <1>9 DEF GapInv

\* By now the checkpoint, if there is one, is the resume position.
LEMMA CompleteStep ==
    ASSUME GapInv, Complete
    PROVE  GapInv'
  <1>1. /\ pc = "complete" /\ mem = ledger /\ Prepared(ledger)
        /\ held = {} /\ target = None
        /\ checkpointed => ckpt = LastIncident(ledger).resume
        /\ ~checkpointed => ckpt = None
    BY DEF GapInv, Complete, Transition, CheckpointPlace, Held, Behind
  <1>2. /\ LedgerOK(ledger)
        /\ at' = LastIncident(ledger).resume /\ at' \in Position /\ at' # None
        /\ at'.offset = 0 /\ AllBefore(at', durable)
    BY <1>1, ResumeIs DEF Complete
  <1>3. /\ ledger' = mem' /\ LedgerOK(ledger') /\ ~Prepared(ledger') /\ ledger' # None
        /\ LastIncident(ledger').resume = at'
        /\ Linked(ledger) => Linked(ledger')
    BY <1>1, <1>2, CompletedIs, LedgerFields DEF Complete
  <1>4. TypeOK'
    BY <1>2, <1>3 DEF GapInv, Complete, LedgerOK
  <1>5. LedgersValid'
    BY <1>3 DEF LedgersValid, Explained
  <1>6. Story'
    <2>1. ASSUME checkpointed
          PROVE  Linked(ledger') /\ Follows(LastIncident(ledger'), ckpt)
      <3>1. ~LastIncident(ledger').prepared /\ ~LastIncident(ledger').superseded
        BY <1>3 DEF LedgerOK, Prepared
      <3>2. Follows(LastIncident(ledger'), ckpt)
        BY <1>1, <1>2, <1>3, <2>1, <3>1 DEF Follows
      <3>3. Linked(ledger)
        BY <1>1, <2>1 DEF GapInv, Story, Prepared
      <3>. QED
        BY <1>3, <3>2, <3>3
    <2>. QED
      BY <2>1 DEF Complete, Story
  <1>7. Transition'
    BY <1>3 DEF Complete, Transition
  <1>8. CheckpointPlace'
    BY <1>1, <1>2 DEF Complete, CheckpointPlace
  <1>9. Held'
    BY <1>1, <1>2 DEF Complete, Held, NothingJoined, AllBefore
  <1>10. Behind'
    BY <1>1 DEF GapInv, Complete, Behind, NothingBehind, AllBefore
  <1>. QED
    BY <1>4, <1>5, <1>6, <1>7, <1>8, <1>9, <1>10 DEF GapInv

LEMMA CrashStep ==
    ASSUME GapInv, Crash
    PROVE  GapInv'
  <1>1. durable \subseteq durable' /\ durable' \subseteq Position
    BY DEF GapInv, Crash
  <1>2. TypeOK'
    BY <1>1 DEF GapInv, Crash, Origin, Position
  <1>3. LedgersValid' /\ Story'
    BY DEF GapInv, Crash, LedgersValid, Story, Explained, PendingResume
  <1>4. Transition' /\ CheckpointPlace'
    BY DEF GapInv, Crash, Transition, CheckpointPlace, Following
  <1>5. Held'
    BY DEF Crash, Held, NothingJoined, Following
  <1>6. Behind'
    BY <1>1 DEF GapInv, Crash, Behind, NothingBehind
  <1>. QED
    BY <1>2, <1>3, <1>4, <1>5, <1>6 DEF GapInv

\* A break of the source changes nothing that the process or the disk holds.
LEMMA ElsewhereStep ==
    ASSUME GapInv, Break \/ UNCHANGED vars
    PROVE  GapInv'
  <1>1. /\ UNCHANGED <<ckpt, ledger, durable, pc, mem, at, held, target, crashes,
                       checkpointed>>
        /\ lineage' \in Nat
    BY DEF GapInv, Break, vars, process
  <1>. QED
    BY <1>1 DEF GapInv, LedgersValid, Story, Explained, PendingResume, Transition,
       CheckpointPlace, Held, NothingJoined, Behind, NothingBehind, AllBefore, Following

LEMMA GapInvariant == Spec => []GapInv
  <1>1. GapInv /\ [Next]_vars => GapInv'
    BY StartStep, StartInGapStep, BaselineStep, SaveCheckpointStep, DetectGapStep,
       SaveEvidenceStep, FlushOutputStep, RebaseStep, CompleteStep, ReadLineStep,
       PersistStep, CrashStep, ElsewhereStep, Zenon DEF Next, Progress
  <1>. QED
    BY InitGap, <1>1, PTL DEF Spec

-----------------------------------------------------------------------------
(* The properties.                                                         *)

\* No earlier run leaves a ledger or a checkpoint that a restart refuses
\* (GapLedger.Validate, pending), wherever between two saves it died.
THEOREM RestartsExplained == Spec => []RestartExplained
  <1>1. GapInv => RestartExplained
    BY DEF GapInv, LedgersValid, LedgerOK, RestartExplained
  <1>. QED
    BY GapInvariant, <1>1, PTL

\* The kept incidents lead, without a hole, to the checkpoint (prepare, commit).
THEOREM LedgerIsAChain == Spec => []HistoryIsAChain
  <1>1. GapInv => HistoryIsAChain
    BY DEF GapInv, Story, Linked, HistoryIsAChain
  <1>. QED
    BY GapInvariant, <1>1, PTL

\* What is held when a gap is found never meets a line from beyond it
\* (runFollower's flushAll before the position moves).
THEOREM NothingCrossesAGap == Spec => []NothingJoined
  <1>1. GapInv => NothingJoined
    BY DEF GapInv, Held
  <1>. QED
    BY GapInvariant, <1>1, PTL

\* Every line behind the checkpoint in its lineage is durable, through any
\* number of gaps and deaths (persist, commit).
THEOREM CheckpointOnDurable == Spec => []NothingBehind
  <1>1. GapInv => NothingBehind
    BY DEF GapInv, Behind
  <1>. QED
    BY GapInvariant, <1>1, PTL

\* The checkpoint leaves a lineage only for the resume position of a durable
\* incident that names the position it leaves (prepare before Rebase).
THEOREM GapsAreRecorded == Spec => GapRecorded
  <1> DEFINE Recorded ==
        ckpt # None /\ ckpt'.lineage # ckpt.lineage =>
            /\ Prepared(ledger)
            /\ LastIncident(ledger).previous = ckpt
            /\ PendingResume(ledger) = ckpt'
  <1>1. ASSUME GapInv, [Next]_vars
        PROVE  [Recorded]_vars
    <2>1. CASE Baseline
      BY <2>1 DEF Baseline
    <2>2. CASE SaveCheckpoint
      BY <1>1, <2>2 DEF GapInv, SaveCheckpoint, Behind
    <2>3. CASE Rebase
      <3>1. mem = ledger /\ Prepared(ledger) /\ Explained
        BY <1>1, <2>3 DEF GapInv, Rebase, Transition, LedgersValid
      <3>2. PendingResume(ledger) = ckpt'
        BY <2>3, <3>1 DEF Rebase, PendingResume
      <3>3. ckpt'.lineage # ckpt.lineage => LastIncident(ledger).previous = ckpt
        BY <3>1, <3>2 DEF Explained
      <3>. QED
        BY <3>1, <3>2, <3>3
    <2>4. CASE UNCHANGED ckpt
      BY <2>4
    <2>5. Baseline \/ SaveCheckpoint \/ Rebase \/ UNCHANGED ckpt
      BY <1>1 DEF Next, Progress, Start, StartInGap, DetectGap, SaveEvidence, FlushOutput,
         Complete, ReadLine, Persist, Break, Crash, vars
    <2>. QED
      BY <2>1, <2>2, <2>3, <2>4, <2>5
  <1>. QED
    BY GapInvariant, <1>1, PTL DEF Spec, GapRecorded

=============================================================================
