-------------------------- MODULE RotationProofs --------------------------
(***************************************************************************)
(* What the rotating follower guarantees for every number of rotations,    *)
(* generations, pieces, truncations and deaths, and for every interleaving *)
(* of its steps with the writer and the rotation.                          *)
(*                                                                         *)
(* Four invariants are stacked.  SourceInv is of the directory alone: a    *)
(* rotation numbers the generations without a hole but for the one it      *)
(* makes room in.  DiscoveryInv says what a listing that is looked at      *)
(* entry by entry may hold while that directory moves.  FollowInv gives    *)
(* the follower's types and its queue: the generations after the open one, *)
(* in order.  DataInv is of what was read, and implies the three reading   *)
(* properties; its parts are explained where they are defined.             *)
(*                                                                         *)
(* Each is shown kept by the kinds of steps that Kinds tells apart, one    *)
(* lemma for each.                                                         *)
(***************************************************************************)
EXTENDS Rotation, FiniteSetTheorems, WellFoundedInduction, TLAPS

Newest == Len(content)

-----------------------------------------------------------------------------
(* What the writer and the rotation do to the content.                     *)

SourceOK ==
    /\ content \in Seq(Seq(Seq(BOOLEAN)))
    /\ \A g \in Generations : Era(g) \in Nat \ {0}
    /\ dir \in [Name -> 0..Newest]
    /\ writing \in Generations
    /\ rotating \in {"nothing", "rename", "create", "reopen"} /\ slot \in Name

SourceStep ==
    Rotate \/ (\E ends \in BOOLEAN : Write(ends)) \/ (\E g \in Present : Truncate(g))

\* Content is only ever added: to the last era of the generation the writer
\* holds, as a new era, or as a new generation.
GrownAt(g) ==
    /\ Len(content'[g]) \in Nat \ {0} /\ Len(content[g]) <= Len(content'[g])
    /\ \A e \in 1..Len(content[g]) :
          /\ Len(content'[g][e]) \in Nat /\ Len(content[g][e]) <= Len(content'[g][e])
          /\ \A i \in 1..Len(content[g][e]) : content'[g][e][i] = content[g][e][i]
    /\ g # writing /\ Len(content'[g]) = Len(content[g]) => content'[g] = content[g]

LEMMA SourceType ==
    ASSUME SourceOK
    PROVE  /\ Newest \in Nat \ {0} /\ Generations = 1..Newest
           /\ \A g \in Generations :
                 /\ content[g] \in Seq(Seq(BOOLEAN)) /\ Era(g) \in Nat \ {0}
                 /\ DOMAIN content[g] = 1..Era(g)
                 /\ \A e \in 1..Era(g) : /\ content[g][e] \in Seq(BOOLEAN)
                                         /\ Len(content[g][e]) \in Nat
                 /\ Lines(g) = content[g][Era(g)] /\ SizeOf(g) \in Nat
  <1>1. Newest \in Nat \ {0} /\ Generations = 1..Newest
    BY DEF SourceOK, Newest, Generations
  <1>2. ASSUME NEW g \in Generations
        PROVE  /\ content[g] \in Seq(Seq(BOOLEAN)) /\ Era(g) \in Nat \ {0}
               /\ DOMAIN content[g] = 1..Era(g)
    BY DEF SourceOK, Generations, Era
  <1>3. ASSUME NEW g \in Generations, NEW e \in 1..Era(g)
        PROVE  content[g][e] \in Seq(BOOLEAN) /\ Len(content[g][e]) \in Nat
    <2>1. content[g] \in Seq(Seq(BOOLEAN)) /\ e \in DOMAIN content[g]
      BY <1>2, <1>3
    <2>. QED
      BY <2>1
  <1>4. ASSUME NEW g \in Generations
        PROVE  Lines(g) = content[g][Era(g)] /\ SizeOf(g) \in Nat
    BY <1>2, <1>3 DEF Lines, SizeOf
  <1>. QED
    BY <1>1, <1>2, <1>3, <1>4

\* One generation of the content is replaced by another sequence of eras.
LEMMA ContentType ==
    ASSUME NEW c \in Seq(Seq(Seq(BOOLEAN))), NEW g \in DOMAIN c, NEW eras \in Seq(Seq(BOOLEAN))
    PROVE  LET d == [c EXCEPT ![g] = eras] IN
           /\ d \in Seq(Seq(Seq(BOOLEAN)))
           /\ Len(d) = Len(c) /\ DOMAIN d = DOMAIN c
           /\ d[g] = eras
           /\ \A h \in DOMAIN c : h # g => d[h] = c[h]
  <1>. PICK E : E = Seq(Seq(BOOLEAN))
    OBVIOUS
  <1>1. c \in Seq(E) /\ eras \in E
    OBVIOUS
  <1>2. LET d == [c EXCEPT ![g] = eras] IN
        /\ d \in Seq(E)
        /\ Len(d) = Len(c) /\ DOMAIN d = DOMAIN c
        /\ d[g] = eras
        /\ \A h \in DOMAIN c : h # g => d[h] = c[h]
    BY <1>1
  <1>. QED
    BY <1>2

\* A piece at the end of the last era; a new era.
LEMMA ErasWritten ==
    ASSUME NEW eras \in Seq(Seq(BOOLEAN)), eras # << >>, NEW ends \in BOOLEAN
    PROVE  LET e == Len(eras)
               d == [eras EXCEPT ![e] = Append(@, ends)] IN
           /\ d \in Seq(Seq(BOOLEAN))
           /\ Len(d) = e
           /\ \A k \in 1..e : k # e => d[k] = eras[k]
           /\ d[e] = Append(eras[e], ends)
  <1>. PICK E, e : E = Seq(BOOLEAN) /\ e = Len(eras)
    OBVIOUS
  <1>1. eras \in Seq(E) /\ e \in 1..Len(eras) /\ eras[e] \in E
    OBVIOUS
  <1>2. Append(eras[e], ends) \in E
    BY <1>1
  <1>. PICK x : x = Append(eras[e], ends)
    OBVIOUS
  <1>3. LET d == [eras EXCEPT ![e] = x] IN
        /\ d \in Seq(E)
        /\ Len(d) = e
        /\ \A k \in 1..e : k # e => d[k] = eras[k]
        /\ d[e] = x
    BY <1>1, <1>2
  <1>. QED
    BY <1>3

LEMMA ErasCut ==
    ASSUME NEW eras \in Seq(Seq(BOOLEAN))
    PROVE  LET d == Append(eras, << >>) IN
           /\ d \in Seq(Seq(BOOLEAN))
           /\ Len(d) = Len(eras) + 1
           /\ \A k \in 1..Len(eras) : d[k] = eras[k]
           /\ d[Len(eras) + 1] = << >>
  <1>. PICK E : E = Seq(BOOLEAN)
    OBVIOUS
  <1>1. eras \in Seq(E) /\ << >> \in E
    OBVIOUS
  <1>2. LET d == Append(eras, << >>) IN
        /\ d \in Seq(E)
        /\ Len(d) = Len(eras) + 1
        /\ \A k \in 1..Len(eras) : d[k] = eras[k]
        /\ d[Len(eras) + 1] = << >>
    BY <1>1
  <1>. QED
    BY <1>2

LEMMA WriteContent ==
    ASSUME SourceOK, NEW ends \in BOOLEAN, Write(ends)
    PROVE  /\ content' \in Seq(Seq(Seq(BOOLEAN))) /\ Len(content') = Len(content)
           /\ \A g \in Generations : g # writing => content'[g] = content[g]
           /\ Len(content'[writing]) = Era(writing)
           /\ \A e \in 1..Era(writing) : e # Era(writing) =>
                 content'[writing][e] = content[writing][e]
           /\ content'[writing][Era(writing)] = Append(Lines(writing), ends)
  <1>. PICK w, c, e : w = writing /\ c = content[w] /\ e = Len(c)
    OBVIOUS
  <1>. PICK d : d = [c EXCEPT ![e] = Append(@, ends)]
    OBVIOUS
  <1>1. c \in Seq(Seq(BOOLEAN)) /\ c # << >> /\ w \in DOMAIN content
    <2>1. c \in Seq(Seq(BOOLEAN)) /\ Len(c) \in Nat \ {0}
      BY SourceType DEF SourceOK, Era
    <2>. QED
      BY <2>1 DEF SourceOK, Generations
  <1>2. /\ d \in Seq(Seq(BOOLEAN)) /\ Len(d) = e
        /\ \A k \in 1..e : k # e => d[k] = c[k]
        /\ d[e] = Append(c[e], ends)
    BY <1>1, ErasWritten
  <1>3. content' = [content EXCEPT ![w] = d]
    BY DEF Write, Era
  <1>4. /\ content' \in Seq(Seq(Seq(BOOLEAN))) /\ Len(content') = Len(content)
        /\ content'[w] = d
        /\ \A h \in DOMAIN content : h # w => content'[h] = content[h]
    BY <1>1, <1>2, <1>3, ContentType DEF SourceOK
  <1>. QED
    BY <1>2, <1>4 DEF Era, Lines, Generations

LEMMA TruncateContent ==
    ASSUME SourceOK, NEW t \in Present, Truncate(t)
    PROVE  /\ content' \in Seq(Seq(Seq(BOOLEAN))) /\ Len(content') = Len(content)
           /\ t \in Generations
           /\ \A g \in Generations : g # t => content'[g] = content[g]
           /\ Len(content'[t]) = Era(t) + 1
           /\ \A e \in 1..Era(t) : content'[t][e] = content[t][e]
           /\ content'[t][Era(t) + 1] = << >>
  <1>. PICK c, d : c = content[t] /\ d = Append(c, << >>)
    OBVIOUS
  <1>1. t \in Generations /\ t \in DOMAIN content
    BY SourceType DEF SourceOK, Present, Range, Generations
  <1>2. c \in Seq(Seq(BOOLEAN))
    BY <1>1, SourceType
  <1>3. /\ d \in Seq(Seq(BOOLEAN)) /\ Len(d) = Len(c) + 1
        /\ \A k \in 1..Len(c) : d[k] = c[k]
        /\ d[Len(c) + 1] = << >>
    BY <1>2, ErasCut
  <1>4. content' = [content EXCEPT ![t] = d]
    BY DEF Truncate
  <1>5. /\ content' \in Seq(Seq(Seq(BOOLEAN))) /\ Len(content') = Len(content)
        /\ content'[t] = d
        /\ \A h \in DOMAIN content : h # t => content'[h] = content[h]
    BY <1>1, <1>3, <1>4, ContentType DEF SourceOK
  <1>. QED
    BY <1>1, <1>3, <1>5 DEF Era, Generations

LEMMA CreateContent ==
    ASSUME SourceOK, Create
    PROVE  /\ content' \in Seq(Seq(Seq(BOOLEAN))) /\ Len(content') = Len(content) + 1
           /\ \A g \in Generations : content'[g] = content[g]
           /\ content'[Newest + 1] = << << >> >>
           /\ Generations' = Generations \cup {Newest + 1}
  <1>. PICK E, x : E = Seq(Seq(BOOLEAN)) /\ x = << << >> >>
    OBVIOUS
  <1>1. x \in E
    <2>. PICK B, y : B = Seq(BOOLEAN) /\ y = << >>
      OBVIOUS
    <2>1. y \in B
      OBVIOUS
    <2>2. <<y>> \in Seq(B)
      BY <2>1
    <2>. QED
      BY <2>2
  <1>2. content \in Seq(E) /\ content' = Append(content, x)
    BY DEF SourceOK, Create
  <1>3. content' \in Seq(E) /\ Len(content') = Len(content) + 1
        /\ (\A g \in 1..Len(content) : content'[g] = content[g])
        /\ content'[Len(content) + 1] = x
    BY <1>1, <1>2
  <1>. QED
    BY <1>2, <1>3, SourceType DEF Generations, Newest

LEMMA ContentGrows ==
    ASSUME SourceOK, SourceStep
    PROVE  /\ content' \in Seq(Seq(Seq(BOOLEAN)))
           /\ Generations \subseteq Generations'
           /\ Newest' = (IF Create THEN Newest + 1 ELSE Newest)
           /\ \A g \in Generations : GrownAt(g)
           /\ Create => Len(content'[Newest']) = 1
  <1>1. CASE \E ends \in BOOLEAN : Write(ends)
    <2>. PICK ends \in BOOLEAN : Write(ends)
      BY <1>1
    <2>1. /\ content' \in Seq(Seq(Seq(BOOLEAN))) /\ Newest' = Newest
          /\ Generations' = Generations
      BY WriteContent DEF Newest, Generations
    <2>2. ASSUME NEW g \in Generations, g # writing
          PROVE  GrownAt(g)
      <3>1. content'[g] = content[g]
        BY <2>2, WriteContent
      <3>. QED
        BY <2>2, <3>1, SourceType DEF GrownAt, Era
    <2>3. GrownAt(writing)
      <3>. PICK w, c, d, n : w = writing /\ c = content[w] /\ d = content'[w] /\ n = Len(c)
        OBVIOUS
      <3>1. /\ n \in Nat \ {0} /\ c[n] \in Seq(BOOLEAN) /\ Len(d) = n
            /\ d[n] = Append(c[n], ends)
            /\ \A e \in 1..n : e # n => d[e] = c[e]
            /\ \A e \in 1..n : Len(c[e]) \in Nat
        <4>1. w \in Generations /\ Era(w) = n /\ Lines(w) = c[n]
          BY DEF SourceOK, Era, Lines
        <4>2. n \in Nat \ {0} /\ \A e \in 1..n : c[e] \in Seq(BOOLEAN) /\ Len(c[e]) \in Nat
          BY <4>1, SourceType
        <4>3. Len(d) = n /\ d[n] = Append(c[n], ends)
              /\ \A e \in 1..n : e # n => d[e] = c[e]
          BY <4>1, WriteContent
        <4>. QED
          BY <4>2, <4>3
      <3>2. /\ Len(d[n]) = Len(c[n]) + 1 /\ Len(c[n]) \in Nat
            /\ \A i \in 1..Len(c[n]) : d[n][i] = c[n][i]
        <4>. PICK s, u : s = c[n] /\ u = d[n]
          OBVIOUS
        <4>1. s \in Seq(BOOLEAN) /\ u = Append(s, ends)
          BY <3>1
        <4>2. Len(u) = Len(s) + 1 /\ Len(s) \in Nat /\ \A i \in 1..Len(s) : u[i] = s[i]
          BY <4>1
        <4>. QED
          BY <4>2
      <3>3. /\ Len(d) \in Nat \ {0} /\ n <= Len(d)
            /\ \A e \in 1..n :
                  /\ Len(d[e]) \in Nat /\ Len(c[e]) <= Len(d[e])
                  /\ \A i \in 1..Len(c[e]) : d[e][i] = c[e][i]
        <4>1. ASSUME NEW e \in 1..n
              PROVE  /\ Len(d[e]) \in Nat /\ Len(c[e]) <= Len(d[e])
                     /\ \A i \in 1..Len(c[e]) : d[e][i] = c[e][i]
          <5>1. CASE e = n
            <6>1. Len(d[n]) \in Nat /\ Len(c[n]) <= Len(d[n])
                  /\ \A i \in 1..Len(c[n]) : d[n][i] = c[n][i]
              BY <3>2
            <6>. QED
              BY <5>1, <6>1, Zenon
          <5>2. CASE e # n
            BY <3>1, <5>2
          <5>. QED
            BY <5>1, <5>2
        <4>. QED
          BY <3>1, <4>1
      <3>. QED
        BY <3>3 DEF GrownAt
    <2>4. ~Create
      BY DEF Write, Create
    <2>. QED
      BY <2>1, <2>2, <2>3, <2>4
  <1>2. CASE \E t \in Present : Truncate(t)
    <2>. PICK t \in Present : Truncate(t)
      BY <1>2
    <2>1. /\ content' \in Seq(Seq(Seq(BOOLEAN))) /\ Newest' = Newest
          /\ Generations' = Generations
      BY TruncateContent DEF Newest, Generations
    <2>2. ASSUME NEW g \in Generations, g # t
          PROVE  GrownAt(g)
      <3>1. content'[g] = content[g]
        BY <2>2, TruncateContent
      <3>. QED
        BY <2>2, <3>1, SourceType DEF GrownAt, Era
    <2>3. GrownAt(t)
      <3>. PICK c, d, n : c = content[t] /\ d = content'[t] /\ n = Len(c)
        OBVIOUS
      <3>1. /\ n \in Nat \ {0} /\ Len(d) = n + 1
            /\ \A e \in 1..n : Len(c[e]) \in Nat /\ d[e] = c[e]
        <4>1. t \in Generations /\ Era(t) = n
          BY TruncateContent DEF Era
        <4>2. n \in Nat \ {0} /\ \A e \in 1..n : Len(c[e]) \in Nat
          BY <4>1, SourceType
        <4>3. Len(d) = n + 1 /\ \A e \in 1..n : d[e] = c[e]
          BY <4>1, TruncateContent
        <4>. QED
          BY <4>2, <4>3
      <3>2. /\ Len(d) \in Nat \ {0} /\ n <= Len(d) /\ Len(d) # n
            /\ \A e \in 1..n :
                  /\ Len(d[e]) \in Nat /\ Len(c[e]) <= Len(d[e])
                  /\ \A i \in 1..Len(c[e]) : d[e][i] = c[e][i]
        BY <3>1
      <3>. QED
        BY <3>2 DEF GrownAt
    <2>4. ~Create
      BY DEF Truncate, Create
    <2>. QED
      BY <2>1, <2>2, <2>3, <2>4
  <1>3. CASE Create
    <2>1. /\ content' \in Seq(Seq(Seq(BOOLEAN))) /\ Newest' = Newest + 1
          /\ Generations \subseteq Generations'
      BY <1>3, CreateContent DEF Newest
    <2>2. ASSUME NEW g \in Generations
          PROVE  GrownAt(g)
      <3>1. content'[g] = content[g]
        BY <1>3, CreateContent
      <3>. QED
        BY <2>2, <3>1, SourceType DEF GrownAt, Era
    <2>3. Len(content'[Newest']) = 1
      <3>. PICK y : y = << >>
        OBVIOUS
      <3>1. content'[Newest'] = <<y>>
        BY <1>3, <2>1, CreateContent
      <3>. QED
        BY <3>1
    <2>. QED
      BY <1>3, <2>1, <2>2, <2>3
  <1>4. CASE UNCHANGED content
    <2>1. ~Create
      <3>1. SUFFICES ASSUME Create PROVE FALSE
        OBVIOUS
      <3>2. Newest' = Newest + 1
        BY <3>1, CreateContent DEF Newest
      <3>. QED
        BY <1>4, <3>2, SourceType DEF Newest
    <2>2. ASSUME NEW g \in Generations
          PROVE  GrownAt(g)
      BY <1>4, <2>2, SourceType DEF GrownAt, Era
    <2>. QED
      BY <1>4, <2>1, <2>2 DEF SourceOK, Newest, Generations
  <1>. QED
    BY <1>1, <1>2, <1>3, <1>4
    DEF SourceStep, Rotate, BeginRotation, Expire, Rename, Reopen

-----------------------------------------------------------------------------
(* The directory.  A generation is under the name that its age gives it,   *)
(* or, in the middle of a rotation and above the slot that is next, under  *)
(* the one before.                                                         *)

Shifted(n) == rotating = "create" \/ (rotating = "rename" /\ n > slot)
Due(n) == Newest - n + (IF Shifted(n) THEN 1 ELSE 0)

DirInv ==
    /\ writing = (IF rotating = "reopen" THEN Newest - 1 ELSE Newest)
    /\ dir[0] = (IF rotating = "create" THEN 0 ELSE Newest)
    /\ rotating = "rename" => slot > 0
    /\ rotating = "create" => slot = 0
    /\ \A n \in Name : dir[n] \in {0, Due(n)}
    /\ \A n \in 1..Retained :
          dir[n - 1] = 0 /\ dir[n] # 0 => rotating \in {"rename", "create"} /\ n = slot + 1
    /\ rotating = "rename" /\ slot < Retained /\ dir[slot + 1] # 0 => dir[slot - 1] # 0

SourceInv == SourceOK /\ DirInv

LEMMA SameDirectory ==
    ASSUME SourceInv, UNCHANGED <<dir, writing, rotating, slot>>, Newest' = Newest
    PROVE  DirInv'
  BY DEF SourceInv, DirInv, Due, Shifted

LEMMA DirBeginRotation ==
    ASSUME SourceInv, BeginRotation
    PROVE  DirInv' /\ dir' \in [Name -> 0..Newest'] /\ slot' \in Name /\ writing' = writing
  <1>1. /\ rotating = "nothing" /\ rotating' = "rename" /\ slot' = Retained
        /\ dir' = dir /\ writing' = writing /\ Newest' = Newest
    BY DEF BeginRotation, Newest
  <1>2. \A n \in Name : Due(n)' = Due(n)
    BY <1>1, RotationAssumption DEF Due, Shifted, Name
  <1>. QED
    BY <1>1, <1>2, RotationAssumption DEF SourceInv, SourceOK, DirInv, Name

LEMMA DirRename ==
    ASSUME SourceInv, Rename
    PROVE  DirInv' /\ dir' \in [Name -> 0..Newest'] /\ slot' \in Name /\ writing' = writing
  <1>. PICK s : s = slot
    OBVIOUS
  <1>1. /\ rotating = "rename" /\ s = slot /\ s \in 1..Retained /\ Retained \in Nat
        /\ rotating' = (IF s = 1 THEN "create" ELSE "rename") /\ slot' = s - 1
        /\ writing' = writing /\ Newest' = Newest /\ Newest \in Nat
        /\ writing = Newest /\ dir[0] = Newest
    BY SourceType, RotationAssumption DEF Rename, SourceInv, SourceOK, DirInv, Name, Newest
  <1>2. /\ dir \in [Name -> 0..Newest] /\ dir' \in [Name -> 0..Newest]
        /\ dir'[s] = (IF dir[s - 1] = 0 THEN dir[s] ELSE dir[s - 1])
        /\ dir'[s - 1] = 0
        /\ \A n \in Name : n \notin {s - 1, s} => dir'[n] = dir[n]
    <2>1. dir \in [Name -> 0..Newest] /\ s \in Name /\ s - 1 \in Name /\ s # s - 1
      BY <1>1 DEF SourceInv, SourceOK, Name
    <2>2. CASE dir[s - 1] = 0
      BY <2>1, <2>2, <1>1 DEF Rename
    <2>3. CASE dir[s - 1] # 0
      <3>1. dir' = [dir EXCEPT ![s] = dir[s - 1], ![s - 1] = 0]
        BY <2>3 DEF Rename
      <3>. PICK v, p : v = dir[s - 1] /\ p = s - 1
        OBVIOUS
      <3>2. v \in 0..Newest /\ 0 \in 0..Newest /\ p \in Name /\ s # p /\ s \in Name
        BY <2>1, <1>1
      <3>3. dir' = [dir EXCEPT ![s] = v, ![p] = 0]
        BY <3>1
      <3>4. dir' \in [Name -> 0..Newest] /\ dir'[s] = v /\ dir'[p] = 0
        BY <2>1, <3>2, <3>3
      <3>5. \A n \in Name : n \notin {p, s} => dir'[n] = dir[n]
        BY <2>1, <3>2, <3>3
      <3>. QED
        BY <2>1, <2>3, <3>4, <3>5
    <2>. QED
      BY <2>2, <2>3
  <1>3. /\ \A n \in Name : dir[n] \in {0, Due(n)}
        /\ \A n \in 1..Retained : dir[n - 1] = 0 /\ dir[n] # 0 => n = s + 1
        /\ s < Retained /\ dir[s + 1] # 0 => dir[s - 1] # 0
    BY <1>1 DEF SourceInv, DirInv
  <1>4. /\ \A n \in Name : n >= s + 1 => Due(n)' = Newest - n + 1 /\ Due(n) = Newest - n + 1
        /\ Due(s)' = Newest - s + 1 /\ Due(s - 1) = Newest - s + 1
        /\ \A n \in Name : n < s - 1 => Due(n)' = Newest - n /\ Due(n) = Newest - n
    BY <1>1 DEF Due, Shifted, Name
  <1>5. \A n \in Name : dir'[n] \in {0, Due(n)'}
    <2>. SUFFICES ASSUME NEW n \in Name PROVE dir'[n] \in {0, Due(n)'}
      OBVIOUS
    <2>1. CASE n = s
      <3>1. dir[s - 1] = 0 => dir[s] = 0
        BY <1>1, <1>3
      <3>2. dir[s - 1] \in {0, Due(s - 1)}
        BY <1>1, <1>3 DEF Name
      <3>. QED
        BY <2>1, <3>1, <3>2, <1>2, <1>4
    <2>2. CASE n = s - 1
      BY <2>2, <1>2
    <2>3. CASE n >= s + 1
      BY <2>3, <1>1, <1>2, <1>3, <1>4 DEF Name
    <2>4. CASE n < s - 1
      BY <2>4, <1>1, <1>2, <1>3, <1>4 DEF Name
    <2>. QED
      BY <1>1, <2>1, <2>2, <2>3, <2>4 DEF Name
  <1>6. ASSUME NEW n \in 1..Retained, dir'[n - 1] = 0, dir'[n] # 0
        PROVE  n = s
    <2>1. n # s - 1
      BY <1>2, <1>6
    <2>2. CASE n = s + 1
      <3>1. dir'[s] = 0 /\ dir[s + 1] # 0
        BY <2>2, <1>1, <1>2, <1>6 DEF Name
      <3>. QED
        BY <2>2, <3>1, <1>1, <1>2, <1>3
    <2>3. CASE n \notin {s - 1, s, s + 1}
      <3>1. dir[n - 1] = 0 /\ dir[n] # 0
        BY <2>3, <1>1, <1>2, <1>6 DEF Name
      <3>. QED
        BY <2>3, <3>1, <1>3
    <2>. QED
      BY <2>1, <2>2, <2>3
  <1>7. ASSUME s # 1, dir'[s] # 0
        PROVE  dir'[s - 2] # 0
    <2>1. dir[s - 1] # 0
      <3>1. dir[s - 1] = 0 => dir[s] = 0
        BY <1>1, <1>3
      <3>. QED
        BY <1>7, <3>1, <1>2
    <2>2. dir[s - 2] # 0
      BY <1>1, <1>7, <2>1, <1>3
    <2>. QED
      BY <1>1, <1>2, <1>7, <2>2 DEF Name
  <1>8. dir'[0] = (IF s = 1 THEN 0 ELSE Newest)
    BY <1>1, <1>2 DEF Name
  <1>. QED
    BY <1>1, <1>2, <1>5, <1>6, <1>7, <1>8 DEF DirInv, Name

LEMMA DirExpire ==
    ASSUME SourceInv, Expire
    PROVE  DirInv' /\ dir' \in [Name -> 0..Newest'] /\ slot' \in Name /\ writing' = writing
  <1>1. PICK x \in Name \ {0} :
           /\ dir[x] # 0 /\ \A k \in (x + 1)..Retained : dir[k] = 0
           /\ dir' = [dir EXCEPT ![x] = 0]
    BY DEF Expire
  <1>2. /\ rotating = "nothing" /\ rotating' = rotating /\ slot' = slot /\ writing' = writing
        /\ Newest' = Newest /\ Newest \in Nat /\ Retained \in Nat
    BY SourceType, RotationAssumption DEF Expire, Newest, SourceInv
  <1>3. /\ dir \in [Name -> 0..Newest] /\ dir' \in [Name -> 0..Newest]
        /\ dir'[x] = 0 /\ \A n \in Name : n # x => dir'[n] = dir[n]
    BY <1>1, <1>2 DEF SourceInv, SourceOK
  <1>4. \A n \in Name : Due(n)' = Due(n)
    BY <1>2 DEF Due, Shifted
  <1>5. ASSUME NEW n \in 1..Retained, dir'[n - 1] = 0, dir'[n] # 0
        PROVE  FALSE
    <2>1. n # x /\ dir[n] # 0
      BY <1>2, <1>3, <1>5 DEF Name
    <2>2. n - 1 # x
      BY <1>1, <2>1, <1>2 DEF Name
    <2>3. dir[n - 1] = 0
      BY <2>2, <1>2, <1>3, <1>5 DEF Name
    <2>. QED
      BY <2>1, <2>3, <1>2 DEF SourceInv, DirInv
  <1>. QED
    BY <1>1, <1>2, <1>3, <1>4, <1>5 DEF SourceInv, SourceOK, DirInv, Name

LEMMA DirCreate ==
    ASSUME SourceInv, Create
    PROVE  DirInv' /\ dir' \in [Name -> 0..Newest'] /\ slot' \in Name /\ writing' = writing
  <1>1. /\ rotating = "create" /\ rotating' = "reopen" /\ slot' = slot /\ slot = 0
        /\ writing' = writing /\ writing = Newest
        /\ Newest' = Newest + 1 /\ Newest \in Nat /\ Retained \in Nat
    BY SourceType, CreateContent, RotationAssumption
    DEF Create, Newest, SourceInv, DirInv
  <1>2. /\ dir \in [Name -> 0..Newest] /\ dir' \in [Name -> 0..Newest']
        /\ dir'[0] = Newest' /\ \A n \in Name : n # 0 => dir'[n] = dir[n]
    BY <1>1 DEF SourceInv, SourceOK, Create, Newest, Name
  <1>3. \A n \in Name : Due(n)' = Due(n)
    BY <1>1 DEF Due, Shifted, Name
  <1>4. Due(0) = Newest'
    BY <1>1 DEF Due, Shifted, Name
  <1>5. ASSUME NEW n \in 1..Retained, dir'[n - 1] = 0, dir'[n] # 0
        PROVE  FALSE
    <2>1. n # 1
      BY <1>1, <1>2, <1>5
    <2>2. dir[n - 1] = 0 /\ dir[n] # 0
      BY <2>1, <1>1, <1>2, <1>5 DEF Name
    <2>. QED
      BY <2>1, <2>2, <1>1 DEF SourceInv, DirInv
  <1>6. \A n \in Name : dir'[n] \in {0, Due(n)'}
    BY <1>2, <1>3, <1>4 DEF SourceInv, DirInv
  <1>. QED
    BY <1>1, <1>2, <1>5, <1>6 DEF SourceInv, SourceOK, DirInv

LEMMA DirReopen ==
    ASSUME SourceInv, Reopen
    PROVE  DirInv' /\ dir' \in [Name -> 0..Newest'] /\ slot' \in Name
           /\ writing' = Newest /\ writing = Newest - 1
  <1>1. /\ rotating = "reopen" /\ rotating' = "nothing" /\ slot' = slot /\ dir' = dir
        /\ writing' = Newest /\ writing = Newest - 1 /\ Newest' = Newest
    BY DEF Reopen, Newest, SourceInv, DirInv
  <1>2. \A n \in Name : Due(n)' = Due(n)
    BY <1>1 DEF Due, Shifted
  <1>. QED
    BY <1>1, <1>2 DEF SourceInv, SourceOK, DirInv

\* The writer only ever moves on to a newer generation.
LEMMA SourceSteps ==
    ASSUME SourceInv, SourceStep
    PROVE  SourceInv' /\ writing <= writing' /\ Newest <= Newest'
  <1>1. /\ content' \in Seq(Seq(Seq(BOOLEAN)))
        /\ Generations \subseteq Generations' /\ Generations' = 1..Newest'
        /\ Newest' = (IF Create THEN Newest + 1 ELSE Newest)
        /\ \A g \in Generations' : Len(content'[g]) \in Nat \ {0}
    <2>1. /\ content' \in Seq(Seq(Seq(BOOLEAN)))
          /\ Generations \subseteq Generations'
          /\ Newest' = (IF Create THEN Newest + 1 ELSE Newest)
          /\ \A g \in Generations : GrownAt(g)
          /\ Create => Len(content'[Newest']) = 1
      BY ContentGrows DEF SourceInv
    <2>2. Generations' = 1..Newest'
      BY <2>1 DEF Generations, Newest
    <2>3. Newest \in Nat \ {0} /\ Generations = 1..Newest
      BY SourceType DEF SourceInv
    <2>4. \A g \in Generations : Len(content'[g]) \in Nat \ {0}
      BY <2>1 DEF GrownAt
    <2>5. ASSUME NEW g \in Generations'
          PROVE  Len(content'[g]) \in Nat \ {0}
      <3>1. CASE g \in Generations
        BY <2>4, <3>1
      <3>2. CASE g \notin Generations
        <4>1. Create /\ g = Newest'
          BY <2>1, <2>2, <2>3, <2>5, <3>2
        <4>2. Len(content'[Newest']) = 1
          BY <2>1, <4>1
        <4>. QED
          BY <4>1, <4>2
      <3>. QED
        BY <3>1, <3>2
    <2>. QED
      BY <2>1, <2>2, <2>5
  <1>2. DirInv' /\ dir' \in [Name -> 0..Newest'] /\ slot' \in Name
        /\ (writing' = writing \/ (writing' = Newest /\ writing = Newest - 1))
    <2>1. CASE (\E ends \in BOOLEAN : Write(ends)) \/ (\E g \in Present : Truncate(g))
      <3>1. UNCHANGED <<dir, writing, rotating, slot>> /\ ~Create
        BY <2>1 DEF Write, Truncate, Create
      <3>. QED
        BY <3>1, <1>1, SameDirectory DEF SourceInv, SourceOK
    <2>. QED
      BY <2>1, DirBeginRotation, DirRename, DirExpire, DirCreate, DirReopen
      DEF SourceStep, Rotate
  <1>3. rotating' \in {"nothing", "rename", "create", "reopen"}
    BY DEF SourceStep, Rotate, BeginRotation, Rename, Expire, Create, Reopen, Write, Truncate,
           SourceInv, SourceOK
  <1>4. Newest \in Nat /\ Newest <= Newest' /\ writing \in Generations /\ Generations = 1..Newest
    BY <1>1, SourceType DEF SourceInv, SourceOK
  <1>5. writing' \in Generations' /\ writing <= writing'
    BY <1>1, <1>2, <1>4
  <1>. QED
    BY <1>1, <1>2, <1>3, <1>4, <1>5 DEF SourceInv, SourceOK, Era

-----------------------------------------------------------------------------
(* Discovery.  What was found under a name is what is due there, or what   *)
(* was due before a rename that happened since; so the entries of a chain  *)
(* without a hole are consecutive generations.                             *)

Looked ==
    /\ listed \in BOOLEAN /\ todo \subseteq Name /\ found \in [Name -> 0..Newest]
    /\ ~listed => todo = {} /\ found = Nothing
    /\ \A n \in Name : found[n] # 0 => \A m \in todo : n < m

FoundInv ==
    /\ \A n \in Name : found[n] \in {0, Due(n), Due(n) - 1}
    /\ rotating = "rename" => \A n \in 0..slot : found[n] \in {0, Due(n)}
    /\ \A j, k \in Name : j < k /\ (\A i \in j..k : found[i] # 0) => found[k] = found[j] - (k - j)

DiscoveryInv == Looked /\ FoundInv

LEMMA FoundSourceSteps ==
    ASSUME SourceInv, SourceStep, SourceInv', DiscoveryInv, UNCHANGED listing
    PROVE  DiscoveryInv'
  <1>. USE DEF listing
  <1>1. Retained \in Nat /\ slot \in Name /\ Newest \in Nat /\ Newest' \in Nat
        /\ Newest <= Newest'
    <2>1. Newest \in Nat /\ Newest <= Newest'
      BY SourceType, SourceSteps DEF SourceInv
    <2>2. content' \in Seq(Seq(Seq(BOOLEAN))) /\ slot \in Name
      BY DEF SourceInv, SourceOK
    <2>. QED
      BY <2>1, <2>2, RotationAssumption DEF Newest
  <1>2. Looked'
    BY <1>1 DEF Looked, DiscoveryInv, Nothing
  <1>3. (\A j, k \in Name : j < k /\ (\A i \in j..k : found[i] # 0)
             => found[k] = found[j] - (k - j))'
    BY DEF DiscoveryInv, FoundInv
  <1>4. \A n \in Name : found[n] \in {0, Due(n), Due(n) - 1} /\ found[n] \in Nat
    BY DEF DiscoveryInv, FoundInv, Looked
  <1>5. /\ \A n \in Name : found'[n] \in {0, Due(n)', Due(n)' - 1}
        /\ rotating' = "rename" => \A n \in 0..slot' : found'[n] \in {0, Due(n)'}
    <2>1. CASE BeginRotation
      <3>1. \A n \in Name : Due(n)' = Due(n)
        BY <2>1, <1>1 DEF BeginRotation, Due, Shifted, Name, Newest
      <3>2. \A n \in Name : found[n] \in {0, dir[n]}
        BY <2>1 DEF BeginRotation, Overtaken
      <3>3. \A n \in Name : found[n] \in {0, Due(n)}
        BY <3>2 DEF SourceInv, DirInv
      <3>4. 0..slot' \subseteq Name
        BY <2>1, <1>1 DEF BeginRotation, Name
      <3>. QED
        BY <3>1, <3>3, <3>4
    <2>2. CASE Rename
      <3>1. /\ rotating = "rename" /\ slot \in 1..Retained /\ slot' = slot - 1
            /\ rotating' = (IF slot = 1 THEN "create" ELSE "rename") /\ Newest' = Newest
        BY <2>2, <1>1 DEF Rename, SourceInv, DirInv, Name, Newest
      <3>2. \A n \in Name : found[n] \in {0, Due(n), Due(n) - 1}
                            /\ (n <= slot => found[n] \in {0, Due(n)})
        BY <3>1, <1>1 DEF DiscoveryInv, FoundInv, Name
      <3>3. ASSUME NEW n \in Name
            PROVE  /\ n > slot => Due(n)' = Due(n)
                   /\ n <= slot => Due(n)' \in {Due(n), Due(n) + 1}
                   /\ rotating' = "rename" /\ n <= slot' => Due(n)' = Due(n)
                   /\ Due(n) \in Int
        BY <3>1, <1>1 DEF Due, Shifted, Name
      <3>4. \A n \in Name : found'[n] \in {0, Due(n)', Due(n)' - 1}
        BY <3>1, <3>2, <3>3, <1>1 DEF Name
      <3>5. rotating' = "rename" => \A n \in 0..slot' : found'[n] \in {0, Due(n)'}
        BY <3>1, <3>2, <3>3, <1>1 DEF Name
      <3>. QED
        BY <3>4, <3>5
    <2>3. CASE Create
      <3>1. Newest' = Newest + 1 /\ rotating' = "reopen" /\ rotating = "create"
        BY <2>3, CreateContent DEF Create, SourceInv, Newest
      <3>2. \A n \in Name : Due(n)' = Due(n)
        BY <3>1, <1>1 DEF Due, Shifted, Name
      <3>. QED
        BY <3>1, <3>2, <1>4
    <2>4. CASE UNCHANGED <<rotating, slot>> /\ Newest' = Newest
      <3>1. \A n \in Name : Due(n)' = Due(n)
        BY <2>4 DEF Due, Shifted
      <3>2. rotating = "rename" => \A n \in 0..slot : found[n] \in {0, Due(n)} /\ n \in Name
        BY <1>1 DEF DiscoveryInv, FoundInv, Name
      <3>. QED
        BY <3>1, <3>2, <2>4, <1>4
    <2>5. CASE Reopen
      <3>1. /\ rotating = "reopen" /\ rotating' = "nothing" /\ Newest' = Newest
        BY <2>5 DEF Reopen, Newest
      <3>2. \A n \in Name : Due(n)' = Due(n)
        BY <3>1 DEF Due, Shifted
      <3>. QED
        BY <3>1, <3>2, <1>4
    <2>6. (\E ends \in BOOLEAN : Write(ends)) => UNCHANGED <<rotating, slot>> /\ Newest' = Newest
      BY WriteContent DEF Write, Newest, SourceInv
    <2>7. (\E t \in Present : Truncate(t)) => UNCHANGED <<rotating, slot>> /\ Newest' = Newest
      BY TruncateContent DEF Truncate, Newest, SourceInv
    <2>8. Expire => UNCHANGED <<rotating, slot>> /\ Newest' = Newest
      BY DEF Expire, Newest
    <2>. QED
      BY <2>1, <2>2, <2>3, <2>4, <2>5, <2>6, <2>7, <2>8 DEF SourceStep, Rotate
  <1>. QED
    BY <1>2, <1>3, <1>5 DEF DiscoveryInv, FoundInv

LEMMA LeastOf ==
    ASSUME NEW S \in SUBSET Nat, S # {}
    PROVE  Min(S) \in S /\ \A x \in S : Min(S) <= x
  <1>. DEFINE R == OpToRel(<, Nat)
  <1>1. IsWellFoundedOn(R, Nat)
    BY NatLessThanWellFounded
  <1>2. PICK x \in S : \A y \in S : ~ (<<y, x>> \in R)
    <2>. HIDE DEF R
    <2>. QED
      BY <1>1, WFMin
  <1>3. \A y \in S : x <= y
    <2>. SUFFICES ASSUME NEW y \in S PROVE x <= y
      OBVIOUS
    <2>1. <<y, x>> \notin R
      BY <1>2
    <2>. QED
      BY <2>1 DEF OpToRel
  <1>. HIDE DEF R
  <1>4. \E z \in S : \A y \in S : z <= y
    BY <1>3
  <1>. QED
    BY <1>4 DEF Min

LEMMA TodoNatural ==
    ASSUME todo \subseteq Name
    PROVE  todo \in SUBSET Nat
  BY RotationAssumption DEF Name

LEMMA FoundReadDir ==
    ASSUME SourceInv, DiscoveryInv, ReadDir
    PROVE  DiscoveryInv'
  <1>1. /\ found = Nothing /\ found' = found /\ listed' = TRUE /\ todo' \subseteq Name
        /\ UNCHANGED source /\ found \in [Name -> 0..Newest]
    BY DEF ReadDir, DiscoveryInv, Looked
  <1>2. \A n \in Name : found'[n] = 0
    BY <1>1 DEF Nothing
  <1>3. Newest' = Newest
    BY <1>1 DEF Newest, source
  <1>4. Looked'
    BY <1>1, <1>2, <1>3 DEF Looked
  <1>5. Retained \in Nat /\ slot \in Name /\ slot' = slot
    BY <1>1, RotationAssumption DEF SourceInv, SourceOK, source
  <1>6. FoundInv'
    <2>1. \A n \in 0..slot' : n \in Name
      BY <1>5 DEF Name
    <2>2. \A j, k \in Name : j < k => \E i \in j..k : found'[i] = 0
      BY <1>2 DEF Name
    <2>. QED
      BY <1>2, <2>1, <2>2 DEF FoundInv
  <1>. QED
    BY <1>4, <1>6 DEF DiscoveryInv

LEMMA FoundInfo ==
    ASSUME SourceInv, DiscoveryInv, Info
    PROVE  DiscoveryInv'
  <1>. PICK n : n = Min(todo)
    OBVIOUS
  <1>0. n \in todo /\ \A m \in todo : n <= m
    BY TodoNatural, LeastOf DEF Info, DiscoveryInv, Looked
  <1>1. /\ listed /\ listed' = listed /\ n \in Name /\ dir[n] \notin Range(found)
        /\ found' = [found EXCEPT ![n] = dir[n]] /\ todo' = todo \ {n}
        /\ UNCHANGED source /\ todo \subseteq Name /\ Retained \in Nat
    BY <1>0, RotationAssumption DEF Info, DiscoveryInv, Looked
  <1>2. /\ found \in [Name -> 0..Newest] /\ dir \in [Name -> 0..Newest] /\ Newest' = Newest
        /\ Newest \in Nat
    BY <1>1, SourceType DEF DiscoveryInv, Looked, SourceInv, SourceOK, source, Newest
  <1>3. /\ found'[n] = dir[n] /\ \A k \in Name : k # n => found'[k] = found[k]
        /\ found' \in [Name -> 0..Newest]
    BY <1>1, <1>2
  <1>4. \A k \in Name : found[k] # 0 => k < n
    BY <1>0 DEF DiscoveryInv, Looked
  <1>5. found[n] = 0 /\ dir[n] # 0 /\ dir[n] = Due(n)
    <2>1. found[n] = 0
      BY <1>1, <1>4 DEF Name
    <2>2. dir[n] # 0
      BY <2>1, <1>1, <1>2 DEF Range
    <2>. QED
      BY <2>1, <2>2, <1>1 DEF SourceInv, DirInv
  <1>6. Looked'
    <2>1. \A k \in Name : found'[k] # 0 => k = n \/ k < n
      BY <1>3, <1>4
    <2>2. \A m \in todo' : n < m
      BY <1>0, <1>1 DEF Name
    <2>3. \A k \in Name : found'[k] # 0 => \A m \in todo' : k < m
      BY <2>1, <2>2, <1>1 DEF Name
    <2>. QED
      BY <2>3, <1>1, <1>2, <1>3 DEF Looked
  <1>7. \A k \in Name : Due(k)' = Due(k)
    BY <1>1, <1>2 DEF Due, Shifted, source
  <1>8. n > 0 /\ found[n - 1] # 0 => found[n - 1] = Due(n) + 1
    <2>. SUFFICES ASSUME n > 0, found[n - 1] # 0
                  PROVE  found[n - 1] = Due(n) + 1
      OBVIOUS
    <2>1. n - 1 \in Name /\ n \in Name /\ slot \in Name /\ Retained \in Nat
      BY <1>1 DEF Name, SourceInv, SourceOK
    <2>2. found[n - 1] # Due(n)
      BY <2>1, <1>1, <1>2, <1>5 DEF Range
    <2>3. found[n - 1] \in {Due(n - 1), Due(n - 1) - 1}
      BY <2>1 DEF DiscoveryInv, FoundInv
    <2>4. rotating = "rename" /\ n - 1 <= slot => found[n - 1] = Due(n - 1)
      BY <2>1 DEF DiscoveryInv, FoundInv, Name
    <2>7. n \in Int /\ slot \in Int /\ Newest \in Int
      BY <2>1, <1>2 DEF Name
    <2>5. CASE ~(rotating = "rename" /\ n > slot /\ ~(n - 1 > slot))
      <3>1. Shifted(n - 1) <=> Shifted(n)
        BY <2>5, <2>7 DEF Shifted
      <3>2. Due(n - 1) = Due(n) + 1 /\ Due(n) \in Int
        <4>1. CASE Shifted(n)
          BY <3>1, <4>1, <2>7 DEF Due
        <4>2. CASE ~Shifted(n)
          BY <3>1, <4>2, <2>7 DEF Due
        <4>. QED
          BY <4>1, <4>2
      <3>. QED
        BY <3>2, <2>2, <2>3
    <2>6. CASE rotating = "rename" /\ n > slot /\ ~(n - 1 > slot)
      <3>1. n - 1 <= slot
        BY <2>6, <2>7
      <3>2. Due(n - 1) = Due(n)
        BY <2>6, <2>7 DEF Due, Shifted
      <3>. QED
        BY <2>6, <3>1, <3>2, <2>2, <2>4
    <2>. QED
      BY <2>5, <2>6
  <1>9. ASSUME NEW j \in Name, NEW k \in Name, j < k, \A i \in j..k : found'[i] # 0
        PROVE  found'[k] = found'[j] - (k - j)
    <2>1. \A i \in j..k : i \in Name
      BY <1>1 DEF Name
    <2>2. found'[k] # 0
      BY <1>9 DEF Name
    <2>3. k < n \/ k = n
      BY <2>2, <1>3, <1>4
    <2>4. CASE k < n
      <3>1. \A i \in j..k : found'[i] = found[i]
        BY <2>1, <2>4, <1>1, <1>3 DEF Name
      <3>. QED
        BY <3>1, <1>9 DEF DiscoveryInv, FoundInv, Name
    <2>5. CASE k = n
      <3>1. \A i \in j..(n - 1) : found[i] # 0 /\ i \in Name
        BY <2>1, <2>5, <1>1, <1>3, <1>9 DEF Name
      <3>2. j \in j..(n - 1) /\ n - 1 \in j..(n - 1) /\ n > 0 /\ n - 1 \in Name
        BY <2>5, <1>9, <1>1 DEF Name
      <3>3. found[n - 1] = Due(n) + 1
        BY <3>1, <3>2, <1>8
      <3>4. found[n - 1] = found[j] - (n - 1 - j)
        <4>1. CASE j = n - 1
          BY <4>1, <1>2, <1>9 DEF Name
        <4>2. CASE j # n - 1
          <5>1. j < n - 1
            BY <4>2, <3>2 DEF Name
          <5>. QED
            BY <5>1, <3>1, <3>2 DEF DiscoveryInv, FoundInv
        <4>. QED
          BY <4>1, <4>2
      <3>5. found'[j] = found[j] /\ found[j] \in Nat /\ found'[k] = Due(n)
        BY <2>5, <1>2, <1>3, <1>5, <1>9 DEF Name
      <3>6. Due(n) = found[j] - (n - 1 - j) - 1
        <4>1. Due(n) \in Int
          BY <1>1, <1>2 DEF Due, Name
        <4>. QED
          BY <3>3, <3>4, <3>5, <4>1, <1>1, <1>9 DEF Name
      <3>7. n \in Int /\ j \in Int
        BY <1>1, <1>9 DEF Name
      <3>. QED
        BY <3>5, <3>6, <3>7, <2>5
    <2>. QED
      BY <2>3, <2>4, <2>5
  <1>10. \A k \in Name : found'[k] \in {0, Due(k)', Due(k)' - 1}
    BY <1>3, <1>5, <1>7 DEF DiscoveryInv, FoundInv
  <1>11. rotating' = "rename" => \A k \in 0..slot' : found'[k] \in {0, Due(k)'}
    <2>1. rotating' = rotating /\ slot' = slot /\ slot \in Name
      BY <1>1 DEF source, SourceInv, SourceOK
    <2>2. \A k \in 0..slot : k \in Name
      BY <2>1, <1>1 DEF Name
    <2>. QED
      BY <2>1, <2>2, <1>3, <1>5, <1>7 DEF DiscoveryInv, FoundInv
  <1>. QED
    BY <1>6, <1>9, <1>10, <1>11 DEF DiscoveryInv, FoundInv

LEMMA FoundForget ==
    ASSUME SourceInv, DiscoveryInv, Forget, UNCHANGED source
    PROVE  DiscoveryInv'
  <1>1. /\ found' = Nothing /\ listed' = FALSE /\ todo' = {} /\ Newest' = Newest
        /\ Newest \in Nat /\ slot' = slot /\ slot \in Name /\ Retained \in Nat
    BY SourceType, RotationAssumption DEF Forget, source, Newest, SourceInv, SourceOK
  <1>2. found' \in [Name -> 0..Newest] /\ \A n \in Name : found'[n] = 0
    BY <1>1 DEF Nothing
  <1>3. Looked'
    BY <1>1, <1>2 DEF Looked, Nothing
  <1>4. FoundInv'
    <2>1. \A n \in 0..slot' : n \in Name
      BY <1>1 DEF Name
    <2>2. \A j, k \in Name : j < k => \E i \in j..k : found'[i] = 0
      BY <1>2 DEF Name
    <2>. QED
      BY <1>2, <2>1, <2>2 DEF FoundInv
  <1>. QED
    BY <1>3, <1>4 DEF DiscoveryInv

LEMMA FoundSame ==
    ASSUME SourceInv, DiscoveryInv, UNCHANGED listing, UNCHANGED source
    PROVE  DiscoveryInv'
  BY DEF listing, source, DiscoveryInv, Looked, FoundInv, Due, Shifted, Newest, Nothing

-----------------------------------------------------------------------------
(* The kinds of steps.                                                     *)

\* The follower looks at the path, or at what it found, and goes on.
Looking ==
    \/ StatAbsent \/ StatSame \/ StatReplaced
    \/ RefreshPending \/ RefreshFound
    \/ DrainWait \/ SwitchMoved \/ FindPending

Ending == (Exit \/ Gap) /\ crashes' \in {crashes, crashes + 1}

LEMMA Kinds ==
    ASSUME Next
    PROVE  \/ SourceStep /\ UNCHANGED Collector
           \/ ReadDir \/ Info \/ Looking
           \/ ReadBuffered \/ ReadFilled \/ ReadToEnd
           \/ Ending \/ Persist
           \/ (\E n \in Name : Switch(n)) \/ Restart \/ Recover
  <1>1. Rotate \/ (\E ends \in BOOLEAN : Write(ends)) \/ (\E g \in Present : Truncate(g))
          => SourceStep /\ UNCHANGED Collector
    BY DEF SourceStep, Rotate, BeginRotation, Rename, Expire, Create, Reopen, Write, Truncate
  <1>2. AnchorFails \/ InfoFails \/ FindFails \/ RestartFails \/ RecoverFails \/ Crash => Ending
    BY DEF AnchorFails, InfoFails, FindFails, RestartFails, RecoverFails, Crash, Ending
  <1>3. StatShort \/ RefreshGap \/ DrainShort \/ FindGap \/ RestartGap => Ending
    BY DEF StatShort, RefreshGap, DrainShort, FindGap, RestartGap, Ending, Gap
  <1>. QED
    BY <1>1, <1>2, <1>3 DEF Next, Follow, Discover, Looking

LEMMA LookingKeeps ==
    ASSUME Looking
    PROVE  /\ UNCHANGED <<source, reading, atPath, ckpt, history, crashes>>
           /\ UNCHANGED listing \/ Forget
           /\ UNCHANGED queue \/ queue' = << >> \/ RefreshFound
           /\ UNCHANGED mark \/ mark' = << >> \/ DrainWait
  BY DEF Looking, StatAbsent, StatSame, StatReplaced, RefreshPending, RefreshFound,
         DrainWait, SwitchMoved, FindPending, switching

LEMMA CollectorKeepsSource ==
    ASSUME Next, ~SourceStep
    PROVE  UNCHANGED source
  <1>1. Looking => UNCHANGED source
    BY LookingKeeps
  <1>2. Ending => UNCHANGED source
    BY DEF Ending, Exit, Gap, Drop
  <1>3. ReadDir \/ Info \/ ReadBuffered \/ ReadFilled \/ ReadToEnd \/ Persist => UNCHANGED source
    BY DEF ReadDir, Info, ReadBuffered, ReadFilled, ReadToEnd, Persist
  <1>4. (\E n \in Name : Switch(n)) \/ Restart \/ Recover => UNCHANGED source
    BY DEF Switch, SwitchTo, Restart, Recover, OpenAt
  <1>. QED
    BY <1>1, <1>2, <1>3, <1>4, Kinds

LEMMA SourceNext ==
    ASSUME SourceInv, [Next]_vars
    PROVE  SourceInv' /\ (SourceStep \/ UNCHANGED source)
  <1>1. CASE SourceStep
    BY <1>1, SourceSteps
  <1>2. CASE UNCHANGED source
    BY <1>2 DEF source, SourceInv, SourceOK, DirInv, Due, Shifted, Newest, Generations, Era
  <1>. QED
    BY <1>1, <1>2, CollectorKeepsSource DEF vars

LEMMA DiscoveryNext ==
    ASSUME SourceInv, DiscoveryInv, [Next]_vars
    PROVE  DiscoveryInv'
  <1>1. SourceInv'
    BY SourceNext
  <1>2. CASE UNCHANGED vars
    BY <1>2, FoundSame DEF vars
  <1>3. CASE Next
    <2>1. CASE SourceStep /\ UNCHANGED Collector
      BY <2>1, <1>1, FoundSourceSteps DEF Collector
    <2>2. CASE Looking
      BY <2>2, LookingKeeps, FoundForget, FoundSame
    <2>3. CASE ReadBuffered \/ ReadFilled \/ ReadToEnd \/ Persist
      BY <2>3, FoundSame DEF ReadBuffered, ReadFilled, ReadToEnd, Persist
    <2>4. CASE Ending
      BY <2>4, FoundForget DEF Ending, Exit, Gap, Drop, Forget
    <2>5. CASE (\E n \in Name : Switch(n)) \/ Restart \/ Recover
      BY <2>5, FoundForget DEF Switch, SwitchTo, Restart, Recover, OpenAt
    <2>. QED
      BY <1>3, <2>1, <2>2, <2>3, <2>4, <2>5, Kinds, FoundReadDir, FoundInfo
  <1>. QED
    BY <1>2, <1>3

-----------------------------------------------------------------------------
(* The queue: the newer generations in order, without a hole.              *)

LEMMA QueueAfterIs ==
    ASSUME SourceInv, DiscoveryInv, NEW n \in Name, Contiguous(n)
    PROVE  /\ QueueAfter(n) = [i \in 1..n |-> [gen |-> found[n] + i, name |-> n - i]]
           /\ \A k \in 0..n : found[k] \in 1..Newest /\ found[n] = found[k] - (n - k)
  <1>1. n \in Nat /\ 0..n \subseteq Name /\ found \in [Name -> 0..Newest] /\ Newest \in Nat
    BY SourceType, RotationAssumption DEF Name, DiscoveryInv, Looked, SourceInv
  <1>2. \A k \in 0..n : found[k] # 0 /\ found[k] \in 1..Newest
    BY <1>1 DEF Contiguous
  <1>3. ASSUME NEW k \in 0..n
        PROVE  found[n] = found[k] - (n - k)
    <2>1. CASE k = n
      BY <2>1, <1>1, <1>2
    <2>2. CASE k # n
      <3>1. k < n /\ k \in Name /\ \A i \in k..n : found[i] # 0
        BY <2>2, <1>1, <1>2
      <3>. QED
        BY <3>1 DEF DiscoveryInv, FoundInv
    <2>. QED
      BY <2>1, <2>2
  <1>4. ASSUME NEW k \in 0..n
        PROVE  Cardinality({j \in k..(n - 1) : found[j] # 0}) = n - k
    <2>1. {j \in k..(n - 1) : found[j] # 0} = k..(n - 1)
      BY <1>1, <1>2
    <2>2. Cardinality(k..(n - 1)) = n - k
      BY <1>1, FS_Interval
    <2>. QED
      BY <2>1, <2>2
  <1>. DEFINE nth(i) == CHOOSE k \in 0..(n - 1) :
                          /\ found[k] # 0
                          /\ Cardinality({j \in k..(n - 1) : found[j] # 0}) = i
  <1>5. ASSUME NEW i \in 1..n
        PROVE  nth(i) = n - i /\ found[nth(i)] = found[n] + i
    <2>1. n - i \in 0..(n - 1) /\ found[n - i] # 0
          /\ Cardinality({j \in (n - i)..(n - 1) : found[j] # 0}) = i
      BY <1>1, <1>2, <1>4
    <2>2. nth(i) \in 0..(n - 1) /\ Cardinality({j \in nth(i)..(n - 1) : found[j] # 0}) = i
      BY <2>1
    <2>3. nth(i) = n - i
      <3>. HIDE DEF nth
      <3>1. n - nth(i) = i
        BY <2>2, <1>1, <1>4
      <3>. QED
        BY <3>1, <2>2, <1>1
    <2>4. found[n] = found[n - i] - i
      <3>1. n - (n - i) = i /\ n - i \in 0..n
        BY <1>1
      <3>. QED
        BY <3>1, <1>3
    <2>. HIDE DEF nth
    <2>. QED
      BY <2>1, <2>3, <2>4, <1>1, <1>2
  <1>6. Cardinality({k \in 0..(n - 1) : found[k] # 0}) = n
    BY <1>1, <1>4
  <1>7. QueueAfter(n) = [i \in 1..n |-> [gen |-> found[nth(i)], name |-> nth(i)]]
    BY <1>6 DEF QueueAfter
  <1>. HIDE DEF nth
  <1>. QED
    BY <1>2, <1>3, <1>5, <1>7

-----------------------------------------------------------------------------
(* The types of the collector's state, and its queue.                      *)

Pieced == partial \subseteq Piece /\ delivered \subseteq Piece /\ before \subseteq Piece
Placed == complete \in Pos /\ ckpt \in Pos /\ from \in Pos
          /\ ckpt.gen \in Generations /\ complete.gen \in Generations

FollowOK ==
    /\ pc \in {"read", "stat", "drain"} \/ Discovering
    /\ listed => Discovering
    /\ cur \in Generations
    /\ buf \in Nat /\ off \in 0..buf
    /\ on \in 1..Era(cur) /\ blind \in BOOLEAN
    /\ Pieced /\ Placed
    /\ atPath \in BOOLEAN /\ crashes \in Nat
    /\ mark = << >> \/ mark \in Nat \X Nat \X Nat

Queued ==
    /\ queue \in Seq([gen : Generations, name : Name])
    /\ cur + Len(queue) <= Newest
    /\ \A i \in DOMAIN queue : queue[i].gen = cur + i
    /\ pc \in {"drain", "find"} => queue # << >>
    /\ pc = "refresh" => cur < Newest /\ (found[0] # 0 => cur < found[0])

FollowInv == FollowOK /\ Queued

LEMMA LargerAlphabet ==
    ASSUME NEW S, NEW T, S \subseteq T, NEW s \in Seq(S)
    PROVE  s \in Seq(T)
  <1>1. \A i \in 1..Len(s) : s[i] \in T
    OBVIOUS
  <1>. QED
    BY <1>1

LEMMA FollowSourceSteps ==
    ASSUME SourceInv, FollowInv, SourceStep, UNCHANGED Collector
    PROVE  FollowInv'
  <1>. USE DEF Collector, reading, switching, listing, history
  <1>1. Generations \subseteq Generations' /\ Newest <= Newest' /\ Newest \in Nat /\ Newest' \in Nat
    <2>1. SourceInv' /\ Newest <= Newest'
      BY SourceSteps
    <2>2. Generations \subseteq Generations'
      BY ContentGrows DEF SourceInv
    <2>3. content' \in Seq(Seq(Seq(BOOLEAN)))
      BY <2>1 DEF SourceInv, SourceOK
    <2>. QED
      BY <2>1, <2>2, <2>3, SourceType DEF SourceInv, Newest
  <1>2. Era(cur) \in Nat /\ Era(cur)' \in Nat /\ Era(cur) <= Era(cur)'
    <2>1. cur \in Generations /\ cur' = cur
      BY DEF FollowInv, FollowOK
    <2>2. GrownAt(cur) /\ Era(cur) \in Nat
      BY <2>1, ContentGrows, SourceType DEF SourceInv
    <2>. QED
      BY <2>1, <2>2 DEF GrownAt, Era
  <1>3. FollowOK'
    <2>1. Pieced' /\ Placed'
      BY <1>1 DEF FollowInv, FollowOK, Pieced, Placed
    <2>2. on' \in 1..Era(cur)' /\ cur' \in Generations'
      BY <1>1, <1>2 DEF FollowInv, FollowOK
    <2>. QED
      BY <2>1, <2>2 DEF FollowInv, FollowOK, Discovering
  <1>4. Queued'
    <2>1. queue' \in Seq([gen : Generations', name : Name])
      <3>1. queue \in Seq([gen : Generations, name : Name])
        BY DEF FollowInv, Queued
      <3>2. [gen : Generations, name : Name] \subseteq [gen : Generations', name : Name]
        BY <1>1
      <3>3. queue' = queue
        OBVIOUS
      <3>. QED
        BY <3>1, <3>2, <3>3, LargerAlphabet
    <2>2. cur \in Nat /\ Len(queue) \in Nat
      BY SourceType DEF FollowInv, FollowOK, Queued, SourceInv
    <2>3. cur' + Len(queue') <= Newest'
      BY <1>1, <2>2 DEF FollowInv, Queued
    <2>4. pc' = "refresh" => cur' < Newest'
      BY <1>1, <2>2 DEF FollowInv, Queued
    <2>. QED
      BY <2>1, <2>3, <2>4 DEF FollowInv, Queued
  <1>. QED
    BY <1>3, <1>4 DEF FollowInv

LEMMA SourceKept ==
    ASSUME UNCHANGED source
    PROVE  /\ Generations' = Generations /\ Newest' = Newest
           /\ \A g : Era(g)' = Len(content[g])
  BY DEF source, Generations, Newest, Era

LEMMA FollowDiscovers ==
    ASSUME SourceInv, DiscoveryInv, FollowInv, ReadDir \/ Info
    PROVE  FollowInv'
  <1>1. /\ UNCHANGED <<source, pc, reading, switching, ckpt, history, crashes>> /\ Discovering
    <2>1. listed /\ FollowInv => Discovering
      BY DEF FollowInv, FollowOK
    <2>. QED
      BY <2>1 DEF ReadDir, Info
  <1>. USE DEF reading, switching, history
  <1>2. FollowOK'
    BY <1>1, SourceKept DEF FollowInv, FollowOK, Pieced, Placed, Discovering, Era
  <1>3. pc' = "refresh" => (found'[0] # 0 => cur' < found'[0])
    <2>1. CASE ReadDir
      BY <2>1, <1>1 DEF ReadDir, FollowInv, Queued
    <2>2. CASE Info
      <3>1. /\ found \in [Name -> 0..Newest] /\ 0 \in Name /\ Newest \in Nat
            /\ dir[0] \in {0, Newest}
        BY SourceType, RotationAssumption
        DEF DiscoveryInv, Looked, Name, SourceInv, DirInv
      <3>2. found'[0] \in {found[0], dir[0]}
        BY <2>2, <3>1 DEF Info
      <3>. QED
        BY <3>1, <3>2, <1>1 DEF FollowInv, Queued
    <2>. QED
      BY <2>1, <2>2
  <1>4. Queued'
    BY <1>1, <1>3, SourceKept DEF FollowInv, Queued
  <1>. QED
    BY <1>2, <1>4 DEF FollowInv

LEMMA NamedIn ==
    ASSUME DiscoveryInv, NEW g \in Range(found)
    PROVE  NameIn(found, g) \in Name /\ found[NameIn(found, g)] = g
  <1>1. \E n \in Name : found[n] = g
    BY DEF Range, DiscoveryInv, Looked
  <1>. QED
    BY <1>1 DEF NameIn

\* The queue made behind the name n.
LEMMA QueueMade ==
    ASSUME SourceInv, DiscoveryInv, NEW n \in Name, Contiguous(n)
    PROVE  /\ QueueAfter(n) \in Seq([gen : Generations, name : Name])
           /\ Len(QueueAfter(n)) = n /\ DOMAIN QueueAfter(n) = 1..n
           /\ \A i \in 1..n : QueueAfter(n)[i].gen = found[n] + i
           /\ found[n] \in Generations /\ found[n] + n = found[0] /\ found[0] <= Newest
  <1>1. /\ QueueAfter(n) = [i \in 1..n |-> [gen |-> found[n] + i, name |-> n - i]]
        /\ \A k \in 0..n : found[k] \in 1..Newest /\ found[n] = found[k] - (n - k)
    BY QueueAfterIs
  <1>2. n \in Nat /\ Generations = 1..Newest /\ Newest \in Nat /\ 0..n \subseteq Name
    BY SourceType, RotationAssumption DEF Name, SourceInv
  <1>3. ASSUME NEW i \in 1..n
        PROVE  [gen |-> found[n] + i, name |-> n - i] \in [gen : Generations, name : Name]
    <2>1. n - i \in 0..n /\ n - (n - i) = i /\ n \in 0..n
      BY <1>2
    <2>2. found[n - i] \in 1..Newest /\ found[n] = found[n - i] - i /\ found[n] \in 1..Newest
      BY <1>1, <2>1
    <2>3. found[n] + i = found[n - i]
      BY <2>2, <1>2
    <2>. QED
      BY <2>1, <2>2, <2>3, <1>2
  <1>. PICK q : q = QueueAfter(n)
    OBVIOUS
  <1>4. q = [i \in 1..n |-> [gen |-> found[n] + i, name |-> n - i]]
    BY <1>1
  <1>5. q \in Seq([gen : Generations, name : Name])
    BY <1>2, <1>3, <1>4
  <1>6. Len(q) = n /\ DOMAIN q = 1..n /\ \A i \in 1..n : q[i].gen = found[n] + i
    BY <1>2, <1>4
  <1>7. /\ found[n] \in Generations /\ found[n] + n = found[0] /\ found[0] <= Newest
    <2>1. 0 \in 0..n /\ n \in 0..n
      BY <1>2
    <2>2. found[0] \in 1..Newest /\ found[n] = found[0] - (n - 0) /\ found[n] \in 1..Newest
      BY <1>1, <2>1
    <2>. QED
      BY <2>2, <1>2
  <1>. QED
    BY <1>5, <1>6, <1>7

LEMMA HeadOf ==
    ASSUME NEW S, NEW s \in Seq(S), s # << >>
    PROVE  s[1] \in S /\ 1 \in DOMAIN s /\ Len(s) \in Nat \ {0}
  OBVIOUS

\* What DrainWait observes.
LEMMA MarkIs ==
    ASSUME SourceInv, FollowInv, DrainWait
    PROVE  mark' = <<queue[1].gen, Size, Era(cur)>> /\ mark' \in Nat \X Nat \X Nat
  <1>1. cur \in Generations /\ Size \in Nat /\ Era(cur) \in Nat
    BY SourceType DEF SourceInv, FollowInv, FollowOK, Size
  <1>2. queue[1].gen \in Nat
    <2>1. queue \in Seq([gen : Generations, name : Name]) /\ queue # << >>
      BY DEF DrainWait, FollowInv, Queued
    <2>3. queue[1] \in [gen : Generations, name : Name]
      BY <2>1, HeadOf
    <2>. QED
      BY <2>3, SourceType DEF SourceInv
  <1>. QED
    BY <1>1, <1>2 DEF DrainWait

LEMMA FollowLooks ==
    ASSUME SourceInv, DiscoveryInv, FollowInv, Looking
    PROVE  FollowInv'
  <1>1. UNCHANGED <<source, reading, atPath, ckpt, history, crashes>>
    BY LookingKeeps
  <1>. USE DEF reading, history
  <1>2. /\ pc' \in {"read", "refresh", "drain", "find"}
        /\ listed' = FALSE
        /\ pc' = "find" => pc = "drain" /\ UNCHANGED queue
        /\ pc' = "drain" => RefreshFound /\ pc = "refresh"
    <2>1. pc \in {"stat", "drain"} => listed = FALSE
      <3>1. listed => Discovering
        BY DEF FollowInv, FollowOK
      <3>2. listed \in BOOLEAN
        BY DEF DiscoveryInv, Looked
      <3>. QED
        BY <3>1, <3>2 DEF Discovering
    <2>. QED
      BY <2>1 DEF Looking, StatAbsent, StatSame, StatReplaced, RefreshPending, RefreshFound, Refreshing,
           DrainWait, SwitchReady, SwitchMoved, FindPending, Forget, listing, switching
  <1>3. mark' = << >> \/ mark' \in Nat \X Nat \X Nat
    BY LookingKeeps, MarkIs DEF FollowInv, FollowOK
  <1>4. FollowOK'
    BY <1>1, <1>2, <1>3, SourceKept DEF FollowInv, FollowOK, Pieced, Placed, Discovering, Era
  <1>5. /\ queue' \in Seq([gen : Generations, name : Name])
        /\ cur + Len(queue') <= Newest
        /\ \A i \in DOMAIN queue' : queue'[i].gen = cur + i
        /\ pc' \in {"drain", "find"} => queue' # << >>
    <2>1. CASE RefreshFound
      <3>. PICK n : n = NameIn(found, cur)
        OBVIOUS
      <3>1. /\ n \in Name /\ found[n] = cur /\ Contiguous(n) /\ queue' = QueueAfter(n)
            /\ found[0] # 0
        BY <2>1, NamedIn DEF RefreshFound, InOrder
      <3>2. /\ queue' \in Seq([gen : Generations, name : Name])
            /\ Len(queue') = n /\ DOMAIN queue' = 1..n
            /\ \A i \in 1..n : queue'[i].gen = cur + i
            /\ cur + n = found[0] /\ found[0] <= Newest
        BY <3>1, QueueMade
      <3>3. pc' = "drain" => queue' # << >>
        <4>1. pc' = "drain" => cur < found[0]
          BY <1>2, <3>1 DEF FollowInv, Queued
        <4>2. cur \in Nat /\ n \in Nat
          BY <3>1, SourceType, RotationAssumption DEF FollowInv, FollowOK, SourceInv, Name
        <4>3. pc' = "drain" => n # 0
          BY <4>1, <4>2, <3>2
        <4>. QED
          BY <4>3, <3>2
      <3>4. pc' # "find"
        BY <2>1 DEF RefreshFound
      <3>. QED
        BY <3>2, <3>3, <3>4
    <2>2. CASE queue' = << >> /\ ~RefreshFound
      <3>1. queue' \in Seq([gen : Generations, name : Name]) /\ Len(queue') = 0 /\ DOMAIN queue' = {}
        BY <2>2
      <3>2. pc' \notin {"drain", "find"}
        BY <2>2, <1>2 DEF RefreshFound, FollowInv, Queued, Looking, StatAbsent, StatSame,
              StatReplaced, RefreshPending, DrainWait, SwitchMoved, FindPending, switching
      <3>3. cur <= Newest /\ cur \in Nat
        BY SourceType DEF FollowInv, FollowOK, SourceInv
      <3>. QED
        BY <3>1, <3>2, <3>3
    <2>3. CASE UNCHANGED queue /\ ~RefreshFound
      BY <2>3, <1>2 DEF FollowInv, Queued
    <2>. QED
      BY <1>1, <2>1, <2>2, <2>3, LookingKeeps
  <1>6. pc' = "refresh" => cur < Newest /\ found'[0] = 0
    <2>1. SUFFICES ASSUME pc' = "refresh" PROVE cur < Newest /\ found'[0] = 0
      OBVIOUS
    <2>2. StatReplaced
      BY <2>1 DEF Looking, StatAbsent, StatSame, StatReplaced, RefreshPending, RefreshFound,
                  DrainWait, SwitchMoved, FindPending
    <2>3. found' = Nothing /\ 0 \in Name
      BY <2>2, <1>2, RotationAssumption DEF StatReplaced, listing, DiscoveryInv, Looked, Name
    <2>4. dir[0] = Newest /\ dir[0] # cur
      BY <2>2 DEF StatReplaced, SourceInv, DirInv
    <2>5. cur \in 1..Newest /\ Newest \in Nat
      BY SourceType DEF FollowInv, FollowOK, SourceInv
    <2>. QED
      BY <2>3, <2>4, <2>5 DEF Nothing
  <1>7. Queued'
    BY <1>1, <1>5, <1>6, SourceKept DEF Queued
  <1>. QED
    BY <1>4, <1>7 DEF FollowInv

-----------------------------------------------------------------------------
(* Reading.                                                                *)

LEMMA InSpan ==
    ASSUME NEW g, NEW e, NEW i, NEW j
    PROVE  /\ \A x \in Span(g, e, i, j) : x[1] = g /\ x[2] = e /\ x[3] \in i..j
                                        /\ x = <<g, e, x[3]>>
           /\ \A k \in i..j : <<g, e, k>> \in Span(g, e, i, j)
  BY DEF Span

LEMMA SpanIsPieces ==
    ASSUME NEW g \in Nat, NEW e \in Nat, NEW i \in Nat, NEW j
    PROVE  Span(g, e, i, j) \subseteq Piece
  <1>1. ASSUME NEW k \in i..j PROVE <<g, e, k>> \in Piece
    <2>1. k \in Nat
      OBVIOUS
    <2>. QED
      BY <2>1 DEF Piece
  <1>. QED
    BY <1>1 DEF Span

LEMMA ReadTypes ==
    ASSUME SourceInv, FollowInv
    PROVE  /\ cur \in Generations /\ cur \in Nat \ {0} /\ Era(cur) \in Nat \ {0} /\ on \in 1..Era(cur)
           /\ off \in 0..buf /\ buf \in Nat /\ off \in Nat /\ Size \in Nat
           /\ Buffered \subseteq Piece /\ Behind \subseteq Piece
           /\ Size = Len(content[cur][Era(cur)])
  <1>1. /\ cur \in Generations /\ Era(cur) \in Nat \ {0} /\ on \in 1..Era(cur)
        /\ off \in 0..buf /\ buf \in Nat /\ off \in Nat /\ Size \in Nat /\ cur \in Nat \ {0}
    BY SourceType DEF SourceInv, FollowInv, FollowOK, Size
  <1>2. on \in Nat /\ off + 1 \in Nat /\ buf + 1 \in Nat
    BY <1>1
  <1>3. Buffered \subseteq Piece /\ Behind \subseteq Piece
    BY <1>1, <1>2, SpanIsPieces DEF Buffered, Behind
  <1>. QED
    BY <1>1, <1>3 DEF Size, SizeOf, Lines

LEMMA BufferedEnd ==
    ASSUME SourceInv, FollowInv, BufferedEnds # {}, NEW end, end = Min(BufferedEnds)
    PROVE  end \in (off + 1)..buf /\ content[cur][on][end]
  <1>1. BufferedEnds \in SUBSET Nat
    BY ReadTypes DEF BufferedEnds, EndsIn
  <1>2. end \in BufferedEnds
    BY <1>1, LeastOf
  <1>. QED
    BY <1>2 DEF BufferedEnds, EndsIn

LEMMA BehindEnd ==
    ASSUME SourceInv, FollowInv, BehindEnds # {}, NEW end, end = Min(BehindEnds)
    PROVE  end \in (buf + 1)..Size /\ content[cur][Era(cur)][end]
  <1>1. BehindEnds \in SUBSET Nat
    BY ReadTypes DEF BehindEnds, EndsIn
  <1>2. end \in BehindEnds
    BY <1>1, LeastOf
  <1>. QED
    BY <1>2 DEF BehindEnds, EndsIn

LEMMA GreaterOf ==
    ASSUME NEW a \in Nat, NEW b \in Nat
    PROVE  Max({a, b}) = (IF a < b THEN b ELSE a)
  <1>1. \E x \in {a, b} : \A y \in {a, b} : x >= y
    OBVIOUS
  <1>2. Max({a, b}) \in {a, b} /\ \A y \in {a, b} : Max({a, b}) >= y
    BY <1>1 DEF Max
  <1>. QED
    BY <1>2

LEMMA PlaceAt ==
    ASSUME SourceInv, NEW g \in Generations, NEW o \in Nat
    PROVE  /\ At(g, o) \in Pos /\ At(g, o).gen = g /\ At(g, o).off = o
           /\ At(g, o).anchor = (IF o = 0 THEN 0 ELSE Era(g))
  BY SourceType DEF At, Pos, SourceInv

LEMMA FollowReads ==
    ASSUME SourceInv, DiscoveryInv, FollowInv, ReadBuffered \/ ReadFilled \/ ReadToEnd
    PROVE  FollowInv'
  <1>1. /\ UNCHANGED <<source, cur, switching, listing, ckpt, from, before, crashes>>
        /\ pc = "read"
    BY DEF ReadBuffered, ReadFilled, ReadToEnd
  <1>. USE DEF switching, listing
  <1>2. listed = FALSE /\ found = Nothing
    BY <1>1 DEF FollowInv, FollowOK, Discovering, DiscoveryInv, Looked
  <1>3. ~ReadBuffered => buf' = (IF buf < Size THEN Size ELSE buf) /\ on' \in {on, Era(cur)}
    BY ReadTypes, GreaterOf DEF ReadFilled, ReadToEnd, Fill
  <1>4. /\ buf' \in Nat /\ off' \in 0..buf' /\ on' \in 1..Era(cur)
        /\ complete' = complete \/ \E o \in Nat : complete' = At(cur, o)
    <2>1. CASE ReadBuffered
      <3>. PICK end : end = Min(BufferedEnds)
        OBVIOUS
      <3>1. off' = end /\ complete' = At(cur, end) /\ buf' = buf /\ on' = on /\ BufferedEnds # {}
        BY <2>1 DEF ReadBuffered
      <3>. QED
        BY <3>1, BufferedEnd, ReadTypes
    <2>2. CASE ReadFilled /\ ~ReadBuffered
      <3>. PICK end : end = Min(BehindEnds)
        OBVIOUS
      <3>1. off' = end /\ complete' = At(cur, end) /\ BehindEnds # {}
        BY <2>2 DEF ReadFilled
      <3>2. end \in (buf + 1)..Size
        BY <3>1, BehindEnd
      <3>. QED
        BY <2>2, <3>1, <3>2, <1>3, ReadTypes
    <2>3. CASE ReadToEnd /\ ~ReadBuffered
      BY <2>3, <1>3, ReadTypes DEF ReadToEnd
    <2>. QED
      BY <2>1, <2>2, <2>3
  <1>5. Placed'
    <2>1. complete' \in Pos /\ complete'.gen \in Generations
      BY <1>4, ReadTypes, PlaceAt DEF FollowInv, FollowOK, Placed
    <2>. QED
      BY <2>1, <1>1, SourceKept DEF FollowInv, FollowOK, Placed
  <1>6. Pieced'
    <2>1. \A end : UpTo(end) \subseteq Piece
      BY ReadTypes DEF UpTo
    <2>2. Pieced /\ Buffered \subseteq Piece /\ Behind \subseteq Piece
      BY ReadTypes DEF FollowInv, FollowOK
    <2>3. CASE ReadBuffered
      BY <2>1, <2>2, <2>3 DEF Pieced, ReadBuffered
    <2>4. CASE ReadFilled
      BY <2>1, <2>2, <2>4 DEF Pieced, ReadFilled
    <2>5. CASE ReadToEnd
      BY <2>2, <2>5 DEF Pieced, ReadToEnd
    <2>. QED
      BY <2>3, <2>4, <2>5
  <1>7. pc' \in {"read", "stat", "refresh", "await"} /\ (pc' = "refresh" => queue # << >>)
    BY <1>1 DEF ReadBuffered, ReadFilled, ReadToEnd
  <1>8. blind' \in BOOLEAN
    BY DEF ReadBuffered, ReadFilled, ReadToEnd, Fill, FollowInv, FollowOK
  <1>9. FollowOK'
    BY <1>1, <1>2, <1>4, <1>5, <1>6, <1>7, <1>8, SourceKept
    DEF FollowInv, FollowOK, Discovering, Era
  <1>10. Queued'
    <2>1. pc' = "refresh" => cur < Newest /\ found'[0] = 0
      <3>1. queue # << >> => Len(queue) \in Nat \ {0}
        BY HeadOf DEF FollowInv, Queued
      <3>2. cur \in Nat /\ Newest \in Nat /\ cur + Len(queue) <= Newest
        BY ReadTypes, SourceType DEF SourceInv, FollowInv, Queued
      <3>3. 0 \in Name
        BY RotationAssumption DEF Name
      <3>. QED
        BY <3>1, <3>2, <3>3, <1>1, <1>2, <1>7 DEF Nothing
    <2>. QED
      BY <2>1, <1>1, <1>7, SourceKept DEF FollowInv, Queued
  <1>. QED
    BY <1>9, <1>10 DEF FollowInv

LEMMA FollowEnds ==
    ASSUME SourceInv, FollowInv, Ending
    PROVE  FollowInv'
  <1>1. Drop /\ pc' \in {"start", "gap"} /\ complete' \in {ckpt, complete}
    BY DEF Ending, Exit, Gap
  <1>. USE DEF Drop
  <1>2. cur' \in Generations /\ Placed'
    BY <1>1, SourceKept DEF FollowInv, FollowOK, Placed
  <1>3. on' \in 1..Era(cur')
    BY <1>1, <1>2, SourceType DEF SourceInv
  <1>4. Pieced'
    BY <1>1 DEF FollowInv, FollowOK, Pieced
  <1>5. crashes' \in Nat
    BY DEF Ending, FollowInv, FollowOK
  <1>6. FollowOK'
    <2>1. Generations' = Generations /\ Era(cur)' = Era(cur')
      BY <1>1 DEF source, Generations, Era
    <2>2. cur' \in Generations' /\ on' \in 1..Era(cur)'
      BY <1>2, <1>3, <2>1
    <2>3. pc' \in {"start", "gap"}
      BY <1>1
    <2>4. /\ listed' = FALSE /\ buf' = 0 /\ off' = 0 /\ blind' = blind /\ atPath' = FALSE
          /\ mark' = << >>
      BY <1>1
    <2>5. blind \in BOOLEAN
      BY DEF FollowInv, FollowOK
    <2>. HIDE DEF Drop
    <2>6. Discovering'
      BY <2>3 DEF Discovering
    <2>7. buf' \in Nat /\ off' \in 0..buf'
      BY <2>4
    <2>8. atPath' \in BOOLEAN /\ blind' \in BOOLEAN
      BY <2>4, <2>5, Zenon
    <2>. QED
      BY <1>2, <1>4, <1>5, <2>2, <2>4, <2>6, <2>7, <2>8, Zenon DEF FollowOK
  <1>7. Queued'
    <2>1. queue' = << >> /\ pc' \in {"start", "gap"} /\ Newest' = Newest
      BY <1>1, SourceKept
    <2>2. queue' \in Seq([gen : Generations', name : Name]) /\ Len(queue') = 0 /\ DOMAIN queue' = {}
      BY <2>1
    <2>3. cur' <= Newest /\ cur' \in Nat
      BY <1>2, SourceType DEF SourceInv
    <2>. QED
      BY <2>1, <2>2, <2>3 DEF Queued
  <1>. QED
    BY <1>6, <1>7 DEF FollowInv

LEMMA TailOf ==
    ASSUME NEW S, NEW s \in Seq(S), s # << >>
    PROVE  /\ Tail(s) \in Seq(S) /\ Len(Tail(s)) = Len(s) - 1
           /\ \A i \in DOMAIN Tail(s) : i + 1 \in DOMAIN s /\ Tail(s)[i] = s[i + 1] /\ i \in Nat
  OBVIOUS

LEMMA FirstQueued ==
    ASSUME SourceInv, FollowInv, queue # << >>
    PROVE  queue[1].gen = cur + 1 /\ cur + 1 \in Generations /\ cur < Newest
  <1>1. 1 \in DOMAIN queue /\ Len(queue) \in Nat \ {0}
    BY HeadOf DEF FollowInv, Queued
  <1>2. queue[1].gen = cur + 1 /\ cur + Len(queue) <= Newest
    BY <1>1 DEF FollowInv, Queued
  <1>3. cur \in 1..Newest /\ Generations = 1..Newest /\ Newest \in Nat
    BY SourceType DEF SourceInv, FollowInv, FollowOK
  <1>. QED
    BY <1>1, <1>2, <1>3

LEMMA FollowSwitches ==
    ASSUME SourceInv, FollowInv, NEW n \in Name, Switch(n)
    PROVE  FollowInv'
  <1>1. queue # << >>
    BY DEF Switch, Opens, SwitchReady, Finds, FollowInv, Queued
  <1>. PICK q : q = queue[1].gen
    OBVIOUS
  <1>2. q = cur + 1 /\ q \in Generations /\ q \in Nat
    BY <1>1, FirstQueued, SourceType DEF SourceInv
  <1>3. /\ cur' = q /\ off' = 0 /\ buf' = 0 /\ on' = Era(q) /\ atPath' = (n = 0)
        /\ queue' = Tail(queue) /\ mark' = << >> /\ pc' = "read" /\ listed' = FALSE
        /\ UNCHANGED <<source, ckpt, from, delivered, before, crashes, partial>>
        /\ complete' \in {complete, At(q, 0)}
        /\ blind' = (blind \/ (mark # << >> /\ mark[3] # Era(cur)))
    BY DEF Switch, SwitchTo, Forget
  <1>4. Placed'
    <2>1. complete' \in Pos /\ complete'.gen \in Generations
      BY <1>2, <1>3, PlaceAt DEF FollowInv, FollowOK, Placed
    <2>. QED
      BY <2>1, <1>3, SourceKept DEF FollowInv, FollowOK, Placed
  <1>5. on' \in 1..Era(cur)' /\ cur' \in Generations'
    <2>1. Era(q) \in Nat \ {0} /\ Era(cur)' = Era(q) /\ Generations' = Generations
      BY <1>2, <1>3, SourceType, SourceKept DEF SourceInv, Era, source
    <2>. QED
      BY <2>1, <1>2, <1>3
  <1>6. FollowOK'
    <2>1. Pieced' /\ crashes' \in Nat
      BY <1>3 DEF Pieced, FollowInv, FollowOK
    <2>2. buf' \in Nat /\ off' \in 0..buf'
      BY <1>3
    <2>3. atPath' \in BOOLEAN /\ blind' \in BOOLEAN
      <3>1. (n = 0) \in BOOLEAN /\ (blind \/ (mark # << >> /\ mark[3] # Era(cur))) \in BOOLEAN
        OBVIOUS
      <3>. QED
        BY <3>1, <1>3, Zenon
    <2>. QED
      BY <1>3, <1>4, <1>5, <2>1, <2>2, <2>3 DEF FollowOK
  <1>7. Queued'
    <2>1. /\ queue' \in Seq([gen : Generations, name : Name])
          /\ Len(queue') = Len(queue) - 1
          /\ \A i \in DOMAIN queue' : i + 1 \in DOMAIN queue /\ queue'[i] = queue[i + 1] /\ i \in Nat
      BY <1>1, <1>3, TailOf DEF FollowInv, Queued
    <2>2. cur \in Nat /\ Len(queue) \in Nat /\ cur + Len(queue) <= Newest
      BY SourceType, HeadOf, <1>1 DEF SourceInv, FollowInv, FollowOK, Queued
    <2>3. \A i \in DOMAIN queue' : queue'[i].gen = q + i
      <3>1. ASSUME NEW i \in DOMAIN queue' PROVE queue'[i].gen = q + i
        <4>1. i + 1 \in DOMAIN queue /\ queue'[i] = queue[i + 1] /\ i \in Nat
          BY <2>1
        <4>2. queue[i + 1].gen = cur + (i + 1)
          BY <4>1 DEF FollowInv, Queued
        <4>. QED
          BY <4>1, <4>2, <1>2, <2>2
      <3>. QED
        BY <3>1
    <2>4. q + Len(queue') <= Newest
      BY <1>2, <2>1, <2>2, SourceType DEF SourceInv
    <2>. QED
      BY <1>3, <2>1, <2>3, <2>4, SourceKept DEF Queued
  <1>. QED
    BY <1>6, <1>7 DEF FollowInv

\* A follower is opened where it was found, at the end of a chain.
LEMMA FollowOpened ==
    ASSUME SourceInv, DiscoveryInv, FollowInv, NEW n \in Name, NEW o \in Nat, OpenAt(n, o),
           Contiguous(n), dir[n] = found[n], ckpt' \in {ckpt, At(dir[n], 0)}
    PROVE  FollowInv'
  <1>. PICK g : g = dir[n]
    OBVIOUS
  <1>1. /\ QueueAfter(n) \in Seq([gen : Generations, name : Name])
        /\ Len(QueueAfter(n)) = n /\ DOMAIN QueueAfter(n) = 1..n
        /\ \A i \in 1..n : QueueAfter(n)[i].gen = g + i
        /\ g \in Generations /\ g + n = found[0] /\ found[0] <= Newest
    BY QueueMade
  <1>2. /\ cur' = g /\ off' = o /\ buf' = o /\ on' = Era(g) /\ atPath' = (n = 0)
        /\ queue' = QueueAfter(n) /\ mark' = << >> /\ pc' = "read" /\ listed' = FALSE
        /\ partial' = {} /\ delivered' = {} /\ before' = before \cup delivered
        /\ complete' = At(g, o) /\ from' = At(g, o)
        /\ UNCHANGED <<source, crashes, blind>>
    BY DEF OpenAt, Forget
  <1>3. Placed'
    <2>1. At(g, o) \in Pos /\ At(g, o).gen = g /\ ckpt' \in Pos /\ ckpt'.gen \in Generations
      BY <1>1, PlaceAt DEF FollowInv, FollowOK, Placed
    <2>. QED
      BY <2>1, <1>1, <1>2, SourceKept DEF Placed
  <1>4. on' \in 1..Era(cur)' /\ cur' \in Generations'
    <2>1. Era(g) \in Nat \ {0} /\ Era(cur)' = Era(g) /\ Generations' = Generations
      BY <1>1, <1>2, SourceType, SourceKept DEF SourceInv, Era, source
    <2>. QED
      BY <2>1, <1>1, <1>2
  <1>5. FollowOK'
    <2>1. Pieced' /\ crashes' \in Nat
      BY <1>2 DEF Pieced, FollowInv, FollowOK
    <2>2. buf' \in Nat /\ off' \in 0..buf'
      BY <1>2
    <2>3. atPath' \in BOOLEAN /\ blind' \in BOOLEAN
      <3>1. (n = 0) \in BOOLEAN /\ blind \in BOOLEAN
        BY DEF FollowInv, FollowOK
      <3>. QED
        BY <3>1, <1>2, Zenon
    <2>. QED
      BY <1>2, <1>3, <1>4, <2>1, <2>2, <2>3 DEF FollowOK
  <1>6. Queued'
    BY <1>1, <1>2, SourceKept DEF Queued
  <1>. QED
    BY <1>5, <1>6 DEF FollowInv

LEMMA OldestIs ==
    ASSUME DiscoveryInv, found[0] # 0
    PROVE  Oldest \in Name /\ Contiguous(Oldest)
  <1>. PICK K : K = {k \in Name : Contiguous(k)}
    OBVIOUS
  <1>1. 0 \in K
    <2>1. 0 \in Name /\ 0..0 = {0}
      BY RotationAssumption DEF Name
    <2>. QED
      BY <2>1 DEF Contiguous
  <1>. PICK R : R = Retained
    OBVIOUS
  <1>. PICK D : D = {R - k : k \in K}
    OBVIOUS
  <1>2. K \subseteq 0..R /\ R \in Nat
    BY RotationAssumption DEF Name
  <1>3. D \in SUBSET Nat /\ D # {}
    BY <1>1, <1>2
  <1>4. Min(D) \in D /\ \A x \in D : Min(D) <= x
    BY <1>3, LeastOf
  <1>5. PICK k \in K : Min(D) = R - k
    BY <1>4
  <1>6. \A j \in K : k >= j
    <2>. SUFFICES ASSUME NEW j \in K PROVE k >= j
      OBVIOUS
    <2>1. R - j \in D
      OBVIOUS
    <2>2. R - k <= R - j
      BY <1>4, <1>5, <2>1
    <2>. QED
      BY <1>2, <2>2
  <1>7. Max(K) \in K
    BY <1>6 DEF Max
  <1>. QED
    BY <1>7 DEF Oldest

LEMMA RestartIs ==
    ASSUME DiscoveryInv, Restart
    PROVE  /\ KeptName \in Name /\ OpenAt(KeptName, ckpt.off) /\ Contiguous(KeptName)
           /\ dir[KeptName] = ckpt.gen /\ found[KeptName] = ckpt.gen /\ ckpt' = ckpt
           /\ pc = "start"
  BY NamedIn DEF Restart, Opening, InPlace, Kept, KeptName

LEMMA RecoverIs ==
    ASSUME DiscoveryInv, Recover
    PROVE  /\ Oldest \in Name /\ OpenAt(Oldest, 0) /\ Contiguous(Oldest)
           /\ dir[Oldest] = found[Oldest] /\ ckpt' = At(dir[Oldest], 0)
           /\ pc = "gap"
  BY OldestIs DEF Recover

LEMMA FollowNext ==
    ASSUME SourceInv, DiscoveryInv, FollowInv, [Next]_vars
    PROVE  FollowInv'
  <1>1. CASE UNCHANGED vars
    BY <1>1 DEF vars, source, reading, switching, listing, history, FollowInv, FollowOK, Queued,
                Pieced, Placed, Discovering, Generations, Newest, Era
  <1>2. CASE Persist
    <2>1. Placed'
      BY <1>2, SourceKept DEF Persist, FollowInv, FollowOK, Placed, reading, history
    <2>. QED
      BY <1>2, <2>1, SourceKept
      DEF Persist, reading, switching, listing, history, FollowInv, FollowOK, Queued,
          Pieced, Discovering, Era
  <1>3. CASE Restart
    <2>1. ckpt.off \in Nat
      BY DEF FollowInv, FollowOK, Placed, Pos
    <2>. QED
      BY <1>3, <2>1, RestartIs, FollowOpened
  <1>4. CASE Recover
    BY <1>4, RecoverIs, FollowOpened
  <1>. QED
    BY <1>1, <1>2, <1>3, <1>4, Kinds, FollowSourceSteps, FollowDiscovers, FollowLooks, FollowReads,
       FollowEnds, FollowSwitches

LEMMA StartsWell ==
    ASSUME Init
    PROVE  SourceInv /\ DiscoveryInv /\ FollowInv
  <1>1. /\ content = << << << >> >> >> /\ Newest = 1 /\ Generations = {1} /\ Era(1) = 1
        /\ content \in Seq(Seq(Seq(BOOLEAN)))
    <2>. PICK E, x : E = Seq(Seq(BOOLEAN)) /\ x = << << >> >>
      OBVIOUS
    <2>1. x \in E /\ Len(x) = 1
      <3>. PICK B, y : B = Seq(BOOLEAN) /\ y = << >>
        OBVIOUS
      <3>1. y \in B
        OBVIOUS
      <3>2. <<y>> \in Seq(B) /\ Len(<<y>>) = 1
        BY <3>1
      <3>. QED
        BY <3>2
    <2>2. content = <<x>>
      BY DEF Init
    <2>3. <<x>> \in Seq(E) /\ Len(<<x>>) = 1 /\ DOMAIN <<x>> = {1} /\ <<x>>[1] = x
      BY <2>1
    <2>. QED
      BY <2>1, <2>2, <2>3 DEF Newest, Generations, Era
  <1>2. /\ dir = [n \in Name |-> IF n = 0 THEN 1 ELSE 0] /\ writing = 1 /\ rotating = "nothing"
        /\ slot = 0 /\ Retained \in Nat /\ 0 \in Name /\ Name \subseteq Nat
    BY RotationAssumption DEF Init, Name
  <1>3. SourceOK
    BY <1>1, <1>2 DEF SourceOK, Newest
  <1>4. DirInv
    BY <1>1, <1>2 DEF DirInv, Due, Shifted, Name
  <1>5. found = Nothing /\ listed = FALSE /\ todo = {} /\ found \in [Name -> 0..1]
        /\ \A n \in Name : found[n] = 0
    BY DEF Init, Nothing
  <1>6. DiscoveryInv
    <2>1. \A j, k \in Name : j < k => \E i \in j..k : found[i] = 0
      BY <1>2, <1>5
    <2>. QED
      BY <1>1, <1>2, <1>5, <2>1 DEF DiscoveryInv, Looked, FoundInv
  <1>7. At(1, 0) \in Pos /\ At(1, 0).gen = 1
    BY DEF At, Pos
  <1>8. Pieced /\ Placed
    BY <1>1, <1>7 DEF Pieced, Placed, Init
  <1>9. FollowOK
    <2>1. /\ cur = 1 /\ on = 1 /\ buf = 0 /\ off = 0 /\ pc = "read" /\ listed = FALSE /\ blind = FALSE
          /\ atPath = TRUE /\ crashes = 0 /\ mark = << >>
      BY DEF Init
    <2>2. cur \in Generations /\ on \in 1..Era(cur) /\ buf \in Nat /\ off \in 0..buf
          /\ crashes \in Nat
      BY <1>1, <2>1
    <2>3. pc \in {"read", "stat", "drain"} \/ Discovering
      BY <2>1
    <2>. QED
      BY <1>8, <2>1, <2>2, <2>3 DEF FollowOK
  <1>10. Queued
    <2>1. << >> \in Seq([gen : Generations, name : Name]) /\ Len(<< >>) = 0 /\ DOMAIN << >> = {}
      OBVIOUS
    <2>. QED
      BY <1>1, <2>1 DEF Init, Queued
  <1>. QED
    BY <1>3, <1>4, <1>6, <1>9, <1>10 DEF SourceInv, FollowInv

\* Types: the collector reads a generation that exists, in an era that it has.
THEOREM TypeCorrect == Spec => []TypeOK
  <1>1. Init => SourceInv /\ DiscoveryInv /\ FollowInv
    BY StartsWell
  <1>2. SourceInv /\ DiscoveryInv /\ FollowInv /\ [Next]_vars
           => (SourceInv /\ DiscoveryInv /\ FollowInv)'
    BY SourceNext, DiscoveryNext, FollowNext
  <1>3. SourceInv /\ DiscoveryInv /\ FollowInv => TypeOK
    BY DEF SourceInv, SourceOK, DiscoveryInv, Looked, FollowInv, FollowOK, Queued, Pieced, Placed,
           TypeOK, Newest
  <1>. QED
    BY <1>1, <1>2, <1>3, PTL DEF Spec

-----------------------------------------------------------------------------
(* The causes of a gap.                                                    *)

\* With nothing gone and no hole, discovery finds the whole chain from the
\* generation read, or the one of the checkpoint, to the newest.
LEMMA ChainIsWhole ==
    ASSUME SourceInv, DiscoveryInv, FollowInv, ~Gone, ~Hole, found = dir, found[0] # 0,
           NEW g \in {cur, ckpt.gen}
    PROVE  /\ g \in Range(found) /\ Contiguous(NameIn(found, g))
           /\ \A h \in g..Newest : h \in Range(found)
  <1>1. /\ cur \in 1..Newest /\ ckpt.gen \in 1..Newest /\ Newest \in Nat /\ Retained \in Nat
        /\ g \in Nat
    BY SourceType, RotationAssumption DEF SourceInv, FollowInv, FollowOK, Placed
  <1>2. Min({cur, ckpt.gen}) <= g /\ Min({cur, ckpt.gen}) \in Nat
    BY <1>1, LeastOf
  <1>3. \A h \in g..Newest : h \in Range(found)
    <2>. SUFFICES ASSUME NEW h \in g..Newest PROVE h \in Range(found)
      OBVIOUS
    <2>1. h \in Min({cur, ckpt.gen})..Len(content)
      BY <1>1, <1>2 DEF Newest
    <2>2. h \in Present
      BY <2>1 DEF Gone
    <2>. QED
      BY <2>2 DEF Present
  <1>4. g \in Range(found)
    BY <1>1, <1>3
  <1>. PICK n : n = NameIn(found, g)
    OBVIOUS
  <1>5. n \in Name /\ found[n] = g /\ g # 0
    BY <1>1, <1>4, NamedIn
  <1>6. Contiguous(n)
    <2>. SUFFICES ASSUME NEW k \in 0..n, found[k] = 0 PROVE FALSE
      BY DEF Contiguous
    <2>1. k \in 1..Retained /\ n \in k..Retained
      BY <1>1, <1>5 DEF Name
    <2>. QED
      BY <2>1, <1>5 DEF Hole
  <1>. QED
    BY <1>3, <1>4, <1>6

LEMMA OlderIsBehind ==
    ASSUME SourceInv, NEW n \in Name, NEW k \in Name, n < k, dir[n] # 0
    PROVE  dir[k] <= dir[n]
  <1>1. n \in Nat /\ k \in Nat /\ Newest \in Nat
    BY SourceType, RotationAssumption DEF SourceInv, Name
  <1>2. dir[n] = Due(n) /\ dir[k] \in {0, Due(k)} /\ dir[n] \in Nat
    BY DEF SourceInv, SourceOK, DirInv
  <1>3. Due(k) <= Newest - k + 1 /\ Newest - n <= Due(n) /\ Due(k) \in Int /\ Due(n) \in Int
    BY <1>1 DEF Due
  <1>. QED
    BY <1>1, <1>2, <1>3

LEMMA OrderIsFound ==
    ASSUME SourceInv, DiscoveryInv, FollowInv, ~Gone, ~Hole, found = dir, found[0] # 0
    PROVE  InOrder
  <1>. PICK n : n = NameIn(found, cur)
    OBVIOUS
  <1>1. cur \in Range(found) /\ Contiguous(n) /\ \A h \in cur..Newest : h \in Range(found)
    BY ChainIsWhole
  <1>2. n \in Name /\ found[n] = cur /\ cur \in Nat \ {0} /\ Newest \in Nat
    BY <1>1, NamedIn, ReadTypes, SourceType DEF SourceInv
  <1>3. ASSUME NEW i \in DOMAIN queue
        PROVE  queue[i].gen \in Newer(n)
    <2>1. queue[i].gen = cur + i /\ i \in 1..Len(queue) /\ Len(queue) \in Nat
          /\ cur + Len(queue) <= Newest
      BY DEF FollowInv, Queued
    <2>2. cur + i \in Range(found)
      BY <2>1, <1>1, <1>2
    <2>3. PICK k \in Name : found[k] = cur + i
      BY <2>2 DEF Range, DiscoveryInv, Looked
    <2>4. ~(n < k)
      BY <2>1, <2>3, <1>2, OlderIsBehind
    <2>5. k # n
      BY <2>1, <2>3, <1>2
    <2>6. k \in 0..(n - 1)
      BY <2>4, <2>5, <1>2, RotationAssumption DEF Name
    <2>. QED
      BY <2>1, <2>3, <2>6, <1>2 DEF Newer
  <1>. QED
    BY <1>1, <1>3 DEF InOrder, Known

LEMMA GapStep ==
    ASSUME SourceInv, DiscoveryInv, FollowInv, Next, pc # "gap", pc' = "gap"
    PROVE  Gone \/ Hole \/ Short \/ TooShort \/ (listed /\ found # dir)
  <1>. SUFFICES ASSUME ~Gone, ~Hole, ~Short, listed => found = dir
                PROVE  TooShort
    OBVIOUS
  <1>1. ~RefreshGap
    BY OrderIsFound DEF RefreshGap, Refreshing, Discovered
  <1>2. ~FindGap
    <2>1. SUFFICES ASSUME FindGap PROVE FALSE
      OBVIOUS
    <2>2. queue # << >>
      BY <2>1 DEF FindGap, FollowInv, Queued
    <2>3. queue[1].gen = cur + 1 /\ cur < Newest /\ cur \in Nat /\ Newest \in Nat
      BY <2>2, FirstQueued, ReadTypes, SourceType DEF SourceInv
    <2>4. cur + 1 \in Range(found)
      BY <2>1, <2>3, ChainIsWhole DEF FindGap, Discovered
    <2>. QED
      BY <2>1, <2>3, <2>4 DEF FindGap
  <1>3. RestartGap => TooShort
    <2>1. SUFFICES ASSUME RestartGap PROVE TooShort
      OBVIOUS
    <2>2. found[0] # 0 /\ found = dir
      BY <2>1 DEF RestartGap, Opening, Discovered
    <2>3. ckpt.gen \in Range(found) /\ Contiguous(KeptName)
      BY <2>2, ChainIsWhole DEF KeptName
    <2>. QED
      BY <2>1, <2>2, <2>3 DEF RestartGap, Kept
  <1>4. StatShort \/ DrainShort \/ RefreshGap \/ FindGap \/ RestartGap
    BY DEF Next, Follow, Discover, Rotate, BeginRotation, Expire, Rename, Create, Reopen, Write, Truncate,
           Collector, Persist, Crash, Exit,
           ReadBuffered, AnchorFails, ReadFilled, ReadToEnd, StatAbsent, StatSame, StatReplaced,
           ReadDir, Info, InfoFails, RefreshPending, RefreshFound, DrainWait, SwitchMoved,
           FindPending, FindFails, Switch, SwitchTo, Restart, OpenAt, RestartFails, Recover, RecoverFails
  <1>. QED
    BY <1>1, <1>2, <1>3, <1>4 DEF StatShort, DrainShort

\* A gap is declared only when a generation is gone, when a file is shorter
\* than what was read of it, or while names move: never because the path is
\* absent between rename and create.
THEOREM GapsHaveCauses == Spec => GapHasCause
  <1>1. Init => SourceInv /\ DiscoveryInv /\ FollowInv
    BY StartsWell
  <1>2. SourceInv /\ DiscoveryInv /\ FollowInv /\ [Next]_vars
           => (SourceInv /\ DiscoveryInv /\ FollowInv)'
    BY SourceNext, DiscoveryNext, FollowNext
  <1>3. SourceInv /\ DiscoveryInv /\ FollowInv /\ [Next]_vars
           => [pc # "gap" /\ pc' = "gap" =>
                 Gone \/ Hole \/ Short \/ TooShort \/ (listed /\ found # dir)]_vars
    BY GapStep
  <1>. QED
    BY <1>1, <1>2, <1>3, PTL DEF Spec, GapHasCause

-----------------------------------------------------------------------------
(* What was read.                                                          *)

Active == pc \notin {"start", "gap"}

\* What stableForSwitch remembers is of the open generation; in the era it was
\* seen in the file is no shorter, and once the reader came to its end again it
\* has read at least as much.
MarkInv ==
    /\ mark # << >> =>
          /\ Active
          /\ mark[3] \in 1..Era(cur)
          /\ mark[3] = Era(cur) => mark[2] <= Size /\ (pc # "read" => mark[2] <= off)
    /\ pc = "find" =>
          /\ writing > cur /\ mark # << >>
          /\ mark[3] = Era(cur) => mark[2] = Size /\ off <= Size

\* How far the reader is: in the order of the generations, and no further than
\* what was written.
Bounds ==
    /\ buf <= Len(content[cur][on])
    /\ from.gen \in Generations
    /\ Active =>
          /\ from.gen <= cur
          /\ cur = from.gen => from.off <= off
          /\ cur > from.gen => writing >= cur
          /\ complete.gen < cur \/ (complete.gen = cur /\ complete.off <= off)
          /\ \A x \in delivered \cup partial : x[1] \in from.gen..cur
          /\ cur = from.gen /\ from.off > 0 /\ ~blind => on = from.anchor
    /\ ~Active => delivered = {} /\ partial = {} /\ off = 0 /\ buf = 0

\* The unfinished line ends nowhere; without one, the reader is behind an end.
Unended ==
    /\ \A x \in partial :
          /\ x[1] \in Generations /\ x[2] \in 1..Era(x[1])
          /\ x[3] \in 1..Len(content[x[1]][x[2]]) /\ ~EndsLine(x)
    /\ Active /\ partial = {} /\ off >= First(cur) => content[cur][on][off]

\* Generation g is written no more, and unless it was cut its last line ended.
Closed(g) == Era(g) = 1 /\ SizeOf(g) >= First(g) => content[g][1][SizeOf(g)]

\* A position: a generation begins only behind a line that ended, and up to
\* any other offset the lines were handed over.
Sound(p) ==
    /\ p.gen \in from.gen..Newest
    /\ p.off = 0 => p.anchor = 0
    /\ p.off = 0 /\ p.gen > from.gen => writing >= p.gen /\ Closed(p.gen - 1)
    /\ ~blind /\ p.off > 0 =>
          /\ p.anchor \in 1..Era(p.gen) /\ p.off \in 1..Len(content[p.gen][p.anchor])
          /\ content[p.gen][p.anchor][p.off]
          /\ Span(p.gen, p.anchor, 1, p.off) \subseteq before \cup delivered

ReadWhole(g) ==
    \E e \in DOMAIN content[g] : \E n \in 0..Len(content[g][e]) :
       /\ ReadOf(g) = Span(g, e, First(g), n)
       /\ e = Era(g) => n = SizeOf(g)
Read ==
    Active /\ ~blind =>
       /\ \A g \in from.gen..(cur - 1) : ReadWhole(g)
       /\ ReadOf(cur) = Span(cur, on, First(cur), off)
       /\ partial = {x \in delivered \cup partial : After(complete, x)}

DataInv ==
    /\ MarkInv /\ Bounds /\ Unended
    /\ Sound(ckpt) /\ (Active => Sound(complete))
    /\ NothingJumped /\ Read

\* A source step keeps what was read of the eras that there are.
LEMMA ContentKept ==
    ASSUME SourceInv, SourceStep, NEW g \in Generations
    PROVE  /\ g \in Generations'
           /\ Era(g) \in Nat \ {0} /\ Era(g)' \in Nat \ {0} /\ Era(g) <= Era(g)'
           /\ \A e \in 1..Era(g) :
                 /\ Len(content[g][e]) \in Nat /\ Len(content'[g][e]) \in Nat
                 /\ Len(content[g][e]) <= Len(content'[g][e])
                 /\ \A i \in 1..Len(content[g][e]) : content'[g][e][i] = content[g][e][i]
           /\ g < writing /\ Era(g)' = Era(g) => content'[g] = content[g]
           /\ DOMAIN content[g] = 1..Era(g) /\ DOMAIN content'[g] = 1..Era(g)'
           /\ SizeOf(g) = Len(content[g][Era(g)]) /\ SizeOf(g)' = Len(content'[g][Era(g)'])
           /\ writing \in Nat /\ writing' \in Nat /\ writing <= writing' /\ g \in Nat
  <1>1. GrownAt(g) /\ g \in Generations'
    BY ContentGrows DEF SourceInv
  <1>2. SourceInv' /\ writing <= writing'
    BY SourceSteps
  <1>3. /\ Era(g) \in Nat \ {0} /\ DOMAIN content[g] = 1..Era(g) /\ Generations = 1..Newest
        /\ Newest \in Nat
        /\ \A e \in 1..Era(g) : Len(content[g][e]) \in Nat
    BY SourceType DEF SourceInv
  <1>4. content' \in Seq(Seq(Seq(BOOLEAN))) /\ writing \in Generations /\ writing' \in Generations'
    BY <1>2 DEF SourceInv, SourceOK
  <1>5. DOMAIN content'[g] = 1..Len(content'[g]) /\ Generations' \subseteq Nat
    <2>. PICK E, c : E = Seq(Seq(BOOLEAN)) /\ c = content'
      OBVIOUS
    <2>1. c \in Seq(E) /\ g \in DOMAIN c
      BY <1>1, <1>4 DEF Generations
    <2>2. c[g] \in E /\ DOMAIN c \subseteq Nat
      BY <2>1
    <2>3. DOMAIN c[g] = 1..Len(c[g])
      BY <2>2
    <2>. QED
      BY <2>2, <2>3 DEF Generations
  <1>6. g \in Nat /\ writing \in Nat /\ writing' \in Nat
    BY <1>3, <1>4, <1>5
  <1>. QED
    BY <1>1, <1>2, <1>3, <1>5, <1>6 DEF GrownAt, Era, SizeOf, Lines

\* The facts about the collector's state that the steps need.
LEMMA StateTypes ==
    ASSUME SourceInv, FollowInv
    PROVE  /\ cur \in Generations /\ cur \in Nat \ {0} /\ Generations = 1..Newest /\ Newest \in Nat
           /\ on \in 1..Era(cur) /\ off \in Nat /\ buf \in Nat /\ off <= buf
           /\ ckpt \in Pos /\ complete \in Pos /\ from \in Pos
           /\ writing \in Generations /\ writing \in Nat
           /\ from.gen \in Nat /\ from.off \in Nat
           /\ blind \in BOOLEAN
           /\ partial \subseteq Piece /\ delivered \subseteq Piece
           /\ (mark # << >> => mark[1] \in Nat /\ mark[2] \in Nat /\ mark[3] \in Nat)
  <1>1. /\ cur \in Generations /\ cur \in Nat \ {0} /\ Generations = 1..Newest /\ Newest \in Nat
        /\ on \in 1..Era(cur) /\ off \in Nat /\ buf \in Nat /\ off <= buf
    BY ReadTypes, SourceType DEF SourceInv
  <1>2. ckpt \in Pos /\ complete \in Pos /\ from \in Pos /\ blind \in BOOLEAN
        /\ partial \subseteq Piece /\ delivered \subseteq Piece
    BY DEF FollowInv, FollowOK, Placed, Pieced
  <1>3. writing \in Generations /\ writing \in Nat
    BY <1>1 DEF SourceInv, SourceOK
  <1>4. from.gen \in Nat /\ from.off \in Nat
    BY <1>2 DEF Pos
  <1>5. mark # << >> => mark[1] \in Nat /\ mark[2] \in Nat /\ mark[3] \in Nat
    BY DEF FollowInv, FollowOK
  <1>. QED
    BY <1>1, <1>2, <1>3, <1>4, <1>5

LEMMA SizesNatural == SourceInv => \A g \in Generations : SizeOf(g) \in Nat
  BY SourceType DEF SourceInv

LEMMA SizesNaturalNext == (SourceInv => \A g \in Generations : SizeOf(g) \in Nat)'
  BY SizesNatural, PTL

LEMMA PieceKept ==
    ASSUME SourceInv, SourceStep, NEW g \in Generations, NEW e \in 1..Era(g),
           NEW i \in 1..Len(content[g][e])
    PROVE  /\ g \in Generations' /\ e \in 1..Era(g)'
           /\ i \in 1..Len(content'[g][e]) /\ content'[g][e][i] = content[g][e][i]
  <1>1. /\ g \in Generations' /\ Era(g) \in Nat /\ Era(g)' \in Nat /\ Era(g) <= Era(g)'
    BY ContentKept
  <1>2. /\ Len(content[g][e]) \in Nat /\ Len(content'[g][e]) \in Nat
        /\ Len(content[g][e]) <= Len(content'[g][e])
        /\ content'[g][e][i] = content[g][e][i]
    BY ContentKept
  <1>3. e \in 1..Era(g)'
    BY <1>1
  <1>4. i \in 1..Len(content'[g][e])
    BY <1>2
  <1>. QED
    BY <1>1, <1>2, <1>3, <1>4

LEMMA SizeKept ==
    ASSUME SourceInv, SourceStep, NEW g \in Generations
    PROVE  /\ SizeOf(g) \in Nat /\ SizeOf(g)' \in Nat
           /\ Era(g)' = Era(g) => SizeOf(g) <= SizeOf(g)'
           /\ Era(g)' = Era(g) /\ g < writing => SizeOf(g) = SizeOf(g)'
  <1>. PICK E, F : E = Era(g) /\ F = Era(g)'
    OBVIOUS
  <1>1. /\ E \in Nat \ {0} /\ F \in Nat \ {0} /\ E \in 1..E
        /\ SizeOf(g) = Len(content[g][E]) /\ SizeOf(g)' = Len(content'[g][F])
        /\ (F = E /\ g < writing => content'[g] = content[g])
    BY ContentKept
  <1>2. /\ Len(content[g][E]) \in Nat /\ Len(content'[g][E]) \in Nat
        /\ Len(content[g][E]) <= Len(content'[g][E])
    BY <1>1, ContentKept
  <1>3. SizeOf(g)' \in Nat
    <2>1. SourceInv' /\ g \in Generations'
      BY SourceSteps, ContentKept
    <2>. QED
      BY <2>1, SizesNaturalNext
  <1>. QED
    BY <1>1, <1>2, <1>3

LEMMA MarkSourceSteps ==
    ASSUME SourceInv, FollowInv, DataInv, SourceStep, UNCHANGED Collector
    PROVE  MarkInv'
  <1>. USE DEF Collector, reading, switching, listing, history
  <1>1. /\ cur \in Generations
        /\ (mark # << >> => mark[2] \in Nat /\ mark[3] \in Nat)
        /\ writing \in Nat /\ cur \in Nat /\ off \in Nat
    BY StateTypes
  <1>2. /\ Era(cur) \in Nat \ {0} /\ Era(cur)' \in Nat \ {0} /\ Era(cur) <= Era(cur)'
        /\ cur < writing /\ Era(cur)' = Era(cur) => content'[cur] = content[cur]
        /\ writing' \in Nat /\ writing <= writing'
    BY <1>1, ContentKept
  <1>. PICK c : c = cur
    OBVIOUS
  <1>3. /\ SizeOf(c) \in Nat /\ SizeOf(c)' \in Nat
        /\ Era(c)' = Era(c) => SizeOf(c) <= SizeOf(c)'
        /\ Era(c)' = Era(c) /\ c < writing => SizeOf(c) = SizeOf(c)'
    BY <1>1, SizeKept
  <1>4. /\ Size \in Nat /\ Size' \in Nat /\ (Era(cur)' = Era(cur) => Size <= Size')
        /\ cur < writing /\ Era(cur)' = Era(cur) => Size' = Size
    <2>1. Size = SizeOf(c) /\ Size' = SizeOf(c)' /\ Era(cur)' = Era(c)' /\ Era(cur) = Era(c)
      BY DEF Size, SizeOf, Lines, Era
    <2>. QED
      BY <1>3, <2>1
  <1>5. MarkInv
    BY DEF DataInv
  <1>6. mark # << >> => /\ Active
                        /\ mark[3] \in 1..Era(cur)'
                        /\ mark[3] = Era(cur)' => mark[3] = Era(cur) /\ Era(cur)' = Era(cur)
    <2>1. mark # << >> => Active /\ mark[3] \in 1..Era(cur)
      BY <1>5 DEF MarkInv
    <2>. QED
      BY <1>2, <2>1
  <1>7. ASSUME mark # << >>, mark[3] = Era(cur)'
        PROVE  mark[2] <= Size' /\ (pc # "read" => mark[2] <= off)
    <2>1. mark[3] = Era(cur) /\ Era(cur)' = Era(cur)
      BY <1>6, <1>7
    <2>2. mark[2] <= Size /\ (pc # "read" => mark[2] <= off)
      BY <1>5, <1>7, <2>1 DEF MarkInv
    <2>. QED
      BY <1>1, <1>4, <1>7, <2>1, <2>2
  <1>8. pc = "find" => writing' > cur /\ mark # << >>
    BY <1>1, <1>2, <1>5 DEF MarkInv
  <1>9. ASSUME pc = "find", mark[3] = Era(cur)'
        PROVE  mark[2] = Size' /\ off <= Size'
    <2>1. mark # << >> /\ cur < writing
      BY <1>1, <1>5, <1>9 DEF MarkInv
    <2>2. mark[3] = Era(cur) /\ Era(cur)' = Era(cur)
      BY <1>6, <1>9, <2>1
    <2>3. mark[2] = Size /\ off <= Size
      BY <1>5, <1>9, <2>2 DEF MarkInv
    <2>. QED
      BY <1>4, <2>1, <2>2, <2>3
  <1>10. mark' = mark /\ pc' = pc /\ off' = off /\ cur' = cur /\ Active' = Active
    BY DEF Active
  <1>11. mark' # << >> =>
           /\ Active'
           /\ mark'[3] \in 1..Era(cur)'
           /\ mark'[3] = Era(cur)' => mark'[2] <= Size' /\ (pc' # "read" => mark'[2] <= off')
    BY <1>6, <1>7, <1>10
  <1>12. pc' = "find" =>
           /\ writing' > cur' /\ mark' # << >>
           /\ mark'[3] = Era(cur)' => mark'[2] = Size' /\ off' <= Size'
    BY <1>8, <1>9, <1>10
  <1>. QED
    BY <1>11, <1>12 DEF MarkInv

LEMMA BoundsSourceSteps ==
    ASSUME SourceInv, FollowInv, DataInv, SourceStep, UNCHANGED Collector
    PROVE  Bounds' /\ Unended'
  <1>. USE DEF Collector, reading, switching, listing, history
  <1>1. /\ cur \in Generations /\ on \in 1..Era(cur) /\ off \in Nat /\ buf \in Nat /\ off <= buf
        /\ writing \in Nat /\ cur \in Nat /\ from.off \in Nat
    BY StateTypes
  <1>2. /\ Len(content[cur][on]) \in Nat /\ Len(content'[cur][on]) \in Nat
        /\ Len(content[cur][on]) <= Len(content'[cur][on])
        /\ \A i \in 1..Len(content[cur][on]) : content'[cur][on][i] = content[cur][on][i]
        /\ writing' \in Nat /\ writing <= writing'
    BY <1>1, ContentKept
  <1>3. Bounds /\ Unended
    BY DEF DataInv
  <1>4. Bounds'
    <2>1. buf' <= Len(content'[cur'][on'])
      BY <1>1, <1>2, <1>3 DEF Bounds
    <2>2. from'.gen \in Generations'
      BY <1>3, ContentKept DEF Bounds
    <2>3. cur > from.gen /\ Active => writing' >= cur
      BY <1>1, <1>2, <1>3 DEF Bounds
    <2>. QED
      BY <2>1, <2>2, <2>3, <1>3 DEF Bounds, Active
  <1>5. Unended'
    <2>1. ASSUME NEW x \in partial
          PROVE  /\ x[1] \in Generations' /\ x[2] \in 1..Era(x[1])'
                 /\ x[3] \in 1..Len(content'[x[1]][x[2]]) /\ ~content'[x[1]][x[2]][x[3]]
      <3>. PICK g, e, k : g = x[1] /\ e = x[2] /\ k = x[3]
        OBVIOUS
      <3>1. g \in Generations /\ e \in 1..Era(g) /\ k \in 1..Len(content[g][e]) /\ ~content[g][e][k]
        BY <2>1, <1>3 DEF Unended, EndsLine
      <3>2. /\ g \in Generations' /\ e \in 1..Era(g)'
            /\ k \in 1..Len(content'[g][e]) /\ content'[g][e][k] = content[g][e][k]
        BY <3>1, PieceKept
      <3>. QED
        BY <3>1, <3>2, Zenon
    <2>2. ASSUME Active, partial = {}, off >= First(cur)
          PROVE  content'[cur][on][off]
      <3>1. content[cur][on][off]
        BY <2>2, <1>3 DEF Unended
      <3>2. off \in 1..Len(content[cur][on])
        BY <2>2, <1>1, <1>2, <1>3 DEF Bounds, First
      <3>. QED
        BY <3>1, <3>2, <1>2
    <2>. QED
      BY <2>1, <2>2 DEF Unended, Active, First, EndsLine
  <1>. QED
    BY <1>4, <1>5

LEMMA SoundSourceSteps ==
    ASSUME SourceInv, FollowInv, DataInv, SourceStep, UNCHANGED Collector,
           NEW p \in Pos, Sound(p)
    PROVE  Sound(p)'
  <1>. USE DEF Collector, reading, switching, listing, history
  <1>1. from.gen \in Generations /\ from.gen \in Nat \ {0} /\ p.gen \in Nat /\ p.off \in Nat
        /\ p.anchor \in Nat /\ from.off \in Nat /\ writing \in Generations
    BY StateTypes DEF DataInv, Bounds, Pos
  <1>2. Newest <= Newest' /\ Newest \in Nat /\ Newest' \in Nat /\ Generations = 1..Newest
    <2>1. SourceInv' /\ Newest <= Newest'
      BY SourceSteps
    <2>2. content' \in Seq(Seq(Seq(BOOLEAN)))
      BY <2>1 DEF SourceInv, SourceOK
    <2>. QED
      BY <2>1, <2>2, StateTypes DEF Newest
  <1>3. p.gen \in from.gen..Newest'
    BY <1>1, <1>2 DEF Sound
  <1>4. writing \in Nat /\ writing' \in Nat /\ writing <= writing'
    BY <1>1, ContentKept
  <1>5. ASSUME p.off = 0, p.gen > from.gen
        PROVE  writing' >= p.gen /\ Closed(p.gen - 1)'
    <2>. PICK g : g = p.gen - 1
      OBVIOUS
    <2>1. writing >= p.gen /\ Closed(g) /\ g \in Generations /\ g < writing
      BY <1>1, <1>2, <1>4, <1>5 DEF Sound
    <2>2. /\ Era(g) \in Nat \ {0} /\ Era(g)' \in Nat \ {0} /\ Era(g) <= Era(g)'
          /\ Era(g)' = Era(g) => content'[g] = content[g]
          /\ SizeOf(g) = Len(content[g][Era(g)]) /\ SizeOf(g)' = Len(content'[g][Era(g)'])
      BY <2>1, ContentKept
    <2>3. Closed(g)'
      <3>1. CASE Era(g)' = Era(g)
        BY <2>1, <2>2, <3>1 DEF Closed, First
      <3>2. CASE Era(g)' # Era(g)
        <4>1. Era(g)' # 1
          BY <2>2, <3>2
        <4>. QED
          BY <4>1 DEF Closed
      <3>. QED
        BY <3>1, <3>2
    <2>. QED
      BY <2>1, <2>3, <1>1, <1>4
  <1>6. ASSUME ~blind, p.off > 0
        PROVE  /\ p.anchor \in 1..Era(p.gen)' /\ p.off \in 1..Len(content'[p.gen][p.anchor])
               /\ content'[p.gen][p.anchor][p.off]
    <2>. PICK g, a, o : g = p.gen /\ a = p.anchor /\ o = p.off
      OBVIOUS
    <2>1. /\ g \in Generations /\ a \in 1..Era(g) /\ o \in 1..Len(content[g][a])
          /\ content[g][a][o]
      BY <1>1, <1>2, <1>6 DEF Sound
    <2>2. /\ a \in 1..Era(g)' /\ o \in 1..Len(content'[g][a])
          /\ content'[g][a][o] = content[g][a][o]
      BY <2>1, PieceKept
    <2>. QED
      BY <2>1, <2>2, Zenon
  <1>. QED
    BY <1>3, <1>5, <1>6 DEF Sound

LEMMA ReadSourceSteps ==
    ASSUME SourceInv, FollowInv, DataInv, SourceStep, UNCHANGED Collector
    PROVE  Read'
  <1>. USE DEF Collector, reading, switching, listing, history
  <1>. SUFFICES ASSUME Active, ~blind
                PROVE  /\ \A g \in from.gen..(cur - 1) : ReadWhole(g)'
                       /\ ReadOf(cur) = Span(cur, on, First(cur), off)
                       /\ partial = {x \in delivered \cup partial : After(complete, x)}
    BY DEF Read, Active, ReadOf, First
  <1>1. /\ \A g \in from.gen..(cur - 1) : ReadWhole(g)
        /\ ReadOf(cur) = Span(cur, on, First(cur), off)
        /\ partial = {x \in delivered \cup partial : After(complete, x)}
    BY DEF DataInv, Read
  <1>2. ASSUME NEW g \in from.gen..(cur - 1)
        PROVE  ReadWhole(g)'
    <2>1. g \in Generations /\ g < writing
      BY StateTypes DEF DataInv, Bounds
    <2>2. PICK e \in DOMAIN content[g] : \E n \in 0..Len(content[g][e]) :
             /\ ReadOf(g) = Span(g, e, First(g), n)
             /\ e = Era(g) => n = SizeOf(g)
      BY <1>1 DEF ReadWhole
    <2>3. PICK n \in 0..Len(content[g][e]) :
             /\ ReadOf(g) = Span(g, e, First(g), n)
             /\ e = Era(g) => n = SizeOf(g)
      BY <2>2
    <2>4. e \in 1..Era(g) /\ Era(g) \in Nat /\ Era(g)' \in Nat /\ Era(g) <= Era(g)'
          /\ DOMAIN content'[g] = 1..Era(g)'
      BY <2>1, ContentKept
    <2>5. e \in DOMAIN content'[g]
      BY <2>4
    <2>6. n \in 0..Len(content'[g][e])
      <3>1. /\ Len(content[g][e]) \in Nat /\ Len(content'[g][e]) \in Nat
            /\ Len(content[g][e]) <= Len(content'[g][e])
        BY <2>1, <2>4, ContentKept
      <3>. QED
        BY <3>1
    <2>7. e = Era(g)' => n = SizeOf(g)'
      <3>1. e = Era(g)' => Era(g)' = Era(g)
        BY <2>4
      <3>2. Era(g)' = Era(g) => SizeOf(g)' = SizeOf(g)
        BY <2>1, ContentKept
      <3>. QED
        BY <3>1, <3>2, <2>3
    <2>8. ReadOf(g)' = ReadOf(g) /\ First(g)' = First(g)
      BY DEF ReadOf, First
    <2>. QED
      BY <2>3, <2>5, <2>6, <2>7, <2>8 DEF ReadWhole
  <1>. QED
    BY <1>1, <1>2

LEMMA DataSourceSteps ==
    ASSUME SourceInv, FollowInv, DataInv, SourceStep, UNCHANGED Collector
    PROVE  DataInv'
  <1>. USE DEF Collector, reading, switching, listing, history
  <1>1. ckpt \in Pos /\ complete \in Pos
    BY StateTypes
  <1>2. Sound(ckpt)'
    <2>. PICK p : p = ckpt
      OBVIOUS
    <2>1. p \in Pos /\ Sound(p) /\ p = ckpt'
      BY <1>1 DEF DataInv
    <2>2. Sound(p)'
      BY <2>1, SoundSourceSteps
    <2>. QED
      BY <2>1, <2>2
  <1>3. Active' => Sound(complete)'
    <2>. SUFFICES ASSUME Active PROVE Sound(complete)'
      BY DEF Active
    <2>. PICK p : p = complete
      OBVIOUS
    <2>1. p \in Pos /\ Sound(p) /\ p = complete'
      BY <1>1 DEF DataInv
    <2>2. Sound(p)'
      BY <2>1, SoundSourceSteps
    <2>. QED
      BY <2>1, <2>2
  <1>4. NothingJumped'
    BY DEF DataInv, NothingJumped
  <1>. QED
    BY <1>2, <1>3, <1>4, MarkSourceSteps, BoundsSourceSteps, ReadSourceSteps DEF DataInv

LEMMA DataSame ==
    ASSUME DataInv, UNCHANGED <<source, reading, ckpt, history>>, Active' = Active
    PROVE  /\ Bounds' /\ Unended' /\ Sound(ckpt)' /\ (Active' => Sound(complete)')
           /\ NothingJumped' /\ Read'
  <1>. USE DEF source, reading, history
  <1>1. /\ \A g : Era(g)' = Era(g) /\ SizeOf(g)' = SizeOf(g) /\ First(g)' = First(g)
        /\ \A g : ReadOf(g)' = ReadOf(g)
        /\ Generations' = Generations /\ Newest' = Newest
    BY DEF Era, SizeOf, Lines, First, ReadOf, Generations, Newest
  <1>2. \A g : (Closed(g)' <=> Closed(g)) /\ (ReadWhole(g)' <=> ReadWhole(g))
    BY <1>1 DEF Closed, ReadWhole
  <1>3. Bounds' /\ Unended'
    BY <1>1 DEF DataInv, Bounds, Unended, EndsLine
  <1>4. ASSUME NEW p, Sound(p)
        PROVE  Sound(p)'
    BY <1>1, <1>2, <1>4 DEF Sound
  <1>5. Sound(ckpt)'
    <2>. PICK p : p = ckpt
      OBVIOUS
    <2>1. Sound(p) /\ p = ckpt'
      BY DEF DataInv
    <2>2. Sound(p)'
      BY <2>1, <1>4
    <2>. QED
      BY <2>1, <2>2
  <1>6. Active' => Sound(complete)'
    <2>. SUFFICES ASSUME Active PROVE Sound(complete)'
      OBVIOUS
    <2>. PICK p : p = complete
      OBVIOUS
    <2>1. Sound(p) /\ p = complete'
      BY DEF DataInv
    <2>2. Sound(p)'
      BY <2>1, <1>4
    <2>. QED
      BY <2>1, <2>2
  <1>7. NothingJumped'
    BY DEF DataInv, NothingJumped
  <1>8. Read'
    BY <1>1, <1>2 DEF DataInv, Read
  <1>. QED
    BY <1>3, <1>5, <1>6, <1>7, <1>8

LEMMA DataDiscovers ==
    ASSUME SourceInv, FollowInv, DataInv, ReadDir \/ Info
    PROVE  DataInv'
  <1>1. UNCHANGED <<source, pc, reading, switching, ckpt, history>>
    BY DEF ReadDir, Info
  <1>2. Active' = Active
    BY <1>1 DEF Active
  <1>3. MarkInv'
    BY <1>1, <1>2 DEF source, reading, switching, DataInv, MarkInv, Era, Size, SizeOf, Lines
  <1>. QED
    BY <1>1, <1>2, <1>3, DataSame DEF DataInv

LEMMA DataLooks ==
    ASSUME SourceInv, FollowInv, DataInv, Looking
    PROVE  DataInv'
  <1>1. UNCHANGED <<source, reading, atPath, ckpt, history, crashes>>
    BY LookingKeeps
  <1>2. /\ pc \in {"stat", "refresh", "await", "drain", "find"}
        /\ pc' \in {"read", "refresh", "drain", "find"}
        /\ pc' = "find" => SwitchMoved
    BY DEF Looking, StatAbsent, StatSame, StatReplaced, RefreshPending, RefreshFound, Refreshing,
           DrainWait, SwitchReady, SwitchMoved, FindPending
  <1>3. Active /\ Active'
    BY <1>2 DEF Active
  <1>4. MarkInv /\ Size' = Size /\ Era(cur)' = Era(cur) /\ cur' = cur /\ off' = off /\ writing' = writing
    BY <1>1 DEF DataInv, source, reading, Size, SizeOf, Lines, Era
  <1>5. /\ Era(cur) \in Nat \ {0} /\ Size \in Nat /\ off \in Nat
        /\ cur \in Nat /\ writing \in Nat
    BY ReadTypes, StateTypes
  <1>6. ASSUME mark' # << >>
        PROVE  /\ mark'[3] \in 1..Era(cur)
               /\ mark'[3] = Era(cur) => mark'[2] <= Size /\ (pc' # "read" => mark'[2] <= off)
    <2>1. CASE DrainWait
      <3>1. mark' = <<queue[1].gen, Size, Era(cur)>> /\ pc' = "read"
        BY <2>1 DEF DrainWait
      <3>2. mark'[3] = Era(cur) /\ mark'[2] = Size
        BY <3>1
      <3>. QED
        BY <3>1, <3>2, <1>5
    <2>2. CASE UNCHANGED mark
      BY <2>2, <1>2, <1>4, <1>6 DEF MarkInv
    <2>. QED
      BY <2>1, <2>2, <1>6, LookingKeeps
  <1>7. ASSUME SwitchMoved
        PROVE  /\ writing > cur /\ mark' # << >>
               /\ mark'[3] = Era(cur) => mark'[2] = Size /\ off <= Size
    <2>1. /\ pc = "drain" /\ ~Short /\ mark # << >> /\ mark[2] = Size /\ writing # cur /\ mark' = mark
      BY <1>7 DEF SwitchMoved, SwitchReady, Still, Observed, DrainElapsed, switching
    <2>2. queue # << >>
      BY <2>1 DEF FollowInv, Queued
    <2>3. cur < Newest /\ writing \in {Newest, Newest - 1} /\ Newest \in Nat
      BY <2>2, FirstQueued, StateTypes DEF SourceInv, DirInv
    <2>4. writing > cur
      BY <2>1, <2>3, <1>5
    <2>5. off <= Size
      BY <2>1, <1>5 DEF Short
    <2>. QED
      BY <2>1, <2>4, <2>5
  <1>8. MarkInv'
    BY <1>2, <1>3, <1>4, <1>6, <1>7 DEF MarkInv
  <1>9. Active' = Active
    BY <1>2 DEF Active
  <1>. QED
    BY <1>1, <1>8, <1>9, DataSame DEF DataInv

LEMMA DataPersists ==
    ASSUME SourceInv, FollowInv, DataInv, Persist
    PROVE  DataInv'
  <1>1. /\ UNCHANGED <<source, pc, reading, switching, listing, history>> /\ ckpt' = complete
        /\ pc = "read" /\ pc' = "read" /\ Active /\ Active'
    BY DEF Persist, Active
  <1>2. MarkInv' /\ Bounds' /\ Unended' /\ NothingJumped' /\ Read'
    <2>1. /\ \A g : Era(g)' = Era(g) /\ SizeOf(g)' = SizeOf(g) /\ First(g)' = First(g)
          /\ \A g : ReadOf(g)' = ReadOf(g)
          /\ Generations' = Generations /\ Newest' = Newest
      BY <1>1 DEF Era, SizeOf, Lines, First, ReadOf, Generations, Newest, source, history, reading
    <2>2. \A g : ReadWhole(g)' <=> ReadWhole(g)
      BY <1>1, <2>1 DEF ReadWhole, source
    <2>. QED
      BY <1>1, <2>1, <2>2
      DEF DataInv, MarkInv, Bounds, Unended, NothingJumped, Read, Size, EndsLine,
          source, history, reading, switching
  <1>3. Sound(complete)'
    <2>. PICK p : p = complete
      OBVIOUS
    <2>1. Sound(p) /\ p = complete'
      BY <1>1 DEF DataInv, reading
    <2>2. Sound(p)'
      BY <1>1, <2>1
      DEF Sound, Closed, Era, SizeOf, Lines, First, Newest, source, history
    <2>. QED
      BY <2>1, <2>2
  <1>4. Sound(ckpt)'
    <2>1. ckpt' = complete'
      BY <1>1 DEF reading
    <2>. QED
      BY <1>3, <2>1 DEF Sound
  <1>. QED
    BY <1>2, <1>3, <1>4 DEF DataInv

LEMMA DataEnds ==
    ASSUME SourceInv, FollowInv, DataInv, Ending
    PROVE  DataInv'
  <1>1. /\ pc' \in {"start", "gap"} /\ complete' \in {ckpt, complete} /\ cur' = complete'.gen
        /\ on' = 1 /\ off' = 0 /\ buf' = 0 /\ partial' = {} /\ mark' = << >>
        /\ before' = before \cup delivered /\ delivered' = {}
        /\ UNCHANGED <<source, ckpt, blind, from>>
    BY DEF Ending, Exit, Gap, Drop
  <1>2. ~Active' /\ pc' # "find"
    BY <1>1 DEF Active
  <1>3. MarkInv'
    BY <1>1, <1>2 DEF MarkInv
  <1>4. Bounds'
    <2>1. cur' \in Generations
      BY <1>1 DEF FollowInv, FollowOK, Placed
    <2>2. 1 \in 1..Era(cur')
      BY <2>1, SourceType DEF SourceInv
    <2>3. Len(content[cur'][1]) \in Nat
      BY <2>1, <2>2, SourceType DEF SourceInv
    <2>4. buf' <= Len(content'[cur'][on'])
      BY <1>1, <2>3 DEF source
    <2>5. from'.gen \in Generations'
      BY <1>1, SourceKept DEF DataInv, Bounds
    <2>. QED
      BY <1>1, <1>2, <2>4, <2>5 DEF Bounds
  <1>5. Unended'
    BY <1>1, <1>2 DEF Unended
  <1>6. Sound(ckpt)'
    <2>. PICK p : p = ckpt
      OBVIOUS
    <2>1. Sound(p) /\ p = ckpt'
      BY <1>1 DEF DataInv
    <2>2. before \cup delivered = before' \cup delivered'
      BY <1>1
    <2>3. Sound(p)'
      BY <1>1, <2>1, <2>2 DEF Sound, Closed, Era, SizeOf, Lines, First, Newest, source
    <2>. QED
      BY <2>1, <2>3
  <1>7. NothingJumped'
    BY <1>1 DEF DataInv, NothingJumped
  <1>8. Read'
    BY <1>2 DEF Read
  <1>. QED
    BY <1>2, <1>3, <1>4, <1>5, <1>6, <1>7, <1>8 DEF DataInv

\* A follower is opened: reading begins at its position.
LEMMA DataOpened ==
    ASSUME SourceInv, DiscoveryInv, FollowInv, DataInv,
           NEW n \in Name, NEW o \in Nat, OpenAt(n, o), Contiguous(n), dir[n] = found[n],
           NEW p \in Pos, p = At(dir[n], o), ckpt' = p,
           o <= SizeOf(dir[n]),
           ~blind /\ o > 0 => /\ content[dir[n]][Era(dir[n])][o]
                              /\ Span(dir[n], Era(dir[n]), 1, o) \subseteq before \cup delivered
    PROVE  DataInv'
  <1>. PICK g : g = dir[n]
    OBVIOUS
  <1>1. g \in Generations /\ g \in Nat /\ Generations = 1..Newest /\ Newest \in Nat
    BY QueueMade, StateTypes
  <1>2. /\ cur' = g /\ off' = o /\ buf' = o /\ on' = Era(g) /\ mark' = << >> /\ pc' = "read"
        /\ partial' = {} /\ delivered' = {} /\ before' = before \cup delivered
        /\ complete' = p /\ from' = p /\ ckpt' = p
        /\ UNCHANGED <<source, blind>>
    BY DEF OpenAt
  <1>3. /\ p.gen = g /\ p.off = o /\ p.anchor = (IF o = 0 THEN 0 ELSE Era(g))
    BY <1>1, PlaceAt
  <1>4. Era(g) \in Nat \ {0} /\ SizeOf(g) \in Nat /\ SizeOf(g) = Len(content[g][Era(g)])
        /\ o <= SizeOf(g)
    BY <1>1, SourceType DEF SourceInv, SizeOf, Lines
  <1>5. Active' /\ MarkInv'
    BY <1>2 DEF Active, MarkInv
  <1>6. First(g)' = o + 1
    BY <1>2, <1>3 DEF First
  <1>7. Bounds'
    <2>1. buf' <= Len(content'[cur'][on'])
      BY <1>2, <1>4 DEF source
    <2>2. from'.gen \in Generations' /\ from'.gen = cur' /\ from'.off = off'
      BY <1>1, <1>2, <1>3, SourceKept
    <2>3. from'.off > 0 => on' = from'.anchor
      BY <1>2, <1>3
    <2>4. complete'.gen = cur' /\ complete'.off = off'
      BY <1>2, <1>3
    <2>5. cur' \in Nat /\ off' \in Nat /\ delivered' \cup partial' = {}
      BY <1>1, <1>2
    <2>. QED
      BY <1>5, <2>1, <2>2, <2>3, <2>4, <2>5 DEF Bounds
  <1>8. Unended'
    <2>1. ~(off' >= First(cur)')
      BY <1>2, <1>6 DEF First
    <2>. QED
      BY <1>2, <2>1 DEF Unended
  <1>9. Sound(p)'
    <2>1. Newest' = Newest /\ Era(g)' = Era(g) /\ content' = content
      BY <1>2 DEF Newest, Era, source
    <2>2. p.gen \in from'.gen..Newest'
      BY <1>1, <1>2, <1>3, <2>1
    <2>3. ~(p.gen > from'.gen)
      BY <1>1, <1>2, <1>3
    <2>4. ~blind' /\ p.off > 0 =>
             /\ p.anchor \in 1..Era(p.gen)' /\ p.off \in 1..Len(content'[p.gen][p.anchor])
             /\ content'[p.gen][p.anchor][p.off]
             /\ Span(p.gen, p.anchor, 1, p.off) \subseteq before' \cup delivered'
      <3>. SUFFICES ASSUME ~blind, o > 0
                    PROVE  /\ Era(g) \in 1..Era(g) /\ o \in 1..Len(content[g][Era(g)])
                           /\ content[g][Era(g)][o]
                           /\ Span(g, Era(g), 1, o) \subseteq before' \cup delivered'
        BY <1>2, <1>3, <2>1
      <3>. QED
        BY <1>2, <1>4
    <2>. QED
      BY <1>3, <2>2, <2>3, <2>4 DEF Sound
  <1>10. Sound(ckpt)' /\ Sound(complete)'
    <2>1. ckpt' = p /\ complete' = p
      BY <1>2
    <2>. QED
      BY <1>9, <2>1 DEF Sound
  <1>11. NothingJumped'
    <2>. SUFFICES ASSUME ~blind PROVE Span(from'.gen, from'.anchor, 1, from'.off) \subseteq before'
      BY <1>2 DEF NothingJumped
    <2>1. CASE o = 0
      <3>1. 1..o = {}
        BY <2>1
      <3>. QED
        BY <1>2, <1>3, <3>1 DEF Span
    <2>2. CASE o > 0
      BY <1>2, <1>3, <2>2
    <2>. QED
      BY <2>1, <2>2
  <1>12. Read'
    <2>1. from'.gen..(cur' - 1) = {}
      BY <1>1, <1>2, <1>3
    <2>2. ReadOf(cur)' = {}
      BY <1>2 DEF ReadOf
    <2>3. (o + 1)..o = {}
      OBVIOUS
    <2>4. Span(cur, on, First(cur), off)' = {}
      BY <1>2, <1>6, <2>3 DEF Span, First
    <2>5. partial' = {x \in delivered' \cup partial' : After(complete', x)}
      BY <1>2
    <2>. QED
      BY <2>1, <2>2, <2>4, <2>5 DEF Read
  <1>. QED
    BY <1>5, <1>7, <1>8, <1>10, <1>11, <1>12 DEF DataInv

LEMMA DataRestarts ==
    ASSUME SourceInv, DiscoveryInv, FollowInv, DataInv, Restart
    PROVE  DataInv'
  <1>. PICK n, p : n = KeptName /\ p = ckpt
    OBVIOUS
  <1>1. /\ n \in Name /\ OpenAt(n, p.off) /\ Contiguous(n)
        /\ dir[n] = p.gen /\ found[n] = p.gen /\ ckpt' = p /\ pc = "start"
    BY RestartIs
  <1>2. p \in Pos /\ p.off \in Nat /\ p.gen \in Generations /\ p.anchor \in Nat
    BY DEF FollowInv, FollowOK, Placed, Pos
  <1>3. ~TooShort /\ SameContent
    BY DEF Restart
  <1>4. Sound(p)
    BY DEF DataInv
  <1>5. p = At(p.gen, p.off)
    <2>1. p = [gen |-> p.gen, off |-> p.off, anchor |-> p.anchor]
      BY <1>2 DEF Pos
    <2>2. p.anchor = (IF p.off = 0 THEN 0 ELSE Era(p.gen))
      BY <1>2, <1>3, <1>4 DEF SameContent, SameAnchor, Sound
    <2>. QED
      BY <2>1, <2>2 DEF At
  <1>6. p.off <= SizeOf(p.gen)
    BY <1>2, <1>3, SourceType DEF TooShort, SourceInv
  <1>7. ASSUME ~blind, p.off > 0
        PROVE  /\ content[p.gen][Era(p.gen)][p.off]
               /\ Span(p.gen, Era(p.gen), 1, p.off) \subseteq before \cup delivered
    <2>1. p.anchor = Era(p.gen)
      BY <1>3, <1>7 DEF SameContent, SameAnchor
    <2>. QED
      BY <1>4, <1>7, <2>1 DEF Sound
  <1>. QED
    BY <1>1, <1>2, <1>5, <1>6, <1>7, DataOpened

LEMMA DataRecovers ==
    ASSUME SourceInv, DiscoveryInv, FollowInv, DataInv, Recover
    PROVE  DataInv'
  <1>. PICK n : n = Oldest
    OBVIOUS
  <1>. PICK p : p = At(dir[n], 0)
    OBVIOUS
  <1>1. /\ n \in Name /\ OpenAt(n, 0) /\ Contiguous(n) /\ dir[n] = found[n] /\ ckpt' = p
    BY RecoverIs
  <1>2. dir[n] \in Generations
    BY <1>1, QueueMade
  <1>3. p \in Pos /\ 0 <= SizeOf(dir[n])
    BY <1>2, PlaceAt, SourceType DEF SourceInv
  <1>. QED
    BY <1>1, <1>3, DataOpened

LEMMA SpanJoins ==
    ASSUME NEW g, NEW e, NEW i \in Nat, NEW j \in Nat, NEW m \in Nat, i <= j + 1, j <= m
    PROVE  Span(g, e, i, j) \cup Span(g, e, j + 1, m) = Span(g, e, i, m)
  <1>1. i..j \cup (j + 1)..m = i..m
    OBVIOUS
  <1>2. Span(g, e, i, j) \cup Span(g, e, j + 1, m) = {<<g, e, k>> : k \in i..j \cup (j + 1)..m}
    BY DEF Span
  <1>. QED
    BY <1>1, <1>2 DEF Span

\* What is read next joins what was read of the generation, in one era.
LEMMA ReadJoins ==
    ASSUME SourceInv, FollowInv, DataInv, Active, ~blind,
           NEW e, NEW m \in Nat, off <= m, off = 0 \/ on = e
    PROVE  /\ ReadOf(cur) \cup Span(cur, e, off + 1, m) = Span(cur, e, First(cur), m)
           /\ First(cur) \in Nat \ {0} /\ First(cur) <= off + 1
  <1>1. First(cur) \in Nat \ {0} /\ First(cur) <= off + 1 /\ off \in Nat
    BY StateTypes DEF DataInv, Bounds, First
  <1>2. ReadOf(cur) = Span(cur, on, First(cur), off)
    BY DEF DataInv, Read
  <1>3. CASE on = e
    BY <1>1, <1>2, <1>3, SpanJoins
  <1>4. CASE on # e
    <2>1. off = 0 /\ First(cur) = 1
      BY <1>1, <1>4
    <2>2. Span(cur, on, First(cur), off) = {}
      BY <2>1 DEF Span
    <2>. QED
      BY <2>1, <2>2, <1>2
  <1>. QED
    BY <1>1, <1>3, <1>4

LEMMA SoundStays ==
    ASSUME NEW p, Sound(p), UNCHANGED <<source, from>>, blind => blind',
           before \cup delivered \subseteq before' \cup delivered'
    PROVE  Sound(p)'
  BY DEF Sound, Closed, Era, SizeOf, Lines, First, Newest, source

\* A line is handed over, up to the offset end in the era e.
LEMMA LineRead ==
    ASSUME SourceInv, FollowInv, DataInv, pc = "read", pc' = "read",
           UNCHANGED <<source, cur, ckpt, from, before, mark>>,
           NEW e \in 1..Era(cur), NEW end \in Nat, NEW U,
           on' = e, off' = end, off < end, end <= buf', buf' \in Nat,
           buf' <= Len(content[cur][e]), content[cur][e][end],
           complete' = At(cur, end), partial' = {}, delivered' = delivered \cup partial \cup U,
           \A x \in U : x[1] = cur,
           blind => blind',
           ~blind' => e = Era(cur) /\ U = Span(cur, e, off + 1, end) /\ (off = 0 \/ on = e)
    PROVE  DataInv'
  <1>1. /\ cur \in Generations /\ cur \in Nat \ {0} /\ off \in Nat /\ from.gen \in Nat
        /\ from.off \in Nat /\ Generations = 1..Newest /\ Newest \in Nat
    BY StateTypes
  <1>2. Active /\ Active'
    BY DEF Active
  <1>3. MarkInv'
    BY <1>2 DEF DataInv, MarkInv, Size, SizeOf, Lines, Era, source
  <1>4. Bounds
    BY DEF DataInv
  <1>5. complete'.gen = cur /\ complete'.off = end /\ (end # 0 => complete'.anchor = Era(cur))
    BY <1>1, PlaceAt
  <1>6. delivered' \cup partial' = delivered \cup partial \cup U
    OBVIOUS
  <1>7. ASSUME ~blind', cur = from.gen, from.off > 0
        PROVE  e = from.anchor
    BY <1>1, <1>2, <1>4, <1>7 DEF Bounds
  <1>8. Bounds'
    <2>1. buf' <= Len(content'[cur'][on']) /\ from'.gen \in Generations'
      BY <1>4, SourceKept DEF Bounds, source
    <2>2. \A x \in delivered' \cup partial' : x[1] \in from'.gen..cur'
      <3>1. from.gen <= cur /\ \A x \in delivered \cup partial : x[1] \in from.gen..cur
        BY <1>2, <1>4 DEF Bounds
      <3>. QED
        BY <3>1, <1>1, <1>6
    <2>3. cur' = from'.gen => from'.off <= off'
      BY <1>1, <1>2, <1>4 DEF Bounds
    <2>4. cur' > from'.gen => writing' >= cur'
      BY <1>2, <1>4 DEF Bounds, source
    <2>5. cur' = from'.gen /\ from'.off > 0 /\ ~blind' => on' = from'.anchor
      BY <1>7
    <2>6. from'.gen <= cur' /\ complete'.gen = cur' /\ complete'.off <= off'
      BY <1>2, <1>4, <1>5 DEF Bounds
    <2>. QED
      BY <1>2, <2>1, <2>2, <2>3, <2>4, <2>5, <2>6 DEF Bounds
  <1>9. Unended'
    <2>1. content'[cur'][on'][off']
      BY DEF source
    <2>. QED
      BY <2>1 DEF Unended
  <1>10. Sound(ckpt)'
    <2>. PICK p : p = ckpt
      OBVIOUS
    <2>1. Sound(p) /\ p = ckpt'
      BY DEF DataInv
    <2>2. before \cup delivered \subseteq before' \cup delivered'
      OBVIOUS
    <2>3. Sound(p)'
      BY <2>1, <2>2, SoundStays
    <2>. QED
      BY <2>1, <2>3
  <1>11. ASSUME ~blind'
         PROVE  ReadOf(cur)' = Span(cur, e, First(cur), end) /\ First(cur) \in Nat \ {0}
    <2>1. ~blind /\ U = Span(cur, e, off + 1, end) /\ (off = 0 \/ on = e)
      BY <1>11
    <2>2. ReadOf(cur) \cup U = Span(cur, e, First(cur), end) /\ First(cur) \in Nat \ {0}
      BY <1>1, <1>2, <2>1, ReadJoins
    <2>3. ReadOf(cur)' = ReadOf(cur) \cup U
      BY <1>6 DEF ReadOf
    <2>. QED
      BY <2>2, <2>3
  <1>12. ASSUME ~blind'
         PROVE  Span(cur, e, 1, end) \subseteq before' \cup delivered'
    <2>1. Span(cur, e, First(cur), end) \subseteq delivered'
      <3>1. ReadOf(cur)' \subseteq delivered'
        BY DEF ReadOf
      <3>. QED
        BY <3>1, <1>11, <1>12
    <2>2. ASSUME NEW k \in 1..end
          PROVE  <<cur, e, k>> \in before' \cup delivered'
      <3>1. CASE k \in First(cur)..end
        BY <2>1, <3>1, InSpan
      <3>2. CASE k \notin First(cur)..end
        <4>1. First(cur) # 1 /\ k < First(cur)
          BY <3>2, <1>11, <1>12
        <4>2. cur = from.gen /\ k \in 1..from.off /\ from.off > 0
          BY <4>1, <1>1 DEF First
        <4>3. e = from.anchor
          BY <4>2, <1>7, <1>12
        <4>4. Span(from.gen, from.anchor, 1, from.off) \subseteq before
          BY <1>12 DEF DataInv, NothingJumped
        <4>. QED
          BY <4>2, <4>3, <4>4, InSpan
      <3>. QED
        BY <3>1, <3>2
    <2>. QED
      BY <2>2 DEF Span
  <1>13. Sound(complete)'
    <2>1. complete'.gen \in from'.gen..Newest'
      BY <1>1, <1>2, <1>4, <1>5, SourceKept DEF Bounds
    <2>2. complete'.off # 0
      BY <1>1, <1>5
    <2>3. ASSUME ~blind'
          PROVE  /\ complete'.anchor \in 1..Era(complete.gen)'
                 /\ complete'.off \in 1..Len(content'[complete'.gen][complete'.anchor])
                 /\ content'[complete'.gen][complete'.anchor][complete'.off]
                 /\ Span(complete'.gen, complete'.anchor, 1, complete'.off) \subseteq before' \cup delivered'
      <3>1. e = Era(cur) /\ complete'.anchor = e /\ complete'.gen = cur /\ complete'.off = end
        BY <1>1, <1>5, <2>3
      <3>2. Era(complete.gen)' = Era(cur) /\ content' = content
        BY <1>5 DEF Era, source
      <3>3. end \in 1..Len(content[cur][e])
        <4>1. Len(content[cur][e]) \in Nat
          BY <1>1, SourceType DEF SourceInv
        <4>. QED
          BY <4>1, <1>1
      <3>4. Span(cur, e, 1, end) \subseteq before' \cup delivered'
        BY <1>12, <2>3
      <3>. QED
        BY <3>1, <3>2, <3>3, <3>4
    <2>. QED
      BY <2>1, <2>2, <2>3 DEF Sound
  <1>14. NothingJumped'
    BY DEF DataInv, NothingJumped
  <1>15. Read'
    <2>. SUFFICES ASSUME ~blind'
                  PROVE  /\ \A g \in from.gen..(cur - 1) : ReadWhole(g)'
                         /\ ReadOf(cur)' = Span(cur, e, First(cur), end)
                         /\ {} = {x \in delivered' \cup partial' : After(complete', x)}
      BY DEF Read, First, ReadOf
    <2>1. ASSUME NEW g \in from.gen..(cur - 1)
          PROVE  ReadWhole(g)'
      <3>1. ReadWhole(g)
        BY <1>2 DEF DataInv, Read
      <3>2. ReadOf(g)' = ReadOf(g)
        <4>1. g # cur
          BY <1>1
        <4>. QED
          BY <4>1, <1>6 DEF ReadOf
      <3>. QED
        BY <3>1, <3>2 DEF ReadWhole, First, Era, SizeOf, Lines, source
    <2>2. ASSUME NEW x \in delivered' \cup partial'
          PROVE  ~After(complete', x)
      <3>1. x[1] \in from.gen..cur
        BY <1>2, <1>8, <2>2 DEF Bounds
      <3>2. x[1] = cur => x[3] \in First(cur)..end
        <4>1. x[1] = cur => x \in ReadOf(cur)'
          BY <2>2 DEF ReadOf
        <4>. QED
          BY <4>1, <1>11, InSpan
      <3>. QED
        BY <3>1, <3>2, <1>1, <1>5, <1>11 DEF After
    <2>. QED
      BY <2>1, <2>2, <1>11
  <1>. QED
    BY <1>3, <1>8, <1>9, <1>10, <1>13, <1>14, <1>15 DEF DataInv

LEMMA DataReadsBuffered ==
    ASSUME SourceInv, FollowInv, DataInv, ReadBuffered
    PROVE  DataInv'
  <1>. PICK end, e, U : end = Min(BufferedEnds) /\ e = on /\ U = UpTo(end)
    OBVIOUS
  <1>1. /\ pc = "read" /\ pc' = pc /\ UNCHANGED <<source, cur, ckpt, from, before, mark>>
        /\ on' = e /\ off' = end /\ buf' = buf /\ complete' = At(cur, end) /\ partial' = {}
        /\ delivered' = delivered \cup partial \cup U
        /\ blind' = (blind \/ on # Era(cur))
        /\ BufferedEnds # {} /\ end <= Size
    BY DEF ReadBuffered, switching
  <1>2. /\ cur \in Generations /\ e \in 1..Era(cur) /\ off \in Nat /\ buf \in Nat /\ off <= buf
    BY ReadTypes
  <1>3. end \in (off + 1)..buf /\ content[cur][e][end] /\ end \in Nat
    BY <1>1, <1>2, BufferedEnd
  <1>4. buf' <= Len(content[cur][e])
    BY <1>1 DEF DataInv, Bounds
  <1>5. \A x \in U : x[1] = cur
    BY InSpan DEF UpTo, Buffered, Behind
  <1>6. ASSUME ~blind'
        PROVE  e = Era(cur) /\ U = Span(cur, e, off + 1, end)
    <2>1. e = Era(cur)
      BY <1>1, <1>6
    <2>2. ASSUME NEW x \in U
          PROVE  x \in Span(cur, e, off + 1, end)
      <3>1. x[3] <= end /\ (x \in Buffered \/ x \in Behind)
        BY <2>2 DEF UpTo
      <3>2. CASE x \in Buffered
        <4>1. x[3] \in (off + 1)..buf /\ x = <<cur, e, x[3]>>
          BY <3>2, InSpan DEF Buffered
        <4>2. x[3] \in (off + 1)..end
          BY <4>1, <3>1, <1>2, <1>3
        <4>. QED
          BY <4>1, <4>2, InSpan
      <3>3. CASE x \in Behind
        <4>1. x[3] \in (buf + 1)..Size
          BY <3>3, InSpan DEF Behind
        <4>. QED
          BY <4>1, <3>1, <1>2, <1>3, ReadTypes
      <3>. QED
        BY <3>1, <3>2, <3>3
    <2>3. ASSUME NEW k \in (off + 1)..end
          PROVE  <<cur, e, k>> \in U
      <3>1. k \in (off + 1)..buf
        BY <1>2, <1>3
      <3>2. <<cur, e, k>> \in Buffered
        BY <3>1, InSpan DEF Buffered
      <3>. QED
        BY <3>2, <1>2, <1>3 DEF UpTo
    <2>. QED
      BY <2>1, <2>2, <2>3 DEF Span
  <1>7. off < end /\ end <= buf' /\ buf' \in Nat /\ pc' = "read"
    BY <1>1, <1>2, <1>3
  <1>8. blind => blind'
    BY <1>1, Zenon
  <1>. QED
    BY <1>1, <1>2, <1>3, <1>4, <1>5, <1>6, <1>7, <1>8, LineRead

LEMMA FillIs ==
    ASSUME SourceInv, FollowInv, DataInv, Fill
    PROVE  /\ buf' = (IF buf < Size THEN Size ELSE buf) /\ buf' \in Nat /\ off <= buf' /\ buf <= buf'
           /\ Size <= buf'
           /\ on' = (IF buf < Size THEN Era(cur) ELSE on) /\ on' \in 1..Era(cur)
           /\ buf' <= Len(content[cur][on'])
           /\ blind => blind'
           /\ ~blind' => off = 0 \/ on = on'
           /\ ~blind' /\ buf < Size /\ on # on' => buf = 0
  <1>1. /\ cur \in Generations /\ on \in 1..Era(cur) /\ off \in Nat /\ buf \in Nat /\ off <= buf
        /\ Size \in Nat /\ Size = Len(content[cur][Era(cur)]) /\ Era(cur) \in 1..Era(cur)
    BY ReadTypes
  <1>2. buf' = (IF buf < Size THEN Size ELSE buf) /\ on' = (IF buf < Size THEN Era(cur) ELSE on)
    BY <1>1, GreaterOf DEF Fill
  <1>3. blind' = (blind \/ (0 < buf /\ buf < Size /\ on # Era(cur)))
    BY DEF Fill
  <1>4. buf <= Len(content[cur][on])
    BY DEF DataInv, Bounds
  <1>5. on' \in 1..Era(cur)
    BY <1>1, <1>2
  <1>6. buf' <= Len(content[cur][on'])
    <2>1. CASE buf < Size
      BY <1>1, <1>2, <2>1
    <2>2. CASE ~(buf < Size)
      BY <1>2, <1>4, <2>2
    <2>. QED
      BY <2>1, <2>2
  <1>7. ASSUME ~blind', buf < Size, on # on'
        PROVE  buf = 0
    <2>1. ~(0 < buf /\ buf < Size /\ on # Era(cur))
      BY <1>3, <1>7, Zenon
    <2>2. on # Era(cur)
      BY <1>2, <1>7
    <2>. QED
      BY <1>1, <1>7, <2>1, <2>2
  <1>8. ~blind' => off = 0 \/ on = on'
    BY <1>1, <1>2, <1>7
  <1>9. blind => blind'
    BY <1>3
  <1>. QED
    BY <1>1, <1>2, <1>5, <1>6, <1>7, <1>8, <1>9

LEMMA DataReadsFilled ==
    ASSUME SourceInv, FollowInv, DataInv, ReadFilled
    PROVE  DataInv'
  <1>. PICK end, e, U : end = Min(BehindEnds) /\ e = Era(cur) /\ U = UpTo(end)
    OBVIOUS
  <1>1. /\ pc = "read" /\ pc' = pc /\ UNCHANGED <<source, cur, ckpt, from, before, mark>>
        /\ off' = end /\ complete' = At(cur, end) /\ partial' = {}
        /\ delivered' = delivered \cup partial \cup U
        /\ BehindEnds # {} /\ Fill
    BY DEF ReadFilled, switching
  <1>2. /\ cur \in Generations /\ e \in 1..Era(cur) /\ off \in Nat /\ buf \in Nat /\ off <= buf
        /\ Size \in Nat
    BY ReadTypes
  <1>3. end \in (buf + 1)..Size /\ content[cur][e][end] /\ end \in Nat /\ buf < Size
    BY <1>1, <1>2, BehindEnd
  <1>4. /\ on' = e /\ buf' = Size /\ buf' <= Len(content[cur][e]) /\ (blind => blind')
        /\ ~blind' => off = 0 \/ on = e
        /\ ~blind' /\ on # e => buf = 0
    BY <1>1, <1>3, FillIs
  <1>5. \A x \in U : x[1] = cur
    BY InSpan DEF UpTo, Buffered, Behind
  <1>6. ASSUME ~blind'
        PROVE  U = Span(cur, e, off + 1, end)
    <2>1. on = e \/ buf = 0
      BY <1>4, <1>6
    <2>2. ASSUME NEW x \in U
          PROVE  x \in Span(cur, e, off + 1, end)
      <3>1. x[3] <= end /\ (x \in Buffered \/ x \in Behind)
        BY <2>2 DEF UpTo
      <3>2. CASE x \in Buffered
        <4>1. x[3] \in (off + 1)..buf /\ x = <<cur, on, x[3]>>
          BY <3>2, InSpan DEF Buffered
        <4>2. x[3] \in (off + 1)..end /\ on = e
          BY <4>1, <2>1, <1>2, <1>3
        <4>. QED
          BY <4>1, <4>2, InSpan
      <3>3. CASE x \in Behind
        <4>1. x[3] \in (buf + 1)..Size /\ x = <<cur, e, x[3]>>
          BY <3>3, InSpan DEF Behind
        <4>2. x[3] \in (off + 1)..end
          BY <4>1, <3>1, <1>2, <1>3
        <4>. QED
          BY <4>1, <4>2, InSpan
      <3>. QED
        BY <3>1, <3>2, <3>3
    <2>3. ASSUME NEW k \in (off + 1)..end
          PROVE  <<cur, e, k>> \in U
      <3>1. CASE k <= buf
        <4>1. k \in (off + 1)..buf /\ on = e
          BY <1>2, <2>1, <3>1
        <4>2. <<cur, e, k>> \in Buffered
          BY <4>1, InSpan DEF Buffered
        <4>. QED
          BY <4>2, <1>2, <1>3 DEF UpTo
      <3>2. CASE ~(k <= buf)
        <4>1. k \in (buf + 1)..Size
          BY <1>2, <1>3, <3>2
        <4>2. <<cur, e, k>> \in Behind
          BY <4>1, InSpan DEF Behind
        <4>. QED
          BY <4>2, <1>2, <1>3 DEF UpTo
      <3>. QED
        BY <3>1, <3>2
    <2>. QED
      BY <2>2, <2>3 DEF Span
  <1>7. off < end /\ end <= buf' /\ buf' \in Nat /\ pc' = "read"
    BY <1>1, <1>2, <1>3, <1>4
  <1>. QED
    BY <1>1, <1>2, <1>3, <1>4, <1>5, <1>6, <1>7, LineRead

\* At end of file the rest of the file joins the unfinished line.
LEMMA RestIs ==
    ASSUME SourceInv, FollowInv, DataInv, Fill, BehindEnds = {}
    PROVE  /\ \A x \in Buffered \cup Behind :
                 /\ x[1] = cur /\ x[2] \in 1..Era(cur) /\ x[3] > off
                 /\ x[3] \in 1..Len(content[cur][x[2]]) /\ ~content[cur][x[2]][x[3]]
           /\ Buffered \cup Behind = {} => buf' = off /\ on' = on
           /\ ~blind' => Buffered \cup Behind = Span(cur, on', off + 1, buf')
  <1>1. /\ cur \in Generations /\ on \in 1..Era(cur) /\ off \in Nat /\ buf \in Nat /\ off <= buf
        /\ Size \in Nat /\ Size = Len(content[cur][Era(cur)]) /\ Era(cur) \in 1..Era(cur)
    BY ReadTypes
  <1>2. /\ buf' = (IF buf < Size THEN Size ELSE buf)
        /\ on' = (IF buf < Size THEN Era(cur) ELSE on)
    BY FillIs
  <1>3. buf <= Len(content[cur][on]) /\ Len(content[cur][on]) \in Nat
    BY <1>1, SourceType DEF DataInv, Bounds, SourceInv
  <1>4. ASSUME NEW x \in Buffered
        PROVE  /\ x[1] = cur /\ x[2] = on /\ x[3] > off
               /\ x[3] \in 1..Len(content[cur][on]) /\ ~content[cur][on][x[3]]
    <2>1. x[1] = cur /\ x[2] = on /\ x[3] \in (off + 1)..buf
      BY InSpan DEF Buffered
    <2>2. ~content[cur][on][x[3]]
      BY <2>1 DEF Fill, BufferedEnds, EndsIn
    <2>. QED
      BY <2>1, <2>2, <1>1, <1>3
  <1>5. ASSUME NEW x \in Behind
        PROVE  /\ x[1] = cur /\ x[2] = Era(cur) /\ x[3] > off
               /\ x[3] \in 1..Len(content[cur][Era(cur)]) /\ ~content[cur][Era(cur)][x[3]]
    <2>1. x[1] = cur /\ x[2] = Era(cur) /\ x[3] \in (buf + 1)..Size
      BY InSpan DEF Behind
    <2>2. ~content[cur][Era(cur)][x[3]]
      BY <2>1 DEF BehindEnds, EndsIn
    <2>. QED
      BY <2>1, <2>2, <1>1
  <1>6. ASSUME Buffered \cup Behind = {}
        PROVE  buf' = off /\ on' = on
    <2>1. off = buf
      <3>1. off < buf => off + 1 \in (off + 1)..buf
        BY <1>1
      <3>2. ~(off + 1 \in (off + 1)..buf)
        BY <1>6 DEF Buffered, Span
      <3>. QED
        BY <3>1, <3>2, <1>1
    <2>2. ~(buf < Size)
      <3>1. buf < Size => buf + 1 \in (buf + 1)..Size
        BY <1>1
      <3>2. ~(buf + 1 \in (buf + 1)..Size)
        BY <1>6 DEF Behind, Span
      <3>. QED
        BY <3>1, <3>2
    <2>. QED
      BY <2>1, <2>2, <1>2
  <1>7. ASSUME ~blind'
        PROVE  Buffered \cup Behind = Span(cur, on', off + 1, buf')
    <2>1. CASE ~(buf < Size)
      <3>1. (buf + 1)..Size = {}
        BY <1>1, <2>1
      <3>2. Behind = {}
        BY <3>1 DEF Behind, Span
      <3>. QED
        BY <3>2, <1>2, <2>1 DEF Buffered
    <2>2. CASE buf < Size /\ on = Era(cur)
      <3>. PICK i, j, m : i = off + 1 /\ j = buf /\ m = Size
        OBVIOUS
      <3>1. i \in Nat /\ j \in Nat /\ m \in Nat /\ i <= j + 1 /\ j <= m
        BY <1>1, <2>2
      <3>2. Span(cur, on, i, j) \cup Span(cur, on, j + 1, m) = Span(cur, on, i, m)
        BY <3>1, SpanJoins
      <3>. QED
        BY <3>2, <1>2, <2>2 DEF Buffered, Behind
    <2>3. CASE buf < Size /\ on # Era(cur)
      <3>1. buf = 0 /\ off = 0
        BY <1>1, <1>2, <1>7, <2>3, FillIs
      <3>2. (off + 1)..buf = {}
        BY <3>1
      <3>3. Buffered = {}
        BY <3>2 DEF Buffered, Span
      <3>. QED
        BY <3>1, <3>3, <1>2, <2>3 DEF Behind
    <2>. QED
      BY <2>1, <2>2, <2>3
  <1>8. ASSUME NEW x \in Buffered \cup Behind
        PROVE  /\ x[1] = cur /\ x[2] \in 1..Era(cur) /\ x[3] > off
               /\ x[3] \in 1..Len(content[cur][x[2]]) /\ ~content[cur][x[2]][x[3]]
    BY <1>1, <1>4, <1>5
  <1>. QED
    BY <1>6, <1>7, <1>8

LEMMA DataReadsToEnd ==
    ASSUME SourceInv, FollowInv, DataInv, ReadToEnd
    PROVE  DataInv'
  <1>. PICK U : U = Buffered \cup Behind
    OBVIOUS
  <1>1. /\ pc = "read" /\ pc' \in {"stat", "refresh", "await"}
        /\ UNCHANGED <<source, cur, complete, mark, ckpt, from, delivered, before>>
        /\ partial' = partial \cup U /\ off' = buf' /\ Fill /\ BehindEnds = {}
    BY DEF ReadToEnd, switching
  <1>2. Active /\ Active'
    BY <1>1 DEF Active
  <1>3. /\ cur \in Generations /\ cur \in Nat /\ off \in Nat /\ from.gen \in Nat
        /\ from.off \in Nat /\ Size \in Nat /\ complete.gen \in Nat /\ complete.off \in Nat
        /\ Era(cur) \in Nat \ {0} /\ (mark # << >> => mark[2] \in Nat)
    BY StateTypes, ReadTypes DEF Pos
  <1>4. /\ buf' \in Nat /\ off <= buf' /\ Size <= buf' /\ on' \in 1..Era(cur)
        /\ buf' <= Len(content[cur][on'])
        /\ (~blind' => off = 0 \/ on = on')
    BY <1>1, FillIs
  <1>5. blind => blind'
    BY <1>1, FillIs, Zenon
  <1>6. /\ \A x \in U :
              /\ x[1] = cur /\ x[2] \in 1..Era(cur) /\ x[3] > off
              /\ x[3] \in 1..Len(content[cur][x[2]]) /\ ~content[cur][x[2]][x[3]]
        /\ U = {} => buf' = off /\ on' = on
        /\ ~blind' => U = Span(cur, on', off + 1, buf')
    BY <1>1, RestIs
  <1>7. Era(cur)' = Era(cur) /\ Size' = Size /\ content' = content /\ First(cur)' = First(cur)
        /\ \A g : Era(g)' = Era(g) /\ SizeOf(g)' = SizeOf(g) /\ First(g)' = First(g)
    BY <1>1 DEF Era, Size, SizeOf, Lines, First, source
  <1>8. MarkInv'
    <2>1. mark # << >> =>
             /\ mark[3] \in 1..Era(cur)
             /\ mark[3] = Era(cur) => mark[2] <= Size
      BY DEF DataInv, MarkInv
    <2>. QED
      BY <2>1, <1>1, <1>2, <1>3, <1>4, <1>7 DEF MarkInv
  <1>9. Bounds'
    <2>. USE <1>2 DEF DataInv, Bounds
    <2>1. buf' <= Len(content'[cur'][on']) /\ from'.gen \in Generations'
      BY <1>1, <1>4, SourceKept DEF source
    <2>2. /\ from'.gen <= cur' /\ (cur' > from'.gen => writing' >= cur')
          /\ (cur' = from'.gen => from'.off <= off')
          /\ (complete'.gen < cur' \/ (complete'.gen = cur' /\ complete'.off <= off'))
      BY <1>1, <1>3, <1>4 DEF source
    <2>3. \A x \in delivered' \cup partial' : x[1] \in from'.gen..cur'
      BY <1>1, <1>3, <1>6
    <2>4. ASSUME cur' = from'.gen, from'.off > 0, ~blind'
          PROVE  on' = from'.anchor
      <3>1. off > 0
        BY <1>1, <1>3, <2>4
      <3>. QED
        BY <3>1, <1>1, <1>4, <1>5, <2>4
    <2>. QED
      BY <2>1, <2>2, <2>3, <2>4
  <1>10. Unended'
    <2>1. ASSUME NEW x \in partial'
          PROVE  /\ x[1] \in Generations' /\ x[2] \in 1..Era(x[1])'
                 /\ x[3] \in 1..Len(content'[x[1]][x[2]]) /\ ~EndsLine(x)'
      <3>1. CASE x \in partial
        BY <3>1, <1>7, SourceKept, <1>1 DEF DataInv, Unended, EndsLine
      <3>2. CASE x \in U
        BY <3>2, <1>1, <1>3, <1>6, <1>7, SourceKept DEF EndsLine
      <3>. QED
        BY <3>1, <3>2, <1>1
    <2>2. ASSUME partial' = {}, off' >= First(cur)'
          PROVE  content'[cur'][on'][off']
      <3>1. partial = {} /\ U = {} /\ off' = off /\ on' = on
        BY <2>2, <1>1, <1>6
      <3>2. content[cur][on][off]
        BY <3>1, <2>2, <1>2, <1>7 DEF DataInv, Unended
      <3>. QED
        BY <3>1, <3>2, <1>1, <1>7
    <2>. QED
      BY <2>1, <2>2, <1>1 DEF Unended, First
  <1>11. before \cup delivered \subseteq before' \cup delivered'
    BY <1>1
  <1>12. Sound(ckpt)'
    <2>. PICK p : p = ckpt
      OBVIOUS
    <2>1. Sound(p) /\ p = ckpt'
      BY <1>1 DEF DataInv
    <2>2. Sound(p)'
      BY <2>1, <1>1, <1>5, <1>11, SoundStays
    <2>. QED
      BY <2>1, <2>2
  <1>13. Sound(complete)'
    <2>. PICK p : p = complete
      OBVIOUS
    <2>1. Sound(p) /\ p = complete'
      BY <1>1, <1>2 DEF DataInv
    <2>2. Sound(p)'
      BY <2>1, <1>1, <1>5, <1>11, SoundStays
    <2>. QED
      BY <2>1, <2>2
  <1>14. NothingJumped'
    BY <1>1, <1>5 DEF DataInv, NothingJumped
  <1>15. Read'
    <2>. SUFFICES ASSUME ~blind'
                  PROVE  /\ \A g \in from.gen..(cur - 1) : ReadWhole(g)'
                         /\ ReadOf(cur)' = Span(cur, on', First(cur), buf')
                         /\ partial' = {x \in delivered' \cup partial' : After(complete', x)}
      BY <1>1 DEF Read, First, ReadOf
    <2>1. ~blind /\ Read
      BY <1>5 DEF DataInv
    <2>2. \A g : ReadOf(g)' = ReadOf(g) \cup {x \in U : x[1] = g}
      BY <1>1 DEF ReadOf
    <2>3. ASSUME NEW g \in from.gen..(cur - 1)
          PROVE  ReadWhole(g)'
      <3>1. ReadWhole(g)
        BY <2>1, <1>2 DEF Read
      <3>2. ReadOf(g)' = ReadOf(g)
        <4>1. g # cur
          BY <1>3
        <4>2. {x \in U : x[1] = g} = {}
          BY <4>1, <1>6
        <4>. QED
          BY <2>2, <4>2
      <3>. QED
        BY <3>1, <3>2, <1>7 DEF ReadWhole
    <2>4. ReadOf(cur)' = Span(cur, on', First(cur), buf')
      <3>1. ReadOf(cur) \cup Span(cur, on', off + 1, buf') = Span(cur, on', First(cur), buf')
        BY <2>1, <1>2, <1>4, ReadJoins
      <3>2. {x \in U : x[1] = cur} = U
        BY <1>6
      <3>3. ReadOf(cur)' = ReadOf(cur) \cup {x \in U : x[1] = cur}
        BY <1>1 DEF ReadOf
      <3>. QED
        BY <3>1, <3>2, <3>3, <1>6
    <2>5. \A x \in U : After(complete, x)
      <3>1. complete.gen < cur \/ (complete.gen = cur /\ complete.off <= off)
        BY <1>2 DEF DataInv, Bounds
      <3>2. ASSUME NEW x \in U PROVE After(complete, x)
        <4>1. x[1] = cur /\ x[3] > off /\ x[3] \in Int
          BY <1>6
        <4>. QED
          BY <4>1, <3>1, <1>3 DEF After
      <3>. QED
        BY <3>2
    <2>6. partial = {x \in delivered \cup partial : After(complete, x)}
      BY <2>1, <1>2 DEF Read
    <2>. QED
      BY <2>3, <2>4, <2>5, <2>6, <1>1 DEF After
  <1>. QED
    BY <1>8, <1>9, <1>10, <1>12, <1>13, <1>14, <1>15 DEF DataInv

\* The old generation is left at its end, unless it was cut since it was
\* observed, and the writer holds a newer one.
LEMMA LeftAtEnd ==
    ASSUME SourceInv, FollowInv, DataInv, NEW n, Opens(n)
    PROVE  /\ queue # << >> /\ Active
           /\ writing > cur /\ mark # << >> /\ mark[3] \in 1..Era(cur)
           /\ mark[3] = Era(cur) => off = Size
  <1>1. pc \in {"drain", "find"} /\ queue # << >>
    BY DEF Opens, SwitchReady, Finds, FollowInv, Queued
  <1>2. off \in Nat /\ Size \in Nat /\ cur \in Nat /\ writing \in Nat /\ MarkInv
    BY StateTypes, ReadTypes DEF DataInv
  <1>3. CASE SwitchReady
    <2>1. mark # << >> /\ mark[2] = Size /\ off <= Size /\ writing # cur /\ pc = "drain"
      BY <1>2, <1>3 DEF SwitchReady, Still, Observed, DrainElapsed, Short
    <2>2. cur < Newest /\ writing \in {Newest, Newest - 1} /\ Newest \in Nat
      BY <1>1, FirstQueued, StateTypes DEF SourceInv, DirInv
    <2>3. writing > cur
      BY <2>1, <2>2, <1>2
    <2>4. mark[3] \in 1..Era(cur) /\ (mark[3] = Era(cur) => mark[2] <= off)
      BY <2>1, <1>2 DEF MarkInv
    <2>. QED
      BY <1>1, <1>2, <2>1, <2>3, <2>4 DEF Active
  <1>4. CASE Finds(n)
    <2>1. pc = "find"
      BY <1>4 DEF Finds
    <2>2. /\ writing > cur /\ mark # << >> /\ mark[3] \in 1..Era(cur)
          /\ mark[3] = Era(cur) => mark[2] = Size /\ off <= Size /\ mark[2] <= off
      BY <2>1, <1>2 DEF MarkInv
    <2>. QED
      BY <1>1, <1>2, <2>2 DEF Active
  <1>. QED
    BY <1>3, <1>4 DEF Opens

LEMMA DataSwitches ==
    ASSUME SourceInv, FollowInv, DataInv, NEW n \in Name, Switch(n)
    PROVE  DataInv'
  <1>1. /\ queue # << >> /\ Active
        /\ writing > cur /\ mark # << >> /\ mark[3] \in 1..Era(cur)
        /\ mark[3] = Era(cur) => off = Size
    BY LeftAtEnd DEF Switch
  <1>. PICK q : q = queue[1].gen
    OBVIOUS
  <1>2. /\ q = cur + 1 /\ q \in Generations /\ q \in Nat /\ cur \in Nat /\ cur \in Generations
        /\ q <= Newest /\ Newest \in Nat /\ writing \in Nat /\ from.gen \in Nat /\ off \in Nat
        /\ on \in 1..Era(cur) /\ Era(cur) \in Nat \ {0}
    <2>1. q = cur + 1 /\ q \in Generations
      BY <1>1, FirstQueued
    <2>2. /\ cur \in Nat /\ cur \in Generations /\ Generations = 1..Newest /\ Newest \in Nat
          /\ writing \in Nat /\ from.gen \in Nat /\ off \in Nat /\ on \in 1..Era(cur)
      BY StateTypes
    <2>3. Era(cur) \in Nat \ {0}
      BY ReadTypes
    <2>. QED
      BY <2>1, <2>2, <2>3
  <1>3. /\ cur' = q /\ off' = 0 /\ buf' = 0 /\ on' = Era(q) /\ mark' = << >> /\ pc' = "read"
        /\ UNCHANGED <<source, ckpt, from, delivered, before, partial>>
        /\ complete' = (IF partial = {} THEN At(q, 0) ELSE complete)
        /\ blind' = (blind \/ (mark # << >> /\ mark[3] # Era(cur)))
    BY DEF Switch, SwitchTo
  <1>4. Active'
    BY <1>3 DEF Active
  <1>5. blind => blind'
    BY <1>3, Zenon
  <1>6. ~blind' => mark[3] = Era(cur)
    BY <1>1, <1>3, Zenon
  <1>7. /\ content' = content /\ Generations' = Generations /\ Newest' = Newest
        /\ \A g : /\ Era(g)' = Era(g) /\ SizeOf(g)' = SizeOf(g) /\ First(g)' = First(g)
                  /\ ReadOf(g)' = ReadOf(g)
    BY <1>3 DEF Era, SizeOf, Lines, First, ReadOf, Generations, Newest, source
  <1>8. /\ from.gen <= cur /\ buf <= Len(content[cur][on])
        /\ complete.gen < cur \/ complete.gen = cur
        /\ \A x \in delivered \cup partial : x[1] \in from.gen..cur
    BY <1>1 DEF DataInv, Bounds
  <1>9. First(q) = 1 /\ At(q, 0).gen = q /\ At(q, 0).off = 0 /\ At(q, 0).anchor = 0
    BY <1>2, <1>8, PlaceAt DEF First
  <1>10. MarkInv'
    BY <1>3 DEF MarkInv
  <1>11. Bounds'
    <2>1. Era(q) \in 1..Era(q) /\ Len(content[q][Era(q)]) \in Nat
      <3>1. Era(q) \in Nat \ {0} /\ \A e \in 1..Era(q) : Len(content[q][e]) \in Nat
        BY <1>2, SourceType DEF SourceInv
      <3>2. Era(q) \in 1..Era(q)
        BY <3>1
      <3>. QED
        BY <3>1, <3>2
    <2>2. buf' <= Len(content'[cur'][on']) /\ from'.gen \in Generations'
      BY <2>1, <1>3, <1>7 DEF DataInv, Bounds
    <2>3. from'.gen < cur' /\ writing' >= cur'
      BY <1>1, <1>2, <1>3, <1>8 DEF source
    <2>4. complete'.gen < cur' \/ (complete'.gen = cur' /\ complete'.off <= off')
      <3>1. complete.gen \in Nat
        BY StateTypes DEF Pos
      <3>. QED
        BY <3>1, <1>2, <1>3, <1>8, <1>9
    <2>5. \A x \in delivered' \cup partial' : x[1] \in from'.gen..cur'
      BY <1>2, <1>3, <1>8
    <2>. QED
      BY <1>2, <1>3, <1>4, <2>2, <2>3, <2>4, <2>5 DEF Bounds
  <1>12. Unended'
    <2>1. \A x \in partial' : /\ x[1] \in Generations' /\ x[2] \in 1..Era(x[1])'
                              /\ x[3] \in 1..Len(content'[x[1]][x[2]]) /\ ~EndsLine(x)'
      BY <1>3, <1>7 DEF DataInv, Unended, EndsLine
    <2>2. ~(off' >= First(q))
      BY <1>3, <1>9
    <2>. QED
      BY <2>1, <2>2, <1>3, <1>7 DEF Unended, First
  <1>13. before \cup delivered \subseteq before' \cup delivered'
    BY <1>3
  <1>14. Sound(ckpt)'
    <2>. PICK p : p = ckpt
      OBVIOUS
    <2>1. Sound(p) /\ p = ckpt'
      BY <1>3 DEF DataInv
    <2>2. Sound(p)'
      BY <2>1, <1>3, <1>5, <1>13, SoundStays
    <2>. QED
      BY <2>1, <2>2
  <1>15. Sound(complete)'
    <2>1. CASE partial # {}
      <3>. PICK p : p = complete
        OBVIOUS
      <3>1. Sound(p) /\ p = complete'
        BY <2>1, <1>1, <1>3 DEF DataInv
      <3>2. Sound(p)'
        BY <3>1, <1>3, <1>5, <1>13, SoundStays
      <3>. QED
        BY <3>1, <3>2
    <2>2. CASE partial = {}
      <3>1. complete'.gen = q /\ complete'.off = 0 /\ complete'.anchor = 0
        BY <2>2, <1>3, <1>9
      <3>2. ASSUME Era(cur) = 1, SizeOf(cur) >= First(cur)
            PROVE  content[cur][1][SizeOf(cur)]
        <4>1. mark[3] = Era(cur) /\ on = 1
          BY <3>2, <1>1, <1>2
        <4>2. off = SizeOf(cur)
          BY <4>1, <1>1 DEF Size
        <4>3. content[cur][on][off]
          BY <4>2, <3>2, <2>2, <1>1 DEF DataInv, Unended
        <4>. QED
          BY <4>1, <4>2, <4>3
      <3>3. complete'.gen - 1 = cur
        BY <3>1, <1>2
      <3>4. Closed(cur)
        BY <3>2 DEF Closed
      <3>5. /\ complete'.gen \in from'.gen..Newest' /\ writing' >= complete'.gen
        BY <3>1, <1>1, <1>2, <1>3, <1>7, <1>8 DEF source
      <3>. PICK p, g : p = complete' /\ g = cur
        OBVIOUS
      <3>6. Closed(g)' /\ p.gen - 1 = g
        BY <3>3, <3>4, <1>7 DEF Closed
      <3>7. Sound(p)'
        BY <3>1, <3>5, <3>6 DEF Sound
      <3>. QED
        BY <3>7
    <2>. QED
      BY <2>1, <2>2
  <1>16. NothingJumped'
    BY <1>3, <1>5 DEF DataInv, NothingJumped
  <1>17. Read'
    <2>. SUFFICES ASSUME ~blind'
                  PROVE  /\ \A g \in from.gen..(q - 1) : ReadWhole(g)'
                         /\ ReadOf(q) = Span(q, Era(q), 1, 0)
                         /\ partial = {x \in delivered \cup partial : After(complete', x)}
      BY <1>3, <1>7, <1>9 DEF Read
    <2>1. ~blind /\ Read /\ off = Size
      BY <1>1, <1>5, <1>6 DEF DataInv
    <2>2. ASSUME NEW g \in from.gen..(q - 1)
          PROVE  ReadWhole(g)
      <3>1. CASE g # cur
        <4>1. g \in from.gen..(cur - 1)
          BY <3>1, <1>2
        <4>. QED
          BY <4>1, <2>1, <1>1 DEF Read
      <3>2. CASE g = cur
        <4>1. on \in DOMAIN content[cur]
          BY <1>2, SourceType DEF SourceInv
        <4>2. off \in 0..Len(content[cur][on])
          <5>1. off <= buf /\ buf \in Nat /\ Len(content[cur][on]) \in Nat
            BY <1>2, StateTypes, SourceType DEF SourceInv
          <5>. QED
            BY <5>1, <1>2, <1>8
        <4>3. ReadOf(cur) = Span(cur, on, First(cur), off)
          BY <2>1, <1>1 DEF Read
        <4>4. on = Era(cur) => off = SizeOf(cur)
          BY <2>1 DEF Size
        <4>. QED
          BY <3>2, <4>1, <4>2, <4>3, <4>4 DEF ReadWhole
      <3>. QED
        BY <3>1, <3>2
    <2>3. \A g \in from.gen..(q - 1) : ReadWhole(g)'
      BY <2>2, <1>7 DEF ReadWhole
    <2>4. ReadOf(q) = {} /\ Span(q, Era(q), 1, 0) = {}
      <3>1. \A x \in delivered \cup partial : x[1] # q
        BY <1>2, <1>8
      <3>. QED
        BY <3>1 DEF ReadOf, Span
    <2>5. CASE partial # {}
      <3>1. partial = {x \in delivered \cup partial : After(complete, x)}
        BY <2>1, <1>1 DEF Read
      <3>. QED
        BY <3>1, <2>5, <2>3, <2>4, <1>3
    <2>6. CASE partial = {}
      <3>1. \A x \in delivered : ~After(At(q, 0), x)
        BY <1>2, <1>8, <1>9 DEF After
      <3>. QED
        BY <3>1, <2>6, <2>3, <2>4, <1>3
    <2>. QED
      BY <2>5, <2>6
  <1>. QED
    BY <1>10, <1>11, <1>12, <1>14, <1>15, <1>16, <1>17 DEF DataInv

LEMMA DataStarts ==
    ASSUME Init
    PROVE  DataInv
  <1>1. /\ content = << << << >> >> >> /\ pc = "read" /\ cur = 1 /\ off = 0 /\ buf = 0
        /\ partial = {} /\ delivered = {} /\ before = {} /\ mark = << >> /\ on = 1
        /\ complete = At(1, 0) /\ ckpt = At(1, 0) /\ from = At(1, 0)
    BY DEF Init
  <1>2. At(1, 0) = [gen |-> 1, off |-> 0, anchor |-> 0] /\ Active
    BY <1>1 DEF At, Active
  <1>3. Newest = 1 /\ Generations = {1} /\ Len(content[1][1]) = 0
    <2>. PICK x : x = << << >> >>
      OBVIOUS
    <2>1. x[1] = << >> /\ Len(x[1]) = 0 /\ content = <<x>>
      BY <1>1
    <2>2. Len(content) = 1 /\ DOMAIN content = {1} /\ content[1] = x
      BY <2>1
    <2>. QED
      BY <2>1, <2>2 DEF Newest, Generations
  <1>4. First(1) = 1 /\ ReadOf(1) = {} /\ Span(1, 1, 1, 0) = {}
    BY <1>1, <1>2 DEF First, ReadOf, Span
  <1>5. MarkInv /\ Bounds /\ Unended
    <2>1. MarkInv
      BY <1>1 DEF MarkInv
    <2>2. Bounds
      BY <1>1, <1>2, <1>3 DEF Bounds
    <2>3. Unended
      BY <1>1, <1>4 DEF Unended
    <2>. QED
      BY <2>1, <2>2, <2>3
  <1>6. Sound(ckpt) /\ Sound(complete)
    BY <1>1, <1>2, <1>3 DEF Sound
  <1>7. NothingJumped
    BY <1>1, <1>2 DEF NothingJumped, Span
  <1>8. Read
    <2>1. from.gen = 1 /\ 1..(1 - 1) = {}
      BY <1>1, <1>2
    <2>. QED
      BY <2>1, <1>1, <1>4 DEF Read
  <1>. QED
    BY <1>5, <1>6, <1>7, <1>8 DEF DataInv

LEMMA DataNext ==
    ASSUME SourceInv, DiscoveryInv, FollowInv, DataInv, [Next]_vars
    PROVE  DataInv'
  <1>1. CASE UNCHANGED vars
    <2>1. UNCHANGED <<source, pc, reading, switching, ckpt, history>>
      BY <1>1 DEF vars
    <2>2. Active' = Active
      BY <2>1 DEF Active
    <2>3. MarkInv'
      BY <2>1, <2>2 DEF source, reading, switching, DataInv, MarkInv, Era, Size, SizeOf, Lines
    <2>. QED
      BY <2>1, <2>2, <2>3, DataSame DEF DataInv
  <1>2. CASE Next
    BY <1>2, Kinds, DataSourceSteps, DataDiscovers, DataLooks, DataReadsBuffered, DataReadsFilled,
       DataReadsToEnd, DataEnds, DataPersists, DataSwitches, DataRestarts, DataRecovers
  <1>. QED
    BY <1>1, <1>2

FollowerInv == SourceInv /\ DiscoveryInv /\ FollowInv /\ DataInv

LEMMA FollowerInvariant == Spec => []FollowerInv
  <1>1. Init => FollowerInv
    BY StartsWell, DataStarts DEF FollowerInv
  <1>2. FollowerInv /\ [Next]_vars => FollowerInv'
    BY SourceNext, DiscoveryNext, FollowNext, DataNext DEF FollowerInv
  <1>. QED
    BY <1>1, <1>2, PTL DEF Spec

\* Nothing is skipped and nothing is read twice between gaps, however renames,
\* late writes, partial lines, truncations and restarts interleave with Next
\* and switchTo, for any number of rotations, generations and pieces.
THEOREM ReadsWithoutHole == Spec => []NothingSkipped
  <1>1. FollowerInv => NothingSkipped
    BY DEF FollowerInv, DataInv, Read, ReadWhole, Active, NothingSkipped
  <1>. QED
    BY <1>1, FollowerInvariant, PTL

\* A process begins only behind content that a process has handed over: what
\* the anchor comparison of OpenRotatingFollower is for.
THEOREM NeverJumpsAhead == Spec => []NothingJumped
  <1>1. FollowerInv => NothingJumped
    BY DEF FollowerInv, DataInv
  <1>. QED
    BY <1>1, FollowerInvariant, PTL

\* CompletePosition, once on disk, is behind a whole line, across switchTo and
\* transferPartialTo too.
THEOREM PositionsAreBoundaries == Spec => []PositionIsBoundary
  <1>1. ASSUME FollowerInv
        PROVE  PositionIsBoundary
    <2>1. Unended /\ Sound(ckpt)
      BY <1>1 DEF FollowerInv, DataInv
    <2>2. \A x \in partial : ~EndsLine(x)
      BY <2>1 DEF Unended
    <2>3. ~blind /\ ckpt.off > 0 => EndsLine(<<ckpt.gen, ckpt.anchor, ckpt.off>>)
      BY <2>1 DEF Sound, EndsLine
    <2>4. ASSUME ckpt.off = 0, ckpt.gen > from.gen, NEW g, g = ckpt.gen - 1,
                 Era(g) = 1, SizeOf(g) >= First(g)
          PROVE  EndsLine(<<g, 1, SizeOf(g)>>)
      BY <2>1, <2>4 DEF Sound, Closed, EndsLine
    <2>. QED
      BY <2>2, <2>3, <2>4 DEF PositionIsBoundary
  <1>. QED
    BY <1>1, FollowerInvariant, PTL
=============================================================================
