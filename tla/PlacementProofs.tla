-------------------------- MODULE PlacementProofs --------------------------
(***************************************************************************)
(* Where the evidence of a line is: Assembler drops none, writes none      *)
(* twice, and never moves the position of a checkpoint back.               *)
(*                                                                         *)
(* ExactlyOnce counts the places of a line.  Its inductive form says that  *)
(* no two places share a line and that a line with evidence has one; a     *)
(* handler is a chain of moves (groups leave the table as events, a line   *)
(* enters a group or an event), each of which carries that along.          *)
(*                                                                         *)
(* And what a group is closed with: a watermark completion has a witness,  *)
(* and groups that may be two halves of one event are both marked.  Only   *)
(* an admitted record opens a group, moves the watermark or adds a line;   *)
(* every other step retires groups as they are.  So each of these two      *)
(* invariants is carried by one lemma for retiring and one for storing.    *)
(***************************************************************************)
EXTENDS AssemblerProofs, FiniteSetTheorems, WellFoundedInduction

USE DEF Pending, Rejected, Fenced

-----------------------------------------------------------------------------
(* The least of a set of positions.                                        *)

LEMMA LeastNat ==
    ASSUME NEW T \in SUBSET Nat, T # {}
    PROVE  \E x \in T : \A y \in T : x <= y
  <1> DEFINE R == OpToRel(<, Nat)
  <1>1. IsWellFoundedOn(R, Nat)
    BY NatLessThanWellFounded
  <1>2. \A x, y \in Nat : y < x => <<y, x>> \in R
    BY DEF OpToRel
  <1>. HIDE DEF R
  <1>3. PICK x \in T : \A y \in T : ~ (<<y, x>> \in R)
    BY <1>1, WFMin
  <1>4. ASSUME NEW y \in T PROVE x <= y
    <2>1. x \in Nat /\ y \in Nat
      OBVIOUS
    <2>2. ~ (y < x)
      BY <1>2, <1>3, <2>1, Zenon
    <2>. QED
      BY <2>1, <2>2
  <1>. QED
    BY <1>4

LEMMA MinIs ==
    ASSUME NEW T \in SUBSET Nat, T # {}
    PROVE  Min(T) \in T /\ \A y \in T : Min(T) <= y
  BY LeastNat DEF Min

-----------------------------------------------------------------------------
(* Places.                                                                 *)

Located(a, out, l) ==
    \/ \E k \in Pending(a) : l \in a.pending[k].lines
    \/ \E e \in out : l \in e.lines

\* No line is in two places, and none is from n on.
Placed(a, out, n) ==
    /\ \A k \in Pending(a) : \A l \in a.pending[k].lines : l < n
    /\ \A e \in out : \A l \in e.lines : l < n
    /\ \A k, q \in Pending(a) : \A l \in a.pending[k].lines :
          l \in a.pending[q].lines => k = q
    /\ \A e, f \in out : \A l \in e.lines : l \in f.lines => e = f
    /\ \A k \in Pending(a), e \in out : \A l \in e.lines : l \notin a.pending[k].lines

\* A move from a and its events out, before line n, to b, out2 and m.
Carries(a, out, n, b, out2, m) ==
    /\ Placed(a, out, n) => Placed(b, out2, m)
    /\ \A l : Located(a, out, l) => Located(b, out2, l)
    /\ \A l : Located(b, out2, l) => Located(a, out, l) \/ (m # n /\ l = n)

LEMMA Carried ==
    ASSUME NEW a, NEW o, NEW n, NEW b, NEW p, NEW m, NEW c, NEW q, NEW r,
           n = m \/ m = r,
           Carries(a, o, n, b, p, m), Carries(b, p, m, c, q, r)
    PROVE  Carries(a, o, n, c, q, r)
  BY DEF Carries

SameLines(a, b) ==
    /\ Pending(b) = Pending(a)
    /\ \A k \in Pending(a) : b.pending[k].lines = a.pending[k].lines

LEMMA SameCarries ==
    ASSUME NEW a, NEW b, SameLines(a, b), NEW out, NEW n
    PROVE  Carries(a, out, n, b, out, n)
  BY DEF Carries, Placed, Located, SameLines

\* The groups of keys leave the table as events that share no line.
LEMMA ReleaseCarries ==
    ASSUME NEW a, NEW b, NEW keys, NEW out, NEW events, NEW n,
           Pending(b) = Pending(a) \ keys,
           \A k \in Pending(b) : b.pending[k].lines = a.pending[k].lines,
           \A e \in events : \E k \in keys \cap Pending(a) :
              \A l \in e.lines : l \in a.pending[k].lines,
           \A k \in keys \cap Pending(a) : \A l \in a.pending[k].lines :
              \E e \in events : l \in e.lines,
           Placed(a, out, n) =>
              \A e, f \in events : \A l \in e.lines : l \in f.lines => e = f
    PROVE  Carries(a, out, n, b, out \cup events, n)
  <1>1. ASSUME NEW l, Located(a, out, l) PROVE Located(b, out \cup events, l)
    BY <1>1 DEF Located
  <1>2. ASSUME NEW l, Located(b, out \cup events, l) PROVE Located(a, out, l)
    BY <1>2 DEF Located
  <1>3. ASSUME Placed(a, out, n) PROVE Placed(b, out \cup events, n)
    <2>1. \A k \in Pending(b) : \A l \in b.pending[k].lines : l < n
      BY <1>3 DEF Placed
    <2>2. \A e \in out \cup events : \A l \in e.lines : l < n
      BY <1>3 DEF Placed
    <2>3. \A k, q \in Pending(b) : \A l \in b.pending[k].lines :
             l \in b.pending[q].lines => k = q
      BY <1>3 DEF Placed
    <2>4. ASSUME NEW e \in out \cup events, NEW f \in out \cup events,
                 NEW l \in e.lines, l \in f.lines
          PROVE  e = f
      BY <1>3, <2>4 DEF Placed
    <2>5. ASSUME NEW k \in Pending(b), NEW e \in out \cup events, NEW l \in e.lines
          PROVE  l \notin b.pending[k].lines
      <3>1. CASE e \in out
        BY <1>3, <3>1 DEF Placed
      <3>2. CASE e \in events
        <4>1. PICK q \in keys \cap Pending(a) : l \in a.pending[q].lines
          BY <3>2
        <4>2. k # q /\ k \in Pending(a) /\ q \in Pending(a)
          BY <4>1
        <4>. QED
          BY <1>3, <4>1, <4>2 DEF Placed
      <3>. QED
        BY <3>1, <3>2
    <2>. QED
      BY <2>1, <2>2, <2>3, <2>4, <2>5 DEF Placed
  <1>. QED
    BY <1>1, <1>2, <1>3 DEF Carries

\* The line n is written on its own.
LEMMA WriteCarries ==
    ASSUME NEW a, NEW out, NEW n \in Nat, NEW e, e.lines = {n},
           \A k \in Pending(a) : a.pending[k].lines \subseteq Nat,
           \A f \in out : f.lines \subseteq Nat
    PROVE  /\ Carries(a, out, n, a, out \cup {e}, n + 1)
           /\ Located(a, out \cup {e}, n)
  <1>1. \A l : Located(a, out, l) => Located(a, out \cup {e}, l)
    BY DEF Located
  <1>2. Located(a, out \cup {e}, n)
    BY DEF Located
  <1>4. \A l : Located(a, out \cup {e}, l) => Located(a, out, l) \/ (n + 1 # n /\ l = n)
    <2>1. n + 1 # n
      OBVIOUS
    <2>. QED
      BY <2>1 DEF Located
  <1>3. ASSUME Placed(a, out, n) PROVE Placed(a, out \cup {e}, n + 1)
    <2>1. \A l \in Nat : l < n => l < n + 1 /\ l # n
      OBVIOUS
    <2>2. n < n + 1
      OBVIOUS
    <2>. QED
      BY <1>3, <2>1, <2>2 DEF Placed
  <1>. QED
    BY <1>1, <1>2, <1>3, <1>4 DEF Carries

\* The line n is stored in the group of k.
LEMMA StoreCarries ==
    ASSUME NEW a, NEW b, NEW out, NEW n \in Nat, NEW k,
           \A q : q \in Pending(b) <=> q \in Pending(a) \/ q = k,
           \A q \in Pending(a) : q # k => b.pending[q].lines = a.pending[q].lines,
           k \in Pending(a) => b.pending[k].lines = a.pending[k].lines \cup {n},
           k \notin Pending(a) => b.pending[k].lines = {n},
           \A q \in Pending(a) : a.pending[q].lines \subseteq Nat,
           \A f \in out : f.lines \subseteq Nat
    PROVE  /\ Carries(a, out, n, b, out, n + 1)
           /\ Located(b, out, n)
  <1>1. \A l : Located(a, out, l) => Located(b, out, l)
    BY DEF Located
  <1>2. Located(b, out, n)
    BY DEF Located
  <1>4. \A l : Located(b, out, l) => Located(a, out, l) \/ (n + 1 # n /\ l = n)
    <2>1. n + 1 # n
      OBVIOUS
    <2>. QED
      BY <2>1 DEF Located
  <1>3. ASSUME Placed(a, out, n) PROVE Placed(b, out, n + 1)
    <2>1. \A l \in Nat : l < n => l < n + 1 /\ l # n
      OBVIOUS
    <2>2. n < n + 1
      OBVIOUS
    <2>3. \A q \in Pending(b) : \A l \in b.pending[q].lines :
             \/ q = k /\ l = n
             \/ q \in Pending(a) /\ l \in a.pending[q].lines
      OBVIOUS
    <2>4. /\ \A q \in Pending(a) : \A l \in a.pending[q].lines : l < n /\ l \in Nat
          /\ \A e \in out : \A l \in e.lines : l < n /\ l \in Nat
      BY <1>3 DEF Placed
    <2>5. \A q \in Pending(b) : \A l \in b.pending[q].lines : l < n + 1
      BY <2>1, <2>2, <2>3, <2>4
    <2>6. \A e \in out : \A l \in e.lines : l < n + 1
      BY <2>1, <2>4
    <2>7. \A q, r \in Pending(b) : \A l \in b.pending[q].lines :
             l \in b.pending[r].lines => q = r
      BY <1>3, <2>1, <2>3, <2>4 DEF Placed
    <2>8. \A q \in Pending(b), e \in out : \A l \in e.lines : l \notin b.pending[q].lines
      BY <1>3, <2>1, <2>3, <2>4 DEF Placed
    <2>. QED
      BY <1>3, <2>5, <2>6, <2>7, <2>8 DEF Placed
  <1>. QED
    BY <1>1, <1>2, <1>3, <1>4 DEF Carries

\* The line n leaves no evidence.
LEMMA SkipCarries ==
    ASSUME NEW a, NEW out, NEW n \in Nat,
           \A q \in Pending(a) : a.pending[q].lines \subseteq Nat,
           \A f \in out : f.lines \subseteq Nat
    PROVE  Carries(a, out, n, a, out, n + 1)
  <1>1. \A l \in Nat : l < n => l < n + 1
    OBVIOUS
  <1>. QED
    BY <1>1 DEF Carries, Placed

-----------------------------------------------------------------------------
(* The operators.                                                          *)

NatLines(a, out) ==
    /\ \A k \in Pending(a) : a.pending[k].lines \subseteq Nat
    /\ \A e \in out : e.lines \subseteq Nat

LEMMA TypedLines ==
    ASSUME NEW a, AsmTypeOK(a), NEW out, out \subseteq Event
    PROVE  NatLines(a, out)
  BY DEF AsmTypeOK, Group, Event, NatLines

LEMMA EventLines ==
    ASSUME NEW a, NEW k, NEW c, NEW l
    PROVE  /\ GroupEvent(a, k, c).lines = a.pending[k].lines
           /\ [key |-> k, lines |-> {l}, completion |-> c, mixed |-> FALSE].lines = {l}
  BY DEF GroupEvent

\* One event for each of the groups that are closed.
LEMMA CloseCarries ==
    ASSUME NEW a, AsmTypeOK(a), NEW keys, keys \subseteq Pending(a), NEW cs,
           NEW out, NEW n
    PROVE  Carries(a, out, n, Finish(a, keys),
                   out \cup {GroupEvent(a, k, cs[k]) : k \in keys}, n)
  <1> DEFINE b == Finish(a, keys)
             events == {GroupEvent(a, k, cs[k]) : k \in keys}
  <1>1. Pending(b) = Pending(a) \ keys /\ \A k \in Pending(b) : b.pending[k] = a.pending[k]
    BY FinishLemma
  <1>. HIDE DEF b
  <1>2. \A e \in events : \E k \in keys : e = GroupEvent(a, k, cs[k])
    OBVIOUS
  <1>3. \A k \in keys : GroupEvent(a, k, cs[k]) \in events
    OBVIOUS
  <1>. HIDE DEF events
  <1>4. \A e \in events : \E k \in keys \cap Pending(a) :
           \A l \in e.lines : l \in a.pending[k].lines
    BY <1>2, EventLines
  <1>5. \A k \in keys \cap Pending(a) : \A l \in a.pending[k].lines :
           \E e \in events : l \in e.lines
    BY <1>3, EventLines
  <1>6. ASSUME Placed(a, out, n), NEW e \in events, NEW f \in events,
               NEW l \in e.lines, l \in f.lines
        PROVE  e = f
    <2>1. PICK k \in keys : e = GroupEvent(a, k, cs[k])
      BY <1>2
    <2>2. PICK q \in keys : f = GroupEvent(a, q, cs[q])
      BY <1>2
    <2>3. k \in Pending(a) /\ q \in Pending(a)
      OBVIOUS
    <2>4. l \in a.pending[k].lines /\ l \in a.pending[q].lines
      BY <1>6, <2>1, <2>2, EventLines
    <2>5. k = q
      BY <1>6, <2>3, <2>4 DEF Placed
    <2>. QED
      BY <2>1, <2>2, <2>5
  <1>7. Carries(a, out, n, b, out \cup events, n)
    BY <1>1, <1>4, <1>5, <1>6, ReleaseCarries
  <1>. QED
    BY <1>7 DEF b, events

LEMMA ExpireCarries ==
    ASSUME NEW a, AsmTypeOK(a), NEW t, NEW out, NEW n
    PROVE  Carries(a, out, n, Finish(a, Expired(a, t)), out \cup ExpiredEvents(a, t), n)
  <1> DEFINE keys == Expired(a, t)
             cs == [k \in keys |-> IF PastWatermark(a, k) THEN "watermark" ELSE "timeout"]
  <1>1. keys \subseteq Pending(a)
    BY DEF Expired
  <1>2. ExpiredEvents(a, t) = {GroupEvent(a, k, cs[k]) : k \in keys}
    BY DEF ExpiredEvents
  <1>. HIDE DEF keys, cs
  <1>3. Carries(a, out, n, Finish(a, keys),
                out \cup {GroupEvent(a, k, cs[k]) : k \in keys}, n)
    BY <1>1, CloseCarries
  <1>. QED
    BY <1>2, <1>3 DEF keys

LEMMA ServicedCarries ==
    ASSUME NEW a, AsmTypeOK(a), NEW t \in Nat, NEW out, NEW n
    PROVE  Carries(a, out, n, Serviced(a, t), out \cup ExpiredEvents(a, t), n)
  <1> DEFINE f == Finish(a, Expired(a, t))
             o == out \cup ExpiredEvents(a, t)
  <1>1. AsmTypeOK(f)
    BY FinishLemma
  <1>2. Carries(a, out, n, f, o, n)
    BY ExpireCarries
  <1>3. Serviced(a, t) = ExpireRejected(f, t)
    BY DEF Serviced
  <1>. HIDE DEF f, o
  <1>4. SameLines(f, Serviced(a, t))
    BY <1>1, <1>3, ExpireRejectedLemma DEF SameLines
  <1>5. Carries(f, o, n, Serviced(a, t), o, n)
    BY <1>4, SameCarries
  <1>. QED
    BY <1>2, <1>5, Carried DEF o

LEMMA StoredCarries ==
    ASSUME NEW a, AsmTypeOK(a), NEW k \in Key, NEW n \in Nat, NEW bytes \in Nat,
           NEW t \in Nat, NEW out, out \subseteq Event
    PROVE  LET b == Stored(a, k, n, bytes, t) IN
           /\ AsmTypeOK(b) /\ k \in Pending(b)
           /\ Carries(a, out, n, b, out, n + 1)
           /\ Located(b, out, n)
  <1> DEFINE b == Stored(a, k, n, bytes, t)
  <1>1. /\ AsmTypeOK(b)
        /\ \A q : q \in Pending(b) <=> q \in Pending(a) \/ q = k
        /\ \A q \in Pending(a) : q # k => b.pending[q].lines = a.pending[q].lines
        /\ k \in Pending(a) => b.pending[k].lines = a.pending[k].lines \cup {n}
        /\ k \notin Pending(a) => b.pending[k].lines = {n}
    <2>1. AsmTypeOK(b) /\ StoredAs(a, b, k, n)
      BY StoredLemma
    <2>. HIDE DEF b
    <2>. QED
      BY <2>1 DEF StoredAs
  <1>2. NatLines(a, out)
    BY TypedLines
  <1>. HIDE DEF b
  <1>3. Carries(a, out, n, b, out, n + 1) /\ Located(b, out, n)
    BY <1>1, <1>2, StoreCarries DEF NatLines
  <1>4. k \in Pending(b)
    BY <1>1
  <1>. QED
    BY <1>1, <1>3, <1>4 DEF b

LEMMA ExceptionEvents ==
    ASSUME NEW k, NEW ls
    PROVE  /\ \A e \in Exceptions(k, ls) : \E l \in ls :
                 e.lines = {l} /\ e = [key |-> k, lines |-> {l},
                                       completion |-> "exception", mixed |-> FALSE]
           /\ \A l \in ls : \E e \in Exceptions(k, ls) : l \in e.lines
  <1> DEFINE one(l) == [key |-> k, lines |-> {l},
                        completion |-> "exception", mixed |-> FALSE]
  <1>1. Exceptions(k, ls) = {one(l) : l \in ls}
    BY DEF Exceptions
  <1>2. \A l : one(l).lines = {l}
    OBVIOUS
  <1>. HIDE DEF one
  <1>3. \A e \in Exceptions(k, ls) : \E l \in ls : e.lines = {l} /\ e = one(l)
    BY <1>1, <1>2
  <1>4. \A l \in ls : one(l) \in Exceptions(k, ls) /\ l \in one(l).lines
    BY <1>1, <1>2
  <1>. QED
    BY <1>3, <1>4 DEF one

\* The groups of some keys are taken out line by line.
LEMMA ScatterCarries ==
    ASSUME NEW a, NEW b, NEW keys, keys \subseteq Pending(a), NEW out, NEW n,
           Pending(b) = Pending(a) \ keys,
           \A k \in Pending(b) : b.pending[k].lines = a.pending[k].lines
    PROVE  Carries(a, out, n, b,
                   out \cup UNION {Exceptions(k, a.pending[k].lines) : k \in keys}, n)
  <1> DEFINE events == UNION {Exceptions(k, a.pending[k].lines) : k \in keys}
  <1>1. ASSUME NEW e \in events
        PROVE  \E k \in keys : \E l \in a.pending[k].lines :
                  e.lines = {l} /\ e = [key |-> k, lines |-> {l},
                                        completion |-> "exception", mixed |-> FALSE]
    <2>1. PICK k \in keys : e \in Exceptions(k, a.pending[k].lines)
      OBVIOUS
    <2>. HIDE DEF events
    <2>. QED
      BY <2>1, ExceptionEvents
  <1>2. ASSUME NEW k \in keys, NEW l \in a.pending[k].lines
        PROVE  \E e \in events : l \in e.lines
    <2>1. PICK e \in Exceptions(k, a.pending[k].lines) : l \in e.lines
      BY ExceptionEvents
    <2>2. e \in events
      OBVIOUS
    <2>. QED
      BY <2>1, <2>2
  <1>. HIDE DEF events
  <1>3. \A e \in events : \E k \in keys \cap Pending(a) :
           \A l \in e.lines : l \in a.pending[k].lines
    <2>. TAKE e \in events
    <2>1. PICK k \in keys : \E l \in a.pending[k].lines : e.lines = {l}
      BY <1>1
    <2>. QED
      BY <2>1
  <1>4. ASSUME Placed(a, out, n), NEW e \in events, NEW f \in events,
               NEW l \in e.lines, l \in f.lines
        PROVE  e = f
    <2>1. PICK k \in keys : \E i \in a.pending[k].lines :
             e.lines = {i} /\ e = [key |-> k, lines |-> {i},
                                   completion |-> "exception", mixed |-> FALSE]
      BY <1>1
    <2>2. PICK q \in keys : \E j \in a.pending[q].lines :
             f.lines = {j} /\ f = [key |-> q, lines |-> {j},
                                   completion |-> "exception", mixed |-> FALSE]
      BY <1>1
    <2>3. /\ l \in a.pending[k].lines
          /\ e = [key |-> k, lines |-> {l}, completion |-> "exception", mixed |-> FALSE]
      BY <1>4, <2>1
    <2>4. /\ l \in a.pending[q].lines
          /\ f = [key |-> q, lines |-> {l}, completion |-> "exception", mixed |-> FALSE]
      BY <1>4, <2>2
    <2>5. k = q
      BY <1>4, <2>3, <2>4 DEF Placed
    <2>. QED
      BY <2>3, <2>4, <2>5
  <1>5. Carries(a, out, n, b, out \cup events, n)
    BY <1>2, <1>3, <1>4, ReleaseCarries
  <1>. QED
    BY <1>5 DEF events

-----------------------------------------------------------------------------
(* The line handlers.  All start from S, with Left behind them.            *)

Left == output \cup ExpiredEvents(asm, now)

Moves == Carries(asm, output, next, asm', output', next')
Kept(line) == Payload(line) => Located(asm', output', next)

LEMMA AtS ==
    ASSUME TypeOK
    PROVE  /\ AsmTypeOK(S) /\ now \in Nat /\ next \in Nat
           /\ Carries(asm, output, next, S, Left, next)
           /\ Left \subseteq Event
  <1>1. AsmTypeOK(S) /\ now \in Nat /\ next \in Nat
    BY SType DEF TypeOK
  <1>2. Carries(asm, output, next, S, Left, next)
    BY ServicedCarries DEF TypeOK, S, Left
  <1>3. Left \subseteq Event
    BY ExpiredEventsType DEF TypeOK, Left
  <1>. QED
    BY <1>1, <1>2, <1>3

\* The groups of keys are taken out line by line, and so is the new line.
LEMMA RefusedMoves ==
    ASSUME TypeOK, TypeOK', next' = next + 1,
           NEW keys, keys \subseteq Pending(S),
           Pending(asm') = Pending(S) \ keys,
           \A k \in Pending(asm') : asm'.pending[k].lines = S.pending[k].lines,
           NEW e, e.lines = {next},
           output' = (Left \cup UNION {Exceptions(k, S.pending[k].lines) : k \in keys})
                        \cup {e}
    PROVE  Moves /\ Located(asm', output', next)
  <1> DEFINE o == Left \cup UNION {Exceptions(k, S.pending[k].lines) : k \in keys}
  <1>1. Carries(asm, output, next, S, Left, next) /\ next \in Nat
    BY AtS
  <1>2. Carries(S, Left, next, asm', o, next)
    BY ScatterCarries
  <1>3. output' = o \cup {e}
    OBVIOUS
  <1>. HIDE DEF o
  <1>4. NatLines(asm', o)
    BY <1>3, TypedLines DEF TypeOK
  <1>5. /\ Carries(asm', o, next, asm', o \cup {e}, next + 1)
        /\ Located(asm', o \cup {e}, next)
    BY <1>1, <1>4, WriteCarries DEF NatLines
  <1>6. Carries(asm, output, next, asm', o, next)
    BY <1>1, <1>2, Carried
  <1>7. Carries(asm, output, next, asm', o \cup {e}, next + 1)
    BY <1>5, <1>6, Carried
  <1>. QED
    BY <1>3, <1>5, <1>7 DEF Moves

\* No group is taken out.
LEMMA WrittenMoves ==
    ASSUME TypeOK, TypeOK', next' = next + 1, asm'.pending = S.pending,
           NEW e, e.lines = {next}, output' = Left \cup {e}
    PROVE  Moves /\ Located(asm', output', next)
  <1> DEFINE keys == {}
  <1>1. Left \cup UNION {Exceptions(k, S.pending[k].lines) : k \in keys} = Left
    OBVIOUS
  <1>2. keys \subseteq Pending(S) /\ Pending(asm') = Pending(S) \ keys
    OBVIOUS
  <1>. HIDE DEF keys
  <1>3. output' = (Left \cup UNION {Exceptions(k, S.pending[k].lines) : k \in keys})
                     \cup {e}
    BY <1>1
  <1>. QED
    BY <1>2, <1>3, RefusedMoves

LEMMA ExceptionsAlso ==
    ASSUME NEW k, NEW ls, NEW l
    PROVE  Exceptions(k, ls \cup {l}) = Exceptions(k, ls) \cup Exceptions(k, {l})
  BY DEF Exceptions

LEMMA LineEventLines ==
    ASSUME NEW k, NEW c
    PROVE  LineEvent(k, c).lines = {next}
  BY DEF LineEvent

LEMMA ExceptionOfLine ==
    ASSUME NEW k
    PROVE  Exceptions(k, {next}) = {LineEvent(k, "exception")}
  BY DEF Exceptions, LineEvent

LEMMA HandlerReads ==
    ASSUME TypeOK, NEW line \in Lines, HandleLine(line)
    PROVE  Read(line) /\ TypeOK'
  BY NextType DEF Next, HandleLine, ReadRecord, AddRejected, CloseFullGroup, AddFenced,
     OrphanEOE, Admit, Refuse, ParseFailure, RejectKnownLine, RejectUnknownLine

LEMMA AddRejectedMoves ==
    ASSUME TypeOK, TypeOK', NEW line \in Lines, Read(line), AddRejected(line)
    PROVE  Moves /\ Kept(line)
  <1>1. asm' \in {Forget(S, line.key), Touch(S, line.key, now)} /\ line.key \in Rejected(S)
    BY DEF AddRejected
  <1>2. asm'.pending = S.pending
    BY <1>1, AtS, ForgetLemma, TouchLemma
  <1>3. next' = next + 1 /\ output' = Left \cup {LineEvent(line.key, "exception")}
    BY ExceptionOfLine DEF AddRejected, Emit, Left, Read
  <1>. QED
    BY <1>2, <1>3, LineEventLines, WrittenMoves DEF Kept

LEMMA AddFencedMoves ==
    ASSUME TypeOK, TypeOK', NEW line \in Lines, Read(line), AddFenced(line)
    PROVE  Moves /\ Kept(line)
  <1>1. asm' \in {S, Track(S, line.key, S.spillSource, now), StartSpill(S, next, now)}
    BY DEF AddFenced
  <1>2. S.spillSource \in Nat
    BY AtS DEF AddFenced, AsmTypeOK
  <1>3. line.key \in Key
    BY RecordLineType DEF AddFenced, ReadRecord
  <1>4. asm'.pending = S.pending
    <2>1. Track(S, line.key, S.spillSource, now).pending = S.pending
      BY <1>2, <1>3, AtS, TrackLemma
    <2>2. StartSpill(S, next, now).pending = S.pending
      BY AtS, StartSpillLemma
    <2>. QED
      BY <1>1, <2>1, <2>2
  <1>5. next' = next + 1 /\ output' = Left \cup {LineEvent(line.key, "exception")}
    BY ExceptionOfLine DEF AddFenced, Emit, Left, Read
  <1>. QED
    BY <1>4, <1>5, LineEventLines, WrittenMoves DEF Kept

LEMMA ParseFailureMoves ==
    ASSUME TypeOK, TypeOK', NEW line \in Lines, Read(line), ParseFailure(line)
    PROVE  Moves /\ Kept(line)
  <1>1. LineEvent(None, "malformed").lines = {next}
    BY DEF LineEvent
  <1>2. next' = next + 1 /\ output' = Left \cup {LineEvent(None, "malformed")} /\ asm' = S
    BY DEF ParseFailure, Emit, Left, Read
  <1>. QED
    BY <1>1, <1>2, WrittenMoves DEF Kept

LEMMA RefuseMoves ==
    ASSUME TypeOK, TypeOK', NEW line \in Lines, Read(line), Refuse(line)
    PROVE  Moves /\ Kept(line)
  <1> DEFINE k == line.key
             keys == {k} \cap Pending(S)
             retained == IF k \in Pending(S) THEN S.pending[k].lines ELSE {}
             source == IF k \in Pending(S) THEN S.pending[k].first ELSE next
             marked == MarkMixed(S, k)
             dropped == Finish(marked, keys)
  <1>1. /\ asm' \in {dropped, Isolate(dropped, k, source, now)}
        /\ output' = Left \cup Exceptions(k, retained \cup {next})
        /\ next' = next + 1
    <2>1. {k} \cap Pending(S) = keys
      OBVIOUS
    <2>. QED
      BY DEF Refuse, Emit, Left, Read
  <1>2. k \in Key /\ source \in Nat
    <2>1. k \in Key
      BY RecordLineType DEF Refuse, ReadRecord
    <2>. QED
      BY <2>1, AtS, RetainedType
  <1>3. AsmTypeOK(marked) /\ SameGroups(S, marked)
    BY AtS, MarkMixedLemma
  <1>4. UNION {Exceptions(q, S.pending[q].lines) : q \in keys} = Exceptions(k, retained)
    <2>1. CASE k \in Pending(S)
      BY <2>1
    <2>2. CASE k \notin Pending(S)
      <3>1. Exceptions(k, {}) = {}
        BY DEF Exceptions
      <3>. QED
        BY <2>2, <3>1
    <2>. QED
      BY <2>1, <2>2
  <1>5. keys \subseteq Pending(S)
    OBVIOUS
  <1>. HIDE DEF keys, retained, source, marked, k
  <1>6. /\ AsmTypeOK(dropped)
        /\ Pending(dropped) = Pending(S) \ keys
        /\ \A q \in Pending(dropped) : dropped.pending[q].lines = S.pending[q].lines
    BY <1>3, FinishLemma DEF SameGroups
  <1>. HIDE DEF dropped
  <1>7. asm'.pending = dropped.pending
    <2>1. now \in Nat
      BY AtS
    <2>2. Isolate(dropped, k, source, now).pending = dropped.pending
      BY <1>2, <1>6, <2>1, IsolateLemma
    <2>. QED
      BY <1>1, <2>2
  <1>8. output' = (Left \cup UNION {Exceptions(q, S.pending[q].lines) : q \in keys})
                     \cup {LineEvent(k, "exception")}
    <2>1. Exceptions(k, retained \cup {next})
            = Exceptions(k, retained) \cup {LineEvent(k, "exception")}
      BY DEF Exceptions, LineEvent
    <2>2. output' = Left \cup (Exceptions(k, retained) \cup {LineEvent(k, "exception")})
      BY <1>1, <2>1
    <2>. QED
      BY <1>4, <2>2
  <1>9. Pending(asm') = Pending(S) \ keys
    BY <1>6, <1>7
  <1>10. \A q \in Pending(asm') : asm'.pending[q].lines = S.pending[q].lines
    BY <1>6, <1>7
  <1>11. next' = next + 1 /\ LineEvent(k, "exception").lines = {next}
    BY <1>1, LineEventLines
  <1>12. Moves /\ Located(asm', output', next)
    BY <1>5, <1>8, <1>9, <1>10, <1>11, RefusedMoves
  <1>. QED
    BY <1>12 DEF Kept

LEMMA RejectKnownLineMoves ==
    ASSUME TypeOK, TypeOK', NEW line \in Lines, Read(line), RejectKnownLine(line)
    PROVE  Moves /\ Kept(line)
  <1> DEFINE k == line.key
             keys == {k} \cap Pending(S)
             retained == IF k \in Pending(S) THEN S.pending[k].lines ELSE {}
             source == IF k \in Pending(S) THEN S.pending[k].first ELSE next
             dropped == Finish(S, keys)
  <1>1. /\ asm' = IF k \in Rejected(S) THEN Touch(dropped, k, now)
                  ELSE Isolate(dropped, k, source, now)
        /\ output' = (Left \cup Exceptions(k, retained)) \cup {LineEvent(k, "exception")}
        /\ next' = next + 1
    BY DEF RejectKnownLine, Emit, Left, Read
  <1>2. k \in Key /\ source \in Nat
    <2>1. k \in Key
      BY OversizeLineType DEF RejectKnownLine
    <2>. QED
      BY <2>1, AtS, RetainedType
  <1>3. UNION {Exceptions(q, S.pending[q].lines) : q \in keys} = Exceptions(k, retained)
    <2>1. CASE k \in Pending(S)
      BY <2>1
    <2>2. CASE k \notin Pending(S)
      <3>1. Exceptions(k, {}) = {}
        BY DEF Exceptions
      <3>. QED
        BY <2>2, <3>1
    <2>. QED
      BY <2>1, <2>2
  <1>4. keys \subseteq Pending(S)
    OBVIOUS
  <1>. HIDE DEF keys, retained, source, k
  <1>5. /\ AsmTypeOK(dropped)
        /\ Pending(dropped) = Pending(S) \ keys
        /\ \A q \in Pending(dropped) : dropped.pending[q] = S.pending[q]
        /\ Rejected(dropped) = Rejected(S)
    BY AtS, FinishLemma
  <1>. HIDE DEF dropped
  <1>6. asm'.pending = dropped.pending
    <2>1. now \in Nat
      BY AtS
    <2>2. Isolate(dropped, k, source, now).pending = dropped.pending
      BY <1>2, <1>5, <2>1, IsolateLemma
    <2>3. k \in Rejected(S) => Touch(dropped, k, now).pending = dropped.pending
      BY <1>5, <2>1, TouchLemma
    <2>. QED
      BY <1>1, <2>2, <2>3
  <1>7. output' = (Left \cup UNION {Exceptions(q, S.pending[q].lines) : q \in keys})
                     \cup {LineEvent(k, "exception")}
    BY <1>1, <1>3
  <1>8. Pending(asm') = Pending(S) \ keys
    BY <1>5, <1>6
  <1>9. \A q \in Pending(asm') : asm'.pending[q].lines = S.pending[q].lines
    BY <1>5, <1>6
  <1>10. next' = next + 1 /\ LineEvent(k, "exception").lines = {next}
    BY <1>1, LineEventLines
  <1>11. Moves /\ Located(asm', output', next)
    BY <1>4, <1>7, <1>8, <1>9, <1>10, RefusedMoves
  <1>. QED
    BY <1>11 DEF Kept

LEMMA RejectUnknownLineMoves ==
    ASSUME TypeOK, TypeOK', NEW line \in Lines, Read(line), RejectUnknownLine(line)
    PROVE  Moves /\ Kept(line)
  <1> DEFINE keys == Pending(S)
             e == LineEvent(None, "exception")
  <1>1. /\ asm' = StartSpill(FlushAll(S), next, now)
        /\ output' = (Left \cup UNION {Exceptions(k, S.pending[k].lines) : k \in keys})
                        \cup {e}
        /\ next' = next + 1
    BY DEF RejectUnknownLine, Emit, Left, Read
  <1>2. AsmTypeOK(FlushAll(S)) /\ Pending(FlushAll(S)) = {}
    BY AtS, FlushAllLemma
  <1>3. asm'.pending = FlushAll(S).pending
    BY <1>1, <1>2, AtS, StartSpillLemma
  <1>4. keys \subseteq Pending(S) /\ Pending(asm') = Pending(S) \ keys
    BY <1>2, <1>3
  <1>5. \A k \in Pending(asm') : asm'.pending[k].lines = S.pending[k].lines
    BY <1>4
  <1>6. e.lines = {next}
    BY LineEventLines
  <1>. HIDE DEF keys, e
  <1>7. /\ next' = next + 1
        /\ output' = (Left \cup UNION {Exceptions(k, S.pending[k].lines) : k \in keys})
                        \cup {e}
    BY <1>1
  <1>8. Moves /\ Located(asm', output', next)
    BY <1>4, <1>5, <1>6, <1>7, RefusedMoves
  <1>. QED
    BY <1>8 DEF Kept

LEMMA SkippedMoves ==
    ASSUME TypeOK, TypeOK', next' = next + 1,
           Carries(asm, output, next, asm', output', next)
    PROVE  Moves
  <1>1. NatLines(asm', output') /\ next \in Nat
    BY TypedLines DEF TypeOK
  <1>2. Carries(asm', output', next, asm', output', next + 1)
    BY <1>1, SkipCarries DEF NatLines
  <1>. QED
    BY <1>2, Carried DEF Moves

LEMMA OrphanEOEMoves ==
    ASSUME TypeOK, TypeOK', NEW line \in Lines, Read(line), OrphanEOE(line)
    PROVE  Moves /\ Kept(line)
  <1>1. asm' = MarkMixed(S, line.key) /\ output' = Left /\ next' = next + 1
    BY DEF OrphanEOE, Emit, Left, Read
  <1>2. SameLines(S, asm')
    BY <1>1, AtS, MarkMixedLemma DEF SameGroups, SameLines
  <1>3. Carries(S, Left, next, asm', Left, next)
    BY <1>2, SameCarries
  <1>4. Carries(asm, output, next, asm', output', next)
    BY <1>1, <1>3, AtS, Carried
  <1>. QED
    BY <1>1, <1>4, SkippedMoves DEF Kept, Payload, OrphanEOE, ReadRecord

LEMMA CloseFullGroupMoves ==
    ASSUME TypeOK, TypeOK', NEW line \in Lines, Read(line), CloseFullGroup(line)
    PROVE  Moves /\ Kept(line)
  <1> DEFINE keys == {line.key}
             cs == [k \in keys |-> "eoe"]
  <1>1. /\ asm' = Finish(S, keys) /\ keys \subseteq Pending(S) /\ next' = next + 1
        /\ output' = Left \cup {GroupEvent(S, k, cs[k]) : k \in keys}
    BY DEF CloseFullGroup, Emit, Left, Read
  <1>. HIDE DEF keys, cs
  <1>2. Carries(S, Left, next, asm', output', next)
    BY <1>1, AtS, CloseCarries
  <1>3. Carries(asm, output, next, asm', output', next)
    BY <1>2, AtS, Carried
  <1>. QED
    BY <1>1, <1>3, SkippedMoves DEF Kept, Payload, CloseFullGroup, ReadRecord

\* The record joins its group, the groups that its boundary and its event time
\* complete leave.
LEMMA AdmitMoves ==
    ASSUME TypeOK, TypeOK', NEW line \in Lines, Read(line), Admit(line)
    PROVE  Moves /\ Kept(line)
  <1> DEFINE k == line.key
             stored == Stored(S, k, next, line.bytes, now)
             boundary == Boundary(line.type, k \in Pending(S))
             closed == IF boundary = None THEN {} ELSE {k}
             cs == [q \in closed |-> boundary]
             settled == Finish(stored, closed)
             closing == {GroupEvent(stored, q, cs[q]) : q \in closed}
             o == Left \cup closing
  <1>1. /\ asm' = Finish(settled, Expired(settled, now))
        /\ output' = o \cup ExpiredEvents(settled, now)
        /\ next' = next + 1
    <2>1. /\ asm' = Finish(settled, Expired(settled, now))
          /\ Emit({GroupEvent(stored, q, boundary) : q \in closed}
                     \cup ExpiredEvents(settled, now))
          /\ next' = next + 1
      BY DEF Admit, Read
    <2>2. {GroupEvent(stored, q, boundary) : q \in closed} = closing
      <3>. HIDE DEF closed, stored, boundary
      <3>. QED
        OBVIOUS
    <2>. HIDE DEF stored, closed, settled, closing
    <2>. QED
      BY <2>1, <2>2 DEF Emit, Left
  <1>2. closed \subseteq {k}
    OBVIOUS
  <1>3. k \in Key /\ line.bytes \in Nat
    BY RecordLineType DEF Admit, ReadRecord
  <1>. HIDE DEF k, closed, cs, settled
  <1>4. AsmTypeOK(S) /\ next \in Nat /\ now \in Nat /\ Left \subseteq Event
    BY AtS
  <1>5. /\ AsmTypeOK(stored) /\ k \in Pending(stored)
        /\ Carries(S, Left, next, stored, Left, next + 1)
        /\ Located(stored, Left, next)
    BY <1>3, <1>4, StoredCarries
  <1>. HIDE DEF stored
  <1>6. Carries(stored, Left, next + 1, settled, o, next + 1) /\ AsmTypeOK(settled)
    <2>1. closed \subseteq Pending(stored)
      BY <1>2, <1>5
    <2>2. Carries(stored, Left, next + 1, Finish(stored, closed), o, next + 1)
      BY <1>5, <2>1, CloseCarries
    <2>3. AsmTypeOK(Finish(stored, closed))
      BY <1>5, FinishLemma
    <2>. QED
      BY <2>2, <2>3 DEF settled
  <1>. HIDE DEF o
  <1>7. Carries(settled, o, next + 1, asm', output', next + 1)
    BY <1>1, <1>6, ExpireCarries
  <1>8. Carries(asm, output, next, stored, Left, next + 1)
    BY <1>5, AtS, Carried
  <1>9. Carries(asm, output, next, settled, o, next + 1)
    BY <1>6, <1>8, Carried
  <1>10. Moves
    BY <1>1, <1>7, <1>9, Carried DEF Moves
  <1>11. Located(asm', output', next)
    BY <1>5, <1>6, <1>7 DEF Carries
  <1>. QED
    BY <1>10, <1>11 DEF Kept

LEMMA HandleLineMoves ==
    ASSUME TypeOK, NEW line \in Lines, HandleLine(line)
    PROVE  Moves /\ Kept(line)
  <1>1. Read(line) /\ TypeOK'
    BY HandlerReads
  <1>. QED
    BY <1>1, AddRejectedMoves, CloseFullGroupMoves, AddFencedMoves, OrphanEOEMoves,
       AdmitMoves, RefuseMoves, ParseFailureMoves, RejectKnownLineMoves,
       RejectUnknownLineMoves DEF HandleLine

LEMMA IdleMoves == ASSUME TypeOK, Idle PROVE Moves
  <1>1. asm' = S /\ output' = Left /\ next' = next
    BY DEF Idle, Emit, Left
  <1>. QED
    BY <1>1, AtS DEF Moves

LEMMA FlushAllWithMoves ==
    ASSUME TypeOK, NEW c \in Completion, FlushAllWith(c)
    PROVE  Moves
  <1> DEFINE keys == Pending(asm)
             cs == [k \in keys |-> c]
             f == Finish(asm, keys)
  <1>1. /\ asm' = FlushAll(asm) /\ next' = next
        /\ output' = output \cup {GroupEvent(asm, k, cs[k]) : k \in keys}
    BY DEF FlushAllWith
  <1>2. AsmTypeOK(asm)
    BY DEF TypeOK
  <1>3. Pending(asm') = {} /\ Pending(f) = {}
    BY <1>1, <1>2, FlushAllLemma, FinishLemma
  <1>4. keys \subseteq Pending(asm)
    OBVIOUS
  <1>. HIDE DEF keys, cs
  <1>5. Carries(asm, output, next, f, output', next)
    BY <1>1, <1>2, <1>4, CloseCarries
  <1>6. Carries(f, output', next, asm', output', next)
    BY <1>3, SameCarries DEF SameLines
  <1>. QED
    BY <1>1, <1>5, <1>6, Carried DEF Moves

-----------------------------------------------------------------------------
(* The invariant.                                                          *)

ReadSoFar == next <= Len(input) + 1
EvidenceKept == \A l \in 1..(next - 1) : Payload(input[l]) => Located(asm, output, l)
PlacedInv == TypeOK /\ ReadSoFar /\ Placed(asm, output, next) /\ EvidenceKept

LEMMA ReadLine ==
    ASSUME TypeOK, ReadSoFar, NEW line, Read(line)
    PROVE  /\ next' = next + 1 /\ ReadSoFar'
           /\ input'[next] = line
           /\ \A l \in 1..(next - 1) : input'[l] = input[l]
           /\ Len(input) <= Len(input')
  <1>1. next \in Nat \ {0} /\ input \in Seq(Lines) /\ Len(input) \in Nat
    BY DEF TypeOK
  <1>2. CASE next <= Len(input)
    BY <1>1, <1>2 DEF Read, ReadSoFar
  <1>3. CASE ~(next <= Len(input))
    <2>1. next = Len(input) + 1
      BY <1>1, <1>3 DEF ReadSoFar
    <2>2. input' = Append(input, line) /\ next' = next + 1
      BY <1>3 DEF Read
    <2>3. line \in Lines \cup {line} /\ input \in Seq(Lines \cup {line})
      BY <1>1
    <2>4. /\ Len(input') = Len(input) + 1
          /\ input'[Len(input) + 1] = line
          /\ \A l \in 1..Len(input) : input'[l] = input[l]
      BY <2>2, <2>3
    <2>. QED
      BY <1>1, <2>1, <2>2, <2>4 DEF ReadSoFar
  <1>. QED
    BY <1>2, <1>3

LEMMA LineKeepsEvidence ==
    ASSUME TypeOK, ReadSoFar, EvidenceKept, NEW line \in Lines, HandleLine(line)
    PROVE  EvidenceKept'
  <1>1. /\ next' = next + 1 /\ input'[next] = line
        /\ \A l \in 1..(next - 1) : input'[l] = input[l]
    BY HandlerReads, ReadLine
  <1>2. Moves /\ Kept(line)
    BY HandleLineMoves
  <1>3. ASSUME NEW l \in 1..(next' - 1), Payload(input'[l])
        PROVE  Located(asm', output', l)
    <2>1. l = next \/ l \in 1..(next - 1)
      BY <1>1 DEF TypeOK
    <2>2. CASE l = next
      BY <1>1, <1>2, <1>3, <2>2 DEF Kept
    <2>3. CASE l \in 1..(next - 1)
      <3>1. Located(asm, output, l)
        BY <1>1, <1>3, <2>3 DEF EvidenceKept
      <3>. QED
        BY <1>2, <3>1 DEF Moves, Carries
    <2>. QED
      BY <2>1, <2>2, <2>3
  <1>. QED
    BY <1>3 DEF EvidenceKept

LEMMA LineKeepsPlaced ==
    ASSUME PlacedInv, NEW line \in Lines, HandleLine(line)
    PROVE  PlacedInv'
  <1>1. TypeOK' /\ Read(line)
    BY HandlerReads DEF PlacedInv
  <1>2. ReadSoFar'
    BY <1>1, ReadLine DEF PlacedInv
  <1>3. Placed(asm', output', next')
    BY HandleLineMoves DEF Moves, Carries, PlacedInv
  <1>4. EvidenceKept'
    BY LineKeepsEvidence DEF PlacedInv
  <1>. QED
    BY <1>1, <1>2, <1>3, <1>4 DEF PlacedInv

LEMMA StillPlaced ==
    ASSUME PlacedInv, TypeOK', Moves, UNCHANGED <<input, next>>
    PROVE  PlacedInv'
  <1>1. Placed(asm', output', next') /\ ReadSoFar'
    BY DEF Moves, Carries, PlacedInv, ReadSoFar
  <1>2. EvidenceKept'
    BY DEF Moves, Carries, PlacedInv, EvidenceKept
  <1>. QED
    BY <1>1, <1>2 DEF PlacedInv

LEMMA PlacedInit == Init => PlacedInv
  <1>. SUFFICES ASSUME Init PROVE PlacedInv
    OBVIOUS
  <1>1. TypeOK
    BY InitType
  <1>2. Pending(EmptyAssembler) = {}
    BY DEF EmptyAssembler
  <1>3. Placed(asm, output, next)
    BY <1>2 DEF Init, Placed
  <1>4. ReadSoFar /\ EvidenceKept
    BY DEF Init, ReadSoFar, EvidenceKept
  <1>. QED
    BY <1>1, <1>3, <1>4 DEF PlacedInv

LEMMA PlacedNext == ASSUME PlacedInv, [Next]_vars PROVE PlacedInv'
  <1>1. TypeOK /\ TypeOK'
    BY NextType DEF PlacedInv
  <1>2. ASSUME NEW line \in Lines, HandleLine(line) PROVE PlacedInv'
    BY <1>2, LineKeepsPlaced
  <1>3. CASE Idle
    BY <1>1, <1>3, IdleMoves, StillPlaced DEF Idle
  <1>4. CASE FlushAllWith("source_gap")
    <2>1. Moves
      BY <1>1, <1>4, FlushAllWithMoves DEF Completion
    <2>. QED
      BY <1>1, <1>4, <2>1, StillPlaced DEF FlushAllWith
  <1>5. CASE UNCHANGED <<asm, output, next, input>>
    BY <1>1, <1>5 DEF PlacedInv, ReadSoFar, EvidenceKept
  <1>. QED
    BY <1>2, <1>3, <1>4, <1>5 DEF Next, Tick, vars

LEMMA OneOrNone ==
    ASSUME NEW T, \A x, y \in T : x = y
    PROVE  Cardinality(T) = IF T = {} THEN 0 ELSE 1
  <1>1. CASE T = {}
    BY <1>1, FS_EmptySet
  <1>2. CASE T # {}
    <2>1. PICK x : x \in T
      BY <1>2
    <2>2. T = {x}
      BY <2>1
    <2>. QED
      BY <1>2, <2>2, FS_Singleton
  <1>. QED
    BY <1>1, <1>2

LEMMA PlacedOnce == PlacedInv => ExactlyOnce
  <1>. SUFFICES ASSUME PlacedInv, NEW l \in 1..(next - 1)
                PROVE  LET places == Cardinality({k \in Pending(asm) : l \in asm.pending[k].lines})
                                        + Cardinality({e \in output : l \in e.lines})
                       IN places <= 1 /\ (Payload(input[l]) => places = 1)
    BY DEF ExactlyOnce
  <1> DEFINE held == {k \in Pending(asm) : l \in asm.pending[k].lines}
             written == {e \in output : l \in e.lines}
  <1>1. \A k, q \in held : k = q
    BY DEF PlacedInv, Placed
  <1>2. \A e, f \in written : e = f
    BY DEF PlacedInv, Placed
  <1>3. held = {} \/ written = {}
    BY DEF PlacedInv, Placed
  <1>4. Payload(input[l]) => held # {} \/ written # {}
    BY DEF PlacedInv, EvidenceKept, Located
  <1>. HIDE DEF held, written
  <1>5. Cardinality(held) = IF held = {} THEN 0 ELSE 1
    BY <1>1, OneOrNone
  <1>6. Cardinality(written) = IF written = {} THEN 0 ELSE 1
    BY <1>2, OneOrNone
  <1>7. /\ Cardinality(held) + Cardinality(written) <= 1
        /\ Payload(input[l]) => Cardinality(held) + Cardinality(written) = 1
    BY <1>3, <1>4, <1>5, <1>6
  <1>. QED
    BY <1>7 DEF held, written

\* No record is dropped and none is written twice by one run (reliability.md,
\* "No source record is intentionally dropped"), whatever the lines, the limits
\* and the clock: each line with evidence is in one unresolved group or in one
\* event of addAt, finish, AddRecovering, rejectLine or flushAll.
THEOREM EvidenceExactlyOnce == Spec => []ExactlyOnce
  <1>1. Spec => []PlacedInv
    BY PlacedInit, PlacedNext, PTL DEF Spec
  <1>. QED
    BY <1>1, PlacedOnce, PTL

-----------------------------------------------------------------------------
(* The replay barriers.  Nothing unresolved lies before p, and a group's   *)
(* first record is one of its lines, so that isolating the group charges   *)
(* a position that is not before p either.                                 *)

From(a, p) ==
    /\ \A k \in Pending(a) : /\ a.pending[k].first \in a.pending[k].lines
                              /\ \A l \in a.pending[k].lines : p <= l
    /\ \A k \in Rejected(a) : p <= a.rejected[k].source
    /\ Fenced(a) => p <= a.spillSource

LEMMA FromFewer ==
    ASSUME NEW a, NEW b, NEW p, From(a, p),
           Pending(b) \subseteq Pending(a),
           \A k \in Pending(b) : /\ b.pending[k].lines = a.pending[k].lines
                                  /\ b.pending[k].first = a.pending[k].first,
           Rejected(b) \subseteq Rejected(a),
           \A k \in Rejected(b) : b.rejected[k].source = a.rejected[k].source,
           Fenced(b) => Fenced(a) /\ b.spillSource = a.spillSource
    PROVE  From(b, p)
  BY DEF From

LEMMA FromFinish ==
    ASSUME NEW a, AsmTypeOK(a), NEW p, From(a, p), NEW keys
    PROVE  From(Finish(a, keys), p)
  <1> DEFINE b == Finish(a, keys)
  <1>1. /\ Pending(b) \subseteq Pending(a)
        /\ \A k \in Pending(b) : b.pending[k] = a.pending[k]
        /\ b.rejected = a.rejected
        /\ b.spillSince = a.spillSince
        /\ b.spillSource = a.spillSource
    BY FinishLemma
  <1>. HIDE DEF b
  <1>2. From(b, p)
    BY <1>1, FromFewer
  <1>. QED
    BY <1>2 DEF b

LEMMA FromServiced ==
    ASSUME NEW a, AsmTypeOK(a), NEW p, From(a, p), NEW t \in Nat
    PROVE  From(Serviced(a, t), p)
  <1> DEFINE b == Serviced(a, t)
  <1>1. /\ Pending(b) \subseteq Pending(a)
        /\ \A k \in Pending(b) : b.pending[k] = a.pending[k]
        /\ Rejected(b) \subseteq Rejected(a)
        /\ \A k \in Rejected(b) : b.rejected[k] = a.rejected[k]
        /\ Fenced(b) => Fenced(a) /\ b.spillSource = a.spillSource
    BY ServicedLemma
  <1>. HIDE DEF b
  <1>2. From(b, p)
    BY <1>1, FromFewer
  <1>. QED
    BY <1>2 DEF b

LEMMA FromMarkMixed ==
    ASSUME NEW a, AsmTypeOK(a), NEW p, From(a, p), NEW k
    PROVE  From(MarkMixed(a, k), p)
  <1> DEFINE b == MarkMixed(a, k)
  <1>1. SameGroups(a, b) /\ SameIsolation(a, b)
    BY MarkMixedLemma
  <1>. HIDE DEF b
  <1>2. From(b, p)
    BY <1>1, FromFewer DEF SameGroups, SameIsolation
  <1>. QED
    BY <1>2 DEF b

LEMMA FromStored ==
    ASSUME NEW a, AsmTypeOK(a), NEW k \in Key, NEW n \in Nat,
           NEW bytes \in Nat, NEW t \in Nat
    PROVE  \A p \in Nat : From(a, p) /\ p <= n => From(Stored(a, k, n, bytes, t), p)
  <1> DEFINE b == Stored(a, k, n, bytes, t)
  <1>1. /\ \A q : q \in Pending(b) <=> q \in Pending(a) \/ q = k
        /\ \A q \in Pending(a) : q # k => b.pending[q].lines = a.pending[q].lines
        /\ k \in Pending(a) => b.pending[k].lines = a.pending[k].lines \cup {n}
        /\ k \notin Pending(a) => b.pending[k].lines = {n}
        /\ \A q \in Pending(a) : b.pending[q].first = a.pending[q].first
        /\ k \notin Pending(a) => b.pending[k].first = n
        /\ SameIsolation(a, b)
    <2>1. StoredAs(a, b, k, n)
      BY StoredLemma
    <2>. HIDE DEF b
    <2>. QED
      BY <2>1 DEF StoredAs
  <1>. HIDE DEF b
  <1>2. ASSUME NEW p \in Nat, From(a, p), p <= n PROVE From(b, p)
    <2>1. \A q \in Pending(b) : /\ b.pending[q].first \in b.pending[q].lines
                                 /\ \A l \in b.pending[q].lines : p <= l
      BY <1>1, <1>2 DEF From
    <2>. QED
      BY <1>1, <1>2, <2>1 DEF From, SameIsolation
  <1>. QED
    BY <1>2 DEF b

LEMMA FromTrack ==
    ASSUME NEW a, AsmTypeOK(a), NEW p \in Nat, From(a, p), NEW k \in Key,
           NEW source \in Nat, p <= source, NEW t \in Nat
    PROVE  From(Track(a, k, source, t), p)
  <1> DEFINE b == Track(a, k, source, t)
  <1>1. /\ b.pending = a.pending
        /\ Rejected(b) = Rejected(a) \cup {k}
        /\ b.rejected[k].source = source
        /\ \A q \in Rejected(a) : q # k => b.rejected[q] = a.rejected[q]
        /\ b.spillSince = a.spillSince
        /\ b.spillSource = a.spillSource
    BY TrackLemma
  <1>. HIDE DEF b
  <1>2. From(b, p)
    BY <1>1 DEF From
  <1>. QED
    BY <1>2 DEF b

LEMMA FromStartSpill ==
    ASSUME NEW a, AsmTypeOK(a), NEW p \in Nat, From(a, p),
           NEW source \in Nat, p <= source, NEW t \in Nat
    PROVE  From(StartSpill(a, source, t), p)
  <1> DEFINE b == StartSpill(a, source, t)
  <1>1. /\ b.pending = a.pending
        /\ b.rejected = a.rejected
        /\ b.spillSource = source \/ (Fenced(a) /\ b.spillSource = a.spillSource)
    BY NoneAssumption DEF StartSpill, AsmTypeOK, EmptyAssembler
  <1>. HIDE DEF b
  <1>2. From(b, p)
    BY <1>1 DEF From
  <1>. QED
    BY <1>2 DEF b

LEMMA FromIsolate ==
    ASSUME NEW a, AsmTypeOK(a), NEW p \in Nat, From(a, p), NEW k \in Key,
           NEW source \in Nat, p <= source, NEW t \in Nat
    PROVE  From(Isolate(a, k, source, t), p)
  BY FromTrack, FromStartSpill DEF Isolate

LEMMA FromTouch ==
    ASSUME NEW a, AsmTypeOK(a), NEW p, From(a, p), NEW k \in Rejected(a), NEW t \in Nat
    PROVE  From(Touch(a, k, t), p)
  <1> DEFINE b == Touch(a, k, t)
  <1>1. /\ b.pending = a.pending
        /\ Rejected(b) = Rejected(a)
        /\ \A q \in Rejected(a) : b.rejected[q].source = a.rejected[q].source
        /\ b.spillSince = a.spillSince
        /\ b.spillSource = a.spillSource
    BY TouchLemma
  <1>. HIDE DEF b
  <1>2. From(b, p)
    BY <1>1, FromFewer
  <1>. QED
    BY <1>2 DEF b

LEMMA FromForget ==
    ASSUME NEW a, AsmTypeOK(a), NEW p, From(a, p), NEW k
    PROVE  From(Forget(a, k), p)
  <1> DEFINE b == Forget(a, k)
  <1>1. /\ b.pending = a.pending
        /\ Rejected(b) \subseteq Rejected(a)
        /\ \A q \in Rejected(b) : b.rejected[q] = a.rejected[q]
        /\ b.spillSince = a.spillSince
        /\ b.spillSource = a.spillSource
    BY ForgetLemma
  <1>. HIDE DEF b
  <1>2. From(b, p)
    BY <1>1, FromFewer
  <1>. QED
    BY <1>2 DEF b

LEMMA FromFlushAll ==
    ASSUME NEW a, AsmTypeOK(a), NEW p
    PROVE  From(FlushAll(a), p)
  BY FlushAllLemma DEF From

\* A group that gives way is charged its first record.
LEMMA FromSource ==
    ASSUME NEW a, AsmTypeOK(a), NEW p \in Nat, From(a, p), NEW k \in Key,
           NEW n \in Nat, p <= n
    PROVE  LET source == IF k \in Pending(a) THEN a.pending[k].first ELSE n IN
           source \in Nat /\ p <= source
  BY DEF From, AsmTypeOK, Group

LEMMA FromS ==
    ASSUME TypeOK, NEW p \in Nat, From(asm, p)
    PROVE  AsmTypeOK(S) /\ From(S, p) /\ next \in Nat /\ now \in Nat
  BY SType, FromServiced DEF TypeOK, S

LEMMA AdmitFrom ==
    ASSUME TypeOK, NEW p \in Nat, From(asm, p), p <= next,
           NEW line \in Lines, Admit(line)
    PROVE  From(asm', p)
  <1> DEFINE k == line.key
             stored == Stored(S, k, next, line.bytes, now)
             boundary == Boundary(line.type, k \in Pending(S))
             closed == IF boundary = None THEN {} ELSE {k}
             settled == Finish(stored, closed)
  <1>1. asm' = Finish(settled, Expired(settled, now))
    BY DEF Admit
  <1>2. k \in Key /\ line.bytes \in Nat
    BY RecordLineType DEF Admit, ReadRecord
  <1>. HIDE DEF k, closed
  <1>3. /\ AsmTypeOK(S) /\ From(S, p) /\ next \in Nat /\ now \in Nat
        /\ AsmTypeOK(stored)
    <2>1. AsmTypeOK(S) /\ From(S, p) /\ next \in Nat /\ now \in Nat
      BY FromS
    <2>2. AsmTypeOK(stored)
      BY <1>2, <2>1, StoredLemma, Zenon
    <2>. QED
      BY <2>1, <2>2
  <1>4. From(stored, p)
    BY <1>2, <1>3, FromStored
  <1>. HIDE DEF stored
  <1>5. AsmTypeOK(settled) /\ From(settled, p)
    BY <1>3, <1>4, FinishLemma, FromFinish
  <1>. HIDE DEF settled
  <1>. QED
    BY <1>1, <1>5, FromFinish

LEMMA RefuseFrom ==
    ASSUME TypeOK, NEW p \in Nat, From(asm, p), p <= next,
           NEW line \in Lines, Refuse(line)
    PROVE  From(asm', p)
  <1> DEFINE k == line.key
             source == IF k \in Pending(S) THEN S.pending[k].first ELSE next
             marked == MarkMixed(S, k)
             dropped == Finish(marked, {k} \cap Pending(S))
  <1>1. asm' \in {dropped, Isolate(dropped, k, source, now)}
    BY DEF Refuse
  <1>2. k \in Key
    BY RecordLineType DEF Refuse, ReadRecord
  <1>3. AsmTypeOK(S) /\ From(S, p) /\ next \in Nat /\ now \in Nat
    BY FromS
  <1>4. source \in Nat /\ p <= source
    BY <1>2, <1>3, FromSource
  <1>. HIDE DEF k, source
  <1>5. AsmTypeOK(marked) /\ From(marked, p)
    BY <1>3, MarkMixedLemma, FromMarkMixed
  <1>. HIDE DEF marked
  <1>6. AsmTypeOK(dropped) /\ From(dropped, p)
    BY <1>5, FinishLemma, FromFinish
  <1>. HIDE DEF dropped
  <1>7. From(Isolate(dropped, k, source, now), p)
    BY <1>2, <1>3, <1>4, <1>6, FromIsolate
  <1>. QED
    BY <1>1, <1>6, <1>7

LEMMA RejectKnownLineFrom ==
    ASSUME TypeOK, NEW p \in Nat, From(asm, p), p <= next,
           NEW line \in Lines, RejectKnownLine(line)
    PROVE  From(asm', p)
  <1> DEFINE k == line.key
             source == IF k \in Pending(S) THEN S.pending[k].first ELSE next
             dropped == Finish(S, {k} \cap Pending(S))
  <1>1. asm' = IF k \in Rejected(S) THEN Touch(dropped, k, now)
               ELSE Isolate(dropped, k, source, now)
    BY DEF RejectKnownLine
  <1>2. k \in Key
    BY OversizeLineType DEF RejectKnownLine
  <1>3. AsmTypeOK(S) /\ From(S, p) /\ next \in Nat /\ now \in Nat
    BY FromS
  <1>4. source \in Nat /\ p <= source
    BY <1>2, <1>3, FromSource
  <1>. HIDE DEF k, source
  <1>5. AsmTypeOK(dropped) /\ From(dropped, p) /\ Rejected(dropped) = Rejected(S)
    BY <1>3, FinishLemma, FromFinish
  <1>. HIDE DEF dropped
  <1>6. CASE k \in Rejected(S)
    BY <1>1, <1>3, <1>5, <1>6, FromTouch
  <1>7. CASE k \notin Rejected(S)
    <2>1. From(Isolate(dropped, k, source, now), p)
      BY <1>2, <1>3, <1>4, <1>5, FromIsolate
    <2>. QED
      BY <1>1, <1>7, <2>1
  <1>. QED
    BY <1>6, <1>7

LEMMA HandleLineFrom ==
    ASSUME TypeOK, NEW p \in Nat, From(asm, p), p <= next,
           NEW line \in Lines, HandleLine(line)
    PROVE  From(asm', p)
  <1>1. AsmTypeOK(S) /\ From(S, p) /\ next \in Nat /\ now \in Nat
    BY FromS
  <1>2. CASE AddRejected(line)
    <2>1. asm' \in {Forget(S, line.key), Touch(S, line.key, now)} /\ line.key \in Rejected(S)
      BY <1>2 DEF AddRejected
    <2>. QED
      BY <1>1, <2>1, FromForget, FromTouch
  <1>3. CASE CloseFullGroup(line)
    BY <1>1, <1>3, FromFinish DEF CloseFullGroup
  <1>4. CASE AddFenced(line)
    <2>1. asm' \in {S, Track(S, line.key, S.spillSource, now), StartSpill(S, next, now)}
      BY <1>4 DEF AddFenced
    <2>2. S.spillSource \in Nat /\ p <= S.spillSource
      BY <1>1, <1>4 DEF AddFenced, AsmTypeOK, From
    <2>3. line.key \in Key
      BY <1>4, RecordLineType DEF AddFenced, ReadRecord
    <2>4. From(Track(S, line.key, S.spillSource, now), p)
      BY <1>1, <2>2, <2>3, FromTrack
    <2>5. From(StartSpill(S, next, now), p)
      BY <1>1, FromStartSpill
    <2>. QED
      BY <1>1, <2>1, <2>4, <2>5
  <1>5. CASE OrphanEOE(line)
    BY <1>1, <1>5, FromMarkMixed DEF OrphanEOE
  <1>6. CASE ParseFailure(line)
    BY <1>1, <1>6 DEF ParseFailure
  <1>7. CASE RejectUnknownLine(line)
    <2>1. From(FlushAll(S), p) /\ AsmTypeOK(FlushAll(S))
      BY <1>1, FromFlushAll, FlushAllLemma
    <2>2. From(StartSpill(FlushAll(S), next, now), p)
      BY <1>1, <2>1, FromStartSpill
    <2>. QED
      BY <1>7, <2>2 DEF RejectUnknownLine
  <1>. QED
    BY <1>2, <1>3, <1>4, <1>5, <1>6, <1>7, AdmitFrom, RefuseFrom, RejectKnownLineFrom
    DEF HandleLine

LEMMA NextFrom ==
    ASSUME TypeOK, NEW p \in Nat, From(asm, p), p <= next, [Next]_vars
    PROVE  From(asm', p) /\ p <= next'
  <1>1. next \in Nat /\ AsmTypeOK(asm)
    BY DEF TypeOK
  <1>2. ASSUME NEW line \in Lines, HandleLine(line) PROVE From(asm', p) /\ p <= next'
    <2>1. next' = next + 1
      BY <1>2, HandlerReads DEF Read
    <2>. QED
      BY <1>1, <1>2, <2>1, HandleLineFrom
  <1>3. CASE Idle
    BY <1>3, FromS DEF Idle
  <1>4. CASE FlushAllWith("source_gap")
    BY <1>1, <1>4, FromFlushAll DEF FlushAllWith
  <1>5. CASE UNCHANGED <<asm, next>>
    BY <1>5
  <1>. QED
    BY <1>2, <1>3, <1>4, <1>5 DEF Next, Tick, vars

LEMMA SafeIs ==
    ASSUME NEW a, AsmTypeOK(a), NEW n \in Nat
    PROVE  LET s == SafeSourcePosition(a, n) IN
           /\ s \in Nat /\ s <= n
           /\ \A l \in Barriers(a) : s <= l
           /\ \A p \in Nat : p <= n /\ (\A l \in Barriers(a) : p <= l) => p <= s
  <1> DEFINE T == Barriers(a) \cup {n}
             s == Min(T)
  <1>1. T \in SUBSET Nat /\ T # {} /\ n \in T
    <2>1. \A k \in Pending(a) : a.pending[k].lines \subseteq Nat
      BY DEF AsmTypeOK, Group
    <2>2. \A k \in Rejected(a) : a.rejected[k].source \in Nat
      BY DEF AsmTypeOK, Rejection
    <2>3. {a.spillSource} \ {None} \subseteq Nat
      BY DEF AsmTypeOK
    <2>4. Barriers(a) \subseteq Nat
      BY <2>1, <2>2, <2>3 DEF Barriers
    <2>. QED
      BY <2>4
  <1>2. T = Barriers(a) \cup {n}
    OBVIOUS
  <1>. HIDE DEF T
  <1>3. s \in T /\ \A l \in T : s <= l
    BY <1>1, MinIs
  <1>. HIDE DEF s
  <1>4. /\ s \in Nat /\ s <= n
        /\ \A l \in Barriers(a) : s <= l
        /\ \A p \in Nat : p <= n /\ (\A l \in Barriers(a) : p <= l) => p <= s
    BY <1>1, <1>2, <1>3
  <1>. QED
    BY <1>4 DEF s, T, SafeSourcePosition

LEMMA FromIsBarrier ==
    ASSUME NEW a, AsmTypeOK(a), NEW p
    PROVE  /\ From(a, p) => \A l \in Barriers(a) : p <= l
           /\ From(a, 0) /\ (\A l \in Barriers(a) : p <= l) => From(a, p)
  <1>1. ASSUME From(a, p), NEW l \in Barriers(a) PROVE p <= l
    <2>1. \/ \E k \in Pending(a) : l \in a.pending[k].lines
          \/ \E k \in Rejected(a) : l = a.rejected[k].source
          \/ l = a.spillSource /\ l # None
      BY <1>1 DEF Barriers
    <2>. QED
      BY <1>1, <2>1 DEF From, AsmTypeOK
  <1>2. ASSUME From(a, 0), \A l \in Barriers(a) : p <= l PROVE From(a, p)
    <2>1. \A k \in Pending(a) : \A l \in a.pending[k].lines : l \in Barriers(a)
      BY DEF Barriers
    <2>2. \A k \in Rejected(a) : a.rejected[k].source \in Barriers(a)
      BY DEF Barriers
    <2>3. Fenced(a) => a.spillSource \in Barriers(a)
      BY DEF Barriers, AsmTypeOK
    <2>. QED
      BY <1>2, <2>1, <2>2, <2>3 DEF From
  <1>. QED
    BY <1>1, <1>2

FirstInv == TypeOK /\ From(asm, 0)

LEMMA FirstInvHolds == Spec => []FirstInv
  <1>1. Init => FirstInv
    BY InitType, NoneAssumption DEF FirstInv, From, Init, EmptyAssembler
  <1>2. FirstInv /\ [Next]_vars => FirstInv'
    BY NextType, NextFrom DEF FirstInv, TypeOK
  <1>. QED
    BY <1>1, <1>2, PTL DEF Spec

LEMMA SafeStep ==
    ASSUME FirstInv, [Next]_vars
    PROVE  SafeSourcePosition(asm, next) <= SafeSourcePosition(asm', next')
  <1> DEFINE p == SafeSourcePosition(asm, next)
  <1>1. AsmTypeOK(asm) /\ AsmTypeOK(asm') /\ next \in Nat /\ next' \in Nat
    BY NextType DEF FirstInv, TypeOK
  <1>2. p \in Nat /\ p <= next /\ \A l \in Barriers(asm) : p <= l
    BY <1>1, SafeIs
  <1>. HIDE DEF p
  <1>3. From(asm, p)
    BY <1>1, <1>2, FromIsBarrier DEF FirstInv
  <1>4. From(asm', p) /\ p <= next'
    BY <1>2, <1>3, NextFrom DEF FirstInv
  <1>5. \A l \in Barriers(asm') : p <= l
    BY <1>1, <1>4, FromIsBarrier
  <1>6. p <= SafeSourcePosition(asm', next')
    BY <1>1, <1>2, <1>4, <1>5, SafeIs
  <1>. QED
    BY <1>6 DEF p

\* The position a checkpoint may be written at never moves back, so that
\* main.go persist never meets "checkpoint position regressed" in one process:
\* an isolated group is charged its first record, a raised fence keeps the
\* lower of its positions (SafeSourcePosition, isolateAt, startSpill).
THEOREM SafePositionNeverRegresses == Spec => SafeNeverRegresses
  <1>1. FirstInv /\ [Next]_vars
          => [SafeSourcePosition(asm, next) <= SafeSourcePosition(asm', next')]_vars
    BY SafeStep
  <1>. QED
    BY <1>1, FirstInvHolds, PTL DEF Spec, SafeNeverRegresses

-----------------------------------------------------------------------------
(* The fence.                                                              *)

\* The step leaves the fence as it was, or lifts it.
FenceStays == asm'.spillSince \in {None, asm.spillSince}

LEMMA ServicedFence ==
    ASSUME TypeOK
    PROVE  S.spillSince \in {None, asm.spillSince}
  <1>1. AsmTypeOK(asm) /\ now \in Nat
    BY DEF TypeOK
  <1>2. Fenced(S) => S.spillSince = asm.spillSince
    BY <1>1, ServicedLemma DEF S
  <1>. QED
    BY <1>2

LEMMA AdmitFence ==
    ASSUME TypeOK, NEW line \in Lines, Admit(line)
    PROVE  asm'.spillSince = S.spillSince
  <1> DEFINE k == line.key
             stored == Stored(S, k, next, line.bytes, now)
             boundary == Boundary(line.type, k \in Pending(S))
             settled == Finish(stored, IF boundary = None THEN {} ELSE {k})
  <1>1. asm' = Finish(settled, Expired(settled, now))
    BY DEF Admit
  <1>2. k \in Key /\ line.bytes \in Nat
    BY RecordLineType DEF Admit, ReadRecord
  <1>3. AsmTypeOK(S) /\ next \in Nat /\ now \in Nat
    BY AtS
  <1>. HIDE DEF k, boundary
  <1>4. AsmTypeOK(stored)
    BY <1>2, <1>3, StoredLemma, Zenon
  <1>5. SameIsolation(S, stored)
    BY <1>2, <1>3, StoredLemma DEF StoredAs
  <1>. HIDE DEF stored
  <1>6. AsmTypeOK(settled) /\ settled.spillSince = stored.spillSince
    BY <1>4, FinishLemma
  <1>. HIDE DEF settled
  <1>7. asm'.spillSince = settled.spillSince
    BY <1>1, <1>6, FinishLemma
  <1>. QED
    BY <1>5, <1>6, <1>7 DEF SameIsolation

\* A fence raised for want of room makes none.
LEMMA SpillUntracked ==
    ASSUME NEW a, AsmTypeOK(a), NEW k \in Key, k \notin Pending(a) \cup Rejected(a),
           ~Trackable(a, k), NEW source \in Nat, NEW t \in Nat
    PROVE  Untracked(StartSpill(a, source, t), k)
  <1> DEFINE b == StartSpill(a, source, t)
  <1>1. b.pending = a.pending /\ b.rejected = a.rejected
    BY StartSpillLemma
  <1>2. b.rejectionBytes = a.rejectionBytes
    BY DEF StartSpill, AsmTypeOK, EmptyAssembler
  <1>. QED
    BY <1>1, <1>2 DEF Untracked, Trackable

\* Only a key that stays untracked raises the fence.
LEMMA IsolateFence ==
    ASSUME NEW a, AsmTypeOK(a), NEW k \in Key, k \notin Pending(a) \cup Rejected(a),
           NEW source \in Nat, NEW t \in Nat
    PROVE  LET b == Isolate(a, k, source, t) IN
           b.spillSince = a.spillSince \/ Untracked(b, k)
  <1>1. CASE Trackable(a, k)
    BY <1>1, TrackLemma DEF Isolate
  <1>2. CASE ~Trackable(a, k)
    BY <1>2, SpillUntracked DEF Isolate
  <1>. QED
    BY <1>1, <1>2

LEMMA RefuseFence ==
    ASSUME TypeOK, NEW line \in Lines, Refuse(line)
    PROVE  asm'.spillSince = S.spillSince \/ RenewsFence(line, asm', broken')
  <1> DEFINE k == line.key
             source == IF k \in Pending(S) THEN S.pending[k].first ELSE next
             marked == MarkMixed(S, k)
             dropped == Finish(marked, {k} \cap Pending(S))
  <1>1. /\ asm' = IF ClosesRejection(line.type) THEN dropped
                  ELSE Isolate(dropped, k, source, now)
        /\ k \notin Rejected(S) /\ line.kind = "record"
        /\ TaintUnless(ClosesRejection(line.type), k)
    BY DEF Refuse, Admissible, ReadRecord
  <1>2. k \in Key
    BY RecordLineType DEF Refuse, ReadRecord
  <1>3. AsmTypeOK(S) /\ next \in Nat /\ now \in Nat
    BY AtS
  <1>4. source \in Nat
    BY <1>2, <1>3, RetainedType
  <1>. HIDE DEF source
  <1>5. AsmTypeOK(marked) /\ SameGroups(S, marked) /\ SameIsolation(S, marked)
    BY <1>3, MarkMixedLemma
  <1>. HIDE DEF marked
  <1>6. /\ AsmTypeOK(dropped) /\ dropped.rejected = S.rejected
        /\ dropped.spillSince = S.spillSince /\ k \notin Pending(dropped)
    BY <1>5, FinishLemma DEF SameGroups, SameIsolation
  <1>. HIDE DEF dropped
  <1>7. CASE ClosesRejection(line.type)
    BY <1>1, <1>6, <1>7
  <1>8. CASE ~ClosesRejection(line.type)
    <2>1. asm'.spillSince = dropped.spillSince \/ Untracked(asm', k)
      BY <1>1, <1>2, <1>3, <1>4, <1>6, <1>8, IsolateFence
    <2>2. broken'[k] = now
      BY <1>1, <1>2, <1>8 DEF TaintUnless, Taint, TypeOK
    <2>. QED
      BY <1>1, <1>6, <1>8, <2>1, <2>2 DEF RenewsFence
  <1>. QED
    BY <1>7, <1>8

LEMMA RejectKnownLineFence ==
    ASSUME TypeOK, NEW line \in Lines, RejectKnownLine(line)
    PROVE  asm'.spillSince = S.spillSince \/ RenewsFence(line, asm', broken')
  <1> DEFINE k == line.key
             source == IF k \in Pending(S) THEN S.pending[k].first ELSE next
             dropped == Finish(S, {k} \cap Pending(S))
  <1>1. /\ asm' = IF k \in Rejected(S) THEN Touch(dropped, k, now)
                  ELSE Isolate(dropped, k, source, now)
        /\ line.kind = "oversize" /\ Taint(k)
    BY DEF RejectKnownLine
  <1>2. k \in Key
    BY OversizeLineType DEF RejectKnownLine
  <1>3. AsmTypeOK(S) /\ next \in Nat /\ now \in Nat
    BY AtS
  <1>4. source \in Nat
    BY <1>2, <1>3, RetainedType
  <1>. HIDE DEF source
  <1>5. /\ AsmTypeOK(dropped) /\ dropped.rejected = S.rejected
        /\ dropped.spillSince = S.spillSince /\ k \notin Pending(dropped)
    BY <1>3, FinishLemma
  <1>. HIDE DEF dropped
  <1>6. CASE k \in Rejected(S)
    BY <1>1, <1>3, <1>5, <1>6, TouchLemma
  <1>7. CASE k \notin Rejected(S)
    <2>1. asm'.spillSince = dropped.spillSince \/ Untracked(asm', k)
      BY <1>1, <1>2, <1>3, <1>4, <1>5, <1>7, IsolateFence
    <2>2. broken'[k] = now
      BY <1>1, <1>2 DEF Taint, TypeOK
    <2>. QED
      BY <1>1, <1>5, <2>1, <2>2 DEF RenewsFence
  <1>. QED
    BY <1>6, <1>7

LEMMA LineFence ==
    ASSUME TypeOK, NEW line \in Lines, HandleLine(line)
    PROVE  FenceStays \/ RenewsFence(line, asm', broken')
  <1>1. AsmTypeOK(S) /\ next \in Nat /\ now \in Nat
    BY AtS
  <1>2. CASE AddRejected(line)
    <2>1. asm' \in {Forget(S, line.key), Touch(S, line.key, now)} /\ line.key \in Rejected(S)
      BY <1>2 DEF AddRejected
    <2>2. asm'.spillSince = S.spillSince
      BY <1>1, <2>1, ForgetLemma, TouchLemma
    <2>. QED
      BY <2>2, ServicedFence DEF FenceStays
  <1>3. CASE CloseFullGroup(line)
    <2>1. asm'.spillSince = S.spillSince
      BY <1>1, <1>3, FinishLemma DEF CloseFullGroup
    <2>. QED
      BY <2>1, ServicedFence DEF FenceStays
  <1>4. CASE AddFenced(line)
    <2>1. /\ line.kind = "record" /\ S.spillSource \in Nat
          /\ line.key \notin Pending(S) \cup Rejected(S)
          /\ asm' = IF ClosesRejection(line.type) THEN S
                    ELSE IF Trackable(S, line.key)
                         THEN Track(S, line.key, S.spillSource, now)
                         ELSE StartSpill(S, next, now)
          /\ TaintUnless(ClosesRejection(line.type), line.key)
      BY <1>1, <1>4 DEF AddFenced, ReadRecord, AsmTypeOK
    <2>2. line.key \in Key
      BY <1>4, RecordLineType DEF AddFenced, ReadRecord
    <2>3. Track(S, line.key, S.spillSource, now).spillSince = S.spillSince
      BY <1>1, <2>1, <2>2, TrackLemma
    <2>4. ~Trackable(S, line.key) => Untracked(StartSpill(S, next, now), line.key)
      BY <1>1, <2>1, <2>2, SpillUntracked
    <2>5. \/ asm'.spillSince = S.spillSince
          \/ ~ClosesRejection(line.type) /\ Untracked(asm', line.key)
      BY <2>1, <2>3, <2>4
    <2>6. ~ClosesRejection(line.type) => broken'[line.key] = now
      BY <2>1, <2>2 DEF TaintUnless, Taint, TypeOK
    <2>. QED
      BY <2>1, <2>5, <2>6, ServicedFence DEF FenceStays, RenewsFence
  <1>5. CASE OrphanEOE(line)
    <2>1. asm'.spillSince = S.spillSince
      BY <1>1, <1>5, MarkMixedLemma DEF OrphanEOE, SameIsolation
    <2>. QED
      BY <2>1, ServicedFence DEF FenceStays
  <1>6. CASE ParseFailure(line)
    BY <1>6, ServicedFence DEF ParseFailure, FenceStays
  <1>7. CASE RejectUnknownLine(line)
    BY <1>7 DEF RejectUnknownLine, RenewsFence
  <1>. QED
    BY <1>2, <1>3, <1>4, <1>5, <1>6, <1>7, AdmitFence, RefuseFence, RejectKnownLineFence,
       ServicedFence DEF HandleLine, FenceStays

LEMMA FenceStep ==
    ASSUME PlacedInv, [Next]_vars
    PROVE  FenceStays \/ RenewsFence(input'[next], asm', broken')
  <1>1. TypeOK /\ ReadSoFar /\ AsmTypeOK(asm)
    BY DEF PlacedInv, TypeOK
  <1>2. ASSUME NEW line \in Lines, HandleLine(line)
        PROVE  FenceStays \/ RenewsFence(input'[next], asm', broken')
    <2>1. input'[next] = line
      BY <1>1, <1>2, HandlerReads, ReadLine
    <2>. QED
      BY <1>1, <1>2, <2>1, LineFence
  <1>3. CASE Idle
    BY <1>1, <1>3, ServicedFence DEF Idle, FenceStays
  <1>4. CASE FlushAllWith("source_gap")
    BY <1>1, <1>4, FlushAllLemma DEF FlushAllWith, FenceStays
  <1>5. CASE UNCHANGED asm
    BY <1>5 DEF FenceStays
  <1>. QED
    BY <1>2, <1>3, <1>4, <1>5 DEF Next, Tick, vars

\* Whatever the limits and the input, a line renews the fence only by losing
\* evidence of a key that stays open and that the rejected table has no room
\* for, or of every key (isolation.go AddRecovering, isolateAt, startSpill):
\* traffic of pending and of tracked keys, records that end their group, and
\* expiry never renew it.
THEOREM FenceRenewedByUntracked == Spec => FenceRenewal
  <1>1. Spec => []PlacedInv
    BY PlacedInit, PlacedNext, PTL DEF Spec
  <1>2. PlacedInv /\ [Next]_vars
          => [asm'.spillSince \notin {None, asm.spillSince}
                => RenewsFence(input'[next], asm', broken')]_vars
    BY FenceStep DEF FenceStays
  <1>. QED
    BY <1>1, <1>2, PTL DEF Spec, FenceRenewal

-----------------------------------------------------------------------------
(* What a group is closed with.  Retiring groups.                          *)

SameLatest(a, b) ==
    /\ b.latestAuditTime = a.latestAuditTime
    /\ b.latestAuditNode = a.latestAuditNode

\* b has some of the groups of a, as they were but for a mark.
Drops(a, b) ==
    /\ Pending(b) \subseteq Pending(a)
    /\ \A k \in Pending(b) :
         /\ b.pending[k].lines = a.pending[k].lines
         /\ b.pending[k].auditTime = a.pending[k].auditTime
         /\ a.pending[k].mixed => b.pending[k].mixed
    /\ SameLatest(a, b)

\* The event of one of the groups of a.
Closes(a, e) ==
    \E k \in Pending(a) :
        /\ e.key = k
        /\ e.lines = a.pending[k].lines
        /\ a.pending[k].mixed => e.mixed
        /\ e.completion = "watermark" => PastWatermark(a, k)

\* A line that is written on its own.
Loose(e) == e.completion = "exception" \/ (e.completion = "malformed" /\ e.key = None)

Retires(a, out, b, out2) ==
    /\ Drops(a, b)
    /\ \A e \in out2 : e \in out \/ Closes(a, e) \/ Loose(e)

LEMMA DropsTwice ==
    ASSUME NEW a, NEW b, NEW c, Drops(a, b), Drops(b, c)
    PROVE  Drops(a, c)
  BY DEF Drops, SameLatest

LEMMA ClosedBefore ==
    ASSUME NEW a, NEW b, Drops(a, b), NEW e, Closes(b, e)
    PROVE  Closes(a, e)
  BY DEF Drops, SameLatest, Closes, PastWatermark

LEMMA RetiresTwice ==
    ASSUME NEW a, NEW o, NEW b, NEW p, NEW c, NEW q,
           Retires(a, o, b, p), Retires(b, p, c, q)
    PROVE  Retires(a, o, c, q)
  <1>1. Drops(a, c)
    BY DropsTwice DEF Retires
  <1>2. ASSUME NEW e \in q PROVE e \in o \/ Closes(a, e) \/ Loose(e)
    BY ClosedBefore DEF Retires
  <1>. QED
    BY <1>1, <1>2 DEF Retires

LEMMA DropsNothing ==
    ASSUME NEW a, NEW b, b.pending = a.pending, SameLatest(a, b)
    PROVE  Drops(a, b)
  BY DEF Drops

-----------------------------------------------------------------------------
(* The operators.                                                          *)

LEMMA LatestKept ==
    ASSUME NEW a, AsmTypeOK(a)
    PROVE  /\ \A keys : SameLatest(a, Finish(a, keys))
           /\ \A t : SameLatest(a, ExpireRejected(a, t))
           /\ \A k, source, t : SameLatest(a, Track(a, k, source, t))
           /\ \A source, t : SameLatest(a, StartSpill(a, source, t))
           /\ \A k, t : SameLatest(a, Touch(a, k, t))
           /\ \A k : SameLatest(a, Forget(a, k))
           /\ \A k : SameLatest(a, MarkMixed(a, k))
           /\ \A k, n, bytes, t : SameLatest(a, Store(a, k, n, bytes, t))
  BY DEF SameLatest, AsmTypeOK, EmptyAssembler, Finish, ExpireRejected, Track,
     StartSpill, Touch, Forget, MarkMixed, Store

LEMMA DropsFinish ==
    ASSUME NEW a, AsmTypeOK(a), NEW keys
    PROVE  Drops(a, Finish(a, keys))
  <1> DEFINE b == Finish(a, keys)
  <1>1. /\ Pending(b) \subseteq Pending(a)
        /\ \A k \in Pending(b) : b.pending[k] = a.pending[k]
    BY FinishLemma
  <1>2. SameLatest(a, b)
    BY LatestKept
  <1>. HIDE DEF b
  <1>3. Drops(a, b)
    BY <1>1, <1>2 DEF Drops
  <1>. QED
    BY <1>3 DEF b

LEMMA DropsServiced ==
    ASSUME NEW a, AsmTypeOK(a), NEW t \in Nat
    PROVE  Drops(a, Serviced(a, t))
  <1> DEFINE f == Finish(a, Expired(a, t))
             b == ExpireRejected(f, t)
  <1>1. Drops(a, f) /\ AsmTypeOK(f)
    BY DropsFinish, FinishLemma
  <1>. HIDE DEF f
  <1>2. b.pending = f.pending /\ SameLatest(f, b)
    BY <1>1, ExpireRejectedLemma, LatestKept
  <1>. HIDE DEF b
  <1>3. Drops(a, b)
    BY <1>1, <1>2, DropsNothing, DropsTwice
  <1>. QED
    BY <1>3 DEF Serviced, b, f

\* What MarkMixed does to the mark, and that it does nothing else.
LEMMA MarkMixedFields ==
    ASSUME NEW a, AsmTypeOK(a), NEW k
    PROVE  \A q \in Pending(a) :
              /\ MarkMixed(a, k).pending[q].mixed <=> a.pending[q].mixed \/ Twins(q, k)
              /\ MarkMixed(a, k).pending[q].auditTime = a.pending[q].auditTime
  <1> DEFINE groups == [q \in Pending(a) |->
                         [a.pending[q] EXCEPT !.mixed = @ \/ Twins(q, k)]]
  <1>1. ASSUME NEW q \in Pending(a)
        PROVE  /\ groups[q].mixed <=> a.pending[q].mixed \/ Twins(q, k)
               /\ groups[q].auditTime = a.pending[q].auditTime
    <2>1. PICK g \in Group : g = a.pending[q]
      BY DEF AsmTypeOK
    <2>2. groups[q] = [g EXCEPT !.mixed = @ \/ Twins(q, k)]
      BY <2>1
    <2>. HIDE DEF groups
    <2>. QED
      BY <2>1, <2>2 DEF Group
  <1>2. MarkMixed(a, k).pending = groups
    BY DEF MarkMixed, AsmTypeOK, EmptyAssembler
  <1>. HIDE DEF groups
  <1>. QED
    BY <1>1, <1>2

LEMMA DropsMarkMixed ==
    ASSUME NEW a, AsmTypeOK(a), NEW k
    PROVE  Drops(a, MarkMixed(a, k))
  <1>1. SameGroups(a, MarkMixed(a, k))
    BY MarkMixedLemma
  <1>2. SameLatest(a, MarkMixed(a, k))
    BY LatestKept
  <1>. QED
    BY <1>1, <1>2, MarkMixedFields DEF Drops, SameGroups

LEMMA DropsIsolate ==
    ASSUME NEW a, AsmTypeOK(a), NEW k \in Key, NEW source \in Nat, NEW t \in Nat
    PROVE  Drops(a, Isolate(a, k, source, t))
  <1>1. Isolate(a, k, source, t).pending = a.pending
    BY IsolateLemma
  <1>2. SameLatest(a, Isolate(a, k, source, t))
    BY LatestKept DEF Isolate
  <1>. QED
    BY <1>1, <1>2, DropsNothing

LEMMA DropsFlushAll ==
    ASSUME NEW a, AsmTypeOK(a)
    PROVE  Drops(a, FlushAll(a))
  <1>1. Pending(FlushAll(a)) = {}
    BY FlushAllLemma
  <1>2. SameLatest(a, FlushAll(a))
    <2> DEFINE f == Finish(a, Pending(a))
    <2>1. SameLatest(a, f) /\ AsmTypeOK(f)
      BY LatestKept, FinishLemma
    <2>2. FlushAll(a) = [f EXCEPT !.rejected = << >>, !.rejectionBytes = 0,
                                  !.spillSince = None, !.spillSource = None]
      BY DEF FlushAll
    <2>. HIDE DEF f
    <2>. QED
      BY <2>1, <2>2 DEF SameLatest, AsmTypeOK, EmptyAssembler
  <1>. QED
    BY <1>1, <1>2 DEF Drops

LEMMA GroupCloses ==
    ASSUME NEW a, NEW k \in Pending(a), NEW c, c = "watermark" => PastWatermark(a, k)
    PROVE  Closes(a, GroupEvent(a, k, c))
  BY DEF Closes, GroupEvent

LEMMA ExpiredCloses ==
    ASSUME NEW a, NEW t
    PROVE  \A e \in ExpiredEvents(a, t) : Closes(a, e)
  <1>1. ASSUME NEW k \in Expired(a, t)
        PROVE  Closes(a, GroupEvent(a, k,
                  IF PastWatermark(a, k) THEN "watermark" ELSE "timeout"))
    <2>1. k \in Pending(a)
      BY DEF Expired
    <2>. QED
      BY <2>1, GroupCloses
  <1>. QED
    BY <1>1 DEF ExpiredEvents

LEMMA ExceptionsLoose ==
    ASSUME NEW k, NEW ls
    PROVE  \A e \in Exceptions(k, ls) : Loose(e)
  BY DEF Exceptions, Loose

LEMMA RetiresS ==
    ASSUME TypeOK
    PROVE  Retires(asm, output, S, Left) /\ AsmTypeOK(S) /\ now \in Nat /\ next \in Nat
  <1>1. AsmTypeOK(asm) /\ now \in Nat /\ next \in Nat
    BY DEF TypeOK
  <1>2. Drops(asm, S)
    BY <1>1, DropsServiced DEF S
  <1>3. \A e \in Left : e \in output \/ Closes(asm, e)
    BY ExpiredCloses DEF Left
  <1>. QED
    BY <1>1, <1>2, <1>3, SType DEF Retires

-----------------------------------------------------------------------------
(* Every step but an admission retires groups.                             *)

Settles == Retires(asm, output, asm', output')

LEMMA SettlesFromS ==
    ASSUME TypeOK, Drops(S, asm'), NEW events, output' = Left \cup events,
           \A e \in events : Closes(S, e) \/ Loose(e)
    PROVE  Settles
  <1>1. Retires(S, Left, asm', output')
    BY DEF Retires
  <1>. QED
    BY <1>1, RetiresS, RetiresTwice DEF Settles

LEMMA EmitLeft ==
    ASSUME NEW events, Emit(events)
    PROVE  output' = Left \cup events
  BY DEF Emit, Left

LEMMA AddRejectedSettles ==
    ASSUME TypeOK, NEW line \in Lines, AddRejected(line)
    PROVE  Settles
  <1>1. /\ asm' \in {Forget(S, line.key), Touch(S, line.key, now)}
        /\ line.key \in Rejected(S)
        /\ Emit(Exceptions(line.key, {next}))
    BY DEF AddRejected
  <1>2. asm'.pending = S.pending /\ SameLatest(S, asm')
    BY <1>1, RetiresS, ForgetLemma, TouchLemma, LatestKept
  <1>. QED
    BY <1>1, <1>2, DropsNothing, EmitLeft, ExceptionsLoose, SettlesFromS

LEMMA CloseFullGroupSettles ==
    ASSUME TypeOK, NEW line \in Lines, CloseFullGroup(line)
    PROVE  Settles
  <1>1. /\ asm' = Finish(S, {line.key})
        /\ line.key \in Pending(S)
        /\ Emit({GroupEvent(S, line.key, "eoe")})
    BY DEF CloseFullGroup
  <1>2. Closes(S, GroupEvent(S, line.key, "eoe"))
    BY <1>1, GroupCloses
  <1>3. Drops(S, asm')
    BY <1>1, RetiresS, DropsFinish
  <1>. QED
    BY <1>1, <1>2, <1>3, EmitLeft, SettlesFromS

LEMMA AddFencedSettles ==
    ASSUME TypeOK, NEW line \in Lines, AddFenced(line)
    PROVE  Settles
  <1>1. /\ asm' \in {S, Track(S, line.key, S.spillSource, now), StartSpill(S, next, now)}
        /\ Emit(Exceptions(line.key, {next}))
        /\ line.key \in Key
        /\ Fenced(S)
    BY RecordLineType DEF AddFenced, ReadRecord
  <1>2. AsmTypeOK(S) /\ now \in Nat /\ next \in Nat
    BY RetiresS
  <1>3. S.spillSource \in Nat
    BY <1>1, <1>2 DEF AsmTypeOK
  <1>4. asm'.pending = S.pending
    <2>1. Track(S, line.key, S.spillSource, now).pending = S.pending
      BY <1>1, <1>2, <1>3, TrackLemma
    <2>2. StartSpill(S, next, now).pending = S.pending
      BY <1>2, StartSpillLemma
    <2>. QED
      BY <1>1, <2>1, <2>2
  <1>5. SameLatest(S, asm')
    BY <1>1, <1>2, LatestKept DEF SameLatest
  <1>. QED
    BY <1>1, <1>4, <1>5, DropsNothing, EmitLeft, ExceptionsLoose, SettlesFromS

LEMMA OrphanEOESettles ==
    ASSUME TypeOK, NEW line \in Lines, OrphanEOE(line)
    PROVE  Settles
  BY RetiresS, DropsMarkMixed, EmitLeft, SettlesFromS DEF OrphanEOE

LEMMA RefuseSettles ==
    ASSUME TypeOK, NEW line \in Lines, Refuse(line)
    PROVE  Settles
  <1> DEFINE k == line.key
             source == IF k \in Pending(S) THEN S.pending[k].first ELSE next
             retained == IF k \in Pending(S) THEN S.pending[k].lines ELSE {}
             marked == MarkMixed(S, k)
             dropped == Finish(marked, {k} \cap Pending(S))
  <1>1. /\ asm' \in {dropped, Isolate(dropped, k, source, now)}
        /\ Emit(Exceptions(k, retained \cup {next}))
    BY DEF Refuse
  <1>2. k \in Key
    BY RecordLineType DEF Refuse, ReadRecord
  <1>3. AsmTypeOK(S) /\ now \in Nat /\ next \in Nat
    BY RetiresS
  <1>4. source \in Nat
    BY <1>3 DEF AsmTypeOK, Group
  <1>. HIDE DEF k, source, retained
  <1>5. AsmTypeOK(marked) /\ Drops(S, marked)
    BY <1>3, MarkMixedLemma, DropsMarkMixed
  <1>. HIDE DEF marked
  <1>6. AsmTypeOK(dropped) /\ Drops(S, dropped)
    BY <1>5, FinishLemma, DropsFinish, DropsTwice
  <1>. HIDE DEF dropped
  <1>7. Drops(S, asm')
    BY <1>1, <1>2, <1>3, <1>4, <1>6, DropsIsolate, DropsTwice
  <1>. QED
    BY <1>1, <1>7, EmitLeft, ExceptionsLoose, SettlesFromS

LEMMA ParseFailureSettles ==
    ASSUME TypeOK, NEW line \in Lines, ParseFailure(line)
    PROVE  Settles
  <1>1. asm' = S /\ Emit({LineEvent(None, "malformed")})
    BY DEF ParseFailure
  <1>2. Loose(LineEvent(None, "malformed"))
    BY DEF Loose, LineEvent
  <1>3. Drops(S, asm')
    BY <1>1, DropsNothing DEF SameLatest
  <1>. QED
    BY <1>1, <1>2, <1>3, EmitLeft, SettlesFromS

LEMMA LineEventLoose == ASSUME NEW k PROVE Loose(LineEvent(k, "exception"))
  BY DEF Loose, LineEvent

LEMMA RejectKnownLineSettles ==
    ASSUME TypeOK, NEW line \in Lines, RejectKnownLine(line)
    PROVE  Settles
  <1> DEFINE k == line.key
             source == IF k \in Pending(S) THEN S.pending[k].first ELSE next
             retained == IF k \in Pending(S) THEN S.pending[k].lines ELSE {}
             dropped == Finish(S, {k} \cap Pending(S))
  <1>1. /\ asm' = IF k \in Rejected(S) THEN Touch(dropped, k, now)
                  ELSE Isolate(dropped, k, source, now)
        /\ Emit(Exceptions(k, retained) \cup {LineEvent(k, "exception")})
    BY DEF RejectKnownLine
  <1>2. k \in Key
    BY OversizeLineType DEF RejectKnownLine
  <1>3. AsmTypeOK(S) /\ now \in Nat /\ next \in Nat
    BY RetiresS
  <1>4. source \in Nat
    BY <1>3 DEF AsmTypeOK, Group
  <1>. HIDE DEF k, source, retained
  <1>5. AsmTypeOK(dropped) /\ Drops(S, dropped) /\ Rejected(dropped) = Rejected(S)
    BY <1>3, FinishLemma, DropsFinish
  <1>. HIDE DEF dropped
  <1>6. CASE k \in Rejected(S)
    <2>1. asm'.pending = dropped.pending /\ SameLatest(dropped, asm')
      BY <1>1, <1>3, <1>5, <1>6, TouchLemma, LatestKept
    <2>. QED
      BY <1>1, <1>5, <2>1, DropsNothing, DropsTwice, EmitLeft, ExceptionsLoose,
         LineEventLoose, SettlesFromS
  <1>7. CASE k \notin Rejected(S)
    <2>1. Drops(S, asm')
      BY <1>1, <1>2, <1>3, <1>4, <1>5, <1>7, DropsIsolate, DropsTwice
    <2>. QED
      BY <1>1, <2>1, EmitLeft, ExceptionsLoose, LineEventLoose, SettlesFromS
  <1>. QED
    BY <1>6, <1>7

LEMMA RejectUnknownLineSettles ==
    ASSUME TypeOK, NEW line \in Lines, RejectUnknownLine(line)
    PROVE  Settles
  <1> DEFINE f == FlushAll(S)
             events == (UNION {Exceptions(k, S.pending[k].lines) : k \in Pending(S)})
                          \cup {LineEvent(None, "exception")}
  <1>1. asm' = StartSpill(f, next, now) /\ Emit(events)
    BY DEF RejectUnknownLine
  <1>2. \A e \in events : Loose(e)
    BY ExceptionsLoose, LineEventLoose
  <1>. HIDE DEF events
  <1>3. AsmTypeOK(f) /\ Drops(S, f) /\ now \in Nat /\ next \in Nat
    BY RetiresS, FlushAllLemma, DropsFlushAll
  <1>. HIDE DEF f
  <1>4. asm'.pending = f.pending /\ SameLatest(f, asm')
    BY <1>1, <1>3, StartSpillLemma, LatestKept
  <1>5. Drops(S, asm')
    BY <1>3, <1>4, DropsNothing, DropsTwice
  <1>. QED
    BY <1>1, <1>2, <1>5, EmitLeft, SettlesFromS

LEMMA LineSettles ==
    ASSUME TypeOK, NEW line \in Lines, HandleLine(line)
    PROVE  Settles \/ Admit(line)
  BY AddRejectedSettles, CloseFullGroupSettles, AddFencedSettles, OrphanEOESettles,
     RefuseSettles, ParseFailureSettles, RejectKnownLineSettles,
     RejectUnknownLineSettles DEF HandleLine

LEMMA IdleSettles == ASSUME TypeOK, Idle PROVE Settles
  <1>1. asm' = S /\ output' = Left
    BY DEF Idle, Emit, Left
  <1>. QED
    BY <1>1, RetiresS DEF Settles

LEMMA FlushAllWithSettles ==
    ASSUME TypeOK, NEW c, c # "watermark", FlushAllWith(c)
    PROVE  Settles
  <1>1. /\ asm' = FlushAll(asm)
        /\ output' = output \cup {GroupEvent(asm, k, c) : k \in Pending(asm)}
    BY DEF FlushAllWith
  <1>2. Drops(asm, asm')
    BY <1>1, DropsFlushAll DEF TypeOK
  <1>3. \A k \in Pending(asm) : Closes(asm, GroupEvent(asm, k, c))
    BY GroupCloses
  <1>. QED
    BY <1>1, <1>2, <1>3 DEF Settles, Retires

-----------------------------------------------------------------------------
(* Storing a record: marks, event times and the watermark.                 *)

\* The watermark after a record of k was stored, and what it does to others.
Watermarked(a, b, k, opens) ==
    LET time == AuditTimeOf[k.id]
        restart == opens /\ NewEpoch(a, k)
    IN /\ \A q \in Pending(a) : b.pending[q].auditTime =
             IF restart /\ time # None THEN None ELSE a.pending[q].auditTime
       /\ IF opens /\ time # None
            THEN /\ b.latestAuditNode = k.node
                 /\ b.latestAuditTime =
                      IF restart \/ a.latestAuditTime = None \/ time > a.latestAuditTime
                        THEN time ELSE a.latestAuditTime
            ELSE SameLatest(a, b)

LEMMA ObserveFields ==
    ASSUME NEW a, AsmTypeOK(a), NEW k \in Key, AuditTimeOf[k.id] # None
    PROVE  LET b == ObserveAuditTime(a, k) IN
           /\ \A q \in Pending(a) : b.pending[q].mixed <=> a.pending[q].mixed
           /\ Watermarked(a, b, k, TRUE)
  <1> DEFINE groups == [q \in Pending(a) |->
                         IF NewEpoch(a, k) THEN [a.pending[q] EXCEPT !.auditTime = None]
                                           ELSE a.pending[q]]
             time == AuditTimeOf[k.id]
             latest == IF \/ NewEpoch(a, k)
                          \/ a.latestAuditTime = None
                          \/ time > a.latestAuditTime
                       THEN time ELSE a.latestAuditTime
             b == ObserveAuditTime(a, k)
  <1>1. ASSUME NEW q \in Pending(a)
        PROVE  /\ groups[q].mixed <=> a.pending[q].mixed
               /\ groups[q].auditTime = IF NewEpoch(a, k) THEN None ELSE a.pending[q].auditTime
    <2>1. PICK g \in Group : g = a.pending[q]
      BY DEF AsmTypeOK
    <2>2. groups[q] = IF NewEpoch(a, k) THEN [g EXCEPT !.auditTime = None] ELSE g
      BY <2>1
    <2>. HIDE DEF groups
    <2>. QED
      BY <2>1, <2>2 DEF Group
  <1>2. b = [a EXCEPT !.pending = groups, !.latestAuditNode = k.node,
                      !.latestAuditTime = latest]
    BY DEF ObserveAuditTime
  <1>. HIDE DEF groups, latest, b
  <1>3. b.pending = groups /\ b.latestAuditNode = k.node /\ b.latestAuditTime = latest
    BY <1>2 DEF AsmTypeOK, EmptyAssembler
  <1>4. \A q \in Pending(a) : b.pending[q].mixed <=> a.pending[q].mixed
    BY <1>1, <1>3
  <1>5. Watermarked(a, b, k, TRUE)
    BY <1>1, <1>3 DEF Watermarked, latest
  <1>. QED
    BY <1>4, <1>5 DEF b

LEMMA OpenFields ==
    ASSUME NEW a, AsmTypeOK(a), NEW k \in Key, k \notin Pending(a),
           NEW n \in Nat, NEW t \in Nat
    PROVE  LET b == Open(a, k, n, t) IN
           /\ \A q \in Pending(a) : b.pending[q].mixed <=> a.pending[q].mixed
           /\ b.pending[k].mixed <=> \E q \in Pending(a) : Twins(q, k)
           /\ b.pending[k].auditTime = AuditTimeOf[k.id]
           /\ Watermarked(a, b, k, TRUE)
  <1> DEFINE group == [lines |-> {}, first |-> n, bytes |-> 0, lastSeen |-> t,
                       auditTime |-> AuditTimeOf[k.id],
                       mixed |-> \E q \in Pending(a) : Twins(q, k)]
             observed == IF AuditTimeOf[k.id] = None THEN a ELSE ObserveAuditTime(a, k)
             b == Open(a, k, n, t)
  <1>1. AsmTypeOK(observed) /\ Pending(observed) = Pending(a)
    BY ObserveAuditTimeLemma DEF SameGroups
  <1>2. /\ \A q \in Pending(a) : observed.pending[q].mixed <=> a.pending[q].mixed
        /\ Watermarked(a, observed, k, TRUE)
    <2>1. CASE AuditTimeOf[k.id] = None
      BY <2>1 DEF Watermarked, SameLatest
    <2>2. CASE AuditTimeOf[k.id] # None
      BY <2>2, ObserveFields
    <2>. QED
      BY <2>1, <2>2
  <1>3. /\ group.mixed <=> \E q \in Pending(a) : Twins(q, k)
        /\ group.auditTime = AuditTimeOf[k.id]
    OBVIOUS
  <1>4. b = [observed EXCEPT !.pending = With(@, k, group)]
    BY DEF Open
  <1>. HIDE DEF group, observed, b
  <1>5. /\ b.pending[k] = group
        /\ \A q \in Pending(a) : b.pending[q] = observed.pending[q]
        /\ SameLatest(observed, b)
    BY <1>1, <1>4 DEF AsmTypeOK, With, EmptyAssembler, SameLatest
  <1>6. Watermarked(a, b, k, TRUE)
    BY <1>2, <1>5 DEF Watermarked, SameLatest
  <1>7. \A q \in Pending(a) : b.pending[q].mixed <=> a.pending[q].mixed
    BY <1>2, <1>5
  <1>. QED
    BY <1>3, <1>5, <1>6, <1>7 DEF b

SameFields(a, b) ==
    \A q \in Pending(a) : /\ b.pending[q].mixed <=> a.pending[q].mixed
                          /\ b.pending[q].auditTime = a.pending[q].auditTime

LEMMA FieldsOf ==
    ASSUME NEW a, NEW b, SameFields(a, b), NEW q \in Pending(a)
    PROVE  /\ b.pending[q].mixed <=> a.pending[q].mixed
           /\ b.pending[q].auditTime = a.pending[q].auditTime
  BY Zenon DEF SameFields

LEMMA StoreFields ==
    ASSUME NEW a, AsmTypeOK(a), NEW k \in Pending(a),
           NEW n \in Nat, NEW bytes \in Nat, NEW t \in Nat
    PROVE  /\ SameFields(a, Store(a, k, n, bytes, t))
           /\ SameLatest(a, Store(a, k, n, bytes, t))
  <1> DEFINE b == Store(a, k, n, bytes, t)
  <1>. PICK g \in Group : g = a.pending[k]
    BY DEF AsmTypeOK
  <1>1. b.pending[k] = Extended(g, n, bytes, t)
    BY DEF Store, AsmTypeOK, EmptyAssembler
  <1>2. \A q \in Pending(a) : q # k => b.pending[q] = a.pending[q]
    BY StoreLemma
  <1>3. SameLatest(a, b)
    BY LatestKept
  <1>. HIDE DEF b
  <1>4. /\ b.pending[k].mixed <=> a.pending[k].mixed
        /\ b.pending[k].auditTime = a.pending[k].auditTime
    BY <1>1 DEF Extended, Group
  <1>5. SameFields(a, b)
    BY <1>2, <1>4 DEF SameFields
  <1>. QED
    BY <1>3, <1>5 DEF b

LEMMA NotOwnTwin == ASSUME NEW k PROVE ~Twins(k, k)
  BY DEF Twins

LEMMA StoredFields ==
    ASSUME NEW a, AsmTypeOK(a), NEW k \in Key, NEW n \in Nat,
           NEW bytes \in Nat, NEW t \in Nat
    PROVE  LET b == Stored(a, k, n, bytes, t) IN
           /\ \A q \in Pending(a) : b.pending[q].mixed <=> a.pending[q].mixed \/ Twins(q, k)
           /\ k \notin Pending(a) =>
                 /\ b.pending[k].mixed <=> \E q \in Pending(a) : Twins(q, k)
                 /\ b.pending[k].auditTime = AuditTimeOf[k.id]
           /\ Watermarked(a, b, k, k \notin Pending(a))
  <1> DEFINE marked == MarkMixed(a, k)
             opened == IF k \in Pending(a) THEN marked ELSE Open(marked, k, n, t)
             b == Store(opened, k, n, bytes, t)
  <1>1. AsmTypeOK(marked) /\ Pending(marked) = Pending(a) /\ SameLatest(a, marked)
    BY MarkMixedLemma, LatestKept DEF SameGroups
  <1>2. \A q \in Pending(a) :
           /\ marked.pending[q].mixed <=> a.pending[q].mixed \/ Twins(q, k)
           /\ marked.pending[q].auditTime = a.pending[q].auditTime
    BY MarkMixedFields
  <1>. HIDE DEF marked
  <1>3. CASE k \in Pending(a)
    <2>1. opened = marked
      BY <1>3
    <2>. HIDE DEF opened
    <2>2. SameFields(marked, b) /\ SameLatest(marked, b)
      BY <1>1, <1>3, <2>1, StoreFields
    <2>. HIDE DEF b
    <2>6. ASSUME NEW q \in Pending(a)
          PROVE  /\ b.pending[q].mixed <=> marked.pending[q].mixed
                 /\ b.pending[q].auditTime = marked.pending[q].auditTime
      <3>1. q \in Pending(marked)
        BY <1>1
      <3>. QED
        BY <2>2, <3>1, FieldsOf, Zenon
    <2>3. ASSUME NEW q \in Pending(a)
          PROVE  b.pending[q].mixed <=> a.pending[q].mixed \/ Twins(q, k)
      BY <1>2, <2>6, Zenon
    <2>4. ASSUME NEW q \in Pending(a) PROVE b.pending[q].auditTime = a.pending[q].auditTime
      BY <1>2, <2>6, Zenon
    <2>5. Watermarked(a, b, k, k \notin Pending(a))
      BY <1>1, <1>3, <2>2, <2>4 DEF Watermarked, SameLatest
    <2>. QED
      BY <1>3, <2>3, <2>5 DEF b, opened, marked, Stored
  <1>4. CASE k \notin Pending(a)
    <2>1. opened = Open(marked, k, n, t) /\ k \notin Pending(marked)
      BY <1>1, <1>4
    <2>. HIDE DEF opened
    <2>2. /\ \A q \in Pending(a) : opened.pending[q].mixed <=> marked.pending[q].mixed
          /\ opened.pending[k].mixed <=> \E q \in Pending(a) : Twins(q, k)
          /\ opened.pending[k].auditTime = AuditTimeOf[k.id]
          /\ Watermarked(marked, opened, k, TRUE)
      <3>. DEFINE o == Open(marked, k, n, t)
      <3>1. /\ \A q \in Pending(marked) : o.pending[q].mixed <=> marked.pending[q].mixed
            /\ o.pending[k].mixed <=> \E q \in Pending(marked) : Twins(q, k)
            /\ o.pending[k].auditTime = AuditTimeOf[k.id]
            /\ Watermarked(marked, o, k, TRUE)
        BY <1>1, <2>1, OpenFields
      <3>. HIDE DEF o
      <3>2. opened = o
        BY <2>1 DEF o
      <3>. QED
        BY <1>1, <3>1, <3>2, Zenon
    <2>3. AsmTypeOK(opened) /\ Pending(opened) = Pending(a) \cup {k}
      BY <1>1, <2>1, OpenLemma
    <2>4. SameFields(opened, b) /\ SameLatest(opened, b)
      <3>1. k \in Pending(opened)
        BY <2>3
      <3>. QED
        BY <2>3, <3>1, StoreFields
    <2>. HIDE DEF b
    <2>5. \A q \in Pending(a) : b.pending[q].mixed <=> a.pending[q].mixed \/ Twins(q, k)
      <3>. TAKE q \in Pending(a)
      <3>1. q \in Pending(opened)
        BY <2>3
      <3>2. b.pending[q].mixed <=> opened.pending[q].mixed
        BY <2>4, <3>1, FieldsOf, Zenon
      <3>3. opened.pending[q].mixed <=> marked.pending[q].mixed
        BY <2>2, Zenon
      <3>. QED
        BY <1>2, <3>2, <3>3, Zenon
    <2>6. /\ b.pending[k].mixed <=> \E q \in Pending(a) : Twins(q, k)
          /\ b.pending[k].auditTime = AuditTimeOf[k.id]
      <3>1. k \in Pending(opened)
        BY <2>3
      <3>. QED
        BY <2>2, <2>4, <3>1, FieldsOf, Zenon
    <2>7. Watermarked(a, b, k, TRUE)
      <3>1. NewEpoch(marked, k) <=> NewEpoch(a, k)
        BY <1>1 DEF NewEpoch, SameLatest
      <3>2. ASSUME NEW q \in Pending(a)
            PROVE  /\ b.pending[q].auditTime = opened.pending[q].auditTime
                   /\ marked.pending[q].auditTime = a.pending[q].auditTime
        <4>1. q \in Pending(opened)
          BY <2>3
        <4>. QED
          BY <1>2, <2>4, <4>1, FieldsOf, Zenon
      <3>. QED
        BY <1>1, <2>2, <2>4, <3>1, <3>2 DEF Watermarked, SameLatest
    <2>. QED
      BY <1>4, <2>5, <2>6, <2>7 DEF b, opened, marked, Stored
  <1>. QED
    BY <1>3, <1>4

-----------------------------------------------------------------------------
(* The watermark.  A group that has an event time is of the producer whose *)
(* records are seen now, and its age has not reached the watermark.        *)

Aged(a, q) ==
    a.pending[q].auditTime # None =>
        /\ a.pending[q].auditTime = AuditTimeOf[q.id]
        /\ q.node = a.latestAuditNode
        /\ a.latestAuditTime # None

Epoch(a) == \A q \in Pending(a) : Aged(a, q) /\ ~PastWatermark(a, q)

\* A record of k is a witness for completing the group of q by age.
Ages(k, q) ==
    /\ q.node = k.node
    /\ AuditTimeOf[k.id] # None
    /\ LET age == AuditTimeOf[k.id] - AuditTimeOf[q.id]
       IN age >= Timeout /\ age < Timeout + ForwardWindow

LEMMA DropsEpoch ==
    ASSUME NEW a, NEW b, Drops(a, b), Epoch(a)
    PROVE  Epoch(b)
  BY DEF Drops, SameLatest, Epoch, Aged, PastWatermark

LEMMA StoredEpoch ==
    ASSUME NEW a, AsmTypeOK(a), Epoch(a), NEW k \in Key, NEW n \in Nat,
           NEW bytes \in Nat, NEW t \in Nat
    PROVE  LET b == Stored(a, k, n, bytes, t) IN
           \A q \in Pending(b) :
              /\ Aged(b, q)
              /\ PastWatermark(b, q) => q # k /\ q \in Pending(a) /\ Ages(k, q)
  <1> DEFINE b == Stored(a, k, n, bytes, t)
  <1>1. /\ k \notin Pending(a) => b.pending[k].auditTime = AuditTimeOf[k.id]
        /\ Watermarked(a, b, k, k \notin Pending(a))
    BY StoredFields
  <1>2. \A q : q \in Pending(b) <=> q \in Pending(a) \/ q = k
    BY StoredLemma DEF StoredAs
  <1>3. /\ Timeout \in Nat \ {0} /\ ForwardWindow \in Int
        /\ AuditTimeOf[k.id] \in Nat \cup {None}
        /\ a.latestAuditTime \in Nat \cup {None}
        /\ None \notin Nat
    BY TimeAssumption, NoneAssumption DEF ForwardWindow, Key, AsmTypeOK
  <1>4. \A q \in Pending(a) : a.pending[q].auditTime \in Nat \cup {None}
    BY DEF AsmTypeOK, Group
  <1>. HIDE DEF b
  <1>. SUFFICES ASSUME NEW q \in Pending(b)
                PROVE  /\ Aged(b, q)
                       /\ PastWatermark(b, q) => q # k /\ q \in Pending(a) /\ Ages(k, q)
    BY DEF b
  <1>5. CASE k \in Pending(a) \/ AuditTimeOf[k.id] = None
    <2>1. SameLatest(a, b)
      BY <1>1, <1>5 DEF Watermarked
    <2>2. CASE q \in Pending(a)
      <3>1. b.pending[q].auditTime = a.pending[q].auditTime
        BY <1>1, <1>5, <2>2 DEF Watermarked
      <3>. QED
        BY <2>1, <2>2, <3>1 DEF Epoch, Aged, PastWatermark, SameLatest
    <2>3. CASE q \notin Pending(a)
      <3>1. b.pending[q].auditTime = None
        BY <1>1, <1>2, <1>5, <2>3
      <3>. QED
        BY <3>1 DEF Aged, PastWatermark
    <2>. QED
      BY <2>2, <2>3
  <1>6. CASE k \notin Pending(a) /\ AuditTimeOf[k.id] # None
    <2>1. PICK time \in Nat : time = AuditTimeOf[k.id]
      BY <1>3, <1>6
    <2>2. /\ b.latestAuditNode = k.node
          /\ b.latestAuditTime =
                IF NewEpoch(a, k) \/ a.latestAuditTime = None \/ time > a.latestAuditTime
                  THEN time ELSE a.latestAuditTime
      BY <1>1, <1>6, <2>1 DEF Watermarked
    <2>3. b.latestAuditTime \in Nat
      BY <1>3, <2>1, <2>2
    <2>4. CASE q \notin Pending(a)
      <3>1. q = k /\ b.pending[q].auditTime = time
        BY <1>1, <1>2, <2>1, <2>4
      <3>2. b.latestAuditTime < time + Timeout
        BY <1>3, <2>1, <2>2 DEF NewEpoch
      <3>. QED
        BY <1>3, <2>1, <2>2, <2>3, <3>1, <3>2 DEF Aged, PastWatermark
    <2>5. CASE q \in Pending(a)
      <3>1. b.pending[q].auditTime = IF NewEpoch(a, k) THEN None ELSE a.pending[q].auditTime
        BY <1>1, <1>6, <2>5 DEF Watermarked
      <3>2. CASE b.pending[q].auditTime = None
        BY <3>2 DEF Aged, PastWatermark
      <3>3. CASE b.pending[q].auditTime # None
        <4>1. ~NewEpoch(a, k) /\ b.pending[q].auditTime = a.pending[q].auditTime
          BY <3>1, <3>3
        <4>2. PICK was \in Nat : was = a.pending[q].auditTime
          BY <1>4, <2>5, <3>3, <4>1
        <4>3. /\ was = AuditTimeOf[q.id] /\ q.node = a.latestAuditNode
              /\ a.latestAuditTime \in Nat
              /\ a.latestAuditTime < was + Timeout
          BY <1>3, <2>5, <3>3, <4>1, <4>2 DEF Epoch, Aged, PastWatermark
        <4>4. /\ q.node = k.node
              /\ time - a.latestAuditTime <= ForwardWindow
          BY <1>3, <2>1, <4>1, <4>3 DEF NewEpoch
        <4>5. Aged(b, q)
          BY <1>3, <2>2, <2>3, <4>1, <4>2, <4>3, <4>4 DEF Aged
        <4>6. ASSUME PastWatermark(b, q) PROVE Ages(k, q)
          <5>1. b.latestAuditTime >= was + Timeout
            BY <4>1, <4>2, <4>6 DEF PastWatermark
          <5>2. b.latestAuditTime = time
            BY <1>3, <2>1, <2>2, <4>2, <4>3, <5>1
          <5>3. time - was >= Timeout /\ time - was < Timeout + ForwardWindow
            BY <1>3, <2>1, <4>2, <4>3, <4>4, <5>1, <5>2
          <5>. QED
            BY <1>6, <2>1, <4>3, <4>4, <5>3 DEF Ages
        <4>. QED
          BY <1>6, <2>5, <4>5, <4>6
      <3>. QED
        BY <3>2, <3>3
    <2>. QED
      BY <2>4, <2>5
  <1>. QED
    BY <1>5, <1>6

-----------------------------------------------------------------------------
(* The marks.  Two open groups that may be one event are both marked, and  *)
(* so are an open group and an event with a line behind one of the group's. *)

Plain(e) == e.completion # "exception" /\ e.key # None

Marked(a, out) ==
    /\ \A p, q \in Pending(a) : Twins(p, q) => a.pending[p].mixed
    /\ \A p \in Pending(a), f \in out :
          /\ Plain(f) /\ Twins(p, f.key)
          /\ \E m \in a.pending[p].lines, l \in f.lines : m < l
          => a.pending[p].mixed /\ f.mixed
    /\ \A e, f \in out :
          /\ Plain(e) /\ Plain(f) /\ Twins(e.key, f.key)
          /\ \E l \in f.lines : (\E m \in e.lines : m < l) /\ (\E m \in e.lines : l < m)
          => e.mixed /\ f.mixed

LEMMA TwinsSymmetric == ASSUME NEW p, NEW q, Twins(p, q) PROVE Twins(q, p)
  BY DEF Twins

LEMMA RetiresMarked ==
    ASSUME NEW a, NEW out, NEW b, NEW out2, Retires(a, out, b, out2), Marked(a, out)
    PROVE  Marked(b, out2)
  <1>1. ASSUME NEW p \in Pending(b), NEW q \in Pending(b), Twins(p, q)
        PROVE  b.pending[p].mixed
    BY <1>1 DEF Retires, Drops, Marked
  <1>2. \A e \in out2 : Plain(e) => e \in out \/ Closes(a, e)
    BY DEF Retires, Loose, Plain
  <1>3. ASSUME NEW p \in Pending(a), NEW f \in out2, Plain(f), Twins(p, f.key),
               \E m \in a.pending[p].lines, l \in f.lines : m < l
        PROVE  a.pending[p].mixed /\ f.mixed
    <2>1. CASE f \in out
      BY <1>3, <2>1 DEF Marked
    <2>2. CASE Closes(a, f)
      BY <1>3, <2>2, TwinsSymmetric DEF Closes, Marked
    <2>. QED
      BY <1>2, <1>3, <2>1, <2>2
  <1>4. ASSUME NEW p \in Pending(b), NEW f \in out2, Plain(f), Twins(p, f.key),
               \E m \in b.pending[p].lines, l \in f.lines : m < l
        PROVE  b.pending[p].mixed /\ f.mixed
    BY <1>3, <1>4 DEF Retires, Drops
  <1>5. ASSUME NEW e \in out2, NEW f \in out2, Plain(e), Plain(f), Twins(e.key, f.key),
               NEW l \in f.lines, NEW m \in e.lines, m < l, NEW n \in e.lines, l < n
        PROVE  e.mixed /\ f.mixed
    <2>1. CASE e \in out /\ f \in out
      BY <1>5, <2>1 DEF Marked
    <2>2. CASE Closes(a, e)
      <3>1. PICK k \in Pending(a) : /\ e.key = k /\ e.lines = a.pending[k].lines
                                    /\ a.pending[k].mixed => e.mixed
        BY <2>2 DEF Closes
      <3>. QED
        BY <1>3, <1>5, <3>1
    <2>3. CASE Closes(a, f)
      <3>1. PICK k \in Pending(a) : /\ f.key = k /\ f.lines = a.pending[k].lines
                                    /\ a.pending[k].mixed => f.mixed
        BY <2>3 DEF Closes
      <3>2. Twins(k, e.key)
        BY <1>5, <3>1, TwinsSymmetric
      <3>. QED
        BY <1>3, <1>5, <3>1, <3>2
    <2>. QED
      BY <1>2, <1>5, <2>1, <2>2, <2>3
  <1>6. \A e, f \in out2 :
           /\ Plain(e) /\ Plain(f) /\ Twins(e.key, f.key)
           /\ \E l \in f.lines : (\E m \in e.lines : m < l) /\ (\E m \in e.lines : l < m)
           => e.mixed /\ f.mixed
    BY <1>5
  <1>. QED
    BY <1>1, <1>4, <1>6 DEF Marked

LEMMA StoredMarked ==
    ASSUME NEW a, AsmTypeOK(a), NEW k \in Key, NEW n \in Nat,
           NEW bytes \in Nat, NEW t \in Nat,
           NEW out, out \subseteq Event, Placed(a, out, n), Marked(a, out)
    PROVE  Marked(Stored(a, k, n, bytes, t), out)
  <1> DEFINE b == Stored(a, k, n, bytes, t)
  <1>1. /\ \A q \in Pending(a) : b.pending[q].mixed <=> a.pending[q].mixed \/ Twins(q, k)
        /\ k \notin Pending(a) =>
              (b.pending[k].mixed <=> \E q \in Pending(a) : Twins(q, k))
    BY StoredFields
  <1>2. /\ \A q : q \in Pending(b) <=> q \in Pending(a) \/ q = k
        /\ \A q \in Pending(a) : q # k => b.pending[q].lines = a.pending[q].lines
        /\ k \in Pending(a) => b.pending[k].lines = a.pending[k].lines \cup {n}
        /\ k \notin Pending(a) => b.pending[k].lines = {n}
    <2>1. StoredAs(a, b, k, n)
      BY StoredLemma
    <2>. HIDE DEF b
    <2>. QED
      BY <2>1 DEF StoredAs
  <1>. HIDE DEF b
  <1>3. ASSUME NEW p \in Pending(b), NEW q \in Pending(b), Twins(p, q)
        PROVE  b.pending[p].mixed
    <2>1. CASE p \in Pending(a) /\ q \in Pending(a)
      BY <1>1, <1>3, <2>1 DEF Marked
    <2>2. CASE p \in Pending(a) /\ q = k
      BY <1>1, <1>3, <2>2
    <2>3. CASE p = k /\ k \notin Pending(a)
      <3>1. q \in Pending(a)
        BY <1>2, <1>3, <2>3, NotOwnTwin
      <3>. QED
        BY <1>1, <1>3, <2>3, <3>1, TwinsSymmetric
    <2>. QED
      BY <1>2, <2>1, <2>2, <2>3
  <1>4. ASSUME NEW p \in Pending(b), NEW f \in out, Plain(f), Twins(p, f.key),
               NEW m \in b.pending[p].lines, NEW l \in f.lines, m < l
        PROVE  b.pending[p].mixed /\ f.mixed
    <2>1. l < n /\ l \in Nat
      BY DEF Placed, Event
    <2>2. m # n
      BY <1>4, <2>1
    <2>3. p \in Pending(a) /\ m \in a.pending[p].lines
      BY <1>2, <2>2
    <2>4. a.pending[p].mixed /\ f.mixed
      BY <1>4, <2>3 DEF Marked
    <2>. QED
      BY <1>1, <2>3, <2>4
  <1>5. Marked(b, out)
    BY <1>3, <1>4 DEF Marked
  <1>. QED
    BY <1>5 DEF b

-----------------------------------------------------------------------------
(* An admission: store, close by terminator, close by age.                 *)

LEMMA AdmitRetires ==
    ASSUME TypeOK, NEW line \in Lines, Admit(line)
    PROVE  LET stored == Stored(S, line.key, next, line.bytes, now) IN
           /\ AsmTypeOK(stored)
           /\ Retires(stored, Left, asm', output')
           /\ \A q \in Pending(asm') : ~PastWatermark(asm', q)
  <1> DEFINE k == line.key
             stored == Stored(S, k, next, line.bytes, now)
             boundary == Boundary(line.type, k \in Pending(S))
             closed == IF boundary = None THEN {} ELSE {k}
             settled == Finish(stored, closed)
             closing == {GroupEvent(stored, q, boundary) : q \in closed}
             expired == Expired(settled, now)
  <1>1. /\ asm' = Finish(settled, expired)
        /\ Emit(closing \cup ExpiredEvents(settled, now))
    BY DEF Admit
  <1>2. k \in Key /\ line.bytes \in Nat
    BY RecordLineType DEF Admit, ReadRecord
  <1>3. \A q \in closed : q = k /\ boundary # "watermark"
    BY DEF Boundary
  <1>. HIDE DEF k, boundary, closed
  <1>4. AsmTypeOK(stored)
    BY <1>2, RetiresS, StoredLemma, Zenon
  <1>5. k \in Pending(stored)
    BY <1>2, RetiresS, StoredLemma DEF StoredAs
  <1>. HIDE DEF stored
  <1>6. Drops(stored, settled) /\ AsmTypeOK(settled)
    BY <1>4, DropsFinish, FinishLemma
  <1>7. \A e \in closing : Closes(stored, e)
    BY <1>3, <1>5, GroupCloses
  <1>. HIDE DEF settled, closing
  <1>8. /\ Drops(settled, asm')
        /\ Pending(asm') = Pending(settled) \ expired
        /\ SameLatest(settled, asm')
        /\ \A q \in Pending(asm') : asm'.pending[q] = settled.pending[q]
    BY <1>1, <1>6, DropsFinish, FinishLemma, LatestKept
  <1>9. \A q \in Pending(asm') : ~PastWatermark(asm', q)
    BY <1>8 DEF SameLatest, PastWatermark, Expired
  <1>10. \A e \in ExpiredEvents(settled, now) : Closes(stored, e)
    BY <1>6, ExpiredCloses, ClosedBefore
  <1>11. Retires(stored, Left, asm', output')
    <2>1. output' = Left \cup (closing \cup ExpiredEvents(settled, now))
      BY <1>1, EmitLeft
    <2>. QED
      BY <1>6, <1>7, <1>8, <1>10, <2>1, DropsTwice DEF Retires
  <1>. QED
    BY <1>4, <1>9, <1>11 DEF stored, k

-----------------------------------------------------------------------------
(* The invariants.                                                         *)

\* What is known wherever a step begins: PlacedInv and FirstInv, proved.
Known == PlacedInv /\ From(asm, 0)

LEMMA KnownHolds == Spec => []Known
  <1>1. Init => PlacedInv
    BY PlacedInit
  <1>2. PlacedInv /\ [Next]_vars => PlacedInv'
    BY PlacedNext
  <1>3. Spec => []FirstInv
    BY FirstInvHolds
  <1>4. FirstInv => From(asm, 0)
    BY DEF FirstInv
  <1>. QED
    BY <1>1, <1>2, <1>3, <1>4, PTL DEF Spec, Known

MarkedInv == Marked(asm, output)

LEMMA AdmitMarked ==
    ASSUME Known, MarkedInv, NEW line \in Lines, Admit(line)
    PROVE  MarkedInv'
  <1> DEFINE stored == Stored(S, line.key, next, line.bytes, now)
  <1>1. TypeOK /\ Placed(asm, output, next)
    BY DEF Known, PlacedInv
  <1>2. line.key \in Key /\ line.bytes \in Nat
    BY RecordLineType DEF Admit, ReadRecord
  <1>3. Marked(S, Left)
    BY <1>1, RetiresS, RetiresMarked DEF MarkedInv
  <1>4. Placed(S, Left, next) /\ Left \subseteq Event
    BY <1>1, AtS DEF Carries
  <1>5. Marked(stored, Left)
    BY <1>1, <1>2, <1>3, <1>4, RetiresS, StoredMarked
  <1>6. Retires(stored, Left, asm', output')
    BY <1>1, AdmitRetires
  <1>. HIDE DEF stored
  <1>. QED
    BY <1>5, <1>6, RetiresMarked DEF MarkedInv

LEMMA StepSettles ==
    ASSUME TypeOK, [Next]_vars
    PROVE  \/ Settles
           \/ \E line \in Lines : Admit(line)
           \/ UNCHANGED <<asm, output>>
  <1>1. CASE FlushAllWith("source_gap")
    BY <1>1, FlushAllWithSettles
  <1>2. CASE Idle
    BY <1>2, IdleSettles
  <1>3. CASE \E line \in Lines : HandleLine(line)
    BY <1>3, LineSettles
  <1>. QED
    BY <1>1, <1>2, <1>3 DEF Next, Tick, vars

LEMMA MarkedNext == ASSUME Known, MarkedInv, [Next]_vars PROVE MarkedInv'
  <1>1. TypeOK
    BY DEF Known, PlacedInv
  <1>2. CASE Settles
    BY <1>2, RetiresMarked DEF Settles, MarkedInv
  <1>3. ASSUME NEW line \in Lines, Admit(line) PROVE MarkedInv'
    BY <1>3, AdmitMarked
  <1>4. CASE UNCHANGED <<asm, output>>
    BY <1>4 DEF MarkedInv
  <1>. QED
    BY <1>1, <1>2, <1>3, <1>4, StepSettles

LEMMA MarkedInit == Init => MarkedInv
  <1>. SUFFICES ASSUME Init PROVE MarkedInv
    OBVIOUS
  <1>1. Pending(asm) = {} /\ output = {}
    BY DEF Init, EmptyAssembler
  <1>. QED
    BY <1>1 DEF MarkedInv, Marked

\* Two groups of one ID, with and without a node, whose lines interleave are
\* both marked as mixed, whichever of them came first, however each of them
\* ended and whatever happened between (addAt's mixedNode).
THEOREM TwinsAreMarked == Spec => []MixedMarked
  <1>1. MarkedInv => MixedMarked
    BY DEF MarkedInv, Marked, MixedMarked, Plain
  <1>2. Init => MarkedInv
    BY MarkedInit
  <1>3. Known /\ MarkedInv /\ [Next]_vars => MarkedInv'
    BY MarkedNext
  <1>. QED
    BY <1>1, <1>2, <1>3, KnownHolds, PTL DEF Spec

\* The witness of a completion by age.
Witnessed(e) ==
    \E l \in 1..(next - 1) :
        /\ \E first \in e.lines : first < l
        /\ input[l].kind = "record"
        /\ input[l].key.node = e.key.node
        /\ AuditTimeOf[input[l].key.id] # None
        /\ LET age == AuditTimeOf[input[l].key.id] - AuditTimeOf[e.key.id]
           IN age >= Timeout /\ age < Timeout + ForwardWindow

WatermarkInv == Epoch(asm) /\ WatermarkJustified

\* Lines that were read stay where they are.
LEMMA WitnessStays ==
    ASSUME Known, [Next]_vars, NEW e, Witnessed(e)
    PROVE  Witnessed(e)'
  <1>1. TypeOK /\ ReadSoFar
    BY DEF Known, PlacedInv
  <1>2. /\ \A l \in 1..(next - 1) : l \in 1..(next' - 1)
        /\ \A l \in 1..(next - 1) : input'[l] = input[l]
    <2>1. ASSUME NEW line \in Lines, HandleLine(line)
          PROVE  /\ next' = next + 1
                 /\ \A l \in 1..(next - 1) : input'[l] = input[l]
      BY <1>1, <2>1, HandlerReads, ReadLine
    <2>2. next \in Nat
      BY <1>1 DEF TypeOK
    <2>3. CASE UNCHANGED <<input, next>>
      BY <2>3
    <2>. QED
      BY <2>1, <2>2, <2>3 DEF Next, Idle, FlushAllWith, Tick, vars
  <1>. QED
    BY <1>2 DEF Witnessed

LEMMA WatermarkIs ==
    WatermarkJustified <=> \A e \in output : e.completion = "watermark" => Witnessed(e)
  BY DEF WatermarkJustified, Witnessed

LEMMA SettlesWatermark ==
    ASSUME Known, WatermarkInv, [Next]_vars, Settles
    PROVE  WatermarkInv'
  <1>1. Epoch(asm')
    BY DropsEpoch DEF WatermarkInv, Settles, Retires
  <1>2. ASSUME NEW e \in output', e.completion = "watermark"
        PROVE  Witnessed(e)'
    <2>1. ~Loose(e)
      BY <1>2 DEF Loose
    <2>2. ~Closes(asm, e)
      BY <1>2 DEF WatermarkInv, Epoch, Closes
    <2>3. e \in output
      BY <2>1, <2>2 DEF Settles, Retires
    <2>. QED
      BY <1>2, <2>3, WatermarkIs, WitnessStays DEF WatermarkInv
  <1>3. WatermarkJustified'
    BY <1>2 DEF WatermarkJustified, Witnessed
  <1>. QED
    BY <1>1, <1>3 DEF WatermarkInv

LEMMA AdmitWatermark ==
    ASSUME Known, WatermarkInv, NEW line \in Lines, Admit(line)
    PROVE  WatermarkInv'
  <1> DEFINE k == line.key
             stored == Stored(S, k, next, line.bytes, now)
  <1>1. TypeOK /\ ReadSoFar /\ Placed(asm, output, next) /\ From(asm, 0)
    BY DEF Known, PlacedInv
  <1>2. k \in Key /\ line.bytes \in Nat /\ line.kind = "record" /\ Read(line)
    BY RecordLineType DEF Admit, ReadRecord
  <1>3. /\ AsmTypeOK(S) /\ now \in Nat /\ next \in Nat \ {0}
        /\ Retires(asm, output, S, Left)
        /\ Placed(S, Left, next)
        /\ From(S, 0)
    <2>1. Placed(S, Left, next)
      BY <1>1, AtS DEF Carries
    <2>2. From(S, 0)
      BY <1>1, FromS
    <2>. QED
      BY <1>1, <2>1, <2>2, RetiresS DEF TypeOK
  <1>4. Epoch(S)
    BY <1>3, DropsEpoch DEF WatermarkInv, Retires
  <1>5. /\ Retires(stored, Left, asm', output')
        /\ \A q \in Pending(asm') : ~PastWatermark(asm', q)
    BY <1>1, AdmitRetires
  <1>6. \A q \in Pending(stored) :
           /\ Aged(stored, q)
           /\ PastWatermark(stored, q) => q # k /\ q \in Pending(S) /\ Ages(k, q)
    BY <1>2, <1>3, <1>4, StoredEpoch
  <1>7. StoredAs(S, stored, k, next)
    BY <1>2, <1>3, StoredLemma
  <1>8. /\ next' = next + 1 /\ input'[next] = line
        /\ \A l \in 1..(next - 1) : input'[l] = input[l]
    BY <1>1, <1>2, ReadLine
  <1>. HIDE DEF stored
  <1>9. Epoch(asm')
    BY <1>5, <1>6 DEF Retires, Drops, SameLatest, Epoch, Aged
  <1>10. [Next]_vars
    BY DEF Next, HandleLine
  <1>11. ASSUME NEW e \in output', e.completion = "watermark"
         PROVE  Witnessed(e)'
    <2>1. e \in Left \/ Closes(stored, e)
      BY <1>5, <1>11 DEF Retires, Loose
    <2>2. CASE e \in Left
      <3>1. e \in output
        BY <1>3, <1>11, <2>2 DEF Retires, Loose, WatermarkInv, Epoch, Closes
      <3>. QED
        BY <1>10, <1>11, <3>1, WatermarkIs, WitnessStays DEF WatermarkInv
    <2>3. CASE Closes(stored, e)
      <3>1. PICK q \in Pending(stored) : /\ e.key = q /\ e.lines = stored.pending[q].lines
                                         /\ PastWatermark(stored, q)
        BY <1>11, <2>3 DEF Closes
      <3>2. q # k /\ q \in Pending(S) /\ Ages(k, q)
        BY <1>6, <3>1
      <3>3. e.lines = S.pending[q].lines
        BY <1>7, <3>1, <3>2 DEF StoredAs
      <3>4. PICK first \in e.lines : first < next
        BY <1>3, <3>2, <3>3 DEF From, Placed
      <3>5. next \in 1..(next' - 1)
        BY <1>3, <1>8
      <3>. QED
        BY <1>2, <1>8, <3>1, <3>2, <3>4, <3>5 DEF Witnessed, Ages
    <2>. QED
      BY <2>1, <2>2, <2>3
  <1>12. WatermarkJustified'
    BY <1>11 DEF WatermarkJustified, Witnessed
  <1>. QED
    BY <1>9, <1>12 DEF WatermarkInv

LEMMA WatermarkNext == ASSUME Known, WatermarkInv, [Next]_vars PROVE WatermarkInv'
  <1>1. TypeOK
    BY DEF Known, PlacedInv
  <1>2. ASSUME NEW line \in Lines, Admit(line) PROVE WatermarkInv'
    BY <1>2, AdmitWatermark
  <1>3. CASE UNCHANGED <<asm, output>>
    <2>1. ASSUME NEW e \in output', e.completion = "watermark" PROVE Witnessed(e)'
      BY <1>3, <2>1, WatermarkIs, WitnessStays DEF WatermarkInv
    <2>2. WatermarkJustified'
      BY <2>1 DEF WatermarkJustified, Witnessed
    <2>. QED
      BY <1>3, <2>2 DEF WatermarkInv
  <1>. QED
    BY <1>1, <1>2, <1>3, SettlesWatermark, StepSettles

LEMMA WatermarkInit == Init => WatermarkInv
  <1>. SUFFICES ASSUME Init PROVE WatermarkInv
    OBVIOUS
  <1>1. Pending(asm) = {} /\ output = {}
    BY DEF Init, EmptyAssembler
  <1>. QED
    BY <1>1 DEF WatermarkInv, Epoch, WatermarkJustified

\* A group that is completed by event age has a witness among the lines read
\* after its first one: a record of the same producer, at least Timeout newer
\* and no clock jump beyond what was seen (observeAuditTime, expired).
THEOREM WatermarkHasWitness == Spec => []WatermarkJustified
  <1>1. WatermarkInv => WatermarkJustified
    BY DEF WatermarkInv
  <1>2. Init => WatermarkInv
    BY WatermarkInit
  <1>3. Known /\ WatermarkInv /\ [Next]_vars => WatermarkInv'
    BY WatermarkNext
  <1>. QED
    BY <1>1, <1>2, <1>3, KnownHolds, PTL DEF Spec

=============================================================================
