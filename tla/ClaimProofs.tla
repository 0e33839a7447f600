---------------------------- MODULE ClaimProofs ----------------------------
(***************************************************************************)
(* What a published event may say, for every group that any theme yields:  *)
(* any number of records and tokens, any keys and values.                  *)
(*                                                                         *)
(* Published is inductive: the state is a group of well-formed records     *)
(* with the event and the issues of that group.  Each property is then a   *)
(* fact about one group, shown from what the selections return.            *)
(* RecordHeard and FirstHeard are used throughout: a value that a view     *)
(* yields is one that a token says and that no token contradicts.          *)
(*                                                                         *)
(* Argument vectors and the order of the records have sections of their    *)
(* own.  There a selection of a first value is shown to be a selection of  *)
(* the only one, which no order of the records can change.                 *)
(***************************************************************************)
EXTENDS CanonicalClaims, FiniteSetTheorems, WellFoundedInduction, TLAPS

-----------------------------------------------------------------------------
(* The first place of a sequence that speaks.                              *)

LEMMA LeastPlace ==
    ASSUME NEW S \in SUBSET Nat, S # {}
    PROVE  Min(S) \in S /\ \A x \in S : Min(S) <= x
  <1>. DEFINE R == OpToRel(<, Nat)
  <1>1. IsWellFoundedOn(R, Nat)
    BY NatLessThanWellFounded
  <1>2. PICK x \in S : \A y \in S : ~ (<<y, x>> \in R)
    <2>. HIDE DEF R
    <2>. QED
      BY <1>1, WFMin
  <1>3. \A y \in S : x <= y
    <2>. SUFFICES ASSUME NEW y \in S PROVE x <= y
      OBVIOUS
    <2>1. <<y, x>> \notin R
      BY <1>2
    <2>. QED
      BY <2>1 DEF OpToRel
  <1>. HIDE DEF R
  <1>4. \E z \in S : \A y \in S : z <= y
    BY <1>3
  <1>. QED
    BY <1>4, Zenon DEF Min

LEMMA GreatestPlace ==
    ASSUME NEW n \in Nat, NEW S \in SUBSET (1..n), S # {}
    PROVE  Max(S) \in S
  <1> DEFINE T == {n - x : x \in S}
  <1>1. T \in SUBSET Nat /\ T # {}
    <2>1. \A x \in S : n - x \in Nat
      OBVIOUS
    <2>. QED
      BY <2>1
  <1>2. PICK x \in S : Min(T) = n - x
    BY <1>1, LeastPlace
  <1>3. \A y \in S : n - x <= n - y
    BY <1>1, <1>2, LeastPlace
  <1>4. \A y \in S : x >= y
    BY <1>3
  <1>5. \E z \in S : \A y \in S : z >= y
    BY <1>4
  <1>. QED
    BY <1>5, Zenon DEF Max

LEMMA FirstIs ==
    ASSUME NEW n \in Nat, NEW values, DOMAIN values = 1..n
    PROVE  /\ FirstNonempty(values) = None <=> \A i \in 1..n : values[i] = None
           /\ FirstNonempty(values) # None =>
                 \E i \in 1..n : values[i] = FirstNonempty(values)
  <1> DEFINE full == {i \in 1..n : values[i] # None}
  <1>1. full # {} => Min(full) \in full
    <2>1. full \in SUBSET Nat
      OBVIOUS
    <2>. HIDE DEF full
    <2>. QED
      BY <2>1, LeastPlace
  <1>2. FirstNonempty(values) = IF full = {} THEN None ELSE values[Min(full)]
    BY DEF FirstNonempty
  <1>. QED
    BY <1>1, <1>2

LEMMA FirstOfPair ==
    ASSUME NEW a, NEW b
    PROVE  FirstNonempty(<<a, b>>) = IF a # None THEN a ELSE b
  <1> DEFINE values == <<a, b>>
             full == {i \in 1..2 : values[i] # None}
  <1>1. full # {} => Min(full) \in full /\ \A x \in full : Min(full) <= x
    BY LeastPlace
  <1>2. FirstNonempty(values) = IF full = {} THEN None ELSE values[Min(full)]
    BY DEF FirstNonempty
  <1>3. CASE a # None
    <2>1. 1 \in full
      BY <1>3
    <2>2. Min(full) = 1
      BY <1>1, <2>1
    <2>. QED
      BY <1>2, <1>3, <2>1, <2>2
  <1>4. CASE a = None /\ b # None
    <2>1. full = {2}
      BY <1>4
    <2>2. Min(full) = 2
      BY <1>1, <2>1
    <2>. QED
      BY <1>2, <1>4, <2>1, <2>2
  <1>5. CASE a = None /\ b = None
    BY <1>2, <1>5
  <1>. QED
    BY <1>3, <1>4, <1>5

-----------------------------------------------------------------------------
(* A group of records, and what its view keeps of it.                      *)

Words == [key : STRING, val : STRING]
ExecTokenSet ==
    {t \in [key : ExecKeys, arg : Nat, frag : Nat, num : Int, bytes : Seq(STRING)] :
        IsExecToken(t)}
Record == [type : Range(TypeOrder) \ {"EXECVE"}, raw : Seq(Words), embedded : Seq(Words)]
             \cup [type : {"EXECVE"} \cap Range(TypeOrder), raw : Seq(ExecTokenSet), embedded : Seq(ExecTokenSet)]
Groups == Seq(Record) \ {<< >>}

LEMMA ViewOfRecord ==
    ASSUME NEW g \in Groups, NEW i \in DOMAIN g
    PROVE  /\ i \in DOMAIN View(g)
           /\ View(g)[i].type = g[i].type
           /\ View(g)[i].raw = Seen(g, i, g[i].raw)
           /\ View(g)[i].embedded = Seen(g, i, g[i].embedded)
  BY DEF View

LEMMA ViewIsGroup ==
    ASSUME NEW g \in Groups
    PROVE  /\ DOMAIN View(g) = 1..Len(g) /\ DOMAIN g = 1..Len(g) /\ Len(g) \in Nat \ {0}
           /\ Types(View(g)) = Types(g)
  <1>1. DOMAIN g = 1..Len(g) /\ Len(g) \in Nat \ {0}
    BY DEF Groups
  <1>2. DOMAIN View(g) = DOMAIN g
    BY DEF View
  <1>3. Types(View(g)) = Types(g)
    BY <1>2, ViewOfRecord DEF Types
  <1>. QED
    BY <1>1, <1>2, <1>3

LEMMA RecordParts ==
    ASSUME NEW r \in Record
    PROVE  /\ r.type \in Range(TypeOrder)
           /\ r.type # "EXECVE" => r.raw \in Seq(Words) /\ r.embedded \in Seq(Words)
           /\ r.type = "EXECVE" => r.raw \in Seq(ExecTokenSet) /\ r.embedded \in Seq(ExecTokenSet)
  <1>1. CASE r \in [type : Range(TypeOrder) \ {"EXECVE"}, raw : Seq(Words), embedded : Seq(Words)]
    BY <1>1
  <1>2. CASE r \in [type : {"EXECVE"} \cap Range(TypeOrder), raw : Seq(ExecTokenSet),
                    embedded : Seq(ExecTokenSet)]
    BY <1>2
  <1>. QED
    BY <1>1, <1>2 DEF Record

LEMMA InRange ==
    ASSUME NEW f, NEW x
    PROVE  x \in Range(f) <=> \E n \in DOMAIN f : x = f[n]
  BY DEF Range

LEMMA RangeOfJoin ==
    ASSUME NEW K, NEW a \in Seq(K), NEW b \in Seq(K)
    PROVE  /\ a \o b \in Seq(K)
           /\ DOMAIN (a \o b) = 1..Len(a \o b) /\ Len(a \o b) \in Nat
           /\ Range(a \o b) = Range(a) \cup Range(b)
  <1> DEFINE c == a \o b
  <1>1. DOMAIN c = 1..(Len(a) + Len(b)) /\ Len(a) \in Nat /\ Len(b) \in Nat
    OBVIOUS
  <1>2. \A n \in 1..Len(a) : c[n] = a[n] /\ n \in DOMAIN c
    BY <1>1
  <1>3. \A n \in 1..Len(b) : c[n + Len(a)] = b[n] /\ n + Len(a) \in DOMAIN c
    BY <1>1
  <1>4. \A n \in DOMAIN c :
           n \in 1..Len(a) \/ (n - Len(a) \in 1..Len(b) /\ c[n] = b[n - Len(a)])
    BY <1>1
  <1>5. DOMAIN a = 1..Len(a) /\ DOMAIN b = 1..Len(b)
    OBVIOUS
  <1>6. c \in Seq(K) /\ DOMAIN c = 1..Len(c) /\ Len(c) \in Nat
    OBVIOUS
  <1>. HIDE DEF c
  <1>7. \A x : (\E n \in DOMAIN c : x = c[n]) <=>
                (\E n \in DOMAIN a : x = a[n]) \/ (\E n \in DOMAIN b : x = b[n])
    BY <1>2, <1>3, <1>4, <1>5
  <1>8. \A x : x \in Range(c) <=> x \in Range(a) \/ x \in Range(b)
    <2>. SUFFICES ASSUME NEW x
                  PROVE  x \in Range(c) <=> x \in Range(a) \/ x \in Range(b)
      OBVIOUS
    <2>1. x \in Range(c) <=> \E n \in DOMAIN c : x = c[n]
      BY InRange
    <2>2. x \in Range(a) <=> \E n \in DOMAIN a : x = a[n]
      BY InRange
    <2>3. x \in Range(b) <=> \E n \in DOMAIN b : x = b[n]
      BY InRange
    <2>. QED
      BY <1>7, <2>1, <2>2, <2>3, Zenon
  <1>9. Range(c) = Range(a) \cup Range(b)
    BY <1>8
  <1>. QED
    BY <1>6, <1>9 DEF c

\* The tokens of a record, all of one kind.
TokenKind(type) == IF type = "EXECVE" THEN ExecTokenSet ELSE Words
LEMMA TokensOfRecord ==
    ASSUME NEW r \in Record
    PROVE  /\ AllOf(r) \in Seq(TokenKind(r.type))
           /\ DOMAIN AllOf(r) = 1..Len(AllOf(r)) /\ Len(AllOf(r)) \in Nat
           /\ Range(AllOf(r)) = Range(r.raw) \cup Range(r.embedded)
           /\ r.raw \in Seq(TokenKind(r.type)) /\ r.embedded \in Seq(TokenKind(r.type))
  <1>1. r.raw \in Seq(TokenKind(r.type)) /\ r.embedded \in Seq(TokenKind(r.type))
    BY RecordParts DEF TokenKind
  <1>. QED
    BY <1>1, RangeOfJoin DEF AllOf

LEMMA FirstOfIs ==
    ASSUME NEW n \in Nat, NEW tokens, DOMAIN tokens = 1..n, NEW key
    PROVE  /\ FirstOf(tokens, key) = None <=> \A t \in Range(tokens) : t.key = key => t.val = None
           /\ FirstOf(tokens, key) # None =>
                 \E t \in Range(tokens) : t.key = key /\ t.val = FirstOf(tokens, key)
  <1> DEFINE values == [m \in 1..n |-> IF tokens[m].key = key THEN tokens[m].val ELSE None]
  <1>1. FirstOf(tokens, key) = FirstNonempty(values)
    BY DEF FirstOf
  <1>2. DOMAIN values = 1..n
    OBVIOUS
  <1>3. \A m \in 1..n : tokens[m] \in Range(tokens)
    BY DEF Range
  <1>4. \A t \in Range(tokens) : \E m \in 1..n : t = tokens[m]
    BY DEF Range
  <1>5. /\ FirstNonempty(values) = None <=> \A i \in 1..n : values[i] = None
        /\ FirstNonempty(values) # None => \E i \in 1..n : values[i] = FirstNonempty(values)
    BY <1>2, FirstIs
  <1>6. (\A i \in 1..n : values[i] = None) <=>
           \A t \in Range(tokens) : t.key = key => t.val = None
    BY <1>3, <1>4
  <1>7. ASSUME NEW i \in 1..n, values[i] # None
        PROVE  tokens[i].key = key /\ tokens[i].val = values[i]
    BY <1>7
  <1>. HIDE DEF values
  <1>. QED
    BY <1>1, <1>3, <1>5, <1>6, <1>7

LEMMA SeenTokens ==
    ASSUME NEW g, NEW i, NEW tokens \in Seq(Words), g[i].type # "EXECVE"
    PROVE  /\ Seen(g, i, tokens) \in Seq(Range(Seen(g, i, tokens)))
           /\ \A t \in Range(tokens) :
                 Token(t.key, IF Conflicting(g, i, t.key) THEN None ELSE Decoded(t.val))
                     \in Range(Seen(g, i, tokens))
           /\ \A u \in Range(Seen(g, i, tokens)) : \E t \in Range(tokens) :
                 u = Token(t.key, IF Conflicting(g, i, t.key) THEN None ELSE Decoded(t.val))
  <1> DEFINE seen(t) == Token(t.key, IF Conflicting(g, i, t.key) THEN None ELSE Decoded(t.val))
             S == Seen(g, i, tokens)
  <1>1. DOMAIN S = DOMAIN tokens /\ \A n \in DOMAIN tokens : S[n] = seen(tokens[n])
    BY DEF Seen
  <1>2. \A n \in DOMAIN tokens : tokens[n] \in Words
    OBVIOUS
  <1>4. S = [n \in 1..Len(tokens) |-> seen(tokens[n])] /\ Len(tokens) \in Nat /\ DOMAIN tokens = 1..Len(tokens)
    BY DEF Seen
  <1>. HIDE DEF seen, S
  <1>5. S \in Seq(Range(S))
    <2>1. \A n \in 1..Len(tokens) : S[n] \in Range(S)
      BY <1>1, <1>4 DEF Range
    <2>. QED
      BY <1>1, <1>4, <2>1
  <1>6. \A t \in Range(tokens) : seen(t) \in Range(S)
    BY <1>1 DEF Range
  <1>7. \A u \in Range(S) : \E t \in Range(tokens) : u = seen(t)
    BY <1>1 DEF Range
  <1>. QED
    BY <1>5, <1>6, <1>7 DEF seen, S

\* What a record's own view says of a key is what its tokens say, unless
\* they are in conflict.
LEMMA RecordHeard ==
    ASSUME NEW g \in Groups, NEW i \in DOMAIN g, NEW key, key \notin ExecKeys
    PROVE  LET r == View(g)[i]
               semantic == SemanticValue(r, key)
               value == RecordValue(r, key)
           IN /\ semantic # None => /\ g[i].type # "EXECVE" /\ ~Conflicting(g, i, key)
                                    /\ semantic \in Said(g[i], key)
              /\ value # None => /\ g[i].type # "EXECVE" /\ ~Conflicting(g, i, key)
                                 /\ \E t \in Range(g[i].raw) : t.key = key /\ Decoded(t.val) = value
                                 /\ value \in Said(g[i], key)
              /\ semantic = None /\ g[i].type # "EXECVE" /\ ~Conflicting(g, i, key) =>
                    Said(g[i], key) \subseteq {None}
              /\ value = None /\ g[i].type # "EXECVE" /\ ~Conflicting(g, i, key) =>
                    \A t \in Range(g[i].raw) : t.key = key => Decoded(t.val) = None
  <1> DEFINE r == View(g)[i]
             R == g[i]
             told(t) == Token(t.key, IF Conflicting(g, i, t.key) THEN None ELSE Decoded(t.val))
  <1>1. R \in Record
    BY DEF Groups
  <1>2. r.raw = Seen(g, i, R.raw) /\ r.embedded = Seen(g, i, R.embedded)
    BY ViewOfRecord
  <1>3. Said(R, key) = {Decoded(t.val) : t \in {u \in Range(R.raw) \cup Range(R.embedded) : u.key = key}}
    BY <1>1, TokensOfRecord DEF Said
  <1>4. CASE R.type = "EXECVE"
    <2>1. R.raw \in Seq(ExecTokenSet) /\ R.embedded \in Seq(ExecTokenSet)
      BY <1>1, <1>4, RecordParts
    <2>2. r.raw = R.raw /\ r.embedded = R.embedded
      BY <1>2, <1>4, <2>1 DEF Seen
    <2>3. AllOf(r) = AllOf(R)
      BY <2>2 DEF AllOf
    <2>4. \A t \in Range(R.raw) \cup Range(R.embedded) : t.key # key
      <3>1. \A n \in DOMAIN R.raw : R.raw[n] \in ExecTokenSet
        BY <2>1
      <3>2. \A n \in DOMAIN R.embedded : R.embedded[n] \in ExecTokenSet
        BY <2>1
      <3>3. \A t \in ExecTokenSet : t.key \in ExecKeys
        BY DEF ExecTokenSet
      <3>. QED
        BY <3>1, <3>2, <3>3 DEF Range
    <2>5. SemanticValue(r, key) = None
      <3>1. /\ DOMAIN AllOf(R) = 1..Len(AllOf(R)) /\ Len(AllOf(R)) \in Nat
            /\ Range(AllOf(R)) = Range(R.raw) \cup Range(R.embedded)
        BY <1>1, TokensOfRecord
      <3>. HIDE DEF r, R
      <3>2. FirstOf(AllOf(R), key) = None
        BY <2>4, <3>1, FirstOfIs
      <3>. QED
        BY <2>3, <3>2 DEF SemanticValue
    <2>6. DOMAIN R.raw = 1..Len(R.raw) /\ Len(R.raw) \in Nat
      BY <2>1
    <2>7. RecordValue(r, key) = None
      BY <2>2, <2>4, <2>6, FirstOfIs DEF RecordValue
    <2>. QED
      BY <1>4, <2>5, <2>7
  <1>5. CASE R.type # "EXECVE"
    <2>1. R.raw \in Seq(Words) /\ R.embedded \in Seq(Words)
      BY <1>1, <1>5, RecordParts
    <2> DEFINE kept == Range(r.raw) \cup Range(r.embedded)
    <2>2. r.raw \in Seq(kept) /\ r.embedded \in Seq(kept)
      <3>1. r.raw \in Seq(Range(r.raw)) /\ r.embedded \in Seq(Range(r.embedded))
        BY <1>2, <1>5, <2>1, SeenTokens
      <3>. HIDE DEF r
      <3>. QED
        BY <3>1
    <2>3. /\ DOMAIN AllOf(r) = 1..Len(AllOf(r)) /\ Len(AllOf(r)) \in Nat
          /\ Range(AllOf(r)) = Range(r.raw) \cup Range(r.embedded)
      <3>1. AllOf(r) = r.raw \o r.embedded
        BY DEF AllOf
      <3>2. /\ DOMAIN (r.raw \o r.embedded) = 1..Len(r.raw \o r.embedded)
            /\ Len(r.raw \o r.embedded) \in Nat
            /\ Range(r.raw \o r.embedded) = Range(r.raw) \cup Range(r.embedded)
        <4>. HIDE DEF r, kept
        <4>. QED
          BY <2>2, RangeOfJoin, ZenonT(30)
      <3>. HIDE DEF r
      <3>. QED
        BY <3>1, <3>2
    <2>4. DOMAIN r.raw = 1..Len(r.raw) /\ Len(r.raw) \in Nat
      BY <2>2
    <2>5. /\ \A t \in Range(R.raw) : told(t) \in Range(r.raw)
          /\ \A u \in Range(r.raw) : \E t \in Range(R.raw) : u = told(t)
      BY <1>2, <1>5, <2>1, SeenTokens
    <2>6. /\ \A t \in Range(R.embedded) : told(t) \in Range(r.embedded)
          /\ \A u \in Range(r.embedded) : \E t \in Range(R.embedded) : u = told(t)
      BY <1>2, <1>5, <2>1, SeenTokens
    <2>7. \A t : told(t).key = t.key /\ told(t).val = IF Conflicting(g, i, t.key) THEN None
                                                      ELSE Decoded(t.val)
      BY DEF Token
    <2>8. /\ SemanticValue(r, key) = None <=>
                \A t \in Range(AllOf(r)) : t.key = key => t.val = None
          /\ SemanticValue(r, key) # None =>
                \E t \in Range(AllOf(r)) : t.key = key /\ t.val = SemanticValue(r, key)
      BY <2>3, FirstOfIs DEF SemanticValue
    <2>9. /\ RecordValue(r, key) = None <=>
                \A t \in Range(r.raw) : t.key = key => t.val = None
          /\ RecordValue(r, key) # None =>
                \E t \in Range(r.raw) : t.key = key /\ t.val = RecordValue(r, key)
      BY <2>4, FirstOfIs DEF RecordValue
    <2>. HIDE DEF told, r
    <2>10. SemanticValue(r, key) # None => /\ ~Conflicting(g, i, key)
                                          /\ SemanticValue(r, key) \in Said(R, key)
      <3>. SUFFICES ASSUME SemanticValue(r, key) # None
                    PROVE  ~Conflicting(g, i, key) /\ SemanticValue(r, key) \in Said(R, key)
        OBVIOUS
      <3>1. PICK u \in Range(r.raw) \cup Range(r.embedded) :
               u.key = key /\ u.val = SemanticValue(r, key)
        BY <2>3, <2>8
      <3>2. PICK t \in Range(R.raw) \cup Range(R.embedded) : u = told(t)
        BY <2>5, <2>6, <3>1
      <3>3. t.key = key /\ ~Conflicting(g, i, key) /\ Decoded(t.val) = SemanticValue(r, key)
        BY <2>7, <3>1, <3>2
      <3>. QED
        BY <1>3, <3>3
    <2>11. RecordValue(r, key) # None =>
              /\ ~Conflicting(g, i, key)
              /\ \E t \in Range(R.raw) : t.key = key /\ Decoded(t.val) = RecordValue(r, key)
              /\ RecordValue(r, key) \in Said(R, key)
      BY <1>3, <2>5, <2>7, <2>9
    <2>12. SemanticValue(r, key) = None /\ ~Conflicting(g, i, key) => Said(R, key) \subseteq {None}
      BY <1>3, <2>3, <2>5, <2>6, <2>7, <2>8
    <2>13. RecordValue(r, key) = None /\ ~Conflicting(g, i, key) =>
              \A t \in Range(R.raw) : t.key = key => Decoded(t.val) = None
      BY <2>5, <2>7, <2>9
    <2>. QED
      BY <1>5, <2>10, <2>11, <2>12, <2>13 DEF r
  <1>. QED
    BY <1>4, <1>5

LEMMA FirstHeard ==
    ASSUME NEW g \in Groups, NEW key, key \notin ExecKeys
    PROVE  /\ FirstSemantic(View(g), key) # None =>
                 \E i \in DOMAIN g : /\ SemanticValue(View(g)[i], key) = FirstSemantic(View(g), key)
                                    /\ ~Conflicting(g, i, key) /\ g[i].type # "EXECVE"
                                    /\ FirstSemantic(View(g), key) \in Said(g[i], key)
           /\ FirstSemantic(View(g), key) = None =>
                 \A i \in DOMAIN g : SemanticValue(View(g)[i], key) = None
           /\ FirstRecordValue(View(g), key) # None =>
                 \E i \in DOMAIN g : /\ RecordValue(View(g)[i], key) = FirstRecordValue(View(g), key)
                                    /\ ~Conflicting(g, i, key) /\ g[i].type # "EXECVE"
                                    /\ FirstRecordValue(View(g), key) \in Said(g[i], key)
           /\ FirstRecordValue(View(g), key) = None =>
                 \A i \in DOMAIN g : RecordValue(View(g)[i], key) = None
           /\ InterpretedValue(View(g), key) # None =>
                 \E i \in DOMAIN g : /\ RecordValue(View(g)[i], key) = InterpretedValue(View(g), key)
                                    /\ ~Conflicting(g, i, key) /\ g[i].type # "EXECVE"
                                    /\ InterpretedValue(View(g), key) \in Said(g[i], key)
           /\ InterpretedValue(View(g), key) = None =>
                 \A i \in DOMAIN g : Interpreted(RecordValue(View(g)[i], key)) = None
  <1> DEFINE v == View(g)
             semantic == [i \in DOMAIN v |-> SemanticValue(v[i], key)]
             value == [i \in DOMAIN v |-> RecordValue(v[i], key)]
             interpreted == [i \in DOMAIN v |-> Interpreted(RecordValue(v[i], key))]
  <1>1. DOMAIN v = 1..Len(g) /\ DOMAIN g = 1..Len(g) /\ Len(g) \in Nat
    BY ViewIsGroup
  <1>2. /\ FirstSemantic(v, key) = FirstNonempty(semantic)
        /\ FirstRecordValue(v, key) = FirstNonempty(value)
        /\ InterpretedValue(v, key) = FirstNonempty(interpreted)
    BY DEF FirstSemantic, FirstRecordValue, InterpretedValue
  <1>3. \A i \in DOMAIN g :
           /\ SemanticValue(v[i], key) # None => /\ g[i].type # "EXECVE" /\ ~Conflicting(g, i, key)
                                                /\ SemanticValue(v[i], key) \in Said(g[i], key)
           /\ RecordValue(v[i], key) # None => /\ g[i].type # "EXECVE" /\ ~Conflicting(g, i, key)
                                              /\ RecordValue(v[i], key) \in Said(g[i], key)
    BY RecordHeard
  <1>4. \A x : Interpreted(x) # None => Interpreted(x) = x
    BY DEF Interpreted
  <1>. HIDE DEF v
  <1>5. /\ FirstNonempty(semantic) = None <=> \A i \in DOMAIN g : semantic[i] = None
        /\ FirstNonempty(semantic) # None => \E i \in DOMAIN g : semantic[i] = FirstNonempty(semantic)
    BY <1>1, FirstIs
  <1>6. /\ FirstNonempty(value) = None <=> \A i \in DOMAIN g : value[i] = None
        /\ FirstNonempty(value) # None => \E i \in DOMAIN g : value[i] = FirstNonempty(value)
    BY <1>1, FirstIs
  <1>7. /\ FirstNonempty(interpreted) = None <=> \A i \in DOMAIN g : interpreted[i] = None
        /\ FirstNonempty(interpreted) # None =>
              \E i \in DOMAIN g : interpreted[i] = FirstNonempty(interpreted)
    BY <1>1, FirstIs
  <1>8. \A i \in DOMAIN g : /\ semantic[i] = SemanticValue(v[i], key)
                           /\ value[i] = RecordValue(v[i], key)
                           /\ interpreted[i] = Interpreted(RecordValue(v[i], key))
    BY <1>1
  <1>. HIDE DEF semantic, value, interpreted
  <1>9. /\ FirstSemantic(v, key) # None =>
              \E i \in DOMAIN g : /\ SemanticValue(v[i], key) = FirstSemantic(v, key)
                                 /\ ~Conflicting(g, i, key) /\ g[i].type # "EXECVE"
                                 /\ FirstSemantic(v, key) \in Said(g[i], key)
        /\ FirstSemantic(v, key) = None => \A i \in DOMAIN g : SemanticValue(v[i], key) = None
    BY <1>2, <1>3, <1>5, <1>8
  <1>10. /\ FirstRecordValue(v, key) # None =>
               \E i \in DOMAIN g : /\ RecordValue(v[i], key) = FirstRecordValue(v, key)
                                  /\ ~Conflicting(g, i, key) /\ g[i].type # "EXECVE"
                                  /\ FirstRecordValue(v, key) \in Said(g[i], key)
         /\ FirstRecordValue(v, key) = None => \A i \in DOMAIN g : RecordValue(v[i], key) = None
    BY <1>2, <1>3, <1>6, <1>8
  <1>11. /\ InterpretedValue(v, key) # None =>
               \E i \in DOMAIN g : /\ RecordValue(v[i], key) = InterpretedValue(v, key)
                                  /\ ~Conflicting(g, i, key) /\ g[i].type # "EXECVE"
                                  /\ InterpretedValue(v, key) \in Said(g[i], key)
         /\ InterpretedValue(v, key) = None =>
               \A i \in DOMAIN g : Interpreted(RecordValue(v[i], key)) = None
    <2>1. ASSUME InterpretedValue(v, key) # None
          PROVE  \E i \in DOMAIN g : /\ RecordValue(v[i], key) = InterpretedValue(v, key)
                                    /\ ~Conflicting(g, i, key) /\ g[i].type # "EXECVE"
                                    /\ InterpretedValue(v, key) \in Said(g[i], key)
      <3>1. PICK i \in DOMAIN g : Interpreted(RecordValue(v[i], key)) = InterpretedValue(v, key)
        BY <1>2, <1>7, <1>8, <2>1
      <3>2. RecordValue(v[i], key) = InterpretedValue(v, key)
        BY <1>4, <2>1, <3>1
      <3>. QED
        BY <1>3, <2>1, <3>2
    <2>. QED
      BY <1>2, <1>7, <1>8, <2>1
  <1>. QED
    BY <1>9, <1>10, <1>11 DEF v

\* What it means that a token is not in conflict.
LEMMA Unmarked ==
    ASSUME NEW g, NEW i \in DOMAIN g, NEW key, ~Conflicting(g, i, key), NEW k \in SpelledAs(key)
    PROVE  /\ k \in GroupSingletons => ~Disagree(SaidOfAny(g, k))
           /\ k \in Singletons => ~Disagree(Said(g[i], k))
  BY DEF Conflicting, GroupDiffers, RecordDiffers

\* The places of tokens, and the tokens of a record.
LEMMA TokenPlaces ==
    ASSUME NEW g \in Groups
    PROVE  /\ \A a \in Tokens(g) : /\ a[1] \in DOMAIN g /\ a[2] \in Section
                                  /\ a[3] \in DOMAIN g[a[1]][a[2]] /\ a = <<a[1], a[2], a[3]>>
                                  /\ At(g, a) \in Range(g[a[1]][a[2]])
                                  /\ At(g, a) \in Range(AllOf(g[a[1]]))
           /\ \A i \in DOMAIN g, s \in Section : \A t \in Range(g[i][s]) :
                 \E a \in Tokens(g) : a[1] = i /\ a[2] = s /\ At(g, a) = t
           /\ \A i \in DOMAIN g : \A t \in Range(AllOf(g[i])) :
                 \E a \in Tokens(g) : a[1] = i /\ At(g, a) = t
  <1>1. \A i \in DOMAIN g : g[i] \in Record
    BY DEF Groups
  <1>2. \A i \in DOMAIN g : Range(AllOf(g[i])) = Range(g[i].raw) \cup Range(g[i].embedded)
    BY <1>1, TokensOfRecord
  <1>3. ASSUME NEW a \in Tokens(g)
        PROVE  /\ a[1] \in DOMAIN g /\ a[2] \in Section
               /\ a[3] \in DOMAIN g[a[1]][a[2]] /\ a = <<a[1], a[2], a[3]>>
    BY DEF Tokens
  <1>4. ASSUME NEW a \in Tokens(g) PROVE At(g, a) \in Range(g[a[1]][a[2]])
    BY <1>3 DEF At, Range
  <1>5. ASSUME NEW a \in Tokens(g) PROVE At(g, a) \in Range(AllOf(g[a[1]]))
    BY <1>2, <1>3, <1>4 DEF Section
  <1>6. ASSUME NEW i \in DOMAIN g, NEW s \in Section, NEW t \in Range(g[i][s])
        PROVE  \E a \in Tokens(g) : a[1] = i /\ a[2] = s /\ At(g, a) = t
    <2>1. PICK n \in DOMAIN g[i][s] : t = g[i][s][n]
      BY DEF Range
    <2> DEFINE at(j, q) == {<<j, q, m>> : m \in DOMAIN g[j][q]}
    <2>2. <<i, s, n>> \in at(i, s)
      OBVIOUS
    <2>3. <<i, s, n>> \in Tokens(g)
      <3>1. Tokens(g) = UNION {at(j, q) : j \in DOMAIN g, q \in Section}
        BY DEF Tokens
      <3>. HIDE DEF at
      <3>. QED
        BY <2>2, <3>1
    <2>. QED
      BY <2>1, <2>3 DEF At
  <1>7. ASSUME NEW i \in DOMAIN g, NEW t \in Range(AllOf(g[i]))
        PROVE  \E a \in Tokens(g) : a[1] = i /\ At(g, a) = t
    BY <1>2, <1>6 DEF Section
  <1>. QED
    BY <1>3, <1>4, <1>5, <1>6, <1>7

-----------------------------------------------------------------------------
(* The state is a group, what it publishes and what its issues keep.       *)

Published ==
    /\ theme \in Themes /\ group \in Groups
    /\ Types(group) \subseteq DOMAIN theme.carries
    /\ event = Event(group) /\ issues = Issues(group)

LEMMA ThemeTokens ==
    ASSUME NEW t \in Themes, NEW type \in DOMAIN t.carries, NEW s \in Section,
           NEW token \in t.carries[type][s]
    PROVE  type \in Range(TypeOrder) /\ token \in TokenKind(type)
  <1>1. type \in Range(TypeOrder)
    BY CanonicalAssumption
  <1>2. CASE type = "EXECVE"
    <2>1. IsExecToken(token)
      BY <1>2, CanonicalAssumption
    <2>2. token \in [key : ExecKeys, arg : Nat, frag : Nat, num : Int, bytes : Seq(STRING)]
      <3>1. /\ token.arg \in Nat /\ token.frag \in Nat /\ token.num \in Int
            /\ token.bytes \in Seq(STRING)
        BY <2>1 DEF IsExecToken
      <3>2. << >> \in Seq(STRING) /\ 0 \in Nat /\ 0 \in Int
        OBVIOUS
      <3>3. CASE token = Argc(token.num)
        BY <3>1, <3>2, <3>3 DEF Argc, ExecKeys
      <3>4. CASE token = Whole(token.arg, token.bytes)
        BY <3>1, <3>2, <3>4 DEF Whole, ExecKeys
      <3>5. CASE token = Length(token.arg, token.num)
        BY <3>1, <3>2, <3>5 DEF Length, ExecKeys
      <3>6. CASE token = Fragment(token.arg, token.frag, token.bytes)
        BY <3>1, <3>2, <3>6 DEF Fragment, ExecKeys
      <3>. QED
        BY <2>1, <3>3, <3>4, <3>5, <3>6 DEF IsExecToken
    <2>. QED
      BY <1>1, <1>2, <2>1, <2>2 DEF TokenKind, ExecTokenSet
  <1>3. CASE type # "EXECVE"
    BY <1>1, <1>3, CanonicalAssumption DEF TokenKind, Words
  <1>. QED
    BY <1>1, <1>2, <1>3

LEMMA RecordIs ==
    ASSUME NEW type \in Range(TypeOrder), NEW raw \in Seq(TokenKind(type)),
           NEW embedded \in Seq(TokenKind(type))
    PROVE  [type |-> type, raw |-> raw, embedded |-> embedded] \in Record
  BY DEF TokenKind, Record

\* A record with one more token is a record.
Lengthen(r, section, token) == [r EXCEPT ![section] = Append(@, token)]

LEMMA Lengthened ==
    ASSUME NEW r \in Record, NEW section \in Section, NEW token \in TokenKind(r.type)
    PROVE  /\ Lengthen(r, section, token) \in Record
           /\ Lengthen(r, section, token).type = r.type
  <1>1. PICK type, raw, embedded : r = [type |-> type, raw |-> raw, embedded |-> embedded]
    BY DEF Record
  <1>2. type = r.type /\ raw = r.raw /\ embedded = r.embedded
    BY <1>1
  <1>3. type \in Range(TypeOrder)
    BY <1>2, RecordParts
  <1>4. raw \in Seq(TokenKind(type)) /\ embedded \in Seq(TokenKind(type)) /\ token \in TokenKind(type)
    BY <1>2, TokensOfRecord
  <1>5. Append(raw, token) \in Seq(TokenKind(type)) /\ Append(embedded, token) \in Seq(TokenKind(type))
    BY <1>4
  <1>6. CASE section = "raw"
    <2>1. Lengthen(r, section, token)
             = [type |-> type, raw |-> Append(raw, token), embedded |-> embedded]
      BY <1>1, <1>6 DEF Lengthen
    <2>2. [type |-> type, raw |-> Append(raw, token), embedded |-> embedded] \in Record
      BY <1>3, <1>4, <1>5, RecordIs
    <2>3. Lengthen(r, section, token).type = type
      BY <2>1
    <2>. QED
      BY <1>2, <2>1, <2>2, <2>3
  <1>7. CASE section = "embedded"
    <2>1. Lengthen(r, section, token)
             = [type |-> type, raw |-> raw, embedded |-> Append(embedded, token)]
      BY <1>1, <1>7 DEF Lengthen
    <2>2. [type |-> type, raw |-> raw, embedded |-> Append(embedded, token)] \in Record
      BY <1>3, <1>4, <1>5, RecordIs
    <2>3. Lengthen(r, section, token).type = type
      BY <2>1
    <2>. QED
      BY <1>2, <2>1, <2>2, <2>3
  <1>. QED
    BY <1>6, <1>7 DEF Section

LEMMA BareIs ==
    ASSUME NEW type \in Range(TypeOrder)
    PROVE  Bare(type) \in Record /\ Bare(type).type = type
  <1>1. << >> \in Seq(TokenKind(type))
    OBVIOUS
  <1>. QED
    BY <1>1, RecordIs DEF Bare

LEMMA PublishedInv == Spec => []Published
  <1>1. Init => Published
    <2>. SUFFICES ASSUME Init PROVE Published
      OBVIOUS
    <2>1. PICK type \in DOMAIN theme.carries : group = <<Bare(type)>>
      BY DEF Init
    <2>2. theme \in Themes /\ type \in Range(TypeOrder)
      BY CanonicalAssumption DEF Init
    <2>3. Bare(type) \in Record /\ Bare(type).type = type
      BY <2>2, BareIs
    <2>4. group \in Groups /\ DOMAIN group = {1} /\ group[1].type = type
      BY <2>1, <2>3 DEF Groups
    <2>. QED
      BY <2>2, <2>4 DEF Init, Published, Types
  <1>2. Published /\ [Next]_vars => Published'
    <2>. SUFFICES ASSUME Published, [Next]_vars PROVE Published'
      OBVIOUS
    <2> DEFINE n == Len(group)
               r == group[n]
    <2>1. n \in Nat \ {0} /\ group \in Seq(Record) /\ r \in Record /\ DOMAIN group = 1..n
      BY DEF Published, Groups
    <2>2. CASE UNCHANGED vars
      BY <2>2 DEF vars, Published
    <2>3. ASSUME NEW g \in Groups, Becomes(g), UNCHANGED theme,
                 Types(g) \subseteq DOMAIN theme.carries
          PROVE  Published'
      BY <2>3 DEF Becomes, Published
    <2>4. ASSUME NEW type \in DOMAIN theme.carries, Arrive(type) PROVE Published'
      <3> DEFINE g == Append(group, Bare(type))
      <3>1. type \in Range(TypeOrder)
        BY CanonicalAssumption DEF Published
      <3>2. Bare(type) \in Record /\ Bare(type).type = type
        BY <3>1, BareIs
      <3>3. g \in Groups /\ DOMAIN g = 1..(n + 1) /\ g[n + 1] = Bare(type)
            /\ \A i \in 1..n : g[i] = group[i]
        BY <2>1, <3>2 DEF Groups
      <3>4. Types(g) \subseteq DOMAIN theme.carries
        BY <2>1, <3>2, <3>3 DEF Types, Published
      <3>. QED
        BY <2>3, <2>4, <3>3, <3>4 DEF Arrive
    <2>5. ASSUME NEW section \in Section,
                 NEW token \in theme.carries[Last(group).type][section], Carry(section, token)
          PROVE  Published'
      <3> DEFINE s == Lengthen(r, section, token)
                 g == [group EXCEPT ![n] = s]
      <3>1. Last(group) = r
        BY DEF Last
      <3>2. r.type \in DOMAIN theme.carries /\ theme \in Themes
        BY <2>1 DEF Published, Types
      <3>3. token \in TokenKind(r.type)
        BY <3>1, <3>2, ThemeTokens
      <3>4. s \in Record /\ s.type = r.type
        <4>. HIDE DEF r
        <4>. QED
          BY <2>1, <3>3, Lengthened
      <3>5. g \in Groups /\ DOMAIN g = 1..n /\ \A i \in 1..n : g[i].type = group[i].type
        <4>. HIDE DEF s
        <4>. QED
          BY <2>1, <3>4 DEF Groups
      <3>6. Types(g) \subseteq DOMAIN theme.carries
        BY <2>1, <3>5 DEF Types, Published
      <3>7. Becomes(g) /\ UNCHANGED theme
        <4> DEFINE h == [group EXCEPT ![Len(group)][section] = Append(@, token)]
        <4>1. Becomes(h) /\ UNCHANGED theme
          BY <2>5 DEF Carry
        <4>2. h = g
          <5>1. g = [group EXCEPT ![n] = s]
            OBVIOUS
          <5>2. s = [group[Len(group)] EXCEPT ![section] = Append(group[Len(group)][section], token)]
            BY DEF Lengthen
          <5>. QED
            BY <5>1, <5>2
        <4>. QED
          BY <4>1, <4>2, Zenon
      <3>. QED
        BY <2>3, <3>5, <3>6, <3>7
    <2>. QED
      BY <2>2, <2>4, <2>5 DEF Next
  <1>. QED
    BY <1>1, <1>2, PTL DEF Spec

LEMMA IssuesKeep ==
    ASSUME NEW g
    PROVE  /\ \A a \in Tokens(g) : Conflicting(g, a[1], At(g, a).key) => a \in Issues(g)
           /\ Success(g) = None => TypedTokens(g, Decider(g), ResultKeys) \subseteq Issues(g)
           /\ ~CommandValid(g) => TypedTokens(g, "USER_CMD", {"cmd"}) \subseteq Issues(g)
           /\ ~AttributionValid(g) => TypedTokens(g, "LOGIN", Attributes) \subseteq Issues(g)
           /\ \A a \in Tokens(g) :
                 a[1] \in Further(View(g)) /\ At(g, a).key \in SecurityKeys => a \in Issues(g)
           /\ \A a \in Tokens(g) :
                 /\ a[1] \in Filters(View(g)) /\ a[2] = "raw" /\ At(g, a).key \in FilterKeys
                 /\ Filter(View(g)[a[1]]) # ShownFilter(View(g))
                 => a \in Issues(g)
  <1>1. \A a \in Tokens(g) : Conflicting(g, a[1], At(g, a).key) => a \in Issues(g)
    BY DEF Issues
  <1>2. Success(g) = None => TypedTokens(g, Decider(g), ResultKeys) \subseteq Issues(g)
    BY DEF Issues
  <1>3. ~CommandValid(g) => TypedTokens(g, "USER_CMD", {"cmd"}) \subseteq Issues(g)
    BY DEF Issues
  <1>4. ~AttributionValid(g) => TypedTokens(g, "LOGIN", Attributes) \subseteq Issues(g)
    BY DEF Issues
  <1>5. \A a \in Tokens(g) :
           a[1] \in Further(View(g)) /\ At(g, a).key \in SecurityKeys => a \in Issues(g)
    BY DEF Issues
  <1>6. \A a \in Tokens(g) :
           /\ a[1] \in Filters(View(g)) /\ a[2] = "raw" /\ At(g, a).key \in FilterKeys
           /\ Filter(View(g)[a[1]]) # ShownFilter(View(g))
           => a \in Issues(g)
    BY DEF Issues
  <1>. QED
    BY <1>1, <1>2, <1>3, <1>4, <1>5, <1>6

\* The fields of the event.
LEMMA EventFields ==
    ASSUME NEW g
    PROVE  LET e == Event(g)
               v == View(g)
               login == Login(v, EventType(g), Success(g))
               real == Identity(v, "UID", "uid")
           IN /\ e.type = EventType(g) /\ e.success = Success(g) /\ e.actor = Shown(login)
              /\ e.user = IF SameIdentity(Effective(v), login) THEN Nobody ELSE Shown(Effective(v))
              /\ e.real = IF SameIdentity(real, login) \/ SameIdentity(real, Effective(v))
                          THEN Nobody ELSE Shown(real)
              /\ e.pid = FirstSemantic(v, "pid") /\ e.exe = FirstSemantic(v, "exe")
              /\ e.exit = FirstSemantic(v, "exit") /\ e.syscall = InterpretedValue(v, "SYSCALL")
              /\ e.number = IF e.syscall = None THEN FirstRecordValue(v, "syscall") ELSE None
              /\ e.argv = Argv(g) /\ e.argvSource = ArgvSource(g) /\ e.command = Command(g)
              /\ e.attribution = Attribution(g)
              /\ e.originalAction = Meaningful(FirstNonempty(<<FirstSemantic(v, "op"),
                                                              FirstSemantic(v, "operation")>>))
              /\ e.account = Meaningful(FirstSemantic(v, "acct")) /\ e.origin = Origin(v)
              /\ e.security = ShownDecision(v) /\ e.seccomp = ShownFilter(v)
              /\ e.paths = Paths(v)
              /\ e.keys = RuleKeys(v) /\ e.name = TargetName(v, EventType(g))
  BY DEF Event

-----------------------------------------------------------------------------
(* LOGIN attribution.                                                      *)

LEMMA AttributeTokens ==
    ASSUME NEW g \in Groups, NEW key
    PROVE  AttributeValues(g, key) = {At(g, a).val : a \in TypedTokens(g, "LOGIN", {key})}
  <1> DEFINE records == {q \in Range(g) : q.type = "LOGIN"}
             tokens == UNION {Range(AllOf(r)) : r \in records}
  <1>1. ASSUME NEW a \in TypedTokens(g, "LOGIN", {key})
        PROVE  At(g, a) \in {u \in tokens : u.key = key}
    <2>1. /\ a \in Tokens(g) /\ g[a[1]].type = "LOGIN" /\ At(g, a).key = key
          /\ a[1] \in DOMAIN g /\ At(g, a) \in Range(AllOf(g[a[1]]))
      BY TokenPlaces DEF TypedTokens, TypeAt
    <2>2. g[a[1]] \in records
      BY <2>1 DEF Range
    <2>. QED
      BY <2>1, <2>2
  <1>2. ASSUME NEW t \in tokens, t.key = key
        PROVE  \E a \in TypedTokens(g, "LOGIN", {key}) : At(g, a) = t
    <2>1. PICK i \in DOMAIN g : g[i].type = "LOGIN" /\ t \in Range(AllOf(g[i]))
      BY DEF Range
    <2>2. PICK a \in Tokens(g) : a[1] = i /\ At(g, a) = t
      BY <2>1, TokenPlaces
    <2>. QED
      BY <1>2, <2>1, <2>2 DEF TypedTokens, TypeAt
  <1>3. AttributeValues(g, key) = {t.val : t \in {u \in tokens : u.key = key}}
    BY DEF AttributeValues
  <1>. HIDE DEF tokens
  <1>. QED
    BY <1>1, <1>2, <1>3

LEMMA AgreedAttribute ==
    ASSUME NEW g, NEW key, ~Disagree(AttributeValues(g, key))
    PROVE  AttributeValues(g, key) \subseteq {Attribute(g, key)}
  BY DEF Attribute, Disagree

\* A result that is published was read, and was the only one.
LEMMA SuccessIsRead ==
    ASSUME NEW g
    PROVE  /\ Success(g) \in {None, "yes", "no"}
           /\ Success(g) # None => Decider(g) # None /\ Readings(g, Decider(g)) = {Success(g)}
  <1>1. CASE Decider(g) # None /\ Readings(g, Decider(g)) = {"yes"}
    <2>1. Success(g) = "yes"
      BY <1>1 DEF Success
    <2>. QED
      BY <1>1, <2>1
  <1>2. CASE Decider(g) # None /\ Readings(g, Decider(g)) = {"no"}
    <2>1. Success(g) = "no"
      BY <1>2 DEF Success
    <2>. QED
      BY <1>2, <2>1
  <1>3. CASE ~ (Decider(g) # None /\ Readings(g, Decider(g)) \in {{"yes"}, {"no"}})
    BY <1>3 DEF Success
  <1>. QED
    BY <1>1, <1>2, <1>3

\* The type that decides has spoken; the event's own does when it speaks,
\* and of a LOGIN nothing else does.
LEMMA WhoDecides ==
    ASSUME NEW g
    PROVE  /\ EventType(g) \in Speaking(g) => Decider(g) = EventType(g)
           /\ EventType(g) = "LOGIN" /\ Decider(g) # None => Decider(g) = "LOGIN"
  <1> DEFINE type == EventType(g)
             heard == IF type = "LOGIN" THEN Speaking(g) \cap {type} ELSE Speaking(g)
  <1>1. type \in heard => Decider(g) = type
    BY DEF Decider
  <1>2. type \in Speaking(g) => type \in heard
    OBVIOUS
  <1>3. heard = {} => Decider(g) = None
    BY DEF Decider
  <1>4. type = "LOGIN" /\ heard # {} => type \in heard
    OBVIOUS
  <1>. QED
    BY <1>1, <1>2, <1>3, <1>4

LEMMA TransitionHolds == Published => TransitionFaithful
  <1>. SUFFICES ASSUME Published PROVE TransitionFaithful
    OBVIOUS
  <1> DEFINE login(key) == {At(group, a).val : a \in TypedTokens(group, "LOGIN", {key})}
             old == event.attribution.old
             new == event.attribution.new
             kept == TypedTokens(group, "LOGIN", Attributes) \subseteq issues
  <1>1. group \in Groups /\ event = Event(group) /\ issues = Issues(group)
    BY DEF Published
  <1>2. event.attribution = Attribution(group)
    BY <1>1, EventFields
  <1>3. ~AttributionValid(group) => kept
    BY <1>1, IssuesKeep
  <1>4. ASSUME AttributionValid(group)
        PROVE  /\ login("auid") \subseteq {new.uid} /\ login("old-auid") \subseteq {old.uid}
               /\ login("ses") \subseteq {new.session}
               /\ \A side \in {old, new} : side.unset => side.user = None
    <2>1. /\ old = Side(Attribute(group, "old-auid"), Attribute(group, "OLD-AUID"),
                        Attribute(group, "old-ses"))
          /\ new = Side(Attribute(group, "auid"), Attribute(group, "AUID"), Attribute(group, "ses"))
      BY <1>2, <1>4 DEF Attribution, Sides
    <2>2. \A k \in Attributes : login(k) \subseteq {Attribute(group, k)}
      BY <1>1, <1>4, AttributeTokens, AgreedAttribute DEF AttributionValid
    <2>3. /\ SideValid(Attribute(group, "old-auid"), Attribute(group, "OLD-AUID"),
                       Attribute(group, "old-ses"))
          /\ SideValid(Attribute(group, "auid"), Attribute(group, "AUID"), Attribute(group, "ses"))
      <3>1. Sides.old \in Range(Sides) /\ Sides.new \in Range(Sides)
        BY DEF Sides, Range
      <3>. QED
        BY <1>4, <3>1 DEF AttributionValid, Sides
    <2>4. ASSUME NEW uid, NEW user, NEW session, SideValid(uid, user, session),
                 Side(uid, user, session).unset
          PROVE  Side(uid, user, session).user = None
      BY <2>4 DEF Side, SideValid, Interpreted, None
    <2>5. \A uid, user, session : /\ Side(uid, user, session).uid = uid
                                  /\ Side(uid, user, session).session = session
      BY DEF Side
    <2>. QED
      BY <2>1, <2>2, <2>3, <2>4, <2>5 DEF Attributes
  <1>5. ASSUME event.type = "LOGIN", event.actor # Nobody
        PROVE  Readings(group, "LOGIN") = {"yes"}
    <2>1. /\ EventType(group) = "LOGIN"
          /\ event.actor = Shown(Login(View(group), "LOGIN", Success(group)))
      BY <1>1, <1>5, EventFields
    <2>2. Success(group) = "yes"
      <3>. SUFFICES ASSUME Success(group) # "yes" PROVE FALSE
        OBVIOUS
      <3>1. Login(View(group), "LOGIN", Success(group)) = Nobody
        BY DEF Login
      <3>2. Shown(Nobody) = Nobody
        BY DEF Shown, Nobody
      <3>. QED
        BY <1>5, <2>1, <3>1, <3>2
    <2>. QED
      BY <2>1, <2>2, SuccessIsRead, WhoDecides DEF None
  <1>. QED
    BY <1>3, <1>4, <1>5, Zenon DEF TransitionFaithful

-----------------------------------------------------------------------------
(* What the message claims.                                                *)

LEMMA SpeakingTypes ==
    ASSUME NEW g, NEW type, Readings(g, type) # {}
    PROVE  type \in Types(g) /\ type \in Speaking(g)
  <1>1. PICK q \in Range(g) : q.type = type
    BY DEF Readings
  <1>2. type \in Types(g)
    BY <1>1 DEF Types, Range
  <1>. QED
    BY <1>2 DEF Speaking

LEMMA ClaimOfOutcome ==
    ASSUME NEW e
    PROVE  (Claim(e) = "done" => e.success = "yes") /\ (Claim(e) = "failed" => e.success = "no")
  <1>1. Enforcement(e) \notin {"done", "failed"}
    BY DEF Enforcement
  <1>2. Outcome(e) = "done" => e.success = "yes"
    BY DEF Outcome
  <1>3. Outcome(e) = "failed" => e.success = "no"
    BY DEF Outcome
  <1>. QED
    BY <1>1, <1>2, <1>3 DEF Claim

\* The rules, and what they can name.
LEMMA RuleIs ==
    /\ DOMAIN Rules = 1..6
    /\ \A n \in DOMAIN Rules : Rules[n].action \in
           {"change_time", "rename", "delete", "access", "change_identity_configuration"}
  BY DEF Rules, Rule

LEMMA FirstRule ==
    ASSUME NEW e
    PROVE  LET matching == {n \in DOMAIN Rules : Matches(e, Rules[n])}
           IN matching # {} => /\ Min(matching) \in matching
                               /\ \A n \in matching : Min(matching) <= n
  <1>1. {n \in DOMAIN Rules : Matches(e, Rules[n])} \in SUBSET Nat
    BY RuleIs
  <1>. QED
    BY <1>1, LeastPlace

LEMMA RuleActions ==
    ASSUME NEW e
    PROVE  RuleAction(e) \in {None, "observe_activity", "change_time", "rename", "delete", "access",
                              "change_identity_configuration"}
  BY FirstRule, RuleIs DEF RuleAction

LEMMA FamilyActions ==
    ASSUME NEW type \in Mapped
    PROVE  FamilyAction[type] \notin {"execute", "access", "observe_activity"}
  BY DEF Mapped, FamilyAction, AccessControl, Integrity, Producers

LEMMA ExecutionClaimed ==
    ASSUME NEW e, Action(e) = "execute"
    PROVE  Executes(e)
  <1>1. RuleAction(e) # "execute"
    BY RuleActions DEF None
  <1>2. \A code \in DOMAIN SeccompAction : SeccompAction[code] # "execute"
    BY DEF SeccompAction
  <1>. QED
    BY <1>1, <1>2, FamilyActions DEF Action, None

\* A named operation needs no key: the rule that names it matches without.
LEMMA NamedWithoutKeys ==
    ASSUME NEW e, NEW d, Action(e) \notin {"access", "observe_activity"},
           d.type = e.type, d.success = e.success, d.syscall = e.syscall, d.exit = e.exit,
           d.argvSource = e.argvSource, d.seccomp = e.seccomp, d.paths = e.paths, d.keys = << >>
    PROVE  Action(d) = Action(e)
  <1>2. \A rule : Touches(d, rule) = Touches(e, rule) /\ Supported(d, rule) = Supported(e, rule)
    BY DEF Touches, Supported, Mutates
  <1>3. \A rule : Matches(d, rule) => Matches(e, rule)
    <2>1. Range(d.keys) = {}
      BY DEF Range
    <2>. QED
      BY <1>2, <2>1 DEF Matches
  <1>4. \A rule : rule.action # "access" /\ Supported(e, rule) => Matches(d, rule)
    BY <1>2 DEF Matches, Supported
  <1> DEFINE of(x) == {n \in DOMAIN Rules : Matches(x, Rules[n])}
  <1>5. of(d) \subseteq of(e)
    BY <1>3
  <1>6. ASSUME RuleAction(e) \notin {"access", "observe_activity"}
        PROVE  RuleAction(d) = RuleAction(e)
    <2>1. CASE of(e) = {}
      BY <1>5, <2>1 DEF RuleAction
    <2>2. CASE of(e) # {}
      <3> DEFINE n == Min(of(e))
      <3>1. n \in of(e) /\ \A m \in of(e) : n <= m
        BY <2>2, FirstRule
      <3>2. Rules[n].action # "access" /\ Supported(e, Rules[n]) /\ RuleAction(e) = Rules[n].action
        BY <1>6, <2>2 DEF RuleAction
      <3>3. n \in of(d)
        BY <1>4, <3>1, <3>2
      <3>4. Min(of(d)) = n
        <4>1. Min(of(d)) \in of(d) /\ \A m \in of(d) : Min(of(d)) <= m
          BY <3>3, FirstRule
        <4>2. Min(of(d)) <= n /\ n <= Min(of(d)) /\ n \in Nat /\ Min(of(d)) \in Nat
          BY <1>5, <3>1, <3>3, <4>1, RuleIs
        <4>. QED
          BY <4>2
      <3>. QED
        BY <1>2, <3>2, <3>3, <3>4 DEF RuleAction
    <2>. QED
      BY <2>1, <2>2
  <1>7. Executes(d) = Executes(e)
    BY DEF Executes
  <1>. QED
    BY <1>6, <1>7 DEF Action, None

\* What the tokens outside EXECVE records say of a key.
LEMMA PlacesSay ==
    ASSUME group \in Groups, NEW key
    PROVE  /\ SaidAt(Places(key)) \subseteq SaidOfAny(group, key)
           /\ key \notin ExecKeys \cup {"cmd"} => SaidAt(Places(key)) = SaidOfAny(group, key)
  <1>1. ASSUME NEW a \in Places(key) PROVE Decoded(At(group, a).val) \in SaidOfAny(group, key)
    <2>1. a \in Tokens(group) /\ At(group, a).key = key
      BY DEF Places
    <2>2. a[1] \in DOMAIN group /\ At(group, a) \in Range(AllOf(group[a[1]]))
      BY <2>1, TokenPlaces
    <2>3. Decoded(At(group, a).val) \in Said(group[a[1]], key)
      BY <2>1, <2>2 DEF Said
    <2>4. group[a[1]] \in Range(group)
      BY <2>2 DEF Range
    <2>. QED
      BY <2>3, <2>4 DEF SaidOfAny
  <1>2. ASSUME key \notin ExecKeys \cup {"cmd"}, NEW x \in SaidOfAny(group, key)
        PROVE  x \in SaidAt(Places(key))
    <2>1. PICK i \in DOMAIN group : x \in Said(group[i], key)
      BY DEF SaidOfAny, Range
    <2>2. PICK t \in Range(AllOf(group[i])) : t.key = key /\ x = Decoded(t.val)
      BY <2>1 DEF Said
    <2>3. PICK a \in Tokens(group) : a[1] = i /\ At(group, a) = t
      BY <2>2, TokenPlaces
    <2>4. group[i].type # "EXECVE"
      <3>. SUFFICES ASSUME group[i].type = "EXECVE" PROVE FALSE
        OBVIOUS
      <3>1. AllOf(group[i]) \in Seq(ExecTokenSet)
        BY TokensOfRecord DEF Groups, TokenKind
      <3>2. t \in ExecTokenSet
        BY <2>2, <3>1 DEF Range
      <3>. QED
        BY <1>2, <2>2, <3>2 DEF ExecTokenSet
    <2>5. a \in Places(key)
      BY <1>2, <2>2, <2>3, <2>4 DEF Places, TypeAt
    <2>. QED
      BY <2>2, <2>3, <2>5 DEF SaidAt
  <1>3. SaidAt(Places(key)) \subseteq SaidOfAny(group, key)
    BY <1>1 DEF SaidAt
  <1>. QED
    BY <1>2, <1>3

LEMMA ClaimsHold == Published => ClaimsOnEvidence
  <1>. SUFFICES ASSUME Published PROVE ClaimsOnEvidence
    OBVIOUS
  <1> DEFINE own == Readings(group, event.type)
             result == CASE Claim(event) = "done" -> {"yes"} [] Claim(event) = "failed" -> {"no"}
                         [] OTHER -> own
  <1>1. group \in Groups /\ event = Event(group) /\ issues = Issues(group)
    BY DEF Published
  <1>2. event.type = EventType(group) /\ event.success = Success(group)
    BY <1>1, EventFields
  <1>3. own # {} => Decider(group) = event.type
    BY <1>2, SpeakingTypes, WhoDecides
  <1>4. ASSUME Claim(event) \in {"done", "failed"}
        PROVE  /\ own \subseteq result
               /\ \E type \in Types(group) : Readings(group, type) = result
               /\ event.type = "LOGIN" => own # {}
    <2>1. Success(group) # None /\ result = {Success(group)}
      BY <1>2, <1>4, ClaimOfOutcome DEF None
    <2>2. Decider(group) # None /\ Readings(group, Decider(group)) = result
      BY <2>1, SuccessIsRead
    <2>3. Decider(group) \in Types(group)
      BY <2>1, <2>2, SpeakingTypes
    <2>4. event.type = "LOGIN" => Decider(group) = event.type
      BY <1>2, <2>2, WhoDecides
    <2>. HIDE DEF result
    <2>. QED
      BY <1>3, <2>1, <2>2, <2>3, <2>4
  <1>5. ASSUME Action(event) = "execute"
        PROVE  "EXECVE" \in Types(group) \/ SaidAt(Places("SYSCALL")) = {"execve"}
    <2>1. event.syscall = "execve" \/ event.argvSource = "execve"
      BY <1>5, ExecutionClaimed DEF Executes
    <2>2. CASE event.argvSource = "execve"
      <3>1. ArgvSource(group) = "execve"
        BY <1>1, <2>2, EventFields
      <3>. QED
        BY <3>1 DEF ArgvSource, None
    <2>3. CASE event.syscall = "execve"
      <3>1. InterpretedValue(View(group), "SYSCALL") = "execve"
        BY <1>1, <2>3, EventFields
      <3>2. PICK i \in DOMAIN group : ~Conflicting(group, i, "SYSCALL") /\ "execve" \in Said(group[i], "SYSCALL")
        BY <1>1, <3>1, FirstHeard DEF ExecKeys, None
      <3>3. ~Disagree(SaidOfAny(group, "SYSCALL"))
        BY <3>2, Unmarked DEF GroupSingletons, SpelledAs
      <3>4. "execve" \in SaidOfAny(group, "SYSCALL")
        BY <3>2 DEF SaidOfAny, Range
      <3>5. SaidOfAny(group, "SYSCALL") = {"execve"}
        BY <3>3, <3>4 DEF Disagree
      <3>. QED
        BY <1>1, <3>5, PlacesSay DEF ExecKeys
    <2>. QED
      BY <2>1, <2>2, <2>3
  <1>6. ASSUME Action(event) \notin {"access", "observe_activity"}
        PROVE  Action([event EXCEPT !.keys = << >>]) = Action(event)
    <2> DEFINE d == [event EXCEPT !.keys = << >>]
    <2>1. \A f \in {"type", "success", "syscall", "exit", "argvSource", "seccomp", "paths", "keys"} :
             f \in DOMAIN event
      BY <1>1 DEF Event
    <2>2. /\ d.type = event.type /\ d.success = event.success /\ d.syscall = event.syscall
          /\ d.exit = event.exit /\ d.argvSource = event.argvSource
          /\ d.seccomp = event.seccomp /\ d.paths = event.paths /\ d.keys = << >>
      BY <2>1
    <2>. HIDE DEF d
    <2>3. Action(d) = Action(event)
      BY <1>6, <2>2, NamedWithoutKeys
    <2>. QED
      BY <2>3 DEF d
  <1>7. ASSUME event.success = None, own # {}
        PROVE  TypedTokens(group, event.type, ResultKeys) \subseteq issues
    <2>1. EventType(group) \in Speaking(group)
      BY <1>2, <1>7, SpeakingTypes
    <2>2. Decider(group) = event.type
      BY <1>2, <2>1, WhoDecides
    <2>. QED
      BY <1>1, <1>2, <1>7, <2>2, IssuesKeep
  <1>. HIDE DEF own
  <1>. QED
    BY <1>4, <1>5, <1>6, <1>7, Zenon DEF ClaimsOnEvidence, own

-----------------------------------------------------------------------------
(* Values that nothing contradicts.                                        *)

LEMMA SingletonsAreWords == (GroupSingletons \cup {"cmd"}) \cap ExecKeys = {}
  BY DEF GroupSingletons, ExecKeys

LEMMA AgreedPlaces ==
    ASSUME group \in Groups, NEW key, ~Disagree(SaidOfAny(group, key))
    PROVE  Agreed({key})
  BY PlacesSay DEF Agreed, Disagree

LEMMA HeardIsAgreed ==
    ASSUME NEW g \in Groups, NEW key \in GroupSingletons,
           \/ FirstSemantic(View(g), key) # None
           \/ FirstRecordValue(View(g), key) # None
           \/ InterpretedValue(View(g), key) # None
    PROVE  \A k \in SpelledAs(key) \cap GroupSingletons : ~Disagree(SaidOfAny(g, k))
  <1>1. PICK i \in DOMAIN g : ~Conflicting(g, i, key)
    BY FirstHeard, SingletonsAreWords
  <1>. QED
    BY <1>1, Unmarked

LEMMA ShownIdentity == Shown(Nobody) = Nobody
  BY DEF Shown, Nobody

LEMMA IdentityIsAgreed ==
    ASSUME group \in Groups, NEW name \in GroupSingletons, NEW id \in GroupSingletons,
           {id, name} \in Aliases, Identity(View(group), name, id) # Nobody
    PROVE  Agreed({id, name})
  <1>1. InterpretedValue(View(group), name) # None \/ FirstRecordValue(View(group), id) # None
    BY DEF Identity, Nobody
  <1>2. {id, name} \subseteq SpelledAs(name) /\ {id, name} \subseteq SpelledAs(id)
    BY DEF SpelledAs
  <1>3. ~Disagree(SaidOfAny(group, id)) /\ ~Disagree(SaidOfAny(group, name))
    BY <1>1, <1>2, HeardIsAgreed
  <1>. QED
    BY <1>3, AgreedPlaces DEF Agreed

LEMMA CommandTokens ==
    ASSUME NEW a \in Places("cmd")
    PROVE  /\ a \in TypedTokens(group, "USER_CMD", {"cmd"})
           /\ At(group, a).val \in Commands(group)
  BY DEF Places, TypedTokens, Commands

LEMMA UnanimousHolds == Published => Unanimous
  <1>. SUFFICES ASSUME Published PROVE Unanimous
    OBVIOUS
  <1> DEFINE v == View(group)
             login == Login(v, EventType(group), Success(group))
             real == Identity(v, "UID", "uid")
  <1>1. group \in Groups /\ event = Event(group) /\ issues = Issues(group)
    BY DEF Published
  <1>2. \A key \in {"pid", "exe", "exit", "acct"} :
           FirstSemantic(v, key) # None => Agreed({key})
    BY <1>1, HeardIsAgreed, AgreedPlaces DEF GroupSingletons, SpelledAs
  <1>3. /\ event.pid # None => Agreed({"pid"})
        /\ event.exe # None => Agreed({"exe"})
        /\ event.exit # None => Agreed({"exit"})
    BY <1>1, <1>2, EventFields
  <1>4. event.account # None => Agreed({"acct"})
    BY <1>1, <1>2, EventFields DEF Meaningful
  <1>5. CommandValid(group) => Agreed({"cmd"})
    <2>. SUFFICES ASSUME CommandValid(group), NEW a \in Places("cmd"), NEW b \in Places("cmd")
                  PROVE  Decoded(At(group, a).val) = Decoded(At(group, b).val)
      BY DEF Agreed, SaidAt, Disagree
    <2>1. At(group, a).val = At(group, b).val
      BY CommandTokens DEF CommandValid, Disagree
    <2>. QED
      BY <2>1
  <1>6. event.command # None => Agreed({"cmd"})
    BY <1>1, <1>5, EventFields DEF Command
  <1>7. event.actor # Nobody => Agreed({"auid", "AUID"})
    <2>1. event.actor = Shown(login)
      BY <1>1, EventFields
    <2>2. login # Nobody => Identity(v, "AUID", "auid") # Nobody
      BY DEF Login
    <2>. HIDE DEF login
    <2>3. event.actor # Nobody => Identity(v, "AUID", "auid") # Nobody
      BY <2>1, <2>2, ShownIdentity
    <2>. QED
      BY <1>1, <2>3, IdentityIsAgreed DEF GroupSingletons, Aliases
  <1>8. real # Nobody => Agreed({"uid", "UID"})
    BY <1>1, IdentityIsAgreed DEF GroupSingletons, Aliases
  <1>9. event.real # Nobody => Agreed({"uid", "UID"})
    <2>1. event.real # Nobody => event.real = Shown(real)
      BY <1>1, EventFields
    <2>. HIDE DEF real
    <2>. QED
      BY <1>8, <2>1, ShownIdentity
  <1>10. event.user # Nobody => Agreed({"euid", "EUID"}) \/ Agreed({"uid", "UID"})
    <2>1. event.user # Nobody => event.user = Shown(Effective(v))
      BY <1>1, EventFields
    <2>2. event.user # Nobody => Effective(v) # Nobody
      BY <2>1, ShownIdentity
    <2>3. Effective(v) = Identity(v, "EUID", "euid") \/ Effective(v) = real
      BY DEF Effective
    <2>4. Identity(v, "EUID", "euid") # Nobody => Agreed({"euid", "EUID"})
      BY <1>1, IdentityIsAgreed DEF GroupSingletons, Aliases
    <2>. QED
      BY <1>8, <2>2, <2>3, <2>4
  <1>11. {event.syscall, event.number} # {None} => Agreed({"syscall", "SYSCALL"})
    <2>1. {event.syscall, event.number} # {None} =>
             InterpretedValue(v, "SYSCALL") # None \/ FirstRecordValue(v, "syscall") # None
      BY <1>1, EventFields
    <2>2. {"syscall", "SYSCALL"} \subseteq SpelledAs("syscall") \cap SpelledAs("SYSCALL") \cap GroupSingletons
      BY DEF SpelledAs, Aliases, GroupSingletons
    <2>3. {event.syscall, event.number} # {None} =>
             ~Disagree(SaidOfAny(group, "syscall")) /\ ~Disagree(SaidOfAny(group, "SYSCALL"))
      BY <1>1, <2>1, <2>2, HeardIsAgreed
    <2>. QED
      BY <1>1, <2>3, AgreedPlaces DEF Agreed
  <1>12. \A key \in GroupSingletons : Agreed({key}) \/ Places(key) \subseteq issues
    <2>. SUFFICES ASSUME NEW key \in GroupSingletons, ~Agreed({key}), NEW a \in Places(key)
                  PROVE  a \in issues
      OBVIOUS
    <2>1. GroupDiffers(group, key)
      BY <1>1, AgreedPlaces DEF GroupDiffers
    <2>2. a \in Tokens(group) /\ At(group, a).key = key
      BY DEF Places
    <2>3. Conflicting(group, a[1], key)
      BY <2>1 DEF Conflicting, SpelledAs
    <2>. QED
      BY <1>1, <2>2, <2>3, IssuesKeep
  <1>13. Agreed({"cmd"}) \/ Places("cmd") \subseteq issues
    BY <1>1, <1>5, CommandTokens, IssuesKeep
  <1>. HIDE DEF v, login, real
  <1>. QED
    BY <1>3, <1>4, <1>6, <1>7, <1>9, <1>10, <1>11, <1>12, <1>13 DEF Unanimous

-----------------------------------------------------------------------------
(* Decisions and origins.                                                  *)

LEMMA EarliestIs ==
    ASSUME NEW S \in SUBSET Range(TypeOrder), S # {}
    PROVE  Earliest(S) \in S
  <1> DEFINE at == {n \in DOMAIN TypeOrder : TypeOrder[n] \in S}
  <1>1. DOMAIN TypeOrder \subseteq Nat
    BY CanonicalAssumption
  <1>2. at # {}
    BY DEF Range
  <1>3. Min(at) \in at
    BY <1>1, <1>2, LeastPlace
  <1>. QED
    BY <1>3 DEF Earliest

LEMMA PreferredIs ==
    ASSUME NEW types \in SUBSET Range(TypeOrder), types # {}
    PROVE  Preferred(types) \in types
  <1> DEFINE ranks == {Rank(t) : t \in types}
             best == {t \in types : \A u \in types : Rank(t) <= Rank(u)}
  <1>1. ranks \in SUBSET Nat /\ ranks # {}
    BY DEF Rank
  <1>2. Min(ranks) \in ranks /\ \A x \in ranks : Min(ranks) <= x
    BY <1>1, LeastPlace
  <1>3. best # {}
    <2>. HIDE DEF ranks
    <2>1. PICK t \in types : Min(ranks) = Rank(t)
      BY <1>2 DEF ranks
    <2>2. \A u \in types : Rank(u) \in ranks
      BY DEF ranks
    <2>. QED
      BY <1>2, <2>1, <2>2
  <1>4. Earliest(best) \in best
    BY <1>3, EarliestIs
  <1>. QED
    BY <1>4 DEF Preferred

\* The types of the records of a view are types of the order.
LEMMA TypesOrdered ==
    ASSUME NEW g \in Groups, NEW i \in DOMAIN g
    PROVE  g[i].type \in Range(TypeOrder)
  BY RecordParts DEF Groups

\* The decision shown is that of one record.
LEMMA DecisionShown ==
    ASSUME NEW g \in Groups
    PROVE  LET v == View(g)
           IN IF Decisive(v) = {} THEN ShownDecision(v) = NoDecision
              ELSE \E i \in Decisive(v) : ShownDecision(v) = Decision(v[i])
  <1> DEFINE v == View(g)
             types == {v[i].type : i \in Decisive(v)}
             type == Preferred(types)
             shown == {Decision(v[i]) : i \in {j \in Decisive(v) : v[j].type = type}}
  <1>1. Decisive(v) \subseteq DOMAIN g
    BY ViewIsGroup DEF Decisive
  <1>2. ASSUME Decisive(v) # {}
        PROVE  \E i \in Decisive(v) : ShownDecision(v) = Decision(v[i])
    <2>1. types \subseteq Range(TypeOrder) /\ types # {}
      BY <1>1, <1>2, TypesOrdered, ViewOfRecord
    <2>2. type \in types
      BY <2>1, PreferredIs
    <2>3. ShownDecision(v) = CHOOSE d \in shown : TRUE
      BY <1>2 DEF ShownDecision
    <2>4. shown # {}
      BY <2>2
    <2>5. ShownDecision(v) \in shown
      BY <2>3, <2>4
    <2>. QED
      BY <2>5
  <1>3. Decisive(v) = {} => ShownDecision(v) = NoDecision
    BY DEF ShownDecision
  <1>. QED
    BY <1>2, <1>3

\* What a decision says, its record said.
LEMMA DecisionSaid ==
    ASSUME NEW g \in Groups, NEW i \in DOMAIN g
    PROVE  LET d == Decision(View(g)[i])
           IN /\ d.decision \in {None} \cup Said(g[i], "decision") \cup Said(g[i], "apparmor")
              /\ d.subject \in {None} \cup Said(g[i], "scontext") \cup Said(g[i], "subj")
              /\ d.target \in {None} \cup Said(g[i], "tcontext")
              /\ d.permissive \in {None} \cup {Mode(val) : val \in Said(g[i], "permissive")}
  <1> DEFINE r == View(g)[i]
             either(a, b) == Meaningful(FirstNonempty(<<SemanticValue(r, a), SemanticValue(r, b)>>))
  <1>1. \A key \in SecurityKeys : SemanticValue(r, key) \in {None} \cup Said(g[i], key)
    BY RecordHeard DEF SecurityKeys, ExecKeys
  <1>2. \A x : Meaningful(x) \in {None, x}
    BY DEF Meaningful
  <1>3. \A a, b \in SecurityKeys : either(a, b) \in {None, SemanticValue(r, a), SemanticValue(r, b)}
    BY <1>2, FirstOfPair
  <1>4. LET d == Decision(r)
        IN /\ d.decision = either("decision", "apparmor")
           /\ d.subject = either("scontext", "subj")
           /\ d.target = Meaningful(SemanticValue(r, "tcontext"))
           /\ d.permissive = Mode(SemanticValue(r, "permissive"))
    BY DEF Decision
  <1>. HIDE DEF either, r
  <1>5. {"decision", "apparmor", "scontext", "subj", "tcontext", "permissive"} \subseteq SecurityKeys
    BY DEF SecurityKeys
  <1>6. Mode(None) = None
    BY DEF Mode, None
  <1>. QED
    BY <1>1, <1>2, <1>3, <1>4, <1>5, <1>6 DEF r

\* An origin is a value that a producer gave of an address.
LEMMA OriginSaid ==
    ASSUME NEW g \in Groups, Origin(View(g)) # None
    PROVE  \E i \in DOMAIN g : \E key \in {"addr", "ip"} :
              g[i].type \in Producers /\ Origin(View(g)) \in Said(g[i], key)
  <1> DEFINE v == View(g)
             heard(key) == [i \in DOMAIN v |->
                        IF v[i].type \in Producers THEN SemanticValue(v[i], key) ELSE None]
             own(key) == FirstNonempty(heard(key))
  <1>1. DOMAIN v = 1..Len(g) /\ DOMAIN g = 1..Len(g) /\ Len(g) \in Nat
    BY ViewIsGroup
  <1>2. \A x : Meaningful(x) \in {None, x}
    BY DEF Meaningful
  <1>3. Origin(v) = Meaningful(FirstNonempty(<<own("addr"), own("ip")>>))
    BY DEF Origin
  <1>4. ASSUME NEW key \in {"addr", "ip"}, own(key) # None
        PROVE  \E i \in DOMAIN g : g[i].type \in Producers /\ own(key) \in Said(g[i], key)
    <2>1. \E i \in DOMAIN g : heard(key)[i] = own(key)
      <3>1. DOMAIN heard(key) = 1..Len(g)
        BY <1>1
      <3>. HIDE DEF heard
      <3>. QED
        BY <1>1, <1>4, <3>1, FirstIs
    <2>2. PICK i \in DOMAIN g : heard(key)[i] = own(key)
      BY <2>1
    <2>3. v[i].type \in Producers /\ SemanticValue(v[i], key) = own(key)
      <3>1. heard(key)[i] = IF v[i].type \in Producers THEN SemanticValue(v[i], key) ELSE None
        BY <1>1
      <3>. HIDE DEF heard, own
      <3>. QED
        BY <1>4, <2>2, <3>1
    <2>4. own(key) \in Said(g[i], key)
      BY <1>4, <2>3, RecordHeard DEF ExecKeys
    <2>. QED
      BY <2>3, <2>4, ViewOfRecord
  <1>. HIDE DEF own, v
  <1>5. \E key \in {"addr", "ip"} : own(key) # None /\ Origin(v) = own(key)
    BY <1>2, <1>3, FirstOfPair DEF v
  <1>. QED
    BY <1>4, <1>5 DEF v

LEMMA NothingBorrowedHolds == Published => NothingBorrowed
  <1>. SUFFICES ASSUME Published PROVE NothingBorrowed
    OBVIOUS
  <1> DEFINE v == View(group)
             keys == {"decision", "scontext", "tcontext", "permissive"}
             from(i, key) == {None} \cup {ShownAs(key, val) : val \in
                 UNION {Said(group[i], k) : k \in
                     {key} \cup UNION {pair \in Synonyms : key \in pair}}}
  <1>1. group \in Groups /\ event = Event(group)
    BY DEF Published
  <1>2. event.security = ShownDecision(v) /\ event.origin = Origin(v)
    BY <1>1, EventFields
  <1>3. /\ ShownUnder("decision") = ShownDecision(v).decision
        /\ ShownUnder("scontext") = ShownDecision(v).subject
        /\ ShownUnder("tcontext") = ShownDecision(v).target
        /\ ShownUnder("permissive") = ShownDecision(v).permissive
    <2>1. ShownUnder("decision") = event.security.decision
      BY DEF ShownUnder, FilterKeys
    <2>2. ShownUnder("scontext") = event.security.subject
      BY DEF ShownUnder, FilterKeys
    <2>3. ShownUnder("tcontext") = event.security.target
      BY DEF ShownUnder, FilterKeys
    <2>4. ShownUnder("permissive") = event.security.permissive
      BY DEF ShownUnder, FilterKeys
    <2>. QED
      BY <1>2, <2>1, <2>2, <2>3, <2>4
  <1>4. \E i \in DOMAIN group : \A key \in keys : ShownUnder(key) \in from(i, key)
    <2>1. CASE Decisive(v) = {}
      <3>1. ShownDecision(v) = NoDecision
        BY <2>1 DEF ShownDecision
      <3>2. \A key \in keys : ShownUnder(key) = None
        BY <1>3, <3>1 DEF NoDecision
      <3>3. 1 \in DOMAIN group
        BY <1>1, ViewIsGroup
      <3>. QED
        BY <3>2, <3>3
    <2>2. CASE Decisive(v) # {}
      <3>1. PICK i \in Decisive(v) : ShownDecision(v) = Decision(v[i])
        BY <1>1, <2>2, DecisionShown
      <3>2. i \in DOMAIN group
        BY <1>1, ViewIsGroup DEF Decisive
      <3> DEFINE d == Decision(v[i])
      <3>3. /\ d.decision \in {None} \cup Said(group[i], "decision") \cup Said(group[i], "apparmor")
            /\ d.subject \in {None} \cup Said(group[i], "scontext") \cup Said(group[i], "subj")
            /\ d.target \in {None} \cup Said(group[i], "tcontext")
            /\ d.permissive \in {None} \cup {Mode(val) : val \in Said(group[i], "permissive")}
        BY <1>1, <3>2, DecisionSaid
      <3>4. \A key, k : (k = key \/ \E pair \in Synonyms : key \in pair /\ k \in pair) =>
                            \A val \in Said(group[i], k) : ShownAs(key, val) \in from(i, key)
        OBVIOUS
      <3>5. /\ \E pair \in Synonyms : "decision" \in pair /\ "apparmor" \in pair
            /\ \E pair \in Synonyms : "scontext" \in pair /\ "subj" \in pair
        BY DEF Synonyms
      <3>6. \A key : None \in from(i, key)
        OBVIOUS
      <3>7. /\ \A val : ShownAs("permissive", val) = Mode(val)
            /\ \A key \in {"decision", "scontext", "tcontext"} : \A val : ShownAs(key, val) = val
        BY DEF ShownAs
      <3>. HIDE DEF from, d
      <3>8. /\ ShownUnder("decision") \in from(i, "decision")
            /\ ShownUnder("scontext") \in from(i, "scontext")
            /\ ShownUnder("tcontext") \in from(i, "tcontext")
            /\ ShownUnder("permissive") \in from(i, "permissive")
        BY <1>3, <3>1, <3>3, <3>4, <3>5, <3>6, <3>7 DEF d
      <3>. QED
        BY <3>2, <3>8
    <2>. QED
      BY <2>1, <2>2
  <1>5. ASSUME event.origin # None
        PROVE  \E a \in Tokens(group) :
                  /\ TypeAt(group, a) \in Producers
                  /\ At(group, a) \in {Token("addr", event.origin), Token("ip", event.origin)}
    <2>1. PICK i \in DOMAIN group, key \in {"addr", "ip"} :
             group[i].type \in Producers /\ event.origin \in Said(group[i], key)
      BY <1>1, <1>2, <1>5, OriginSaid
    <2>2. PICK t \in Range(AllOf(group[i])) : t.key = key /\ Decoded(t.val) = event.origin
      BY <2>1 DEF Said
    <2>3. PICK a \in Tokens(group) : a[1] = i /\ At(group, a) = t
      BY <1>1, <2>2, TokenPlaces
    <2>4. t = Token(key, event.origin)
      <3>1. AllOf(group[i]) \in Seq(Words)
        BY <1>1, <2>1, TokensOfRecord DEF Groups, TokenKind, Producers
      <3>2. t \in Words
        BY <2>2, <3>1 DEF Range
      <3>3. t.val = event.origin
        BY <1>5, <2>2 DEF Decoded
      <3>. QED
        BY <2>2, <3>2, <3>3 DEF Words, Token
    <2>. QED
      BY <2>1, <2>3, <2>4 DEF TypeAt
  <1>. QED
    BY <1>4, <1>5, Zenon DEF NothingBorrowed

-----------------------------------------------------------------------------
(* Evidence that is shown or kept.                                         *)

LEMMA LastIsSaid ==
    ASSUME NEW r \in Record, NEW key, Said(r, key) # {}
    PROVE  LastSaid(r, key) \in Said(r, key)
  <1> DEFINE tokens == AllOf(r)
             at == {n \in DOMAIN tokens : tokens[n].key = key}
  <1>1. DOMAIN tokens = 1..Len(tokens) /\ Len(tokens) \in Nat
    BY TokensOfRecord
  <1>2. at # {}
    BY DEF Said, Range
  <1>. HIDE DEF tokens
  <1>3. Max(at) \in at
    BY <1>1, <1>2, GreatestPlace
  <1>4. tokens[Max(at)] \in Range(tokens) /\ tokens[Max(at)].key = key
    BY <1>3 DEF Range
  <1>5. LastSaid(r, key) = Decoded(tokens[Max(at)].val)
    BY DEF LastSaid, tokens
  <1>6. Said(r, key) = {Decoded(t.val) : t \in {u \in Range(tokens) : u.key = key}}
    BY DEF Said, tokens
  <1>. HIDE DEF at
  <1>. QED
    BY <1>4, <1>5, <1>6

\* A value that is read and not in conflict is the one the view shows.
LEMMA ValueKept ==
    ASSUME NEW g \in Groups, NEW a \in Tokens(g), TypeAt(g, a) # "EXECVE",
           At(g, a).key \in Singletons, Decoded(At(g, a).val) # None,
           ~Conflicting(g, a[1], At(g, a).key)
    PROVE  /\ SemanticValue(View(g)[a[1]], At(g, a).key) = At(g, a).val
           /\ a[2] = "raw" => RecordValue(View(g)[a[1]], At(g, a).key) = At(g, a).val
           /\ At(g, a).val \in Said(g[a[1]], At(g, a).key)
  <1> DEFINE i == a[1]
             key == At(g, a).key
             val == At(g, a).val
  <1>1. i \in DOMAIN g /\ g[i].type # "EXECVE" /\ At(g, a) \in Range(AllOf(g[i]))
        /\ At(g, a) \in Range(g[i][a[2]])
    BY TokenPlaces DEF TypeAt
  <1>2. val = Decoded(val) /\ val # None
    BY DEF Decoded
  <1>3. val \in Said(g[i], key)
    BY <1>1, <1>2 DEF Said
  <1>4. key \notin ExecKeys
    BY DEF Singletons, GroupSingletons, ExecKeys
  <1>5. \A x \in Said(g[i], key) : x = val
    BY <1>1, <1>3, Unmarked DEF SpelledAs, Disagree
  <1>6. SemanticValue(View(g)[i], key) = val
    <2>1. SemanticValue(View(g)[i], key) # None
      BY <1>1, <1>2, <1>3, <1>4, RecordHeard
    <2>. QED
      BY <1>1, <1>4, <1>5, <2>1, RecordHeard
  <1>7. ASSUME a[2] = "raw" PROVE RecordValue(View(g)[i], key) = val
    <2>1. At(g, a) \in Range(g[i].raw)
      BY <1>1, <1>7
    <2>2. RecordValue(View(g)[i], key) # None
      BY <1>1, <1>2, <1>4, <2>1, RecordHeard
    <2>. QED
      BY <1>1, <1>4, <1>5, <2>2, RecordHeard
  <1>. QED
    BY <1>3, <1>6, <1>7

\* Where two spellings stand for one field, a value of the one is the value
\* of the other.
LEMMA SynonymKept ==
    ASSUME NEW g \in Groups, NEW i \in DOMAIN g, NEW key \in Singletons, NEW other \in Singletons,
           {key, other} \in Synonyms, ~Conflicting(g, i, key), ~Conflicting(g, i, other),
           NEW x \in Said(g[i], key), NEW y \in Said(g[i], other)
    PROVE  x = y
  <1>1. g[i] \in Record
    BY DEF Groups
  <1>2. LastSaid(g[i], key) \in Said(g[i], key) /\ LastSaid(g[i], other) \in Said(g[i], other)
    BY <1>1, LastIsSaid
  <1>3. ~Disagree(Said(g[i], key)) /\ ~Disagree(Said(g[i], other))
    BY Unmarked DEF SpelledAs
  <1>4. ~SynonymsDiffer(g[i], key)
    BY DEF Conflicting, SpelledAs, RecordDiffers
  <1>5. ~Disagree({LastSaid(g[i], k) : k \in {key, other}})
    <2>1. \A k \in {key, other} : Said(g[i], k) # {}
      OBVIOUS
    <2>. QED
      BY <1>4, <2>1, Zenon DEF SynonymsDiffer
  <1>6. LastSaid(g[i], key) = LastSaid(g[i], other)
    BY <1>5 DEF Disagree
  <1>. QED
    BY <1>2, <1>3, <1>6 DEF Disagree

\* The field of a decision in which a token appears.
Field(d, key) ==
    CASE key \in {"decision", "apparmor"} -> d.decision
      [] key \in {"scontext", "subj"}     -> d.subject
      [] key = "tcontext"                 -> d.target
      [] key = "permissive"               -> d.permissive

LEMMA FieldKept ==
    ASSUME NEW g \in Groups, NEW a \in Tokens(g), TypeAt(g, a) # "EXECVE",
           At(g, a).key \in SecurityKeys \ {"permissions"},
           Meaningful(Decoded(At(g, a).val)) # None,
           ~Conflicting(g, a[1], At(g, a).key)
    PROVE  Field(Decision(View(g)[a[1]]), At(g, a).key) = ShownAs(At(g, a).key, At(g, a).val)
  <1> DEFINE i == a[1]
             r == View(g)[i]
             key == At(g, a).key
             val == At(g, a).val
             d == Decision(r)
             value(k) == SemanticValue(r, k)
  <1>1. Decoded(val) # None /\ val = Decoded(val) /\ Meaningful(val) = val /\ val # None
    BY DEF Decoded, Meaningful, None
  <1>2. SecurityKeys \ {"permissions"} \subseteq Singletons
    BY DEF SecurityKeys, Singletons
  <1>3. value(key) = val /\ val \in Said(g[i], key)
    BY <1>1, <1>2, ValueKept
  <1>4. i \in DOMAIN g
    BY TokenPlaces
  <1>5. ASSUME NEW other \in Singletons, {key, other} \in Synonyms, value(other) # None
        PROVE  value(other) = val
    <2>1. other \notin ExecKeys
      BY DEF Singletons, GroupSingletons, ExecKeys
    <2>2. ~Conflicting(g, i, other) /\ value(other) \in Said(g[i], other)
      BY <1>4, <1>5, <2>1, RecordHeard
    <2>. QED
      BY <1>2, <1>3, <1>4, <1>5, <2>2, SynonymKept
  <1>6. /\ d.decision = Meaningful(FirstNonempty(<<value("decision"), value("apparmor")>>))
        /\ d.subject = Meaningful(FirstNonempty(<<value("scontext"), value("subj")>>))
        /\ d.target = Meaningful(value("tcontext"))
        /\ d.permissive = Mode(value("permissive"))
    BY DEF Decision
  <1>7. /\ {"decision", "apparmor"} \in Synonyms /\ {"apparmor", "decision"} \in Synonyms
        /\ {"scontext", "subj"} \in Synonyms /\ {"subj", "scontext"} \in Synonyms
        /\ {"decision", "apparmor", "scontext", "subj"} \subseteq Singletons
    BY DEF Synonyms, Singletons
  <1>. HIDE DEF r, value, d, val
  <1>8. CASE key = "decision"
    <2>1. d.decision = val
      BY <1>1, <1>3, <1>6, <1>8, FirstOfPair
    <2>. QED
      BY <1>8, <2>1 DEF Field, ShownAs, d, r, val
  <1>9. CASE key = "apparmor"
    <2>1. value("decision") \in {None, val}
      BY <1>5, <1>7, <1>9
    <2>2. d.decision = val
      BY <1>1, <1>3, <1>6, <1>9, <2>1, FirstOfPair
    <2>. QED
      BY <1>9, <2>2 DEF Field, ShownAs, d, r, val
  <1>10. CASE key = "scontext"
    <2>1. d.subject = val
      BY <1>1, <1>3, <1>6, <1>10, FirstOfPair
    <2>. QED
      BY <1>10, <2>1 DEF Field, ShownAs, d, r, val
  <1>11. CASE key = "subj"
    <2>1. value("scontext") \in {None, val}
      BY <1>5, <1>7, <1>11
    <2>2. d.subject = val
      BY <1>1, <1>3, <1>6, <1>11, <2>1, FirstOfPair
    <2>. QED
      BY <1>11, <2>2 DEF Field, ShownAs, d, r, val
  <1>12. CASE key = "tcontext"
    <2>1. d.target = val
      BY <1>1, <1>3, <1>6, <1>12
    <2>. QED
      BY <1>12, <2>1 DEF Field, ShownAs, d, r, val
  <1>13. CASE key = "permissive"
    <2>1. d.permissive = Mode(val)
      BY <1>3, <1>6, <1>13
    <2>. QED
      BY <1>13, <2>1 DEF Field, ShownAs, d, r, val
  <1>. QED
    BY <1>8, <1>9, <1>10, <1>11, <1>12, <1>13 DEF SecurityKeys

LEMMA FieldShown ==
    ASSUME NEW key \in SecurityKeys \ {"permissions"}
    PROVE  /\ ShownUnder(key) = Field(event.security, key)
           /\ Field(NoDecision, key) = None
  <1>1. key \notin FilterKeys
    BY DEF SecurityKeys, FilterKeys
  <1>2. ShownUnder(key) = Field(event.security, key)
    BY <1>1 DEF ShownUnder, Field, SecurityKeys
  <1>3. Field(NoDecision, key) = None
    BY DEF Field, NoDecision, SecurityKeys
  <1>. QED
    BY <1>2, <1>3

LEMMA EvidenceKeptHolds == Published => EvidenceKept
  <1>. SUFFICES ASSUME Published, NEW a \in Tokens(group), TypeAt(group, a) # "EXECVE",
                       Evidential(a), a \notin issues
                PROVE  ShownUnder(At(group, a).key) = ShownAs(At(group, a).key, At(group, a).val)
    BY DEF EvidenceKept
  <1> DEFINE v == View(group)
             i == a[1]
             key == At(group, a).key
             val == At(group, a).val
  <1>1. group \in Groups /\ event = Event(group) /\ issues = Issues(group)
    BY DEF Published
  <1>2. event.security = ShownDecision(v) /\ event.seccomp = ShownFilter(v)
    BY <1>1, EventFields
  <1>3. ~Conflicting(group, i, key)
    BY <1>1, IssuesKeep
  <1>4. Meaningful(Decoded(val)) # None /\ val # None /\ Decoded(val) # None /\ val = Decoded(val)
    BY DEF Evidential, Meaningful, Decoded, None
  <1>5. i \in DOMAIN group /\ i \in DOMAIN v /\ v[i].type = TypeAt(group, a)
    BY <1>1, TokenPlaces, ViewOfRecord DEF TypeAt
  <1>6. CASE TypeAt(group, a) = "SECCOMP" /\ key \in FilterKeys /\ a[2] = "raw"
    <2>1. i \in Filters(v)
      BY <1>5, <1>6 DEF Filters
    <2>2. Filter(v[i]) = ShownFilter(v)
      BY <1>1, <1>6, <2>1, IssuesKeep
    <2>3. key \in Singletons
      BY <1>6 DEF FilterKeys, Singletons
    <2>4. RecordValue(v[i], key) = val
      BY <1>1, <1>3, <1>4, <1>6, <2>3, ValueKept
    <2>5. ShownUnder(key) = event.seccomp[key]
      BY <1>6 DEF ShownUnder, FilterKeys
    <2>6. Filter(v[i])[key] = RecordValue(v[i], key)
      BY <1>6 DEF Filter
    <2>7. ShownAs(key, val) = val
      BY <1>6 DEF FilterKeys, ShownAs
    <2>. QED
      BY <1>2, <2>2, <2>4, <2>5, <2>6, <2>7
  <1>7. CASE /\ TypeAt(group, a) \in (AccessControl \cup Integrity) \ {"SECCOMP"}
             /\ key \in SecurityKeys \ {"permissions"}
             /\ ShownAs(key, Decoded(val)) # None
    <2>1. Field(Decision(v[i]), key) = ShownAs(key, val)
      BY <1>1, <1>3, <1>4, <1>7, FieldKept
    <2>2. Decision(v[i]) # NoDecision
      BY <1>4, <1>7, <2>1, FieldShown
    <2>3. i \in Decisive(v)
      BY <1>5, <1>7, <2>2 DEF Decisive
    <2>4. Decision(v[i]) = ShownDecision(v)
      BY <1>1, <1>7, <2>3, IssuesKeep DEF Further
    <2>. QED
      BY <1>2, <1>7, <2>1, <2>4, FieldShown
  <1>. QED
    BY <1>6, <1>7 DEF Evidential

-----------------------------------------------------------------------------
(* Argument vectors.                                                       *)

LEMMA ImageOfFinite ==
    ASSUME NEW S, IsFiniteSet(S), NEW f, DOMAIN f = S, NEW T,
           \A x \in S : f[x] \in T, \A y \in T : \E x \in S : y = f[x]
    PROVE  /\ IsFiniteSet(T) /\ Cardinality(T) \in Nat
           /\ (\A x, y \in S : f[x] = f[y] => x = y) => Cardinality(T) = Cardinality(S)
  <1> DEFINE h == [x \in S |-> f[x]]
  <1>1. h \in [S -> T] /\ \A t \in T : \E x \in S : h[x] = t
    OBVIOUS
  <1>2. h \in Surjection(S, T)
    BY <1>1 DEF Surjection
  <1>3. IsFiniteSet(T) /\ (Cardinality(T) = Cardinality(S) <=> h \in Injection(S, T))
    <2>. HIDE DEF h
    <2>. QED
      BY <1>2, FS_Surjection
  <1>4. ASSUME \A x, y \in S : f[x] = f[y] => x = y
        PROVE  h \in Injection(S, T)
    BY <1>1, <1>4 DEF Injection, IsInjective
  <1>5. Cardinality(T) \in Nat
    BY <1>3, FS_CardinalityType
  <1>. QED
    BY <1>3, <1>4, <1>5

\* A token of an EXECVE is what its kind writes.
LEMMA ExecTokenIs ==
    ASSUME NEW t \in ExecTokenSet
    PROVE  /\ t.key \in ExecKeys /\ t.arg \in Nat /\ t.frag \in Nat /\ t.num \in Int
           /\ t.bytes \in Seq(STRING)
           /\ t.key = "argc" => t = Argc(t.num)
           /\ t.key = "whole" => t = Whole(t.arg, t.bytes)
           /\ t.key = "length" => t = Length(t.arg, t.num)
           /\ t.key = "fragment" => t = Fragment(t.arg, t.frag, t.bytes)
  <1>1. t \in {Argc(t.num), Whole(t.arg, t.bytes), Length(t.arg, t.num),
               Fragment(t.arg, t.frag, t.bytes)}
    BY DEF ExecTokenSet, IsExecToken
  <1>2. /\ Argc(t.num).key = "argc" /\ Whole(t.arg, t.bytes).key = "whole"
        /\ Length(t.arg, t.num).key = "length"
        /\ Fragment(t.arg, t.frag, t.bytes).key = "fragment"
    BY DEF Argc, Whole, Length, Fragment
  <1>3. /\ t.key \in ExecKeys /\ t.arg \in Nat /\ t.frag \in Nat /\ t.num \in Int
        /\ t.bytes \in Seq(STRING)
    BY DEF ExecTokenSet
  <1>. QED
    BY <1>1, <1>2, <1>3, Zenon

LEMMA TokensOfVector ==
    ASSUME NEW tokens \in Seq(ExecTokenSet)
    PROVE  /\ DOMAIN tokens = 1..Len(tokens) /\ Len(tokens) \in Nat
           /\ \A n \in DOMAIN tokens : tokens[n] \in ExecTokenSet /\ tokens[n] \in Range(tokens)
           /\ \A t \in Range(tokens) : t \in ExecTokenSet /\ \E n \in DOMAIN tokens : t = tokens[n]
  BY DEF Range

\* The last of some tokens is one of them, and any of them when they do not
\* differ.
LEMMA LastIs ==
    ASSUME NEW tokens \in Seq(ExecTokenSet), NEW S \in SUBSET DOMAIN tokens, S # {}
    PROVE  /\ \E n \in S : LastAt(tokens, S) = tokens[n]
           /\ ~Differ(tokens, S) => \A n \in S : tokens[n] = LastAt(tokens, S)
  <1>1. Max(S) \in S
    BY TokensOfVector, GreatestPlace
  <1>. QED
    BY <1>1 DEF LastAt, Differ

LEMMA GivenIs ==
    ASSUME NEW tokens \in Seq(ExecTokenSet), NEW key, NEW i
    PROVE  /\ Given(tokens, key, i) = {tokens[n] : n \in Of(tokens, key, i)}
           /\ Of(tokens, key, i) \in SUBSET DOMAIN tokens
           /\ \A n \in Of(tokens, key, i) : tokens[n].key = key /\ tokens[n].arg = i
           /\ \A t \in Given(tokens, key, i) : t \in ExecTokenSet /\ t.key = key /\ t.arg = i
  <1>1. Of(tokens, key, i) \in SUBSET DOMAIN tokens
    BY DEF Of
  <1>2. Given(tokens, key, i) = {tokens[n] : n \in Of(tokens, key, i)}
    BY TokensOfVector DEF Given, Of
  <1>3. \A n \in Of(tokens, key, i) : tokens[n].key = key /\ tokens[n].arg = i
    BY DEF Of
  <1>4. \A t \in Given(tokens, key, i) : t \in ExecTokenSet /\ t.key = key /\ t.arg = i
    BY TokensOfVector DEF Given
  <1>. QED
    BY <1>1, <1>2, <1>3, <1>4

LEMMA FiniteParts ==
    ASSUME NEW tokens \in Seq(ExecTokenSet)
    PROVE  /\ IsFiniteSet(Indexes(tokens)) /\ Cardinality(Indexes(tokens)) \in Nat
           /\ \A key, i : /\ IsFiniteSet(Given(tokens, key, i))
                          /\ Cardinality(Given(tokens, key, i)) \in Nat
  <1>1. IsFiniteSet(DOMAIN tokens)
    BY TokensOfVector, FS_Interval
  <1>2. IsFiniteSet(Range(tokens))
    <2>1. Range(tokens) = {tokens[n] : n \in DOMAIN tokens}
      BY DEF Range
    <2>. QED
      BY <1>1, <2>1, ImageOfFinite
  <1>3. ASSUME NEW key, NEW i
        PROVE  IsFiniteSet(Given(tokens, key, i)) /\ Cardinality(Given(tokens, key, i)) \in Nat
    <2>1. Given(tokens, key, i) \in SUBSET Range(tokens)
      BY DEF Given
    <2>. QED
      BY <1>2, <2>1, FS_Subset, FS_CardinalityType
  <1>4. IsFiniteSet(Indexes(tokens)) /\ Cardinality(Indexes(tokens)) \in Nat
    <2> DEFINE S == {u \in Range(tokens) : u.key # "argc"}
               f == [t \in S |-> t.arg]
    <2>1. IsFiniteSet(S)
      BY <1>2, FS_Subset
    <2>2. Indexes(tokens) = {f[t] : t \in S}
      BY DEF Indexes
    <2>3. DOMAIN f = S
      OBVIOUS
    <2>. HIDE DEF f, S
    <2>. QED
      BY <2>1, <2>2, <2>3, ImageOfFinite
  <1>. QED
    BY <1>3, <1>4

\* The fragments of an argument that do not contradict one another are as
\* many as their numbers.
LEMMA PartsCounted ==
    ASSUME NEW tokens \in Seq(ExecTokenSet), NEW i,
           \A m \in Parts(tokens, i) : ~Differ(tokens, Numbered(tokens, i, m))
    PROVE  Cardinality(Parts(tokens, i)) = Cardinality(Given(tokens, "fragment", i))
  <1> DEFINE S == Given(tokens, "fragment", i)
             f == [t \in S |-> t.frag]
             T == {f[t] : t \in S}
  <1>1. Parts(tokens, i) = T
    BY GivenIs DEF Parts
  <1>2. ASSUME NEW t \in S, NEW u \in S, f[t] = f[u] PROVE t = u
    <2>1. PICK m \in Of(tokens, "fragment", i) : t = tokens[m]
      BY GivenIs
    <2>2. PICK n \in Of(tokens, "fragment", i) : u = tokens[n]
      BY GivenIs
    <2>3. t.frag \in Parts(tokens, i) /\ {m, n} \subseteq Numbered(tokens, i, t.frag)
      BY <1>2, <2>1, <2>2 DEF Parts, Numbered
    <2>. QED
      BY <2>1, <2>2, <2>3 DEF Differ
  <1>3. IsFiniteSet(S) /\ DOMAIN f = S
    BY FiniteParts
  <1>4. Cardinality(T) = Cardinality(S)
    <2>1. \A t, u \in S : f[t] = f[u] => t = u
      BY <1>2
    <2>2. (\A t \in S : f[t] \in T) /\ (\A y \in T : \E t \in S : y = f[t])
      OBVIOUS
    <2>. HIDE DEF f, S, T
    <2>. QED
      BY <1>3, <2>1, <2>2, ImageOfFinite
  <1>. QED
    BY <1>1, <1>4

LEMMA EncodedArgument ==
    ASSUME NEW tokens \in Seq(ExecTokenSet), NoContradiction(tokens), NEW i \in Indexes(tokens),
           WholeDecodes(tokens, i) \/ SplitDecodes(tokens, i)
    PROVE  Decodes(Value(tokens, i)) /\ EncodesArgument(tokens, i, Value(tokens, i))
  <1> DEFINE whole == Of(tokens, "whole", i)
             length == Of(tokens, "length", i)
             fragment == Of(tokens, "fragment", i)
             b == Value(tokens, i)
  <1>1. /\ ~Differ(tokens, whole) /\ ~Differ(tokens, length)
        /\ \A m \in Parts(tokens, i) : ~Differ(tokens, Numbered(tokens, i, m))
    BY DEF NoContradiction
  <1>2. /\ Given(tokens, "whole", i) = {tokens[n] : n \in whole}
        /\ Given(tokens, "length", i) = {tokens[n] : n \in length}
        /\ Given(tokens, "fragment", i) = {tokens[n] : n \in fragment}
        /\ whole \in SUBSET DOMAIN tokens /\ length \in SUBSET DOMAIN tokens
        /\ fragment \in SUBSET DOMAIN tokens
    BY GivenIs
  <1>3. CASE WholeDecodes(tokens, i)
    <2>1. whole # {} /\ fragment = {} /\ length = {} /\ Decodes(LastAt(tokens, whole).bytes)
      BY <1>3 DEF WholeDecodes
    <2>2. b = LastAt(tokens, whole).bytes
      BY <2>1 DEF Value
    <2>3. \A n \in whole : tokens[n] = LastAt(tokens, whole)
      BY <1>1, <1>2, <2>1, LastIs
    <2>4. LastAt(tokens, whole) = Whole(i, b)
      <3>1. PICK n \in whole : tokens[n] = LastAt(tokens, whole)
        BY <2>1, <2>3
      <3>2. tokens[n].key = "whole" /\ tokens[n].arg = i /\ tokens[n] \in ExecTokenSet
        BY <1>2, GivenIs, TokensOfVector
      <3>. QED
        BY <2>2, <3>1, <3>2, ExecTokenIs
    <2>5. Given(tokens, "whole", i) = {Whole(i, b)}
      BY <1>2, <2>1, <2>3, <2>4
    <2>6. Given(tokens, "fragment", i) \cup Given(tokens, "length", i) = {}
      BY <1>2, <2>1
    <2>. HIDE DEF b
    <2>. QED
      BY <2>1, <2>2, <2>5, <2>6 DEF EncodesArgument, b
  <1>4. CASE SplitDecodes(tokens, i)
    <2> DEFINE C == Cardinality(Given(tokens, "fragment", i))
               cut == [m \in 1..Cardinality(Parts(tokens, i)) |-> Part(tokens, i, m - 1)]
               all == {t.bytes : t \in Given(tokens, "fragment", i)}
    <2>1. /\ whole = {} /\ fragment # {} /\ length # {}
          /\ Parts(tokens, i) = 0..(Cardinality(Parts(tokens, i)) - 1)
          /\ Decodes(Joined(tokens, i)) /\ Len(Joined(tokens, i)) = LastAt(tokens, length).num
      BY <1>4 DEF SplitDecodes
    <2>2. b = Joined(tokens, i) /\ Joined(tokens, i) = FlattenSeq(cut)
      BY <2>1 DEF Value, Joined
    <2>3. Cardinality(Parts(tokens, i)) = C /\ C \in Nat
      BY <1>1, PartsCounted, FiniteParts
    <2>4. Given(tokens, "length", i) = {Length(i, Len(b))}
      <3>1. \A n \in length : tokens[n] = LastAt(tokens, length)
        BY <1>1, <1>2, <2>1, LastIs
      <3>2. PICK n \in length : tokens[n] = LastAt(tokens, length)
        BY <2>1, <3>1
      <3>3. tokens[n].key = "length" /\ tokens[n].arg = i /\ tokens[n] \in ExecTokenSet
        BY <1>2, GivenIs, TokensOfVector
      <3>4. LastAt(tokens, length) = Length(i, Len(b))
        BY <2>1, <2>2, <3>2, <3>3, ExecTokenIs
      <3>. QED
        BY <1>2, <2>1, <3>1, <3>4
    <2>5. ASSUME NEW m \in Parts(tokens, i)
          PROVE  /\ \E n \in fragment : tokens[n] = Fragment(i, m, Part(tokens, i, m))
                 /\ \A n \in fragment : tokens[n].frag = m =>
                       tokens[n] = Fragment(i, m, Part(tokens, i, m))
      <3> DEFINE S == Numbered(tokens, i, m)
      <3>1. S # {} /\ S \subseteq fragment
        BY DEF Parts, Numbered
      <3>2. S \in SUBSET DOMAIN tokens
        BY <1>2, <3>1
      <3>3. \A n \in S : tokens[n] = LastAt(tokens, S)
        BY <1>1, <3>1, <3>2, LastIs
      <3>4. \A n \in S : tokens[n] = Fragment(i, m, Part(tokens, i, m))
        <4>. SUFFICES ASSUME NEW n \in S PROVE tokens[n] = Fragment(i, m, Part(tokens, i, m))
          OBVIOUS
        <4>1. /\ tokens[n].key = "fragment" /\ tokens[n].arg = i /\ tokens[n].frag = m
              /\ tokens[n] \in ExecTokenSet
          BY <1>2, <3>1, GivenIs, TokensOfVector DEF Numbered
        <4>2. Part(tokens, i, m) = tokens[n].bytes
          BY <3>3 DEF Part
        <4>. QED
          BY <4>1, <4>2, ExecTokenIs
      <3>5. \A n \in fragment : tokens[n].frag = m => n \in S
        BY DEF Numbered
      <3>. HIDE DEF S
      <3>. QED
        BY <3>1, <3>4, <3>5
    <2>6. DOMAIN cut = 1..C /\ DOMAIN cut # {} /\ \A m \in 1..C : cut[m] = Part(tokens, i, m - 1)
      <3>1. Parts(tokens, i) # {}
        BY <2>1 DEF Parts
      <3>. QED
        BY <2>1, <2>3, <3>1
    <2>7. \A m \in 1..C : m - 1 \in Parts(tokens, i)
      BY <2>1, <2>3
    <2>8. \A m \in Parts(tokens, i) : m + 1 \in 1..C /\ (m + 1) - 1 = m
      BY <2>1, <2>3
    <2>9. \A k, m, x : Fragment(k, m, x).bytes = x /\ Fragment(k, m, x).frag = m
      BY DEF Fragment
    <2>10. \A m \in 1..C : cut[m] \in all
      <3>. SUFFICES ASSUME NEW m \in 1..C PROVE cut[m] \in all
        OBVIOUS
      <3>1. PICK n \in fragment : tokens[n] = Fragment(i, m - 1, Part(tokens, i, m - 1))
        BY <2>5, <2>7
      <3>2. tokens[n] \in Given(tokens, "fragment", i) /\ tokens[n].bytes = cut[m]
        BY <1>2, <2>6, <2>9, <3>1
      <3>. HIDE DEF cut
      <3>. QED
        BY <3>2
    <2>11. cut \in [1..C -> all]
      <3>1. cut = [m \in 1..C |-> cut[m]]
        BY <2>3
      <3>. HIDE DEF cut, all
      <3>. QED
        BY <2>10, <3>1
    <2>12. Given(tokens, "fragment", i) = {Fragment(i, m - 1, cut[m]) : m \in DOMAIN cut}
      <3> DEFINE F == {Fragment(i, m - 1, cut[m]) : m \in DOMAIN cut}
      <3>1. ASSUME NEW n \in fragment PROVE tokens[n] \in F
        <4> DEFINE m == tokens[n].frag
        <4>1. m \in Parts(tokens, i)
          BY DEF Parts
        <4>2. tokens[n] = Fragment(i, m, Part(tokens, i, m))
          BY <2>5, <4>1
        <4>3. m + 1 \in DOMAIN cut /\ (m + 1) - 1 = m /\ cut[m + 1] = Part(tokens, i, m)
          BY <2>6, <2>8, <4>1
        <4>. HIDE DEF m, cut
        <4>. QED
          BY <4>2, <4>3
      <3>2. ASSUME NEW m \in DOMAIN cut
            PROVE  \E n \in fragment : tokens[n] = Fragment(i, m - 1, cut[m])
        BY <2>5, <2>6, <2>7
      <3>3. F \subseteq {tokens[n] : n \in fragment}
        <4>. HIDE DEF cut
        <4>. QED
          BY <3>2
      <3>. HIDE DEF F
      <3>4. {tokens[n] : n \in fragment} = F
        BY <3>1, <3>3
      <3>. QED
        BY <1>2, <3>4 DEF F
    <2>13. Given(tokens, "whole", i) = {}
      BY <1>2, <2>1
    <2>. HIDE DEF cut, b, all
    <2>14. \E c \in [1..C -> all] :
              /\ DOMAIN c # {} /\ FlattenSeq(c) = b
              /\ Given(tokens, "fragment", i) = {Fragment(i, m - 1, c[m]) : m \in DOMAIN c}
      BY <2>2, <2>6, <2>11, <2>12
    <2>15. EncodesArgument(tokens, i, b)
      BY <2>4, <2>13, <2>14, Zenon DEF EncodesArgument, all
    <2>. QED
      BY <2>1, <2>2, <2>15 DEF b
  <1>. QED
    BY <1>3, <1>4


LEMMA CountedIs ==
    ASSUME NEW tokens \in Seq(ExecTokenSet), Counted(tokens)
    PROVE  {t \in Range(tokens) : t.key = "argc"} = {Argc(Cardinality(Indexes(tokens)))}
  <1> DEFINE counts == {n \in DOMAIN tokens : tokens[n].key = "argc"}
             said == {t \in Range(tokens) : t.key = "argc"}
  <1>1. counts # {} /\ ~Differ(tokens, counts)
        /\ LastAt(tokens, counts).num = Cardinality(Indexes(tokens))
    BY DEF Counted
  <1>2. \A n \in counts : tokens[n] = LastAt(tokens, counts)
    BY <1>1, LastIs
  <1>3. said = {tokens[n] : n \in counts}
    BY TokensOfVector
  <1>4. PICK n \in counts : tokens[n] = LastAt(tokens, counts)
    BY <1>1, <1>2
  <1>5. tokens[n] = Argc(Cardinality(Indexes(tokens)))
    BY <1>1, <1>4, ExecTokenIs, TokensOfVector
  <1>6. \A m \in counts : tokens[m] = Argc(Cardinality(Indexes(tokens)))
    BY <1>2, <1>4, <1>5
  <1>. HIDE DEF counts, said
  <1>7. said = {Argc(Cardinality(Indexes(tokens)))}
    BY <1>3, <1>4, <1>6
  <1>. QED
    BY <1>7 DEF said

\* A vector is published only of tokens that encode it.
LEMMA VectorEncoded ==
    ASSUME NEW tokens \in Seq(ExecTokenSet), Vector(tokens) # NoVector
    PROVE  Encodes(tokens, Vector(tokens))
  <1> DEFINE C == Cardinality(Indexes(tokens))
             v == [n \in 1..C |-> Value(tokens, n - 1)]
  <1>1. /\ Counted(tokens) /\ NoContradiction(tokens) /\ Indexes(tokens) = 0..(C - 1)
        /\ \A i \in Indexes(tokens) :
              /\ WholeDecodes(tokens, i) \/ SplitDecodes(tokens, i)
              /\ ValidText(Value(tokens, i))
        /\ Vector(tokens) = v
    BY DEF Vector
  <1>2. C \in Nat
    BY FiniteParts
  <1>3. v \in Seq({Value(tokens, n - 1) : n \in 1..C}) /\ Len(v) = C
        /\ \A n \in 1..C : v[n] = Value(tokens, n - 1)
    BY <1>2
  <1>4. {t \in Range(tokens) : t.key = "argc"} = {Argc(C)}
    BY <1>1, CountedIs
  <1>5. ASSUME NEW n \in 1..C
        PROVE  Decodes(v[n]) /\ ValidText(v[n]) /\ EncodesArgument(tokens, n - 1, v[n])
    <2>1. n - 1 \in Indexes(tokens) /\ v[n] = Value(tokens, n - 1)
      BY <1>1, <1>2, <1>3
    <2>2. WholeDecodes(tokens, n - 1) \/ SplitDecodes(tokens, n - 1)
      BY <1>1, <2>1
    <2>3. Decodes(Value(tokens, n - 1)) /\ EncodesArgument(tokens, n - 1, Value(tokens, n - 1))
      BY <1>1, <2>1, <2>2, EncodedArgument
    <2>4. ValidText(Value(tokens, n - 1))
      BY <1>1, <2>1
    <2>. HIDE DEF v
    <2>. QED
      BY <2>1, <2>3, <2>4
  <1>. HIDE DEF v, C
  <1>6. Encodes(tokens, v)
    BY <1>1, <1>3, <1>4, <1>5 DEF Encodes
  <1>. QED
    BY <1>1, <1>6

\* What an encoded argument is read as.
LEMMA ArgumentRead ==
    ASSUME NEW tokens \in Seq(ExecTokenSet), NEW i, NEW b, Len(b) \in Nat,
           EncodesArgument(tokens, i, b), Decodes(b)
    PROVE  /\ WholeDecodes(tokens, i) \/ SplitDecodes(tokens, i)
           /\ Value(tokens, i) = b
           /\ ~Differ(tokens, Of(tokens, "whole", i)) /\ ~Differ(tokens, Of(tokens, "length", i))
           /\ \A m \in Parts(tokens, i) : ~Differ(tokens, Numbered(tokens, i, m))
           /\ \A key \in {"whole", "length", "fragment"} :
                 \A t \in Given(tokens, key, i) : t.num >= 0
  <1> DEFINE whole == Of(tokens, "whole", i)
             length == Of(tokens, "length", i)
             fragment == Of(tokens, "fragment", i)
  <1>1. /\ Given(tokens, "whole", i) = {tokens[n] : n \in whole}
        /\ Given(tokens, "length", i) = {tokens[n] : n \in length}
        /\ Given(tokens, "fragment", i) = {tokens[n] : n \in fragment}
        /\ whole \in SUBSET DOMAIN tokens /\ length \in SUBSET DOMAIN tokens
        /\ fragment \in SUBSET DOMAIN tokens
    BY GivenIs
  <1>2. /\ \A x : Whole(i, x).bytes = x /\ Whole(i, x).num = 0
        /\ \A n : Length(i, n).num = n
        /\ \A m, x : Fragment(i, m, x).bytes = x /\ Fragment(i, m, x).frag = m
                        /\ Fragment(i, m, x).num = 0
    BY DEF Whole, Length, Fragment
  <1>3. Len(b) \in Nat
    OBVIOUS
  <1>6. /\ \A n \in whole : tokens[n] \in Given(tokens, "whole", i)
        /\ \A n \in length : tokens[n] \in Given(tokens, "length", i)
        /\ \A n \in fragment : tokens[n] \in Given(tokens, "fragment", i)
        /\ \A t \in Given(tokens, "whole", i) : \E n \in whole : t = tokens[n]
        /\ \A t \in Given(tokens, "length", i) : \E n \in length : t = tokens[n]
    BY <1>1
  <1>4. CASE /\ Given(tokens, "whole", i) = {Whole(i, b)}
             /\ Given(tokens, "fragment", i) \cup Given(tokens, "length", i) = {}
    <2>1. whole # {} /\ length = {} /\ fragment = {} /\ \A n \in whole : tokens[n] = Whole(i, b)
      BY <1>4, <1>6, Zenon
    <2>2. LastAt(tokens, whole) = Whole(i, b)
      BY <1>1, <2>1, LastIs
    <2>3. WholeDecodes(tokens, i)
      BY <1>2, <2>1, <2>2 DEF WholeDecodes
    <2>4. Value(tokens, i) = b
      BY <1>2, <2>1, <2>2 DEF Value
    <2>5. ~Differ(tokens, whole) /\ ~Differ(tokens, length)
      BY <2>1 DEF Differ
    <2>6. Parts(tokens, i) = {}
      BY <2>1 DEF Parts
    <2>7. \A key \in {"whole", "length", "fragment"} :
             \A t \in Given(tokens, key, i) : t.num >= 0
      BY <1>2, <1>4
    <2>. QED
      BY <2>3, <2>4, <2>5, <2>6, <2>7
  <1>5. CASE /\ Given(tokens, "whole", i) = {}
             /\ Given(tokens, "length", i) = {Length(i, Len(b))}
             /\ \E cut \in [1..Cardinality(Given(tokens, "fragment", i)) ->
                               {t.bytes : t \in Given(tokens, "fragment", i)}] :
                   /\ DOMAIN cut # {} /\ FlattenSeq(cut) = b
                   /\ Given(tokens, "fragment", i) = {Fragment(i, m - 1, cut[m]) : m \in DOMAIN cut}
    <2> DEFINE C == Cardinality(Given(tokens, "fragment", i))
    <2>1. PICK cut \in [1..C -> {t.bytes : t \in Given(tokens, "fragment", i)}] :
             /\ DOMAIN cut # {} /\ FlattenSeq(cut) = b
             /\ Given(tokens, "fragment", i) = {Fragment(i, m - 1, cut[m]) : m \in DOMAIN cut}
      BY <1>5
    <2>2. C \in Nat /\ DOMAIN cut = 1..C
      BY FiniteParts
    <2>3. whole = {} /\ length # {} /\ \A n \in length : tokens[n] = Length(i, Len(b))
      BY <1>5, <1>6, Zenon
    <2>4. LastAt(tokens, length) = Length(i, Len(b))
      BY <1>1, <2>3, LastIs
    <2>5. /\ \A n \in fragment : \E m \in 1..C : tokens[n] = Fragment(i, m - 1, cut[m])
          /\ \A m \in 1..C : \E n \in fragment : tokens[n] = Fragment(i, m - 1, cut[m])
      BY <1>1, <2>1, <2>2
    <2>6. \A n \in fragment : /\ tokens[n].frag + 1 \in 1..C
                              /\ tokens[n] = Fragment(i, tokens[n].frag, cut[tokens[n].frag + 1])
      <3>. SUFFICES ASSUME NEW n \in fragment
                    PROVE  /\ tokens[n].frag + 1 \in 1..C
                           /\ tokens[n] = Fragment(i, tokens[n].frag, cut[tokens[n].frag + 1])
        OBVIOUS
      <3>1. PICK m \in 1..C : tokens[n] = Fragment(i, m - 1, cut[m])
        BY <2>5
      <3>2. tokens[n].frag = m - 1 /\ (m - 1) + 1 = m
        BY <1>2, <2>2, <3>1
      <3>. QED
        BY <3>1, <3>2
    <2>7. Parts(tokens, i) = 0..(C - 1)
      <3>1. \A n \in fragment : tokens[n].frag \in 0..(C - 1)
        <4>. SUFFICES ASSUME NEW n \in fragment PROVE tokens[n].frag \in 0..(C - 1)
          OBVIOUS
        <4>1. PICK m \in 1..C : tokens[n] = Fragment(i, m - 1, cut[m])
          BY <2>5
        <4>2. tokens[n].frag = m - 1
          BY <1>2, <4>1
        <4>. QED
          BY <2>2, <4>2
      <3>2. \A m \in 0..(C - 1) : \E n \in fragment : tokens[n].frag = m
        <4>. SUFFICES ASSUME NEW m \in 0..(C - 1) PROVE \E n \in fragment : tokens[n].frag = m
          OBVIOUS
        <4>1. m + 1 \in 1..C /\ (m + 1) - 1 = m
          BY <2>2
        <4>2. PICK n \in fragment : tokens[n] = Fragment(i, m, cut[m + 1])
          BY <2>5, <4>1
        <4>. QED
          BY <1>2, <4>2
      <3>. QED
        BY <3>1, <3>2 DEF Parts
    <2>8. Cardinality(Parts(tokens, i)) = C
      <3>1. 0 \in Int /\ C - 1 \in Int
        BY <2>2
      <3>2. Cardinality(0..(C - 1)) = IF 0 > C - 1 THEN 0 ELSE (C - 1) - 0 + 1
        BY <3>1, FS_Interval, Zenon
      <3>. HIDE DEF C
      <3>. QED
        BY <2>2, <2>7, <3>2
    <2>9. ASSUME NEW m \in 0..(C - 1)
          PROVE  \A n \in Numbered(tokens, i, m) : tokens[n] = Fragment(i, m, cut[m + 1])
      BY <2>6 DEF Numbered
    <2>10. \A m \in 1..C : Part(tokens, i, m - 1) = cut[m]
      <3>. SUFFICES ASSUME NEW m \in 1..C PROVE Part(tokens, i, m - 1) = cut[m]
        OBVIOUS
      <3> DEFINE S == Numbered(tokens, i, m - 1)
      <3>1. m - 1 \in 0..(C - 1) /\ (m - 1) + 1 = m
        BY <2>2
      <3>2. S # {} /\ S \in SUBSET DOMAIN tokens
        BY <1>1, <2>7, <3>1 DEF Parts, Numbered
      <3>3. PICK n \in S : LastAt(tokens, S) = tokens[n]
        BY <3>2, LastIs
      <3>4. tokens[n] = Fragment(i, m - 1, cut[m])
        BY <2>9, <3>1
      <3>. QED
        BY <1>2, <3>3, <3>4 DEF Part
    <2>11. Joined(tokens, i) = b
      <3>1. [m \in 1..Cardinality(Parts(tokens, i)) |-> Part(tokens, i, m - 1)] = cut
        <4>1. cut = [m \in 1..C |-> cut[m]]
          OBVIOUS
        <4>. HIDE DEF C
        <4>. QED
          BY <2>8, <2>10, <4>1
      <3>. QED
        BY <2>1, <3>1 DEF Joined
    <2>12. fragment # {}
      BY <2>1, <2>2, <2>5
    <2>13. SplitDecodes(tokens, i)
      BY <1>2, <2>3, <2>4, <2>7, <2>8, <2>11, <2>12 DEF SplitDecodes
    <2>14. Value(tokens, i) = b
      BY <2>3, <2>11 DEF Value
    <2>15. ~Differ(tokens, whole) /\ ~Differ(tokens, length)
      BY <2>3 DEF Differ
    <2>16. \A m \in Parts(tokens, i) : ~Differ(tokens, Numbered(tokens, i, m))
      BY <2>7, <2>9 DEF Differ
    <2>17. \A key \in {"whole", "length", "fragment"} :
              \A t \in Given(tokens, key, i) : t.num >= 0
      <3>1. \A t \in Given(tokens, "length", i) : t.num >= 0
        <4>1. Given(tokens, "length", i) = {Length(i, Len(b))}
          BY <1>5
        <4>2. Length(i, Len(b)).num >= 0
          BY <1>2, <1>3
        <4>. QED
          BY <4>1, <4>2
      <3>2. \A t \in Given(tokens, "fragment", i) : t.num >= 0
        BY <1>2, <2>1
      <3>3. \A t \in Given(tokens, "whole", i) : t.num >= 0
        BY <1>5
      <3>. QED
        BY <3>1, <3>2, <3>3
    <2>. QED
      BY <2>13, <2>14, <2>15, <2>16, <2>17
  <1>. QED
    BY <1>4, <1>5 DEF EncodesArgument

\* A vector that the tokens encode is the one that is published.
LEMMA EncodedVector ==
    ASSUME NEW tokens \in Seq(ExecTokenSet), NEW S, NEW v \in Seq(S),
           \A n \in 1..Len(v) : Len(v[n]) \in Nat, Encodes(tokens, v)
    PROVE  Vector(tokens) = v
  <1> DEFINE C == Len(v)
             counts == {n \in DOMAIN tokens : tokens[n].key = "argc"}
  <1>1. /\ {t \in Range(tokens) : t.key = "argc"} = {Argc(C)}
        /\ Indexes(tokens) = 0..(C - 1)
        /\ \A n \in 1..C : Decodes(v[n]) /\ ValidText(v[n]) /\ EncodesArgument(tokens, n - 1, v[n])
    BY DEF Encodes
  <1>2. C \in Nat /\ v = [n \in 1..C |-> v[n]] /\ \A n \in 1..C : Len(v[n]) \in Nat
    OBVIOUS
  <1>3. Cardinality(Indexes(tokens)) = C
    <2>1. 0 \in Int /\ C - 1 \in Int
      BY <1>2
    <2>2. Cardinality(0..(C - 1)) = IF 0 > C - 1 THEN 0 ELSE (C - 1) - 0 + 1
      BY <2>1, FS_Interval, Zenon
    <2>. HIDE DEF C
    <2>. QED
      BY <1>1, <1>2, <2>2
  <1>4. \A i \in Indexes(tokens) : i + 1 \in 1..C /\ (i + 1) - 1 = i
    BY <1>1, <1>2
  <1>5. \A i \in Indexes(tokens) :
           /\ WholeDecodes(tokens, i) \/ SplitDecodes(tokens, i)
           /\ Value(tokens, i) = v[i + 1] /\ ValidText(v[i + 1])
           /\ ~Differ(tokens, Of(tokens, "whole", i)) /\ ~Differ(tokens, Of(tokens, "length", i))
           /\ \A m \in Parts(tokens, i) : ~Differ(tokens, Numbered(tokens, i, m))
           /\ \A key \in {"whole", "length", "fragment"} :
                 \A t \in Given(tokens, key, i) : t.num >= 0
    <2>. SUFFICES ASSUME NEW i \in Indexes(tokens)
                  PROVE  /\ WholeDecodes(tokens, i) \/ SplitDecodes(tokens, i)
                         /\ Value(tokens, i) = v[i + 1] /\ ValidText(v[i + 1])
                         /\ ~Differ(tokens, Of(tokens, "whole", i))
                         /\ ~Differ(tokens, Of(tokens, "length", i))
                         /\ \A m \in Parts(tokens, i) : ~Differ(tokens, Numbered(tokens, i, m))
                         /\ \A key \in {"whole", "length", "fragment"} :
                               \A t \in Given(tokens, key, i) : t.num >= 0
      OBVIOUS
    <2>1. /\ Len(v[i + 1]) \in Nat /\ Decodes(v[i + 1]) /\ ValidText(v[i + 1])
          /\ EncodesArgument(tokens, i, v[i + 1])
      BY <1>1, <1>2, <1>4
    <2>. QED
      BY <2>1, ArgumentRead
  <1>6. counts # {} /\ \A n \in counts : tokens[n] = Argc(C)
    <2>1. Argc(C) \in Range(tokens) /\ Argc(C).key = "argc"
      BY <1>1
    <2>2. \A n \in counts : tokens[n] \in {t \in Range(tokens) : t.key = "argc"}
      BY TokensOfVector
    <2>3. \E n \in counts : tokens[n] = Argc(C)
      BY <2>1, TokensOfVector
    <2>. QED
      BY <1>1, <2>2, <2>3
  <1>7. Counted(tokens)
    <2>1. ~Differ(tokens, counts)
      BY <1>6 DEF Differ
    <2>2. LastAt(tokens, counts) = Argc(C)
      BY <1>6, LastIs
    <2>3. Argc(C).num = C
      BY DEF Argc
    <2>. HIDE DEF C
    <2>. QED
      BY <1>3, <1>6, <2>1, <2>2, <2>3 DEF Counted
  <1>8. ASSUME NEW t \in Range(tokens) PROVE t.num >= 0
    <2>1. t \in ExecTokenSet
      BY TokensOfVector
    <2>2. CASE t.key = "argc"
      <3>1. t = Argc(C)
        BY <1>1, <2>2
      <3>. QED
        BY <1>2, <3>1 DEF Argc
    <2>3. CASE t.key # "argc"
      <3>1. t.arg \in Indexes(tokens) /\ t \in Given(tokens, t.key, t.arg)
        BY <2>3 DEF Indexes, Given
      <3>2. t.key \in {"whole", "length", "fragment"}
        BY <2>1, <2>3, ExecTokenIs DEF ExecKeys
      <3>. QED
        BY <1>5, <3>1, <3>2
    <2>. QED
      BY <2>2, <2>3
  <1>9. NoContradiction(tokens)
    BY <1>5, <1>8 DEF NoContradiction
  <1>10. [n \in 1..Cardinality(Indexes(tokens)) |-> Value(tokens, n - 1)] = v
    <2>1. \A n \in 1..C : Value(tokens, n - 1) = v[n]
      <3>. SUFFICES ASSUME NEW n \in 1..C PROVE Value(tokens, n - 1) = v[n]
        OBVIOUS
      <3>1. n - 1 \in Indexes(tokens) /\ (n - 1) + 1 = n
        BY <1>1, <1>2
      <3>. QED
        BY <1>5, <3>1
    <2>. QED
      BY <1>2, <1>3, <2>1
  <1>11. \A i \in Indexes(tokens) : /\ WholeDecodes(tokens, i) \/ SplitDecodes(tokens, i)
                                    /\ ValidText(Value(tokens, i))
    BY <1>5
  <1>. HIDE DEF C
  <1>. QED
    BY <1>1, <1>3, <1>7, <1>9, <1>10, <1>11 DEF Vector


\* The tokens of the EXECVE records, one after the other.
LEMMA ExecveTokensAre ==
    ASSUME NEW g \in Groups
    PROVE  /\ ExecveTokens(g) \in Seq(ExecTokenSet)
           /\ \A t : t \in Range(ExecveTokens(g)) <=>
                        \E i \in DOMAIN g : g[i].type = "EXECVE" /\ t \in Range(g[i].raw)
  <1> DEFINE N == Len(g)
             piece(n) == IF g[n].type = "EXECVE" THEN g[n].raw ELSE << >>
             next(f, n) == IF n = 0 THEN << >> ELSE f[n - 1] \o piece(n)
             is(f, m) == DOMAIN f = 0..m /\ \A n \in 0..m : f[n] = next(f, n)
  <1>1. DOMAIN g = 1..N /\ N \in Nat /\ \A i \in DOMAIN g : g[i] \in Record
    BY ViewIsGroup DEF Groups
  <1>2. \A n \in 1..N : piece(n) \in Seq(ExecTokenSet)
    BY <1>1, RecordParts
  <1>3. \E f : is(f, N)
    <2> DEFINE bad == {m \in 0..N : ~ \E f : is(f, m)}
    <2>1. SUFFICES ASSUME N \in bad PROVE FALSE
      BY <1>1
    <2>2. PICK m \in bad : \A n \in bad : m <= n
      <3>1. bad \in SUBSET Nat
        BY <1>1
      <3>. HIDE DEF bad
      <3>. QED
        BY <2>1, <3>1, LeastPlace
    <2>3. m \in 0..N /\ m \in Nat /\ ~ \E f : is(f, m)
      BY <1>1
    <2>4. CASE m = 0
      <3>1. is([n \in 0..0 |-> << >>], 0)
        OBVIOUS
      <3>. QED
        BY <2>3, <2>4, <3>1
    <2>5. CASE m # 0
      <3>1. m - 1 \in 0..N /\ m \in 1..N /\ m - 1 < m
        BY <1>1, <2>3, <2>5
      <3>2. m - 1 \notin bad
        <4>. HIDE DEF bad
        <4>. QED
          BY <1>1, <2>2, <2>3, <3>1
      <3>3. PICK f : is(f, m - 1)
        <4>. HIDE DEF is
        <4>. QED
          BY <3>1, <3>2
      <3> DEFINE h == [n \in 0..m |-> IF n = m THEN f[m - 1] \o piece(m) ELSE f[n]]
      <3>4. DOMAIN h = 0..m
        OBVIOUS
      <3>5. \A n \in 0..m : h[n] = next(h, n)
        <4>. SUFFICES ASSUME NEW n \in 0..m PROVE h[n] = next(h, n)
          OBVIOUS
        <4>1. CASE n = m
          <5>1. h[m] = f[m - 1] \o piece(m) /\ h[m - 1] = f[m - 1]
            <6>1. m \in 0..m /\ m - 1 \in 0..m /\ m - 1 # m
              BY <1>1, <2>3, <2>5
            <6>. HIDE DEF piece
            <6>. QED
              BY <6>1
          <5>. HIDE DEF h, piece
          <5>. QED
            BY <2>5, <4>1, <5>1
        <4>2. CASE n # m
          <5>1. n \in 0..(m - 1) /\ h[n] = f[n]
            BY <1>1, <2>3, <2>5, <4>2
          <5>2. f[n] = next(f, n)
            BY <3>3, <5>1
          <5>3. n # 0 => h[n - 1] = f[n - 1]
            <6>1. n # 0 => n - 1 \in 0..m /\ n - 1 # m
              BY <1>1, <2>3, <2>5, <5>1
            <6>. HIDE DEF piece
            <6>. QED
              BY <6>1
          <5>. HIDE DEF h, piece
          <5>. QED
            BY <5>1, <5>2, <5>3
        <4>. QED
          BY <4>1, <4>2
      <3>6. is(h, m)
        BY <3>4, <3>5
      <3>. QED
        BY <2>3, <3>6
    <2>. QED
      BY <2>4, <2>5
  <1> DEFINE upTo[n \in 0..N] == next(upTo, n)
  <1>4. ExecveTokens(g) = upTo[N]
    BY DEF ExecveTokens
  <1>5. upTo = CHOOSE f : f = [n \in 0..N |-> next(f, n)]
    OBVIOUS
  <1>6. \E f : f = [n \in 0..N |-> next(f, n)]
    <2>1. PICK f : is(f, N)
      BY <1>3
    <2> DEFINE h == [n \in 0..N |-> f[n]]
    <2>2. h = [n \in 0..N |-> next(f, n)]
      BY <2>1
    <2>3. \A n \in 0..N : next(f, n) = next(h, n)
      <3>1. \A n \in 0..N : n # 0 => n - 1 \in 0..N
        BY <1>1
      <3>. HIDE DEF piece
      <3>. QED
        BY <3>1
    <2>4. h = [n \in 0..N |-> next(h, n)]
      <3>. HIDE DEF h, next
      <3>. QED
        BY <2>2, <2>3
    <2>. HIDE DEF h, next
    <2>. QED
      BY <2>4
  <1>. HIDE DEF upTo
  <1>7. upTo = [n \in 0..N |-> next(upTo, n)]
    <2>. HIDE DEF next
    <2>. QED
      BY <1>5, <1>6
  <1>8. /\ upTo[0] = << >>
        /\ \A n \in 1..N : upTo[n] = upTo[n - 1] \o piece(n)
    <2>1. \A n \in 0..N : upTo[n] = next(upTo, n)
      <3>. HIDE DEF next
      <3>. QED
        BY <1>7
    <2>2. 0 \in 0..N /\ \A n \in 1..N : n \in 0..N /\ n # 0
      BY <1>1
    <2>. HIDE DEF piece
    <2>. QED
      BY <2>1, <2>2
  <1> DEFINE good(n) ==
                /\ upTo[n] \in Seq(ExecTokenSet)
                /\ \A t : t \in Range(upTo[n]) <=>
                             \E i \in 1..n : g[i].type = "EXECVE" /\ t \in Range(g[i].raw)
             bad == {n \in 0..N : ~ good(n)}
  <1>9. bad = {}
    <2>. SUFFICES ASSUME bad # {} PROVE FALSE
      OBVIOUS
    <2>1. PICK m \in bad : \A n \in bad : m <= n
      <3>1. bad \in SUBSET Nat
        BY <1>1
      <3>. HIDE DEF bad
      <3>. QED
        BY <3>1, LeastPlace
    <2>2. m \in 0..N /\ m \in Nat /\ ~ good(m)
      BY <1>1
    <2>3. m # 0
      <3>1. upTo[0] \in Seq(ExecTokenSet) /\ \A t : t \notin Range(upTo[0])
        BY <1>8 DEF Range
      <3>2. good(0)
        BY <1>1, <3>1
      <3>. QED
        BY <2>2, <3>2
    <2>4. m - 1 \in 0..N /\ m \in 1..N /\ m - 1 < m
      BY <1>1, <2>2, <2>3
    <2>5. good(m - 1)
      <3>1. m - 1 \notin bad
        <4>. HIDE DEF bad
        <4>. QED
          BY <1>1, <2>1, <2>2, <2>4
      <3>. HIDE DEF good
      <3>. QED
        BY <2>4, <3>1
    <2>6. upTo[m] = upTo[m - 1] \o piece(m)
      BY <1>8, <2>4
    <2>7. /\ upTo[m] \in Seq(ExecTokenSet)
          /\ Range(upTo[m]) = Range(upTo[m - 1]) \cup Range(piece(m))
      <3>1. piece(m) \in Seq(ExecTokenSet) /\ upTo[m - 1] \in Seq(ExecTokenSet)
        BY <1>2, <2>4, <2>5
      <3>. HIDE DEF piece
      <3>. QED
        BY <2>6, <3>1, RangeOfJoin
    <2>8. \A t : t \in Range(piece(m)) <=> g[m].type = "EXECVE" /\ t \in Range(g[m].raw)
      <3>1. Range(<< >>) = {}
        BY DEF Range
      <3>. QED
        BY <3>1
    <2>9. \A i : i \in 1..m <=> i \in 1..(m - 1) \/ i = m
      BY <1>1, <2>4, <2>2
    <2>10. \A t : t \in Range(upTo[m - 1]) <=>
                     \E i \in 1..(m - 1) : g[i].type = "EXECVE" /\ t \in Range(g[i].raw)
      BY <2>5
    <2>. HIDE DEF piece
    <2>11. good(m)
      BY <2>7, <2>8, <2>9, <2>10
    <2>. QED
      BY <2>2, <2>11
  <1>10. good(N)
    <2>1. N \in 0..N
      BY <1>1
    <2>. HIDE DEF good
    <2>. QED
      BY <1>9, <2>1
  <1>. QED
    BY <1>1, <1>4, <1>10

LEMMA ArgvExactHolds == Published => ArgvExact
  <1>. SUFFICES ASSUME Published, "EXECVE" \in Types(group)
                PROVE  /\ event.argv # NoVector => Encodes(ExecveTokens(group), event.argv)
                       /\ \A v \in Vectors : Encodes(ExecveTokens(group), v) => event.argv = v
    BY DEF ArgvExact
  <1>1. group \in Groups /\ event = Event(group)
    BY DEF Published
  <1>2. event.argv = Vector(ExecveTokens(group))
    BY <1>1, EventFields DEF Argv, ArgvSource
  <1>3. ExecveTokens(group) \in Seq(ExecTokenSet)
    BY <1>1, ExecveTokensAre
  <1>4. Vectors \subseteq Seq(Seq(STRING))
    BY CanonicalAssumption
  <1>5. \A v \in Vectors : v \in Seq(Seq(STRING)) /\ \A n \in 1..Len(v) : Len(v[n]) \in Nat
    BY <1>4
  <1>. QED
    BY <1>2, <1>3, <1>5, VectorEncoded, EncodedVector

-----------------------------------------------------------------------------
(* The order of the records.                                               *)

\* The group h is g with its records in another order; p says from where
\* each record comes, and leaves the records that close a group alone.
Permuted(g, h, p) ==
    /\ g \in Groups /\ h \in Groups /\ DOMAIN h = DOMAIN g /\ p \in [DOMAIN g -> DOMAIN g]
    /\ \A n \in DOMAIN g : /\ p[p[n]] = n /\ h[n] = g[p[n]]
                           /\ g[n].type \in Single \cup {"PROCTITLE"} => p[n] = n

LEMMA PermutedBack ==
    ASSUME NEW g, NEW h, NEW p, Permuted(g, h, p)
    PROVE  Permuted(h, g, p)
  <1>1. \A n \in DOMAIN g : p[n] \in DOMAIN g
    BY DEF Permuted
  <1>2. \A n \in DOMAIN g : h[p[n]] = g[n]
    BY <1>1 DEF Permuted
  <1>3. ASSUME NEW n \in DOMAIN g, h[n].type \in Single \cup {"PROCTITLE"}
        PROVE  p[n] = n
    <2>1. p[p[n]] = p[n] /\ p[p[n]] = n
      BY <1>1, <1>3 DEF Permuted
    <2>. QED
      BY <2>1
  <1>. QED
    BY <1>2, <1>3 DEF Permuted

LEMMA SameRecords ==
    ASSUME NEW g, NEW h, NEW p, Permuted(g, h, p)
    PROVE  /\ Range(h) = Range(g) /\ Types(h) = Types(g)
           /\ \A key : SaidOfAny(h, key) = SaidOfAny(g, key)
           /\ \A type : Readings(h, type) = Readings(g, type)
           /\ EventType(h) = EventType(g) /\ Success(h) = Success(g)
           /\ \A key : AttributeValues(h, key) = AttributeValues(g, key)
           /\ Attribution(h) = Attribution(g)
  <1>1. \A x : x \in Range(h) <=> x \in Range(g)
    BY DEF Permuted, Range
  <1>2. Range(h) = Range(g)
    BY <1>1
  <1>3. \A q : Types(q) = {r.type : r \in Range(q)}
    BY DEF Types, Range
  <1>4. Types(h) = Types(g)
    BY <1>2, <1>3
  <1>5. \A type : Readings(h, type) = Readings(g, type)
    BY <1>2 DEF Readings
  <1>6. Speaking(h) = Speaking(g)
    BY <1>4, <1>5 DEF Speaking
  <1>7. EventType(h) = EventType(g)
    BY <1>4 DEF EventType
  <1>8. Decider(h) = Decider(g)
    BY <1>6, <1>7 DEF Decider
  <1>9. Success(h) = Success(g)
    BY <1>5, <1>8 DEF Success
  <1>10. \A key : AttributeValues(h, key) = AttributeValues(g, key)
    BY <1>2 DEF AttributeValues
  <1>11. \A key : Attribute(h, key) = Attribute(g, key)
    <2>. SUFFICES ASSUME NEW key PROVE Attribute(h, key) = Attribute(g, key)
      OBVIOUS
    <2> DEFINE any(own) == IF own = {} THEN None ELSE CHOOSE val \in own : TRUE
    <2>1. \A q : Attribute(q, key) = any(AttributeValues(q, key))
      BY DEF Attribute
    <2>2. AttributeValues(h, key) = AttributeValues(g, key)
      BY <1>10
    <2>. HIDE DEF any
    <2>. QED
      BY <2>1, <2>2
  <1>12. AttributionValid(h) = AttributionValid(g)
    BY <1>10, <1>11 DEF AttributionValid
  <1>13. Attribution(h) = Attribution(g)
    BY <1>11, <1>12 DEF Attribution
  <1>14. \A key : SaidOfAny(h, key) = SaidOfAny(g, key)
    BY <1>2 DEF SaidOfAny
  <1>. QED
    BY <1>2, <1>4, <1>5, <1>7, <1>9, <1>10, <1>13, <1>14

LEMMA SameView ==
    ASSUME NEW g, NEW h, NEW p, Permuted(g, h, p)
    PROVE  /\ DOMAIN View(g) = DOMAIN g /\ DOMAIN View(h) = DOMAIN g
           /\ \A n \in DOMAIN g : View(h)[n] = View(g)[p[n]]
           /\ Range(View(h)) = Range(View(g))
  <1>1. \A n \in DOMAIN g : p[n] \in DOMAIN g /\ h[n] = g[p[n]] /\ p[p[n]] = n /\ n \in DOMAIN h
    BY DEF Permuted
  <1>2. DOMAIN View(g) = DOMAIN g /\ DOMAIN View(h) = DOMAIN g
    BY DEF View, Permuted
  <1>3. \A n \in DOMAIN g : \A key : Conflicting(h, n, key) = Conflicting(g, p[n], key)
    <2>1. \A k : GroupDiffers(h, k) = GroupDiffers(g, k)
      BY SameRecords DEF GroupDiffers
    <2>. QED
      BY <1>1, <2>1 DEF Conflicting
  <1>4. \A n \in DOMAIN g : \A tokens : Seen(h, n, tokens) = Seen(g, p[n], tokens)
    BY <1>1, <1>3 DEF Seen
  <1>5. \A n \in DOMAIN g : View(h)[n] = View(g)[p[n]]
    BY <1>1, <1>4 DEF View
  <1>6. \A x : x \in Range(View(h)) <=> x \in Range(View(g))
    <2>1. \A n \in DOMAIN g : View(h)[p[n]] = View(g)[n]
      BY <1>1, <1>5
    <2>. QED
      BY <1>1, <1>2, <1>5, <2>1 DEF Range
  <1>. QED
    BY <1>2, <1>5, <1>6

\* A first value that is the only one does not depend on the order.
Reordered(n, a, b, p) ==
    /\ n \in Nat /\ DOMAIN a = 1..n /\ DOMAIN b = 1..n
    /\ \A k \in 1..n : p[k] \in 1..n /\ p[p[k]] = k /\ b[k] = a[p[k]]
    /\ \A j, k \in 1..n : a[j] # None /\ a[k] # None => a[j] = a[k]

LEMMA FirstPermuted ==
    ASSUME NEW n, NEW a, NEW b, NEW p, Reordered(n, a, b, p)
    PROVE  FirstNonempty(a) = FirstNonempty(b)
  <1>. USE DEF Reordered
  <1>1. /\ FirstNonempty(a) = None <=> \A i \in 1..n : a[i] = None
        /\ FirstNonempty(a) # None => \E i \in 1..n : a[i] = FirstNonempty(a)
    BY FirstIs
  <1>2. /\ FirstNonempty(b) = None <=> \A i \in 1..n : b[i] = None
        /\ FirstNonempty(b) # None => \E i \in 1..n : b[i] = FirstNonempty(b)
    BY FirstIs
  <1>3. \A k \in 1..n : p[k] \in 1..n /\ a[k] = b[p[k]]
    OBVIOUS
  <1>. QED
    BY <1>1, <1>2, <1>3

LEMMA SameFirst ==
    ASSUME NEW g, NEW h, NEW p, Permuted(g, h, p), NEW key \in GroupSingletons
    PROVE  /\ FirstSemantic(View(h), key) = FirstSemantic(View(g), key)
           /\ FirstRecordValue(View(h), key) = FirstRecordValue(View(g), key)
           /\ InterpretedValue(View(h), key) = InterpretedValue(View(g), key)
  <1> DEFINE semantic(v) == [i \in DOMAIN v |-> SemanticValue(v[i], key)]
             value(v) == [i \in DOMAIN v |-> RecordValue(v[i], key)]
             interpreted(v) == [i \in DOMAIN v |-> Interpreted(RecordValue(v[i], key))]
             n == Len(g)
             v == View(g)
             w == View(h)
  <1>1. n \in Nat /\ DOMAIN v = 1..n /\ DOMAIN w = 1..n /\ DOMAIN g = 1..n /\ g \in Groups
    BY ViewIsGroup, SameView DEF Permuted
  <1>2. p \in [1..n -> 1..n] /\ \A k \in 1..n : p[k] \in 1..n /\ p[p[k]] = k /\ w[k] = v[p[k]]
    BY <1>1, SameView DEF Permuted
  <1>3. key \notin ExecKeys
    BY SingletonsAreWords
  <1>4. \A j \in 1..n :
           /\ SemanticValue(v[j], key) # None => ~Disagree(SaidOfAny(g, key))
                                                 /\ SemanticValue(v[j], key) \in SaidOfAny(g, key)
           /\ RecordValue(v[j], key) # None => ~Disagree(SaidOfAny(g, key))
                                               /\ RecordValue(v[j], key) \in SaidOfAny(g, key)
    <2>. SUFFICES ASSUME NEW j \in DOMAIN g
                  PROVE  /\ SemanticValue(v[j], key) # None =>
                               /\ ~Disagree(SaidOfAny(g, key))
                               /\ SemanticValue(v[j], key) \in SaidOfAny(g, key)
                         /\ RecordValue(v[j], key) # None =>
                               /\ ~Disagree(SaidOfAny(g, key))
                               /\ RecordValue(v[j], key) \in SaidOfAny(g, key)
      BY <1>1
    <2>1. ~Conflicting(g, j, key) => ~Disagree(SaidOfAny(g, key))
      BY Unmarked DEF SpelledAs
    <2>2. Said(g[j], key) \subseteq SaidOfAny(g, key)
      BY DEF SaidOfAny, Range
    <2>. QED
      BY <1>1, <1>3, <2>1, <2>2, RecordHeard
  <1>. HIDE DEF v, w, n
  <1>5. \A j, k \in 1..n :
           /\ SemanticValue(v[j], key) # None /\ SemanticValue(v[k], key) # None =>
                 SemanticValue(v[j], key) = SemanticValue(v[k], key)
           /\ RecordValue(v[j], key) # None /\ RecordValue(v[k], key) # None =>
                 RecordValue(v[j], key) = RecordValue(v[k], key)
    BY <1>4 DEF Disagree
  <1>6. \A x : Interpreted(x) # None => x # None
    BY DEF Interpreted, None
  <1>7. FirstNonempty(semantic(v)) = FirstNonempty(semantic(w))
    <2>1. /\ DOMAIN semantic(v) = 1..n /\ DOMAIN semantic(w) = 1..n
          /\ \A k \in 1..n : semantic(w)[k] = semantic(v)[p[k]]
          /\ \A j, k \in 1..n : semantic(v)[j] # None /\ semantic(v)[k] # None =>
                                   semantic(v)[j] = semantic(v)[k]
      BY <1>1, <1>2, <1>5
    <2>. HIDE DEF semantic
    <2>2. Reordered(n, semantic(v), semantic(w), p)
      BY <1>1, <1>2, <2>1 DEF Reordered
    <2>. QED
      BY <2>2, FirstPermuted
  <1>8. FirstNonempty(value(v)) = FirstNonempty(value(w))
    <2>1. /\ DOMAIN value(v) = 1..n /\ DOMAIN value(w) = 1..n
          /\ \A k \in 1..n : value(w)[k] = value(v)[p[k]]
          /\ \A j, k \in 1..n : value(v)[j] # None /\ value(v)[k] # None =>
                                   value(v)[j] = value(v)[k]
      BY <1>1, <1>2, <1>5
    <2>. HIDE DEF value
    <2>2. Reordered(n, value(v), value(w), p)
      BY <1>1, <1>2, <2>1 DEF Reordered
    <2>. QED
      BY <2>2, FirstPermuted
  <1>9. FirstNonempty(interpreted(v)) = FirstNonempty(interpreted(w))
    <2>1. /\ DOMAIN interpreted(v) = 1..n /\ DOMAIN interpreted(w) = 1..n
          /\ \A k \in 1..n : interpreted(w)[k] = interpreted(v)[p[k]]
          /\ \A j, k \in 1..n : interpreted(v)[j] # None /\ interpreted(v)[k] # None =>
                                   interpreted(v)[j] = interpreted(v)[k]
      BY <1>1, <1>2, <1>5, <1>6
    <2>. HIDE DEF interpreted
    <2>2. Reordered(n, interpreted(v), interpreted(w), p)
      BY <1>1, <1>2, <2>1 DEF Reordered
    <2>. QED
      BY <2>2, FirstPermuted
  <1>. QED
    BY <1>7, <1>8, <1>9 DEF FirstSemantic, FirstRecordValue, InterpretedValue, v, w

\* Identities are read from fields on which the records agree.
LEMMA SameIdentities ==
    ASSUME NEW g, NEW h, NEW p, Permuted(g, h, p)
    PROVE  /\ \A type, success : Login(View(h), type, success) = Login(View(g), type, success)
           /\ Identity(View(h), "UID", "uid") = Identity(View(g), "UID", "uid")
           /\ Effective(View(h)) = Effective(View(g))
  <1>1. \A key \in GroupSingletons :
           /\ FirstRecordValue(View(h), key) = FirstRecordValue(View(g), key)
           /\ InterpretedValue(View(h), key) = InterpretedValue(View(g), key)
    BY SameFirst
  <1>2. {"auid", "AUID", "uid", "UID", "euid", "EUID"} \subseteq GroupSingletons
    BY DEF GroupSingletons
  <1>3. /\ Identity(View(h), "UID", "uid") = Identity(View(g), "UID", "uid")
        /\ Identity(View(h), "EUID", "euid") = Identity(View(g), "EUID", "euid")
        /\ Identity(View(h), "AUID", "auid") = Identity(View(g), "AUID", "auid")
    BY <1>1, <1>2 DEF Identity
  <1>4. FirstRecordValue(View(h), "auid") = FirstRecordValue(View(g), "auid")
        /\ FirstRecordValue(View(h), "AUID") = FirstRecordValue(View(g), "AUID")
    BY <1>1, <1>2
  <1>. QED
    BY <1>3, <1>4 DEF Login, Effective

\* Tokens of records that keep their place.
LEMMA SamePlaces ==
    ASSUME NEW g, NEW h, NEW p, Permuted(g, h, p), NEW type \in Single \cup {"PROCTITLE"}, NEW keys
    PROVE  /\ TypedTokens(h, type, keys) = TypedTokens(g, type, keys)
           /\ \A a \in TypedTokens(g, type, keys) : At(h, a) = At(g, a)
  <1>1. ASSUME NEW e, NEW f, Permuted(e, f, p), NEW a \in TypedTokens(e, type, keys)
        PROVE  a \in TypedTokens(f, type, keys) /\ At(f, a) = At(e, a)
    <2>1. /\ a \in Tokens(e) /\ e[a[1]].type = type /\ At(e, a).key \in keys
          /\ a[1] \in DOMAIN e /\ a[2] \in Section /\ a[3] \in DOMAIN e[a[1]][a[2]]
          /\ a = <<a[1], a[2], a[3]>>
      BY <1>1, TokenPlaces DEF TypedTokens, TypeAt, Permuted
    <2>2. f[a[1]] = e[a[1]] /\ a[1] \in DOMAIN f
      BY <1>1, <2>1 DEF Permuted
    <2>3. a \in Tokens(f)
      <3> DEFINE at(j, q) == {<<j, q, m>> : m \in DOMAIN f[j][q]}
      <3>1. a \in at(a[1], a[2])
        BY <2>1, <2>2
      <3>2. Tokens(f) = UNION {at(j, q) : j \in DOMAIN f, q \in Section}
        BY DEF Tokens
      <3>. HIDE DEF at
      <3>. QED
        BY <2>1, <2>2, <3>1, <3>2
    <2>. QED
      BY <2>1, <2>2, <2>3 DEF TypedTokens, TypeAt, At
  <1>2. TypedTokens(g, type, keys) \subseteq TypedTokens(h, type, keys)
        /\ \A a \in TypedTokens(g, type, keys) : At(h, a) = At(g, a)
    BY <1>1
  <1>3. TypedTokens(h, type, keys) \subseteq TypedTokens(g, type, keys)
    BY <1>1, PermutedBack
  <1>. QED
    BY <1>2, <1>3


\* Of the titles there is a first one.
LEMMA FirstTitleIs ==
    ASSUME NEW g \in Groups, Titles(g) # {}
    PROVE  FirstTitle(g) \in Titles(g)
  <1> DEFINE S == Titles(g)
             records == {a[1] : a \in S}
  <1>1. \A a \in S : a[1] \in Nat /\ a[3] \in Nat
    <2>. SUFFICES ASSUME NEW a \in S PROVE a[1] \in Nat /\ a[3] \in Nat
      OBVIOUS
    <2>1. /\ a[1] \in DOMAIN g /\ a[2] \in Section /\ a[3] \in DOMAIN g[a[1]][a[2]]
          /\ g[a[1]].type = "PROCTITLE"
      BY TokenPlaces DEF Titles, TypedTokens, TypeAt
    <2>2. g[a[1]].raw \in Seq(Words) /\ g[a[1]].embedded \in Seq(Words)
      BY <2>1, RecordParts DEF Groups
    <2>3. DOMAIN g = 1..Len(g)
      BY ViewIsGroup
    <2>4. g[a[1]][a[2]] \in Seq(Words)
      BY <2>1, <2>2 DEF Section
    <2>5. a[1] \in Nat
      BY <2>1, <2>3
    <2>6. a[3] \in Nat
      BY <2>1, <2>4
    <2>. QED
      BY <2>5, <2>6
  <1>2. PICK i \in records : \A j \in records : i <= j
    <2>1. records \in SUBSET Nat /\ records # {}
      BY <1>1
    <2>. HIDE DEF records
    <2>. QED
      BY <2>1, LeastPlace
  <1> DEFINE at == {a[3] : a \in {b \in S : b[1] = i}}
  <1>3. PICK n \in at : \A m \in at : n <= m
    <2>1. at \in SUBSET Nat /\ at # {}
      BY <1>1
    <2>. HIDE DEF at
    <2>. QED
      BY <2>1, LeastPlace
  <1>4. PICK a \in S : a[1] = i /\ a[3] = n
    BY <1>3
  <1>5. \A b \in S : a[1] < b[1] \/ (a[1] = b[1] /\ a[3] <= b[3])
    <2>. SUFFICES ASSUME NEW b \in S PROVE a[1] < b[1] \/ (a[1] = b[1] /\ a[3] <= b[3])
      OBVIOUS
    <2>1. a[1] <= b[1] /\ (b[1] = i => b[3] \in at)
      BY <1>2, <1>4
    <2>. QED
      BY <1>1, <1>3, <1>4, <2>1
  <1>. HIDE DEF S
  <1>6. \E c \in S : \A b \in S : c[1] < b[1] \/ (c[1] = b[1] /\ c[3] <= b[3])
    BY <1>5
  <1>. QED
    BY <1>6, Zenon DEF FirstTitle, S

\* A vector depends on the tokens, not on their order.
LEMMA SameEncoding ==
    ASSUME NEW s, NEW t, Range(s) = Range(t), NEW v, Encodes(s, v)
    PROVE  Encodes(t, v)
  <1>1. \A key, i : Given(s, key, i) = Given(t, key, i)
    BY DEF Given
  <1>2. Indexes(s) = Indexes(t)
    BY DEF Indexes
  <1>3. \A i, b : EncodesArgument(s, i, b) = EncodesArgument(t, i, b)
    BY <1>1 DEF EncodesArgument
  <1>. QED
    BY <1>2, <1>3 DEF Encodes

LEMMA VectorLengths ==
    ASSUME NEW tokens \in Seq(ExecTokenSet), Vector(tokens) # NoVector
    PROVE  \E S : /\ Vector(tokens) \in Seq(S)
                  /\ \A n \in 1..Len(Vector(tokens)) : Len(Vector(tokens)[n]) \in Nat
  <1> DEFINE C == Cardinality(Indexes(tokens))
             v == [n \in 1..C |-> Value(tokens, n - 1)]
             S == {Value(tokens, n - 1) : n \in 1..C}
  <1>1. /\ NoContradiction(tokens) /\ Indexes(tokens) = 0..(C - 1) /\ Vector(tokens) = v
        /\ \A i \in Indexes(tokens) : WholeDecodes(tokens, i) \/ SplitDecodes(tokens, i)
    BY DEF Vector
  <1>2. C \in Nat
    BY FiniteParts
  <1>3. v \in Seq(S) /\ Len(v) = C /\ \A n \in 1..C : v[n] = Value(tokens, n - 1)
    BY <1>2
  <1>4. ASSUME NEW i \in Indexes(tokens) PROVE Len(Value(tokens, i)) \in Nat
    <2>1. CASE WholeDecodes(tokens, i)
      <3> DEFINE W == Of(tokens, "whole", i)
      <3>1. W # {} /\ W \in SUBSET DOMAIN tokens /\ Value(tokens, i) = LastAt(tokens, W).bytes
        BY <2>1, GivenIs DEF WholeDecodes, Value
      <3>2. PICK n \in W : LastAt(tokens, W) = tokens[n]
        BY <3>1, LastIs
      <3>3. tokens[n].bytes \in Seq(STRING)
        BY <3>1, TokensOfVector, ExecTokenIs
      <3>. HIDE DEF W
      <3>. QED
        BY <3>1, <3>2, <3>3
    <2>2. CASE SplitDecodes(tokens, i)
      <3> DEFINE W == Of(tokens, "length", i)
      <3>1. /\ W # {} /\ W \in SUBSET DOMAIN tokens /\ Value(tokens, i) = Joined(tokens, i)
            /\ Len(Joined(tokens, i)) = LastAt(tokens, W).num
        BY <2>2, GivenIs DEF SplitDecodes, Value
      <3>2. PICK n \in W : LastAt(tokens, W) = tokens[n]
        BY <3>1, LastIs
      <3>3. tokens[n].num \in Int /\ tokens[n].num >= 0
        BY <1>1, <3>1, TokensOfVector, ExecTokenIs DEF NoContradiction
      <3>. HIDE DEF W
      <3>. QED
        BY <3>1, <3>2, <3>3
    <2>. QED
      BY <1>1, <2>1, <2>2
  <1>5. \A n \in 1..C : n - 1 \in Indexes(tokens)
    BY <1>1, <1>2
  <1>. HIDE DEF v, S
  <1>. QED
    BY <1>1, <1>3, <1>4, <1>5

LEMMA VectorUnordered ==
    ASSUME NEW s \in Seq(ExecTokenSet), NEW t \in Seq(ExecTokenSet), Range(s) = Range(t)
    PROVE  Vector(s) = Vector(t)
  <1>1. ASSUME NEW a \in Seq(ExecTokenSet), NEW b \in Seq(ExecTokenSet), Range(a) = Range(b),
               Vector(a) # NoVector
        PROVE  Vector(b) = Vector(a)
    <2>1. Encodes(a, Vector(a))
      BY <1>1, VectorEncoded
    <2>2. Encodes(b, Vector(a))
      BY <1>1, <2>1, SameEncoding
    <2>3. PICK S : /\ Vector(a) \in Seq(S)
                   /\ \A n \in 1..Len(Vector(a)) : Len(Vector(a)[n]) \in Nat
      BY <1>1, VectorLengths
    <2>. QED
      BY <2>2, <2>3, EncodedVector
  <1>2. Vector(s) # NoVector => Vector(t) = Vector(s)
    BY <1>1
  <1>3. Vector(t) # NoVector => Vector(s) = Vector(t)
    BY <1>1
  <1>. QED
    BY <1>2, <1>3

LEMMA SameArgv ==
    ASSUME NEW g, NEW h, NEW p, Permuted(g, h, p)
    PROVE  ArgvSource(h) = ArgvSource(g) /\ Argv(h) = Argv(g) /\ Command(h) = Command(g)
  <1>1. g \in Groups /\ h \in Groups /\ Types(h) = Types(g)
    BY SameRecords DEF Permuted
  <1>2. Titles(h) = Titles(g) /\ \A a \in Titles(g) : At(h, a) = At(g, a)
    BY SamePlaces DEF Titles
  <1>3. ArgvSource(h) = ArgvSource(g)
    BY <1>1, <1>2 DEF ArgvSource
  <1>4. Vector(ExecveTokens(h)) = Vector(ExecveTokens(g))
    <2>1. ExecveTokens(h) \in Seq(ExecTokenSet) /\ ExecveTokens(g) \in Seq(ExecTokenSet)
      BY <1>1, ExecveTokensAre
    <2>2. ASSUME NEW q \in Groups, NEW t
          PROVE  t \in Range(ExecveTokens(q)) <=>
                    \E r \in Range(q) : r.type = "EXECVE" /\ t \in Range(r.raw)
      <3>1. t \in Range(ExecveTokens(q)) <=>
               \E i \in DOMAIN q : q[i].type = "EXECVE" /\ t \in Range(q[i].raw)
        BY ExecveTokensAre
      <3>2. /\ \A i \in DOMAIN q : q[i] \in Range(q)
            /\ \A r \in Range(q) : \E i \in DOMAIN q : r = q[i]
        BY DEF Range
      <3>. QED
        BY <3>1, <3>2
    <2>3. Range(ExecveTokens(h)) = Range(ExecveTokens(g))
      <3>1. Range(h) = Range(g)
        BY SameRecords
      <3>2. \A t : t \in Range(ExecveTokens(h)) <=> t \in Range(ExecveTokens(g))
        BY <1>1, <2>2, <3>1
      <3>. QED
        BY <3>2
    <2>. QED
      BY <2>1, <2>3, VectorUnordered
  <1>5. FirstTitle(h) = FirstTitle(g)
    BY <1>2 DEF FirstTitle
  <1>6. Titles(g) # {} => At(h, FirstTitle(h)) = At(g, FirstTitle(g))
    BY <1>1, <1>2, <1>5, FirstTitleIs
  <1>7. ArgvSource(g) = "proctitle" => Titles(g) # {}
    BY DEF ArgvSource, None
  <1>8. Argv(h) = Argv(g)
    BY <1>3, <1>4, <1>6, <1>7 DEF Argv
  <1>9. Commands(h) = Commands(g)
    <2>1. /\ TypedTokens(h, "USER_CMD", {"cmd"}) = TypedTokens(g, "USER_CMD", {"cmd"})
          /\ \A a \in TypedTokens(g, "USER_CMD", {"cmd"}) : At(h, a) = At(g, a)
      BY SamePlaces DEF Single
    <2>. QED
      BY <2>1 DEF Commands
  <1>10. Command(h) = Command(g)
    BY <1>9 DEF Command, CommandValid
  <1>. QED
    BY <1>3, <1>8, <1>10

\* A producer's record closes its group: its place is its own.
LEMMA SameOrigin ==
    ASSUME NEW g, NEW h, NEW p, Permuted(g, h, p)
    PROVE  Origin(View(h)) = Origin(View(g))
  <1> DEFINE heard(v, key) == [i \in DOMAIN v |->
                        IF v[i].type \in Producers THEN SemanticValue(v[i], key) ELSE None]
             own(v, key) == FirstNonempty(heard(v, key))
             v == View(g)
             w == View(h)
  <1>1. DOMAIN v = DOMAIN g /\ DOMAIN w = DOMAIN g /\ \A n \in DOMAIN g : w[n] = v[p[n]]
    BY SameView
  <1>2. \A n \in DOMAIN g : v[n].type = g[n].type /\ w[n].type = h[n].type
    BY ViewOfRecord DEF Permuted
  <1>3. \A n \in DOMAIN g : p[n] \in DOMAIN g /\ p[p[n]] = n
    BY DEF Permuted
  <1>4. \A n \in DOMAIN g : v[n].type \in Producers \/ w[n].type \in Producers => p[n] = n
    <2>1. \A n \in DOMAIN g : g[n].type \in Producers \/ h[n].type \in Producers => p[n] = n
      BY PermutedBack DEF Permuted, Producers, Single
    <2>. QED
      BY <1>2, <2>1
  <1>5. ASSUME NEW key PROVE heard(w, key) = heard(v, key)
    <2>1. \A n \in DOMAIN g : (IF w[n].type \in Producers THEN SemanticValue(w[n], key) ELSE None)
                            = (IF v[n].type \in Producers THEN SemanticValue(v[n], key) ELSE None)
      <3>. SUFFICES ASSUME NEW n \in DOMAIN g
                    PROVE  (IF w[n].type \in Producers THEN SemanticValue(w[n], key) ELSE None)
                         = (IF v[n].type \in Producers THEN SemanticValue(v[n], key) ELSE None)
        OBVIOUS
      <3>. HIDE DEF v, w
      <3>1. CASE p[n] = n
        BY <1>1, <3>1
      <3>2. CASE p[n] # n
        BY <1>4, <3>2
      <3>. QED
        BY <3>1, <3>2
    <2>. HIDE DEF v, w
    <2>. QED
      BY <1>1, <2>1
  <1>6. Origin(v) = Meaningful(FirstNonempty(<<own(v, "addr"), own(v, "ip")>>))
        /\ Origin(w) = Meaningful(FirstNonempty(<<own(w, "addr"), own(w, "ip")>>))
    BY DEF Origin
  <1>7. own(w, "addr") = own(v, "addr") /\ own(w, "ip") = own(v, "ip")
    <2>. HIDE DEF heard, v, w
    <2>. QED
      BY <1>5
  <1>. HIDE DEF own
  <1>. QED
    BY <1>6, <1>7

LEMMA SameDecisions ==
    ASSUME NEW g, NEW h, NEW p, Permuted(g, h, p)
    PROVE  /\ ShownDecision(View(h)) = ShownDecision(View(g))
           /\ ShownFilter(View(h)) = ShownFilter(View(g))
  <1> DEFINE v == View(g)
             w == View(h)
             types(u) == {u[i].type : i \in Decisive(u)}
             of(u, type) == {Decision(u[i]) : i \in {j \in Decisive(u) : u[j].type = type}}
             filters(u) == {Filter(u[i]) : i \in Filters(u)}
  <1>1. DOMAIN v = DOMAIN g /\ DOMAIN w = DOMAIN g /\ \A n \in DOMAIN g : w[n] = v[p[n]]
    BY SameView
  <1>2. \A n \in DOMAIN g : p[n] \in DOMAIN g /\ p[p[n]] = n
    BY DEF Permuted
  <1>. HIDE DEF v, w
  <1>3. \A n \in DOMAIN g : v[n] = w[p[n]]
    BY <1>1, <1>2
  <1>4. /\ \A n \in Decisive(w) : p[n] \in Decisive(v) /\ w[n] = v[p[n]]
        /\ \A n \in Decisive(v) : p[n] \in Decisive(w) /\ v[n] = w[p[n]]
    BY <1>1, <1>2, <1>3 DEF Decisive
  <1>5. types(w) = types(v) /\ (Decisive(w) = {} <=> Decisive(v) = {})
    BY <1>4
  <1>6. ASSUME NEW type PROVE of(w, type) = of(v, type)
    <2>1. \A d : d \in of(w, type) => d \in of(v, type)
      BY <1>4
    <2>2. \A d : d \in of(v, type) => d \in of(w, type)
      BY <1>4
    <2>. QED
      BY <2>1, <2>2
  <1>7. ShownDecision(w) = ShownDecision(v)
    <2>1. of(w, Preferred(types(v))) = of(v, Preferred(types(v)))
      BY <1>6
    <2>2. \A u : Decisive(u) # {} =>
                    ShownDecision(u) = CHOOSE d \in of(u, Preferred(types(u))) : TRUE
      BY DEF ShownDecision
    <2>3. \A u : Decisive(u) = {} => ShownDecision(u) = NoDecision
      BY DEF ShownDecision
    <2>. HIDE DEF of, types
    <2>. QED
      BY <1>5, <2>1, <2>2, <2>3
  <1>8. /\ \A n \in Filters(w) : p[n] \in Filters(v) /\ w[n] = v[p[n]]
        /\ \A n \in Filters(v) : p[n] \in Filters(w) /\ v[n] = w[p[n]]
    BY <1>1, <1>2, <1>3 DEF Filters
  <1>9. filters(w) = filters(v) /\ (Filters(w) = {} <=> Filters(v) = {})
    BY <1>8
  <1>10. ShownFilter(w) = ShownFilter(v)
    <2>1. \A u : Filters(u) # {} => ShownFilter(u) = CHOOSE f \in filters(u) : TRUE
      BY DEF ShownFilter
    <2>2. \A u : Filters(u) = {} => ShownFilter(u) = [key \in FilterKeys |-> None]
      BY DEF ShownFilter
    <2>. HIDE DEF filters
    <2>. QED
      BY <1>9, <2>1, <2>2
  <1>. QED
    BY <1>7, <1>10 DEF v, w


\* Paths come in a total order.
LEMMA PathsOrdered ==
    ASSUME NEW v, NEW n \in Nat, DOMAIN v = 1..n
    PROVE  /\ \A i \in 1..n : ~Comes(v, i, i)
           /\ \A i, j \in 1..n : i # j => Comes(v, i, j) \/ Comes(v, j, i)
           /\ \A i, j, k \in 1..n : Comes(v, i, j) /\ Comes(v, j, k) => Comes(v, i, k)
  <1> DEFINE item(k) == RecordValue(v[k], "item")
             has(k) == item(k) \in Range(Items)
             number(k) == CHOOSE m \in DOMAIN Items : Items[m] = item(k)
             place(k) == IF has(k) THEN number(k) ELSE 3
  <1>1. DOMAIN Items = 1..2
    BY DEF Items
  <1>2. \A k : has(k) => number(k) \in 1..2 /\ Items[number(k)] = item(k)
    <2>. SUFFICES ASSUME NEW k, has(k) PROVE number(k) \in 1..2 /\ Items[number(k)] = item(k)
      OBVIOUS
    <2>1. \E m \in DOMAIN Items : Items[m] = item(k)
      BY DEF Range
    <2>2. number(k) \in DOMAIN Items /\ Items[number(k)] = item(k)
      <3>. HIDE DEF item
      <3>. QED
        BY <2>1
    <2>. HIDE DEF number, item
    <2>. QED
      BY <1>1, <2>2
  <1>3. \A i, j : Comes(v, i, j) <=>
                     CASE has(i) /\ has(j) /\ item(i) # item(j) -> number(i) < number(j)
                       [] has(i) # has(j)                       -> has(i)
                       [] OTHER                                 -> i < j
    BY DEF Comes
  <1>4. \A i, j : item(i) = item(j) => number(i) = number(j) /\ (has(i) <=> has(j))
    OBVIOUS
  <1>. HIDE DEF item, has, number
  <1>5. \A k : place(k) \in 1..3 /\ (place(k) = 3 <=> ~has(k)) /\ (has(k) => place(k) = number(k))
    BY <1>2
  <1>6. \A i, j : has(i) \in BOOLEAN /\ has(j) \in BOOLEAN
    BY DEF has
  <1>. HIDE DEF place
  <1>7. ASSUME NEW i \in 1..n, NEW j \in 1..n
        PROVE  Comes(v, i, j) <=> place(i) < place(j) \/ (place(i) = place(j) /\ i < j)
    <2>1. CASE has(i) /\ has(j) /\ item(i) # item(j)
      <3>1. Comes(v, i, j) <=> number(i) < number(j)
        BY <1>3, <2>1
      <3>2. number(i) # number(j)
        BY <1>2, <2>1
      <3>. QED
        BY <1>5, <2>1, <3>1, <3>2
    <2>2. CASE has(i) /\ has(j) /\ item(i) = item(j)
      <3>1. Comes(v, i, j) <=> i < j
        BY <1>3, <2>2
      <3>2. place(i) = place(j)
        BY <1>4, <1>5, <2>2
      <3>. QED
        BY <1>5, <3>1, <3>2
    <2>3. CASE ~has(i) /\ ~has(j)
      <3>1. Comes(v, i, j) <=> i < j
        BY <1>3, <1>6, <2>3
      <3>. QED
        BY <1>5, <2>3, <3>1
    <2>4. CASE has(i) /\ ~has(j)
      <3>1. Comes(v, i, j)
        BY <1>3, <2>4
      <3>. QED
        BY <1>2, <1>5, <2>4, <3>1
    <2>5. CASE ~has(i) /\ has(j)
      <3>1. ~Comes(v, i, j)
        BY <1>3, <2>5
      <3>. QED
        BY <1>2, <1>5, <2>5, <3>1
    <2>. QED
      BY <2>1, <2>2, <2>3, <2>4, <2>5
  <1>8. \A k : place(k) \in Int
    BY <1>5
  <1>. QED
    BY <1>7, <1>8

\* The sequence s lists f of a finite set in a total order: at each number
\* stands the element with so many below it.
Listed(S, below, at, f, s) ==
    /\ IsFiniteSet(S)
    /\ \A x \in S : below[x] \subseteq S /\ x \notin below[x]
    /\ \A x, y \in S : /\ x # y => x \in below[y] \/ y \in below[x]
                       /\ x \in below[y] => below[x] \subseteq below[y]
    /\ DOMAIN s = 1..Cardinality(S)
    /\ \A m \in 1..Cardinality(S) :
          /\ (\E x \in S : Cardinality(below[x]) = m - 1) =>
                at[m] \in S /\ Cardinality(below[at[m]]) = m - 1
          /\ at[m] \in S => s[m] = f[at[m]]

LEMMA Ranked ==
    ASSUME NEW S, NEW below, NEW at, NEW f, NEW s, Listed(S, below, at, f, s)
    PROVE  Range(s) = {f[x] : x \in S}
  <1> DEFINE C == Cardinality(S)
             rank(x) == Cardinality(below[x])
             h == [x \in S |-> rank(x)]
  <1>1. IsFiniteSet(S) /\ C \in Nat
    BY FS_CardinalityType DEF Listed
  <1>2. \A x \in S : below[x] \subseteq S /\ x \notin below[x]
    BY DEF Listed
  <1>3. \A x, y \in S : /\ x # y => x \in below[y] \/ y \in below[x]
                        /\ x \in below[y] => below[x] \subseteq below[y]
    BY DEF Listed
  <1>4. \A A, B : A \subseteq B /\ B \subseteq S /\ A # B => Cardinality(A) < Cardinality(B)
    <2>. SUFFICES ASSUME NEW A, NEW B, A \subseteq B, B \subseteq S, A # B
                  PROVE  Cardinality(A) < Cardinality(B)
      OBVIOUS
    <2>1. IsFiniteSet(B) /\ Cardinality(B) \in Nat
      BY <1>1, FS_Subset, FS_CardinalityType
    <2>2. IsFiniteSet(A) /\ Cardinality(A) \in Nat /\ Cardinality(A) <= Cardinality(B)
          /\ (Cardinality(A) = Cardinality(B) => A = B)
      BY <2>1, FS_Subset, FS_CardinalityType
    <2>. QED
      BY <2>1, <2>2
  <1>5. ASSUME NEW x \in S, NEW y \in S, x \in below[y] PROVE rank(x) < rank(y)
    <2>1. /\ below[x] \subseteq below[y] /\ below[y] \subseteq S
          /\ x \in below[y] /\ x \notin below[x]
      BY <1>2, <1>3, <1>5
    <2>. QED
      BY <1>4, <2>1
  <1>6. ASSUME NEW x \in S PROVE rank(x) \in 0..(C - 1)
    <2>1. below[x] \subseteq S /\ x \notin below[x]
      BY <1>2
    <2>2. rank(x) \in Nat
      BY <1>1, <2>1, FS_Subset, FS_CardinalityType
    <2>3. rank(x) < C
      BY <1>4, <2>1
    <2>. HIDE DEF rank, C
    <2>. QED
      BY <1>1, <2>2, <2>3
  <1>7. ASSUME NEW x \in S, NEW y \in S, rank(x) = rank(y) PROVE x = y
    <2>1. \A z \in S : rank(z) \in Int
      BY <1>6
    <2>. HIDE DEF rank
    <2>. QED
      BY <1>3, <1>5, <1>7, <2>1
  <1>8. \A m \in 0..(C - 1) : \E x \in S : rank(x) = m
    <2> DEFINE T == 0..(C - 1)
    <2>1. h \in Injection(S, T)
      <3>1. h \in [S -> T]
        BY <1>6
      <3>2. \A x, y \in S : h[x] = h[y] => x = y
        BY <1>7
      <3>. HIDE DEF h, T
      <3>. QED
        BY <3>1, <3>2 DEF Injection, IsInjective
    <2>2. IsFiniteSet(T) /\ Cardinality(T) = C
      <3>1. 0 \in Int /\ C - 1 \in Int
        BY <1>1
      <3>2. IsFiniteSet(T) /\ Cardinality(T) = IF 0 > C - 1 THEN 0 ELSE (C - 1) - 0 + 1
        BY <3>1, FS_Interval, Zenon
      <3>. HIDE DEF C, T
      <3>. QED
        BY <1>1, <3>2
    <2>3. h \in Surjection(S, T)
      <3>. HIDE DEF h, T
      <3>. QED
        BY <1>1, <2>1, <2>2, FS_Injection
    <2>4. \A m \in T : \E x \in S : h[x] = m
      <3>. HIDE DEF h, T
      <3>. QED
        BY <2>3 DEF Surjection
    <2>. QED
      BY <2>4
  <1>9. \A m \in 1..C : at[m] \in S /\ rank(at[m]) = m - 1
    <2>1. \A m \in 1..C : m - 1 \in 0..(C - 1)
      BY <1>1
    <2>2. \A m \in 1..C : \E x \in S : rank(x) = m - 1
      <3>. HIDE DEF rank, C
      <3>. QED
        BY <1>8, <2>1
    <2>. QED
      BY <2>2 DEF Listed
  <1>10. \A x \in S : rank(x) + 1 \in 1..C /\ at[rank(x) + 1] = x
    <2>. SUFFICES ASSUME NEW x \in S PROVE rank(x) + 1 \in 1..C /\ at[rank(x) + 1] = x
      OBVIOUS
    <2>1. rank(x) + 1 \in 1..C /\ (rank(x) + 1) - 1 = rank(x)
      BY <1>1, <1>6
    <2>2. at[rank(x) + 1] \in S /\ rank(at[rank(x) + 1]) = rank(x)
      <3>. HIDE DEF rank, C
      <3>. QED
        BY <1>9, <2>1
    <2>. HIDE DEF rank
    <2>. QED
      BY <1>7, <2>1, <2>2
  <1>11. DOMAIN s = 1..C /\ \A m \in 1..C : s[m] = f[at[m]]
    BY <1>9 DEF Listed
  <1>. HIDE DEF C, rank
  <1>12. ASSUME NEW m \in DOMAIN s PROVE \E x \in S : s[m] = f[x]
    BY <1>9, <1>11, <1>12
  <1>13. ASSUME NEW x \in S PROVE \E m \in DOMAIN s : f[x] = s[m]
    <2>1. rank(x) + 1 \in DOMAIN s /\ s[rank(x) + 1] = f[x]
      BY <1>10, <1>11
    <2>. QED
      BY <2>1
  <1>. QED
    BY <1>12, <1>13 DEF Range

\* Every path has its place in that order, and every place its path.
LEMMA PathsRange ==
    ASSUME NEW v, NEW n \in Nat, DOMAIN v = 1..n
    PROVE  Range(Paths(v)) = {PathOf(v[i]) : i \in PathRecords(v)}
  <1> DEFINE R == PathRecords(v)
             C == Cardinality(R)
             below == [i \in R |-> Before(v, i)]
             at == [m \in 1..C |-> CHOOSE i \in R : Cardinality(Before(v, i)) = m - 1]
             f == [i \in R |-> PathOf(v[i])]
  <1>1. R \in SUBSET (1..n) /\ IsFiniteSet(R)
    <2>1. R \in SUBSET (1..n)
      BY DEF PathRecords
    <2>2. IsFiniteSet(1..n)
      BY FS_Interval
    <2>. HIDE DEF R
    <2>. QED
      BY <2>1, <2>2, FS_Subset
  <1>2. /\ \A i \in R : ~Comes(v, i, i)
        /\ \A i, j \in R : i # j => Comes(v, i, j) \/ Comes(v, j, i)
        /\ \A i, j, k \in R : Comes(v, i, j) /\ Comes(v, j, k) => Comes(v, i, k)
    BY <1>1, PathsOrdered
  <1>3. \A i \in R : below[i] = {j \in R : Comes(v, j, i)}
    BY DEF Before
  <1>4. DOMAIN Paths(v) = 1..C /\ \A m \in 1..C : Paths(v)[m] = PathOf(v[at[m]])
    BY DEF Paths
  <1>5. \A m \in 1..C : (\E i \in R : Cardinality(below[i]) = m - 1) =>
                           at[m] \in R /\ Cardinality(below[at[m]]) = m - 1
    <2>. SUFFICES ASSUME NEW m \in 1..C, NEW j \in R, Cardinality(below[j]) = m - 1
                  PROVE  at[m] \in R /\ Cardinality(below[at[m]]) = m - 1
      OBVIOUS
    <2>1. \E i \in R : Cardinality(Before(v, i)) = m - 1
      OBVIOUS
    <2>2. at[m] \in R /\ Cardinality(Before(v, at[m])) = m - 1
      <3>. HIDE DEF R, C
      <3>. QED
        BY <2>1
    <2>. QED
      BY <2>2
  <1>6. /\ {f[i] : i \in R} = {PathOf(v[i]) : i \in R}
        /\ \A m \in 1..C : at[m] \in R => Paths(v)[m] = f[at[m]]
    BY <1>4
  <1>. HIDE DEF R, below, at, f
  <1>7. /\ \A i \in R : below[i] \subseteq R /\ i \notin below[i]
        /\ \A i, j \in R : i # j => i \in below[j] \/ j \in below[i]
        /\ \A i, j \in R : i \in below[j] => below[i] \subseteq below[j]
    BY <1>2, <1>3
  <1>8. Listed(R, below, at, f, Paths(v))
    BY <1>1, <1>4, <1>5, <1>6, <1>7 DEF Listed
  <1>9. Range(Paths(v)) = {f[i] : i \in R}
    BY <1>8, Ranked
  <1>. QED
    BY <1>6, <1>9 DEF R

LEMMA SamePaths ==
    ASSUME NEW g, NEW h, NEW p, Permuted(g, h, p)
    PROVE  Range(Paths(View(h))) = Range(Paths(View(g)))
  <1> DEFINE v == View(g)
             w == View(h)
  <1>1. DOMAIN v = DOMAIN g /\ DOMAIN w = DOMAIN g /\ \A n \in DOMAIN g : w[n] = v[p[n]]
    BY SameView
  <1>2. DOMAIN g = 1..Len(g) /\ Len(g) \in Nat
    BY ViewIsGroup DEF Permuted
  <1>3. \A n \in DOMAIN g : p[n] \in DOMAIN g /\ p[p[n]] = n
    BY DEF Permuted
  <1>. HIDE DEF v, w
  <1>4. \A n \in DOMAIN g : v[n] = w[p[n]]
    BY <1>1, <1>3
  <1>5. /\ \A n \in PathRecords(w) : p[n] \in PathRecords(v) /\ w[n] = v[p[n]]
        /\ \A n \in PathRecords(v) : p[n] \in PathRecords(w) /\ v[n] = w[p[n]]
    BY <1>1, <1>3, <1>4 DEF PathRecords
  <1>6. {PathOf(w[i]) : i \in PathRecords(w)} = {PathOf(v[i]) : i \in PathRecords(v)}
    <2>1. \A x : x \in {PathOf(w[i]) : i \in PathRecords(w)} =>
                 x \in {PathOf(v[i]) : i \in PathRecords(v)}
      BY <1>5
    <2>2. \A x : x \in {PathOf(v[i]) : i \in PathRecords(v)} =>
                 x \in {PathOf(w[i]) : i \in PathRecords(w)}
      BY <1>5
    <2>. QED
      BY <2>1, <2>2
  <1>7. Range(Paths(v)) = {PathOf(v[i]) : i \in PathRecords(v)}
    BY <1>1, <1>2, PathsRange
  <1>8. Range(Paths(w)) = {PathOf(w[i]) : i \in PathRecords(w)}
    BY <1>1, <1>2, PathsRange
  <1>. QED
    BY <1>6, <1>7, <1>8 DEF v, w

\* The keys that any record of v carries.
KeyNames(v) == {t.val : t \in {u \in UNION {Range(r.raw) : r \in Range(v)} : u.key = "key"}} \ {None}

\* Every key is listed once, where it first stands.
LEMMA KeysRange ==
    ASSUME NEW v, NEW n \in Nat, DOMAIN v = 1..n, NEW size,
           \A i \in 1..n : size[i] \in Nat /\ DOMAIN v[i].raw = 1..size[i]
    PROVE  Range(RuleKeys(v)) = KeyNames(v)
  <1> DEFINE P == KeyPlaces(v)
             R == NewKeys(v)
             C == Cardinality(R)
             under(a) == {b \in R : Sooner(b, a)}
             below == [a \in R |-> under(a)]
             at == [m \in 1..C |-> CHOOSE a \in R : Cardinality(under(a)) = m - 1]
             f == [a \in R |-> KeyAt(v, a)]
  <1>1. \A a \in P : /\ a = <<a[1], a[2]>> /\ a[1] \in 1..n /\ a[2] \in 1..size[a[1]]
                     /\ a[1] \in Nat /\ a[2] \in Nat
                     /\ v[a[1]].raw[a[2]].key = "key" /\ KeyAt(v, a) # None
    <2>. SUFFICES ASSUME NEW a \in P
                  PROVE  /\ a = <<a[1], a[2]>> /\ a[1] \in 1..n /\ a[2] \in 1..size[a[1]]
                         /\ a[1] \in Nat /\ a[2] \in Nat
                         /\ v[a[1]].raw[a[2]].key = "key" /\ KeyAt(v, a) # None
      OBVIOUS
    <2>1. v[a[1]].raw[a[2]].key = "key" /\ KeyAt(v, a) # None
      BY DEF KeyPlaces
    <2>2. PICK i \in 1..n : a \in {<<i, m>> : m \in DOMAIN v[i].raw}
      BY DEF KeyPlaces
    <2>3. PICK m \in 1..size[i] : a = <<i, m>>
      BY <2>2
    <2>. QED
      BY <2>1, <2>3
  <1>2. ASSUME NEW i \in 1..n, NEW m \in DOMAIN v[i].raw, v[i].raw[m].key = "key", v[i].raw[m].val # None
        PROVE  <<i, m>> \in P /\ KeyAt(v, <<i, m>>) = v[i].raw[m].val
    BY <1>2 DEF KeyPlaces, KeyAt
  <1>3. IsFiniteSet(R)
    <2> DEFINE row == [i \in 1..n |-> {<<i, m>> : m \in DOMAIN v[i].raw}]
               rows == {{<<i, m>> : m \in DOMAIN v[i].raw} : i \in 1..n}
    <2>1. IsFiniteSet(1..n)
      BY FS_Interval
    <2>2. ASSUME NEW i \in 1..n PROVE IsFiniteSet({<<i, m>> : m \in DOMAIN v[i].raw})
      <3> DEFINE places == {<<i, m>> : m \in DOMAIN v[i].raw}
                 pair == [m \in 1..size[i] |-> <<i, m>>]
      <3>1. IsFiniteSet(1..size[i])
        BY FS_Interval
      <3>2. \A m \in 1..size[i] : pair[m] \in places
        OBVIOUS
      <3>3. \A a \in places : \E m \in 1..size[i] : a = pair[m]
        OBVIOUS
      <3>4. DOMAIN pair = 1..size[i]
        OBVIOUS
      <3>. HIDE DEF pair, places
      <3>5. IsFiniteSet(places)
        BY <3>1, <3>2, <3>3, <3>4, ImageOfFinite
      <3>. QED
        BY <3>5 DEF places
    <2>3. IsFiniteSet(rows)
      <3>1. DOMAIN row = 1..n /\ \A i \in 1..n : row[i] \in rows
        OBVIOUS
      <3>2. \A a \in rows : \E i \in 1..n : a = row[i]
        OBVIOUS
      <3>. HIDE DEF row, rows
      <3>. QED
        BY <2>1, <3>1, <3>2, ImageOfFinite
    <2>4. \A T \in rows : IsFiniteSet(T)
      BY <2>2
    <2>5. P \subseteq UNION rows
      BY DEF KeyPlaces
    <2>6. R \subseteq P
      BY DEF NewKeys
    <2>. HIDE DEF rows, P, R
    <2>7. R \subseteq UNION rows
      BY <2>5, <2>6
    <2>8. IsFiniteSet(UNION rows)
      BY <2>3, <2>4, FS_UNION
    <2>. QED
      BY <2>7, <2>8, FS_Subset
  <1>4. R \subseteq P
    BY DEF NewKeys
  <1>5. /\ \A a \in P : ~Sooner(a, a)
        /\ \A a, b \in P : a # b => Sooner(a, b) \/ Sooner(b, a)
        /\ \A a, b, c \in P : Sooner(a, b) /\ Sooner(b, c) => Sooner(a, c)
    <2>. HIDE DEF P
    <2>1. \A a \in P : ~Sooner(a, a)
      BY <1>1 DEF Sooner
    <2>2. ASSUME NEW a \in P, NEW b \in P, a # b PROVE Sooner(a, b) \/ Sooner(b, a)
      <3>1. a[1] # b[1] \/ a[2] # b[2]
        BY <1>1, <2>2
      <3>. QED
        BY <1>1, <3>1 DEF Sooner
    <2>3. ASSUME NEW a \in P, NEW b \in P, NEW c \in P, Sooner(a, b), Sooner(b, c)
          PROVE  Sooner(a, c)
      BY <1>1, <2>3 DEF Sooner
    <2>. QED
      BY <2>1, <2>2, <2>3
  <1>6. \A a \in R : below[a] = {b \in R : Sooner(b, a)}
    OBVIOUS
  <1>7. DOMAIN RuleKeys(v) = 1..C /\ \A m \in 1..C : RuleKeys(v)[m] = KeyAt(v, at[m])
    BY DEF RuleKeys
  <1>8. \A m \in 1..C : (\E a \in R : Cardinality(below[a]) = m - 1) =>
                           at[m] \in R /\ Cardinality(below[at[m]]) = m - 1
    <2>. SUFFICES ASSUME NEW m \in 1..C, NEW b \in R, Cardinality(below[b]) = m - 1
                  PROVE  at[m] \in R /\ Cardinality(below[at[m]]) = m - 1
      OBVIOUS
    <2>1. \E a \in R : Cardinality(under(a)) = m - 1
      OBVIOUS
    <2>2. at[m] \in R /\ Cardinality(under(at[m])) = m - 1
      <3>. HIDE DEF R, C, under
      <3>. QED
        BY <2>1
    <2>. QED
      BY <2>2
  <1>9. /\ \A a \in R : f[a] = KeyAt(v, a)
        /\ \A m \in 1..C : at[m] \in R => RuleKeys(v)[m] = f[at[m]]
    BY <1>7
  <1>10. ASSUME NEW a \in P PROVE \E b \in R : KeyAt(v, b) = KeyAt(v, a)
    <2> DEFINE same == {b \in P : KeyAt(v, b) = KeyAt(v, a)}
               I == {b[1] : b \in same}
               i == Min(I)
               N == {b[2] : b \in {c \in same : c[1] = i}}
    <2>1. i \in I /\ \A j \in I : i <= j
      <3>1. I \in SUBSET Nat /\ I # {}
        BY <1>1
      <3>. HIDE DEF I
      <3>. QED
        BY <3>1, LeastPlace
    <2>2. PICK c \in same : c[1] = i
      BY <2>1
    <2>. HIDE DEF i
    <2>3. Min(N) \in N /\ \A m \in N : Min(N) <= m
      <3>1. N \in SUBSET Nat /\ N # {}
        BY <1>1, <2>2
      <3>. HIDE DEF N
      <3>. QED
        BY <3>1, LeastPlace
    <2>4. PICK d \in same : d[1] = i /\ d[2] = Min(N)
      BY <2>3
    <2>5. \A b \in same : i <= b[1] /\ (b[1] = i => d[2] <= b[2])
      BY <2>1, <2>3, <2>4
    <2>. HIDE DEF I, N
    <2>6. ASSUME NEW b \in same PROVE ~Sooner(b, d)
      <3>1. b \in P /\ d \in P
        OBVIOUS
      <3>2. b[1] \in Nat /\ b[2] \in Nat /\ d[1] \in Nat /\ d[2] \in Nat
        BY <1>1, <3>1
      <3>3. d[1] <= b[1] /\ (b[1] = d[1] => d[2] <= b[2])
        BY <2>4, <2>5
      <3>. QED
        BY <3>2, <3>3 DEF Sooner
    <2>7. d \in R
      BY <2>6 DEF NewKeys
    <2>. QED
      BY <2>7
  <1>. HIDE DEF P, R, under, below, at, f
  <1>11. Listed(R, below, at, f, RuleKeys(v))
    <2>1. /\ \A a \in R : below[a] \subseteq R /\ a \notin below[a]
          /\ \A a, b \in R : a # b => a \in below[b] \/ b \in below[a]
          /\ \A a, b \in R : a \in below[b] => below[a] \subseteq below[b]
      BY <1>4, <1>5, <1>6
    <2>. QED
      BY <1>3, <1>7, <1>8, <1>9, <2>1 DEF Listed
  <1>12. Range(RuleKeys(v)) = {f[a] : a \in R}
    BY <1>11, Ranked
  <1>13. ASSUME NEW a \in R PROVE f[a] \in KeyNames(v)
    <2>1. /\ a[1] \in 1..n /\ a[2] \in DOMAIN v[a[1]].raw
          /\ v[a[1]].raw[a[2]].key = "key" /\ KeyAt(v, a) # None
      BY <1>1, <1>4
    <2>2. v[a[1]] \in Range(v) /\ v[a[1]].raw[a[2]] \in Range(v[a[1]].raw)
      BY <2>1 DEF Range
    <2>. QED
      BY <1>9, <2>1, <2>2 DEF KeyNames, KeyAt
  <1>14. ASSUME NEW x \in KeyNames(v) PROVE \E a \in R : x = f[a]
    <2>1. PICK r \in Range(v) : \E t \in Range(r.raw) : t.key = "key" /\ x = t.val /\ x # None
      BY DEF KeyNames
    <2>2. PICK i \in 1..n : r = v[i]
      BY DEF Range
    <2>3. PICK m \in DOMAIN v[i].raw : LET t == v[i].raw[m]
                                       IN t.key = "key" /\ x = t.val /\ x # None
      BY <2>1, <2>2 DEF Range
    <2>4. <<i, m>> \in P /\ KeyAt(v, <<i, m>>) = x
      BY <1>2, <2>3
    <2>. QED
      BY <1>9, <1>10, <2>4
  <1>. QED
    BY <1>12, <1>13, <1>14

\* A view of a group is a sequence of sequences.
LEMMA KeysOfView ==
    ASSUME NEW g \in Groups
    PROVE  Range(RuleKeys(View(g))) = KeyNames(View(g))
  <1> DEFINE size == [i \in DOMAIN g |-> Len(g[i].raw)]
  <1>1. DOMAIN View(g) = 1..Len(g) /\ DOMAIN g = 1..Len(g) /\ Len(g) \in Nat
    BY ViewIsGroup
  <1>2. \A i \in DOMAIN g : size[i] \in Nat /\ DOMAIN View(g)[i].raw = 1..size[i]
    <2>. SUFFICES ASSUME NEW i \in DOMAIN g
                  PROVE  size[i] \in Nat /\ DOMAIN View(g)[i].raw = 1..size[i]
      OBVIOUS
    <2>1. View(g)[i].raw = Seen(g, i, g[i].raw)
      BY ViewOfRecord
    <2>2. g[i] \in Record
      BY DEF Groups
    <2>3. Len(g[i].raw) \in Nat /\ DOMAIN g[i].raw = 1..Len(g[i].raw)
      BY <2>2, RecordParts
    <2>. QED
      BY <2>1, <2>3 DEF Seen
  <1>. HIDE DEF size
  <1>. QED
    BY <1>1, <1>2, KeysRange

\* The operation is named from these fields, and from the sets of the keys and paths.
LEMMA ActionOfFields ==
    ASSUME NEW d, NEW e,
           d.type = e.type, d.success = e.success, d.syscall = e.syscall, d.exit = e.exit,
           d.argvSource = e.argvSource, d.seccomp = e.seccomp,
           Range(d.keys) = Range(e.keys), Range(d.paths) = Range(e.paths)
    PROVE  Action(d) = Action(e)
  <1>1. Mutates(d) = Mutates(e)
    BY DEF Mutates
  <1>2. \A rule : Touches(d, rule) = Touches(e, rule)
    BY <1>1 DEF Touches
  <1>3. \A rule : Supported(d, rule) = Supported(e, rule) /\ Matches(d, rule) = Matches(e, rule)
    BY <1>2 DEF Supported, Matches
  <1>4. {n \in DOMAIN Rules : Matches(d, Rules[n])} = {n \in DOMAIN Rules : Matches(e, Rules[n])}
    BY <1>3
  <1>5. RuleAction(d) = RuleAction(e)
    BY <1>3, <1>4 DEF RuleAction
  <1>6. Executes(d) = Executes(e)
    BY DEF Executes
  <1>. QED
    BY <1>5, <1>6 DEF Action

\* Of two groups with the same records the names differ only where the records
\* say two.
LEMMA NamesDiffer ==
    ASSUME NEW g, NEW h, NEW p, Permuted(g, h, p), NEW type,
           TargetName(View(h), type) # TargetName(View(g), type)
    PROVE  Disagree(Range(NamesSaid(View(g))) \ {None})
  <1> DEFINE n == Len(g)
             a == NamesSaid(View(g))
             b == NamesSaid(View(h))
  <1>1. n \in Nat /\ DOMAIN g = 1..n
    BY ViewIsGroup DEF Permuted
  <1>2. DOMAIN a = 1..n /\ DOMAIN b = 1..n /\ \A i \in 1..n : b[i] = a[p[i]]
    <2>1. DOMAIN View(g) = 1..n /\ DOMAIN View(h) = 1..n
          /\ \A i \in 1..n : View(h)[i] = View(g)[p[i]] /\ p[i] \in 1..n
      BY <1>1, SameView DEF Permuted
    <2>. QED
      BY <2>1 DEF NamesSaid
  <1>3. \A i \in 1..n : p[i] \in 1..n /\ p[p[i]] = i
    BY <1>1 DEF Permuted
  <1>. HIDE DEF a, b, n
  <1>4. \A i \in 1..n : a[i] = b[p[i]]
    BY <1>2, <1>3
  <1>5. /\ FirstNonempty(a) = None <=> \A i \in 1..n : a[i] = None
        /\ FirstNonempty(a) # None => \E i \in 1..n : a[i] = FirstNonempty(a)
        /\ FirstNonempty(b) = None <=> \A i \in 1..n : b[i] = None
        /\ FirstNonempty(b) # None => \E i \in 1..n : b[i] = FirstNonempty(b)
    BY <1>1, <1>2, FirstIs DEF n
  <1>6. FirstNonempty(a) # FirstNonempty(b)
    BY DEF TargetName, a, b
  <1>7. FirstNonempty(a) # None /\ FirstNonempty(b) # None
    BY <1>2, <1>3, <1>4, <1>5, <1>6
  <1>8. {FirstNonempty(a), FirstNonempty(b)} \subseteq Range(a) \ {None}
    BY <1>2, <1>3, <1>5, <1>7 DEF Range
  <1>. QED
    BY <1>6, <1>8 DEF Disagree, a

\* But for the order of its keys and paths and for the name of its target, the
\* event is the same.
LEMMA SameEvent ==
    ASSUME NEW g, NEW h, NEW p, Permuted(g, h, p)
    PROVE  /\ Settled(Event(h)) = Settled(Event(g))
           /\ Range(Event(h).paths) = Range(Event(g).paths)
           /\ Range(Event(h).keys) = Range(Event(g).keys)
           /\ Event(h).name # Event(g).name => Disagree(Range(NamesSaid(View(g))) \ {None})
           /\ Action(Event(h)) = Action(Event(g))
  <1> DEFINE login(q) == Login(View(q), EventType(q), Success(q))
             real(q) == Identity(View(q), "UID", "uid")
             user(q) == IF SameIdentity(Effective(View(q)), login(q)) THEN Nobody
                        ELSE Shown(Effective(View(q)))
             other(q) == IF SameIdentity(real(q), login(q)) \/ SameIdentity(real(q), Effective(View(q)))
                         THEN Nobody ELSE Shown(real(q))
             syscall(q) == InterpretedValue(View(q), "SYSCALL")
             number(q) == IF syscall(q) = None THEN FirstRecordValue(View(q), "syscall") ELSE None
             original(q) == Meaningful(FirstNonempty(<<FirstSemantic(View(q), "op"),
                                                       FirstSemantic(View(q), "operation")>>))
             first(q, key) == FirstSemantic(View(q), key)
  <1>1. \A q : Event(q) =
           [type |-> EventType(q), success |-> Success(q), actor |-> Shown(login(q)),
            user |-> user(q), real |-> other(q), pid |-> first(q, "pid"), exe |-> first(q, "exe"),
            exit |-> first(q, "exit"), syscall |-> syscall(q), number |-> number(q),
            argv |-> Argv(q), argvSource |-> ArgvSource(q), command |-> Command(q),
            attribution |-> Attribution(q), originalAction |-> original(q),
            account |-> Meaningful(first(q, "acct")), origin |-> Origin(View(q)),
            security |-> ShownDecision(View(q)), seccomp |-> ShownFilter(View(q)),
            paths |-> Paths(View(q)), keys |-> RuleKeys(View(q)),
            name |-> TargetName(View(q), EventType(q))]
    BY DEF Event
  <1>2. EventType(h) = EventType(g) /\ Success(h) = Success(g) /\ Attribution(h) = Attribution(g)
    BY SameRecords
  <1>3. login(h) = login(g) /\ real(h) = real(g) /\ Effective(View(h)) = Effective(View(g))
    BY <1>2, SameIdentities
  <1>4. user(h) = user(g) /\ other(h) = other(g)
    <2>. HIDE DEF login, real
    <2>. QED
      BY <1>3
  <1>5. \A key \in GroupSingletons : first(h, key) = first(g, key)
    BY SameFirst
  <1>6. {"pid", "exe", "exit", "acct", "op", "operation", "syscall", "SYSCALL"} \subseteq GroupSingletons
    BY DEF GroupSingletons
  <1>7. syscall(h) = syscall(g) /\ number(h) = number(g)
    BY <1>6, SameFirst
  <1>8. original(h) = original(g)
    BY <1>5, <1>6
  <1>9. Range(RuleKeys(View(h))) = Range(RuleKeys(View(g)))
    <2>1. KeyNames(View(h)) = KeyNames(View(g))
      BY SameView DEF KeyNames
    <2>. QED
      BY <2>1, KeysOfView DEF Permuted
  <1>10. /\ first(h, "pid") = first(g, "pid") /\ first(h, "exe") = first(g, "exe")
         /\ first(h, "exit") = first(g, "exit") /\ first(h, "acct") = first(g, "acct")
    BY <1>5, <1>6
  <1>11. /\ Argv(h) = Argv(g) /\ ArgvSource(h) = ArgvSource(g) /\ Command(h) = Command(g)
         /\ Origin(View(h)) = Origin(View(g))
         /\ ShownDecision(View(h)) = ShownDecision(View(g))
         /\ ShownFilter(View(h)) = ShownFilter(View(g))
    BY SameArgv, SameOrigin, SameDecisions
  <1>. HIDE DEF login, real, user, other, syscall, number, original, first
  <1> DEFINE whole(q, paths, keys, name) ==
           [type |-> EventType(q), success |-> Success(q), actor |-> Shown(login(q)),
            user |-> user(q), real |-> other(q), pid |-> first(q, "pid"), exe |-> first(q, "exe"),
            exit |-> first(q, "exit"), syscall |-> syscall(q), number |-> number(q),
            argv |-> Argv(q), argvSource |-> ArgvSource(q), command |-> Command(q),
            attribution |-> Attribution(q), originalAction |-> original(q),
            account |-> Meaningful(first(q, "acct")), origin |-> Origin(View(q)),
            security |-> ShownDecision(View(q)), seccomp |-> ShownFilter(View(q)),
            paths |-> paths, keys |-> keys,
            name |-> name]
  <1>12. \A q : Settled(Event(q)) = whole(q, << >>, << >>, None)
    <2>. TAKE q
    <2> DEFINE paths == Paths(View(q))
               keys == RuleKeys(View(q))
               name == TargetName(View(q), EventType(q))
    <2>1. Event(q) = whole(q, paths, keys, name)
      BY <1>1
    <2>. HIDE DEF paths, keys, name
    <2>2. [whole(q, paths, keys, name) EXCEPT !.paths = << >>] = whole(q, << >>, keys, name)
      OBVIOUS
    <2>3. [whole(q, << >>, keys, name) EXCEPT !.keys = << >>] = whole(q, << >>, << >>, name)
      OBVIOUS
    <2>4. [whole(q, << >>, << >>, name) EXCEPT !.name = None] = whole(q, << >>, << >>, None)
      OBVIOUS
    <2>5. \A e : Settled(e) = [[[e EXCEPT !.paths = << >>] EXCEPT !.keys = << >>] EXCEPT !.name = None]
      BY DEF Settled
    <2>. HIDE DEF whole
    <2>. QED
      BY <2>1, <2>2, <2>3, <2>4, <2>5
  <1>13. Settled(Event(h)) = Settled(Event(g))
    BY <1>2, <1>3, <1>4, <1>7, <1>8, <1>10, <1>11, <1>12, Zenon
  <1>14. Event(h).paths = Paths(View(h)) /\ Event(g).paths = Paths(View(g))
    BY EventFields
  <1>15. Range(Event(h).paths) = Range(Event(g).paths)
    BY <1>14, SamePaths
  <1>16. Event(h).keys = RuleKeys(View(h)) /\ Event(g).keys = RuleKeys(View(g))
    BY EventFields
  <1>17. Range(Event(h).keys) = Range(Event(g).keys)
    BY <1>9, <1>16
  <1>18. Event(h).name # Event(g).name => Disagree(Range(NamesSaid(View(g))) \ {None})
    <2>1. /\ Event(h).name = TargetName(View(h), EventType(g))
          /\ Event(g).name = TargetName(View(g), EventType(g))
      BY <1>2, EventFields
    <2>. QED
      BY <2>1, NamesDiffer
  <1>19. Action(Event(h)) = Action(Event(g))
    <2>1. \A q : LET e == Event(q)
                 IN /\ e.type = EventType(q) /\ e.success = Success(q) /\ e.syscall = syscall(q)
                    /\ e.exit = first(q, "exit") /\ e.argvSource = ArgvSource(q)
                    /\ e.seccomp = ShownFilter(View(q))
      BY <1>1
    <2>. QED
      BY <1>2, <1>7, <1>10, <1>11, <1>15, <1>17, <2>1, ActionOfFields
  <1>. QED
    BY <1>13, <1>15, <1>17, <1>18, <1>19

LEMMA OrderFreeHolds == Published => OrderFree
  <1>. SUFFICES ASSUME Published, NEW i \in 1..(Len(group) - 1), Swappable(i)
                PROVE  LET other == Event(Swapped(i))
                       IN /\ Settled(other) = Settled(event)
                          /\ Range(other.paths) = Range(event.paths)
                          /\ Range(other.keys) = Range(event.keys)
                          /\ other.name # event.name =>
                                Disagree(Range(NamesSaid(View(group))) \ {None})
                          /\ Action(other) = Action(event)
    BY DEF OrderFree
  <1> DEFINE h == Swapped(i)
             p == [n \in DOMAIN group |-> IF n = i THEN i + 1 ELSE IF n = i + 1 THEN i ELSE n]
  <1>1. group \in Groups /\ event = Event(group)
    BY DEF Published
  <1>2. DOMAIN group = 1..Len(group) /\ Len(group) \in Nat /\ group \in Seq(Record)
    BY <1>1, ViewIsGroup DEF Groups
  <1>3. i \in DOMAIN group /\ i + 1 \in DOMAIN group /\ i \in Nat /\ i + 1 # i
    BY <1>2
  <1>4. p \in [DOMAIN group -> DOMAIN group] /\ \A n \in DOMAIN group : p[p[n]] = n
    BY <1>3
  <1>5. /\ DOMAIN h = DOMAIN group
        /\ h[i] = group[i + 1] /\ h[i + 1] = group[i]
        /\ \A n \in DOMAIN group : n # i /\ n # i + 1 => h[n] = group[n]
    BY <1>3 DEF Swapped
  <1>6. h \in Groups
    <2>1. \A n \in 1..Len(group) : group[n] \in Record
      BY <1>2
    <2>2. h \in [1..Len(group) -> Record]
      BY <1>2, <1>3, <2>1 DEF Swapped
    <2>. HIDE DEF h
    <2>3. h \in Seq(Record) /\ DOMAIN h # {}
      BY <1>2, <1>3, <1>5, <2>2
    <2>. QED
      BY <2>3 DEF Groups
  <1>7. \A n \in DOMAIN group : h[n] = group[p[n]]
    <2>. HIDE DEF h
    <2>. QED
      BY <1>3, <1>5
  <1>8. \A n \in DOMAIN group : group[n].type \in Single \cup {"PROCTITLE"} => p[n] = n
    <2>1. /\ group[i].type \notin Single \cup {"PROCTITLE"}
          /\ group[i + 1].type \notin Single \cup {"PROCTITLE"}
      BY DEF Swappable
    <2>. QED
      BY <1>3, <2>1
  <1>. HIDE DEF h, p
  <1>9. Permuted(group, h, p)
    BY <1>1, <1>4, <1>5, <1>6, <1>7, <1>8 DEF Permuted
  <1>10. /\ Settled(Event(h)) = Settled(event)
         /\ Range(Event(h).paths) = Range(event.paths)
         /\ Range(Event(h).keys) = Range(event.keys)
         /\ Event(h).name # event.name => Disagree(Range(NamesSaid(View(group))) \ {None})
         /\ Action(Event(h)) = Action(event)
    BY <1>1, <1>9, SameEvent
  <1>. QED
    BY <1>10, Zenon DEF h

-----------------------------------------------------------------------------
(* The theorems.                                                           *)

\* A published pid, exe, exit, account, command, identity or syscall is
\* contradicted by no token of the group, and what is withheld is kept in the
\* issues (markSingletonConflicts, recordIdentity, buildCanonicalProcess).
THEOREM ValuesUnanimous == Spec => []Unanimous
  BY PublishedInv, UnanimousHolds, PTL

\* Records of one group that arrive in another order yield the same operation
\* and the same event, but for the order of its rule keys and its paths, and
\* for the name of the target where two records give different ones
\* (preferredSecurityRecordType, canonicalSuccess, buildCanonicalSecurity,
\* buildArguments; BuildCanonicalEvent and buildCanonicalTarget for the rest).
THEOREM ArrivalIrrelevant == Spec => []OrderFree
  BY PublishedInv, OrderFreeHolds, PTL

\* Every security token is the published value or is in the issues
\* (buildCanonicalSecurity, buildCanonicalSeccomp, markSingletonConflicts).
THEOREM NoEvidenceLost == Spec => []EvidenceKept
  BY PublishedInv, EvidenceKeptHolds, PTL

\* Decision, subject, target and mode are of one record, and an origin is an
\* address that a userspace producer reported (buildCanonicalSecurityRecord,
\* buildCanonicalOrigin).
THEOREM OneRecordDecides == Spec => []NothingBorrowed
  BY PublishedInv, NothingBorrowedHolds, PTL

\* The message claims an outcome only from results that were read and agree,
\* and an execution or another operation only on evidence that is not a rule
\* key (canonicalSuccess, classifyCanonicalEvent, renderProcessMessage).
THEOREM ClaimsHaveEvidence == Spec => []ClaimsOnEvidence
  BY PublishedInv, ClaimsHold, PTL

\* A LOGIN transition is published when its tokens agree and kept in the issues
\* otherwise, and only a successful LOGIN names the actor
\* (buildAuditAttribution, BuildCanonicalEvent).
THEOREM TransitionsFaithful == Spec => []TransitionFaithful
  BY PublishedInv, TransitionHolds, PTL

\* An argument vector is published when, and only when, the EXECVE tokens of
\* the group encode it (buildArguments, execArgument.decode).
THEOREM VectorsExact == Spec => []ArgvExact
  BY PublishedInv, ArgvExactHolds, PTL

=============================================================================
