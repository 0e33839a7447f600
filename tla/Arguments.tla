----------------------------- MODULE Arguments -----------------------------
(***************************************************************************)
(* The argument vector of a group: buildArguments of internal/audit/       *)
(* argv.go.  An EXECVE token is argc, a whole argument aN, the announced   *)
(* length aN_len of a split argument, or its fragment aN[M]; the tokens of *)
(* one vector may be spread over several EXECVE records, in any order.     *)
(*                                                                         *)
(* The bytes of a token are a short sequence of letters.  "head" and       *)
(* "tail" are the two halves of a character that a fragment may be cut in, *)
(* "odd" stands for a token that is neither quoted nor hex.  A length      *)
(* counts letters; num is -1 when a number does not parse.                 *)
(***************************************************************************)
EXTENDS Integers, Sequences, FiniteSets, FiniteSetsExt, SequencesExt

Argc(n) == [key |-> "argc", arg |-> 0, frag |-> 0, num |-> n, bytes |-> << >>]
Whole(i, b) == [key |-> "whole", arg |-> i, frag |-> 0, num |-> 0, bytes |-> b]
Length(i, n) == [key |-> "length", arg |-> i, frag |-> 0, num |-> n, bytes |-> << >>]
Fragment(i, m, b) == [key |-> "fragment", arg |-> i, frag |-> m, num |-> 0, bytes |-> b]
ExecKeys == {"argc", "whole", "length", "fragment"}

IsExecToken(t) ==
    /\ t.arg \in Nat /\ t.frag \in Nat /\ t.num \in Int /\ t.bytes \in Seq(STRING)
    /\ t \in {Argc(t.num), Whole(t.arg, t.bytes), Length(t.arg, t.num),
              Fragment(t.arg, t.frag, t.bytes)}

NoVector == << << "withheld" >> >>

\* utf8.ValidString and hex.DecodeString, as far as whole letters go.
ValidText(b) == \A i \in 1..(Len(b) + 1) :
                   (i <= Len(b) /\ b[i] = "tail") <=> (i > 1 /\ b[i - 1] = "head")
Decodes(b) == "odd" \notin Range(b)

\* Where the tokens of one kind that belong to an argument stand.
Of(tokens, key, i) == {n \in DOMAIN tokens : tokens[n].key = key /\ tokens[n].arg = i}
Differ(tokens, places) == \E m, n \in places : tokens[m] # tokens[n]
LastAt(tokens, places) == tokens[Max(places)]
Indexes(tokens) == {t.arg : t \in {u \in Range(tokens) : u.key # "argc"}}
Parts(tokens, i) == {tokens[n].frag : n \in Of(tokens, "fragment", i)}

\* The last fragment with a number is the one that is kept.
Numbered(tokens, i, m) == {n \in Of(tokens, "fragment", i) : tokens[n].frag = m}
Part(tokens, i, m) == LastAt(tokens, Numbered(tokens, i, m)).bytes
Joined(tokens, i) ==
    FlattenSeq([m \in 1..Cardinality(Parts(tokens, i)) |-> Part(tokens, i, m - 1)])

\* execArgument.decode, for an argument that is whole and one that is split.
WholeDecodes(tokens, i) ==
    /\ Of(tokens, "whole", i) # {}
    /\ Of(tokens, "fragment", i) = {} /\ Of(tokens, "length", i) = {}
    /\ Decodes(LastAt(tokens, Of(tokens, "whole", i)).bytes)
\* Mutant of SplitDecodes: the announced length is not compared.
SplitUnmeasured(tokens, i) ==
    /\ Of(tokens, "whole", i) = {} /\ Of(tokens, "fragment", i) # {}
    /\ Parts(tokens, i) = 0..(Cardinality(Parts(tokens, i)) - 1)
    /\ Decodes(Joined(tokens, i))
SplitDecodes(tokens, i) ==
    /\ Of(tokens, "whole", i) = {}
    /\ Of(tokens, "fragment", i) # {} /\ Of(tokens, "length", i) # {}
    /\ Parts(tokens, i) = 0..(Cardinality(Parts(tokens, i)) - 1)
    /\ Decodes(Joined(tokens, i))
    /\ Len(Joined(tokens, i)) = LastAt(tokens, Of(tokens, "length", i)).num
Value(tokens, i) == IF Of(tokens, "whole", i) # {}
                    THEN LastAt(tokens, Of(tokens, "whole", i)).bytes
                    ELSE Joined(tokens, i)

\* No argument, length or fragment is given twice with different content.
NoContradiction(tokens) ==
    /\ \A t \in Range(tokens) : t.num >= 0
    /\ \A i \in Indexes(tokens) :
          /\ ~Differ(tokens, Of(tokens, "whole", i))
          /\ ~Differ(tokens, Of(tokens, "length", i))
          /\ \A m \in Parts(tokens, i) : ~Differ(tokens, Numbered(tokens, i, m))

Counted(tokens) ==
    LET counts == {n \in DOMAIN tokens : tokens[n].key = "argc"}
    IN /\ counts # {} /\ ~Differ(tokens, counts)
       /\ LastAt(tokens, counts).num = Cardinality(Indexes(tokens))

\* The vector, or nothing at all when any part of it is in doubt.
Vector(tokens) ==
    IF /\ Counted(tokens) /\ NoContradiction(tokens)
       /\ Indexes(tokens) = 0..(Cardinality(Indexes(tokens)) - 1)
       /\ \A i \in Indexes(tokens) :
             /\ WholeDecodes(tokens, i) \/ SplitDecodes(tokens, i)
             /\ ValidText(Value(tokens, i))
    THEN [n \in 1..Cardinality(Indexes(tokens)) |-> Value(tokens, n - 1)]
    ELSE NoVector

-----------------------------------------------------------------------------
(* What the kernel writes for a vector: argc, and each argument either     *)
(* whole or as its length and its fragments.                               *)

Given(tokens, key, i) == {t \in Range(tokens) : t.key = key /\ t.arg = i}

EncodesArgument(tokens, i, b) ==
    \/ /\ Given(tokens, "whole", i) = {Whole(i, b)}
       /\ Given(tokens, "fragment", i) \cup Given(tokens, "length", i) = {}
    \/ /\ Given(tokens, "whole", i) = {}
       /\ Given(tokens, "length", i) = {Length(i, Len(b))}
       /\ \E cut \in [1..Cardinality(Given(tokens, "fragment", i)) ->
                         {t.bytes : t \in Given(tokens, "fragment", i)}] :
             /\ DOMAIN cut # {} /\ FlattenSeq(cut) = b
             /\ Given(tokens, "fragment", i) = {Fragment(i, m - 1, cut[m]) : m \in DOMAIN cut}

Encodes(tokens, v) ==
    /\ {t \in Range(tokens) : t.key = "argc"} = {Argc(Len(v))}
    /\ Indexes(tokens) = 0..(Len(v) - 1)
    /\ \A n \in 1..Len(v) : /\ Decodes(v[n]) /\ ValidText(v[n])
                            /\ EncodesArgument(tokens, n - 1, v[n])

=============================================================================
