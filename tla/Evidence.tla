------------------------------ MODULE Evidence ------------------------------
(***************************************************************************)
(* What a group of correlated records says of one field (internal/audit    *)
(* decoding.go, conflicts.go, results.go, and the selections of parser.go  *)
(* and canonical.go).  A group is a sequence of records, a record a type,  *)
(* its raw tokens and the tokens of the payload embedded in its msg, each  *)
(* in order of appearance.  A token of an EXECVE record is one of          *)
(* Arguments, any other a key and a value.                                 *)
(*                                                                         *)
(* A value stands for the text after decoding; "garbled" is a value whose  *)
(* bytes are not valid text.  The field read is "" when there is none.     *)
(***************************************************************************)
EXTENDS Arguments

CONSTANTS
    TypeOrder,   \* the record types that occur, in lexical order
    Decimals     \* the values that are decimal numbers

Token(key, val) == [key |-> key, val |-> val]
None == ""

-----------------------------------------------------------------------------
(* Decoded values and selections.                                          *)

Decoded(val) == IF val = "garbled" THEN None ELSE val

Section == {"raw", "embedded"}
AllOf(r) == r.raw \o r.embedded
Said(r, key) == {Decoded(t.val) : t \in {u \in Range(AllOf(r)) : u.key = key}}
LastSaid(r, key) ==
    LET tokens == AllOf(r)
    IN Decoded(tokens[Max({n \in DOMAIN tokens : tokens[n].key = key})].val)
SaidOfAny(g, key) == UNION {Said(r, key) : r \in Range(g)}

FirstNonempty(values) ==
    LET full == {n \in DOMAIN values : values[n] # None}
    IN IF full = {} THEN None ELSE values[Min(full)]

Disagree(values) == \E a, b \in values : a # b

-----------------------------------------------------------------------------
(* Conflicts between tokens that should say the same.                      *)

GroupSingletons ==
    {"auid", "AUID", "uid", "UID", "euid", "EUID", "pid", "exe", "exit",
     "syscall", "SYSCALL", "acct", "addr", "op", "operation"}
Singletons == GroupSingletons \cup
    {"name", "item", "nametype", "ouid", "OUID", "decision", "apparmor",
     "scontext", "subj", "tcontext", "permissive", "code", "sig", "ip"}

\* Two spellings of one field, of which one may stand for the other.
Synonyms == {{"decision", "apparmor"}, {"scontext", "subj"}, {"op", "operation"}}
\* A raw and an interpreted spelling.
Aliases == {{"auid", "AUID"}, {"uid", "UID"}, {"euid", "EUID"},
            {"ouid", "OUID"}, {"syscall", "SYSCALL"}}
SpelledAs(key) == {key} \cup UNION {a \in Aliases : key \in a}

\* Synonyms are compared by the last value of each.
SynonymsDiffer(r, key) ==
    \E pair \in Synonyms :
        /\ key \in pair
        /\ \A k \in pair : Said(r, k) # {}
        /\ Disagree({LastSaid(r, k) : k \in pair})
RecordDiffers(r, key) ==
    \/ key \in Singletons /\ Disagree(Said(r, key))
    \/ SynonymsDiffer(r, key)
GroupDiffers(g, key) == key \in GroupSingletons /\ Disagree(SaidOfAny(g, key))

\* Mutant of Conflicting: only the tokens of one record are compared.
ConflictingInRecord(g, i, key) == \E k \in SpelledAs(key) : RecordDiffers(g[i], k)

\* record.Conflicts
Conflicting(g, i, key) ==
    \E k \in SpelledAs(key) : RecordDiffers(g[i], k) \/ GroupDiffers(g, k)

\* The semantic view of the records: no value where the text is unreadable
\* or in conflict.
Seen(g, i, tokens) ==
    [n \in DOMAIN tokens |->
        IF g[i].type = "EXECVE" THEN tokens[n]
        ELSE Token(tokens[n].key, IF Conflicting(g, i, tokens[n].key) THEN None
                                  ELSE Decoded(tokens[n].val))]
View(g) == [i \in DOMAIN g |-> [type |-> g[i].type, raw |-> Seen(g, i, g[i].raw),
                                embedded |-> Seen(g, i, g[i].embedded)]]

\* Selections, from a record and from a sequence of records of a view.
FirstOf(tokens, key) ==
    FirstNonempty([n \in DOMAIN tokens |->
                      IF tokens[n].key = key THEN tokens[n].val ELSE None])
RecordValue(r, key) == FirstOf(r.raw, key)
SemanticValue(r, key) == FirstOf(AllOf(r), key)
FirstRecordValue(v, key) == FirstNonempty([i \in DOMAIN v |-> RecordValue(v[i], key)])
FirstSemantic(v, key) == FirstNonempty([i \in DOMAIN v |-> SemanticValue(v[i], key)])

Meaningful(val) == IF val \in {"?", "unset", "(none)", "unknown"} THEN None ELSE val
Interpreted(val) == IF val \in {"unset"} \cup Decimals THEN None ELSE val
InterpretedValue(v, key) ==
    FirstNonempty([i \in DOMAIN v |-> Interpreted(RecordValue(v[i], key))])

-----------------------------------------------------------------------------
(* Record types.                                                           *)

Types(g) == {g[i].type : i \in DOMAIN g}
Earliest(types) ==
    TypeOrder[Min({n \in DOMAIN TypeOrder : TypeOrder[n] \in types})]

\* data/security_event_families.json, as far as the instances go.
AccessControl == {"AVC", "USER_AVC", "MAC_POLICY_LOAD", "SECCOMP"}
Integrity == {"ANOM_ABEND", "INTEGRITY_DATA"}
Producers == {"USER_AUTH", "USER_AVC", "USER_CMD"}
Mapped == AccessControl \cup Integrity \cup Producers
              \cup {"LOGIN", "CONFIG_CHANGE", "BPRM_FCAPS", "KERN_MODULE"}
Rank(type) == IF type \in AccessControl THEN 0 ELSE IF type \in Integrity THEN 1 ELSE 2
Context == {"CWD", "EXECVE", "PATH", "PROCTITLE", "SOCKADDR"}

\* preferredSecurityRecordType, and primaryRecordType without one.
Preferred(types) ==
    Earliest({t \in types : \A u \in types : Rank(t) <= Rank(u)})
Primary(types) ==
    IF "SYSCALL" \in types THEN "SYSCALL"
    ELSE Earliest(IF types \subseteq Context THEN types ELSE types \ Context)
EventType(g) ==
    IF Types(g) \cap Mapped # {} THEN Preferred(Types(g) \cap Mapped)
    ELSE Primary(Types(g))

-----------------------------------------------------------------------------
(* The result of the action.                                               *)

KernelBoolean == {"LOGIN", "CONFIG_CHANGE", "MAC_POLICY_LOAD"}
Reading(type, val) ==
    CASE val = "yes" \/ (val = "1" /\ type \in KernelBoolean) -> "yes"
      [] val = "no" \/ (val = "0" /\ type \in KernelBoolean)  -> "no"
      [] OTHER                                                -> "unknown"

ResultKeys == {"success", "res"}
ResultTokens(r) == {t \in Range(AllOf(r)) : t.key \in ResultKeys}
Readings(g, type) ==
    {Reading(type, t.val) : t \in
        UNION {ResultTokens(r) : r \in {q \in Range(g) : q.type = type}}}

Speaking(g) == {t \in Types(g) : Readings(g, t) # {}}
\* The type whose tokens decide, and no type when there are none: that of
\* the event, SYSCALL, any other; a LOGIN speaks for itself alone.
\* Mutant of Decider: a LOGIN borrows the result of its syscall.
DeciderBorrowing(g) ==
    LET type == EventType(g)
        heard == Speaking(g)
    IN CASE heard = {}           -> None
         [] type \in heard       -> type
         [] OTHER -> IF "SYSCALL" \in heard THEN "SYSCALL" ELSE Earliest(heard)
Decider(g) ==
    LET type == EventType(g)
        heard == IF type = "LOGIN" THEN Speaking(g) \cap {type} ELSE Speaking(g)
    IN CASE heard = {}           -> None
         [] type \in heard       -> type
         [] OTHER -> IF "SYSCALL" \in heard THEN "SYSCALL" ELSE Earliest(heard)

\* event.success: "yes", "no", or not published.
Success(g) ==
    IF Decider(g) # None /\ Readings(g, Decider(g)) \in {{"yes"}, {"no"}}
    THEN CHOOSE s \in Readings(g, Decider(g)) : TRUE
    ELSE None

=============================================================================
