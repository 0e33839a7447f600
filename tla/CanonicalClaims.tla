-------------------------- MODULE CanonicalClaims --------------------------
(***************************************************************************)
(* What the published event may say, stated on the tokens of the group.    *)
(***************************************************************************)
EXTENDS Canonical

\* Everything any record says of a key, and the places that say it.
Places(key) == {a \in Tokens(group) : /\ TypeAt(group, a) # "EXECVE"
                                      /\ key = "cmd" => TypeAt(group, a) = "USER_CMD"
                                      /\ At(group, a).key = key}
SaidAt(places) == {Decoded(At(group, a).val) : a \in places}
Agreed(keys) == \A k \in keys : ~Disagree(SaidAt(Places(k)))

(* A value that process and identity fields publish is one that no token   *)
(* of the group contradicts, in whatever record, section or spelling, and  *)
(* what is withheld for a contradiction is kept in the issues              *)
(* (markSingletonConflicts, recordIdentity, buildCanonicalProcess).        *)
Unanimous ==
    /\ event.pid # None => Agreed({"pid"})
    /\ event.exe # None => Agreed({"exe"})
    /\ event.exit # None => Agreed({"exit"})
    /\ event.account # None => Agreed({"acct"})
    /\ event.command # None => Agreed({"cmd"})
    /\ event.actor # Nobody => Agreed({"auid", "AUID"})
    /\ event.real # Nobody => Agreed({"uid", "UID"})
    /\ event.user # Nobody => Agreed({"euid", "EUID"}) \/ Agreed({"uid", "UID"})
    /\ {event.syscall, event.number} # {None} => Agreed({"syscall", "SYSCALL"})
    /\ \A key \in GroupSingletons \cup {"cmd"} : Agreed({key}) \/ Places(key) \subseteq issues

Swapped(i) == [group EXCEPT ![i] = group[i + 1], ![i + 1] = group[i]]
TypeIndex(type) == CHOOSE n \in DOMAIN TypeOrder : TypeOrder[n] = type
Swappable(i) ==
    /\ (Single \cup {"PROCTITLE"}) \cap {group[i].type, group[i + 1].type} = {}
    /\ TypeIndex(group[i].type) <= TypeIndex(group[i + 1].type)

\* What order of arrival does not decide.
Settled(e) == [e EXCEPT !.paths = << >>, !.keys = << >>, !.name = None]

(* The order in which correlated records arrive decides no field of the    *)
(* event but three, and not which operation is named                       *)
(* (preferredSecurityRecordType, canonicalSuccess, buildCanonicalSecurity; *)
(* security_evidence_test.go:31).  Rule keys are listed as they first      *)
(* occur (docs/schema.md:225) and paths without an item as they come: only *)
(* their sets are fixed.  The name of the target is that of the first      *)
(* record, and may differ only where two records name it differently.  A   *)
(* record that closes the group is its last, and of two groups that differ *)
(* by a swap one is looked at.                                             *)
OrderFree ==
    \A i \in 1..(Len(group) - 1) : Swappable(i) =>
        LET other == Event(Swapped(i))
        IN /\ Settled(other) = Settled(event)
           /\ Range(other.paths) = Range(event.paths)
           /\ Range(other.keys) = Range(event.keys)
           /\ other.name # event.name => Disagree(Range(NamesSaid(View(group))) \ {None})
           /\ Action(other) = Action(event)

\* The published fields that a token of a security record can appear in.
ShownUnder(key) ==
    CASE key \in {"decision", "apparmor"} -> event.security.decision
      [] key \in {"scontext", "subj"}     -> event.security.subject
      [] key = "tcontext"                 -> event.security.target
      [] key = "permissive"               -> event.security.permissive
      [] key \in FilterKeys               -> event.seccomp[key]

\* A mode is published as a boolean, anything else as it stands.
ShownAs(key, val) == IF key = "permissive" THEN Mode(val) ELSE val

\* A filter is read from the raw section; a mode that is none is ignored.
Evidential(a) ==
    LET key == At(group, a).key
        val == Decoded(At(group, a).val)
    IN /\ Meaningful(val) # None
       /\ \/ TypeAt(group, a) = "SECCOMP" /\ key \in FilterKeys /\ a[2] = "raw"
          \/ /\ TypeAt(group, a) \in (AccessControl \cup Integrity) \ {"SECCOMP"}
             /\ key \in SecurityKeys \ {"permissions"}
             /\ ShownAs(key, val) # None

(* No evidence of a security record is lost: each of its tokens is the     *)
(* published value or is kept in an issue (buildCanonicalSecurity,         *)
(* buildCanonicalSeccomp, markSingletonConflicts).                         *)
EvidenceKept ==
    \A a \in Tokens(group) :
        TypeAt(group, a) # "EXECVE" /\ Evidential(a) =>
            \/ a \in issues
            \/ ShownUnder(At(group, a).key) = ShownAs(At(group, a).key, At(group, a).val)

(* Subject, target, decision and mode come from one record, and an address *)
(* from a userspace producer, never from an instruction pointer            *)
(* (buildCanonicalSecurityRecord, buildCanonicalOrigin).  The name of a    *)
(* target, which any record may give, is not spoken of.                    *)
NothingBorrowed ==
    /\ \E i \in DOMAIN group :
          \A key \in {"decision", "scontext", "tcontext", "permissive"} :
             ShownUnder(key) \in {None} \cup {ShownAs(key, val) : val \in
                 UNION {Said(group[i], k) : k \in
                     {key} \cup UNION {pair \in Synonyms : key \in pair}}}
    /\ event.origin # None =>
          \E a \in Tokens(group) : /\ TypeAt(group, a) \in Producers
                                   /\ At(group, a) \in {Token("addr", event.origin),
                                                        Token("ip", event.origin)}

(* What the message says of the outcome rests on results that were read    *)
(* and not contradicted in the record type that decides, never on the      *)
(* syscall of a LOGIN; an execution is claimed only of an execution        *)
(* (canonicalSuccess, classifyCanonicalEvent, renderProcessMessage).  A    *)
(* rule key says what was to be collected, never what was done: a named    *)
(* operation is named without the keys as well                             *)
(* (classificationOperationSupported).                                     *)
ClaimsOnEvidence ==
    LET own == Readings(group, event.type)
        result == CASE Claim(event) = "done" -> {"yes"} [] Claim(event) = "failed" -> {"no"}
                    [] OTHER -> own
    IN /\ Claim(event) \in {"done", "failed"} =>
             /\ own \subseteq result
             /\ \E type \in Types(group) : Readings(group, type) = result
             /\ event.type = "LOGIN" => own # {}
       /\ Action(event) = "execute" =>
             "EXECVE" \in Types(group) \/ SaidAt(Places("SYSCALL")) = {"execve"}
       /\ Action(event) \notin {"access", "observe_activity"} =>
             Action([event EXCEPT !.keys = << >>]) = Action(event)
       /\ event.success = None /\ own # {} =>
             TypedTokens(group, event.type, ResultKeys) \subseteq issues

(* A LOGIN transition is published when every LOGIN token of a field says  *)
(* the same, otherwise it is kept in the issues; the requested identity    *)
(* becomes the actor only by LOGIN's own success (buildAuditAttribution,   *)
(* BuildCanonicalEvent).                                                   *)
TransitionFaithful ==
    LET login(key) == {At(group, a).val : a \in TypedTokens(group, "LOGIN", {key})}
        old == event.attribution.old
        new == event.attribution.new
    IN /\ \/ TypedTokens(group, "LOGIN", Attributes) \subseteq issues
          \/ /\ login("auid") \subseteq {new.uid} /\ login("old-auid") \subseteq {old.uid}
             /\ login("ses") \subseteq {new.session}
             /\ \A side \in {old, new} : side.unset => side.user = None
       /\ event.type = "LOGIN" /\ event.actor # Nobody =>
             Readings(group, "LOGIN") = {"yes"}

(* An argument vector is published when, and only when, the EXECVE tokens  *)
(* of the group encode it (buildArguments, execArgument.decode).           *)
ArgvExact ==
    "EXECVE" \in Types(group) =>
        /\ event.argv # NoVector => Encodes(ExecveTokens(group), event.argv)
        /\ \A v \in Vectors : Encodes(ExecveTokens(group), v) => event.argv = v

(* docs/schema.md:215-218: distinct values of a repeated singleton         *)
(* withhold the canonical field.  Stated for the synonyms of one record,   *)
(* which markSingletonConflicts compares by their last values.             *)
SynonymsUnanimous ==
    event.security.decision # None =>
        \E r \in Range(group) : Said(r, "decision") \cup Said(r, "apparmor")
                                    = {event.security.decision}

=============================================================================
