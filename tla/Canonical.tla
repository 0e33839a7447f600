----------------------------- MODULE Canonical -----------------------------
(***************************************************************************)
(* BuildCanonicalEvent of internal/audit/canonical.go, with classify.go,   *)
(* login.go, security_evidence.go, seccomp.go, user_command.go and what    *)
(* render.go claims: the event that is published for a group of correlated *)
(* records, as a function of the group.  The group arrives one token at a  *)
(* time, records in any order; every prefix is a group that a timeout or a *)
(* shutdown may close.                                                     *)
(*                                                                         *)
(* A theme names the record types of an instance, the tokens each may      *)
(* carry, and bounds on records and tokens.                                *)
(***************************************************************************)
EXTENDS Evidence

CONSTANTS
    Themes,   \* [records, tokens : Nat, carries : type -> section -> tokens]
    Vectors   \* argument vectors to look for

ASSUME CanonicalAssumption ==
    /\ TypeOrder \in Seq(STRING) /\ IsInjective(TypeOrder)
    /\ \A t \in Themes :
          /\ DOMAIN t.carries \subseteq Range(TypeOrder)
          /\ \A type \in DOMAIN t.carries, s \in Section :
                \A token \in t.carries[type][s] :
                    IF type = "EXECVE" THEN IsExecToken(token)
                    ELSE token \in [key : STRING, val : STRING]
    /\ Vectors \subseteq Seq(Seq(STRING))

-----------------------------------------------------------------------------
(* Tokens, and the places where they stand.                                *)

Tokens(g) ==
    UNION {{<<i, s, n>> : n \in DOMAIN g[i][s]} : i \in DOMAIN g, s \in Section}
At(g, a) == g[a[1]][a[2]][a[3]]
TypeAt(g, a) == g[a[1]].type
TypedTokens(g, type, keys) ==
    {a \in Tokens(g) : TypeAt(g, a) = type /\ At(g, a).key \in keys}

-----------------------------------------------------------------------------
(* Identities, of a view v of the group.                                   *)

Nobody == [name |-> None, id |-> None]
Unset == {"-1", "unset"}
Identity(v, name, id) ==
    [name |-> InterpretedValue(v, name), id |-> FirstRecordValue(v, id)]
SameIdentity(a, b) ==
    /\ a # Nobody /\ b # Nobody
    /\ IF a.id # None /\ b.id # None THEN a.id = b.id ELSE a.name # None /\ a.name = b.name
Shown(a) == IF a.name # None THEN [a EXCEPT !.id = None] ELSE a

Login(v, type, success) ==
    IF \/ FirstRecordValue(v, "auid") \in Unset \/ FirstRecordValue(v, "AUID") = "unset"
       \/ type = "LOGIN" /\ success # "yes"
    THEN Nobody ELSE Identity(v, "AUID", "auid")
Effective(v) ==
    LET own == Identity(v, "EUID", "euid")
    IN IF own = Nobody THEN Identity(v, "UID", "uid") ELSE own

-----------------------------------------------------------------------------
(* Argument vectors, process titles and commands.                          *)

ExecveTokens(g) ==
    LET upTo[n \in 0..Len(g)] ==
            IF n = 0 THEN << >>
            ELSE upTo[n - 1] \o (IF g[n].type = "EXECVE" THEN g[n].raw ELSE << >>)
    IN upTo[Len(g)]
Titles(g) == TypedTokens(g, "PROCTITLE", {"proctitle"})
FirstTitle(g) == CHOOSE a \in Titles(g) : \A b \in Titles(g) :
                    a[1] < b[1] \/ (a[1] = b[1] /\ a[3] <= b[3])

ArgvSource(g) == IF "EXECVE" \in Types(g) THEN "execve"
                 ELSE IF Titles(g) # {} THEN "proctitle" ELSE None
Argv(g) ==
    CASE ArgvSource(g) = "execve" -> Vector(ExecveTokens(g))
      [] ArgvSource(g) = "proctitle" /\ At(g, FirstTitle(g)).val \notin {"garbled", "odd"} ->
             << <<At(g, FirstTitle(g)).val>> >>
      [] OTHER -> NoVector

\* The text of a USER_CMD, which is not an argument vector.
Commands(g) == {At(g, a).val : a \in TypedTokens(g, "USER_CMD", {"cmd"})}
CommandValid(g) == Commands(g) \cap {"garbled", "odd"} = {} /\ ~Disagree(Commands(g))
Command(g) == IF Commands(g) # {} /\ CommandValid(g) THEN CHOOSE c \in Commands(g) : TRUE
              ELSE None

-----------------------------------------------------------------------------
(* LOGIN attribution: loginuid and session, before and after.              *)

Attributes == {"old-auid", "OLD-AUID", "old-ses", "auid", "AUID", "ses"}
AttributeValues(g, key) ==
    {t.val : t \in {u \in UNION {Range(AllOf(r)) : r \in {q \in Range(g) : q.type = "LOGIN"}} :
                       u.key = key}}
Attribute(g, key) == LET own == AttributeValues(g, key)
                     IN IF own = {} THEN None ELSE CHOOSE val \in own : TRUE

\* attributionIdentity; session names are left out.
Side(uid, user, session) ==
    [uid |-> uid, session |-> session, unset |-> uid \in Unset \/ user = "unset",
     user |-> Interpreted(user)]
SideValid(uid, user, session) ==
    /\ {uid, session} \subseteq {None} \cup Unset \cup Decimals
    /\ user = "unset" => uid \in {None} \cup Unset
    /\ user \notin {None, "unset"} =>
          uid \notin Unset /\ (user \in Decimals => user = uid)

Sides == [old |-> <<"old-auid", "OLD-AUID", "old-ses">>, new |-> <<"auid", "AUID", "ses">>]
\* Mutant of AttributionValid: a repeated token may differ.
AttributionRead(g) ==
    /\ \A k \in Attributes : AttributeValues(g, k) \cap {None, "garbled"} = {}
    /\ \A keys \in Range(Sides) :
          SideValid(Attribute(g, keys[1]), Attribute(g, keys[2]), Attribute(g, keys[3]))
AttributionValid(g) ==
    /\ \A k \in Attributes : /\ ~Disagree(AttributeValues(g, k))
                             /\ AttributeValues(g, k) \cap {None, "garbled"} = {}
    /\ \A keys \in Range(Sides) :
          SideValid(Attribute(g, keys[1]), Attribute(g, keys[2]), Attribute(g, keys[3]))
Attribution(g) ==
    [s \in {"old", "new"} |->
        IF AttributionValid(g)
        THEN Side(Attribute(g, Sides[s][1]), Attribute(g, Sides[s][2]), Attribute(g, Sides[s][3]))
        ELSE Side(None, None, None)]

-----------------------------------------------------------------------------
(* Security decisions, seccomp filters and origins.                        *)

SecurityKeys == {"decision", "apparmor", "scontext", "subj", "tcontext", "permissions",
                 "permissive"}

\* The boolean that is published of a mode, or nothing.
Mode(val) == CASE val \in {"1", "yes", "true"} -> "1"
               [] val \in {"0", "no", "false"} -> "0"
               [] OTHER                        -> None

\* buildCanonicalSecurityRecord; target class and profile go like the target
\* context, and the list of permissions is kept as one value.
Decision(r) ==
    LET either(a, b) == Meaningful(FirstNonempty(<<SemanticValue(r, a), SemanticValue(r, b)>>))
    IN [decision    |-> either("decision", "apparmor"),
        subject     |-> either("scontext", "subj"),
        target      |-> Meaningful(SemanticValue(r, "tcontext")),
        permissions |-> Meaningful(SemanticValue(r, "permissions")),
        permissive  |-> Mode(SemanticValue(r, "permissive"))]
NoDecision == [f \in {"decision", "subject", "target", "permissions", "permissive"} |-> None]

Decisive(v) ==
    {i \in DOMAIN v : /\ v[i].type \in (AccessControl \cup Integrity) \ {"SECCOMP"}
                      /\ Decision(v[i]) # NoDecision}

\* The decision shown: by rank, by type, then by its own fields.
\* Mutants of ShownDecision: the record that arrived first; a subject from
\* any record.
ShownArrival(v) == IF Decisive(v) = {} THEN NoDecision ELSE Decision(v[Min(Decisive(v))])
ShownMerged(v) ==
    IF Decisive(v) = {} THEN NoDecision
    ELSE [Decision(v[Max(Decisive(v))]) EXCEPT !.subject = FirstSemantic(v, "subj")]
ShownDecision(v) ==
    IF Decisive(v) = {} THEN NoDecision
    ELSE LET type == Preferred({v[i].type : i \in Decisive(v)})
         IN CHOOSE d \in {Decision(v[i]) : i \in {j \in Decisive(v) : v[j].type = type}} : TRUE
\* Mutant of Further: only one further decision is kept.
FurtherOne(v) == {i \in Decisive(v) : /\ Decision(v[i]) # ShownDecision(v)
                                      /\ \A j \in Decisive(v) : i <= j}
Further(v) == {i \in Decisive(v) : Decision(v[i]) # ShownDecision(v)}

\* buildCanonicalSeccomp; "kill" and "log" are two of the known codes.
FilterKeys == {"code", "sig", "ip"}
Filter(r) == [key \in FilterKeys |-> RecordValue(r, key)]
Filters(v) == {i \in DOMAIN v : v[i].type = "SECCOMP"}
ShownFilter(v) == IF Filters(v) = {} THEN [key \in FilterKeys |-> None]
                  ELSE CHOOSE f \in {Filter(v[i]) : i \in Filters(v)} : TRUE
SeccompAction == [kill |-> "terminate_by_seccomp", log |-> "log_syscall"]

\* buildCanonicalOrigin
Origin(v) ==
    LET own(key) == FirstNonempty([i \in DOMAIN v |->
                        IF v[i].type \in Producers THEN SemanticValue(v[i], key) ELSE None])
    IN Meaningful(FirstNonempty(<<own("addr"), own("ip")>>))

-----------------------------------------------------------------------------
(* Paths.                                                                  *)

PathRecords(v) == {i \in DOMAIN v : v[i].type = "PATH"}
Items == <<"0", "1">>
\* By item where there is one, then in order of arrival.
Comes(v, i, j) ==
    LET item(k) == RecordValue(v[k], "item")
        has(k) == item(k) \in Range(Items)
        number(k) == CHOOSE n \in DOMAIN Items : Items[n] = item(k)
    IN CASE has(i) /\ has(j) /\ item(i) # item(j) -> number(i) < number(j)
         [] has(i) # has(j)                       -> has(i)
         [] OTHER                                 -> i < j
PathOf(r) ==
    [name  |-> RecordValue(r, "name"), role |-> RecordValue(r, "nametype"),
     owner |-> Shown([name |-> Interpreted(RecordValue(r, "OUID")),
                      id   |-> RecordValue(r, "ouid")])]
Before(v, i) == {j \in PathRecords(v) : Comes(v, j, i)}
Paths(v) ==
    [n \in 1..Cardinality(PathRecords(v)) |->
        PathOf(v[CHOOSE i \in PathRecords(v) : Cardinality(Before(v, i)) = n - 1])]

-----------------------------------------------------------------------------
(* Rule keys and the name of the target, by order of arrival.              *)

\* Places of the tokens key; a value that joins several keys is a token for
\* each of them.
KeyAt(v, a) == v[a[1]].raw[a[2]].val
KeyPlaces(v) ==
    {a \in UNION {{<<i, n>> : n \in DOMAIN v[i].raw} : i \in DOMAIN v} :
        v[a[1]].raw[a[2]].key = "key" /\ KeyAt(v, a) # None}
Sooner(a, b) == a[1] < b[1] \/ (a[1] = b[1] /\ a[2] < b[2])

\* A key counts where it first stands.
NewKeys(v) ==
    {a \in KeyPlaces(v) :
        \A b \in KeyPlaces(v) : KeyAt(v, b) = KeyAt(v, a) => ~Sooner(b, a)}
RuleKeys(v) ==
    [n \in 1..Cardinality(NewKeys(v)) |->
        KeyAt(v, CHOOSE a \in NewKeys(v) :
                     Cardinality({b \in NewKeys(v) : Sooner(b, a)}) = n - 1)]

\* buildCanonicalTarget; a path is not the name of a target.
NamesSaid(v) == [i \in DOMAIN v |-> IF v[i].type = "PATH" THEN None
                                    ELSE SemanticValue(v[i], "name")]
TargetName(v, type) ==
    IF type = "PATH" THEN None ELSE Meaningful(FirstNonempty(NamesSaid(v)))

-----------------------------------------------------------------------------
(* The event, before it is classified.                                     *)

Event(g) ==
    LET v == View(g)
        type == EventType(g)
        success == Success(g)
        login == Login(v, type, success)
        real == Identity(v, "UID", "uid")
        effective == Effective(v)
        syscall == InterpretedValue(v, "SYSCALL")
    IN [type |-> type, success |-> success, actor |-> Shown(login),
        user |-> IF SameIdentity(effective, login) THEN Nobody ELSE Shown(effective),
        real |-> IF SameIdentity(real, login) \/ SameIdentity(real, effective)
                 THEN Nobody ELSE Shown(real),
        pid |-> FirstSemantic(v, "pid"), exe |-> FirstSemantic(v, "exe"),
        exit |-> FirstSemantic(v, "exit"), syscall |-> syscall,
        number |-> IF syscall = None THEN FirstRecordValue(v, "syscall") ELSE None,
        argv |-> Argv(g), argvSource |-> ArgvSource(g), command |-> Command(g),
        attribution |-> Attribution(g),
        originalAction |-> Meaningful(FirstNonempty(<<FirstSemantic(v, "op"),
                                                      FirstSemantic(v, "operation")>>)),
        account |-> Meaningful(FirstSemantic(v, "acct")), origin |-> Origin(v),
        security |-> ShownDecision(v), seccomp |-> ShownFilter(v), paths |-> Paths(v),
        keys |-> RuleKeys(v), name |-> TargetName(v, type)]

\* The issues, as the set of the tokens they keep.
Issues(g) ==
    LET v == View(g)
        of(keys, records) == {a \in Tokens(g) : a[1] \in records /\ At(g, a).key \in keys}
        raw(keys, records) == {a \in of(keys, records) : a[2] = "raw"}
    IN {a \in Tokens(g) : \/ TypeAt(g, a) \notin {"EXECVE", "PROCTITLE"}
                             /\ At(g, a).key # "cmd" /\ At(g, a).val = "garbled"
                          \/ Conflicting(g, a[1], At(g, a).key)}
       \cup (IF Success(g) = None THEN TypedTokens(g, Decider(g), ResultKeys) ELSE {})
       \cup (IF Argv(g) = NoVector /\ ArgvSource(g) = "execve"
             THEN TypedTokens(g, "EXECVE", ExecKeys) ELSE {})
       \cup (IF Argv(g) = NoVector /\ ArgvSource(g) = "proctitle" THEN {FirstTitle(g)} ELSE {})
       \cup (IF CommandValid(g) THEN {} ELSE TypedTokens(g, "USER_CMD", {"cmd"}))
       \cup (IF AttributionValid(g) THEN {} ELSE TypedTokens(g, "LOGIN", Attributes))
       \cup of(SecurityKeys, Further(v))
       \cup raw({"code"}, {i \in Filters(v) : Filter(v[i]).code \notin DOMAIN SeccompAction})
       \cup raw(FilterKeys, {i \in Filters(v) : Filter(v[i]) # ShownFilter(v)})

-----------------------------------------------------------------------------
(* Classification of an event e.                                           *)

\* Rules of data/cis_audit_families.json, in order; paths stand for the
\* listed names and the names below the listed prefixes.
Rule(action, keys, syscalls, paths) ==
    [action |-> action, keys |-> keys, syscalls |-> syscalls, paths |-> paths]
Rules == <<
    Rule("change_time", {"time_change"}, {"adjtimex", "clock_settime"}, {"localtime"}),
    Rule("rename", {}, {"rename"}, {}),
    Rule("delete", {}, {"unlink"}, {}),
    Rule("delete", {"delete"}, {}, {}),
    Rule("access", {"access"}, {"openat"}, {}),
    Rule("change_identity_configuration", {"identity"}, {}, {"passwd"}) >>

\* pathEvidenceIsMutation
Mutates(e) == e.syscall \in {"rename", "unlink"} \/ (e.syscall = "write" /\ e.exit = "1")
Touches(e, rule) == Mutates(e) /\ {p.name : p \in Range(e.paths)} \cap rule.paths # {}
Matches(e, rule) ==
    /\ rule.action = "access" => e.success = "no"
    /\ \/ e.syscall \in rule.syscalls
       \/ Range(e.keys) \cap rule.keys # {}
       \/ Touches(e, rule)

\* An adjtimex may only query.
Supported(e, rule) ==
    /\ e.syscall # "adjtimex"
    /\ e.syscall \in rule.syscalls \/ Touches(e, rule)

RuleAction(e) ==
    LET matching == {n \in DOMAIN Rules : Matches(e, Rules[n])}
        rule == Rules[Min(matching)]
    IN IF matching = {} THEN None
       ELSE IF rule.action = "access" \/ Supported(e, rule) THEN rule.action
       ELSE "observe_activity"

FamilyAction ==
    [AVC |-> "enforce_access_control", USER_AVC |-> "enforce_access_control",
     MAC_POLICY_LOAD |-> "load_mac_policy", SECCOMP |-> "filter_syscall",
     ANOM_ABEND |-> "detect_anomaly", INTEGRITY_DATA |-> "check_integrity",
     USER_AUTH |-> "authenticate", USER_CMD |-> "user_command",
     LOGIN |-> "set_audit_attribution", CONFIG_CHANGE |-> "change_audit_configuration",
     BPRM_FCAPS |-> "apply_file_capabilities", KERN_MODULE |-> "kernel_module_operation"]

Executes(e) == e.syscall = "execve" \/ e.argvSource = "execve"

\* classifyCanonicalEvent; a KERN_MODULE falls back on its family.
Action(e) ==
    CASE e.type = "SECCOMP" /\ e.seccomp.code \in DOMAIN SeccompAction
                              -> SeccompAction[e.seccomp.code]
      [] e.type \in Mapped \ {"KERN_MODULE"} /\ (e.type = "SECCOMP" =>
             e.seccomp.code \notin DOMAIN SeccompAction)
                              -> FamilyAction[e.type]
      [] OTHER                -> IF Executes(e) THEN "execute"
                                 ELSE IF RuleAction(e) # None THEN RuleAction(e)
                                 ELSE IF e.type \in Mapped THEN FamilyAction[e.type]
                                 ELSE None

\* What the text of renderCanonicalMessage claims; the command name can stand
\* for the executable as well.
Executable(e) == e.exe # None \/ e.argv \notin {NoVector, << >>}
Outcome(e) == CASE e.success = "yes" -> "done" [] e.success = "no" -> "failed"
                [] OTHER -> "attempted"
Enforcement(e) ==
    CASE e.security.decision = "denied"  ->
             IF e.security.permissive = "1" THEN "not enforced" ELSE "denied"
      [] e.security.decision = "granted" -> "allowed"
      [] OTHER                           -> "decided"
Claim(e) ==
    CASE Action(e) = "enforce_access_control" -> Enforcement(e)
      [] e.type \in Integrity                 -> "reported"
      [] e.type = "SECCOMP"                   -> "filtered"
      [] Action(e) = None \/ (Action(e) = "execute" /\ ~Executable(e)) -> "nothing"
      [] OTHER                                -> Outcome(e)

-----------------------------------------------------------------------------
(* A group arrives token by token.                                         *)

VARIABLES
    theme,    \* never changed
    group,
    event,    \* what is published were the group closed now
    issues    \* and the tokens its issues keep

vars == <<theme, group, event, issues>>

GroupSize == FoldSeq(LAMBDA r, n : Len(AllOf(r)) + n, 0, group)

\* isTerminalRecord, and a correlated PROCTITLE: the group ends with it.
Single == {"USER_AVC", "USER_AUTH", "USER_CMD"}
Closed == Last(group).type \in Single \cup (IF Len(group) > 1 THEN {"PROCTITLE"} ELSE {})

Becomes(g) == group' = g /\ event' = Event(g) /\ issues' = Issues(g)
Bare(type) == [type |-> type, raw |-> << >>, embedded |-> << >>]

Arrive(type) ==
    /\ Len(group) < theme.records
    /\ ~Closed
    /\ Becomes(Append(group, Bare(type)))
    /\ UNCHANGED theme

Carry(section, token) ==
    /\ GroupSize < theme.tokens
    /\ Becomes([group EXCEPT ![Len(group)][section] = Append(@, token)])
    /\ UNCHANGED theme

\* The first record makes the group.
Init ==
    /\ theme \in Themes
    /\ group \in {<<Bare(type)>> : type \in DOMAIN theme.carries}
    /\ event = Event(group) /\ issues = Issues(group)
Next ==
    \/ \E type \in DOMAIN theme.carries : Arrive(type)
    \/ \E section \in Section :
           \E token \in theme.carries[Last(group).type][section] : Carry(section, token)
Spec == Init /\ [][Next]_vars

=============================================================================
