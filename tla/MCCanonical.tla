---------------------------- MODULE MCCanonical ----------------------------
(***************************************************************************)
(* Themes of Canonical for TLC: for each question the record types that    *)
(* meet in it, with the tokens that can agree, contradict, be missing or   *)
(* be unreadable.                                                          *)
(***************************************************************************)
EXTENDS CanonicalClaims, TLC

Raw(tokens) == [raw |-> tokens, embedded |-> {}]
Both(tokens, payload) == [raw |-> tokens, embedded |-> payload]
T(key, vals) == {Token(key, v) : v \in vals}
Theme(records, tokens, carries) == [records |-> records, tokens |-> tokens, carries |-> carries]

\* Who did it: kernel records and one userspace record.
Identities == Theme(2, 3,
    ("SYSCALL" :> Raw(T("uid", {"0", "1000"}) \cup T("UID", {"root"}) \cup T("auid", {"1000", "-1"})
                      \cup T("AUID", {"ann"}) \cup T("exe", {"sh", "garbled"})))
    @@ ("AVC" :> Raw(T("exe", {"sh"}) \cup T("uid", {"0"}) \cup T("pid", {"7"})))
    @@ ("USER_AUTH" :> Both(T("uid", {"1000"}) \cup T("pid", {"7", "8"}) \cup T("auid", {"1000"}),
                            T("acct", {"ann", "?"}) \cup T("exe", {"sh", "su"})
                                \cup T("uid", {"0"}) \cup T("addr", {"host"}))))

\* Who decided: two decisions of one record or of several.
Decisions == Theme(3, 3,
    ("AVC" :> Raw(T("decision", {"denied", "granted"}) \cup T("scontext", {"b"})
                  \cup T("permissive", {"0", "yes"})))
    @@ ("USER_AVC" :> Both({}, T("scontext", {"a"}) \cup T("decision", {"denied"})))
    @@ ("INTEGRITY_DATA" :> Raw(T("subj", {"b"}))))

Synonymous == Theme(1, 4,
    ("AVC" :> Raw(T("decision", {"denied", "granted", "garbled"})
                  \cup T("apparmor", {"denied", "granted"})
                  \cup T("scontext", {"a"}) \cup T("subj", {"a", "b"}))))

\* Whose result it is.
Results == Theme(3, 3,
    ("CONFIG_CHANGE" :> Raw(T("res", {"0", "1"})))
    @@ ("BPRM_FCAPS" :> Raw(T("res", {"1", "yes"})))
    @@ ("SYSCALL" :> Raw(T("success", {"yes", "no"}) \cup T("SYSCALL", {"execve"}))))

\* A LOGIN among the records of its syscall.
Logins == Theme(2, 3,
    ("LOGIN" :> Raw(T("old-auid", {"-1", "1000"}) \cup T("auid", {"1000", "garbled"})
                    \cup T("AUID", {"unset", "ann"}) \cup T("ses", {"1", "x"})
                    \cup T("res", {"0", "1"})))
    @@ ("SYSCALL" :> Raw(T("auid", {"-1", "1000"}) \cup T("success", {"yes"}))))

\* Commands and filters.
Observations == Theme(2, 3,
    ("USER_CMD" :> Both(T("cmd", {"ls", "garbled"}) \cup T("ip", {"host"}),
                        T("cmd", {"ls", "id"}) \cup T("res", {"yes"})))
    @@ ("SECCOMP" :> Raw(T("code", {"kill", "log", "odd"}) \cup T("ip", {"0"}) \cup T("sig", {"1"})))
    @@ ("AVC" :> Raw(T("decision", {"denied"}))))

\* What was done: keys, syscalls, paths and a named module.
Changes == Theme(2, 4,
    ("SYSCALL" :> Raw(T("SYSCALL", {"write", "adjtimex"}) \cup T("exit", {"1"})
                      \cup T("key", {"identity", "time_change"})))
    @@ ("PATH" :> Raw(T("name", {"passwd", "localtime"}) \cup T("item", {"0"}))))
Operations == Theme(3, 3,
    ("SYSCALL" :> Raw(T("SYSCALL", {"rename", "openat", "execve"})
                      \cup T("key", {"delete", "access"})))
    @@ ("PATH" :> Raw(T("name", {"passwd"})))
    @@ ("KERN_MODULE" :> Raw(T("key", {"time_change"}) \cup T("name", {"bonding", "loop"}))))

\* What was executed: arguments of one vector, and fragments of one argument.
Vectored == Theme(2, 3,
    ("EXECVE" :> Raw({Argc(1), Argc(2), Whole(0, <<"a">>), Whole(0, <<"odd">>),
                      Whole(1, <<"a">>), Length(0, 2), Fragment(0, 0, <<"head">>),
                      Fragment(0, 0, <<"a">>), Fragment(0, 1, <<"tail">>)}))
    @@ ("PROCTITLE" :> Raw(T("proctitle", {"sh"}))))
Split == Theme(2, 4,
    "EXECVE" :> Raw({Argc(1), Length(0, 2), Fragment(0, 0, <<"head">>),
                     Fragment(0, 0, <<"a">>), Fragment(0, 1, <<"tail">>)}))

AllThemes == {Identities, Decisions, Synonymous, Results, Logins, Observations,
              Changes, Operations, Vectored, Split}
\* Both spellings of the decision, in one record.
SynonymThemes == {Theme(1, 3, "AVC" :> Raw(T("decision", {"denied", "granted"})
                                           \cup T("apparmor", {"denied", "granted"})))}

ArgumentTexts == {<< >>, <<"a">>, <<"a", "a">>, <<"head", "tail">>, <<"a", "tail">>}
AllVectors == UNION {[1..n -> ArgumentTexts] : n \in 0..2}

Order == << "ANOM_ABEND", "AVC", "BPRM_FCAPS", "CONFIG_CHANGE", "CWD", "EXECVE",
            "INTEGRITY_DATA", "KERN_MODULE", "LOGIN", "MAC_POLICY_LOAD", "PATH",
            "PROCTITLE", "SECCOMP", "SOCKADDR", "SYSCALL", "USER_AUTH", "USER_AVC", "USER_CMD" >>
=============================================================================
