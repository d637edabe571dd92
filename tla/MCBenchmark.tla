---------------------------- MODULE MCBenchmark ----------------------------
EXTENDS Benchmark, SequencesExt

Cmd == [name |-> "cmd"]
MimiPid == [name |-> "mimi"] @@ [pid |-> "4"]
Mimi == [name |-> "mimi"]
MCKeyFields == {Cmd, MimiPid, Mimi}

Anything == [object |-> TRUE, key_fields |-> NotADict]
NoObject == [object |-> FALSE, key_fields |-> NotADict]
Wants(fields) == [object |-> TRUE, key_fields |-> fields]

MCWithin(a, b) == a = b \/ <<a, b>> \in {<<"mimi", "mimikatz">>, <<"4", "43">>}

MCFound ==
    {{[name |-> Value("text", "mimikatz"), pid |-> Value("number", "4")]},
     {[name |-> Value("text", "mimikatz"), pid |-> Value("number", "43")]},
     {[name |-> Value("text", "cmd"), pid |-> Value("text", "43")],
      [name |-> Value("text", "mimikatz")]},
     {[name |-> Value("text", "mimikatz"), pid |-> Value("huge", "1e400")]},
     {[name |-> Value("None", "None")]}}

CaseOf(ascii, findings) == [ascii |-> ascii, expected_findings |-> findings]

Wanted3 == {Wants(Cmd), Wants(MimiPid), Wants(Mimi), Anything, NoObject}

MCCaseFiles ==
    {<<CaseOf(TRUE, findings)>> : findings \in BoundedSeq(Wanted3, 3)}
    \cup {<<CaseOf(a, <<Wants(Cmd)>>), CaseOf(TRUE, << >>)>> : a \in BOOLEAN}
    \cup {<< >>, Unparsable}
=============================================================================
