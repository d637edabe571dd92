----------------------------- MODULE Benchmark -----------------------------
(***************************************************************************)
(* `sentinel benchmark`: _run_benchmark_cmd of src/sentinel/cli.py,        *)
(* run_benchmark of benchmark/runner.py and compute_score of               *)
(* benchmark/scoring.py.                                                   *)
(*                                                                         *)
(* The cases of a file are run one after the other, each in a session of   *)
(* its own whose findings are arbitrary; the findings are matched with     *)
(* those expected, one expected finding per step; the report is written    *)
(* when all cases are through.  Findings, expected and reported, are named *)
(* by their positions.                                                     *)
(***************************************************************************)
EXTENDS Naturals, Sequences, FiniteSets, Scoring

CONSTANTS
    KeyFields,   \* the key_fields of findings
    CaseFiles,   \* contents a cases file may have: lists of cases, or Unparsable
    Unparsable,  \* a file that is no JSON list of objects
    NotADict,    \* a JSON value that is no object
    Absent,      \* the output file when nothing was written to it
    Found,       \* the results a session may report
    MaxFindings  \* bound: findings of a session

\* A case as the file has it: whether its id is ASCII, and its findings, of which
\* some may be no objects, or have key_fields that are none.
RawCase ==
    [ascii: BOOLEAN,
     expected_findings: Seq([object: BOOLEAN, key_fields: KeyFields \cup {NotADict}])]

ASSUME BenchmarkAssumption == CaseFiles \subseteq Seq(RawCase) \cup {Unparsable}

VARIABLES
    pc,
    file,        \* the content of the cases file
    reported,    \* session_result.state.findings of the case at hand
    next,        \* the expected findings before this one have been looked at
    matched, missed, used,   \* its locals: pairs, expected findings, results
    results,     \* list[BenchmarkResult]
    report,      \* the lines of the output file: Absent, or one for each case
    sessions     \* how the cases' sessions ended, for the properties

scoreVars == <<reported, next, matched, missed, used>>
vars == <<pc, file, scoreVars, results, report, sessions>>

NoFields == << >>

Init ==
    /\ pc = "load" /\ file \in CaseFiles
    /\ reported = << >> /\ next = 1
    /\ matched = {} /\ missed = {} /\ used = {}
    /\ results = << >> /\ report = Absent /\ sessions = << >>

\* _parse_case: what is no object is left out; key_fields that are none are empty.
Expected(case) ==
    LET raw == case.expected_findings
    IN  [e \in {e \in DOMAIN raw : raw[e].object} |->
            IF raw[e].key_fields = NotADict THEN NoFields ELSE raw[e].key_fields]

\* The case being run.
Current == file[Len(results) + 1]

\* The file is read; no cases, a bad file, a missing secret or key end the command.
Load ==
    /\ pc = "load"
    /\ \/ pc' = "failed"
       \/ file # Unparsable /\ file # << >> /\ pc' = "case"
    /\ UNCHANGED <<file, scoreVars, results, report, sessions>>

SessionEnds(outcome) == sessions' = Append(sessions, outcome)

\* A fresh orchestrator runs the case, and compute_score begins.
CaseRuns ==
    /\ pc = "case" /\ Len(results) < Len(file)
    /\ \E n \in 0..MaxFindings : reported' \in [1..n -> Found]
    /\ SessionEnds([error |-> FALSE, ascii |-> TRUE, findings |-> reported'])
    /\ next' = 1 /\ matched' = {} /\ missed' = {} /\ used' = {}
    /\ pc' = "score"
    /\ UNCHANGED <<file, results, report>>

ResultOf(ratios, error, m, miss, spurious) ==
    [ratios |-> ratios, error |-> error, matched |-> m, missed |-> miss, spurious |-> spurious]

\* Variant: a failed case leaves no result.
CaseFailsUnrecorded ==
    /\ pc = "case" /\ Len(results) < Len(file)
    /\ \E ascii \in BOOLEAN :
          SessionEnds([error |-> TRUE, ascii |-> ascii, findings |-> << >>])
    /\ UNCHANGED <<pc, file, scoreVars, results, report>>

\* The session raises a RuntimeError or a ValueError, whose text goes into the report.
CaseFails ==
    /\ pc = "case" /\ Len(results) < Len(file)
    /\ \E ascii \in BOOLEAN :
          SessionEnds([error |-> TRUE, ascii |-> ascii, findings |-> << >>])
    /\ results' = Append(results, ResultOf(ScoreOfFailure, TRUE, {}, {}, {}))
    /\ UNCHANGED <<pc, file, scoreVars, report>>

\* Any other exception (an httpx error of the gate) leaves run_benchmark, and the
\* command: the results of the cases before are gone.
CaseAborts ==
    /\ pc = "case" /\ Len(results) < Len(file)
    /\ pc' = "failed"
    /\ results' = << >>
    /\ UNCHANGED <<file, scoreVars, report, sessions>>

\* The expected findings compute_score has not looked at; without results it looks at none.
Ahead == {e \in DOMAIN Expected(Current) : next <= e /\ reported # << >>}

\* It looks at the first of them.
LooksAt(e) ==
    /\ \A d \in Ahead : e <= d
    /\ next' = e + 1

\* Variant: the search goes on behind the last result that was taken.
CandidatesForward(e) ==
    {r \in DOMAIN reported : /\ \A u \in used : u < r
                             /\ Matches(Expected(Current)[e], reported[r])}

\* The results that are left for an expected finding.
Candidates(e) ==
    {r \in DOMAIN reported \ used : Matches(Expected(Current)[e], reported[r])}

\* Variant: a result may be taken again.
MatchFirstAgain ==
    /\ pc = "score"
    /\ \E e \in Ahead : LooksAt(e) /\ \E r \in DOMAIN reported :
          /\ Matches(Expected(Current)[e], reported[r])
          /\ matched' = matched \cup {<<e, r>>}
          /\ used' = used \cup {r}
    /\ UNCHANGED <<pc, file, reported, missed, results, report, sessions>>

\* The first of them is taken.
MatchFirst ==
    /\ pc = "score"
    /\ \E e \in Ahead : LooksAt(e) /\ \E r \in Candidates(e) :
          /\ \A s \in Candidates(e) : r <= s
          /\ matched' = matched \cup {<<e, r>>}
          /\ used' = used \cup {r}
    /\ UNCHANGED <<pc, file, reported, missed, results, report, sessions>>

Miss ==
    /\ pc = "score"
    /\ \E e \in Ahead : LooksAt(e) /\ Candidates(e) = {} /\ missed' = missed \cup {e}
    /\ UNCHANGED <<pc, file, reported, matched, used, results, report, sessions>>

\* float(actual) raises OverflowError, which run_benchmark does not catch: as CaseAborts.
ScoreOverflows ==
    /\ pc = "score"
    /\ \E e \in Ahead : LooksAt(e) /\ \E r \in DOMAIN reported \ used :
          /\ \A s \in Candidates(e) : r <= s
          /\ MeetsHuge(Expected(Current)[e], reported[r])
    /\ pc' = "failed"
    /\ results' = << >>
    /\ UNCHANGED <<file, reported, matched, missed, used, report, sessions>>

\* compute_score returns.
Scored ==
    /\ pc = "score" /\ Ahead = {}
    /\ LET expected == DOMAIN Expected(Current)
           ratios == Score(Cardinality(matched), Cardinality(expected), Len(reported))
       IN  results' = Append(results,
               ResultOf(ratios, FALSE, matched,
                        IF reported = << >> THEN expected ELSE missed, DOMAIN reported \ used))
    /\ pc' = "case"
    /\ UNCHANGED <<file, scoreVars, report, sessions>>

\* The report has a line for each case, and is printed, which a closed pipe or the
\* encoding of stdout can refuse ...
PrintReport ==
    /\ pc = "case" /\ Len(results) = Len(file)
    /\ pc' \in {"exited", "failed"}
    /\ UNCHANGED <<file, scoreVars, results, report, sessions>>

IsAscii == \A i \in DOMAIN file : file[i].ascii /\ sessions[i].ascii

\* Variant: a report that cannot be encoded is not an error.
WriteReportQuietly ==
    /\ pc = "case" /\ Len(results) = Len(file)
    /\ report' \in {results, << >>}
    /\ pc' = "exited"
    /\ UNCHANGED <<file, scoreVars, results, sessions>>

\* ... or written to a file, which a character that is not ASCII, or the disk, refuses
\* after it was emptied.
WriteReport ==
    /\ pc = "case" /\ Len(results) = Len(file)
    /\ \/ IsAscii /\ report' = results /\ pc' = "exited"
       \/ report' = << >> /\ pc' = "failed"
    /\ UNCHANGED <<file, scoreVars, results, sessions>>

Next ==
    \/ Load \/ CaseRuns \/ CaseFails \/ CaseAborts
    \/ MatchFirst \/ Miss \/ ScoreOverflows \/ Scored \/ PrintReport \/ WriteReport

Spec == Init /\ [][Next]_vars

(***************************************************************************)
(* Properties                                                              *)
(***************************************************************************)
Reported(i) == DOMAIN sessions[i].findings
Wanted(i) == DOMAIN Expected(file[i])

OneToOne(pairs) == \A p, q \in pairs : (p[1] = q[1] \/ p[2] = q[2]) => p = q

\* The table adds up: there is one line for each session so far, in their order, it
\* has an error if that session failed, and otherwise every finding of the case is
\* matched or missed and every result matched or spurious, none of them twice
\* (compute_score's used, run_benchmark's append for both outcomes).
EveryFindingCountedOnce ==
    /\ Len(results) = Len(sessions) - (IF pc = "score" THEN 1 ELSE 0) \/ pc = "failed"
    /\ \A i \in DOMAIN results :
          LET result == results[i]
              hit    == {p[1] : p \in result.matched}
              taken  == {p[2] : p \in result.matched}
          IN  /\ result.error = sessions[i].error
              /\ ~result.error => /\ OneToOne(result.matched)
                                  /\ hit \cap result.missed = {}
                                  /\ hit \cup result.missed = Wanted(i)
                                  /\ taken \cap result.spurious = {}
                                  /\ taken \cup result.spurious = Reported(i)

\* The search gives up on nothing it could have matched: no missed finding of the case
\* agrees with a spurious result (compute_score tries each finding with all results
\* that are left).
NothingMatchableLeft ==
    \A i \in DOMAIN results : \A e \in results[i].missed, r \in results[i].spurious :
        ~Matches(Expected(file[i])[e], sessions[i].findings[r])

\* The matchings of a case with the results of its session.
Matchings(i) ==
    {pairs \in SUBSET {p \in Wanted(i) \X Reported(i) :
                          Matches(Expected(file[i])[p[1]], sessions[i].findings[p[2]])} :
        OneToOne(pairs)}

\* Taking the first result that fits is not the best assignment, a finding that asks
\* for little can take the only result of a later one, but it is never worse than half
\* of the best: precision and recall are at least half of what they could be.
AtLeastHalfOfBest ==
    \A i \in DOMAIN results : ~results[i].error =>
        \A pairs \in Matchings(i) : Cardinality(pairs) <= 2 * Cardinality(results[i].matched)

\* F1 is a number, and is 2 tp / (expected + reported) whenever there is anything to
\* count, whichever of the cases of compute_score made it.
F1OfTheCounts ==
    \A i \in DOMAIN results :
        LET f1 == results[i].ratios.f1
            all == Cardinality(Wanted(i)) + Cardinality(Reported(i))
        IN  /\ f1[2] > 0 /\ f1[1] <= f1[2]
            /\ (~results[i].error /\ all > 0) =>
                   f1[1] * all = 2 * Cardinality(results[i].matched) * f1[2]

\* Exit code 0 means that every case was run and has its line, in the output file when
\* there is one (the order of the writes and the return in _run_benchmark_cmd).
ExitZeroMeansReported ==
    pc = "exited" => /\ Len(sessions) = Len(file)
                     /\ Len(results) = Len(file)
                     /\ report # Absent => report = results
=============================================================================
