# A verification of Aletheia Sentinel in TLA+

Aletheia Sentinel investigates a compromised machine with three language-model
agents.  A *Scout* picks forensic tools to run on the evidence, a *Nitpicker*
reviews each result, a *Judge* writes the report; an orchestrator runs the loop,
and every tool execution is recorded in an HMAC-signed, hash-linked receipt chain
that `sentinel verify` checks afterwards.  What has to be right is the
bookkeeping around the models: whatever they answer, and whatever fails, the
session ends, nothing it found is lost, doubled or attributed to the wrong
execution, tools read only the evidence they were given, and the saved chain is
proof of what was executed.

Paths below are relative to `src/src/sentinel/`.

## Components

| Component | State | Operations | Interaction | What makes it correct |
|---|---|---|---|---|
| Receipt chain `audit/receipts.py` | the list of receipts | `append`, `verify`, `to_jsonl`, `from_jsonl` | one per session, shared by reference between orchestrator and command line | what verifies is a prefix of what was appended |
| Orchestrator `agents/orchestrator.py` | iteration and miss counters, findings, rejected, clock | `run`: one loop with five awaits | awaits Scout, executor, Nitpicker, gate, Judge; appends to the chain | caps hold, each receipt is settled once, the stop reason is true, the session ends |
| Executor `agents/wiring.py`, catalog in `cli.py` | none (the evidence paths) | `_execute`, `_build_tool_catalog` | called by the orchestrator; calls the wrappers | only supplied evidence is read; what is offered is what is not refused |
| Tool wrappers `tools/` | a child process, a temporary file | `run_tool`, six wrappers | called by the executor; run external programs | no process or file left behind, what overran its time gives no answer, OK hides no skipped row |
| Spectral gate `spectral/gate.py` | none | `evaluate`: three HTTP posts, `classify` | called by the orchestrator with the Nitpicker's reasoning | HEALTHY and STRESSED rest on what the service sent, failures are CAUTION |
| Command line `cli.py` | the audit-logs directory | `run`, `demo`, `verify` (`benchmark`, `server`) | starts a session, prints the report, saves the chain | exit status 0 means a complete log |
| LLM agents `agents/llm.py` | none | `decide`, `review`, `synthesize` | called by the orchestrator; call an API | a bad answer is a harmless decision, a review that did not say YES is none, an outage ends the session |
| Benchmark `benchmark/`, `cli.py` | a list of results, the report file | `_load_cases`, `run_benchmark`, `compute_score`, the report | a fresh orchestrator per case | each case has its line, each finding and result is counted once, exit status 0 means a full report |
| MCP server `server.py` | none | six adapters | not on the path of `run` | same tools as the executor |

Hard behaviours.  `run` is one coroutine: nothing runs between two of its awaits,
but at each await time passes and an exception may come back that nobody catches.
The Scout's answers are arbitrary.  Programs race their timeouts.  Several
processes may share a log name.  A process may be killed, and its disk may be
full, in the middle of writing a log.  Logs are read again by somebody who did
not write them.  The amcache parser carries state from line to line, the matching
of the benchmark from finding to finding.  `PROJECT.json` lists each hazard at its
line.

## Modules

| Module | Models | Read with |
|---|---|---|
| `Receipts` | receipts, `append`, `verify`, the JSON Lines form; operators only | `audit/receipts.py` |
| `Orchestrator` (uses `Receipts`) | one session | `agents/orchestrator.py`, `run` |
| `SessionLedger` | what a session promises, without agents, clock or hashes | the abstract specification of `Orchestrator` |
| `Executor` | dispatch, refusals, pinning, validation, catalog; operators only | `agents/wiring.py`, `cli.py` |
| `Triage` (composes `Orchestrator` and `Executor`) | a session whose tools are the executor's | |
| `Agents` (extends `Triage`) | a session whose Scout, Nitpicker and Judge are the language-model agents | `agents/llm.py` |
| `Investigation` (uses `Receipts`) | processes of `run` and `demo`, their logs, `verify` | `cli.py` |
| `ToolWrappers` | one call of a wrapper and its programs | `tools/` |
| `Amcache` | the line parser of one of them | `tools/regripper_amcache.py` |
| `SpectralGate` | one evaluation | `spectral/gate.py` |
| `Scoring` | comparing a finding with a result, and the ratios; operators only | `benchmark/scoring.py` |
| `Benchmark` (uses `Scoring`) | the benchmark command | `cli.py`, `benchmark/` |
| `Receipts_proofs`, `Orchestrator_proofs`, `Agents_proofs`, `Investigation_proofs`, `ToolWrappers_proofs`, `Amcache_proofs`, `SpectralGate_proofs`, `Benchmark_proofs` | theorems | |
| `MCOrchestrator`, `MCAgents`, `MCInvestigation`, `MCBenchmark` | constants for TLC | |

A definition called a *variant* in its comment is not part of a specification: it
is the definition below it with a plausible mistake in it, and the property named
with it in `PROJECT.json` fails when it is used instead.  It shows that the
property depends on that code.

### How the modules correspond to the code

**Receipts.**  Hashes are free terms: two are equal when what was hashed is equal.
The digest of a receipt is therefore represented by the list of everything it
commits to, down to the genesis digest, which is the empty list; HMAC is a pair of
key and body.  `_canonical_body` joins its fields with `|` unescaped.  The digests
at its end have a fixed form, and the session id at its beginning is the same for
all receipts of a chain, so within a chain the text determines the fields whatever
the tool is called; across chains it does if session ids contain no `|`, which the
model assumes.

**Orchestrator.**  `pc` is the await at which the coroutine is suspended, or
`check` at the head of the loop.  `CheckCaps` is lines 197-208, `Decide` what
follows `scout.decide` (210-221), `Execute` what follows `execute_tool` (223-229,
with the ValueError of `append` for an empty name), `Review` and `Settle` the
verdicts and the routing (231-240), `Synthesize` the end.  `AwaitRaises` is the
exception any await may bring.  The locals are variables that hold `None` when
they are dead.  `Resume` advances the clock by up to `AwaitTime`: the deadline is
compared with real elapsed time, read once per iteration.  `found_at` is a history
variable, the iteration of the last finding: the stop reason is held against it, not
against the counter the code keeps.

**Executor and Triage.**  A path is named by the kind of evidence the command line
gave it for; "invented" is every other one and "absent" none at all (the empty
dictionary).  A path given to the command line may be a file, a directory or missing.
`Execution` is the set of results a call may have, and is empty where the input model
raises.  `rows` says where a result's rows were read: log2timeline's come from a
`timeline.json` in a directory the Scout chooses, which nothing pins.

**Agents.**  `DecisionOf` is `ClaudeScout.decide` (110-155) on the kinds of reply: a
JSON object with any `done`, name and arguments, a reply that is none, an API error.
`Approved` is `ClaudeNitpicker.review` (164-189).  The actions are those of
`Orchestrator` (`DecideOn`, `ReviewAs`, `SettleBy`, `RaiseAt` with the agents' answers
instead of any), so that a session of the agents is one of `Orchestrator` by
construction of the steps and not by assumption; `KeepsProtocol` checks it.  `silence`
and `approvals` record what the API said, for the properties.

**Investigation.**  A process moves through `Begin`, `ExecuteTool`, `EndSession`,
`PrintReport`, `VerifyChain` (demo only), `OpenLog`, `FlushLine`, `CloseLog`; `Stop`
kills it or fails its write between or in any of these.  `write_text` (cli.py:433, 511)
hands all its text to a buffered stream: the lines reach the file one by one at any time
until the stream is closed, and those that had not when the process is stopped are lost,
all of them if none had.  A file is a sequence of lines, each a
header, a receipt or torn; blank lines, which `from_jsonl` skips, are left out.
`OpenLog` truncates, `FlushLine` writes at the process's own offset, so two writers of
one file leave holes, torn ends and mixed lines.  `Damage` is what a disk or an editor
may do to a finished log: it can remove, double, exchange or change lines, but it
cannot sign.

**ToolWrappers.**  `Spawn`, `Tick`, `ChildEnds`, `TimeoutFires`, `WaitReturns` and
`CommunicateReturns` are `run_tool`; `Failed`, `Unreadable` and `Parse` are the rest of
each wrapper.  `Parse` takes or skips rows, and `Pslist`, `Netscan`, `Cmdline`,
`AmcacheEntries`, `Events` and `Timeline` make each wrapper's result of them: they differ
in the fallback, in which empty output is PARTIAL, and in whether output may be passed
over without a note (`unread`).  `Tick` also counts the minutes a killed program takes to
end: `process.wait` (_subprocess.py:47) has no timeout, so a call can take longer than
its programs may, by up to `MaxLinger` in a run and without a bound in the theorems.
`Init` is the state after input validation.

**Amcache.**  A line is the `AmcacheEntry` field its key stands for (`_KEY_MAP`), or
none, and its value.  `ReadField` and `ReadPath` are one turn of the loop (90-104),
`Return` the status (106).  An entry remembers the number of its path's line, so that
the properties can say which lines it should be made of without the parser's state.

**SpectralGate.**  The three posts in order, each of which fails in the transport,
is refused or is answered.  Ratios are hundredths; a body is the three places where
a ratio is looked for.  A place can hold a number, nothing, text, one of the values Python
takes for a number (`true`, `false`, NaN), or an integer too big for a float, at which
`float` raises an exception that leaves `evaluate` (`Overflows`).

**Scoring and Benchmark.**  A result is the set of the JSON objects in its payload,
which is what the depth-first search visits.  `Within` is Python's `in` on texts, a
constant operator.  `Load` is `_load_cases` with everything that can end the command
before the first case; `CaseRuns`, `CaseFails` and `CaseAborts` are the three ways a
session ends in `run_benchmark` (37-54); `MatchFirst` and `Miss` are one turn of
`compute_score`'s loop (65-74), `Scored` its return, `ScoreOverflows` its exception for
a number too big for a float (scoring.py:111); `PrintReport` may fail, and `WriteReport`
empties the file before it encodes.  `sessions` records what the sessions reported, for
the properties.

## Runs

| Run | Shows | Bounds |
|---|---|---|
| `session` | the invariants below, and that a session implements `SessionLedger` with its liveness | 4 iterations, 2 misses, deadline 3, awaits up to 1 |
| `agents` | `OnlySuppliedEvidence`, `OfferedExactlyIfServed`, `FindingsWereApproved`, `OutageEndsSession`, `KeepsProtocol` | four tools (one of each: a file, a directory, a missing path, no evidence), an unknown one and the empty name; no path or one of other evidence; 3 iterations, 2 misses; the remote gate |
| `audit_logs` | `ValidLogIsPrefixOfSession`, `ExitZeroMeansSaved`, `StoppedSaveIsBeginning` | a run and a demo with one log name, 2 receipts each, 2 outputs, 2 seconds, 1 damage |
| `tool_call` | `NothingLeftBehind`, `OverdueIsError`, `OkSkipsNothing`, `EveryStepCounts`, `CallEnds` | all wrappers, their own timeouts in minutes; up to 4 minutes after a kill |
| `amcache` | `EntriesOfTheirLines`, `OkMeansEveryPath` | outputs of up to 5 lines |
| `benchmark` | `EveryFindingCountedOnce`, `NothingMatchableLeft`, `AtLeastHalfOfBest`, `F1OfTheCounts`, `ExitZeroMeansReported` | files of one case with up to 3 expected findings, or of two cases; up to 3 results of five kinds |
| `gate` | `VerdictFollowsAnswer`, `EvaluateEnds` | ratios 0.39, 0.40, 0.54, 0.55, the values that are no ratio, seven transport failures |

* `EveryReceiptSettledOnce`, `ReceiptSignsResult`, `ChainVerifies`: the two lists the
  report is written from, the result under review and the chain agree at all times.
* `OverrunBounded`: the deadline is overrun by less than five awaits.
* `StopReasonWarranted`: the stop reason is what happened: a passed deadline is named
  only when the iterations are not used up, and `max_stressed` only when the last
  `MaxConsecutiveStressed` iterations were all misses, counted from the last finding;
  a session with fewer goes on.
* `LedgerSpec`: calls are made one at a time, never beyond a cap, each is settled once
  before the next, all are settled when a report is made, and the session ends.
* `RecordKeepsPromise`: what a reader of that ledger relies on, read off the record
  itself: in particular that no call follows `max_consecutive_stressed` rejected ones.
* `EveryStepCounts` (of `session` and of `tool_call`): no step is free.  `StepsLeft` is a
  number that every step makes less, so that a session takes at most
  `8 * MaxIterations + 3` steps, and a call a number of steps its timeouts bound.
* `OnlySuppliedEvidence`: no tool reads a path the Scout made up.  (Where log2timeline
  writes, and where its rows are read, the Scout does choose.)
* `OfferedExactlyIfServed`: the catalog and the executor, built in two places, agree both
  ways.  A tool on offer can still be useless: its path is not looked at before.
* `FindingsWereApproved`: a finding was said YES to; no silence, error or YES to another
  result stands in for it.
* `OutageEndsSession`: replies that are no decision are counted, end the session at the
  cap on misses, and never as `scout_done`.
* `KeepsProtocol`: with liveness, a session of the agents is one of `Orchestrator`.
* `ValidLogIsPrefixOfSession`, `ExitZeroMeansSaved`: what `verify` accepts is the
  beginning of one session; exit status 0 leaves all of it.
* `StoppedSaveIsBeginning`: a save that is killed or fails halfway leaves the beginning of
  the log and perhaps a cut line, or an empty file; `verify` finds the cut and the empty
  file, and takes whole lines for a session that ended there.
* `NothingLeftBehind`, `OverdueIsError`, `OkSkipsNothing`, `CallEnds`: however a call ends,
  its program and its file are gone; a program that overran gives no answer and is
  followed by no other; no row that was looked at is missing from an OK result without
  a PARTIAL; and a call ends.
* `EntriesOfTheirLines`, `OkMeansEveryPath`: no field of one amcache entry appears in
  another, each has its last value, and each path is an entry or a noted skip.
* `EveryFindingCountedOnce`: the table has a line per case, in order, and in each line
  every finding is matched or missed and every result matched or spurious, once.
* `NothingMatchableLeft`, `AtLeastHalfOfBest`: the greedy matching leaves no match
  undone, and has at least half of the matches of the best assignment.  It is not the
  best: a finding that asks for little may take the only result of a later one.
* `F1OfTheCounts`: F1 is `2 tp / (expected + reported)` in every case of
  `compute_score`, and never divides by zero.
* `ExitZeroMeansReported`: exit status 0 of the benchmark means that every case was run
  and has its line in the report.
* `VerdictFollowsAnswer`: HEALTHY and STRESSED rest on the first place of the answer that
  holds anything and on its side of the threshold; nothing else becomes one of them.  What
  the place holds is a number or one of `true`, `false` and NaN, which the code reads as
  numbers (see the divergences below).
* `EvaluateEnds`: the gate answers or raises.

Why the bounds are enough.  Four iterations are the first number at which a session with
a cap of two misses can have a miss, a finding and a miss again, and go on: a counter
that is not reset shows there and not before.  A deadline of 3 with at most 17 ticks can
pass at every await.  In `agents` three iterations and two misses let an outage follow a
rejection or a reset.  Two receipts per process are the first
number for which a mixture of two logs has a receipt whose predecessor is the
other's, and for which a receipt can be removed before, exchanged with or altered
under another; longer chains and repeated damage are left to the theorems.  Five lines
are two entries of two lines and one more, the first number at which a field, kept
from an entry that was skipped, can end up in one after it.  Three findings and three
results are the first at which the order of the search matters twice; two cases are
the first at which lines can be exchanged.  Four minutes after a kill take each wrapper
beyond the timeout of the program that was killed (`MaxLinger`); the wrappers and the gate
are not bounded otherwise.

The runs that expect a violation each check one claim of the documentation that the
code does not keep; `findings` in `PROJECT.json` quotes the claim:
`lost_receipts` (an exception ends a session with its receipts unsaved),
`invented_path` (the Scout gives a path of its own, the tool is run on the analyst's, and
the receipt commits to the Scout's), `blind_benchmark` (the
benchmark offers every tool to a Scout whose executor has no evidence), `psscan` (a
pslist whose rows are all skipped ends OK), `gate_aborts` (failures the gate does not
catch).  The property of the last has a trace with a broken connection; a body that is
no JSON object and an integer too big for a float (gate.py:232) break it as well
(`OnlyTheseAbort`).

Other divergences were met and have no run of their own:

* `run` prints its report without verifying its chain, and the demo before it
  (`PrintReport`, `VerifyChain`); docs/architecture.md:47 wants `verify()` to pass
  before any report is produced.
* A second session of the same case in the same second empties a finished log
  (`OpenLog`), though the log is called append-only.
* An outage of the API ends a session as `max_stressed`, also with the null gate;
  docs/architecture.md:72 describes that as spectral incoherence.
* A Scout's `"done": "false"` is done (`bool` of a text, llm.py:143).
* docs/accuracy-report.md:212 says that tampering with *any byte* of a log is noticed and
  architecture.md:84 that receipts prevent gaps in the trace.  Receipts cut from the end of
  a log are not noticed: what is left verifies (`PrefixVerifies`, and `StoppedSaves` for a
  save that was stopped); `ValidLogIsPrefixOfSession` is what holds.
* gate.py:126 says that a non-numeric answer never becomes a number
  (tests/test_spectral_gate.py:253 repeats it): a ratio of `true` is HEALTHY, `false` and
  NaN are STRESSED (`isinstance` with `int` and `float`).  The claim is `NumberNeeded`, and
  `NumbersOnly` proves it of services that send none of the three.
* `run --image /missing` is accepted and offers the memory tools (`_build_tool_catalog`
  asks only whether the option was given); every call to one raises in the input model
  and ends the session (`PathDecides`), though README.md:97 says that no tool is offered
  whose evidence is absent.
* log2timeline's `output_dir` is the Scout's to choose, and the `timeline.json` in it is
  what becomes the result (`RowsOf`); only the evidence path is pinned.
* An OK result does not mean that all output was read: the timeline beyond 50 rows
  (plaso_log2timeline.py:132), events whose id is text (evtxecmd_security.py:122) and
  amcache fields after the last path are passed over without a note, against base.py:38
  (`OnlyTheseHide`).
* A wrapper's timeout does not bound its call: after the kill, `process.wait` has none.
* `OfferedToolsUsable` also fails in a `run` when `Directories` has `"evtx"`: the message
  of `wiring.py:123` asks for an evtx directory and the validator for a file.
* The event-log tool answers as `evtxecmd.security` and is called
  `evtxecmd.parse_security` (`ResultName`).
* A character that is not ASCII in a case id or an error text loses the report of a
  whole benchmark, and leaves an empty file (`WriteReport`); an exception that is
  neither a RuntimeError nor a ValueError loses it as well (`CaseAborts`,
  `ScoreOverflows`).

`CHECK_DEADLOCK FALSE` stands in every configuration because a session, a process,
a call and an evaluation really end.

### Fairness

* `Orchestrator`: weak fairness of the next step.  Each await ends: the API client
  has timeouts, the gate's posts have, `run_tool` has (but for its wait for a killed
  program, see `ToolWrappers`); then the event loop resumes the coroutine.  `AwaitTime`, the longest an await takes, is a parameter; for
  plaso it is 4200 s, which is more than the default deadline.
* `ToolWrappers`: the event loop resumes the wrapper and fires its timer, and a
  *killed* program ends.  A program that runs is not assumed to end.  That a killed one
  does is an assumption about the system, and not about the code.
* `SpectralGate`: every post is answered or fails.
* `Agents`: weak fairness of the next step, as `Orchestrator`.
* `Investigation`, `Amcache` and `Benchmark` have no liveness and no fairness: any
  process may stop for ever, and the loops of the other two are over finite lists.

## Theorems

`Receipts_proofs` is about all chains, secrets, names and contents:

* `AppendVerifies`, `PrefixVerifies`: `append` keeps a chain verifying, and so does
  cutting its end off.
* `VerifiedIsPrefix`: if a list of receipts verifies and its last signature occurs in
  a chain that verifies, the list is a prefix of that chain, and the session and the
  secret are the chain's.  This is the argument behind `ValidLogIsPrefixOfSession`:
  nobody else can sign.  By the signature (equal signatures, equal bodies:
  `HmacDetermines`, `BodyDetermines`) the last receipt is some receipt of the chain;
  what it commits to determines the one before (`SameLink`).  The walk back is an
  induction on data, which is done over sets: the set of positions at which the two
  differ has a least element (`Least`, from the library's well-foundedness of `<`).

`Orchestrator_proofs` is about all sets of tools, arguments, outputs and verdicts, all
caps and all clocks, from the assumptions `CapsArePositive`, `ClockAssumption`,
`GateAssumption`, `ExecutorAssumption` and `NoneAssumption`.

* `TypeCorrect`: the type invariant, which also says which local is live when.
* `RecordsAgree` proves the inductive `RecordInv`, and with it `SettledOnce` and
  `ResultsSigned`.  That the lists partition the chain's receipts is not inductive:
  `Settle` has to know that the result it puts on a list is the chain's last
  receipt (`PendingIsLast`) and that no list holds it yet (`NamesInChain`).
* `ChainAlwaysVerifies`: by `AppendVerifies`.
* `OverrunAlwaysBounded`: `WallInv` bounds the clock by the deadline plus the awaits
  since the head of the loop, per `pc`.
* `CountersCorrect` proves the inductive `CountersInv` (the counters against the
  lengths of the lists, the caps and the iteration of the last finding), and with it
  `StopReasonCorrect`: the counter is the number of iterations since that finding.
* `MissesAlwaysCounted`: the miss counter is at least the number of last results that
  were rejected.  The counter also counts iterations without a tool, so it is not
  that number.
* `StepsCounted`: `EveryStepCounts`, from `CountersInv`, which bounds the iterations.
* `SessionImplementsLedger`: the initial state and every step map to `SessionLedger`.
  The ledger is the chain, each receipt with the list its result is on; the guards
  of `Call` follow from `CountersInv` and `MissesCounted`.
* `PromiseKept`: `SessionLedger`'s invariant (`LedgerKeepsPromise`, proved of the abstract
  specification alone), carried to the code by the refinement.

`Agents_proofs` assumes of its constants what `Orchestrator` and `Executor` do, and that
the arguments and results of the session are the executor's (`TriageAssumption`).

* `SessionKeepsProtocol`: every step of the agents is a step of `Orchestrator`, so that
  all its theorems hold of their sessions; `AgentSessionsSound` says so of the main ones.
* `FindingsApproved` needs that an *accepted* result under review is one that was
  approved (`ApprovalInv`): two awaits lie between the YES and the finding.
* `OutagesEndSessions` needs that a silent Scout has no tool under way (`OutageInv`).
* `EvidencePinned`: from `RecordsAgree`, and that every result came from an `Execution`
  of the tool its receipt names (`SuppliedInv`).  `EvidenceOfToolName`, from the same
  invariant, is what remains of `ReceiptNamesItsEvidence`: a receipt's arguments may name
  another path, but its tool name tells what the tool was run on.
* `CatalogAgrees`: in a `run`, whatever evidence is given, a call is refused exactly when
  its tool is not on offer.  `PathDecides`: what comes of a call that is not refused is
  decided by the path.  `CatalogKeepsWord` puts them together: README.md:97 holds under
  two assumptions the code does not check, that the paths exist and that the image, the
  hive and the event log are files.

`Investigation_proofs` is about any number of processes, names and secrets, and any
number of receipts, seconds and damages, from `ProcessAssumption` and `NoneAssumption`.

* `LogsTyped`, `LogsTypeCorrect`: the type invariant, strengthened by the types of
  chains and lines.
* `ChainsAlwaysVerify`: by `AppendVerifies`.
* `LogsAlwaysSigned`: whatever is written or damaged, a line that carries a signature
  carries one that `append` made in a session (`LogsSigned`, inductive).
* `ValidLogsArePrefixes`: from these two by `VerifiedIsPrefix`.
* `ExitZeroSaved`: an invariant on what a process has flushed so far, while nobody
  else has its file name: the first lines of its file are the first of its log.  Other
  processes cannot disturb it (`OthersLeaveLog`).
* `StoppedSaves`: the same invariant, carried over the step that stops the process
  (`StoppedKept`); what `verify` reads in the first lines of a log is `LogReads`, and that
  it accepts them is `PrefixVerifies`.

`ToolWrappers_proofs`: `CallTyped`, `NothingLeft`, `OverdueIsAlwaysError`,
`OkTookEveryRow` and `CallAdvances`, from one inductive invariant that ties the program,
the clocks, the temporary file and the rows to the stage of the call.
`SpectralGate_proofs`: `GateTyped`, `VerdictsFollowAnswer`, and `EmptyIsCaution`, which
`Agents` relies on (`Healths`), for any set of ratios.

Claims that the code does not keep are proved under the conditions they lack.
`OnlyTheseHide` and `OkParsedAll`: the psscan fallback and the three wrappers that pass
output over are the only ways an OK result can hide output that was not parsed; netscan
and cmdline keep the claim.  `OnlyTheseAbort` and `OtherwiseNeverAborts`: the gate raises
only after a transport error other than those it catches, an answer it cannot read or a
ratio that overflows, and never where none occurs.  `NumbersOnly`: without booleans and
NaN in its answers it fabricates no number.

`Amcache_proofs`: `EntriesCorrect` and `EveryPathAccounted` for outputs of any length; the
invariant says that `current` spells the lines since the last path, and lines once read
do not change an entry.

`Benchmark_proofs`: `TableAddsUp`, `SearchIsExhaustive`, `HalfOfBest`, `F1IsOfTheCounts`
and `ExitZeroReported` for any cases file (`BenchmarkAssumption`), results and comparison;
the invariant (`Tally`) says that the findings before `next` are matched or missed, and
that what is left matches nothing missed.  `HalfOfBest` follows: a pair of any other
matching whose finding and result were both left over would contradict that, so each pair
shares a side with a match, and at most two share one with the same match (`AtMostTwice`,
which bounds each side by an injection into the matches).  `F1IsOfTheCounts` needs that
the matches are no more than either side (`NoMoreThanSides`); the identity between the
ratios is `RatiosOfCounts`, by cross-multiplication.

Only model-checked: liveness (the fair part of `LedgerSpec` and of `KeepsProtocol`,
`CallEnds`, `EvaluateEnds`), which TLAPS cannot prove.  `StepsCounted` and `CallAdvances`
are what can be proved of it: a session or a call that goes on taking steps ends, for
any caps and timeouts; that a step can be taken until then (`ENABLED`) is checked.
Every invariant and action property of a passing run is a theorem.

## Not modelled

The language models and their prompts, the external programs' output formats other
than the amcache's (Pydantic field lists, header normalisation: each row is converted on
its own, and is taken, skipped with a note, or passed over without one), report and demo layout
and the means of the benchmark's report, the MCP server's adapters (stateless, not
used by `run`), argument parsing.  The two scripts under `scripts/` are straight-line
regression programs without state.  Cancellation by Ctrl-C while a tool runs is only
the killed process of `Investigation`.  HTTP timeouts are per read: a service that
trickles its answer can hold a post longer than ten seconds, and fairness says only
that it ends.  Session ids with a `|` are left out (see Receipts).

## Plan

What would come next: the benchmark over the real session (`Benchmark` with `Agents`
instead of arbitrary results; its sessions are independent, so this adds little), the
contents of the output directory of `tools/plaso_log2timeline.py` over several calls, and
cancellation of a session while a tool runs.
