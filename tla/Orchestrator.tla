---------------------------- MODULE Orchestrator ----------------------------
(***************************************************************************)
(* One investigation session: Orchestrator.run of                          *)
(* src/sentinel/agents/orchestrator.py.                                    *)
(*                                                                         *)
(* run is one coroutine.  It gives up control only at its five awaits      *)
(* (scout.decide, execute_tool, nitpicker.review, gate.evaluate,           *)
(* judge.synthesize), so pc is the await the coroutine is suspended at, or *)
(* "check" at the head of the loop, and one action is everything the       *)
(* coroutine does from one await returning up to the next.  While it is    *)
(* suspended the monotonic clock runs, by up to AwaitTime.                 *)
(*                                                                         *)
(* The agents, the gate and the executor are parameters of the class; here *)
(* they answer with any value of their protocol's type.                    *)
(***************************************************************************)
EXTENDS Naturals, Sequences, Receipts

CONSTANTS
    CaseId,         \* case_id, also the chain's session_id
    Secret,         \* the HMAC secret
    ToolNames,      \* the names a Scout may answer with
    EmptyName,      \* the empty string, which is one
    None,           \* Python's None
    Args,           \* the argument dictionaries a Scout may answer with
    Outputs,        \* a ToolResult's fields other than its tool_name
    Returns(_, _),  \* the ToolResults execute_tool(name, args) may return
    GateVerdicts,   \* the healths this session's gate can answer
    Timestamps,     \* what time.time_ns() can read at an append
    MaxIterations, MaxConsecutiveStressed, MaxWallSeconds,  \* OrchestratorConfig
    AwaitTime       \* the longest time a single await takes

\* OrchestratorConfig.__post_init__ raises ValueError unless the caps are positive.
ASSUME CapsArePositive ==
    /\ MaxIterations \in Nat \ {0}
    /\ MaxConsecutiveStressed \in Nat \ {0}
    /\ MaxWallSeconds \in Nat \ {0}

ASSUME ClockAssumption == AwaitTime \in Nat /\ Timestamps \subseteq Nat

SpectralHealth == {"healthy", "caution", "stressed"}

ASSUME GateAssumption == GateVerdicts \subseteq SpectralHealth

\* A ToolResult as an executor returns it: to_canonical_bytes covers all of it.
ToolResult == [tool_name: ToolNames, output: Outputs]

ASSUME ExecutorAssumption ==
    \A name \in ToolNames : \A args \in Args : Returns(name, args) \subseteq ToolResult

ASSUME NoneAssumption ==
    None \notin ToolNames /\ None \notin {"scout_done", "max_iterations", "max_stressed",
                                         "wall_timeout"}

StopReason == {"scout_done", "max_iterations", "max_stressed", "wall_timeout"}

VARIABLES
    pc,
    raised,                \* an exception left run at pc
    iteration, consecutive_stressed, findings, rejected,    \* SessionState
    found_at,              \* history: the iteration of the last finding, 0 before
    elapsed,               \* SessionState.elapsed()
    chain,                 \* the shared ReceiptChain
    decision, fresh, accepted,   \* the locals decision, result_with_seq and
                                 \* review.accepted; None or FALSE once dead
    stop_reason

stateVars == <<iteration, consecutive_stressed, findings, rejected>>
localVars == <<decision, fresh, accepted>>
vars == <<pc, raised, stateVars, found_at, elapsed, chain, localVars, stop_reason>>

Awaits == {"decide", "execute", "review", "gate", "judge"}

ScoutDecision == [done: BOOLEAN, tool_name: ToolNames \cup {None}, tool_args: Args]

\* The result in fresh, findings and rejected carries its receipt's sequence.
Settled == [result: ToolResult, receipt_sequence: Nat]

\* Variant: the chain's length is read after the append.
WithReceiptLate(result, sequence) ==
    [result |-> result, receipt_sequence |-> sequence + 1]

\* Variant: the result is kept without its receipt.
WithoutReceipt(result, sequence) == [result |-> result, receipt_sequence |-> None]

\* ToolResult.with_receipt
WithReceipt(result, sequence) == [result |-> result, receipt_sequence |-> sequence]

SessionReceipt == Receipt({CaseId}, {Secret}, ToolNames, Args, ToolResult)

-----------------------------------------------------------------------------
Init ==
    /\ pc = "check" /\ raised = FALSE
    /\ iteration = 0 /\ consecutive_stressed = 0 /\ found_at = 0
    /\ findings = << >> /\ rejected = << >>
    /\ elapsed = 0
    /\ chain = << >>
    /\ decision = None /\ fresh = None /\ accepted = FALSE
    /\ stop_reason = None

\* The coroutine is suspended at an await that now returns.
Resume(await) ==
    /\ pc = await /\ ~raised
    /\ elapsed' \in elapsed..(elapsed + AwaitTime)

\* Variant: no deadline.
CapReachedNoDeadline ==
    IF iteration >= MaxIterations THEN "max_iterations"
    ELSE IF consecutive_stressed >= MaxConsecutiveStressed THEN "max_stressed"
    ELSE None

\* The first cap reached, in the order the code tests them.
CapReached ==
    IF iteration >= MaxIterations THEN "max_iterations"
    ELSE IF elapsed >= MaxWallSeconds THEN "wall_timeout"
    ELSE IF consecutive_stressed >= MaxConsecutiveStressed THEN "max_stressed"
    ELSE None

\* The head of the loop.
CheckCaps ==
    /\ pc = "check" /\ ~raised
    /\ stop_reason' = CapReached
    /\ pc' = IF CapReached = None THEN "decide" ELSE "judge"
    /\ UNCHANGED <<raised, stateVars, found_at, elapsed, chain, localVars>>

\* What run makes of a decision: it is over, a confused cycle, or a call.
Decided(d) ==
    \/ /\ d.done
       /\ stop_reason' = "scout_done"
       /\ pc' = "judge"
       /\ UNCHANGED <<consecutive_stressed, decision>>
    \/ /\ ~d.done /\ d.tool_name = None
       /\ consecutive_stressed' = consecutive_stressed + 1
       /\ pc' = "check"
       /\ UNCHANGED <<decision, stop_reason>>
    \/ /\ ~d.done /\ d.tool_name # None
       /\ decision' = d
       /\ pc' = "execute"
       /\ UNCHANGED <<consecutive_stressed, stop_reason>>

\* Variant: only a decision run can use is an iteration.
DecideOnUncounted(decisions) ==
    /\ Resume("decide")
    /\ \E d \in decisions :
          /\ Decided(d)
          /\ iteration' = iteration + (IF d.done \/ d.tool_name # None THEN 1 ELSE 0)
    /\ UNCHANGED <<raised, findings, rejected, found_at, chain, fresh, accepted>>

\* scout.decide returns.  Every decision is an iteration.
DecideOn(decisions) ==
    /\ Resume("decide")
    /\ iteration' = iteration + 1
    /\ \E d \in decisions : Decided(d)
    /\ UNCHANGED <<raised, findings, rejected, found_at, chain, fresh, accepted>>

Decide == DecideOn(ScoutDecision)

\* execute_tool returns and its receipt is appended.  append refuses an empty
\* tool name, with an exception nothing in run catches.
Execute ==
    /\ Resume("execute")
    /\ \E result \in Returns(decision.tool_name, decision.tool_args), now \in Timestamps :
          IF decision.tool_name = EmptyName
          THEN /\ raised' = TRUE
               /\ UNCHANGED <<pc, chain, decision, fresh>>
          ELSE /\ chain' = Append(chain,
                     NewReceipt(CaseId, Secret, chain, now, decision.tool_name,
                                decision.tool_args, result))
               /\ fresh' = WithReceipt(result, Len(chain))
               /\ decision' = None
               /\ pc' = "review"
               /\ UNCHANGED raised
    /\ UNCHANGED <<stateVars, found_at, accepted, stop_reason>>

\* nitpicker.review returns.
ReviewAs(verdicts) ==
    /\ Resume("review")
    /\ accepted' \in verdicts
    /\ pc' = "gate"
    /\ UNCHANGED <<raised, stateVars, found_at, chain, decision, fresh, stop_reason>>

Review == ReviewAs(BOOLEAN)

\* Variant: a result the Nitpicker refuses is not a miss.
RouteUncounted(health) ==
    IF health = "stressed" \/ ~accepted
    THEN /\ rejected' = Append(rejected, fresh)
         /\ consecutive_stressed' = consecutive_stressed + (IF accepted THEN 1 ELSE 0)
         /\ UNCHANGED findings
    ELSE /\ consecutive_stressed' = 0
         /\ findings' = Append(findings, fresh)
         /\ UNCHANGED rejected

\* Variant: a stressed result the Nitpicker accepted goes on both lists.
RouteTwice(health) ==
    /\ findings' = IF accepted THEN Append(findings, fresh) ELSE findings
    /\ rejected' = IF health = "stressed" \/ ~accepted THEN Append(rejected, fresh)
                   ELSE rejected
    /\ consecutive_stressed' = IF rejected' = rejected THEN 0 ELSE consecutive_stressed + 1

\* Variant: a finding does not end a run of misses.
RouteNoReset(health) ==
    IF health = "stressed" \/ ~accepted
    THEN /\ rejected' = Append(rejected, fresh)
         /\ consecutive_stressed' = consecutive_stressed + 1
         /\ UNCHANGED findings
    ELSE /\ findings' = Append(findings, fresh)
         /\ UNCHANGED <<consecutive_stressed, rejected>>

\* Where the verdicts of the gate and of the Nitpicker send the fresh result.
Route(health) ==
    IF health = "stressed" \/ ~accepted
    THEN /\ rejected' = Append(rejected, fresh)
         /\ consecutive_stressed' = consecutive_stressed + 1
         /\ UNCHANGED findings
    ELSE /\ consecutive_stressed' = 0
         /\ findings' = Append(findings, fresh)
         /\ UNCHANGED rejected

\* gate.evaluate returns, and the fresh result is settled.
SettleBy(healths) ==
    /\ Resume("gate")
    /\ \E health \in healths : Route(health)
    /\ found_at' = IF findings' # findings THEN iteration ELSE found_at
    /\ pc' = "check"
    /\ fresh' = None /\ accepted' = FALSE
    /\ UNCHANGED <<raised, iteration, chain, decision, stop_reason>>

Settle == SettleBy(GateVerdicts)

\* judge.synthesize returns, and run returns its SessionResult.
Synthesize ==
    /\ Resume("judge")
    /\ pc' = "done"
    /\ UNCHANGED <<raised, stateVars, found_at, chain, localVars, stop_reason>>

\* The awaited agent, gate or tool raises; run catches nothing.
RaiseAt(awaits) ==
    /\ \E await \in awaits : Resume(await)
    /\ raised' = TRUE
    /\ UNCHANGED <<pc, stateVars, found_at, chain, localVars, stop_reason>>

AwaitRaises == RaiseAt(Awaits)

Next ==
    \/ CheckCaps \/ Decide \/ Execute \/ Review \/ Settle \/ Synthesize
    \/ AwaitRaises

SafeSpec == Init /\ [][Next]_vars

\* Every await ends: API calls, gate requests and tool runs all have timeouts,
\* and the event loop resumes a coroutine whose await has ended.
Spec == SafeSpec /\ WF_vars(Next)

Over == pc = "done" \/ raised

-----------------------------------------------------------------------------
TypeOK ==
    /\ pc \in Awaits \cup {"check", "done"}
    /\ raised \in BOOLEAN
    /\ iteration \in Nat /\ consecutive_stressed \in Nat /\ found_at \in Nat
    /\ findings \in Seq(Settled) /\ rejected \in Seq(Settled)
    /\ elapsed \in Nat
    /\ chain \in Seq(SessionReceipt)
    /\ IF pc = "execute" THEN decision \in ScoutDecision /\ decision.tool_name \in ToolNames
                         ELSE decision = None
    /\ IF pc \in {"review", "gate"} THEN fresh \in Settled ELSE fresh = None
    /\ accepted \in BOOLEAN
    /\ stop_reason \in StopReason \cup {None}
    /\ stop_reason # None <=> pc \in {"judge", "done"}

\* The receipts of a list of settled results, and of the one still under review.
ReceiptsOf(settled) == {settled[i].receipt_sequence : i \in DOMAIN settled}
Pending == IF pc \in {"review", "gate"} THEN {fresh.receipt_sequence} ELSE {}

(* Safety *)

\* A receipt is settled exactly once: the receipts of findings, of rejected and of
\* the result under review are disjoint, in call order, and are all the chain's.
\* (The report is written from findings and rejected; a call missing from both, or
\* listed in both, would be misreported.)
EveryReceiptSettledOnce ==
    /\ ReceiptsOf(findings) \cup ReceiptsOf(rejected) \cup Pending = 0..(Len(chain) - 1)
    /\ ReceiptsOf(findings) \cap ReceiptsOf(rejected) = {}
    /\ (ReceiptsOf(findings) \cup ReceiptsOf(rejected)) \cap Pending = {}
    /\ \A settled \in {findings, rejected} : \A i, j \in DOMAIN settled :
          i < j => settled[i].receipt_sequence < settled[j].receipt_sequence

\* Every result the Judge reports on is the one its receipt signed: the receipt at
\* its sequence number commits to the same output.
ReceiptSignsResult ==
    \A settled \in {findings, rejected} : \A i \in DOMAIN settled :
        LET n == settled[i].receipt_sequence
        IN  /\ n < Len(chain)
            /\ chain[n + 1].output_sha256 = Sha256(settled[i].result)

\* verify() would succeed at every moment of a session, so also when the report
\* is produced.
ChainVerifies == Verifies(CaseId, Secret, chain)

\* The deadline is tested only between iterations: a session may overrun it, by
\* less than the four awaits of an iteration and the Judge's.
OverrunBounded == elapsed < MaxWallSeconds + 5 * AwaitTime

\* The reason a session gives for ending is what happened: an exhausted budget
\* is named before a passed deadline, a session that stops for its misses has just had
\* MaxConsecutiveStressed iterations in a row without a finding, neither fewer nor more
\* (a finding starts the count again: orchestrator.py:239, test_orchestrator.py:218),
\* and one that goes on has had fewer.  found_at is kept from findings alone.
StopReasonWarranted ==
    /\ stop_reason = "max_iterations" <=> pc \in {"judge", "done"}
                                           /\ iteration = MaxIterations
                                           /\ stop_reason # "scout_done"
    /\ stop_reason = "wall_timeout" => elapsed >= MaxWallSeconds
    /\ stop_reason = "max_stressed" => iteration = found_at + MaxConsecutiveStressed
    /\ pc = "decide" => iteration < found_at + MaxConsecutiveStressed

(* Termination *)

\* At most so many steps are left: eight for each iteration, less those of the
\* current one that are done.
Stage ==
    CASE pc = "execute" -> 6 [] pc = "review" -> 5 [] pc = "gate" -> 4 [] pc = "check" -> 3
      [] pc = "decide" -> 2 [] pc = "judge" -> 1 [] pc = "done" -> 0

StepsLeft == IF raised THEN 0 ELSE 8 * (MaxIterations - iteration) + Stage

\* No turn of the loop is free: every step, also one after a confused decision or a
\* rejected result, brings the session closer to its end, so that it needs no more
\* than 8 * MaxIterations + 3, whatever the agents do (the one increment of
\* orchestrator.py:211, on every path of the loop).
EveryStepCounts == [][StepsLeft' \in Nat /\ StepsLeft' < StepsLeft]_vars

-----------------------------------------------------------------------------
(* A session implements SessionLedger: the ledger is the chain, each receipt *)
(* with the list its result was put on.                                      *)

VerdictOf(n) ==
    IF n \in ReceiptsOf(findings) THEN "accepted"
    ELSE IF n \in ReceiptsOf(rejected) THEN "rejected" ELSE "pending"

LedgerOfSession ==
    [i \in 1..Len(chain) |-> [call |-> [tool_name |-> chain[i].tool_name,
                                       args |-> chain[i].input_sha256.sha256],
                              verdict |-> VerdictOf(i - 1)]]

PhaseOfSession ==
    IF raised THEN "broken_off" ELSE IF pc = "done" THEN "reported" ELSE "open"

Ledger == INSTANCE SessionLedger WITH
    Calls <- [tool_name: ToolNames \ {EmptyName}, args: Args],
    MaxCalls <- MaxIterations,
    MaxRejected <- MaxConsecutiveStressed,
    ledger <- LedgerOfSession,
    phase <- PhaseOfSession

LedgerSpec == Ledger!Spec

\* Whoever reads the record of a session finds no call beyond the cap, none made after
\* MaxConsecutiveStressed rejected ones in a row, none left open before another one was
\* made (the cap of orchestrator.py:206 against the routing of 234-240, four awaits
\* apart), and none left open in a session that reports.
RecordKeepsPromise == Ledger!Promise

=============================================================================
