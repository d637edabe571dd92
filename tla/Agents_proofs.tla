--------------------------- MODULE Agents_proofs ---------------------------
(* Theorems of Agents, for every value of its constants. *)
EXTENDS Agents, Orchestrator_proofs

LEMMA DecisionType ==
    ASSUME NEW reply \in ScoutObject \cup ScoutSilence
    PROVE  DecisionOf(reply) \in ScoutDecision
<1>1. NoDecision \in ScoutDecision
  BY AgentsAssumption DEF NoDecision, ScoutDecision
<1>2. CASE reply \in ScoutObject
  BY <1>2, AgentsAssumption DEF DecisionOf, ScoutObject, ScoutDecision
<1>3. CASE reply \in ScoutSilence
  BY <1>1, <1>3 DEF DecisionOf, ScoutSilence
<1>4. QED  BY <1>2, <1>3

\* A decision made of no usable reply is a confused cycle.
LEMMA SilenceDecides ==
    ASSUME NEW reply \in ScoutObject \cup ScoutSilence, reply.kind # "object",
           Decided(DecisionOf(reply))
    PROVE  /\ consecutive_stressed' = consecutive_stressed + 1
           /\ pc' = "check" /\ stop_reason' = stop_reason
  BY DEF DecisionOf, NoDecision, Decided

\* Each step of the agents is one that run allows.
LEMMA AgentStep ==
    ASSUME AgentNext PROVE Next
<1>1. CASE AgentDecide
  <2>1. PICK reply \in ScoutObject \cup ScoutSilence : DecideOn({DecisionOf(reply)})
    BY <1>1 DEF AgentDecide
  <2>2. DecisionOf(reply) \in ScoutDecision
    BY DecisionType
  <2>3. Decide
    BY <2>1, <2>2 DEF Decide, DecideOn
  <2>4. QED  BY <2>3 DEF Next
<1>2. CASE AgentReview
  <2>1. PICK reply \in NitpickerReply : ReviewAs({Approved(reply)})
    BY <1>2 DEF AgentReview
  <2>2. Approved(reply) \in BOOLEAN
    BY DEF Approved
  <2>3. Review
    BY <2>1, <2>2 DEF Review, ReviewAs
  <2>4. QED  BY <2>3 DEF Next
<1>3. CASE AgentSettle
  <2>1. Healths(reasoning) \subseteq GateVerdicts
    BY AgentsAssumption DEF Healths
  <2>2. Settle
    BY <1>3, <2>1 DEF AgentSettle, Settle, SettleBy
  <2>3. QED  BY <2>2 DEF Next
<1>4. CASE CheckCaps \/ Execute \/ Synthesize
  BY <1>4 DEF Next
<1>5. CASE Raises
  <2>1. AwaitRaises
    BY <1>5 DEF Raises, AwaitRaises, RaiseAt, Awaits
  <2>2. QED  BY <2>1 DEF Next
<1>6. QED  BY <1>1, <1>2, <1>3, <1>4, <1>5 DEF AgentNext

LEMMA AgentStutter ==
    ASSUME [AgentNext]_agentVars PROVE [Next]_vars
  BY AgentStep DEF agentVars

\* Whatever the API answers, a session of the agents is a session of Orchestrator:
\* what is proved of every Scout, Nitpicker and gate holds of these.
THEOREM SessionKeepsProtocol == AgentSpec => SafeSpec
<1>1. AgentInit => Init
  BY DEF AgentInit
<1>2. [AgentNext]_agentVars => [Next]_vars
  BY AgentStutter
<1>3. QED  BY <1>1, <1>2, PTL DEF AgentSpec, SafeSpec

\* What it promises its reader and how long it can go on, in particular: a session of the
\* agents is a ledger, keeps the two lists and the chain in agreement, and comes closer to
\* its end with every step, whatever the API answers.
THEOREM AgentSessionsSound ==
    AgentSpec => /\ Ledger!SafeSpec /\ EveryStepCounts
                 /\ [](EveryReceiptSettledOnce /\ ReceiptSignsResult /\ ChainVerifies)
                 /\ [](OverrunBounded /\ StopReasonWarranted /\ RecordKeepsPromise)
  BY SessionKeepsProtocol, SessionImplementsLedger, StepsCounted, SettledOnce, ResultsSigned,
     ChainAlwaysVerifies, OverrunAlwaysBounded, StopReasonCorrect, PromiseKept, PTL

-----------------------------------------------------------------------------
\* An accepted result under review is one the Nitpicker said YES to.
ApprovalInv ==
    /\ FindingsWereApproved
    /\ pc = "gate" /\ accepted => fresh.receipt_sequence \in approvals

\* No finding without a YES to that very result.
THEOREM FindingsApproved == AgentSpec => []FindingsWereApproved
<1>1. AgentInit => ApprovalInv
  BY DEF AgentInit, Init, ApprovalInv, FindingsWereApproved, ReceiptsOf
<1>2. ASSUME TypeOK, [AgentNext]_agentVars, ApprovalInv PROVE ApprovalInv'
  <2>0. ReceiptsOf(findings) \subseteq approvals
    BY <1>2 DEF ApprovalInv, FindingsWereApproved
  <2>1. CASE AgentDecide
    <3>1. pc' # "gate" /\ UNCHANGED <<findings, approvals>>
      BY <2>1 DEF AgentDecide, DecideOn, Decided
    <3>2. QED  BY <2>0, <3>1 DEF ApprovalInv, FindingsWereApproved, ReceiptsOf
  <2>2. CASE AgentReview
    <3>1. PICK reply \in NitpickerReply :
              /\ ReviewAs({Approved(reply)})
              /\ approvals' = IF reply = "yes" THEN approvals \cup {fresh.receipt_sequence}
                              ELSE approvals
      BY <2>2 DEF AgentReview
    <3>2. UNCHANGED <<findings, fresh>> /\ (accepted' <=> reply = "yes")
      BY <3>1 DEF ReviewAs, Approved, stateVars
    <3>3. accepted' => fresh'.receipt_sequence \in approvals'
      BY <3>1, <3>2
    <3>4. ReceiptsOf(findings)' \subseteq approvals'
      BY <2>0, <3>1, <3>2 DEF ReceiptsOf
    <3>5. QED  BY <3>3, <3>4 DEF ApprovalInv, FindingsWereApproved
  <2>3. CASE AgentSettle
    <3>1. pc' = "check" /\ approvals' = approvals /\ pc = "gate"
      BY <2>3 DEF AgentSettle, SettleBy, Resume
    <3>2. \/ findings' = findings
          \/ accepted /\ findings' = Append(findings, fresh)
      BY <2>3, Zenon DEF AgentSettle, SettleBy, Route
    <3>3. CASE findings' = findings
      BY <2>0, <3>1, <3>3 DEF ApprovalInv, FindingsWereApproved, ReceiptsOf
    <3>4. CASE accepted /\ findings' = Append(findings, fresh)
      <4>1. findings \in Seq(Settled) /\ fresh \in Settled
        BY <1>2, <3>1 DEF TypeOK
      <4>2. ReceiptsOf(Append(findings, fresh)) \subseteq approvals
        BY <1>2, <2>0, <3>1, <3>4, <4>1, ReceiptsOfAppend DEF ApprovalInv
      <4>3. ReceiptsOf(findings)' \subseteq approvals'
        BY <3>1, <3>4, <4>2 DEF ReceiptsOf
      <4>4. QED  BY <3>1, <4>3 DEF ApprovalInv, FindingsWereApproved
    <3>5. QED  BY <3>2, <3>3, <3>4
  <2>4. CASE (CheckCaps \/ Execute \/ Synthesize) /\ UNCHANGED approvals
    <3>1. UNCHANGED findings /\ pc' # "gate"
      BY <2>4 DEF CheckCaps, Execute, Synthesize, Resume, stateVars
    <3>2. QED  BY <2>0, <2>4, <3>1 DEF ApprovalInv, FindingsWereApproved, ReceiptsOf
  <2>5. CASE (Raises \/ UNCHANGED vars) /\ UNCHANGED approvals
    <3>1. UNCHANGED <<pc, findings, fresh, accepted>>
      BY <2>5 DEF Raises, RaiseAt, stateVars, localVars, vars
    <3>2. QED  BY <1>2, <2>5, <3>1 DEF ApprovalInv, FindingsWereApproved, ReceiptsOf
  <2>6. QED  BY <1>2, <2>1, <2>2, <2>3, <2>4, <2>5 DEF AgentNext, agentVars
<1>3. ApprovalInv => FindingsWereApproved
  BY DEF ApprovalInv
<1>4. QED
  BY <1>1, <1>2, <1>3, SessionKeepsProtocol, TypeCorrect, PTL DEF AgentSpec

-----------------------------------------------------------------------------
\* A silent Scout is counted, and only between calls.
OutageInv ==
    /\ silence \in Nat
    /\ HasTool => silence = 0
    /\ OutageEndsSession

\* An outage of the Scout's API ends the session, for every value of the caps.
THEOREM OutagesEndSessions == AgentSpec => []OutageEndsSession
<1>1. AgentInit => OutageInv
  BY CapsArePositive DEF AgentInit, Init, OutageInv, OutageEndsSession, HasTool
<1>2. ASSUME TypeOK, CountersInv, [AgentNext]_agentVars, OutageInv PROVE OutageInv'
  <2>0. /\ silence \in Nat /\ consecutive_stressed \in Nat
        /\ MaxConsecutiveStressed \in Nat
        /\ pc = "decide" => consecutive_stressed < MaxConsecutiveStressed
        /\ silence <= consecutive_stressed
    BY <1>2, CapsArePositive DEF OutageInv, OutageEndsSession, TypeOK, CountersInv
  <2> USE DEF OutageInv, OutageEndsSession, HasTool
  <2>1. CASE AgentDecide
    <3>1. PICK reply \in ScoutObject \cup ScoutSilence :
              /\ DecideOn({DecisionOf(reply)})
              /\ silence' = IF reply.kind = "object" THEN 0 ELSE silence + 1
      BY <2>1 DEF AgentDecide
    <3>2. pc = "decide" /\ Decided(DecisionOf(reply))
      BY <3>1 DEF DecideOn, Resume
    <3>3. CASE reply.kind = "object"
      <4>1. consecutive_stressed' \in {consecutive_stressed, consecutive_stressed + 1}
        BY <3>2 DEF Decided
      <4>2. QED  BY <2>0, <3>1, <3>3, <4>1
    <3>4. CASE reply.kind # "object"
      <4>1. /\ consecutive_stressed' = consecutive_stressed + 1
            /\ pc' = "check" /\ stop_reason' = stop_reason
        BY <3>2, <3>4, SilenceDecides
      <4>2. stop_reason # "scout_done"
        BY <1>2, <3>2, NoneAssumption DEF TypeOK, StopReason
      <4>3. silence' = silence + 1
        BY <3>1, <3>4
      <4>4. QED  BY <2>0, <3>2, <4>1, <4>2, <4>3
    <3>5. QED  BY <3>3, <3>4
  <2>2. CASE AgentSettle
    <3>1. pc = "gate" /\ pc' = "check" /\ UNCHANGED <<silence, stop_reason>>
      BY <2>2 DEF AgentSettle, SettleBy, Resume
    <3>2. consecutive_stressed' \in {0, consecutive_stressed + 1}
      BY <2>2, Zenon DEF AgentSettle, SettleBy, Route
    <3>3. QED  BY <1>2, <2>0, <3>1, <3>2
  <2>3. CASE CheckCaps /\ UNCHANGED silence
    <3>1. /\ pc' \in {"decide", "judge"} /\ stop_reason' # "scout_done"
          /\ UNCHANGED consecutive_stressed
      BY <2>3, NoneAssumption DEF CheckCaps, CapReached, stateVars
    <3>2. QED  BY <1>2, <2>3, <3>1
  <2>4. CASE AgentReview \/ (Execute /\ UNCHANGED silence)
    <3>1. /\ HasTool /\ UNCHANGED <<silence, consecutive_stressed, stop_reason>>
      BY <2>4 DEF AgentReview, ReviewAs, Execute, Resume, stateVars
    <3>2. QED  BY <1>2, <3>1
  <2>5. CASE Synthesize /\ UNCHANGED silence
    <3>1. pc' = "done" /\ UNCHANGED <<consecutive_stressed, stop_reason>>
      BY <2>5 DEF Synthesize, stateVars
    <3>2. QED  BY <1>2, <2>5, <3>1
  <2>6. CASE (Raises \/ UNCHANGED vars) /\ UNCHANGED silence
    <3>1. UNCHANGED <<pc, consecutive_stressed, stop_reason>>
      BY <2>6 DEF Raises, RaiseAt, stateVars, vars
    <3>2. QED  BY <1>2, <2>6, <3>1
  <2>7. QED  BY <1>2, <2>1, <2>2, <2>3, <2>4, <2>5, <2>6 DEF AgentNext, agentVars
<1>3. OutageInv => OutageEndsSession
  BY DEF OutageInv
<1>4. QED
  BY <1>1, <1>2, <1>3, SessionKeepsProtocol, TypeCorrect, CountersCorrect, PTL DEF AgentSpec

-----------------------------------------------------------------------------
(* The evidence.                                                           *)

\* What ran: a result that is no error, or the error of a tool that was started.
Ran(result) == result.output.status # "error" \/ result.output.on # "nothing"

\* What the executor returns of a tool that ran was read from the pinned path.
LEMMA ExecutionReads ==
    ASSUME NEW tool, NEW args \in ToolArgs, NEW result \in Execution(tool, args),
           Ran(result)
    PROVE  /\ tool \in Dispatch /\ KindOf[tool] \in Evidence
           /\ result.output.on = KindOf[tool]
<1>1. tool \in Dispatch /\ KindOf[tool] \in Evidence
  BY DEF Execution, Refused, Ran
<1>2. Pin(tool, args).path = KindOf[tool]
  BY DEF Pin, ToolArgs
<1>3. result.output.on = Pin(tool, args).path
  <2> DEFINE pinned == Pin(tool, args)
             readings == [tool_name: {ResultName(tool)},
                          output: [status: {"ok", "partial", "error"}, on: {pinned.path},
                                   rows: {RowsOf(tool)}]]
  <2>1. result \in IF OthersAccepted(tool, pinned) /\ PathAccepted(tool, pinned.path)
                  THEN readings ELSE {}
    BY <1>1 DEF Execution
  <2>2. result \in readings
    BY <2>1
  <2>3. ASSUME NEW p, NEW n, NEW r, result \in [tool_name: {n},
                     output: [status: {"ok", "partial", "error"}, on: {p}, rows: {r}]]
        PROVE  result.output.on = p
    BY <2>3
  <2>4. QED  BY <2>2, <2>3
<1>4. QED  BY <1>1, <1>2, <1>3

\* An item on one of the lists, or under review, reports on supplied evidence.
Supplied(item) ==
    Ran(item.result) =>
        LET tool == ReceiptOf(item).tool_name
        IN  /\ tool \in Dispatch /\ KindOf[tool] \in Evidence
            /\ item.result.output.on = KindOf[tool]

SuppliedInv ==
    /\ \A item \in SettledItems : Supplied(item)
    /\ UnderReview => Supplied(fresh)

LEMMA ItemsHaveReceipts ==
    ASSUME TypeOK, ReceiptSignsResult, NEW item \in SettledItems
    PROVE  item.receipt_sequence \in Nat /\ item.receipt_sequence < Len(chain)
<1>1. PICK list \in {findings, rejected} : \E i \in DOMAIN list : item = list[i]
  BY DEF SettledItems
<1>2. PICK i \in DOMAIN list : item = list[i]
  BY <1>1
<1>3. list \in Seq(Settled)
  BY DEF TypeOK
<1>4. item.receipt_sequence \in Nat
  BY <1>2, <1>3, SequenceIsNat
<1>5. item.receipt_sequence < Len(chain)
  BY <1>2 DEF ReceiptSignsResult
<1>6. QED  BY <1>4, <1>5

LEMMA SuppliedStep ==
    ASSUME TypeOK, RecordInv, [Next]_vars, SuppliedInv
    PROVE  SuppliedInv'
<1>1. CASE LeavesRecord
  <2>1. SettledItems' = SettledItems /\ fresh' = fresh /\ chain' = chain
        /\ UnderReview' = UnderReview
    BY <1>1 DEF LeavesRecord, SettledItems
  <2>2. QED  BY <2>1 DEF SuppliedInv, Supplied, ReceiptOf
<1>2. CASE Executes
  <2>1. SettledItems' = SettledItems
    BY <1>2 DEF Executes, SettledItems
  <2>2. ASSUME NEW item \in SettledItems PROVE Supplied(item)'
    <3>1. item.receipt_sequence \in Nat /\ item.receipt_sequence < Len(chain)
      BY ItemsHaveReceipts DEF RecordInv
    <3>2. chain'[item.receipt_sequence + 1] = chain[item.receipt_sequence + 1]
      BY <1>2, <3>1, ExecuteExtends
    <3>3. Supplied(item)
      BY DEF SuppliedInv
    <3>4. QED  BY <3>2, <3>3 DEF Supplied, ReceiptOf
  <2>3. Supplied(fresh)'
    <3>1. PICK result \in ToolResult :
              /\ result \in Returns(decision.tool_name, decision.tool_args)
              /\ fresh' = WithReceipt(result, Len(chain))
      BY <1>2 DEF Executes
    <3>2. /\ decision.tool_name \in ToolNames /\ decision.tool_args \in Args
      BY <1>2 DEF Executes, ScoutDecision
    <3>3. /\ result \in Execution(decision.tool_name, decision.tool_args)
          /\ decision.tool_args \in ToolArgs
      BY <3>1, <3>2, TriageAssumption
    <3>4. fresh'.result = result /\ fresh'.receipt_sequence = Len(chain)
      BY <3>1 DEF WithReceipt
    <3>5. chain'[fresh'.receipt_sequence + 1].tool_name = decision.tool_name
      BY <1>2, <3>4, ExecuteExtends
    <3>6. QED  BY <3>3, <3>4, <3>5, ExecutionReads DEF Supplied, ReceiptOf
  <2>4. QED  BY <2>1, <2>2, <2>3 DEF SuppliedInv
<1>3. CASE Settles
  <2>1. /\ chain' = chain /\ fresh \in Settled /\ Supplied(fresh) /\ ~UnderReview'
        /\ findings \in Seq(Settled) /\ rejected \in Seq(Settled)
    BY <1>3 DEF Settles, SuppliedInv, UnderReview, TypeOK
  <2>2. SettledItems' \subseteq SettledItems \cup {fresh}
    <3>1. CASE SettledAsRejected
      BY <2>1, <3>1 DEF SettledAsRejected, SettledItems
    <3>2. CASE SettledAsFinding
      BY <2>1, <3>2 DEF SettledAsFinding, SettledItems
    <3>3. QED  BY <1>3, <3>1, <3>2 DEF Settles
  <2>3. ASSUME NEW item \in SettledItems' PROVE Supplied(item)'
    <3>1. Supplied(item)
      BY <2>1, <2>2, Zenon DEF SuppliedInv
    <3>2. QED  BY <2>1, <3>1 DEF Supplied, ReceiptOf
  <2>4. QED  BY <2>1, <2>3 DEF SuppliedInv
<1>4. QED  BY <1>1, <1>2, <1>3, StepCases

LEMMA SuppliedAlways == SafeSpec => []SuppliedInv
<1>1. Init => SuppliedInv
  BY DEF Init, SuppliedInv, SettledItems, UnderReview
<1>2. TypeOK /\ RecordInv /\ [Next]_vars /\ SuppliedInv => SuppliedInv'
  BY SuppliedStep
<1>3. QED  BY <1>1, <1>2, TypeCorrect, RecordsAgree, PTL DEF SafeSpec

\* A result that is no error was read from the evidence of the tool its receipt
\* names, whatever path the Scout asks for.
THEOREM EvidencePinned == SafeSpec => []OnlySuppliedEvidence
<1>1. SuppliedInv => OnlySuppliedEvidence
  BY DEF SuppliedInv, Supplied, Ran, OnlySuppliedEvidence
<1>2. QED  BY <1>1, SuppliedAlways, PTL

\* The receipt's arguments do not say what a tool was run on (ReceiptNamesItsEvidence is
\* refuted), but its tool name does: every listed result of a tool that ran, failed or
\* not, is of the evidence of that name.
RunOnEvidenceOfTool ==
    \A item \in SettledItems :
        item.result.output.on # "nothing" =>
            LET tool == ReceiptOf(item).tool_name
            IN  tool \in Dispatch /\ item.result.output.on = KindOf[tool]

\* So an auditor can tell from a chain and the command line what each tool was run on.
THEOREM EvidenceOfToolName == SafeSpec => []RunOnEvidenceOfTool
<1>1. SuppliedInv => RunOnEvidenceOfTool
  BY DEF SuppliedInv, Supplied, Ran, RunOnEvidenceOfTool
<1>2. QED  BY <1>1, SuppliedAlways, PTL

\* The catalog and the executor of a `run` agree, whatever evidence is given: a call is
\* refused exactly when its tool is not on offer.  (The assumption cannot be dropped: the
\* benchmark offers every tool to an executor that has no evidence.)
THEOREM CatalogAgrees ==
    ASSUME Command = "run"
    PROVE  SafeSpec => []OfferedExactlyIfServed
<1>1. ASSUME TypeOK PROVE OfferedExactlyIfServed
  <2> DEFINE tool == decision.tool_name
             args == decision.tool_args
             pinned == Pin(tool, args)
             readings == [tool_name: {ResultName(tool)},
                          output: [status: {"ok", "partial", "error"}, on: {pinned.path},
                                   rows: {RowsOf(tool)}]]
  <2>1. SUFFICES ASSUME pc = "execute"
                 PROVE  tool \in Offered <=> Refused(tool) \notin Returns(tool, args)
    BY DEF OfferedExactlyIfServed
  <2>2. /\ Returns(tool, args) = Execution(tool, args) /\ args \in ToolArgs
    BY <1>1, <2>1, TriageAssumption DEF TypeOK, ScoutDecision
  <2>3. tool \in Offered <=> tool \in Dispatch /\ KindOf[tool] \in Evidence
    BY DEF Offered, Catalog
  <2>4. CASE tool \in Offered
    <3>1. Execution(tool, args) \subseteq readings
      BY <2>3, <2>4 DEF Execution
    <3>2. pinned.path = KindOf[tool] /\ KindOf[tool] \in Kinds
      BY <2>2, <2>3, <2>4, EvidenceAssumption DEF Pin, ToolArgs
    <3>3. ASSUME Refused(tool) \in readings PROVE FALSE
      <4>1. Refused(tool).output.on = pinned.path
        <5>1. Refused(tool).output \in [status: {"ok", "partial", "error"},
                                        on: {pinned.path}, rows: {RowsOf(tool)}]
          BY <3>3
        <5> HIDE DEF pinned
        <5>2. QED  BY <5>1
      <4>2. Refused(tool).output.on = "nothing"
        BY DEF Refused
      <4>3. QED  BY <3>2, <4>1, <4>2 DEF Kinds
    <3>4. QED  BY <2>2, <2>4, <3>1, <3>3
  <2>5. CASE tool \notin Offered
    BY <2>2, <2>3, <2>5 DEF Execution
  <2>6. QED  BY <2>4, <2>5
<1>2. QED  BY <1>1, TypeCorrect, PTL

\* What a tool on offer can do is decided by its path: if it exists, and is a file or a
\* disk, a call with valid arguments can succeed; if it does not exist, every call to the
\* tool raises and ends the session.
THEOREM PathDecides ==
    ASSUME NEW tool \in Catalog(Evidence), NEW args \in ToolArgs
    PROVE  /\ KindOf[tool] \in Missing => Execution(tool, args) = {}
           /\ KindOf[tool] \notin Missing \cup (Directories \ {"disk"})
                 /\ OthersAccepted(tool, args) =>
              \E result \in Execution(tool, args) : result.output.status # "error"
<1> DEFINE pinned == Pin(tool, args)
           good == [tool_name |-> ResultName(tool),
                    output |-> [status |-> "ok", on |-> pinned.path, rows |-> RowsOf(tool)]]
<1>1. tool \in Dispatch /\ KindOf[tool] \in Evidence
  BY DEF Catalog
<1>2. pinned.path = KindOf[tool] /\ pinned.others = args.others
  BY DEF Pin, ToolArgs
<1>3. KindOf[tool] = "disk" => tool = "plaso.log2timeline"
  BY <1>1 DEF KindOf, Dispatch
<1>4. ASSUME KindOf[tool] \in Missing PROVE Execution(tool, args) = {}
  BY <1>1, <1>2, <1>4 DEF Execution, PathAccepted
<1>5. ASSUME KindOf[tool] \notin Missing \cup (Directories \ {"disk"}),
             OthersAccepted(tool, args)
      PROVE  \E result \in Execution(tool, args) : result.output.status # "error"
  <2>1. OthersAccepted(tool, pinned) /\ PathAccepted(tool, pinned.path)
    BY <1>1, <1>2, <1>3, <1>5 DEF OthersAccepted, PathAccepted
  <2>2. good \in Execution(tool, args)
    BY <1>1, <2>1 DEF Execution
  <2>3. good.output.status # "error"
    OBVIOUS
  <2>4. QED  BY <2>2, <2>3
<1>6. QED  BY <1>4, <1>5

\* So the documentation's word, which the benchmark breaks and a run with a path that
\* does not exist, is kept by a `run` whose paths all exist and whose memory image, hive
\* and event log are files.
THEOREM CatalogKeepsWord ==
    ASSUME Command = "run", Missing = {}, Directories \subseteq {"disk"}
    PROVE  SafeSpec => []OfferedToolsUsable
<1>1. ASSUME TypeOK PROVE OfferedToolsUsable
  <2> DEFINE tool == decision.tool_name
             args == decision.tool_args
  <2>1. SUFFICES ASSUME pc = "execute", tool \in Offered, OthersAccepted(tool, args)
                 PROVE  \E result \in Returns(tool, args) : result.output.status # "error"
    BY DEF OfferedToolsUsable
  <2>2. Returns(tool, args) = Execution(tool, args) /\ args \in ToolArgs
    BY <1>1, <2>1, TriageAssumption DEF TypeOK, ScoutDecision
  <2>3. tool \in Catalog(Evidence)
    BY <2>1 DEF Offered
  <2> HIDE DEF tool, args
  <2>4. QED  BY <2>1, <2>2, <2>3, PathDecides
<1>2. QED  BY <1>1, TypeCorrect, PTL
=============================================================================
