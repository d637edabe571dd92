------------------------- MODULE Orchestrator_proofs -------------------------
(* Theorems of Orchestrator, for every value of its constants.  None needs the *)
(* fairness of Spec.                                                           *)
EXTENDS Orchestrator, Receipts_proofs

LEMMA NewReceiptType ==
    ASSUME TypeOK, NEW now \in Timestamps, NEW tool \in ToolNames, NEW args \in Args,
           NEW result \in ToolResult
    PROVE  NewReceipt(CaseId, Secret, chain, now, tool, args, result) \in SessionReceipt
<1> DEFINE Digests == Seq(Entry({CaseId}, ToolNames, Args, ToolResult))
           r == NewReceipt(CaseId, Secret, chain, now, tool, args, result)
<1>1. now \in Nat /\ Len(chain) \in Nat
  BY ClockAssumption DEF TypeOK
<1>2. LastDigest(chain) \in Digests
  <2>1. chain # << >> => chain[Len(chain)] \in SessionReceipt
    BY DEF TypeOK
  <2>2. QED  BY <2>1 DEF LastDigest, GENESIS_PREV_DIGEST, SessionReceipt, Receipt
<1>3. r.digest \in Digests
  BY <1>1, <1>2 DEF NewReceipt, CanonicalBody, Entry, Sha256
<1>4. QED
  BY <1>1, <1>2, <1>3 DEF NewReceipt, SessionReceipt, Receipt, Sha256, Hmac, CanonicalBody

\* The fields of a new receipt the session relies on.
LEMMA NewReceiptFields ==
    ASSUME NEW c, NEW now, NEW tool, NEW args, NEW result
    PROVE  LET r == NewReceipt(CaseId, Secret, c, now, tool, args, result)
           IN  /\ r.tool_name = tool
               /\ r.input_sha256.sha256 = args
               /\ r.output_sha256 = Sha256(result)
  BY DEF NewReceipt, Sha256

\* The two ways a result is settled.
SettledAsRejected ==
    /\ rejected' = Append(rejected, fresh) /\ findings' = findings
    /\ consecutive_stressed' = consecutive_stressed + 1

SettledAsFinding ==
    /\ findings' = Append(findings, fresh) /\ rejected' = rejected
    /\ consecutive_stressed' = 0

LEMMA SettleCases == Settle => SettledAsRejected \/ SettledAsFinding
  BY Zenon DEF Settle, SettleBy, Route, SettledAsRejected, SettledAsFinding

LEMMA SettleTypes ==
    ASSUME TypeOK, Settle
    PROVE  /\ findings' \in Seq(Settled) /\ rejected' \in Seq(Settled)
           /\ consecutive_stressed' \in Nat
<1>1. /\ fresh \in Settled /\ findings \in Seq(Settled) /\ rejected \in Seq(Settled)
      /\ consecutive_stressed \in Nat
  BY DEF TypeOK, Settle, SettleBy, Resume
<1>2. CASE SettledAsRejected
  BY <1>1, <1>2 DEF SettledAsRejected
<1>3. CASE SettledAsFinding
  BY <1>1, <1>3 DEF SettledAsFinding
<1>4. QED  BY <1>2, <1>3, SettleCases

-----------------------------------------------------------------------------
\* The session's variables keep their types, and its locals are live exactly
\* where run uses them.
THEOREM TypeCorrect == SafeSpec => []TypeOK
<1>1. Init => TypeOK
  <2>1. Init => raised \in BOOLEAN /\ accepted \in BOOLEAN
    BY DEF Init
  <2>2. QED  BY <2>1, NoneAssumption DEF Init, TypeOK, Awaits, StopReason
<1>2. TypeOK /\ [Next]_vars => TypeOK'
  <2> SUFFICES ASSUME TypeOK, [Next]_vars PROVE TypeOK'
    OBVIOUS
  <2> USE NoneAssumption DEF TypeOK, Awaits, Resume, stateVars, localVars, StopReason
  <2>0. ASSUME NEW await \in Awaits, Resume(await) PROVE elapsed' \in Nat
    BY <2>0, ClockAssumption
  <2>1. CASE CheckCaps
    BY <2>1 DEF CheckCaps, CapReached
  <2>2. CASE Decide
    BY <2>2, <2>0 DEF Decide, DecideOn, Decided, ScoutDecision
  <2>3. CASE Execute
    <3>1. PICK result \in Returns(decision.tool_name, decision.tool_args),
               now \in Timestamps : Execute!2!(result, now)
      BY <2>3 DEF Execute
    <3>2. result \in ToolResult
      BY <2>3, ExecutorAssumption DEF Execute, ScoutDecision
    <3>3. CASE decision.tool_name = EmptyName
      BY <3>1, <3>3, <2>3, <2>0 DEF Execute
    <3>4. CASE decision.tool_name # EmptyName
      <4> DEFINE r == NewReceipt(CaseId, Secret, chain, now, decision.tool_name,
                                 decision.tool_args, result)
      <4>1. r \in SessionReceipt
        BY <2>3, <3>2, NewReceiptType DEF Execute, ScoutDecision
      <4>2. chain' = Append(chain, r) /\ fresh' = WithReceipt(result, Len(chain))
            /\ decision' = None /\ pc' = "review" /\ UNCHANGED raised
        BY <3>1, <3>4
      <4> HIDE DEF r
      <4>3. chain' \in Seq(SessionReceipt) /\ fresh' \in Settled
        BY <4>1, <4>2, <3>2 DEF Settled, WithReceipt
      <4>4. QED  BY <4>2, <4>3, <2>3, <2>0 DEF Execute
    <3>5. QED  BY <3>3, <3>4
  <2>4. CASE Review
    BY <2>4, <2>0 DEF Review, ReviewAs
  <2>5. CASE Settle
    <3>1. /\ findings' \in Seq(Settled) /\ rejected' \in Seq(Settled)
          /\ consecutive_stressed' \in Nat
      BY <2>5, SettleTypes
    <3>2. pc' = "check" /\ fresh' = None /\ accepted' = FALSE
          /\ found_at' \in {iteration, found_at}
          /\ UNCHANGED <<raised, iteration, chain, decision, stop_reason>>
      BY <2>5 DEF Settle, SettleBy
    <3>3. pc = "gate" /\ elapsed' \in Nat
      BY <2>5, <2>0 DEF Settle, SettleBy
    <3>4. QED  BY <3>1, <3>2, <3>3
  <2>6. CASE Synthesize
    BY <2>6, <2>0 DEF Synthesize
  <2>7. CASE AwaitRaises
    BY <2>7, <2>0 DEF AwaitRaises, RaiseAt
  <2>8. CASE UNCHANGED vars
    BY <2>8 DEF vars
  <2>9. QED  BY <2>1, <2>2, <2>3, <2>4, <2>5, <2>6, <2>7, <2>8 DEF Next
<1>3. QED  BY <1>1, <1>2, PTL DEF SafeSpec

-----------------------------------------------------------------------------
(* The receipts and the two lists of results.  Seen from them every step is *)
(* one of three: it leaves them alone, it executes a tool, or it settles a  *)
(* result.                                                                  *)

UnderReview == pc \in {"review", "gate"}

LeavesRecord ==
    /\ UNCHANGED <<chain, findings, rejected, fresh>>
    /\ UnderReview' = UnderReview
    /\ consecutive_stressed' \in {consecutive_stressed, consecutive_stressed + 1}

Executes ==
    /\ pc = "execute" /\ pc' = "review" /\ ~raised /\ ~raised'
    /\ UNCHANGED <<findings, rejected, consecutive_stressed>>
    /\ decision \in ScoutDecision /\ decision.tool_name \in ToolNames \ {EmptyName}
    /\ \E result \in ToolResult, now \in Timestamps :
          /\ result \in Returns(decision.tool_name, decision.tool_args)
          /\ chain' = Append(chain, NewReceipt(CaseId, Secret, chain, now,
                                 decision.tool_name, decision.tool_args, result))
          /\ fresh' = WithReceipt(result, Len(chain))

Settles ==
    /\ pc = "gate" /\ pc' = "check" /\ ~raised /\ ~raised'
    /\ UNCHANGED chain
    /\ SettledAsRejected \/ SettledAsFinding

LEMMA StepCases ==
    ASSUME TypeOK, [Next]_vars
    PROVE  LeavesRecord \/ Executes \/ Settles
<1> USE DEF LeavesRecord, UnderReview, Resume, stateVars, localVars
<1>1. CASE CheckCaps
  BY <1>1 DEF CheckCaps
<1>2. CASE Decide
  BY <1>2 DEF Decide, DecideOn, Decided
<1>3. CASE Execute
  <2>1. PICK result \in Returns(decision.tool_name, decision.tool_args),
             now \in Timestamps : Execute!2!(result, now)
    BY <1>3 DEF Execute
  <2>2. decision \in ScoutDecision /\ decision.tool_name \in ToolNames /\ pc = "execute"
    BY <1>3 DEF TypeOK, Execute
  <2>3. result \in ToolResult
    BY <2>2, ExecutorAssumption DEF ScoutDecision
  <2>4. UNCHANGED <<findings, rejected, consecutive_stressed>>
    BY <1>3 DEF Execute
  <2>5. CASE decision.tool_name = EmptyName
    BY <2>1, <2>4, <2>5
  <2>6. CASE decision.tool_name # EmptyName
    <3>1. /\ chain' = Append(chain, NewReceipt(CaseId, Secret, chain, now,
                                 decision.tool_name, decision.tool_args, result))
          /\ fresh' = WithReceipt(result, Len(chain))
          /\ pc' = "review"
      BY <2>1, <2>6
    <3>2. ~raised /\ ~raised'
      BY <1>3, <2>1, <2>6, Zenon DEF Execute
    <3>3. QED  BY <2>2, <2>3, <2>4, <2>6, <3>1, <3>2, Zenon DEF Executes
  <2>7. QED  BY <2>5, <2>6
<1>4. CASE Review
  BY <1>4 DEF Review, ReviewAs
<1>5. CASE Settle
  BY <1>5, SettleCases, Zenon DEF Settle, SettleBy, Settles
<1>6. CASE Synthesize
  BY <1>6 DEF Synthesize
<1>7. CASE AwaitRaises
  BY <1>7 DEF AwaitRaises, RaiseAt
<1>8. CASE UNCHANGED vars
  BY <1>8 DEF vars
<1>9. QED  BY <1>1, <1>2, <1>3, <1>4, <1>5, <1>6, <1>7, <1>8 DEF Next

LEMMA ReceiptsOfAppend ==
    ASSUME NEW list \in Seq(Settled), NEW item \in Settled
    PROVE  ReceiptsOf(Append(list, item)) = ReceiptsOf(list) \cup {item.receipt_sequence}
<1> DEFINE longer == Append(list, item)
<1>1. /\ DOMAIN longer = DOMAIN list \cup {Len(list) + 1}
      /\ longer[Len(list) + 1] = item
      /\ \A i \in DOMAIN list : longer[i] = list[i]
  OBVIOUS
<1>2. QED  BY <1>1, Zenon DEF ReceiptsOf

\* The result under review is that of the chain's last receipt.
PendingIsLast ==
    UnderReview => /\ Len(chain) > 0
                   /\ fresh.receipt_sequence = Len(chain) - 1
                   /\ chain[Len(chain)].output_sha256 = Sha256(fresh.result)

\* append let no empty name through.
NamesInChain ==
    \A i \in DOMAIN chain : chain[i].tool_name # EmptyName

RecordInv == PendingIsLast /\ NamesInChain /\ EveryReceiptSettledOnce /\ ReceiptSignsResult


\* What a new receipt leaves of the chain.
LEMMA ExecuteExtends ==
    ASSUME TypeOK, Executes
    PROVE  /\ Len(chain) \in Nat /\ Len(chain') = Len(chain) + 1
           /\ \A i \in 1..Len(chain) : chain'[i] = chain[i]
           /\ fresh' \in Settled /\ fresh'.receipt_sequence = Len(chain)
           /\ chain'[Len(chain')].output_sha256 = Sha256(fresh'.result)
           /\ chain'[Len(chain')].tool_name = decision.tool_name
           /\ chain'[Len(chain')].input_sha256.sha256 = decision.tool_args
<1>1. PICK result \in ToolResult, now \in Timestamps :
          /\ chain' = Append(chain, NewReceipt(CaseId, Secret, chain, now,
                                 decision.tool_name, decision.tool_args, result))
          /\ fresh' = WithReceipt(result, Len(chain))
  BY DEF Executes
<1> DEFINE r == NewReceipt(CaseId, Secret, chain, now, decision.tool_name,
                           decision.tool_args, result)
<1>2. /\ r.tool_name = decision.tool_name /\ r.output_sha256 = Sha256(result)
      /\ r.input_sha256.sha256 = decision.tool_args
  BY NewReceiptFields
<1>3. chain \in Seq(SessionReceipt) /\ chain' = Append(chain, r)
  BY <1>1 DEF TypeOK
<1> HIDE DEF r
<1>4. /\ Len(chain) \in Nat /\ Len(chain') = Len(chain) + 1
      /\ chain'[Len(chain) + 1] = r
      /\ \A i \in 1..Len(chain) : chain'[i] = chain[i]
  BY <1>3
<1>5. fresh' \in Settled /\ fresh'.receipt_sequence = Len(chain) /\ fresh'.result = result
  BY <1>1, <1>4 DEF Settled, WithReceipt
<1>6. QED  BY <1>2, <1>4, <1>5

LEMMA PendingIsLastStep ==
    ASSUME TypeOK, [Next]_vars, PendingIsLast
    PROVE  PendingIsLast'
<1>1. CASE LeavesRecord
  BY <1>1 DEF LeavesRecord, PendingIsLast
<1>2. CASE Executes
  BY <1>2, ExecuteExtends DEF PendingIsLast
<1>3. CASE Settles
  BY <1>3 DEF Settles, PendingIsLast, UnderReview
<1>4. QED  BY <1>1, <1>2, <1>3, StepCases

LEMMA NamesInChainStep ==
    ASSUME TypeOK, [Next]_vars, NamesInChain
    PROVE  NamesInChain'
<1>1. CASE LeavesRecord
  BY <1>1 DEF LeavesRecord, NamesInChain
<1>2. CASE Executes
  <2>1. DOMAIN chain' = 1..Len(chain')
    BY <1>2 DEF Executes, TypeOK
  <2>2. decision.tool_name # EmptyName
    BY <1>2 DEF Executes
  <2>3. QED  BY <1>2, <2>1, <2>2, ExecuteExtends DEF NamesInChain
<1>3. CASE Settles
  BY <1>3 DEF Settles, NamesInChain
<1>4. QED  BY <1>1, <1>2, <1>3, StepCases


\* A list of settled results in the order of their receipts.
InCallOrder(list) ==
    \A i, j \in DOMAIN list : i < j => list[i].receipt_sequence < list[j].receipt_sequence

LEMMA AppendInCallOrder ==
    ASSUME NEW list \in Seq(Settled), NEW item \in Settled, InCallOrder(list),
           \A n \in ReceiptsOf(list) : n < item.receipt_sequence
    PROVE  InCallOrder(Append(list, item))
<1> DEFINE longer == Append(list, item)
<1>1. /\ DOMAIN longer = 1..(Len(list) + 1)
      /\ longer[Len(list) + 1] = item
      /\ \A i \in DOMAIN list : longer[i] = list[i]
  OBVIOUS
<1>2. \A i \in 1..Len(list) : list[i].receipt_sequence < item.receipt_sequence
  BY DEF ReceiptsOf
<1>3. SUFFICES ASSUME NEW i \in 1..(Len(list) + 1), NEW j \in 1..(Len(list) + 1), i < j
               PROVE  longer[i].receipt_sequence < longer[j].receipt_sequence
  BY <1>1 DEF InCallOrder
<1>4. i \in 1..Len(list)
  BY <1>3
<1>5. CASE j = Len(list) + 1
  BY <1>1, <1>2, <1>4, <1>5
<1>6. CASE j \in 1..Len(list)
  BY <1>1, <1>3, <1>4, <1>6 DEF InCallOrder
<1>7. QED  BY <1>5, <1>6

LEMMA SettledOnceStep ==
    ASSUME TypeOK, [Next]_vars, PendingIsLast, EveryReceiptSettledOnce
    PROVE  EveryReceiptSettledOnce'
<1> DEFINE F == ReceiptsOf(findings)
           R == ReceiptsOf(rejected)
           P == Pending
           n == Len(chain)
<1>0. /\ findings \in Seq(Settled) /\ rejected \in Seq(Settled) /\ n \in Nat
      /\ F \cup R \cup P = 0..(n - 1) /\ F \cap R = {} /\ (F \cup R) \cap P = {}
      /\ InCallOrder(findings) /\ InCallOrder(rejected)
  BY DEF TypeOK, EveryReceiptSettledOnce, InCallOrder
<1>1. SUFFICES /\ F' \cup R' \cup P' = 0..(n' - 1)
               /\ F' \cap R' = {} /\ (F' \cup R') \cap P' = {}
               /\ InCallOrder(findings') /\ InCallOrder(rejected')
  BY DEF EveryReceiptSettledOnce, InCallOrder
<1>2. CASE LeavesRecord
  <2>1. F' = F /\ R' = R /\ n' = n /\ P' = P
    BY <1>2 DEF LeavesRecord, ReceiptsOf, Pending, UnderReview
  <2>2. QED  BY <1>0, <1>2, <2>1 DEF LeavesRecord
<1>3. CASE Executes
  <2>1. F' = F /\ R' = R
    BY <1>3 DEF Executes, ReceiptsOf
  <2>2. P = {} /\ P' = {n} /\ n' = n + 1
    BY <1>3, ExecuteExtends DEF Executes, Pending
  <2>3. 0..n = (0..(n - 1)) \cup {n} /\ n \notin 0..(n - 1)
    BY <1>0
  <2>4. QED  BY <1>0, <1>3, <2>1, <2>2, <2>3 DEF Executes
<1>4. CASE Settles
  <2>1. fresh \in Settled /\ P = {n - 1} /\ fresh.receipt_sequence = n - 1 /\ n > 0
    BY <1>4 DEF Settles, Pending, PendingIsLast, UnderReview, TypeOK
  <2>2. P' = {} /\ n' = n
    BY <1>4 DEF Settles, Pending
  <2>3. \A m \in F \cup R : m < n - 1
    BY <1>0, <2>1
  <2>4. CASE SettledAsRejected
    <3>1. F' = F /\ R' = R \cup {n - 1} /\ findings' = findings
      <4>1. rejected' = Append(rejected, fresh) /\ findings' = findings
        BY <2>4 DEF SettledAsRejected
      <4>2. ReceiptsOf(Append(rejected, fresh)) = R \cup {n - 1}
        BY <1>0, <2>1, ReceiptsOfAppend
      <4>3. QED  BY <4>1, <4>2
    <3>2. InCallOrder(rejected')
      BY <1>0, <2>1, <2>3, <2>4, AppendInCallOrder DEF SettledAsRejected
    <3>3. QED  BY <1>0, <2>1, <2>2, <3>1, <3>2
  <2>5. CASE SettledAsFinding
    <3>1. F' = F \cup {n - 1} /\ R' = R /\ rejected' = rejected
      <4>1. findings' = Append(findings, fresh) /\ rejected' = rejected
        BY <2>5 DEF SettledAsFinding
      <4>2. ReceiptsOf(Append(findings, fresh)) = F \cup {n - 1}
        BY <1>0, <2>1, ReceiptsOfAppend
      <4>3. QED  BY <4>1, <4>2
    <3>2. InCallOrder(findings')
      BY <1>0, <2>1, <2>3, <2>5, AppendInCallOrder DEF SettledAsFinding
    <3>3. QED  BY <1>0, <2>1, <2>2, <3>1, <3>2
  <2>6. QED  BY <1>4, <2>4, <2>5 DEF Settles
<1>5. QED  BY <1>2, <1>3, <1>4, StepCases

\* A list of settled results, each signed by its receipt.
Signed(list) ==
    \A i \in DOMAIN list :
        LET n == list[i].receipt_sequence
        IN  n < Len(chain) /\ chain[n + 1].output_sha256 = Sha256(list[i].result)


LEMMA SequenceIsNat ==
    ASSUME NEW list \in Seq(Settled), NEW i \in DOMAIN list
    PROVE  list[i].receipt_sequence \in Nat
<1>1. list[i] \in Settled
  OBVIOUS
<1>2. QED  BY <1>1 DEF Settled

LEMMA ReceiptSignsStep ==
    ASSUME TypeOK, [Next]_vars, PendingIsLast, ReceiptSignsResult
    PROVE  ReceiptSignsResult'
<1>0. /\ Signed(findings) /\ Signed(rejected)
      /\ findings \in Seq(Settled) /\ rejected \in Seq(Settled) /\ chain \in Seq(SessionReceipt)
  BY DEF ReceiptSignsResult, Signed, TypeOK
<1>1. SUFFICES Signed(findings)' /\ Signed(rejected)'
  BY DEF ReceiptSignsResult, Signed
<1>2. CASE LeavesRecord
  BY <1>0, <1>2 DEF LeavesRecord, Signed
<1>3. CASE Executes
  <2>1. UNCHANGED <<findings, rejected>>
    BY <1>3 DEF Executes
  <2>2. ASSUME NEW n \in Nat, n < Len(chain)
        PROVE  n < Len(chain') /\ chain'[n + 1] = chain[n + 1]
    BY <1>3, <2>2, ExecuteExtends
  <2>3. \A i \in DOMAIN findings : findings[i].receipt_sequence \in Nat
    BY <1>0, SequenceIsNat
  <2>4. \A i \in DOMAIN rejected : rejected[i].receipt_sequence \in Nat
    BY <1>0, SequenceIsNat
  <2>5. QED  BY <1>0, <2>1, <2>2, <2>3, <2>4 DEF Signed
<1>4. CASE Settles
  <2>1. /\ fresh \in Settled /\ chain' = chain /\ fresh.receipt_sequence < Len(chain)
        /\ chain[fresh.receipt_sequence + 1].output_sha256 = Sha256(fresh.result)
    BY <1>4, <1>0 DEF Settles, PendingIsLast, UnderReview, TypeOK
  <2>2. CASE SettledAsRejected
    BY <1>0, <2>1, <2>2 DEF SettledAsRejected, Signed
  <2>3. CASE SettledAsFinding
    BY <1>0, <2>1, <2>3 DEF SettledAsFinding, Signed
  <2>4. QED  BY <1>4, <2>2, <2>3 DEF Settles
<1>5. QED  BY <1>2, <1>3, <1>4, StepCases

\* The receipts and the two lists agree, in every session.
THEOREM RecordsAgree == SafeSpec => []RecordInv
<1>1. Init => RecordInv
  BY DEF Init, RecordInv, PendingIsLast, UnderReview, NamesInChain, Pending,
         EveryReceiptSettledOnce, ReceiptSignsResult, ReceiptsOf
<1>2. TypeOK /\ RecordInv /\ [Next]_vars => RecordInv'
  BY PendingIsLastStep, NamesInChainStep, SettledOnceStep, ReceiptSignsStep DEF RecordInv
<1>3. QED  BY <1>1, <1>2, TypeCorrect, PTL DEF SafeSpec

\* Every receipt is on exactly one list, or its result is the one under review.
THEOREM SettledOnce == SafeSpec => []EveryReceiptSettledOnce
<1>1. RecordInv => EveryReceiptSettledOnce
  BY DEF RecordInv
<1>2. QED  BY <1>1, RecordsAgree, PTL

\* What the Judge reads is what the receipts signed.
THEOREM ResultsSigned == SafeSpec => []ReceiptSignsResult
<1>1. RecordInv => ReceiptSignsResult
  BY DEF RecordInv
<1>2. QED  BY <1>1, RecordsAgree, PTL

\* The chain of a session verifies at every moment.
THEOREM ChainAlwaysVerifies == SafeSpec => []ChainVerifies
<1>1. Init => ChainVerifies
  BY DEF Init, ChainVerifies, Verifies
<1>2. ASSUME TypeOK, [Next]_vars, ChainVerifies PROVE ChainVerifies'
  <2>1. CASE chain' = chain
    BY <1>2, <2>1 DEF ChainVerifies
  <2>2. CASE Executes
    <3>1. PICK result \in ToolResult, now \in Timestamps :
             chain' = Append(chain, NewReceipt(CaseId, Secret, chain, now,
                                decision.tool_name, decision.tool_args, result))
      BY <2>2 DEF Executes
    <3>2. chain \in Seq(SessionReceipt) /\ Verifies(CaseId, Secret, chain)
      BY <1>2 DEF TypeOK, ChainVerifies
    <3>3. Verifies(CaseId, Secret, chain')
      BY <3>1, <3>2, AppendVerifies
    <3>4. QED  BY <3>3 DEF ChainVerifies
  <2>3. QED  BY <1>2, <2>1, <2>2, StepCases DEF LeavesRecord, Settles
<1>3. QED  BY <1>1, <1>2, TypeCorrect, PTL DEF SafeSpec


-----------------------------------------------------------------------------
(* The clock: how far a session can be past its deadline at each await. *)

TimeSinceCheck ==
    CASE pc = "decide" -> 0 [] pc = "execute" -> AwaitTime
      [] pc = "review" -> 2 * AwaitTime [] pc = "gate" -> 3 * AwaitTime
      [] pc = "check" -> 4 * AwaitTime [] pc = "judge" -> 4 * AwaitTime
      [] pc = "done" -> 5 * AwaitTime

\* A coroutine that was suspended when it raised has used up its await as well.
WallInv ==
    /\ ~raised => elapsed < MaxWallSeconds + TimeSinceCheck
    /\ raised => pc \in Awaits /\ elapsed < MaxWallSeconds + TimeSinceCheck + AwaitTime

\* A session overruns its deadline by less than five awaits.
THEOREM OverrunAlwaysBounded == SafeSpec => []OverrunBounded
<1>1. Init => WallInv
  BY CapsArePositive, ClockAssumption
  DEF Init, WallInv, TimeSinceCheck
<1>2. ASSUME TypeOK, [Next]_vars, WallInv PROVE WallInv'
  <2>0. /\ elapsed \in Nat /\ AwaitTime \in Nat /\ MaxWallSeconds \in Nat
        /\ raised \in BOOLEAN /\ pc \in Awaits \cup {"check", "done"}
    BY <1>2, CapsArePositive, ClockAssumption DEF TypeOK
  <2> USE DEF TimeSinceCheck, Awaits, stateVars, localVars
  <2>1. ASSUME NEW await \in Awaits, Resume(await)
        PROVE  /\ elapsed' \in Nat /\ elapsed' <= elapsed + AwaitTime
               /\ pc = await /\ raised = FALSE
    BY <2>0, <2>1 DEF Resume
  <2>2. CASE CheckCaps
    BY <1>2, <2>0, <2>2, NoneAssumption DEF CheckCaps, CapReached, WallInv
  <2>3. CASE Decide
    BY <1>2, <2>0, <2>1, <2>3 DEF Decide, DecideOn, Decided, WallInv
  <2>4. CASE Execute
    <3>1. \/ raised' = TRUE /\ pc' = pc
          \/ raised' = raised /\ pc' = "review"
      BY <2>4 DEF Execute
    <3>2. /\ pc = "execute" /\ ~raised /\ elapsed' \in Nat
          /\ elapsed' <= elapsed + AwaitTime
      BY <2>1, <2>4 DEF Execute
    <3>3. elapsed' < MaxWallSeconds + 2 * AwaitTime
      BY <1>2, <2>0, <3>2 DEF WallInv
    <3>4. CASE raised' = TRUE /\ pc' = pc
      BY <2>0, <3>2, <3>3, <3>4 DEF WallInv
    <3>5. CASE raised' = raised /\ pc' = "review"
      BY <2>0, <3>2, <3>3, <3>5 DEF WallInv
    <3>6. QED  BY <3>1, <3>4, <3>5
  <2>5. CASE Review
    BY <1>2, <2>0, <2>1, <2>5 DEF Review, ReviewAs, WallInv
  <2>6. CASE Settle
    BY <1>2, <2>0, <2>1, <2>6 DEF Settle, SettleBy, WallInv
  <2>7. CASE Synthesize
    BY <1>2, <2>0, <2>1, <2>7 DEF Synthesize, WallInv
  <2>8. CASE AwaitRaises
    <3>1. PICK await \in Awaits : Resume(await)
      BY <2>8 DEF AwaitRaises, RaiseAt
    <3>2. /\ pc \in Awaits /\ ~raised /\ elapsed' \in Nat
          /\ elapsed' <= elapsed + AwaitTime
      BY <2>1, <3>1
    <3>3. raised' /\ pc' = pc
      BY <2>8 DEF AwaitRaises, RaiseAt
    <3>4. elapsed < MaxWallSeconds + TimeSinceCheck
      BY <1>2, <3>2 DEF WallInv
    <3>5. elapsed' < MaxWallSeconds + TimeSinceCheck + AwaitTime
      BY <2>0, <3>2, <3>4
    <3>6. TimeSinceCheck' = TimeSinceCheck
      BY <3>3
    <3>7. QED  BY <3>2, <3>3, <3>5, <3>6 DEF WallInv
  <2>9. CASE UNCHANGED vars
    BY <1>2, <2>9 DEF vars, WallInv
  <2>10. QED  BY <1>2, <2>2, <2>3, <2>4, <2>5, <2>6, <2>7, <2>8, <2>9 DEF Next
<1>3. TypeOK /\ WallInv => OverrunBounded
  <2> SUFFICES ASSUME TypeOK, WallInv PROVE OverrunBounded
    OBVIOUS
  <2>1. /\ elapsed \in Nat /\ AwaitTime \in Nat /\ MaxWallSeconds \in Nat
        /\ pc \in Awaits \cup {"check", "done"}
    BY CapsArePositive, ClockAssumption DEF TypeOK
  <2>2. CASE raised
    <3>1. pc \in Awaits /\ elapsed < MaxWallSeconds + TimeSinceCheck + AwaitTime
      BY <2>2 DEF WallInv
    <3>2. QED  BY <2>1, <3>1 DEF OverrunBounded, TimeSinceCheck, Awaits
  <2>3. CASE ~raised
    <3>1. elapsed < MaxWallSeconds + TimeSinceCheck
      BY <2>3 DEF WallInv
    <3>2. QED  BY <2>1, <3>1 DEF OverrunBounded, TimeSinceCheck, Awaits
  <2>4. QED  BY <2>2, <2>3
<1>4. QED  BY <1>1, <1>2, <1>3, TypeCorrect, PTL DEF SafeSpec


-----------------------------------------------------------------------------
(* The caps and the counters. *)

HasTool == pc \in {"execute", "review", "gate"}

\* The code's counter is the number of iterations since the last finding, less the one
\* under way: the cap can then be told from the findings.
MissesSinceFinding ==
    pc \notin {"judge", "done"} =>
        iteration = found_at + consecutive_stressed + (IF HasTool THEN 1 ELSE 0)

CountersInv ==
    /\ iteration <= MaxIterations
    /\ pc = "decide" => iteration < MaxIterations
    /\ pc = "decide" \/ HasTool => consecutive_stressed < MaxConsecutiveStressed
    /\ consecutive_stressed <= MaxConsecutiveStressed
    /\ MissesSinceFinding
    /\ Len(chain) + (IF pc = "execute" THEN 1 ELSE 0) <= iteration
    /\ StopReasonWarranted

\* Init and every step keep the counters and the stop reason right.
THEOREM CountersCorrect == SafeSpec => []CountersInv
<1>1. Init => CountersInv
  BY CapsArePositive, NoneAssumption DEF Init, CountersInv, HasTool, MissesSinceFinding,
     StopReasonWarranted
<1>2. ASSUME TypeOK, [Next]_vars, CountersInv PROVE CountersInv'
  <2>0. /\ iteration \in Nat /\ consecutive_stressed \in Nat /\ elapsed \in Nat
        /\ findings \in Seq(Settled) /\ rejected \in Seq(Settled)
        /\ chain \in Seq(SessionReceipt) /\ Len(chain) \in Nat /\ found_at \in Nat
        /\ stop_reason # None <=> pc \in {"judge", "done"}
    BY <1>2 DEF TypeOK
  <2>1. MaxIterations \in Nat /\ MaxConsecutiveStressed \in Nat \ {0} /\ MaxWallSeconds \in Nat
        /\ AwaitTime \in Nat
    BY CapsArePositive, ClockAssumption
  <2> USE NoneAssumption DEF CountersInv, HasTool, MissesSinceFinding, StopReasonWarranted,
                             stateVars, localVars
  <2>2. CASE CheckCaps
    BY <1>2, <2>0, <2>1, <2>2 DEF CheckCaps, CapReached
  <2>3. CASE Decide
    BY <1>2, <2>0, <2>1, <2>3 DEF Decide, DecideOn, Decided, Resume
  <2>4. CASE Execute
    <3>1. /\ pc = "execute" /\ UNCHANGED <<stateVars, found_at, stop_reason>>
          /\ elapsed' \in elapsed..(elapsed + AwaitTime)
      BY <2>4 DEF Execute, Resume
    <3>2. \/ pc' = pc /\ chain' = chain
          \/ Executes
      <4>1. LeavesRecord \/ Executes
        BY <1>2, <3>1, StepCases DEF Settles
      <4>2. pc' \in {"execute", "review"}
        BY <2>4, <3>1 DEF Execute
      <4>3. QED  BY <3>1, <4>1, <4>2 DEF LeavesRecord, UnderReview
    <3>3. CASE pc' = pc /\ chain' = chain
      BY <1>2, <2>0, <2>1, <3>1, <3>3
    <3>4. CASE Executes
      <4>1. Len(chain') = Len(chain) + 1 /\ pc' = "review"
        BY <1>2, <3>4, ExecuteExtends DEF Executes
      <4>2. QED  BY <1>2, <2>0, <2>1, <3>1, <4>1
    <3>5. QED  BY <3>2, <3>3, <3>4
  <2>5. CASE Review
    BY <1>2, <2>0, <2>1, <2>5 DEF Review, ReviewAs, Resume
  <2>6. CASE Settle
    <3>1. /\ pc = "gate" /\ pc' = "check"
          /\ UNCHANGED <<iteration, chain, stop_reason>>
          /\ elapsed' \in elapsed..(elapsed + AwaitTime)
      BY <2>6 DEF Settle, SettleBy, Resume
    <3>2. \/ found_at' = found_at /\ consecutive_stressed' = consecutive_stressed + 1
          \/ found_at' = iteration /\ consecutive_stressed' = 0
      <4>1. found_at' = IF findings' # findings THEN iteration ELSE found_at
        BY <2>6 DEF Settle, SettleBy
      <4>2. CASE SettledAsRejected
        BY <4>1, <4>2 DEF SettledAsRejected
      <4>3. CASE SettledAsFinding
        <5>1. Len(findings') = Len(findings) + 1
          BY <2>0, <4>3 DEF SettledAsFinding
        <5>2. findings' # findings
          BY <2>0, <5>1
        <5>3. QED  BY <4>1, <4>3, <5>2 DEF SettledAsFinding
      <4>4. QED  BY <2>6, <4>2, <4>3, SettleCases
    <3>3. stop_reason' = None /\ iteration = found_at + consecutive_stressed + 1
      BY <1>2, <2>0, <3>1
    <3>4. iteration' = found_at' + consecutive_stressed'
      BY <2>0, <3>1, <3>2, <3>3
    <3>5. consecutive_stressed' <= MaxConsecutiveStressed
      BY <1>2, <2>0, <2>1, <3>1, <3>2
    <3>6. QED  BY <1>2, <2>0, <2>1, <3>1, <3>2, <3>3, <3>4, <3>5
  <2>7. CASE Synthesize
    BY <1>2, <2>0, <2>1, <2>7 DEF Synthesize, Resume
  <2>8. CASE AwaitRaises
    BY <1>2, <2>0, <2>1, <2>8 DEF AwaitRaises, RaiseAt, Resume, Awaits
  <2>9. CASE UNCHANGED vars
    BY <1>2, <2>9 DEF vars
  <2>10. QED  BY <1>2, <2>2, <2>3, <2>4, <2>5, <2>6, <2>7, <2>8, <2>9 DEF Next
<1>3. QED  BY <1>1, <1>2, TypeCorrect, PTL DEF SafeSpec

\* The reason a session gives for ending is what happened (orchestrator.py:193-251): the cap
\* it names was reached, and a session stopped for rejected calls had exactly as many of
\* them in a row, since its last found call, as the cap allows.
THEOREM StopReasonCorrect == SafeSpec => []StopReasonWarranted
<1>1. CountersInv => StopReasonWarranted
  BY DEF CountersInv
<1>2. QED  BY <1>1, CountersCorrect, PTL

-----------------------------------------------------------------------------
\* Nothing a session does is free of charge: StepsLeft is a number, and every step makes
\* it less, for any caps and any agents (orchestrator.py:211, the one increment on every
\* path).  What is not proved of termination is only that a step can be taken.
THEOREM StepsCounted == SafeSpec => EveryStepCounts
<1>1. ASSUME TypeOK, CountersInv, CountersInv', Next
      PROVE  StepsLeft' \in Nat /\ StepsLeft' < StepsLeft
  <2>0. /\ iteration \in Nat /\ MaxIterations \in Nat /\ raised \in BOOLEAN
        /\ iteration <= MaxIterations /\ iteration' <= MaxIterations
    BY <1>1, CapsArePositive DEF TypeOK, CountersInv
  <2> USE DEF StepsLeft, Stage, Resume
  <2>1. CASE CheckCaps
    <3>1. /\ pc = "check" /\ ~raised /\ raised' = raised /\ iteration' = iteration
          /\ pc' \in {"decide", "judge"}
      BY <2>1 DEF CheckCaps, stateVars
    <3>2. QED  BY <2>0, <3>1
  <2>2. CASE Decide
    <3>1. /\ pc = "decide" /\ ~raised /\ raised' = raised /\ iteration' = iteration + 1
          /\ pc' \in {"judge", "check", "execute"}
      BY <2>2 DEF Decide, DecideOn, Decided
    <3>2. QED  BY <2>0, <3>1
  <2>3. CASE Execute
    <3>1. /\ pc = "execute" /\ ~raised /\ iteration' = iteration
          /\ raised' \/ (raised' = raised /\ pc' = "review")
      BY <2>3 DEF Execute, stateVars
    <3>2. QED  BY <2>0, <3>1
  <2>4. CASE Review \/ Settle \/ Synthesize
    <3>1. /\ ~raised /\ raised' = raised /\ iteration' = iteration
          /\ \/ pc = "review" /\ pc' = "gate"
             \/ pc = "gate" /\ pc' = "check"
             \/ pc = "judge" /\ pc' = "done"
      BY <2>4, Zenon DEF Review, ReviewAs, Settle, SettleBy, Synthesize, stateVars
    <3>2. QED  BY <2>0, <3>1
  <2>5. CASE AwaitRaises
    <3>1. /\ pc \in Awaits /\ ~raised /\ raised'
      BY <2>5, Zenon DEF AwaitRaises, RaiseAt
    <3>2. QED  BY <2>0, <3>1 DEF Awaits
  <2>6. QED  BY <1>1, <2>1, <2>2, <2>3, <2>4, <2>5 DEF Next
<1>2. ASSUME TypeOK, CountersInv, CountersInv', [Next]_vars
      PROVE  [StepsLeft' \in Nat /\ StepsLeft' < StepsLeft]_vars
  BY <1>1, <1>2
<1>3. QED
  BY <1>2, TypeCorrect, CountersCorrect, PTL DEF SafeSpec, EveryStepCounts

-----------------------------------------------------------------------------
\* consecutive_stressed counts at least the results rejected since a finding.
SettledCount == IF UnderReview THEN Len(chain) - 1 ELSE Len(chain)

MissesCounted ==
    \A k \in 0..SettledCount :
        (\A m \in k..(SettledCount - 1) : m \in ReceiptsOf(rejected))
            => consecutive_stressed >= SettledCount - k

THEOREM MissesAlwaysCounted == SafeSpec => []MissesCounted
<1> DEFINE n == SettledCount
           R == ReceiptsOf(rejected)
           c == consecutive_stressed
<1>1. Init => MissesCounted
  BY DEF Init, MissesCounted, SettledCount, UnderReview
<1>2. ASSUME TypeOK, RecordInv, [Next]_vars, MissesCounted PROVE MissesCounted'
  <2>0. /\ n \in Nat /\ c \in Nat
        /\ \A k \in 0..n : (\A m \in k..(n - 1) : m \in R) => c >= n - k
    BY <1>2 DEF TypeOK, MissesCounted, SettledCount, RecordInv, PendingIsLast
  <2>1. CASE LeavesRecord \/ Executes
    <3>1. R' = R /\ n' = n /\ c' \in Nat /\ c' >= c
      <4>1. CASE LeavesRecord
        BY <2>0, <4>1 DEF LeavesRecord, SettledCount, UnderReview, ReceiptsOf
      <4>2. CASE Executes
        BY <1>2, <2>0, <4>2, ExecuteExtends DEF Executes, SettledCount, UnderReview, ReceiptsOf
      <4>3. QED  BY <2>1, <4>1, <4>2
    <3> HIDE DEF n, R, c
    <3>2. \A k \in 0..n' : (\A m \in k..(n' - 1) : m \in R') => c' >= n' - k
      BY <2>0, <3>1
    <3>3. QED  BY <3>2 DEF MissesCounted, n, R, c
  <2>2. CASE Settles
    <3>1. /\ fresh \in Settled /\ fresh.receipt_sequence = n /\ n' = n + 1
          /\ findings \in Seq(Settled) /\ rejected \in Seq(Settled)
      BY <1>2, <2>2 DEF TypeOK, RecordInv, PendingIsLast, Settles, SettledCount, UnderReview
    <3>2. CASE SettledAsRejected
      <4>1. R' = R \cup {n} /\ c' = c + 1
        BY <3>1, <3>2, ReceiptsOfAppend DEF SettledAsRejected, ReceiptsOf
      <4> HIDE DEF n, R, c
      <4>2. ASSUME NEW k \in 0..(n + 1), \A m \in k..n : m \in R \cup {n}
            PROVE  c + 1 >= n + 1 - k
        <5>1. CASE k = n + 1
          BY <2>0, <5>1
        <5>2. CASE k \in 0..n
          <6>1. \A m \in k..(n - 1) : m \in R
            BY <2>0, <4>2, <5>2
          <6>2. QED  BY <2>0, <5>2, <6>1
        <5>3. QED  BY <2>0, <5>1, <5>2
      <4>3. ASSUME NEW k \in 0..n', \A m \in k..(n' - 1) : m \in R'
            PROVE  c' >= n' - k
        <5>1. n' = n + 1 /\ n' - 1 = n
          BY <2>0, <3>1
        <5>2. k \in 0..(n + 1) /\ \A m \in k..n : m \in R \cup {n}
          BY <4>1, <4>3, <5>1
        <5>3. QED  BY <4>1, <4>2, <5>1, <5>2
      <4>4. QED  BY <4>3 DEF MissesCounted, n, R, c
    <3>3. CASE SettledAsFinding
      <4>1. R' = R /\ c' = 0 /\ n \notin R
        <5>1. R' = R /\ c' = 0
          BY <3>3 DEF SettledAsFinding, ReceiptsOf
        <5>2. n \notin R
          BY <1>2, <2>2, <3>1 DEF RecordInv, EveryReceiptSettledOnce, Pending, Settles
        <5>3. QED  BY <5>1, <5>2
      <4> HIDE DEF n, R, c
      <4>2. ASSUME NEW k \in 0..(n + 1), \A m \in k..n : m \in R
            PROVE  0 >= n + 1 - k
        BY <2>0, <4>1, <4>2
      <4>3. \A k \in 0..n' : (\A m \in k..(n' - 1) : m \in R') => c' >= n' - k
        BY <2>0, <3>1, <4>1, <4>2
      <4>4. QED  BY <4>3 DEF MissesCounted, n, R, c
    <3>4. QED  BY <2>2, <3>2, <3>3 DEF Settles
  <2>3. QED  BY <1>2, <2>1, <2>2, StepCases
<1>3. QED  BY <1>1, <1>2, TypeCorrect, RecordsAgree, PTL DEF SafeSpec


-----------------------------------------------------------------------------
(* The refinement. *)

\* How a step that leaves the record alone moves the session's phase.
LEMMA PhaseCases ==
    ASSUME TypeOK, [Next]_vars, LeavesRecord
    PROVE  \/ PhaseOfSession' = PhaseOfSession
           \/ PhaseOfSession = "open" /\ PhaseOfSession' = "broken_off"
           \/ PhaseOfSession = "open" /\ PhaseOfSession' = "reported" /\ ~UnderReview
<1> USE DEF PhaseOfSession, UnderReview, Resume
<1>1. CASE CheckCaps
  BY <1>1 DEF CheckCaps
<1>2. CASE Decide
  BY <1>2 DEF Decide, DecideOn, Decided
<1>3. CASE Execute
  BY <1>3 DEF Execute
<1>4. CASE Review
  BY <1>4 DEF Review, ReviewAs
<1>5. CASE Settle
  BY <1>5 DEF Settle, SettleBy
<1>6. CASE Synthesize
  BY <1>6 DEF Synthesize
<1>7. CASE AwaitRaises
  <2>1. PICK await \in Awaits : Resume(await)
    BY <1>7 DEF AwaitRaises, RaiseAt
  <2>2. pc \in Awaits /\ ~raised /\ raised'
    BY <1>7, <2>1, Zenon DEF AwaitRaises, RaiseAt
  <2>3. QED  BY <2>2 DEF Awaits
<1>8. CASE UNCHANGED vars
  BY <1>8 DEF vars
<1>9. QED  BY <1>1, <1>2, <1>3, <1>4, <1>5, <1>6, <1>7, <1>8 DEF Next

LedgerEntry == [call: [tool_name: ToolNames \ {EmptyName}, args: Args],
                verdict: {"pending", "accepted", "rejected"}]

LEMMA LedgerType ==
    ASSUME TypeOK, NamesInChain
    PROVE  /\ LedgerOfSession \in Seq(LedgerEntry)
           /\ Len(LedgerOfSession) = Len(chain)
           /\ \A i \in 1..Len(chain) : LedgerOfSession[i].verdict = VerdictOf(i - 1)
<1>0. chain \in Seq(SessionReceipt) /\ Len(chain) \in Nat
  BY DEF TypeOK
<1>1. ASSUME NEW i \in 1..Len(chain)
      PROVE  [call |-> [tool_name |-> chain[i].tool_name,
                        args |-> chain[i].input_sha256.sha256],
              verdict |-> VerdictOf(i - 1)] \in LedgerEntry
  <2>1. chain[i] \in SessionReceipt /\ chain[i].tool_name # EmptyName
    BY <1>0 DEF NamesInChain
  <2>2. chain[i].tool_name \in ToolNames /\ chain[i].input_sha256.sha256 \in Args
    BY <2>1 DEF SessionReceipt, Receipt
  <2>3. VerdictOf(i - 1) \in {"pending", "accepted", "rejected"}
    BY DEF VerdictOf
  <2>4. QED  BY <2>1, <2>2, <2>3 DEF LedgerEntry
<1>2. QED  BY <1>0, <1>1 DEF LedgerOfSession

\* Outside a review every call of the ledger is settled; during one, all but the last.
LEMMA LedgerSettled ==
    ASSUME TypeOK, RecordInv
    PROVE  /\ ~UnderReview => Ledger!Settled
           /\ UnderReview => ~Ledger!Settled
<1>0. /\ Len(chain) \in Nat /\ LedgerOfSession \in Seq(LedgerEntry)
      /\ Len(LedgerOfSession) = Len(chain)
      /\ \A i \in 1..Len(chain) : LedgerOfSession[i].verdict = VerdictOf(i - 1)
  BY LedgerType DEF RecordInv, TypeOK
<1>1. ASSUME ~UnderReview PROVE Ledger!Settled
  <2>1. \A n \in 0..(Len(chain) - 1) : n \in ReceiptsOf(findings) \cup ReceiptsOf(rejected)
    BY <1>1 DEF RecordInv, EveryReceiptSettledOnce, Pending, UnderReview
  <2>2. \A i \in 1..Len(chain) : VerdictOf(i - 1) # "pending"
    BY <1>0, <2>1 DEF VerdictOf
  <2>3. QED  BY <1>0, <2>2 DEF Ledger!Settled
<1>2. ASSUME UnderReview PROVE ~Ledger!Settled
  <2>1. Len(chain) > 0 /\ Pending = {Len(chain) - 1}
    BY <1>2 DEF RecordInv, PendingIsLast, Pending, UnderReview
  <2>2. VerdictOf(Len(chain) - 1) = "pending"
    BY <2>1 DEF VerdictOf, RecordInv, EveryReceiptSettledOnce
  <2>3. QED  BY <1>0, <2>1, <2>2 DEF Ledger!Settled
<1>3. QED  BY <1>1, <1>2


\* Executing a tool is the ledger's Call.
LEMMA ExecutesIsCall ==
    ASSUME TypeOK, RecordInv, CountersInv, MissesCounted, Executes, TypeOK', NamesInChain'
    PROVE  Ledger!Call
<1> DEFINE n == Len(chain)
           call == [tool_name |-> decision.tool_name, args |-> decision.tool_args]
<1>0. /\ n \in Nat /\ n' = n + 1 /\ ~UnderReview /\ ReceiptsOf(findings)' = ReceiptsOf(findings)
      /\ ReceiptsOf(rejected)' = ReceiptsOf(rejected)
      /\ LedgerOfSession \in Seq(LedgerEntry) /\ Len(LedgerOfSession) = n
      /\ \A i \in 1..n : LedgerOfSession[i].verdict = VerdictOf(i - 1)
  BY ExecuteExtends, LedgerType DEF Executes, UnderReview, ReceiptsOf, RecordInv
<1>1. PhaseOfSession = "open" /\ PhaseOfSession' = "open"
  BY DEF Executes, PhaseOfSession
<1>2. Ledger!Settled
  BY <1>0, LedgerSettled
<1>3. n < MaxIterations
  BY <1>0, CapsArePositive DEF CountersInv, Executes, TypeOK
<1>4. ~Ledger!Exhausted
  <2>1. SUFFICES ASSUME Ledger!Exhausted PROVE FALSE
    OBVIOUS
  <2> DEFINE k == n - MaxConsecutiveStressed
  <2>2. MaxConsecutiveStressed \in Nat /\ k \in 0..n
    BY <1>0, <2>1, CapsArePositive DEF Ledger!Exhausted
  <2>3. ASSUME NEW m \in k..(n - 1) PROVE m \in ReceiptsOf(rejected)
    <3>1. LedgerOfSession[m + 1].verdict = "rejected" /\ m + 1 \in 1..n
      BY <1>0, <2>1, <2>2 DEF Ledger!Exhausted
    <3>2. VerdictOf(m) = "rejected"
      BY <1>0, <2>2, <3>1
    <3>3. QED  BY <3>2 DEF VerdictOf
  <2>4. consecutive_stressed >= n - k
    BY <1>0, <2>2, <2>3 DEF MissesCounted, SettledCount
  <2>5. consecutive_stressed < MaxConsecutiveStressed /\ consecutive_stressed \in Nat
    BY DEF CountersInv, HasTool, Executes, TypeOK
  <2>6. QED  BY <1>0, <2>2, <2>4, <2>5
<1>5. call \in [tool_name: ToolNames \ {EmptyName}, args: Args]
  BY DEF Executes, ScoutDecision
<1>6. LedgerOfSession' = Append(LedgerOfSession, [call |-> call, verdict |-> "pending"])
  <2> DEFINE longer == Append(LedgerOfSession, [call |-> call, verdict |-> "pending"])
  <2>1. /\ LedgerOfSession' = [i \in 1..(n + 1) |-> LedgerOfSession'[i]]
        /\ longer = [i \in 1..(n + 1) |-> longer[i]]
    BY <1>0 DEF LedgerOfSession
  <2>2. ASSUME NEW i \in 1..(n + 1) PROVE LedgerOfSession'[i] = longer[i]
    <3>1. CASE i \in 1..n
      <4>1. longer[i] = LedgerOfSession[i]
        BY <1>0, <3>1
      <4>2. chain'[i] = chain[i] /\ VerdictOf(i - 1)' = VerdictOf(i - 1)
        BY <1>0, <3>1, ExecuteExtends DEF VerdictOf
      <4>3. LedgerOfSession'[i] = LedgerOfSession[i]
        BY <1>0, <3>1, <4>2 DEF LedgerOfSession
      <4>4. QED  BY <4>1, <4>3
    <3>2. CASE i = n + 1
      <4>1. chain'[i].tool_name = decision.tool_name
            /\ chain'[i].input_sha256.sha256 = decision.tool_args
        BY <1>0, <3>2, ExecuteExtends
      <4>2. n \notin ReceiptsOf(findings) \cup ReceiptsOf(rejected)
        BY <1>0 DEF RecordInv, EveryReceiptSettledOnce
      <4>3. VerdictOf(i - 1)' = "pending"
        BY <1>0, <3>2, <4>2 DEF VerdictOf
      <4>4. QED  BY <1>0, <3>2, <4>1, <4>3 DEF LedgerOfSession
    <3>3. QED  BY <1>0, <3>1, <3>2
  <2> HIDE DEF longer
  <2>3. LedgerOfSession' = longer
    BY <2>1, <2>2
  <2>4. QED  BY <2>3 DEF longer
<1>7. QED  BY <1>0, <1>1, <1>2, <1>3, <1>4, <1>5, <1>6 DEF Ledger!Call


\* Settling a result is the ledger's SettleCall.
LEMMA SettlesIsSettleCall ==
    ASSUME TypeOK, RecordInv, Settles
    PROVE  Ledger!SettleCall
<1> DEFINE n == Len(chain)
<1>0. /\ n \in Nat /\ UnderReview /\ n > 0 /\ chain' = chain
      /\ fresh \in Settled /\ fresh.receipt_sequence = n - 1
      /\ findings \in Seq(Settled) /\ rejected \in Seq(Settled)
      /\ LedgerOfSession \in Seq(LedgerEntry) /\ Len(LedgerOfSession) = n
      /\ \A i \in 1..n : LedgerOfSession[i].verdict = VerdictOf(i - 1)
  BY LedgerType DEF Settles, UnderReview, RecordInv, PendingIsLast, TypeOK
<1>1. PhaseOfSession = "open" /\ PhaseOfSession' = "open"
  BY DEF Settles, PhaseOfSession
<1>2. ~Ledger!Settled
  BY <1>0, LedgerSettled
<1>3. n - 1 \notin ReceiptsOf(findings) \cup ReceiptsOf(rejected)
  BY <1>0 DEF RecordInv, EveryReceiptSettledOnce, Pending, UnderReview
<1>4. ASSUME NEW verdict \in {"accepted", "rejected"},
             \A m \in 0..(n - 1) :
                VerdictOf(m)' = IF m = n - 1 THEN verdict ELSE VerdictOf(m)
      PROVE  LedgerOfSession' = [LedgerOfSession EXCEPT ![Len(LedgerOfSession)].verdict = verdict]
  <2> DEFINE settled == [LedgerOfSession EXCEPT ![n].verdict = verdict]
  <2>1. /\ LedgerOfSession' = [i \in 1..n |-> LedgerOfSession'[i]]
        /\ settled = [i \in 1..n |-> settled[i]]
    BY <1>0 DEF LedgerOfSession
  <2>2. ASSUME NEW i \in 1..n PROVE LedgerOfSession'[i] = settled[i]
    <3>1. LedgerOfSession'[i] = [call |-> LedgerOfSession[i].call, verdict |-> VerdictOf(i - 1)']
      BY <1>0 DEF LedgerOfSession
    <3>2. CASE i = n
      <4>1. settled[i] = [call |-> LedgerOfSession[i].call, verdict |-> verdict]
        BY <1>0, <3>2 DEF LedgerOfSession
      <4>2. QED  BY <1>4, <3>1, <3>2, <4>1
    <3>3. CASE i \in 1..(n - 1)
      <4>1. settled[i] = LedgerOfSession[i]
        BY <1>0, <3>3
      <4>2. LedgerOfSession[i] = [call |-> LedgerOfSession[i].call, verdict |-> VerdictOf(i - 1)]
        BY <1>0 DEF LedgerOfSession
      <4>3. VerdictOf(i - 1)' = VerdictOf(i - 1)
        BY <1>0, <1>4, <3>3
      <4>4. QED  BY <3>1, <4>1, <4>2, <4>3
    <3>4. QED  BY <1>0, <3>2, <3>3
  <2> HIDE DEF settled
  <2>3. LedgerOfSession' = settled
    BY <2>1, <2>2
  <2>4. QED  BY <1>0, <2>3 DEF settled
<1>5. CASE SettledAsRejected
  <2>1. ReceiptsOf(rejected)' = ReceiptsOf(rejected) \cup {n - 1}
        /\ ReceiptsOf(findings)' = ReceiptsOf(findings)
    <3>1. /\ rejected \in Seq(Settled) /\ fresh \in Settled /\ fresh.receipt_sequence = n - 1
          /\ rejected' = Append(rejected, fresh) /\ findings' = findings
      BY <1>0, <1>5 DEF SettledAsRejected
    <3> HIDE DEF n
    <3>2. QED  BY <3>1, ReceiptsOfAppend DEF ReceiptsOf
  <2>2. \A m \in 0..(n - 1) :
           VerdictOf(m)' = IF m = n - 1 THEN "rejected" ELSE VerdictOf(m)
    BY <1>0, <1>3, <2>1 DEF VerdictOf
  <2>3. LedgerOfSession' = [LedgerOfSession EXCEPT ![Len(LedgerOfSession)].verdict = "rejected"]
    BY <1>4, <2>2
  <2>4. QED  BY <1>1, <1>2, <2>3 DEF Ledger!SettleCall
<1>6. CASE SettledAsFinding
  <2>1. ReceiptsOf(findings)' = ReceiptsOf(findings) \cup {n - 1}
        /\ ReceiptsOf(rejected)' = ReceiptsOf(rejected)
    <3>1. /\ findings \in Seq(Settled) /\ fresh \in Settled /\ fresh.receipt_sequence = n - 1
          /\ findings' = Append(findings, fresh) /\ rejected' = rejected
      BY <1>0, <1>6 DEF SettledAsFinding
    <3> HIDE DEF n
    <3>2. QED  BY <3>1, ReceiptsOfAppend DEF ReceiptsOf
  <2>2. \A m \in 0..(n - 1) :
           VerdictOf(m)' = IF m = n - 1 THEN "accepted" ELSE VerdictOf(m)
    BY <1>0, <1>3, <2>1 DEF VerdictOf
  <2>3. LedgerOfSession' = [LedgerOfSession EXCEPT ![Len(LedgerOfSession)].verdict = "accepted"]
    BY <1>4, <2>2
  <2>4. QED  BY <1>1, <1>2, <2>3 DEF Ledger!SettleCall
<1>7. QED  BY <1>5, <1>6 DEF Settles

\* A session is a ledger: calls recorded in order and settled once each, none beyond
\* the caps, none left open by a session that reports.
THEOREM SessionImplementsLedger == SafeSpec => Ledger!SafeSpec
<1>1. Init => Ledger!Init
  BY DEF Init, Ledger!Init, LedgerOfSession, PhaseOfSession
<1>2. ASSUME TypeOK, TypeOK', RecordInv, RecordInv', CountersInv, MissesCounted, [Next]_vars
      PROVE  [Ledger!Next]_(Ledger!vars)
  <2>1. CASE LeavesRecord
    <3>1. LedgerOfSession' = LedgerOfSession
      BY <2>1 DEF LeavesRecord, LedgerOfSession, VerdictOf, ReceiptsOf
    <3>2. CASE PhaseOfSession' = PhaseOfSession
      BY <3>1, <3>2 DEF Ledger!vars
    <3>3. CASE PhaseOfSession = "open" /\ PhaseOfSession' = "broken_off"
      BY <3>1, <3>3 DEF Ledger!Next, Ledger!BreakOff
    <3>4. CASE PhaseOfSession = "open" /\ PhaseOfSession' = "reported" /\ ~UnderReview
      <4>1. Ledger!Settled
        BY <1>2, <3>4, LedgerSettled
      <4>2. QED  BY <3>1, <3>4, <4>1 DEF Ledger!Next, Ledger!Report
    <3>5. QED  BY <1>2, <2>1, <3>2, <3>3, <3>4, PhaseCases
  <2>2. CASE Executes
    BY <1>2, <2>2, ExecutesIsCall DEF Ledger!Next, RecordInv
  <2>3. CASE Settles
    BY <1>2, <2>3, SettlesIsSettleCall DEF Ledger!Next
  <2>4. QED  BY <1>2, <2>1, <2>2, <2>3, StepCases
<1>3. QED
  BY <1>1, <1>2, TypeCorrect, RecordsAgree, CountersCorrect, MissesAlwaysCounted, PTL
  DEF SafeSpec, Ledger!SafeSpec
-----------------------------------------------------------------------------
\* What SessionLedger promises follows from what it is.
LEMMA LedgerKeepsPromise == Ledger!SafeSpec => [](Ledger!LedgerTypeOK /\ Ledger!Promise)
<1> DEFINE L == LedgerOfSession
           Inv == Ledger!LedgerTypeOK /\ Ledger!Promise
<1> USE CapsArePositive
<1>1. Ledger!Init => Inv
  BY DEF Ledger!Init, Ledger!LedgerTypeOK, Ledger!Promise, Ledger!OnlyLastOpen,
         Ledger!NoneAfterRejections
<1>2. ASSUME Inv, [Ledger!Next]_(Ledger!vars) PROVE Inv'
  <2>0. /\ L \in Seq([call: [tool_name: ToolNames \ {EmptyName}, args: Args],
                      verdict: Ledger!Verdicts])
        /\ Len(L) \in Nat /\ DOMAIN L = 1..Len(L)
    BY <1>2 DEF Ledger!LedgerTypeOK
  <2>1. CASE Ledger!Call
    <3>1. PICK call \in [tool_name: ToolNames \ {EmptyName}, args: Args] :
             L' = Append(L, [call |-> call, verdict |-> "pending"])
      BY <2>1 DEF Ledger!Call
    <3>2. /\ PhaseOfSession = "open" /\ PhaseOfSession' = PhaseOfSession
          /\ Ledger!Settled /\ ~Ledger!Exhausted /\ Len(L) < MaxIterations
      BY <2>1 DEF Ledger!Call
    <3>3. /\ Ledger!LedgerTypeOK' /\ Len(L') = Len(L) + 1 /\ DOMAIN L' = 1..(Len(L) + 1)
          /\ \A i \in 1..Len(L) : L'[i] = L[i]
      BY <1>2, <2>0, <3>1, <3>2 DEF Ledger!LedgerTypeOK, Ledger!Verdicts
    <3>4. Ledger!OnlyLastOpen'
      BY <2>0, <3>2, <3>3 DEF Ledger!OnlyLastOpen, Ledger!Settled
    <3>5. Ledger!NoneAfterRejections'
      <4>1. SUFFICES ASSUME NEW i \in 1..(Len(L) + 1), i > MaxConsecutiveStressed
                     PROVE  \E k \in (i - MaxConsecutiveStressed)..(i - 1) :
                               L'[k].verdict # "rejected"
        BY <3>3 DEF Ledger!NoneAfterRejections
      <4>2. PICK k \in (i - MaxConsecutiveStressed)..(i - 1) : L[k].verdict # "rejected"
        <5>1. CASE i \in 1..Len(L)
          BY <1>2, <2>0, <4>1, <5>1 DEF Ledger!Promise, Ledger!NoneAfterRejections
        <5>2. CASE i = Len(L) + 1
          BY <2>0, <3>2, <4>1, <5>2 DEF Ledger!Exhausted
        <5>3. QED  BY <2>0, <5>1, <5>2
      <4>3. L'[k] = L[k]
        BY <2>0, <3>3, <4>1
      <4>4. QED  BY <4>2, <4>3
    <3>6. QED  BY <2>0, <3>2, <3>3, <3>4, <3>5 DEF Ledger!Promise
  <2>2. CASE Ledger!SettleCall
    <3>1. PICK verdict \in {"accepted", "rejected"} :
             L' = [L EXCEPT ![Len(L)].verdict = verdict]
      BY <2>2 DEF Ledger!SettleCall
    <3>2. PhaseOfSession = "open" /\ PhaseOfSession' = PhaseOfSession /\ ~Ledger!Settled
      BY <2>2 DEF Ledger!SettleCall
    <3>3. Len(L) \in 1..Len(L)
      BY <2>0, <3>2 DEF Ledger!Settled
    <3>4. /\ Ledger!LedgerTypeOK' /\ Len(L') = Len(L) /\ DOMAIN L' = 1..Len(L)
          /\ L'[Len(L)].verdict = verdict
          /\ \A i \in 1..Len(L) : i # Len(L) => L'[i] = L[i]
      <4> DEFINE E == [call: [tool_name: ToolNames \ {EmptyName}, args: Args],
                       verdict: Ledger!Verdicts]
                 n == Len(L)
                 e == [L[n] EXCEPT !.verdict = verdict]
      <4>1. L \in Seq(E) /\ n \in 1..n /\ n \in Nat /\ n = Len(L)
        BY <2>0, <3>3
      <4>2. L' = [L EXCEPT ![n] = e]
        BY <3>1
      <4> HIDE DEF n
      <4>3. L[n] \in E
        <5> HIDE DEF E, L
        <5>1. QED  BY <4>1
      <4>4. e \in E /\ e.verdict = verdict
        BY <4>3 DEF Ledger!Verdicts
      <4>5. PhaseOfSession' \in {"open", "reported", "broken_off"}
        BY <3>2
      <4> HIDE DEF E, e, L
      <4>6. L' \in Seq(E) /\ Len(L') = n /\ DOMAIN L' = 1..n /\ L'[n] = e
            /\ \A i \in 1..n : i # n => L'[i] = L[i]
        BY <4>1, <4>2, <4>4
      <4>7. Ledger!LedgerTypeOK'
        BY <4>5, <4>6 DEF Ledger!LedgerTypeOK, Ledger!Verdicts, E, L
      <4>8. QED  BY <4>4, <4>6, <4>7 DEF n
    <3>5. Ledger!OnlyLastOpen'
      BY <1>2, <2>0, <3>2, <3>4 DEF Ledger!OnlyLastOpen, Ledger!Promise
    <3>6. Ledger!NoneAfterRejections'
      <4>1. SUFFICES ASSUME NEW i \in 1..Len(L), i > MaxConsecutiveStressed
                     PROVE  \E k \in (i - MaxConsecutiveStressed)..(i - 1) :
                               L'[k].verdict # "rejected"
        BY <3>4 DEF Ledger!NoneAfterRejections
      <4>2. PICK k \in (i - MaxConsecutiveStressed)..(i - 1) : L[k].verdict # "rejected"
        BY <1>2, <2>0, <4>1 DEF Ledger!Promise, Ledger!NoneAfterRejections
      <4>3. L'[k] = L[k]
        <5>1. Len(L) \in Nat /\ MaxConsecutiveStressed \in Nat
              /\ k \in (i - MaxConsecutiveStressed)..(i - 1)
          BY <2>0
        <5> HIDE DEF L
        <5>2. k \in 1..Len(L) /\ k # Len(L)
          BY <4>1, <5>1
        <5>3. QED  BY <3>4, <5>2
      <4>4. QED  BY <4>2, <4>3
    <3>7. QED  BY <1>2, <2>0, <3>4, <3>5, <3>6 DEF Ledger!Promise
  <2>3. CASE Ledger!Report \/ Ledger!BreakOff
    <3>1. /\ L' = L /\ PhaseOfSession' \in {"reported", "broken_off"}
          /\ PhaseOfSession' = "reported" => Ledger!Settled
      BY <2>3 DEF Ledger!Report, Ledger!BreakOff
    <3>2. Ledger!LedgerTypeOK'
      BY <1>2, <3>1 DEF Ledger!LedgerTypeOK
    <3>3. Ledger!OnlyLastOpen'
      BY <1>2, <3>1 DEF Ledger!OnlyLastOpen, Ledger!Promise, Ledger!Settled
    <3>4. QED  BY <1>2, <3>1, <3>2, <3>3 DEF Ledger!Promise, Ledger!NoneAfterRejections
  <2>4. CASE UNCHANGED Ledger!vars
    BY <1>2, <2>4 DEF Ledger!vars, Ledger!LedgerTypeOK, Ledger!Promise, Ledger!OnlyLastOpen,
         Ledger!NoneAfterRejections
  <2>5. QED  BY <1>2, <2>1, <2>2, <2>3, <2>4 DEF Ledger!Next
<1>3. QED  BY <1>1, <1>2, PTL DEF Ledger!SafeSpec

\* The record of a session keeps the ledger's promise, whatever the caps.
THEOREM PromiseKept == SafeSpec => []RecordKeepsPromise
<1>1. Ledger!LedgerTypeOK /\ Ledger!Promise => RecordKeepsPromise
  BY DEF RecordKeepsPromise
<1>2. QED  BY <1>1, LedgerKeepsPromise, SessionImplementsLedger, PTL
=============================================================================
