------------------------ MODULE ToolWrappers_proofs ------------------------
(* One call of a wrapper, for any set of wrappers and any timing. *)
EXTENDS ToolWrappers, TLAPS

\* The minutes the programs before this one have had.
Before == IF stage = 1 THEN 0 ELSE Timeouts[tool][1]

\* The clock of the call goes with those of its programs.
ClocksAgree ==
    /\ elapsed <= ran + Before
    /\ pc = "spawn" => ran = 0
    /\ ran > Timeouts[tool][stage] => pc = "killing" \/ result = Error

\* No program runs before it is started or after the call.
ChildTracked ==
    /\ pc = "spawn" => child = "none"
    /\ pc \in Over => child # "running" /\ ~temp

\* A stage's output is looked at when its program is through, and once.
RowsTracked ==
    /\ unparsed \subseteq 1..stage
    /\ pc \notin Over => stage \notin unparsed /\ result = NoResult
    /\ result.status = "ok" => result.rows_of = stage /\ stage \notin unparsed

IInv == TypeOK /\ ClocksAgree /\ ChildTracked /\ RowsTracked

LEMMA TimeoutsNat ==
    ASSUME NEW t \in DOMAIN Timeouts
    PROVE  /\ Len(Timeouts[t]) \in 1..2 /\ DOMAIN Timeouts[t] = 1..Len(Timeouts[t])
           /\ \A i \in DOMAIN Timeouts[t] : Timeouts[t][i] \in Nat
           /\ t \in {"volatility.pslist", "plaso.log2timeline"} => 2 \in DOMAIN Timeouts[t]
<1>1. Timeouts[t] \in {<<3, 3>>, <<60, 10>>, <<2>>, <<5>>, <<3>>}
  BY DEF Timeouts
<1>2. t = "volatility.pslist" => Timeouts[t] = <<3, 3>>
  BY DEF Timeouts
<1>3. t = "plaso.log2timeline" => Timeouts[t] = <<60, 10>>
  BY DEF Timeouts
<1>4. QED  BY <1>1, <1>2, <1>3

LEMMA ToolTimeouts ==
    ASSUME TypeOK
    PROVE  /\ tool \in DOMAIN Timeouts /\ stage \in 1..2 /\ stage \in DOMAIN Timeouts[tool]
           /\ 1 \in DOMAIN Timeouts[tool] /\ DOMAIN Timeouts[tool] = 1..Len(Timeouts[tool])
           /\ \A i \in DOMAIN Timeouts[tool] : Timeouts[tool][i] \in Nat
           /\ ran \in Nat /\ ran <= Timeouts[tool][stage] + MaxLinger /\ elapsed \in Nat
           /\ MaxLinger \in Nat
           /\ stage = 2 <=> stage # 1
<1>1. tool \in DOMAIN Timeouts /\ stage \in DOMAIN Timeouts[tool]
  BY ToolsAssumption DEF TypeOK
<1>2. QED  BY <1>1, TimeoutsNat, ToolsAssumption DEF TypeOK

\* A call that ends, with the program ended or never started.
LEMMA EndKeeps ==
    ASSUME IInv, pc \notin Over, child # "running",
           NEW how \in Over, NEW answer \in {Error, NoResult}, End(how, answer),
           how = "returned" <=> answer # NoResult,
           pc = "killing" => answer = Error,
           UNCHANGED <<tool, stage, child, ran, elapsed, rows>>
    PROVE  IInv'
<1>1. TypeOK'
  <2>1. answer \in [status: {"none", "ok", "partial", "error"}, rows_of: 0..stage]
    BY ToolTimeouts DEF IInv, Error, NoResult
  <2>2. QED  BY <2>1 DEF IInv, TypeOK, End, Over, rows
<1>2. ClocksAgree' /\ ChildTracked' /\ RowsTracked'
  BY DEF IInv, ClocksAgree, ChildTracked, RowsTracked, End, Over, Error, NoResult, Before, rows
<1>3. QED  BY <1>1, <1>2 DEF IInv

\* The second program is due; the first had its timeout at most.
LEMMA NextStageKeeps ==
    ASSUME IInv, pc = "running", stage = 1, NextStage, child = "ended",
           tool \in {"volatility.pslist", "plaso.log2timeline"},
           unparsed' \in {unparsed, unparsed \cup {1}}, UNCHANGED <<tool, elapsed, unread>>
    PROVE  IInv'
<1>1. 2 \in DOMAIN Timeouts[tool] /\ Timeouts[tool][2] \in Nat /\ Timeouts[tool][1] \in Nat
  BY TimeoutsNat, ToolTimeouts DEF IInv
<1>2. TypeOK'
  BY <1>1, ToolTimeouts DEF IInv, TypeOK, NextStage, Over, NoResult
<1>3. ClocksAgree'
  <2>1. elapsed <= ran /\ ran <= Timeouts[tool][1] /\ elapsed \in Nat /\ ran \in Nat
    BY ToolTimeouts DEF IInv, ClocksAgree, Before, TypeOK
  <2>2. QED  BY <1>1, <2>1 DEF ClocksAgree, Before, NextStage
<1>4. ChildTracked' /\ RowsTracked'
  <2>1. 2 \notin unparsed' /\ result' = NoResult
    <3>1. 2 \notin unparsed
      BY DEF IInv, RowsTracked
    <3>2. QED  BY <3>1 DEF IInv, RowsTracked, Over, NextStage
  <2>2. unparsed' \subseteq 1..2
    BY DEF IInv, RowsTracked
  <2>3. QED  BY <2>1, <2>2 DEF ChildTracked, RowsTracked, NextStage, Over, NoResult
<1>5. QED  BY <1>2, <1>3, <1>4 DEF IInv

\* What a wrapper does of rows: a second program, or a result.
LEMMA RowsMake ==
    ASSUME Parse
    PROVE  \/ /\ NextStage /\ tool = "volatility.pslist" /\ stage = 1 /\ UNCHANGED unread
              /\ unparsed' \in {unparsed, unparsed \cup {stage}}
           \/ \E bad, doubt \in BOOLEAN :
                 /\ bad => doubt
                 /\ unparsed' = IF bad THEN unparsed \cup {stage} ELSE unparsed
                 /\ unread' \in BOOLEAN \cup {unread}
                 /\ Answer(doubt)
<1>1. PICK kept, bad \in BOOLEAN :
         /\ unparsed' = IF bad THEN unparsed \cup {stage} ELSE unparsed
         /\ \/ Pslist(kept, bad) \/ Netscan(kept, bad) \/ Cmdline(bad)
            \/ AmcacheEntries(kept, bad) \/ Events(bad) \/ Timeline(bad)
  BY DEF Parse
<1>2. ASSUME NEW doubt \in BOOLEAN, bad => doubt, Answer(doubt), unread' \in BOOLEAN \cup {unread}
      PROVE  \E b, d \in BOOLEAN :
                 /\ b => d
                 /\ unparsed' = IF b THEN unparsed \cup {stage} ELSE unparsed
                 /\ unread' \in BOOLEAN \cup {unread}
                 /\ Answer(d)
  BY <1>1, <1>2
<1>3. CASE Pslist(kept, bad) /\ stage = 1 /\ ~kept
  BY <1>1, <1>3 DEF Pslist
<1>4. CASE \/ Pslist(kept, bad) /\ ~(stage = 1 /\ ~kept)
           \/ Netscan(kept, bad)
           \/ AmcacheEntries(kept, bad)
  <2>1. Answer(bad \/ ~kept) /\ unread' \in BOOLEAN \cup {unread}
    BY <1>4 DEF Pslist, Netscan, AmcacheEntries
  <2>2. (bad \/ ~kept) \in BOOLEAN /\ (bad => bad \/ ~kept)
    OBVIOUS
  <2>3. QED  BY <1>2, <2>1, <2>2
<1>5. CASE Cmdline(bad) \/ Events(bad) \/ Timeline(bad)
  <2>1. Answer(bad) /\ unread' \in BOOLEAN \cup {unread}
    BY <1>5 DEF Cmdline, Events, Timeline
  <2>2. QED  BY <1>2, <2>1
<1>6. QED  BY <1>1, <1>3, <1>4, <1>5

LEMMA ParseKeeps ==
    ASSUME IInv, pc = "running", child = "ended", Parse, UNCHANGED <<tool, elapsed>>
    PROVE  IInv'
<1>1. CASE /\ NextStage /\ tool = "volatility.pslist" /\ stage = 1 /\ UNCHANGED unread
           /\ unparsed' \in {unparsed, unparsed \cup {stage}}
  BY <1>1, NextStageKeeps
<1>2. CASE \E bad, doubt \in BOOLEAN :
             /\ bad => doubt
             /\ unparsed' = IF bad THEN unparsed \cup {stage} ELSE unparsed
             /\ unread' \in BOOLEAN \cup {unread}
             /\ Answer(doubt)
  <2>0. PICK bad, doubt \in BOOLEAN :
             /\ bad => doubt
             /\ unparsed' = IF bad THEN unparsed \cup {stage} ELSE unparsed
             /\ unread' \in BOOLEAN \cup {unread}
             /\ Answer(doubt)
    BY <1>2
  <2> DEFINE answer == [status |-> IF doubt THEN "partial" ELSE "ok", rows_of |-> stage]
  <2>1. End("returned", answer) /\ UNCHANGED <<stage, child, ran, tool, elapsed>>
    BY <2>0 DEF Answer
  <2>2. ~doubt => ~bad
    BY <2>0
  <2>3. /\ answer.status \in {"ok", "partial"} /\ answer.rows_of = stage
        /\ answer.status = "ok" => ~bad
        /\ answer # NoResult
        /\ answer \in [status: {"none", "ok", "partial", "error"}, rows_of: 0..stage]
    BY <2>2, ToolTimeouts DEF IInv, NoResult
  <2> HIDE DEF answer
  <2>4. pc' = "returned" /\ result' = answer /\ temp' = FALSE
    BY <2>1 DEF End
  <2>5. /\ stage \notin unparsed
        /\ unparsed' \subseteq DOMAIN Timeouts[tool] /\ unparsed' \subseteq 1..stage
        /\ (~bad => stage \notin unparsed') /\ unread' \in BOOLEAN
    <3>1. /\ stage \notin unparsed
          /\ unparsed \subseteq 1..stage /\ unparsed \subseteq DOMAIN Timeouts[tool]
          /\ unread \in BOOLEAN
      BY DEF IInv, RowsTracked, TypeOK, Over
    <3>2. stage \in DOMAIN Timeouts[tool] /\ stage \in 1..stage
      BY ToolTimeouts DEF IInv
    <3>3. QED  BY <2>0, <3>1, <3>2
  <2>6. TypeOK'
    BY <2>1, <2>3, <2>4, <2>5 DEF IInv, TypeOK, Over
  <2>7. ClocksAgree'
    <3>1. ran <= Timeouts[tool][stage] /\ ran \in Nat /\ Timeouts[tool][stage] \in Nat
      BY ToolTimeouts DEF IInv, TypeOK
    <3>2. QED  BY <2>1, <2>4, <3>1 DEF IInv, ClocksAgree, Before
  <2>8. ChildTracked' /\ RowsTracked'
    BY <2>1, <2>3, <2>4, <2>5 DEF IInv, ChildTracked, RowsTracked, Over
  <2>9. QED  BY <2>6, <2>7, <2>8 DEF IInv
<1>3. QED  BY <1>1, <1>2, RowsMake

LEMMA IInvStep == IInv /\ [Next]_vars => IInv'
<1> SUFFICES ASSUME IInv, [Next]_vars PROVE IInv'
  OBVIOUS
<1> USE DEF Over, rows
<1>1. CASE Spawn
  <2>1. CASE child' = "running" /\ ran' = 0 /\ pc' = "running" /\ UNCHANGED <<temp, result>>
    <3>1. pc = "spawn" /\ UNCHANGED <<tool, stage, elapsed, rows>>
      BY <1>1 DEF Spawn
    <3>2. TypeOK'
      BY <2>1, <3>1, ToolTimeouts DEF IInv, TypeOK, RowsTracked
    <3>3. ClocksAgree' /\ ChildTracked' /\ RowsTracked'
      BY <2>1, <3>1 DEF IInv, ClocksAgree, ChildTracked, RowsTracked, Before
    <3>4. QED  BY <3>2, <3>3 DEF IInv
  <2>2. CASE (End("returned", Error) \/ End("raised", NoResult)) /\ UNCHANGED <<child, ran>>
    <3>1. pc = "spawn" /\ child # "running" /\ Error # NoResult
          /\ UNCHANGED <<tool, stage, elapsed, rows>>
      BY <1>1 DEF Spawn, IInv, ChildTracked, Error, NoResult
    <3>2. QED  BY <2>2, <3>1, EndKeeps
  <2>3. QED  BY <1>1, <2>1, <2>2 DEF Spawn
<1>2. CASE ChildEnds
  BY <1>2 DEF ChildEnds, IInv, TypeOK, ClocksAgree, ChildTracked, RowsTracked, Before
<1>3. CASE Tick
  <2>1. /\ ran' = ran + 1 /\ elapsed' = elapsed + 1
        /\ ran + 1 <= Timeouts[tool][stage] + MaxLinger
        /\ \/ pc = "running" /\ ran + 1 <= Timeouts[tool][stage]
           \/ pc = "killing"
        /\ UNCHANGED <<pc, tool, stage, child, temp, rows, result>>
    BY <1>3, ToolTimeouts DEF Tick, IInv
  <2>2. ran \in Nat /\ elapsed \in Nat /\ Timeouts[tool][stage] \in Nat /\ Timeouts[tool][1] \in Nat
        /\ MaxLinger \in Nat
    BY ToolTimeouts DEF IInv
  <2>3. TypeOK'
    BY <2>1, <2>2 DEF IInv, TypeOK
  <2>4. ClocksAgree' /\ ChildTracked' /\ RowsTracked'
    BY <2>1, <2>2 DEF IInv, ClocksAgree, ChildTracked, RowsTracked, Before
  <2>5. QED  BY <2>3, <2>4 DEF IInv
<1>4. CASE TimeoutFires
  <2>1. CASE child = "running"
    <3>1. pc = "running" /\ pc' = "killing"
          /\ UNCHANGED <<temp, result, tool, stage, child, ran, elapsed, rows>>
      BY <1>4, <2>1 DEF TimeoutFires
    <3>2. QED  BY <3>1 DEF IInv, TypeOK, ClocksAgree, ChildTracked, RowsTracked, Before
  <2>2. CASE child # "running"
    <3>1. End("returned", Error) /\ Error # NoResult /\ pc = "running"
          /\ UNCHANGED <<tool, stage, child, ran, elapsed, rows>>
      BY <1>4, <2>2 DEF TimeoutFires, Error, NoResult
    <3>2. QED  BY <2>2, <3>1, EndKeeps
  <2>3. QED  BY <2>1, <2>2
<1>5. CASE WaitReturns
  <2>1. End("returned", Error) /\ Error # NoResult /\ pc = "killing" /\ child = "ended"
        /\ UNCHANGED <<tool, stage, child, ran, elapsed, rows>>
    BY <1>5 DEF WaitReturns, Error, NoResult
  <2>2. QED  BY <2>1, EndKeeps
<1>6. CASE CommunicateReturns
  <2>1. pc = "running" /\ child = "ended" /\ UNCHANGED <<tool, elapsed>>
    BY <1>6 DEF CommunicateReturns
  <2>2. CASE (Failed \/ Unreadable) /\ UNCHANGED <<stage, child, ran, rows>>
    <3>1. Error # NoResult /\ (End("returned", Error) \/ End("raised", NoResult))
      BY <2>2 DEF Failed, Unreadable, Error, NoResult
    <3>2. QED  BY <2>1, <2>2, <3>1, EndKeeps
  <2>3. CASE tool = "plaso.log2timeline" /\ stage = 1 /\ NextStage /\ UNCHANGED rows
    BY <2>1, <2>3, NextStageKeeps
  <2>4. CASE Parse
    BY <2>1, <2>4, ParseKeeps
  <2>5. QED  BY <1>6, <2>2, <2>3, <2>4 DEF CommunicateReturns
<1>7. CASE UNCHANGED vars
  BY <1>7 DEF vars, IInv, TypeOK, ClocksAgree, ChildTracked, RowsTracked, Before
<1>8. QED  BY <1>1, <1>2, <1>3, <1>4, <1>5, <1>6, <1>7 DEF Next

LEMMA IInvInit == Init => IInv
<1> SUFFICES ASSUME Init PROVE IInv
  OBVIOUS
<1>1. /\ tool \in DOMAIN Timeouts /\ 1 \in DOMAIN Timeouts[tool] /\ Timeouts[tool][1] \in Nat
      /\ MaxLinger \in Nat
  BY ToolsAssumption, TimeoutsNat DEF Init
<1>2. TypeOK
  <2>1. Timeouts[tool][1] + MaxLinger \in Nat /\ 0 \in 0..(Timeouts[tool][1] + MaxLinger)
    BY <1>1
  <2>2. tool \in Tools /\ stage \in DOMAIN Timeouts[tool]
        /\ ran \in 0..(Timeouts[tool][stage] + MaxLinger)
    BY <1>1, <2>1 DEF Init
  <2>3. temp \in BOOLEAN
    BY DEF Init
  <2>4. result \in [status: {"none", "ok", "partial", "error"}, rows_of: 0..stage]
    BY DEF Init, NoResult
  <2>5. pc \in Over \cup {"spawn", "running", "killing"} /\ elapsed \in Nat
        /\ (pc = "returned" <=> result # NoResult)
    BY DEF Init, Over
  <2>6. QED  BY <2>2, <2>3, <2>4, <2>5 DEF Init, TypeOK
<1>3. ClocksAgree /\ ChildTracked /\ RowsTracked
  BY <1>1 DEF Init, ClocksAgree, ChildTracked, RowsTracked, Over, Before, NoResult
<1>4. QED  BY <1>2, <1>3 DEF IInv

LEMMA CallInvariant == Spec => []IInv
  BY IInvInit, IInvStep, PTL DEF Spec

-----------------------------------------------------------------------------
\* What a wrapper's locals can be; it has a result exactly when it returned.
THEOREM CallTyped == Spec => []TypeOK
<1>1. IInv => TypeOK
  BY DEF IInv
<1>2. QED  BY <1>1, CallInvariant, PTL

\* Whichever way a call ends, no program and no temporary file is left (run_tool's kill
\* and wait, the finally of evtxecmd_security).
THEOREM NothingLeft == Spec => []NothingLeftBehind
<1>1. IInv => NothingLeftBehind
  BY DEF IInv, ChildTracked, NothingLeftBehind
<1>2. QED  BY <1>1, CallInvariant, PTL

\* A call that took longer than its programs may is waiting for a killed one, or an error,
\* for any time a killed program takes to end (run_tool's wait, _subprocess.py:47).
THEOREM OverdueIsAlwaysError == Spec => []OverdueIsError
<1>1. ASSUME IInv PROVE OverdueIsError
  <2>1. /\ stage \in DOMAIN Timeouts[tool] /\ stage \in 1..2 /\ 1 \in DOMAIN Timeouts[tool]
        /\ \A i \in DOMAIN Timeouts[tool] : Timeouts[tool][i] \in Nat
        /\ ran \in Nat /\ elapsed \in Nat
    BY <1>1, ToolTimeouts DEF IInv
  <2>2. elapsed > Budget => ran > Timeouts[tool][stage]
    <3>1. CASE stage = 1
      BY <1>1, <2>1, <3>1 DEF IInv, ClocksAgree, Before, Budget
    <3>2. CASE stage = 2
      BY <1>1, <2>1, <3>2 DEF IInv, ClocksAgree, Before, Budget
    <3>3. QED  BY <2>1, <3>1, <3>2
  <2>3. pc = "spawn" /\ stage = 2 => elapsed <= Timeouts[tool][1]
    BY <1>1, <2>1 DEF IInv, ClocksAgree, Before
  <2>4. QED  BY <1>1, <2>2, <2>3 DEF OverdueIsError, IInv, ClocksAgree
<1>2. QED  BY <1>1, CallInvariant, PTL

\* An OK result has no skipped row of the last program's output.
THEOREM OkTookEveryRow == Spec => []OkSkipsNothing
<1>1. IInv => OkSkipsNothing
  BY DEF IInv, RowsTracked, OkSkipsNothing
<1>2. QED  BY <1>1, CallInvariant, PTL

\* No call starts over: StepsLeft is a number and every step makes it less, whichever way
\* the programs end and however they race their timers.
THEOREM CallAdvances == Spec => EveryStepCounts
<1>1. ASSUME IInv, IInv', Next
      PROVE  StepsLeft' \in Nat /\ StepsLeft' < StepsLeft
  <2>0. PICK T : T = Timeouts[tool] /\ T = Timeouts[tool']
    BY <1>1 DEF Next, Spawn, ChildEnds, Tick, TimeoutFires, WaitReturns, CommunicateReturns
  <2> DEFINE Later(n) == IF n < Len(T) THEN T[2] + 3 ELSE 0
             Running(c) == IF c = "running" THEN 1 ELSE 0
  <2>1. /\ stage \in 1..2 /\ stage <= Len(T) /\ Len(T) \in 1..2
        /\ T[stage] \in Nat /\ ran \in Nat /\ ran <= T[stage] + MaxLinger /\ MaxLinger \in Nat
        /\ 2 <= Len(T) => T[2] \in Nat
        /\ tool \in {"volatility.pslist", "plaso.log2timeline"} => Len(T) = 2
        /\ pc \in Over \cup {"spawn", "running", "killing"}
    <3>1. tool \in DOMAIN Timeouts /\ TypeOK
      BY <1>1, ToolTimeouts DEF IInv
    <3>2. Len(T) \in 1..2 /\ DOMAIN T = 1..Len(T)
      BY <2>0, <3>1, TimeoutsNat
    <3>3. tool \in {"volatility.pslist", "plaso.log2timeline"} => Len(T) = 2
      BY <2>0 DEF Timeouts
    <3>4. QED  BY <2>0, <3>1, <3>2, <3>3, ToolTimeouts DEF TypeOK
  <2>2. /\ pc = "spawn" => StepsLeft = Later(stage) + (T[stage] + MaxLinger) + 4
        /\ pc = "running" =>
              StepsLeft = Later(stage) + ((T[stage] + MaxLinger) - ran) + Running(child) + 2
        /\ pc = "killing" => StepsLeft = ((T[stage] + MaxLinger) - ran) + Running(child) + 1
    BY <2>0 DEF StepsLeft
  <2>3. /\ pc' = "spawn" => StepsLeft' = Later(stage') + (T[stage'] + MaxLinger) + 4
        /\ pc' = "running" =>
              StepsLeft' = Later(stage') + ((T[stage'] + MaxLinger) - ran') + Running(child') + 2
        /\ pc' = "killing" =>
              StepsLeft' = ((T[stage'] + MaxLinger) - ran') + Running(child') + 1
        /\ pc' \in Over => StepsLeft' = 0
    BY <2>0 DEF StepsLeft, Over
  <2> USE DEF Over
  <2>4. ASSUME NEW how \in Over, NEW answer, End(how, answer), pc \notin Over
        PROVE  StepsLeft' \in Nat /\ StepsLeft' < StepsLeft
    <3>1. pc' \in Over
      BY <2>4 DEF End
    <3>2. StepsLeft' = 0
      BY <2>3, <3>1
    <3>3. StepsLeft > 0
      BY <2>1, <2>4, <2>2
    <3>4. QED  BY <3>2, <3>3
  <2>5. CASE Spawn
    <3>1. CASE child' = "running" /\ ran' = 0 /\ pc' = "running"
      <4>1. pc = "spawn" /\ stage' = stage
        BY <2>5 DEF Spawn
      <4>2. QED  BY <2>1, <2>2, <2>3, <3>1, <4>1
    <3>2. CASE End("returned", Error) \/ End("raised", NoResult)
      BY <2>4, <2>5, <3>2 DEF Spawn
    <3>3. QED  BY <2>5, <3>1, <3>2 DEF Spawn
  <2>6. CASE ChildEnds
    <3>1. child = "running" /\ child' = "ended" /\ UNCHANGED <<pc, stage, ran>>
      BY <2>6 DEF ChildEnds
    <3>2. pc \in {"running", "killing"}
      BY <1>1, <2>1, <3>1 DEF IInv, ChildTracked
    <3>3. QED  BY <2>1, <2>2, <2>3, <3>1, <3>2
  <2>7. CASE Tick
    <3>1. /\ pc \in {"running", "killing"} /\ ran < T[stage] + MaxLinger
          /\ ran' = ran + 1 /\ UNCHANGED <<pc, stage, child>>
      BY <2>0, <2>1, <2>7 DEF Tick
    <3>2. Later(stage) \in Nat /\ Running(child) \in Nat
      BY <2>1
    <3> DEFINE left == (T[stage] + MaxLinger) - ran
    <3>0. left \in Nat \ {0} /\ (T[stage] + MaxLinger) - (ran + 1) = left - 1
      BY <2>1, <3>1
    <3> HIDE DEF left, Later, Running
    <3>3. CASE pc = "running"
      <4>1. /\ StepsLeft = Later(stage) + ((T[stage] + MaxLinger) - ran) + Running(child) + 2
            /\ StepsLeft' = Later(stage) + ((T[stage] + MaxLinger) - (ran + 1)) + Running(child) + 2
        BY <2>2, <2>3, <3>1, <3>3
      <4>0. /\ StepsLeft = Later(stage) + left + Running(child) + 2
            /\ StepsLeft' = Later(stage) + (left - 1) + Running(child) + 2
            /\ left \in Nat \ {0}
        BY <3>0, <4>1 DEF left
      <4>2. QED  BY <3>2, <4>0
    <3>4. CASE pc = "killing"
      <4>1. /\ StepsLeft = ((T[stage] + MaxLinger) - ran) + Running(child) + 1
            /\ StepsLeft' = ((T[stage] + MaxLinger) - (ran + 1)) + Running(child) + 1
        BY <2>2, <2>3, <3>1, <3>4
      <4>0. /\ StepsLeft = left + Running(child) + 1
            /\ StepsLeft' = (left - 1) + Running(child) + 1
            /\ left \in Nat \ {0}
        BY <3>0, <4>1 DEF left
      <4>2. QED  BY <3>2, <4>0
    <3>5. QED  BY <3>1, <3>3, <3>4
  <2>8. CASE TimeoutFires
    <3>1. CASE child = "running"
      <4>1. pc = "running" /\ pc' = "killing" /\ UNCHANGED <<stage, child, ran>>
        BY <2>8, <3>1 DEF TimeoutFires
      <4>2. StepsLeft' = ((T[stage] + MaxLinger) - ran) + Running(child) + 1
        BY <2>3, <4>1
      <4>3. StepsLeft = Later(stage) + ((T[stage] + MaxLinger) - ran) + Running(child) + 2
        BY <2>2, <4>1
      <4>4. Later(stage) \in Nat /\ Running(child) \in Nat
            /\ (T[stage] + MaxLinger) - ran \in Nat
        BY <2>1
      <4> HIDE DEF Later, Running
      <4>5. QED  BY <4>2, <4>3, <4>4
    <3>2. CASE child # "running"
      BY <2>4, <2>8, <3>2 DEF TimeoutFires
    <3>3. QED  BY <3>1, <3>2
  <2>9. CASE WaitReturns
    BY <2>4, <2>9 DEF WaitReturns
  <2>10. CASE CommunicateReturns
    <3>1. pc = "running" /\ child = "ended"
      BY <2>10 DEF CommunicateReturns
    <3>2. CASE NextStage /\ stage = 1 /\ tool \in {"volatility.pslist", "plaso.log2timeline"}
      <4>1. pc' = "spawn" /\ stage' = 2 /\ child' = "none" /\ ran' = 0
        BY <3>2 DEF NextStage
      <4>2. Later(1) = T[2] + 3 /\ T[2] \in Nat /\ Later(2) = 0
        <5>1. Len(T) = 2 /\ T[2] \in Nat
          BY <2>1, <3>2
        <5>2. QED  BY <5>1
      <4>3. StepsLeft' = (T[2] + MaxLinger) + 4
        <5>1. StepsLeft' = Later(2) + (T[2] + MaxLinger) + 4
          BY <2>3, <4>1
        <5>2. (T[2] + MaxLinger) \in Nat
          BY <2>1, <4>2
        <5> HIDE DEF Later
        <5>3. QED  BY <4>2, <5>1, <5>2
      <4>4. StepsLeft = (T[2] + 3) + ((T[1] + MaxLinger) - ran) + 2
        <5>1. StepsLeft = Later(1) + ((T[1] + MaxLinger) - ran) + Running(child) + 2
          BY <2>2, <3>1, <3>2
        <5>2. Running(child) = 0 /\ (T[1] + MaxLinger) - ran \in Nat
          BY <2>1, <3>1, <3>2
        <5> HIDE DEF Later, Running
        <5>3. QED  BY <4>2, <5>1, <5>2
      <4>5. MaxLinger \in Nat /\ (T[1] + MaxLinger) - ran >= MaxLinger
            /\ (T[1] + MaxLinger) - ran \in Nat
        <5>1. T[stage] \in Nat /\ stage = 1 /\ ran \in Nat /\ MaxLinger \in Nat
          BY <2>1, <3>2
        <5>2. ran <= T[stage]
          BY <1>1, <2>0, <3>1 DEF IInv, TypeOK
        <5>3. QED  BY <5>1, <5>2
      <4>6. QED  BY <4>2, <4>3, <4>4, <4>5
    <3>3. CASE \E how \in Over : \E answer \in {result', result} : End(how, answer)
      BY <2>4, <3>1, <3>3
    <3>4. \/ NextStage /\ stage = 1 /\ tool \in {"volatility.pslist", "plaso.log2timeline"}
          \/ \E how \in Over : \E answer \in {result', result} : End(how, answer)
      <4>1. CASE Failed \/ Unreadable
        BY <4>1 DEF Failed, Unreadable, End
      <4>2. CASE Parse
        BY <4>2, RowsMake DEF Answer, End
      <4>3. QED  BY <2>10, <4>1, <4>2 DEF CommunicateReturns
    <3>5. QED  BY <3>2, <3>3, <3>4
  <2>11. QED  BY <1>1, <2>5, <2>6, <2>7, <2>8, <2>9, <2>10 DEF Next
<1>2. ASSUME IInv, IInv', [Next]_vars
      PROVE  [StepsLeft' \in Nat /\ StepsLeft' < StepsLeft]_vars
  BY <1>1, <1>2
<1>3. QED  BY <1>2, CallInvariant, PTL DEF Spec, EveryStepCounts

-----------------------------------------------------------------------------
\* Only a pslist's first program may have printed rows that were skipped, when there is
\* a second one.
FirstUnparsed == stage = 2 /\ 1 \in unparsed => tool = "volatility.pslist"

LEMMA FirstUnparsedStep == IInv /\ FirstUnparsed /\ [Next]_vars => FirstUnparsed'
<1> SUFFICES ASSUME IInv, FirstUnparsed, [Next]_vars PROVE FirstUnparsed'
  OBVIOUS
<1> USE DEF FirstUnparsed
<1>1. CASE UNCHANGED <<tool, stage, unparsed>>
  BY <1>1
<1>2. CASE CommunicateReturns
  <2>1. CASE NextStage /\ UNCHANGED <<tool, unparsed>>
    <3>1. pc = "running" /\ stage' = 2
      BY <1>2, <2>1 DEF CommunicateReturns, NextStage
    <3>2. stage \in 1..2 /\ stage \notin unparsed
      BY <3>1, ToolTimeouts DEF IInv, RowsTracked, Over
    <3>3. QED  BY <2>1, <3>2
  <2>2. CASE Parse /\ UNCHANGED tool
    <3>1. stage \in 1..2 /\ unparsed' \subseteq unparsed \cup {stage}
      BY <2>2, RowsMake, ToolTimeouts DEF IInv
    <3>2. stage' = stage \/ tool = "volatility.pslist"
      BY <2>2, RowsMake DEF Answer
    <3>3. QED  BY <2>2, <3>1, <3>2
  <2>3. QED  BY <1>1, <1>2, <2>1, <2>2 DEF CommunicateReturns, rows
<1>3. QED
  BY <1>1, <1>2
  DEF Next, Spawn, ChildEnds, Tick, TimeoutFires, WaitReturns, vars, rows

\* Only these three pass output over without a note: plaso the rows after the fiftieth
\* (plaso_log2timeline.py:132), evtxecmd wanted events whose id is text
\* (evtxecmd_security.py:122), and amcache what follows the last path
\* (regripper_amcache.py:104).
PassesOver == {"plaso.log2timeline", "evtxecmd.security", "regripper.amcache"}

UnreadIn == unread => tool \in PassesOver

LEMMA UnreadStep == UnreadIn /\ [Next]_vars => UnreadIn'
<1> SUFFICES ASSUME UnreadIn, [Next]_vars PROVE UnreadIn'
  OBVIOUS
<1> USE DEF UnreadIn, PassesOver
<1>1. CASE UNCHANGED <<tool, unread>>
  BY <1>1
<1>2. CASE CommunicateReturns /\ Parse
  <2>1. UNCHANGED tool
    BY <1>2 DEF CommunicateReturns
  <2>2. UNCHANGED unread \/ tool \in PassesOver
    BY <1>2 DEF Parse, Pslist, Netscan, Cmdline, AmcacheEntries, Events, Timeline
  <2>3. QED  BY <2>1, <2>2
<1>3. QED
  BY <1>1, <1>2
  DEF Next, Spawn, ChildEnds, Tick, TimeoutFires, WaitReturns, CommunicateReturns, vars, rows

\* What base.py:38 says of PARTIAL has these exceptions and no other: an OK result whose
\* call met output that was not parsed is a psscan's after a pslist all of whose rows were
\* skipped (volatility_pslist.py:168, whose notes replace the first ones), or comes from
\* one of the three wrappers that pass output over.
THEOREM OnlyTheseHide ==
    Spec => []((result.status = "ok" /\ (unparsed # {} \/ unread)) =>
                  \/ tool = "volatility.pslist" /\ result.rows_of = 2 /\ unparsed = {1}
                  \/ tool \in PassesOver /\ unparsed = {})
<1>1. Init => FirstUnparsed /\ UnreadIn
  BY DEF Init, FirstUnparsed, UnreadIn
<1>2. ASSUME IInv, FirstUnparsed, result.status = "ok", unparsed # {}
      PROVE  tool = "volatility.pslist" /\ result.rows_of = 2 /\ unparsed = {1}
  <2>1. /\ stage \in 1..2 /\ unparsed \subseteq 1..stage
        /\ result.rows_of = stage /\ stage \notin unparsed
    BY <1>2, ToolTimeouts DEF IInv, RowsTracked
  <2>2. stage # 1
    <3>1. 1..1 = {1}
      OBVIOUS
    <3>2. SUFFICES ASSUME stage = 1 PROVE FALSE
      OBVIOUS
    <3>3. unparsed \subseteq {1} /\ 1 \notin unparsed
      BY <2>1, <3>1, <3>2
    <3>4. QED  BY <1>2, <3>3
  <2>3. stage = 2 /\ 1..stage = {1, 2}
    BY <2>1, <2>2
  <2>4. unparsed = {1}
    BY <1>2, <2>1, <2>3
  <2>5. QED  BY <1>2, <2>1, <2>3, <2>4 DEF FirstUnparsed
<1>3. ASSUME IInv, FirstUnparsed, UnreadIn, result.status = "ok", unparsed # {} \/ unread
      PROVE  \/ tool = "volatility.pslist" /\ result.rows_of = 2 /\ unparsed = {1}
             \/ tool \in PassesOver /\ unparsed = {}
  BY <1>2, <1>3 DEF UnreadIn
<1>4. QED  BY <1>1, <1>3, FirstUnparsedStep, UnreadStep, CallInvariant, PTL DEF Spec

\* The claim itself, for the two wrappers that keep it.
THEOREM OkParsedAll ==
    ASSUME Tools \subseteq {"volatility.netscan", "volatility.cmdline"}
    PROVE  Spec => []OkMeansAllParsed
<1> DEFINE Exceptions == (result.status = "ok" /\ (unparsed # {} \/ unread)) =>
                            \/ tool = "volatility.pslist" /\ result.rows_of = 2 /\ unparsed = {1}
                            \/ tool \in PassesOver /\ unparsed = {}
<1>1. ASSUME TypeOK, Exceptions PROVE OkMeansAllParsed
  <2>1. tool \in {"volatility.netscan", "volatility.cmdline"}
    BY <1>1 DEF TypeOK
  <2>2. QED  BY <1>1, <2>1 DEF OkMeansAllParsed, PassesOver
<1>2. Spec => []Exceptions
  BY OnlyTheseHide, PTL
<1>3. QED  BY <1>1, <1>2, CallTyped, PTL
=============================================================================
