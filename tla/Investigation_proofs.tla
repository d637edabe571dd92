------------------------ MODULE Investigation_proofs ------------------------
(* What the audit logs hold, for any number of processes, receipts, seconds *)
(* and faults.                                                              *)
EXTENDS Investigation, Receipts_proofs, TLAPS

Sessions == {CaseOf[p] : p \in Processes}
AnyReceipt == Receipt(Sessions, Secrets, Tools, {None}, Outputs \cup {"altered"})

\* The receipts whose signature a process has made.
Signed ==
    {r \in AnyReceipt : \E p \in Processes : \E j \in 1..Len(chain[p]) :
        r.signature = chain[p][j].signature}

\* The lines a log may consist of.
LogLine ==
    [kind: {"header"}, session_id: Sessions] \cup [kind: {"receipt"}, receipt: Signed]
    \cup {TornLine}

ChainsVerify ==
    /\ chain \in [Processes -> Seq(AnyReceipt)]
    /\ \A p \in Processes : Verifies(CaseOf[p], SecretOf[p], chain[p])

\* TypeOK, with what it rests on: nothing is flushed before a log is opened.
Typed ==
    /\ TypeOK
    /\ chain \in [Processes -> Seq(AnyReceipt)]
    /\ seconds \in 0..MaxSeconds /\ faults \in Nat
    /\ path \in [Processes -> FileName \cup {None}]
    /\ flushed \in [Processes -> Nat]
    /\ \A p \in Processes :
          pc[p] \in {"start", "session", "report", "verify", "open"} => flushed[p] = 0

-----------------------------------------------------------------------------
LEMMA NewReceiptTyped ==
    ASSUME NEW S, NEW K, NEW N, NEW I, NEW O,
           NEW ch \in Seq(Receipt(S, K, N, I, O)),
           NEW session \in S, NEW secret \in K, NEW now \in Nat,
           NEW tool \in N, NEW input \in I, NEW output \in O
    PROVE  NewReceipt(session, secret, ch, now, tool, input, output) \in Receipt(S, K, N, I, O)
<1> DEFINE D == Seq(Entry(S, N, I, O))
           u == [sequence |-> Len(ch), timestamp_ns |-> now, tool_name |-> tool,
                 input_sha256 |-> Sha256(input), output_sha256 |-> Sha256(output),
                 prev_digest |-> LastDigest(ch)]
           e == [session_id |-> session, sequence |-> Len(ch), timestamp_ns |-> now,
                 tool_name |-> tool, input_sha256 |-> Sha256(input),
                 output_sha256 |-> Sha256(output)]
           b == CanonicalBody(session, u)
<1>1. LastDigest(ch) \in D
  <2>1. CASE ch = << >>
    BY <2>1 DEF LastDigest, GENESIS_PREV_DIGEST
  <2>2. CASE ch # << >>
    <3>1. Len(ch) \in 1..Len(ch)
      BY <2>2
    <3>2. ch[Len(ch)] \in Receipt(S, K, N, I, O)
      BY <3>1
    <3>3. ch[Len(ch)].digest \in D
      BY <3>2 DEF Receipt
    <3>4. QED  BY <2>2, <3>3 DEF LastDigest
  <2>3. QED  BY <2>1, <2>2
<1>2. Sha256(input) \in [sha256: I] /\ Sha256(output) \in [sha256: O] /\ Len(ch) \in Nat
  BY DEF Sha256
<1>3. e \in Entry(S, N, I, O)
  BY <1>2 DEF Entry
<1>4. b = Append(LastDigest(ch), e)
  BY DEF CanonicalBody
<1>5. b \in D
  BY <1>1, <1>3, <1>4
<1>6. Hmac(secret, b) \in [key: K, body: D]
  BY <1>5 DEF Hmac
<1>7. NewReceipt(session, secret, ch, now, tool, input, output)
        = [sequence |-> Len(ch), timestamp_ns |-> now, tool_name |-> tool,
           input_sha256 |-> Sha256(input), output_sha256 |-> Sha256(output),
           prev_digest |-> LastDigest(ch), digest |-> b, signature |-> Hmac(secret, b)]
  BY DEF NewReceipt
<1> HIDE DEF b, e, u
<1>8. QED  BY <1>1, <1>2, <1>5, <1>6, <1>7 DEF Receipt

\* The lines of a log: the header, then each receipt in order.
LEMMA LinesOfLog ==
    ASSUME NEW R, NEW ch \in Seq(R), NEW session
    PROVE  /\ Len(ToJsonl(session, ch)) = Len(ch) + 1
           /\ ToJsonl(session, ch)[1] = Header(session)
           /\ \A i \in 1..Len(ch) : ToJsonl(session, ch)[i + 1] = ReceiptLine(ch[i])
<1> DEFINE tail == [i \in 1..Len(ch) |-> ReceiptLine(ch[i])]
           L == {Header(session)} \cup {ReceiptLine(ch[i]) : i \in 1..Len(ch)}
<1>1. tail \in Seq(L) /\ Len(tail) = Len(ch)
  OBVIOUS
<1>2. << Header(session) >> \in Seq(L)
  OBVIOUS
<1>3. \A i \in 1..Len(ch) : tail[i] = ReceiptLine(ch[i])
  OBVIOUS
<1>4. ToJsonl(session, ch) = << Header(session) >> \o tail
  BY DEF ToJsonl
<1> HIDE DEF tail, L
<1>5. QED  BY <1>1, <1>2, <1>3, <1>4

LEMMA LogIsSeq ==
    ASSUME NEW R, NEW ch \in Seq(R), NEW session
    PROVE  \E L : ToJsonl(session, ch) \in Seq(L)
<1> DEFINE tail == [i \in 1..Len(ch) |-> ReceiptLine(ch[i])]
           L == {Header(session)} \cup {ReceiptLine(ch[i]) : i \in 1..Len(ch)}
<1>1. tail \in Seq(L) /\ << Header(session) >> \in Seq(L)
  OBVIOUS
<1>2. ToJsonl(session, ch) = << Header(session) >> \o tail
  BY DEF ToJsonl
<1> HIDE DEF tail, L
<1>3. ToJsonl(session, ch) \in Seq(L)
  BY <1>1, <1>2
<1>4. QED  BY <1>3

\* What a write makes of a file, and what damage leaves of it, are lines again.
LEMMA WritesLines ==
    ASSUME NEW L, TornLine \in L, NEW lines \in Seq(L), NEW line \in L,
           NEW n \in Nat \ {0}
    PROVE  LinesAfterWrite(lines, n, line) \subseteq Seq(L)
<1>1. CASE n > Len(lines)
  BY <1>1 DEF LinesAfterWrite
<1>2. CASE ~(n > Len(lines))
  <2> DEFINE o == [lines EXCEPT ![n] = line]
             before == SubSeq(o, 1, (n + 1) - 1)
             after == SubSeq(o, n + 1, Len(o))
  <2>1. n \in 1..Len(lines) /\ Len(lines) \in Nat
    BY <1>2
  <2>2. o \in Seq(L) /\ Len(o) = Len(lines)
    BY <2>1
  <2>3. InsertAt(o, n + 1, TornLine) \in Seq(L)
    <3>1. InsertAt(o, n + 1, TornLine) = before \o <<TornLine>> \o after
      BY DEF InsertAt
    <3>2. before \in Seq(L) /\ after \in Seq(L)
      <4>1. (n + 1) - 1 = n
        BY <2>1
      <4>2. SubSeq(o, 1, n) \in Seq(L) /\ after \in Seq(L)
        BY <2>1, <2>2
      <4>3. QED  BY <4>1, <4>2
    <3>3. <<TornLine>> \in Seq(L)
      OBVIOUS
    <3> HIDE DEF before, after
    <3>4. before \o <<TornLine>> \o after \in Seq(L)
      BY <3>2, <3>3
    <3>5. QED  BY <3>1, <3>4
  <2>4. n < Len(lines) => [o EXCEPT ![n + 1] = TornLine] \in Seq(L)
    BY <2>1, <2>2
  <2>5. QED  BY <1>2, <2>2, <2>3, <2>4 DEF LinesAfterWrite
<1>3. QED  BY <1>1, <1>2

LEMMA DamagesLines ==
    ASSUME NEW L, \A line \in L : Altered(line) \in L, NEW lines \in Seq(L)
    PROVE  Damages(lines) \subseteq Seq(L)
<1>1. ASSUME NEW i \in 1..Len(lines)
      PROVE  /\ RemoveAt(lines, i) \in Seq(L)
             /\ InsertAt(lines, i, lines[i]) \in Seq(L)
             /\ [lines EXCEPT ![i] = Altered(@)] \in Seq(L)
  <2> DEFINE before == SubSeq(lines, 1, i - 1)
             with == SubSeq(lines, i, Len(lines))
             after == SubSeq(lines, i + 1, Len(lines))
  <2>1. before \in Seq(L) /\ with \in Seq(L) /\ after \in Seq(L) /\ lines[i] \in L
    OBVIOUS
  <2>2. RemoveAt(lines, i) = before \o after
    BY DEF RemoveAt
  <2>3. InsertAt(lines, i, lines[i]) = before \o <<lines[i]>> \o with
    BY DEF InsertAt
  <2>4. [lines EXCEPT ![i] = Altered(@)] \in Seq(L)
    BY <2>1
  <2> HIDE DEF before, with, after
  <2>5. QED  BY <2>1, <2>2, <2>3, <2>4
<1>2. ASSUME NEW i \in 1..(Len(lines) - 1)
      PROVE  [lines EXCEPT ![i] = lines[i + 1], ![i + 1] = lines[i]] \in Seq(L)
  OBVIOUS
<1>3. SUFFICES ASSUME NEW x \in Damages(lines) PROVE x \in Seq(L)
  OBVIOUS
<1>4. \/ \E i \in 1..Len(lines) :
          x \in {RemoveAt(lines, i), InsertAt(lines, i, lines[i]),
                [lines EXCEPT ![i] = Altered(@)]}
      \/ \E i \in 1..(Len(lines) - 1) :
          x = [lines EXCEPT ![i] = lines[i + 1], ![i + 1] = lines[i]]
  BY <1>3 DEF Damages
<1>5. QED  BY <1>1, <1>2, <1>4

-----------------------------------------------------------------------------
LEMMA LogLength ==
    ASSUME chain \in [Processes -> Seq(AnyReceipt)], NEW p \in Processes
    PROVE  Len(LogOf(p)) = Len(chain[p]) + 1 /\ Len(chain[p]) \in Nat
<1>1. chain[p] \in Seq(AnyReceipt)
  OBVIOUS
<1>2. QED  BY <1>1, LinesOfLog DEF LogOf

LEMMA TypedInit == Init => Typed
<1> SUFFICES ASSUME Init PROVE Typed
  OBVIOUS
<1>1. chain \in [Processes -> Seq(AnyReceipt)]
  BY DEF Init
<1>2. \A p \in Processes : Len(LogOf(p)) \in Nat
  BY <1>1, LogLength
<1>3. TypeOK
  BY <1>2 DEF Init, TypeOK, Live
<1>4. QED  BY <1>1, <1>3, ProcessAssumption DEF Init, Typed

\* The chain a tool call makes is one of receipts, and verifies if the one before did.
LEMMA ExecuteToolSound ==
    ASSUME Typed, NEW p \in Processes, ExecuteTool(p)
    PROVE  /\ chain' \in [Processes -> Seq(AnyReceipt)]
           /\ \E r \in AnyReceipt :
                 /\ chain' = [chain EXCEPT ![p] = Append(@, r)]
                 /\ Verifies(CaseOf[p], SecretOf[p], chain[p]) =>
                       Verifies(CaseOf[p], SecretOf[p], Append(chain[p], r))
<1>1. PICK tool \in Tools, output \in Outputs :
         chain' = [chain EXCEPT ![p] = Append(@,
                     NewReceipt(CaseOf[p], SecretOf[p], @, seconds, tool, None, output))]
  BY DEF ExecuteTool
<1> DEFINE r == NewReceipt(CaseOf[p], SecretOf[p], chain[p], seconds, tool, None, output)
<1>2. /\ chain[p] \in Seq(AnyReceipt) /\ seconds \in Nat
      /\ CaseOf[p] \in Sessions /\ SecretOf[p] \in Secrets
      /\ None \in {None} /\ output \in Outputs \cup {"altered"}
      /\ chain \in [Processes -> Seq(AnyReceipt)]
  BY ProcessAssumption DEF Typed, Sessions, Secrets
<1>3. r \in AnyReceipt
  BY <1>2, NewReceiptTyped DEF AnyReceipt
<1>4. Verifies(CaseOf[p], SecretOf[p], chain[p]) =>
         Verifies(CaseOf[p], SecretOf[p], Append(chain[p], r))
  BY <1>2, AppendVerifies
<1>5. chain' = [chain EXCEPT ![p] = Append(@, r)]
  BY <1>1
<1> HIDE DEF r
<1>6. Append(chain[p], r) \in Seq(AnyReceipt)
  BY <1>2, <1>3
<1>7. chain' \in [Processes -> Seq(AnyReceipt)]
  BY <1>2, <1>5, <1>6
<1>8. QED  BY <1>3, <1>4, <1>5, <1>7

LEMMA TypedStep ==
    ASSUME Typed, NEW p \in Processes, Step(p)
    PROVE  Typed'
<1> USE DEF Live
<1>1. \A q \in Processes : Len(LogOf(q)) = Len(chain[q]) + 1 /\ Len(chain[q]) \in Nat
  BY LogLength DEF Typed
<1>2. ASSUME chain' = chain PROVE \A q \in Processes : LogOf(q)' = LogOf(q)
  BY <1>2 DEF LogOf
<1>3. CASE Begin(p)
  BY <1>1, <1>2, <1>3 DEF Typed, TypeOK, Begin, Goto
<1>4. CASE ExecuteTool(p)
  <2>1. chain' \in [Processes -> Seq(AnyReceipt)]
    BY <1>4, ExecuteToolSound
  <2>2. ASSUME NEW q \in Processes
        PROVE  /\ Len(LogOf(q)') \in Nat /\ Len(LogOf(q)') >= Len(LogOf(q))
               /\ q # p => LogOf(q)' = LogOf(q)
    <3>1. PICK r \in AnyReceipt : chain' = [chain EXCEPT ![p] = Append(@, r)]
      BY <1>4, ExecuteToolSound
    <3>2. chain'[q] \in Seq(AnyReceipt) /\ chain[q] \in Seq(AnyReceipt)
      BY <2>1 DEF Typed
    <3>3. Len(LogOf(q)') = Len(chain'[q]) + 1
      BY <3>2, LinesOfLog DEF LogOf
    <3>4. Len(chain'[q]) \in Nat /\ Len(chain'[q]) >= Len(chain[q])
      BY <3>1, <3>2 DEF Typed
    <3>5. q # p => LogOf(q)' = LogOf(q)
      BY <3>1 DEF LogOf, Typed
    <3>6. QED  BY <1>1, <3>3, <3>4, <3>5
  <2>3. pc[p] = "session" /\ UNCHANGED <<pc, path, flushed, files, seconds, faults>>
    BY <1>4 DEF ExecuteTool
  <2>4. TypeOK'
    <3>1. ASSUME NEW q \in Processes
          PROVE  /\ flushed'[q] \in 0..Len(LogOf(q)')
                 /\ pc'[q] = "exited" => flushed'[q] = Len(LogOf(q)')
      <4>1. /\ flushed[q] \in 0..Len(LogOf(q)) /\ flushed'[q] = flushed[q] /\ pc'[q] = pc[q]
            /\ pc[q] = "exited" => flushed[q] = Len(LogOf(q))
        BY <2>3 DEF Typed, TypeOK
      <4>2. CASE q # p
        BY <2>2, <4>1, <4>2
      <4>3. CASE q = p
        BY <1>1, <2>2, <2>3, <4>1, <4>3
      <4>4. QED  BY <4>2, <4>3
    <3>2. /\ pc' \in [Processes -> Live \cup {"exited", "failed", "killed"}]
          /\ \A q \in Processes :
                /\ path'[q] \in FileName \cup {None}
                /\ pc'[q] = "write" => path'[q] \in DOMAIN files'
          /\ DOMAIN files' \subseteq FileName
      BY <2>3 DEF Typed, TypeOK
    <3>3. QED  BY <3>1, <3>2 DEF TypeOK
  <2>5. QED  BY <2>1, <2>3, <2>4 DEF Typed
<1>5. CASE EndSession(p)
  BY <1>1, <1>2, <1>5 DEF Typed, TypeOK, EndSession, Goto
<1>6. CASE PrintReport(p)
  BY <1>1, <1>2, <1>6 DEF Typed, TypeOK, PrintReport, Goto
<1>7. CASE VerifyChain(p)
  BY <1>1, <1>2, <1>7 DEF Typed, TypeOK, VerifyChain, Goto
<1>8. CASE OpenLog(p)
  <2> DEFINE name == <<LogNameOf[p], seconds>>
  <2>1. name \in FileName
    BY DEF FileName, Typed
  <2> HIDE DEF name
  <2>2. CASE /\ path' = [path EXCEPT ![p] = name]
             /\ files' = [f \in DOMAIN files \cup {name} |-> IF f = name THEN << >> ELSE files[f]]
             /\ Goto(p, "write")
    <3>1. DOMAIN files' = DOMAIN files \cup {name} /\ path' \in [Processes -> FileName \cup {None}]
      BY <2>1, <2>2 DEF Typed
    <3>2. pc[p] = "open" /\ pc' = [pc EXCEPT ![p] = "write"] /\ path'[p] = name
          /\ UNCHANGED <<chain, flushed, seconds, faults>>
      BY <1>8, <2>2 DEF OpenLog, Goto, Typed
    <3>3. \A q \in Processes : q # p => path'[q] = path[q] /\ pc'[q] = pc[q]
      BY <2>2, <3>2 DEF Typed, TypeOK
    <3>4. pc'[p] = "write" /\ flushed[p] = 0 /\ 0 < Len(LogOf(p))
      BY <1>1, <3>2 DEF Typed, TypeOK
    <3>5. TypeOK'
      BY <1>1, <1>2, <2>1, <3>1, <3>2, <3>3, <3>4 DEF Typed, TypeOK
    <3>6. QED  BY <3>1, <3>2, <3>3, <3>4, <3>5 DEF Typed
  <2>3. CASE Goto(p, "failed") /\ UNCHANGED <<path, files>>
    BY <1>1, <1>2, <1>8, <2>3 DEF Typed, TypeOK, OpenLog, Goto
  <2>4. QED  BY <1>8, <2>2, <2>3 DEF OpenLog, name
<1>9. CASE FlushLine(p)
  <2>1. DOMAIN files' = DOMAIN files /\ UNCHANGED <<pc, chain, path, seconds, faults>>
    BY <1>9 DEF FlushLine, WriteAt
  <2>2. flushed' = [flushed EXCEPT ![p] = flushed[p] + 1] /\ flushed[p] < Len(LogOf(p))
        /\ pc[p] = "write" /\ flushed[p] \in Nat
    BY <1>9 DEF FlushLine, Typed, TypeOK
  <2>3. QED  BY <1>1, <1>2, <2>1, <2>2 DEF Typed, TypeOK
<1>12. CASE CloseLog(p)
  BY <1>1, <1>2, <1>12 DEF Typed, TypeOK, CloseLog, Goto
<1>10. CASE Stop(p)
  <2>1. DOMAIN files' = DOMAIN files
    BY <1>10 DEF Stop, WriteAt
  <2>2. pc' = [pc EXCEPT ![p] = IF pc[p] = "write" THEN "failed" ELSE "killed"]
        /\ UNCHANGED <<chain, path, flushed, seconds, faults>>
    BY <1>10 DEF Stop, Goto
  <2>3. QED  BY <1>1, <1>2, <2>1, <2>2 DEF Typed, TypeOK
<1>13. QED  BY <1>3, <1>4, <1>5, <1>6, <1>7, <1>8, <1>9, <1>10, <1>12 DEF Step

\* The type invariant of the processes, their clock and their files, for any number of
\* processes (`sentinel run` and `sentinel demo`, cli.py).
THEOREM LogsTyped == Spec => []Typed
<1>1. Typed /\ [Next]_vars => Typed'
  <2> SUFFICES ASSUME Typed, [Next]_vars PROVE Typed'
    OBVIOUS
  <2>1. CASE \E p \in Processes : Step(p)
    BY <2>1, TypedStep
  <2>2. CASE Tick
    <3>1. seconds' \in 0..MaxSeconds /\ UNCHANGED <<processVars, files, faults>>
      BY <2>2, ProcessAssumption DEF Tick, Typed
    <3>2. QED  BY <3>1 DEF Typed, TypeOK, processVars, LogOf
  <2>3. CASE Damage
    <3>1. DOMAIN files' = DOMAIN files /\ faults' \in Nat /\ UNCHANGED <<processVars, seconds>>
      BY <2>3 DEF Damage, Typed
    <3>2. QED  BY <3>1 DEF Typed, TypeOK, processVars, LogOf
  <2>4. CASE UNCHANGED vars
    BY <2>4 DEF Typed, TypeOK, vars, processVars, LogOf
  <2>5. QED  BY <2>1, <2>2, <2>3, <2>4 DEF Next
<1>2. QED  BY TypedInit, <1>1, PTL DEF Spec

\* Its part the runs check: the state of a process, its log and what has reached it
\* agree (_run_investigation, _run_demo).
THEOREM LogsTypeCorrect == Spec => []TypeOK
<1>1. Typed => TypeOK
  BY DEF Typed
<1>2. QED  BY <1>1, LogsTyped, PTL

-----------------------------------------------------------------------------
LEMMA ChainsVerifyStep ==
    ASSUME Typed, ChainsVerify, [Next]_vars
    PROVE  ChainsVerify'
<1>1. CASE \E p \in Processes : ExecuteTool(p)
  <2>1. PICK p \in Processes : ExecuteTool(p)
    BY <1>1
  <2>2. PICK r \in AnyReceipt :
           /\ chain' = [chain EXCEPT ![p] = Append(@, r)]
           /\ Verifies(CaseOf[p], SecretOf[p], chain[p]) =>
                 Verifies(CaseOf[p], SecretOf[p], Append(chain[p], r))
    BY <2>1, ExecuteToolSound
  <2>3. chain' \in [Processes -> Seq(AnyReceipt)]
    BY <2>1, ExecuteToolSound
  <2>4. ASSUME NEW q \in Processes PROVE Verifies(CaseOf[q], SecretOf[q], chain'[q])
    <3>1. CASE q = p
      BY <2>2, <3>1 DEF ChainsVerify
    <3>2. CASE q # p
      <4>1. chain'[q] = chain[q]
        BY <2>2, <3>2 DEF ChainsVerify
      <4>2. QED  BY <4>1 DEF ChainsVerify
    <3>3. QED  BY <3>1, <3>2
  <2>5. QED  BY <2>3, <2>4 DEF ChainsVerify
<1>2. CASE ~\E p \in Processes : ExecuteTool(p)
  <2>1. chain' = chain
    BY <1>2 DEF Next, Step, Begin, EndSession, PrintReport, VerifyChain, OpenLog, FlushLine,
                CloseLog, Stop, Tick, Damage, vars, processVars
  <2>2. QED  BY <2>1 DEF ChainsVerify
<1>3. QED  BY <1>1, <1>2

\* verify succeeds on the chain of every process at every moment: a demo never finds its
\* own chain invalid (cli.py, _run_demo).
THEOREM ChainsAlwaysVerify == Spec => []ChainsVerify
<1>1. Init => ChainsVerify
  <2> SUFFICES ASSUME Init PROVE ChainsVerify
    OBVIOUS
  <2>1. chain \in [Processes -> Seq(AnyReceipt)]
    BY DEF Init
  <2>2. ASSUME NEW p \in Processes PROVE Verifies(CaseOf[p], SecretOf[p], chain[p])
    <3>1. chain[p] = << >>
      BY DEF Init
    <3>2. QED  BY <3>1 DEF Verifies
  <2>3. QED  BY <2>1, <2>2 DEF ChainsVerify
<1>2. Typed /\ ChainsVerify /\ [Next]_vars => ChainsVerify'
  BY ChainsVerifyStep
<1>3. QED  BY <1>1, <1>2, LogsTyped, PTL DEF Spec

-----------------------------------------------------------------------------
\* Whatever a file holds, its receipts' signatures are some process's own.
LogsSigned == \A f \in DOMAIN files : files[f] \in Seq(LogLine)

LEMMA SeqMonotone ==
    ASSUME NEW A, NEW B, A \subseteq B, NEW s \in Seq(A)
    PROVE  s \in Seq(B)
OBVIOUS

LEMMA AlteredLine ==
    ASSUME NEW line \in LogLine
    PROVE  Altered(line) \in LogLine
<1>1. CASE line \in [kind: {"receipt"}, receipt: Signed]
  <2> DEFINE r == line.receipt
             d == Sha256("altered")
             a == [r EXCEPT !.output_sha256 = d]
  <2>1. line = [kind |-> "receipt", receipt |-> r] /\ r \in Signed /\ line.kind = "receipt"
    BY <1>1
  <2>2. Altered(line) = [kind |-> "receipt", receipt |-> a]
    BY <2>1 DEF Altered
  <2>3. r \in AnyReceipt
    BY <2>1 DEF Signed
  <2>4. d \in [sha256: Outputs \cup {"altered"}]
    BY DEF Sha256
  <2>5. a \in AnyReceipt /\ a.signature = r.signature
    BY <2>3, <2>4 DEF AnyReceipt, Receipt
  <2>6. a \in Signed
    BY <2>1, <2>5 DEF Signed
  <2>7. QED  BY <2>2, <2>6 DEF LogLine
<1>2. CASE line \in [kind: {"header"}, session_id: Sessions] \cup {TornLine}
  <2>1. line.kind # "receipt"
    BY <1>2 DEF TornLine
  <2>2. QED  BY <2>1 DEF Altered, LogLine
<1>3. QED  BY <1>1, <1>2 DEF LogLine

LEMMA LineOfLog ==
    ASSUME Typed, NEW p \in Processes, NEW n \in 1..Len(LogOf(p))
    PROVE  LogOf(p)[n] \in LogLine
<1>1. chain[p] \in Seq(AnyReceipt) /\ CaseOf[p] \in Sessions
  BY DEF Typed, Sessions
<1>2. /\ Len(LogOf(p)) = Len(chain[p]) + 1
      /\ LogOf(p)[1] = Header(CaseOf[p])
      /\ \A i \in 1..Len(chain[p]) : LogOf(p)[i + 1] = ReceiptLine(chain[p][i])
  BY <1>1, LinesOfLog DEF LogOf
<1>3. CASE n = 1
  BY <1>1, <1>2, <1>3 DEF Header, LogLine
<1>4. CASE n # 1
  <2>1. n - 1 \in 1..Len(chain[p]) /\ (n - 1) + 1 = n
    BY <1>1, <1>2, <1>4
  <2>2. LogOf(p)[n] = ReceiptLine(chain[p][n - 1])
    BY <1>2, <2>1
  <2>3. chain[p][n - 1] \in Signed
    BY <1>1, <2>1 DEF Signed
  <2>4. QED  BY <2>2, <2>3 DEF ReceiptLine, LogLine
<1>5. QED  BY <1>3, <1>4

LEMMA LogsSignedStep ==
    ASSUME Typed, LogsSigned, [Next]_vars
    PROVE  LogsSigned'
<1>1. Signed \subseteq Signed'
  <2>1. CASE \E p \in Processes : ExecuteTool(p)
    <3>1. PICK p \in Processes : ExecuteTool(p)
      BY <2>1
    <3>2. PICK r \in AnyReceipt : chain' = [chain EXCEPT ![p] = Append(@, r)]
      BY <3>1, ExecuteToolSound
    <3>3. ASSUME NEW q \in Processes, NEW j \in 1..Len(chain[q])
          PROVE  j \in 1..Len(chain'[q]) /\ chain'[q][j] = chain[q][j]
      <4>1. chain[q] \in Seq(AnyReceipt)
        BY DEF Typed
      <4>2. chain'[q] = IF q = p THEN Append(chain[q], r) ELSE chain[q]
        BY <3>2 DEF Typed
      <4>3. QED  BY <4>1, <4>2
    <3>4. QED  BY <3>3 DEF Signed
  <2>2. CASE ~\E p \in Processes : ExecuteTool(p)
    <3>1. chain' = chain
      BY <2>2 DEF Next, Step, Begin, EndSession, PrintReport, VerifyChain, OpenLog, FlushLine,
                  CloseLog, Stop, Tick, Damage, vars, processVars
    <3>2. QED  BY <3>1 DEF Signed
  <2>3. QED  BY <2>1, <2>2
<1>2. LogLine \subseteq LogLine'
  BY <1>1 DEF LogLine
<1>3. SUFFICES \A f \in DOMAIN files' : files'[f] \in Seq(LogLine)
  BY <1>2, SeqMonotone DEF LogsSigned
<1>4. TornLine \in LogLine
  BY DEF LogLine
<1>5. ASSUME NEW p \in Processes, pc[p] = "write", NEW line \in LogLine, WriteAt(p, line)
      PROVE  \A f \in DOMAIN files' : files'[f] \in Seq(LogLine)
  <2>1. path[p] \in DOMAIN files /\ flushed[p] + 1 \in Nat \ {0}
    BY <1>5 DEF Typed, TypeOK
  <2>2. PICK lines \in LinesAfterWrite(files[path[p]], flushed[p] + 1, line) :
           files' = [files EXCEPT ![path[p]] = lines]
    BY <1>5 DEF WriteAt
  <2>3. files[path[p]] \in Seq(LogLine)
    BY <2>1 DEF LogsSigned
  <2>4. lines \in Seq(LogLine)
    BY <1>4, <1>5, <2>1, <2>2, <2>3, WritesLines
  <2>5. QED  BY <2>1, <2>2, <2>4 DEF LogsSigned
<1>6. CASE \E p \in Processes : FlushLine(p)
  <2>1. PICK p \in Processes : FlushLine(p)
    BY <1>6
  <2>2. flushed[p] + 1 \in 1..Len(LogOf(p)) /\ pc[p] = "write"
    BY <2>1, LogLength DEF FlushLine, Typed, TypeOK
  <2>3. LogOf(p)[flushed[p] + 1] \in LogLine
    BY <2>2, LineOfLog
  <2>4. QED  BY <1>5, <2>1, <2>2, <2>3 DEF FlushLine
<1>7. CASE \E p \in Processes : Stop(p)
  BY <1>4, <1>5, <1>7 DEF Stop, LogsSigned
<1>8. CASE \E p \in Processes : OpenLog(p)
  <2>1. PICK p \in Processes : OpenLog(p)
    BY <1>8
  <2> DEFINE name == <<LogNameOf[p], seconds>>
  <2>2. CASE files' = [f \in DOMAIN files \cup {name} |-> IF f = name THEN << >> ELSE files[f]]
    <3> HIDE DEF name
    <3>1. << >> \in Seq(LogLine)
      OBVIOUS
    <3>2. QED  BY <2>2, <3>1 DEF LogsSigned
  <2>3. CASE UNCHANGED files
    BY <2>3 DEF LogsSigned
  <2>4. QED  BY <2>1, <2>2, <2>3 DEF OpenLog
<1>9. CASE Damage
  <2>1. PICK f \in DOMAIN files : \E lines \in Damages(files[f]) :
           files' = [files EXCEPT ![f] = lines]
    BY <1>9 DEF Damage
  <2>2. PICK lines \in Damages(files[f]) : files' = [files EXCEPT ![f] = lines]
    BY <2>1
  <2>3. lines \in Seq(LogLine)
    BY <2>1, <2>2, AlteredLine, DamagesLines DEF LogsSigned
  <2>4. QED  BY <2>2, <2>3 DEF LogsSigned
<1>10. CASE UNCHANGED files
  BY <1>10 DEF LogsSigned
<1>11. QED
  BY <1>6, <1>7, <1>8, <1>9, <1>10
  DEF Next, Step, Begin, ExecuteTool, EndSession, PrintReport, VerifyChain, CloseLog, Tick, vars,
      processVars

\* Damage can alter a receipt of a log, but no log ever holds a signature that append did
\* not make in some session (receipts.py, append and to_jsonl).
THEOREM LogsAlwaysSigned == Spec => []LogsSigned
<1>1. Init => LogsSigned
  BY DEF Init, LogsSigned
<1>2. Typed /\ LogsSigned /\ [Next]_vars => LogsSigned'
  BY LogsSignedStep
<1>3. QED  BY <1>1, <1>2, LogsTyped, PTL DEF Spec

\* A log `sentinel verify` accepts holds the first receipts of one session, whatever
\* other sessions, kills and full disks wrote over it and however often it was damaged.
THEOREM ValidLogsArePrefixes == Spec => []ValidLogIsPrefixOfSession
<1>1. ASSUME ChainsVerify, LogsSigned PROVE ValidLogIsPrefixOfSession
  <2>1. SUFFICES ASSUME NEW f \in DOMAIN files, NEW secret \in Secrets,
                        CmdVerifySucceeds(secret, files[f])
                 PROVE  \E p \in Processes : /\ SecretOf[p] = secret
                                             /\ IsPrefix(LoadedChain(files[f]), chain[p])
    BY DEF ValidLogIsPrefixOfSession
  <2> DEFINE lines == files[f]
             found == LoadedChain(lines)
             session == LoadedSession(lines)
  <2>2. lines \in Seq(LogLine) /\ Len(lines) >= 1
        /\ \A i \in 2..Len(lines) : lines[i].kind = "receipt"
    BY <1>1, <2>1 DEF LogsSigned, CmdVerifySucceeds, LoadFails
  <2>3. ASSUME NEW i \in 2..Len(lines) PROVE lines[i].receipt \in Signed
    <3>1. lines[i] \in LogLine /\ lines[i].kind = "receipt"
      BY <2>2
    <3>2. QED  BY <3>1 DEF LogLine, TornLine
  <2>4. found \in Seq(Signed) /\ Len(found) = Len(lines) - 1
    BY <2>2, <2>3 DEF LoadedChain
  <2>5. Verifies(session, secret, found)
    BY <2>1 DEF CmdVerifySucceeds
  <2> HIDE DEF found, session, lines
  <2>6. CASE found = << >>
    <3>1. PICK p \in Processes : SecretOf[p] = secret
      BY DEF Secrets
    <3>2. chain[p] \in Seq(AnyReceipt)
      BY <1>1 DEF ChainsVerify
    <3>3. IsPrefix(found, chain[p])
      BY <2>6, <3>2 DEF IsPrefix
    <3>4. QED  BY <3>1, <3>3 DEF found, lines
  <2>7. CASE found # << >>
    <3>1. found[Len(found)] \in Signed
      BY <2>4, <2>7
    <3>2. PICK p \in Processes : \E j \in 1..Len(chain[p]) :
             found[Len(found)].signature = chain[p][j].signature
      BY <3>1 DEF Signed
    <3>3. PICK j \in 1..Len(chain[p]) :
             found[Len(found)].signature = chain[p][j].signature
      BY <3>2
    <3>4. chain[p] \in Seq(AnyReceipt) /\ Verifies(CaseOf[p], SecretOf[p], chain[p])
      BY <1>1 DEF ChainsVerify
    <3>5. found \in Seq(AnyReceipt)
      BY <2>4 DEF Signed
    <3>6. /\ secret = SecretOf[p]
          /\ Len(found) <= Len(chain[p]) /\ found = SubSeq(chain[p], 1, Len(found))
      BY <2>5, <2>7, <3>3, <3>4, <3>5, VerifiedIsPrefix DEF AnyReceipt
    <3>7. SubSeq(found, 1, Len(found)) = found
      BY <3>5
    <3>8. IsPrefix(found, chain[p])
      BY <3>6, <3>7 DEF IsPrefix
    <3>9. QED  BY <3>6, <3>8 DEF found, lines
  <2>8. QED  BY <2>6, <2>7
<1>2. QED  BY <1>1, ChainsAlwaysVerify, LogsAlwaysSigned, PTL

-----------------------------------------------------------------------------
\* A process has a file exactly from its open on.
PathsChosen ==
    \A p \in Processes :
        /\ pc[p] \in {"start", "session", "report", "verify", "open"} => path[p] = None
        /\ pc[p] \in {"write", "exited"} => path[p] \in FileName

\* A process that shares its file with no one finds there the lines it has flushed.
SavedSoFar ==
    \A p \in Processes : pc[p] \in {"write", "exited"} /\ Undisturbed(p) =>
        /\ path[p] \in DOMAIN files
        /\ files[path[p]] = SubSeq(LogOf(p), 1, flushed[p])

LEMMA PathsChosenStep ==
    ASSUME Typed, PathsChosen, [Next]_vars
    PROVE  PathsChosen'
<1>1. CASE \E p \in Processes : Step(p)
  <2>1. PICK p \in Processes : Step(p)
    BY <1>1
  <2>2. CASE OpenLog(p) /\ pc'[p] = "write"
    <3>1. <<LogNameOf[p], seconds>> \in FileName
      BY DEF FileName, Typed
    <3>2. path' = [path EXCEPT ![p] = <<LogNameOf[p], seconds>>] /\ pc' = [pc EXCEPT ![p] = "write"]
      BY <2>2 DEF OpenLog, Goto, Typed, TypeOK
    <3> DEFINE name == <<LogNameOf[p], seconds>>
    <3> HIDE DEF name
    <3>3. path' = [path EXCEPT ![p] = name] /\ name \in FileName
      BY <3>1, <3>2 DEF name
    <3>4. QED  BY <3>2, <3>3 DEF PathsChosen, Typed, TypeOK
  <2>3. CASE ~(OpenLog(p) /\ pc'[p] = "write")
    <3>1. path' = path
      BY <2>1, <2>3 DEF Step, Begin, ExecuteTool, EndSession, PrintReport, VerifyChain, OpenLog,
                        FlushLine, CloseLog, Stop, Goto, Typed, TypeOK
    <3>2. \A q \in Processes : q # p => pc'[q] = pc[q]
      BY <2>1 DEF Step, Begin, ExecuteTool, EndSession, PrintReport, VerifyChain, OpenLog,
                  FlushLine, CloseLog, Stop, Goto, Typed, TypeOK
    <3>3. /\ pc'[p] \in {"start", "session", "report", "verify", "open"} =>
                pc[p] \in {"start", "session", "report", "verify", "open"}
          /\ pc'[p] \in {"write", "exited"} => pc[p] = "write"
      BY <2>1, <2>3 DEF Step, Begin, ExecuteTool, EndSession, PrintReport, VerifyChain, OpenLog,
                  FlushLine, CloseLog, Stop, Goto, Live, Typed, TypeOK
    <3>4. QED  BY <3>1, <3>2, <3>3 DEF PathsChosen
  <2>4. QED  BY <2>2, <2>3
<1>2. CASE UNCHANGED <<pc, path>>
  BY <1>2 DEF PathsChosen
<1>3. QED  BY <1>1, <1>2 DEF Next, Tick, Damage, vars, processVars

\* The next line of a file that holds n lines of a log makes it hold n + 1.
LEMMA NextLine ==
    ASSUME NEW L, NEW log \in Seq(L), NEW n \in 0..(Len(log) - 1),
           NEW lines \in LinesAfterWrite(SubSeq(log, 1, n), n + 1, log[n + 1])
    PROVE  lines = SubSeq(log, 1, n + 1)
<1> DEFINE old == SubSeq(log, 1, n)
<1>1. old \in Seq(L) /\ Len(old) = n /\ \A i \in 1..n : old[i] = log[i]
  OBVIOUS
<1>2. lines = [i \in 1..(n + 1) |-> IF i <= Len(old) THEN old[i]
                                    ELSE IF i = n + 1 THEN log[n + 1] ELSE TornLine]
  BY <1>1 DEF LinesAfterWrite
<1> HIDE DEF old
<1>3. lines \in Seq(L) /\ Len(lines) = n + 1
  <2>1. lines \in [1..(n + 1) -> L]
    BY <1>1, <1>2
  <2>2. QED  BY <2>1
<1>4. \A i \in 1..(n + 1) : lines[i] = log[i]
  BY <1>1, <1>2
<1>5. QED  BY <1>3, <1>4

\* A step of one process leaves the others' own state alone.
LEMMA OthersStep ==
    ASSUME Typed, NEW p \in Processes, NEW q \in Processes, q # p, Step(q)
    PROVE  /\ pc'[p] = pc[p] /\ path'[p] = path[p] /\ flushed'[p] = flushed[p]
           /\ chain'[p] = chain[p] /\ LogOf(p)' = LogOf(p)
           /\ faults' = faults
<1>1. /\ pc'[p] = pc[p] /\ path'[p] = path[p] /\ flushed'[p] = flushed[p]
      /\ chain'[p] = chain[p] /\ faults' = faults
  BY DEF Step, Begin, ExecuteTool, EndSession, PrintReport, VerifyChain, OpenLog, FlushLine,
         CloseLog, Stop, Goto, Typed, TypeOK
<1>2. QED  BY <1>1 DEF LogOf

\* ... and their files, where they do not share them.
LEMMA OthersLeaveLog ==
    ASSUME Typed, PathsChosen, NEW p \in Processes, NEW q \in Processes, q # p, Step(q),
           path[p] \in FileName, Undisturbed(p)'
    PROVE  /\ Undisturbed(p)
           /\ path[p] \in DOMAIN files =>
                 path[p] \in DOMAIN files' /\ files'[path[p]] = files[path[p]]
<1>0. path'[p] = path[p] /\ faults' = faults /\ \A r \in Processes : r # q => path'[r] = path[r]
  BY OthersStep
<1>1. path'[q] # path[p]
  BY <1>0 DEF Undisturbed
<1>2. path[q] # path[p]
  <2>1. path'[q] = path[q] \/ path[q] = None
    BY DEF Step, Begin, ExecuteTool, EndSession, PrintReport, VerifyChain, OpenLog,
           FlushLine, CloseLog, Stop, PathsChosen
  <2>2. QED  BY <1>1, <2>1, NoneAssumption
<1>3. Undisturbed(p)
  <2>1. ASSUME NEW r \in Processes \ {p} PROVE path[r] # path[p]
    BY <1>0, <1>2 DEF Undisturbed
  <2>2. QED  BY <1>0, <2>1 DEF Undisturbed
<1>4. ASSUME path[p] \in DOMAIN files
      PROVE  path[p] \in DOMAIN files' /\ files'[path[p]] = files[path[p]]
  <2>1. CASE OpenLog(q)
    <3> DEFINE name == <<LogNameOf[q], seconds>>
    <3>1. CASE /\ path' = [path EXCEPT ![q] = name]
               /\ files' = [f \in DOMAIN files \cup {name} |->
                               IF f = name THEN << >> ELSE files[f]]
      <4> HIDE DEF name
      <4>1. path'[q] = name
        BY <3>1 DEF Typed
      <4>2. QED  BY <1>1, <1>4, <3>1, <4>1
    <3>2. QED  BY <1>4, <2>1, <3>1 DEF OpenLog
  <2>2. CASE FlushLine(q) \/ Stop(q)
    BY <1>2, <1>4, <2>2 DEF FlushLine, Stop, WriteAt
  <2>3. CASE UNCHANGED files
    BY <1>4, <2>3
  <2>4. QED
    BY <2>1, <2>2, <2>3
    DEF Step, Begin, ExecuteTool, EndSession, PrintReport, VerifyChain, CloseLog
<1>5. QED  BY <1>3, <1>4

LEMMA SavedSoFarStep ==
    ASSUME Typed, PathsChosen, SavedSoFar, [Next]_vars
    PROVE  SavedSoFar'
<1>1. SUFFICES ASSUME NEW p \in Processes,
                      pc'[p] \in {"write", "exited"}, Undisturbed(p)'
               PROVE  /\ path'[p] \in DOMAIN files'
                      /\ files'[path'[p]] = SubSeq(LogOf(p)', 1, flushed'[p])
  BY DEF SavedSoFar
<1> DEFINE Saved == /\ path[p] \in DOMAIN files
                    /\ files[path[p]] = SubSeq(LogOf(p), 1, flushed[p])
<1>2. CASE UNCHANGED <<pc, chain, path, flushed, files, faults>>
  <2>1. Saved
    BY <1>1, <1>2 DEF SavedSoFar, Undisturbed
  <2>2. QED  BY <1>2, <2>1 DEF LogOf
<1>3. CASE Damage
  BY <1>1, <1>3 DEF Damage, Undisturbed, Typed
<1>4. ASSUME NEW q \in Processes, Step(q)
      PROVE  /\ path'[p] \in DOMAIN files'
             /\ files'[path'[p]] = SubSeq(LogOf(p)', 1, flushed'[p])
  <2>1. faults' = faults
    BY <1>4 DEF Step, Begin, ExecuteTool, EndSession, PrintReport, VerifyChain, OpenLog,
                FlushLine, CloseLog, Stop
  <2>2. CASE q # p
    <3>1. pc[p] \in {"write", "exited"} /\ path[p] \in FileName
      BY <1>1, <1>4, <2>2, OthersStep DEF PathsChosen
    <3>2. Undisturbed(p)
      BY <1>1, <1>4, <2>2, <3>1, OthersLeaveLog
    <3>3. Saved
      BY <3>1, <3>2 DEF SavedSoFar
    <3>4. QED  BY <1>1, <1>4, <2>2, <3>1, <3>3, OthersStep, OthersLeaveLog
  <2>3. CASE q = p
    <3>1. OpenLog(p) \/ FlushLine(p) \/ CloseLog(p)
      BY <1>1, <1>4, <2>3 DEF Step, Begin, ExecuteTool, EndSession, PrintReport, VerifyChain,
                              Stop, Goto, Typed, TypeOK
    <3>2. LogOf(p)' = LogOf(p)
      BY <3>1 DEF OpenLog, FlushLine, CloseLog, LogOf
    <3>3. chain[p] \in Seq(AnyReceipt)
      BY DEF Typed
    <3>4. CASE OpenLog(p)
      <4> DEFINE name == <<LogNameOf[p], seconds>>
      <4>1. /\ path' = [path EXCEPT ![p] = name] /\ flushed'[p] = 0
            /\ files' = [f \in DOMAIN files \cup {name} |->
                            IF f = name THEN << >> ELSE files[f]]
        BY <1>1, <3>4 DEF OpenLog, Goto, Typed, TypeOK
      <4> HIDE DEF name
      <4>2. path'[p] = name /\ files'[name] = << >> /\ name \in DOMAIN files'
        BY <4>1 DEF Typed
      <4>3. SubSeq(LogOf(p), 1, 0) = << >>
        BY <3>3, LinesOfLog DEF LogOf
      <4>4. QED  BY <3>2, <4>1, <4>2, <4>3
    <3>5. CASE FlushLine(p)
      <4>1. /\ pc[p] = "write" /\ path' = path /\ chain' = chain
            /\ flushed'[p] = flushed[p] + 1
            /\ \E lines \in LinesAfterWrite(files[path[p]], flushed[p] + 1,
                                            LogOf(p)[flushed[p] + 1]) :
                  files' = [files EXCEPT ![path[p]] = lines]
        BY <3>5 DEF FlushLine, WriteAt, Typed
      <4>2. Saved
        BY <1>1, <2>1, <4>1 DEF SavedSoFar, Undisturbed
      <4>3. flushed[p] \in 0..(Len(LogOf(p)) - 1)
        BY <3>5, <3>3, LogLength DEF FlushLine, Typed, TypeOK
      <4>4. PICK lines \in LinesAfterWrite(SubSeq(LogOf(p), 1, flushed[p]), flushed[p] + 1,
                                           LogOf(p)[flushed[p] + 1]) :
               files' = [files EXCEPT ![path[p]] = lines]
        BY <4>1, <4>2
      <4>5. PICK L : LogOf(p) \in Seq(L)
        BY <3>3, LogIsSeq DEF LogOf
      <4>6. lines = SubSeq(LogOf(p), 1, flushed[p] + 1)
        BY <4>3, <4>4, <4>5, NextLine
      <4>7. QED  BY <3>2, <4>1, <4>2, <4>4, <4>6
    <3>6. CASE CloseLog(p)
      <4>1. pc[p] = "write" /\ UNCHANGED <<path, flushed, files, faults>>
        BY <3>6 DEF CloseLog
      <4>2. Saved
        BY <1>1, <4>1 DEF SavedSoFar, Undisturbed
      <4>3. QED  BY <3>2, <4>1, <4>2
    <3>7. QED  BY <2>3, <3>1, <3>4, <3>5, <3>6
  <2>4. QED  BY <2>2, <2>3
<1>5. QED  BY <1>1, <1>2, <1>3, <1>4 DEF Next, Tick, vars, processVars

\* What `verify` reads in the first lines of a log: the first receipts of its session.
LEMMA LogReads ==
    ASSUME NEW R, NEW ch \in Seq(R), NEW session, NEW n \in 1..(Len(ch) + 1)
    PROVE  /\ Len(SubSeq(ToJsonl(session, ch), 1, n)) = n
           /\ ~LoadFails(SubSeq(ToJsonl(session, ch), 1, n))
           /\ LoadedSession(SubSeq(ToJsonl(session, ch), 1, n)) = session
           /\ LoadedChain(SubSeq(ToJsonl(session, ch), 1, n)) = SubSeq(ch, 1, n - 1)
<1> DEFINE log == ToJsonl(session, ch)
           lines == SubSeq(log, 1, n)
<1>1. /\ Len(log) = Len(ch) + 1 /\ log[1] = Header(session)
      /\ \A i \in 1..Len(ch) : log[i + 1] = ReceiptLine(ch[i])
  BY LinesOfLog
<1>2. PICK L : log \in Seq(L)
  BY LogIsSeq
<1> HIDE DEF log
<1>3. lines \in Seq(L) /\ Len(lines) = n /\ \A i \in 1..n : lines[i] = log[i]
  BY <1>1, <1>2 DEF log
<1> HIDE DEF lines
<1>4. lines # << >> /\ lines[1] = Header(session)
  <2>1. lines[1] = log[1]
    BY <1>3
  <2>2. Len(<< >>) = 0 /\ Len(lines) # 0
    BY <1>3
  <2>3. QED  BY <1>1, <2>1, <2>2, Zenon
<1>5. ASSUME NEW i \in 1..(n - 1) PROVE lines[i + 1] = ReceiptLine(ch[i])
  BY <1>1, <1>3
<1>6. ASSUME NEW i \in 2..Len(lines) PROVE lines[i].kind = "receipt"
  <2>1. i - 1 \in 1..(n - 1) /\ (i - 1) + 1 = i
    BY <1>3
  <2>2. lines[i] = ReceiptLine(ch[i - 1])
    BY <1>5, <2>1
  <2>3. QED  BY <2>2 DEF ReceiptLine
<1>7. LoadedChain(lines) = SubSeq(ch, 1, n - 1)
  <2>1. LoadedChain(lines) = [i \in 1..(n - 1) |-> lines[i + 1].receipt]
    BY <1>3 DEF LoadedChain
  <2>2. ASSUME NEW i \in 1..(n - 1) PROVE lines[i + 1].receipt = ch[i]
    <3>1. lines[i + 1] = ReceiptLine(ch[i])
      BY <1>5
    <3>2. QED  BY <3>1 DEF ReceiptLine
  <2>3. SubSeq(ch, 1, n - 1) = [i \in 1..(n - 1) |-> ch[i]]
    OBVIOUS
  <2>4. QED  BY <2>1, <2>2, <2>3
<1>8. ~LoadFails(lines) /\ LoadedSession(lines) = session
  BY <1>3, <1>4, <1>6 DEF LoadFails, LoadedSession, Header
<1>9. QED  BY <1>3, <1>7, <1>8 DEF lines, log

\* A process that returned 0 and shared its file name with no one, and whose log was not
\* damaged since, has left a log that verifies and holds every receipt of its session.
THEOREM ExitZeroSaved == Spec => []ExitZeroMeansSaved
<1>1. Init => PathsChosen /\ SavedSoFar
  BY DEF Init, PathsChosen, SavedSoFar
<1>2. Typed /\ PathsChosen /\ SavedSoFar /\ [Next]_vars => (PathsChosen /\ SavedSoFar)'
  BY PathsChosenStep, SavedSoFarStep
<1>3. ASSUME Typed, ChainsVerify, SavedSoFar PROVE ExitZeroMeansSaved
  <2>1. SUFFICES ASSUME NEW p \in Processes, pc[p] = "exited", Undisturbed(p)
                 PROVE  LogIsComplete(p)
    BY DEF ExitZeroMeansSaved
  <2> DEFINE lines == files[path[p]]
  <2>2. chain[p] \in Seq(AnyReceipt) /\ Verifies(CaseOf[p], SecretOf[p], chain[p])
    BY <1>3 DEF ChainsVerify
  <2>3. flushed[p] = Len(chain[p]) + 1 /\ Len(chain[p]) \in Nat
    BY <1>3, <2>1, LogLength DEF Typed, TypeOK
  <2>4. lines = SubSeq(ToJsonl(CaseOf[p], chain[p]), 1, Len(chain[p]) + 1)
    BY <1>3, <2>1, <2>3 DEF SavedSoFar, LogOf
  <2>5. Len(chain[p]) + 1 \in 1..(Len(chain[p]) + 1) /\ (Len(chain[p]) + 1) - 1 = Len(chain[p])
    BY <2>3
  <2> HIDE DEF lines
  <2>6. /\ ~LoadFails(lines) /\ LoadedSession(lines) = CaseOf[p]
        /\ LoadedChain(lines) = SubSeq(chain[p], 1, Len(chain[p]))
    <3>1. /\ ~LoadFails(lines) /\ LoadedSession(lines) = CaseOf[p]
          /\ LoadedChain(lines) = SubSeq(chain[p], 1, (Len(chain[p]) + 1) - 1)
      <4>1. chain[p] \in Seq(AnyReceipt) /\ Len(chain[p]) + 1 \in 1..(Len(chain[p]) + 1)
        BY <2>2, <2>5
      <4>2. QED  BY <2>4, <4>1, LogReads
    <3>2. QED  BY <2>5, <3>1
  <2>7. SubSeq(chain[p], 1, Len(chain[p])) = chain[p]
    BY <2>2
  <2>8. QED  BY <2>2, <2>6, <2>7 DEF LogIsComplete, CmdVerifySucceeds, lines
<1>4. QED  BY <1>1, <1>2, <1>3, LogsTyped, ChainsAlwaysVerify, PTL DEF Spec

-----------------------------------------------------------------------------
\* The lines that had reached the file of a process when it stopped, and perhaps a cut one.
StoppedLog(p) ==
    LET saved == SubSeq(LogOf(p), 1, flushed[p])
    IN  {saved, Append(saved, TornLine)}

\* A process that stopped while it wrote, and shared its file with no one.
StoppedKept ==
    \A p \in Processes : pc[p] = "failed" /\ path[p] # None /\ Undisturbed(p) =>
        path[p] \in DOMAIN files /\ files[path[p]] \in StoppedLog(p)

\* A cut line at the end of the first n lines of a log.
LEMMA CutLine ==
    ASSUME NEW L, NEW log \in Seq(L), NEW n \in 0..(Len(log) - 1),
           NEW lines \in LinesAfterWrite(SubSeq(log, 1, n), n + 1, TornLine)
    PROVE  lines = Append(SubSeq(log, 1, n), TornLine)
<1> DEFINE old == SubSeq(log, 1, n)
<1>1. old \in Seq(L) /\ Len(old) = n
  OBVIOUS
<1> HIDE DEF old
<1>2. lines = [i \in 1..(n + 1) |-> IF i <= Len(old) THEN old[i]
                                    ELSE IF i = n + 1 THEN TornLine ELSE TornLine]
  BY <1>1 DEF LinesAfterWrite, old
<1>3. Append(old, TornLine) = [i \in 1..(n + 1) |-> IF i <= n THEN old[i] ELSE TornLine]
  <2> DEFINE cut == Append(old, TornLine)
  <2>1. /\ cut \in Seq(L \cup {TornLine}) /\ Len(cut) = n + 1 /\ cut[n + 1] = TornLine
        /\ \A i \in 1..n : cut[i] = old[i]
    <3>1. old \in Seq(L \cup {TornLine}) /\ n \in Nat
      BY <1>1
    <3>2. QED  BY <1>1, <3>1
  <2> HIDE DEF cut
  <2>2. cut = [i \in 1..(n + 1) |-> cut[i]]
    BY <2>1
  <2>3. \A i \in 1..(n + 1) : cut[i] = IF i <= n THEN old[i] ELSE TornLine
    BY <2>1
  <2>4. QED  BY <2>2, <2>3 DEF cut
<1>4. QED  BY <1>1, <1>2, <1>3 DEF old

LEMMA StoppedKeptStep ==
    ASSUME Typed, PathsChosen, SavedSoFar, StoppedKept, [Next]_vars
    PROVE  StoppedKept'
<1>1. SUFFICES ASSUME NEW p \in Processes,
                      pc'[p] = "failed", path'[p] # None, Undisturbed(p)'
               PROVE  path'[p] \in DOMAIN files' /\ files'[path'[p]] \in StoppedLog(p)'
  BY DEF StoppedKept
<1>2. CASE UNCHANGED <<pc, chain, path, flushed, files, faults>>
  <2>1. path[p] \in DOMAIN files /\ files[path[p]] \in StoppedLog(p)
    BY <1>1, <1>2 DEF StoppedKept, Undisturbed
  <2>2. QED  BY <1>2, <2>1 DEF StoppedLog, LogOf
<1>3. CASE Damage
  BY <1>1, <1>3 DEF Damage, Undisturbed, Typed
<1>4. ASSUME NEW q \in Processes, Step(q)
      PROVE  path'[p] \in DOMAIN files' /\ files'[path'[p]] \in StoppedLog(p)'
  <2>1. CASE q # p
    <3>1. pc[p] = "failed" /\ path[p] # None /\ path[p] \in FileName
      BY <1>1, <1>4, <2>1, OthersStep DEF Typed
    <3>2. Undisturbed(p)
      BY <1>1, <1>4, <2>1, <3>1, OthersLeaveLog
    <3>3. path[p] \in DOMAIN files /\ files[path[p]] \in StoppedLog(p)
      BY <3>1, <3>2 DEF StoppedKept
    <3>4. path'[p] = path[p] /\ StoppedLog(p)' = StoppedLog(p)
      BY <1>4, <2>1, OthersStep DEF StoppedLog
    <3>5. QED  BY <1>1, <1>4, <2>1, <3>1, <3>3, <3>4, OthersLeaveLog
  <2>2. CASE q = p
    <3>1. pc[p] = "write" /\ Stop(p)
      BY <1>1, <1>4, <2>2 DEF Step, Begin, ExecuteTool, EndSession, PrintReport, VerifyChain,
                              OpenLog, FlushLine, CloseLog, Stop, Goto, PathsChosen, Typed, TypeOK
    <3>2. UNCHANGED <<chain, path, flushed, faults>>
      BY <3>1 DEF Stop
    <3>3. path[p] \in DOMAIN files /\ files[path[p]] = SubSeq(LogOf(p), 1, flushed[p])
      BY <1>1, <3>1, <3>2 DEF SavedSoFar, Undisturbed
    <3>4. StoppedLog(p)' = StoppedLog(p)
      BY <3>2 DEF StoppedLog, LogOf
    <3>5. CASE UNCHANGED files
      BY <3>2, <3>3, <3>4, <3>5 DEF StoppedLog
    <3>6. CASE flushed[p] < Len(LogOf(p)) /\ WriteAt(p, TornLine)
      <4>1. flushed[p] \in 0..(Len(LogOf(p)) - 1)
        BY <3>1, <3>6, LogLength DEF Typed, TypeOK
      <4>2. PICK L : LogOf(p) \in Seq(L)
        BY LogIsSeq DEF LogOf, Typed
      <4>3. PICK lines \in LinesAfterWrite(SubSeq(LogOf(p), 1, flushed[p]),
                                           flushed[p] + 1, TornLine) :
               files' = [files EXCEPT ![path[p]] = lines]
        BY <3>3, <3>6 DEF WriteAt
      <4>4. lines = Append(SubSeq(LogOf(p), 1, flushed[p]), TornLine)
        BY <4>1, <4>2, <4>3, CutLine
      <4>5. QED  BY <3>2, <3>3, <3>4, <4>3, <4>4 DEF StoppedLog
    <3>7. QED  BY <3>1, <3>5, <3>6 DEF Stop
  <2>3. QED  BY <2>1, <2>2
<1>5. QED  BY <1>1, <1>2, <1>3, <1>4 DEF Next, Tick, vars, processVars

\* What a save that stops halfway leaves in a file of its own, for sessions of any length:
\* the beginning of its log.  `verify` refuses an empty file and one that ends in a cut
\* line, and calls anything else valid: it cannot tell such a log from one of a shorter
\* session.
THEOREM StoppedSaves == Spec => []StoppedSaveIsBeginning
<1>1. Init => PathsChosen /\ SavedSoFar /\ StoppedKept
  BY DEF Init, PathsChosen, SavedSoFar, StoppedKept
<1>2. Typed /\ PathsChosen /\ SavedSoFar /\ StoppedKept /\ [Next]_vars
        => (PathsChosen /\ SavedSoFar /\ StoppedKept)'
  BY PathsChosenStep, SavedSoFarStep, StoppedKeptStep
<1>3. ASSUME Typed, ChainsVerify, StoppedKept PROVE StoppedSaveIsBeginning
  <2>1. SUFFICES ASSUME NEW p \in Processes, pc[p] = "failed", path[p] # None, Undisturbed(p),
                        NEW lines, lines = files[path[p]],
                        NEW n, n = flushed[p]
                 PROVE  /\ n \in 0..Len(LogOf(p))
                        /\ \/ /\ lines = SubSeq(LogOf(p), 1, n) /\ n > 0
                              /\ CmdVerifySucceeds(SecretOf[p], lines)
                              /\ LoadedChain(lines) = SubSeq(chain[p], 1, n - 1)
                           \/ /\ lines \in {<< >>, Append(SubSeq(LogOf(p), 1, n), TornLine)}
                              /\ LoadFails(lines)
    BY DEF StoppedSaveIsBeginning
  <2> DEFINE saved == SubSeq(LogOf(p), 1, n)
  <2>2. lines \in {saved, Append(saved, TornLine)}
    BY <1>3, <2>1 DEF StoppedKept, StoppedLog
  <2>3. chain[p] \in Seq(AnyReceipt) /\ Verifies(CaseOf[p], SecretOf[p], chain[p])
    BY <1>3 DEF ChainsVerify
  <2>4. Len(chain[p]) \in Nat /\ n \in 0..(Len(chain[p]) + 1)
        /\ Len(LogOf(p)) = Len(chain[p]) + 1
    BY <1>3, <2>1, LogLength DEF Typed, TypeOK
  <2>5. PICK L : LogOf(p) \in Seq(L)
    BY <2>3, LogIsSeq DEF LogOf
  <2>6. saved \in Seq(L) /\ Len(saved) = n
    BY <2>4, <2>5
  <2>7. saved = SubSeq(ToJsonl(CaseOf[p], chain[p]), 1, n)
    BY DEF LogOf
  <2> HIDE DEF saved
  <2>8. CASE lines = saved /\ n > 0
    <3>1. n \in 1..(Len(chain[p]) + 1)
      BY <2>4, <2>8
    <3>2. /\ ~LoadFails(lines) /\ LoadedSession(lines) = CaseOf[p]
          /\ LoadedChain(lines) = SubSeq(chain[p], 1, n - 1)
      <4>1. chain[p] \in Seq(AnyReceipt)
            /\ lines = SubSeq(ToJsonl(CaseOf[p], chain[p]), 1, n)
        BY <2>3, <2>7, <2>8
      <4>2. QED  BY <3>1, <4>1, LogReads
    <3>3. n - 1 \in 0..Len(chain[p])
      BY <2>4, <3>1
    <3>4. Verifies(CaseOf[p], SecretOf[p], SubSeq(chain[p], 1, n - 1))
      BY <2>3, <3>3, PrefixVerifies
    <3>5. CmdVerifySucceeds(SecretOf[p], lines)
      BY <3>2, <3>4 DEF CmdVerifySucceeds
    <3>6. QED  BY <2>4, <2>8, <3>2, <3>5 DEF saved
  <2>9. CASE lines = saved /\ n = 0
    <3>1. lines = << >>
      BY <2>6, <2>9
    <3>2. QED  BY <2>4, <3>1 DEF LoadFails
  <2>10. CASE lines = Append(saved, TornLine)
    <3>1. Len(lines) = n + 1 /\ lines[n + 1] = TornLine
      BY <2>4, <2>6, <2>10
    <3>2. LoadFails(lines)
      <4>1. CASE n = 0
        BY <3>1, <4>1 DEF TornLine, LoadFails
      <4>2. CASE n > 0
        <5>1. n + 1 \in 2..Len(lines) /\ lines[n + 1].kind # "receipt"
          BY <2>4, <3>1, <4>2 DEF TornLine
        <5>2. QED  BY <5>1 DEF LoadFails
      <4>3. QED  BY <2>4, <4>1, <4>2
    <3>3. QED  BY <2>4, <2>10, <3>2 DEF saved
  <2>11. QED  BY <2>2, <2>4, <2>8, <2>9, <2>10
<1>4. QED  BY <1>1, <1>2, <1>3, LogsTyped, ChainsAlwaysVerify, PTL DEF Spec
=============================================================================
