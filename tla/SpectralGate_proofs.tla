------------------------ MODULE SpectralGate_proofs ------------------------
(* The gate's verdicts, for every set of ratios a service may answer with. *)
EXTENDS SpectralGate, TLAPS

\* Failures end evaluate by CAUTION or an exception, and only an answer fills body.
Outcomes ==
    /\ TypeOK
    /\ fault # "none" => pc = "done" /\ verdict \in {"caution", "raised"}
    /\ pc # "done" => body = NoBody
    /\ pc \in Posts => sample = "text"

LEMMA NoValueIsValue == NoValue \in Value /\ NoBody \in Body
  BY DEF NoValue, NoBody, Value, Content, Body

LEMMA ExtractedRatio ==
    ASSUME NEW response \in Body
    PROVE  LET ratio == ExtractRatio(response)
           IN  \/ ratio = NoValue
               \/ ratio \in Value /\ IsNumeric(ratio) /\ ratio = PlaceUsed(response)
<1>1. PlaceUsed(response) \in Content
  BY DEF PlaceUsed, Body, Content
<1>2. ASSUME IsNumeric(PlaceUsed(response)) PROVE PlaceUsed(response) \in Value
  BY <1>1, <1>2 DEF Content, IsNumeric, TakenForNumbers
<1>3. QED  BY <1>2 DEF ExtractRatio

LEMMA ClassifyTyped ==
    ASSUME NEW ratio \in Value, IsNumeric(ratio), ratio.kind # "huge"
    PROVE  /\ Classify(ratio) \in {"healthy", "caution", "stressed"}
           /\ Classify(ratio) = "healthy" =>
                 \/ ratio.kind = "true"
                 \/ ratio.kind = "number" /\ ratio.n >= HEALTHY_MIN_R
           /\ Classify(ratio) = "stressed" =>
                 \/ ratio.kind \in {"nan", "false"}
                 \/ ratio.kind = "number" /\ ratio.n < CAUTION_MIN_R
<1>1. ratio.kind \in {"number", "nan", "true", "false"}
  BY DEF IsNumeric, TakenForNumbers
<1>2. CASE ratio.kind = "number"
  <2>1. ratio.n \in Nat
    BY <1>2, NumbersAssumption, ValuesAssumption DEF Value, TakenForNumbers
  <2>2. Classify(ratio) = IF ratio.n >= HEALTHY_MIN_R THEN "healthy"
                          ELSE IF ratio.n >= CAUTION_MIN_R THEN "caution" ELSE "stressed"
    BY <1>2 DEF Classify
  <2>3. QED  BY <1>2, <2>1, <2>2 DEF HEALTHY_MIN_R, CAUTION_MIN_R
<1>3. CASE ratio.kind = "true"
  BY <1>3 DEF Classify
<1>4. CASE ratio.kind \in {"nan", "false"}
  BY <1>4 DEF Classify
<1>5. QED  BY <1>1, <1>2, <1>3, <1>4

\* The verdict an answer gets is justified by what the body holds.
LEMMA AnswerComputed ==
    ASSUME NEW response \in Body, ExtractRatio(response).kind # "huge"
    PROVE  LET ratio == ExtractRatio(response)
               v == IF ratio = NoValue THEN "caution" ELSE Classify(ratio)
           IN  /\ v \in {"healthy", "caution", "stressed"}
               /\ v \in {"healthy", "stressed"} =>
                    \E place \in {"top", "result", "content"} :
                      /\ place # "top" => response.top = NoValue
                      /\ place = "content" => response.result = NoValue
                      /\ \/ /\ response[place].kind = "number"
                            /\ v = "healthy" => response[place].n >= HEALTHY_MIN_R
                            /\ v = "stressed" => response[place].n < CAUTION_MIN_R
                         \/ v = "healthy" /\ response[place].kind = "true"
                         \/ v = "stressed" /\ response[place].kind \in {"false", "nan"}
<1> DEFINE ratio == ExtractRatio(response)
<1>1. CASE ratio = NoValue
  BY <1>1
<1>2. CASE ratio # NoValue
  <2>1. ratio \in Value /\ IsNumeric(ratio) /\ ratio = PlaceUsed(response)
    BY <1>2, ExtractedRatio
  <2>2. PICK place \in {"top", "result", "content"} :
           /\ ratio = response[place]
           /\ place # "top" => response.top = NoValue
           /\ place = "content" => response.result = NoValue
    <3>1. CASE response.top # NoValue
      BY <2>1, <3>1 DEF PlaceUsed
    <3>2. CASE response.top = NoValue /\ response.result # NoValue
      BY <2>1, <3>2 DEF PlaceUsed
    <3>3. CASE response.top = NoValue /\ response.result = NoValue
      BY <2>1, <3>3 DEF PlaceUsed
    <3>4. QED  BY <3>1, <3>2, <3>3
  <2> HIDE DEF ratio
  <2>3. /\ Classify(ratio) \in {"healthy", "caution", "stressed"}
        /\ Classify(ratio) = "healthy" =>
              \/ ratio.kind = "true"
              \/ ratio.kind = "number" /\ ratio.n >= HEALTHY_MIN_R
        /\ Classify(ratio) = "stressed" =>
              \/ ratio.kind \in {"nan", "false"}
              \/ ratio.kind = "number" /\ ratio.n < CAUTION_MIN_R
    BY <2>1, ClassifyTyped DEF ratio
  <2>4. QED  BY <1>2, <2>2, <2>3 DEF ratio
<1>3. QED  BY <1>1, <1>2

\* An exchange that ends without a body.
LEMMA EndWithOutcome ==
    ASSUME Outcomes, pc \in Posts, fault = "none",
           NEW what \in Caught \cup Uncaught \cup {"HTTPStatusError", "malformed"},
           EndWith(what)
    PROVE  Outcomes' /\ verdict' \notin {"healthy", "stressed"}
  BY DEF Outcomes, TypeOK, EndWith, OutcomeOf, Caught, Uncaught, Posts

Inductive == Outcomes /\ VerdictFollowsAnswer

LEMMA InductiveStep == Inductive /\ [Next]_vars => Inductive'
<1> SUFFICES ASSUME Outcomes, VerdictFollowsAnswer, [Next]_vars
         PROVE  Outcomes' /\ VerdictFollowsAnswer'
  BY DEF Inductive
<1>1. CASE Start
  BY <1>1 DEF Start, Outcomes, TypeOK, VerdictFollowsAnswer, Posts
<1>2. ASSUME pc \in Posts,
             NEW what \in Caught \cup Uncaught \cup {"HTTPStatusError", "malformed"},
             EndWith(what)
      PROVE  Outcomes' /\ VerdictFollowsAnswer'
  <2>1. fault = "none"
    BY <1>2 DEF Outcomes, Posts
  <2>2. QED  BY <1>2, <2>1, EndWithOutcome DEF VerdictFollowsAnswer
<1>3. CASE PostFails
  BY <1>2, <1>3, FailuresAssumption DEF PostFails
<1>4. CASE Refused
  BY <1>2, <1>4 DEF Refused, Posts
<1>5. CASE Initialized
  BY <1>5 DEF Initialized, Outcomes, TypeOK, VerdictFollowsAnswer, Posts
<1>6. CASE Notified
  BY <1>6 DEF Notified, Outcomes, TypeOK, VerdictFollowsAnswer, Posts
<1>7. CASE Malformed
  BY <1>2, <1>7 DEF Malformed, Posts
<1>8. CASE Answered
  <2>1. /\ pc = "call" /\ body' \in Body /\ pc' = "done" /\ UNCHANGED <<sample, fault>>
        /\ verdict' = IF ExtractRatio(body') = NoValue THEN "caution"
                      ELSE Classify(ExtractRatio(body'))
        /\ ExtractRatio(body').kind # "huge"
    BY <1>8 DEF Answered
  <2>2. fault = "none" /\ sample = "text"
    BY <2>1 DEF Outcomes, Posts
  <2>3. verdict' \in {"healthy", "caution", "stressed"}
    BY <2>1, AnswerComputed
  <2>4. Outcomes'
    BY <2>1, <2>2, <2>3 DEF Outcomes, TypeOK
  <2>5. VerdictFollowsAnswer'
    <3> SUFFICES ASSUME verdict' \in {"healthy", "stressed"}
                 PROVE  (RestsOnNumber \/ RestsOnNonNumber)'
      BY <2>1, <2>2 DEF VerdictFollowsAnswer
    <3>1. PICK place \in {"top", "result", "content"} :
             /\ place # "top" => body'.top = NoValue
             /\ place = "content" => body'.result = NoValue
             /\ \/ /\ body'[place].kind = "number"
                   /\ verdict' = "healthy" => body'[place].n >= HEALTHY_MIN_R
                   /\ verdict' = "stressed" => body'[place].n < CAUTION_MIN_R
                \/ verdict' = "healthy" /\ body'[place].kind = "true"
                \/ verdict' = "stressed" /\ body'[place].kind \in {"false", "nan"}
      BY <2>1, AnswerComputed
    <3>2. QED  BY <3>1 DEF RestsOnNumber, RestsOnNonNumber, Decides
  <2>6. QED  BY <2>4, <2>5
<1>9. CASE Overflows
  <2>1. /\ pc = "call" /\ body' \in Body /\ pc' = "done" /\ UNCHANGED sample
        /\ fault' = "OverflowError" /\ verdict' = "raised"
    BY <1>9 DEF Overflows, OutcomeOf, Caught
  <2>2. QED  BY <2>1 DEF Outcomes, TypeOK, Posts, VerdictFollowsAnswer
<1>10. CASE UNCHANGED vars
  BY <1>10 DEF vars, Outcomes, TypeOK, VerdictFollowsAnswer, RestsOnNumber,
               RestsOnNonNumber, Decides
<1>11. QED  BY <1>1, <1>3, <1>4, <1>5, <1>6, <1>7, <1>8, <1>9, <1>10 DEF Next

LEMMA InductiveInit == Init => Inductive
  BY NoValueIsValue DEF Init, Inductive, Outcomes, TypeOK, VerdictFollowsAnswer, Posts

\* What evaluate's locals can be, and that it has returned or raised exactly when done.
THEOREM GateTyped == Spec => []TypeOK
<1>1. Inductive => TypeOK
  BY DEF Inductive, Outcomes
<1>2. QED  BY InductiveInit, InductiveStep, <1>1, PTL DEF Spec

\* However the posts fail and whatever the answer carries, HEALTHY and STRESSED rest on the
\* first place that holds anything: on a number on its side of the threshold, or on one of
\* true, false and NaN (gate.py:94-137, 207-232).
THEOREM VerdictsFollowAnswer == Spec => []VerdictFollowsAnswer
<1>1. Inductive => VerdictFollowsAnswer
  BY DEF Inductive
<1>2. QED  BY InductiveInit, InductiveStep, <1>1, PTL DEF Spec

\* gate.py:126, "never fabricate a number", would be true of a service that sends no
\* boolean and no NaN as its ratio: these are all the code confuses with a number.
THEOREM NumbersOnly ==
    ASSUME OtherValues \cap TakenForNumbers = {}
    PROVE  Spec => []NumberNeeded
<1>1. ASSUME Inductive PROVE NumberNeeded
  <2> SUFFICES ASSUME verdict \in {"healthy", "stressed"}, RestsOnNonNumber PROVE FALSE
    BY <1>1 DEF Inductive, VerdictFollowsAnswer, NumberNeeded
  <2>1. PICK place \in {"top", "result", "content"} : body[place].kind \in TakenForNumbers
    BY DEF RestsOnNonNumber, TakenForNumbers
  <2>2. body[place] \in Content
    BY <1>1 DEF Inductive, Outcomes, TypeOK, Body, Content
  <2>3. body[place].kind \in OtherValues
    BY <2>1, <2>2 DEF Content, Value, TakenForNumbers
  <2>4. QED  BY <2>1, <2>3
<1>2. QED  BY InductiveInit, InductiveStep, <1>1, PTL DEF Spec

-----------------------------------------------------------------------------
\* What an exchange can have been ended by, and which of that evaluate lets through.
Causes ==
    /\ fault \in Failures \cup {"none", "HTTPStatusError"}
                 \cup (IF MalformedBody THEN {"malformed"} ELSE {})
                 \cup (IF "huge" \in OtherValues THEN {"OverflowError"} ELSE {})
    /\ verdict = "raised" => fault \in Uncaught \cup {"malformed", "OverflowError"}
    /\ sample = "empty" => pc \in {"start", "done"} /\ verdict \in {"none", "caution"}

LEMMA CausesInvariant == Spec => []Causes
<1>1. Init => Causes
  BY DEF Init, Causes
<1>2. ASSUME Inductive, Causes, [Next]_vars PROVE Causes'
  <2>1. ASSUME pc \in Posts, NEW what, EndWith(what),
               what \in Failures \cup {"HTTPStatusError"} \/ (MalformedBody /\ what = "malformed")
        PROVE  Causes'
    <3>1. /\ sample = "text" /\ sample' = sample /\ fault' = what
          /\ verdict' = IF what \in Caught \cup {"HTTPStatusError"} THEN "caution" ELSE "raised"
      BY <1>2, <2>1 DEF Inductive, Outcomes, EndWith, OutcomeOf
    <3>2. what \in Caught \cup {"HTTPStatusError"} \/ what \in Uncaught \cup {"malformed"}
      BY <2>1, FailuresAssumption
    <3>3. QED  BY <2>1, <3>1, <3>2 DEF Causes
  <2>2. CASE Start
    BY <1>2, <2>2 DEF Start, Causes, Inductive, Outcomes, TypeOK
  <2>3. CASE PostFails
    BY <2>1, <2>3 DEF PostFails
  <2>4. CASE Refused
    BY <2>1, <2>4 DEF Refused, Posts
  <2>5. CASE Malformed
    BY <2>1, <2>5 DEF Malformed, Posts
  <2>6. CASE Initialized \/ Notified
    BY <1>2, <2>6 DEF Initialized, Notified, Causes
  <2>7. CASE Answered
    <3>1. /\ sample = "text" /\ UNCHANGED <<sample, fault>>
          /\ verdict' \in {"healthy", "caution", "stressed"}
      BY <1>2, <2>7, AnswerComputed DEF Answered, Inductive, Outcomes, Posts
    <3>2. QED  BY <1>2, <3>1 DEF Causes
  <2>8. CASE UNCHANGED vars
    BY <1>2, <2>8 DEF vars, Causes
  <2>9. CASE Overflows
    <3>1. /\ sample = "text" /\ UNCHANGED sample /\ body' \in Body
          /\ fault' = "OverflowError" /\ verdict' = "raised"
      BY <1>2, <2>9 DEF Overflows, OutcomeOf, Caught, Inductive, Outcomes, Posts
    <3>2. /\ ExtractRatio(body').kind = "huge"
          /\ ExtractRatio(body') # NoValue
      BY <2>9 DEF Overflows, NoValue
    <3>3. ExtractRatio(body') \in Value
      BY <3>1, <3>2, ExtractedRatio
    <3>4. "huge" \in OtherValues
      BY <3>2, <3>3 DEF Value
    <3>5. QED  BY <3>1, <3>4 DEF Causes
  <2>10. QED  BY <1>2, <2>2, <2>3, <2>4, <2>5, <2>6, <2>7, <2>8, <2>9 DEF Next
<1>3. QED  BY <1>1, <1>2, InductiveInit, InductiveStep, PTL DEF Spec

\* An exception leaves evaluate only after a transport error it does not catch, an answer
\* that is no JSON object, or an integer no float can hold; everything else the service
\* does ends in a verdict (gate.py:110-136: neither JSONDecodeError nor OverflowError is
\* in reach of an except clause that names it).
AbortCauses ==
    verdict = "raised" =>
        \/ fault \in Uncaught \cap Failures
        \/ MalformedBody /\ fault = "malformed"
        \/ "huge" \in OtherValues /\ fault = "OverflowError"

THEOREM OnlyTheseAbort == Spec => []AbortCauses
<1>1. Causes => AbortCauses
  BY FailuresAssumption DEF Causes, AbortCauses, Caught, Uncaught
<1>2. QED  BY <1>1, CausesInvariant, PTL

\* So these three are all that keeps the claim of gate.py:38 and gate.py:126 from being
\* true: where posts fail only by not connecting, by a timeout or by their status, every
\* answer is a JSON object and no ratio overflows, evaluate always returns a verdict.
THEOREM OtherwiseNeverAborts ==
    ASSUME Failures \subseteq Caught, MalformedBody = FALSE, "huge" \notin OtherValues
    PROVE  Spec => []NeverAborts
<1>1. Causes => NeverAborts
  BY FailuresAssumption DEF Causes, NeverAborts, Caught, Uncaught
<1>2. QED  BY <1>1, CausesInvariant, PTL

\* An empty sample is CAUTION and never reaches the service; this is what Agents assumes
\* of the gate for a Nitpicker that sent no text (gate.py:56).
THEOREM EmptyIsCaution ==
    Spec => [](sample = "empty" => pc \notin Posts /\ verdict \in {"none", "caution"})
<1>1. Causes => (sample = "empty" => pc \notin Posts /\ verdict \in {"none", "caution"})
  BY DEF Causes, Posts
<1>2. QED  BY <1>1, CausesInvariant, PTL
=============================================================================
