---------------------------- MODULE SpectralGate ----------------------------
(***************************************************************************)
(* RemoteSpectralGate.evaluate of src/sentinel/spectral/gate.py: three     *)
(* HTTP posts to a service that answers, refuses, breaks or stays silent,  *)
(* and the classification of the ratio the last answer carries.            *)
(*                                                                         *)
(* Ratios are hundredths.  A response body is reduced to the three places  *)
(* a ratio is looked for.                                                  *)
(***************************************************************************)
EXTENDS Naturals

CONSTANTS
    Numbers,      \* ratios a response may carry
    OtherValues,  \* what it may carry in place of one, other than null
    Failures,     \* how a post can fail, other than by its status
    MalformedBody \* whether a 2xx answer can be no JSON

HEALTHY_MIN_R == 55
CAUTION_MIN_R == 40

ASSUME NumbersAssumption == Numbers \subseteq Nat

\* Those httpx exceptions evaluate catches, and those it does not.
Caught == {"ConnectError", "TimeoutException"}
Uncaught ==
    {"ReadError", "WriteError", "RemoteProtocolError", "DecodingError", "TooManyRedirects"}

ASSUME FailuresAssumption ==
    Failures \subseteq Caught \cup Uncaught /\ MalformedBody \in BOOLEAN

\* NaN, which json.loads accepts, true and false are numbers to Python, and so is an
\* integer too big for a float.
TakenForNumbers == {"nan", "true", "false"}

ASSUME ValuesAssumption == OtherValues \subseteq TakenForNumbers \cup {"huge", "text"}

VARIABLES
    pc,          \* the post that is awaited, or "done"
    sample,      \* whether the Nitpicker's reasoning is empty
    fault,       \* what ended the exchange without a body, or "none"
    body,        \* the body of the last answer, NoBody before
    verdict      \* what evaluate returned, or "raised", or "none"

vars == <<pc, sample, fault, body, verdict>>

Posts == {"initialize", "initialized", "call"}

\* What a place holds: a number, something that is none, or None.
Value == [kind: {"number"}, n: Numbers] \cup [kind: OtherValues \cup {"None"}, n: {0}]
NoValue == [kind |-> "None", n |-> 0]

\* content[0].text may also be missing or be no JSON.
Content == Value \cup [kind: {"missing", "not_json"}, n: {0}]

Body == [top: Value, result: Value, content: Content]

NoBody == [top |-> NoValue, result |-> NoValue, content |-> NoValue]

\* isinstance(value, (int, float))
IsNumeric(value) == value.kind \in TakenForNumbers \cup {"number", "huge"}

\* The first place that is not None.
PlaceUsed(response) ==
    IF response.top # NoValue THEN response.top
    ELSE IF response.result # NoValue THEN response.result
    ELSE response.content

\* Variant: what is no number counts as zero.
ExtractOrZero(response) ==
    IF IsNumeric(PlaceUsed(response)) THEN PlaceUsed(response)
    ELSE [kind |-> "number", n |-> 0]

\* _extract_r_ratio: a number, or None where it raises ValueError or JSONDecodeError.
\* (Of a "huge" one, float raises OverflowError: Overflows.)
ExtractRatio(response) ==
    IF IsNumeric(PlaceUsed(response)) THEN PlaceUsed(response) ELSE NoValue

\* classify.  No comparison with "nan" holds.
Classify(ratio) ==
    CASE ratio.kind = "true" -> "healthy"
      [] ratio.kind \in {"nan", "false"} -> "stressed"
      [] ratio.kind = "number" ->
           IF ratio.n >= HEALTHY_MIN_R THEN "healthy"
           ELSE IF ratio.n >= CAUTION_MIN_R THEN "caution" ELSE "stressed"

-----------------------------------------------------------------------------
Init ==
    /\ sample \in {"empty", "text"}
    /\ pc = "start"
    /\ fault = "none" /\ body = NoBody
    /\ verdict = "none"

\* An empty sample needs no service.
Start ==
    /\ pc = "start"
    /\ IF sample = "empty" THEN pc' = "done" /\ verdict' = "caution"
                           ELSE pc' = "initialize" /\ UNCHANGED verdict
    /\ UNCHANGED <<sample, fault, body>>

\* Variant: the handlers forget to return.
OutcomeForgotten(what) ==
    IF what \in Caught \cup {"HTTPStatusError"} THEN "none" ELSE "raised"

\* The except clauses return CAUTION; any other exception leaves evaluate.
OutcomeOf(what) ==
    IF what \in Caught \cup {"HTTPStatusError"} THEN "caution" ELSE "raised"

\* The exchange ends without a body.
EndWith(what) ==
    /\ pc' = "done"
    /\ fault' = what
    /\ verdict' = OutcomeOf(what)
    /\ UNCHANGED <<sample, body>>

\* Variant: after a timeout the handshake is started again.
PostFailsRetries ==
    /\ pc \in Posts
    /\ \E what \in Failures :
          IF what = "TimeoutException"
          THEN pc' = "initialize" /\ UNCHANGED <<sample, fault, body, verdict>>
          ELSE EndWith(what)

\* A post fails in the transport.  (The service may have handled it.)
PostFails ==
    /\ pc \in Posts
    /\ \E what \in Failures : EndWith(what)

\* raise_for_status on the first and the last answer.
Refused ==
    /\ pc \in {"initialize", "call"}
    /\ EndWith("HTTPStatusError")

\* initialize is answered, with a session id that the other posts carry or
\* without one.
Initialized ==
    /\ pc = "initialize"
    /\ pc' = "initialized"
    /\ UNCHANGED <<sample, fault, body, verdict>>

\* The notification is answered; its status is not looked at.
Notified ==
    /\ pc = "initialized"
    /\ pc' = "call"
    /\ UNCHANGED <<sample, fault, body, verdict>>

\* tools/call is answered with a body that is no JSON object: _parse_mcp_body or
\* body.get raises, outside the try that would catch it.
Malformed ==
    /\ pc = "call" /\ MalformedBody
    /\ EndWith("malformed")

\* float(value) raises OverflowError, which is no ValueError.
Overflows ==
    /\ pc = "call"
    /\ body' \in Body
    /\ ExtractRatio(body').kind = "huge"
    /\ verdict' = OutcomeOf("OverflowError")
    /\ pc' = "done" /\ fault' = "OverflowError"
    /\ UNCHANGED sample

\* tools/call is answered: no usable ratio is a CAUTION.
Answered ==
    /\ pc = "call"
    /\ body' \in Body
    /\ ExtractRatio(body').kind # "huge"
    /\ LET ratio == ExtractRatio(body')
       IN  verdict' = IF ratio = NoValue THEN "caution" ELSE Classify(ratio)
    /\ pc' = "done"
    /\ UNCHANGED <<sample, fault>>

Next ==
    \/ Start \/ PostFails \/ Refused \/ Initialized \/ Notified \/ Malformed
    \/ Overflows \/ Answered

\* Every post is answered or fails: the client has a timeout.
Spec == Init /\ [][Next]_vars /\ WF_vars(Next)

-----------------------------------------------------------------------------
TypeOK ==
    /\ pc \in Posts \cup {"start", "done"}
    /\ sample \in {"empty", "text"}
    /\ fault \in Caught \cup Uncaught \cup
                 {"none", "HTTPStatusError", "malformed", "OverflowError"}
    /\ body \in Body
    /\ verdict \in {"none", "healthy", "caution", "stressed", "raised"}
    /\ pc = "done" <=> verdict # "none"

\* The place a verdict rests on: the places before it hold None.
Decides(place) ==
    /\ place # "top" => body.top = NoValue
    /\ place = "content" => body.result = NoValue

\* HEALTHY and STRESSED rest on a number the service gave, on their side of the threshold.
RestsOnNumber ==
    \E place \in {"top", "result", "content"} :
        /\ Decides(place)
        /\ body[place].kind = "number"
        /\ verdict = "healthy" => body[place].n >= HEALTHY_MIN_R
        /\ verdict = "stressed" => body[place].n < CAUTION_MIN_R

\* ... or on a true, a false or a NaN in its place, which are read as high, low and low.
RestsOnNonNumber ==
    \E place \in {"top", "result", "content"} :
        /\ Decides(place)
        /\ \/ verdict = "healthy" /\ body[place].kind = "true"
           \/ verdict = "stressed" /\ body[place].kind \in {"false", "nan"}

\* Silence, refusal, an error answer, and a ratio that is missing, null or text are never
\* HEALTHY and never STRESSED: those rest on the first place that holds anything, and on
\* its side of the threshold.  That place need not hold a number: three values that are
\* none are read as ratios, against gate.py:126, "a non-numeric ... response must degrade
\* to CAUTION ... and never fabricate a number", and these are the only ones.
VerdictFollowsAnswer ==
    verdict \in {"healthy", "stressed"} =>
        fault = "none" /\ sample = "text" /\ (RestsOnNumber \/ RestsOnNonNumber)

\* The gate returns: the orchestrator's loop is not held up for ever.
EvaluateEnds == <>(verdict # "none")

\* Two claims the code does not keep.

\* gate.py:126, "never fabricate a number".
NumberNeeded == verdict \in {"healthy", "stressed"} => RestsOnNumber

\* gate.py:38, "Network failures return CAUTION rather
\* than HEALTHY or STRESSED", and gate.py:126, "a non-numeric or error response must
\* degrade to CAUTION, never abort the investigation".
NeverAborts == verdict # "raised"
=============================================================================
