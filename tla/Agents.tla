------------------------------- MODULE Agents -------------------------------
(***************************************************************************)
(* A session run by the language-model agents of src/sentinel/agents/      *)
(* llm.py: Triage, whose Scout and Nitpicker are now what they make of the *)
(* replies of an API that may answer anything, or fail.                    *)
(*                                                                         *)
(* The agents keep no state.  silence and approvals record what the API    *)
(* said, for the properties.                                               *)
(***************************************************************************)
EXTENDS Triage

CONSTANTS
    NotADict,     \* a JSON value that is no object
    RemoteGate    \* whether the gate is the remote one (--spectral)

ASSUME AgentsAssumption ==
    /\ NoArgs \in Args /\ NotADict \notin Args
    /\ RemoteGate \in BOOLEAN /\ (RemoteGate => "caution" \in GateVerdicts)

VARIABLES
    reasoning, \* review.reasoning: the kind of the Nitpicker's reply; None once dead
    silence,   \* the Scout's replies since the last one that was an object
    approvals  \* the receipts whose results the Nitpicker said YES to

agentVars == <<vars, reasoning, silence, approvals>>

-----------------------------------------------------------------------------
(* The Scout.                                                              *)

\* A JSON object, with or without a name; done may be any JSON value, of which
\* "text" is a non-empty string ("false" is one).
ScoutObject ==
    [kind: {"object"}, done: {"falsy", "true", "text"},
     tool_name: ToolNames \cup {None}, tool_args: Args \cup {NotADict}]

\* The API fails; or the reply has no text, or is no JSON object.
ScoutSilence == [kind: {"api_error", "malformed"}]

NoDecision == [done |-> FALSE, tool_name |-> None, tool_args |-> NoArgs]

\* Variant: an error ends the investigation.
DecisionOrDone(reply) ==
    IF reply.kind = "object"
    THEN [done |-> reply.done # "falsy", tool_name |-> reply.tool_name,
          tool_args |-> IF reply.tool_args = NotADict THEN NoArgs ELSE reply.tool_args]
    ELSE [NoDecision EXCEPT !.done = TRUE]

\* Variant: any tool_args are taken.
DecisionUnchecked(reply) ==
    IF reply.kind = "object"
    THEN [done |-> reply.done # "falsy", tool_name |-> reply.tool_name,
          tool_args |-> reply.tool_args]
    ELSE NoDecision

\* ClaudeScout.decide
DecisionOf(reply) ==
    IF reply.kind = "object"
    THEN [done |-> reply.done # "falsy", tool_name |-> reply.tool_name,
          tool_args |-> IF reply.tool_args = NotADict THEN NoArgs ELSE reply.tool_args]
    ELSE NoDecision

AgentDecide ==
    /\ \E reply \in ScoutObject \cup ScoutSilence :
          /\ DecideOn({DecisionOf(reply)})
          /\ silence' = IF reply.kind = "object" THEN 0 ELSE silence + 1
    /\ UNCHANGED <<reasoning, approvals>>

-----------------------------------------------------------------------------
(* The Nitpicker, the gate and the Judge.                                  *)

\* A text that begins with YES, whatever follows, or with something else; no text
\* block; an error of the API.
NitpickerReply == {"yes", "other", "no_text", "api_error"}

\* Variant: only a NO is no approval.
ApprovedUnlessOther(reply) == reply # "other"

\* ClaudeNitpicker.review
Approved(reply) == reply = "yes"

AgentReview ==
    /\ \E reply \in NitpickerReply :
          /\ ReviewAs({Approved(reply)})
          /\ reasoning' = reply
          /\ approvals' = IF reply = "yes" THEN approvals \cup {fresh.receipt_sequence}
                         ELSE approvals
    /\ UNCHANGED silence

\* The gate is given the reply's text, or the name of the error: the remote gate
\* calls an empty text CAUTION, the null gate everything HEALTHY.
Healths(reply) == IF RemoteGate /\ reply = "no_text" THEN {"caution"} ELSE GateVerdicts

AgentSettle ==
    /\ SettleBy(Healths(reasoning))
    /\ reasoning' = None
    /\ UNCHANGED <<silence, approvals>>

\* The agents turn an error of the API into a decision, a refusal or a report that says
\* so, but not every failure is one: of a 200 answer whose body is no JSON the client
\* library makes no message, and an exception that is no APIError leaves the agent.
\* The tool and the remote gate bring exceptions of their own, the null gate none.
Raises == RaiseAt(IF RemoteGate THEN Awaits ELSE Awaits \ {"gate"})

AgentInit == Init /\ reasoning = None /\ silence = 0 /\ approvals = {}

AgentNext ==
    \/ AgentDecide \/ AgentReview \/ AgentSettle
    \/ /\ CheckCaps \/ Execute \/ Synthesize \/ Raises
       /\ UNCHANGED <<reasoning, silence, approvals>>

AgentSpec == AgentInit /\ [][AgentNext]_agentVars /\ WF_agentVars(AgentNext)

-----------------------------------------------------------------------------
\* Nothing is a finding unless the Nitpicker said YES to it: not an answer that is
\* no text, not an error of the API, and not a YES it said of another result.
\* (llm.py:182-188 against the routing, two awaits later, of orchestrator.py:234.)
FindingsWereApproved == ReceiptsOf(findings) \subseteq approvals

\* While the Scout's API is silent the session only counts misses: it stops after
\* MaxConsecutiveStressed of them, whatever it counted before, and never as if the
\* Scout had declared the investigation complete (llm.py:130-155).
OutageEndsSession ==
    /\ silence <= consecutive_stressed
    /\ silence <= MaxConsecutiveStressed
    /\ silence > 0 => stop_reason # "scout_done"

\* The agents keep to the protocol Orchestrator assumes of them: a session they run
\* is one of Orchestrator's, and ends as it does.
KeepsProtocol == Spec
=============================================================================
