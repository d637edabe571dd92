--------------------------- MODULE SessionLedger ---------------------------
(***************************************************************************)
(* What a session promises its reader, without agents, clock or hashes:    *)
(* an append-only ledger of the tool calls it made.  Calls are made one at *)
(* a time, each is settled once before the next, a call is never made      *)
(* beyond the two caps, and a session that ends with a report has settled  *)
(* every call.  A session that breaks off may leave its last call open.    *)
(***************************************************************************)
EXTENDS Naturals, Sequences

CONSTANTS
    Calls,          \* what a tool can be asked to do
    MaxCalls,       \* never more calls than this
    MaxRejected     \* no further call after this many rejected in a row

VARIABLES
    ledger,         \* what was called, and what became of it
    phase           \* "open", "reported" or "broken_off"

vars == <<ledger, phase>>

Verdicts == {"pending", "accepted", "rejected"}

LedgerTypeOK ==
    /\ ledger \in Seq([call: Calls, verdict: Verdicts])
    /\ phase \in {"open", "reported", "broken_off"}

Settled == \A i \in DOMAIN ledger : ledger[i].verdict # "pending"

\* The last MaxRejected calls were all rejected.
Exhausted ==
    /\ Len(ledger) >= MaxRejected
    /\ \A i \in (Len(ledger) - MaxRejected + 1)..Len(ledger) :
          ledger[i].verdict = "rejected"

Init == ledger = << >> /\ phase = "open"

Call ==
    /\ phase = "open" /\ Settled
    /\ Len(ledger) < MaxCalls /\ ~Exhausted
    /\ \E call \in Calls :
          ledger' = Append(ledger, [call |-> call, verdict |-> "pending"])
    /\ UNCHANGED phase

SettleCall ==
    /\ phase = "open" /\ ~Settled
    /\ \E verdict \in {"accepted", "rejected"} :
          ledger' = [ledger EXCEPT ![Len(ledger)].verdict = verdict]
    /\ UNCHANGED phase

Report ==
    /\ phase = "open" /\ Settled
    /\ phase' = "reported"
    /\ UNCHANGED ledger

BreakOff ==
    /\ phase = "open"
    /\ phase' = "broken_off"
    /\ UNCHANGED ledger

Next == Call \/ SettleCall \/ Report \/ BreakOff

SafeSpec == Init /\ [][Next]_vars

-----------------------------------------------------------------------------
(* What a reader of the ledger may rely on. *)

\* Only the last call can be open, and none is when the session has reported.
OnlyLastOpen ==
    \A i \in DOMAIN ledger :
        ledger[i].verdict = "pending" => i = Len(ledger) /\ phase # "reported"

\* Before every call, one of the MaxRejected calls before it was not rejected.
NoneAfterRejections ==
    \A i \in DOMAIN ledger : i > MaxRejected =>
        \E k \in (i - MaxRejected)..(i - 1) : ledger[k].verdict # "rejected"

Promise == Len(ledger) <= MaxCalls /\ OnlyLastOpen /\ NoneAfterRejections

\* ... and a session always ends.
Spec == SafeSpec /\ WF_vars(Next)
=============================================================================
