---------------------------- MODULE ToolWrappers ----------------------------
(***************************************************************************)
(* One call of a tool wrapper (src/sentinel/tools/): its one or two        *)
(* programs run one after the other by run_tool of _subprocess.py, each    *)
(* under a timeout, and the ToolResult made of what they print.            *)
(*                                                                         *)
(* The wrapper is a coroutine and suspended while a program runs; each     *)
(* action is what happens to the program, or what the wrapper does from    *)
(* one suspension to the next.  A program's output is reduced to whether   *)
(* it can be read at all, whether it has rows the wrapper's model accepts, *)
(* whether it has rows that are skipped with a note, and whether it has    *)
(* output that is passed over without one.  Time is in minutes.            *)
(***************************************************************************)
EXTENDS Naturals, Sequences

CONSTANTS
    Tools,      \* the wrappers called
    MaxLinger   \* bound: minutes a killed program takes to end

\* The timeouts of a wrapper's programs, in the order they are run.
Timeouts ==
    [tool \in {"volatility.pslist", "volatility.netscan", "volatility.cmdline",
               "plaso.log2timeline", "regripper.amcache", "evtxecmd.security"} |->
        CASE tool = "volatility.pslist" -> <<3, 3>>
          [] tool = "plaso.log2timeline" -> <<60, 10>>
          [] tool = "regripper.amcache" -> <<2>>
          [] tool = "evtxecmd.security" -> <<5>>
          [] OTHER -> <<3>>]

ASSUME ToolsAssumption == Tools \subseteq DOMAIN Timeouts /\ MaxLinger \in Nat

VARIABLES
    pc,        \* "spawn", "running", "killing", "returned" or "raised"
    tool, stage,
    child,     \* the program of this stage: "none", "running" or "ended"
    ran,       \* minutes it has run
    elapsed,   \* minutes since the call
    temp,      \* whether the wrapper's temporary file exists
    unparsed,  \* the stages that printed rows the wrapper skipped, with a note
    unread,    \* whether output was passed over without a note
    result

rows == <<unparsed, unread>>
vars == <<pc, tool, stage, child, ran, elapsed, temp, rows, result>>

Over == {"returned", "raised"}
NoResult == [status |-> "none", rows_of |-> 0]
Error == [status |-> "error", rows_of |-> 0]

\* Only the evtx wrapper has a temporary file, made before its program is run.
Init ==
    /\ pc = "spawn" /\ tool \in Tools /\ stage = 1
    /\ child = "none" /\ ran = 0 /\ elapsed = 0
    /\ temp = (tool = "evtxecmd.security")
    /\ unparsed = {} /\ unread = FALSE /\ result = NoResult

\* Variant: the file is removed before a result is returned, not in a finally.
EndUnguarded(how, answer) ==
    /\ pc' = how
    /\ result' = answer
    /\ temp' = (temp /\ how = "raised")

\* Variant: an except clause without its return.
EndForgotten(how, answer) ==
    /\ pc' = how
    /\ result' = IF answer = Error THEN NoResult ELSE answer
    /\ temp' = FALSE

\* The call is over; a finally clause removes the temporary file.
End(how, answer) ==
    /\ pc' = how
    /\ result' = answer
    /\ temp' = FALSE

\* create_subprocess_exec.  A binary that is not found is an error; any other
\* OSError leaves the wrapper.
Spawn ==
    /\ pc = "spawn"
    /\ \/ /\ child' = "running" /\ ran' = 0
          /\ pc' = "running"
          /\ UNCHANGED <<temp, result>>
       \/ /\ \/ End("returned", Error)
             \/ End("raised", NoResult)
          /\ UNCHANGED <<child, ran>>
    /\ UNCHANGED <<tool, stage, elapsed, rows>>

\* The program ends by itself, or killed.
ChildEnds ==
    /\ child = "running"
    /\ child' = "ended"
    /\ UNCHANGED <<pc, tool, stage, ran, elapsed, temp, rows, result>>

\* A minute passes: until wait_for's timer fires, and while a killed program is waited
\* for, for which there is no timer.  (A program may have ended before: communicate waits
\* until its output is closed.)
Tick ==
    /\ \/ pc = "running" /\ ran < Timeouts[tool][stage]
       \/ pc = "killing" /\ child = "running" /\ ran < Timeouts[tool][stage] + MaxLinger
    /\ ran' = ran + 1 /\ elapsed' = elapsed + 1
    /\ UNCHANGED <<pc, tool, stage, child, temp, rows, result>>

\* Variant: a program that still runs is waited for, but not killed.
TimeoutFiresWaits ==
    /\ pc = "running" /\ ran = Timeouts[tool][stage]
    /\ IF child = "running" THEN pc' = "waiting" /\ UNCHANGED <<temp, result>>
                            ELSE End("returned", Error)
    /\ UNCHANGED <<tool, stage, child, ran, elapsed, rows>>

\* The timer fires first: a program that still runs is killed and waited for.
TimeoutFires ==
    /\ pc = "running" /\ ran = Timeouts[tool][stage]
    /\ IF child = "running" THEN pc' = "killing" /\ UNCHANGED <<temp, result>>
                            ELSE End("returned", Error)
    /\ UNCHANGED <<tool, stage, child, ran, elapsed, rows>>

\* Variant: psort is run on what a killed log2timeline has written so far.
WaitReturnsGoesOn ==
    /\ pc = "killing" /\ child = "ended"
    /\ IF tool = "plaso.log2timeline" /\ stage = 1
       THEN pc' = "spawn" /\ stage' = 2 /\ child' = "none" /\ ran' = 0
            /\ UNCHANGED <<temp, result>>
       ELSE End("returned", Error) /\ UNCHANGED <<stage, child, ran>>
    /\ UNCHANGED <<tool, elapsed, rows>>

\* process.wait returns after the kill, and run_tool raises.
WaitReturns ==
    /\ pc = "killing" /\ child = "ended"
    /\ End("returned", Error)
    /\ UNCHANGED <<tool, stage, child, ran, elapsed, rows>>

-----------------------------------------------------------------------------
(* communicate returns.                                                    *)

\* A non-zero status is an error, whose message needs stderr to be UTF-8 (plaso's
\* does not quote it).
Failed ==
    \/ End("returned", Error)
    \/ tool # "plaso.log2timeline" /\ End("raised", NoResult)

\* The output is no JSON (amcache reads any text); or it is no UTF-8, or no list
\* of objects, and the exception is not caught.
Unreadable ==
    \/ tool # "regripper.amcache" /\ End("returned", Error)
    \/ End("raised", NoResult)

\* Variant: the fallback is the same program again.
NextStageAgain ==
    /\ pc' = "spawn" /\ stage' = stage /\ child' = "none" /\ ran' = 0
    /\ UNCHANGED <<temp, result>>

NextStage ==
    /\ pc' = "spawn" /\ stage' = 2 /\ child' = "none" /\ ran' = 0
    /\ UNCHANGED <<temp, result>>

\* The result of what the last stage printed.
Answer(doubt) ==
    /\ End("returned", [status |-> IF doubt THEN "partial" ELSE "ok", rows_of |-> stage])
    /\ UNCHANGED <<stage, child, ran>>

\* A pslist without a row that is taken is followed by psscan, and its notes are dropped.
Pslist(kept, bad) ==
    /\ tool = "volatility.pslist"
    /\ IF stage = 1 /\ ~kept THEN NextStage ELSE Answer(bad \/ ~kept)
    /\ UNCHANGED unread

Netscan(kept, bad) ==
    tool = "volatility.netscan" /\ Answer(bad \/ ~kept) /\ UNCHANGED unread

Cmdline(bad) == tool = "volatility.cmdline" /\ Answer(bad) /\ UNCHANGED unread

\* Lines after the last path are of no entry.
AmcacheEntries(kept, bad) ==
    tool = "regripper.amcache" /\ Answer(bad \/ ~kept) /\ unread' \in BOOLEAN

\* Variant: the notes do not count.
EventsLenient(bad) == tool = "evtxecmd.security" /\ Answer(FALSE) /\ unread' \in BOOLEAN

\* Of events only those whose id is one of the wanted numbers are looked at: a wanted one
\* whose id is text is not.
Events(bad) == tool = "evtxecmd.security" /\ Answer(bad) /\ unread' \in BOOLEAN

\* Of a timeline only the first fifty rows are looked at.
Timeline(bad) == tool = "plaso.log2timeline" /\ Answer(bad) /\ unread' \in BOOLEAN

\* The rows of the output are taken (kept) or skipped (bad).
Parse ==
    \E kept, bad \in BOOLEAN :
        /\ unparsed' = IF bad THEN unparsed \cup {stage} ELSE unparsed
        /\ \/ Pslist(kept, bad) \/ Netscan(kept, bad) \/ Cmdline(bad)
           \/ AmcacheEntries(kept, bad) \/ Events(bad) \/ Timeline(bad)

CommunicateReturns ==
    /\ pc = "running" /\ child = "ended"
    /\ \/ Failed /\ UNCHANGED <<stage, child, ran, rows>>
       \/ tool = "plaso.log2timeline" /\ stage = 1 /\ NextStage /\ UNCHANGED rows
       \/ ~(tool = "plaso.log2timeline" /\ stage = 1)
          /\ (Parse \/ (Unreadable /\ UNCHANGED <<stage, child, ran, rows>>))
    /\ UNCHANGED <<tool, elapsed>>

Next ==
    \/ Spawn \/ ChildEnds \/ Tick \/ TimeoutFires \/ WaitReturns \/ CommunicateReturns

\* The event loop resumes the wrapper and fires its timer; a killed program ends.
Fairness ==
    /\ WF_vars(Spawn \/ Tick \/ TimeoutFires \/ WaitReturns)
    /\ WF_vars(pc = "killing" /\ ChildEnds)

Spec == Init /\ [][Next]_vars /\ Fairness

-----------------------------------------------------------------------------
TypeOK ==
    /\ pc \in Over \cup {"spawn", "running", "killing"}
    /\ tool \in Tools /\ stage \in DOMAIN Timeouts[tool]
    /\ child \in {"none", "running", "ended"}
    /\ ran \in 0..(Timeouts[tool][stage] + MaxLinger) /\ elapsed \in Nat
    /\ pc = "running" => ran <= Timeouts[tool][stage]
    /\ temp \in BOOLEAN /\ unread \in BOOLEAN /\ unparsed \subseteq DOMAIN Timeouts[tool]
    /\ result \in [status: {"none", "ok", "partial", "error"}, rows_of: 0..stage]
    /\ pc = "returned" <=> result # NoResult

\* However a call ends, by an answer, an error, a timeout that races the program's
\* own end, or an exception, it leaves no program running and no temporary file.
NothingLeftBehind == pc \in Over => child # "running" /\ ~temp

\* What the programs up to this one may take together.
Budget == IF stage = 1 THEN Timeouts[tool][1] ELSE Timeouts[tool][1] + Timeouts[tool][2]

\* A program that overran its timeout gives no answer and is followed by no other: a call
\* that took longer than its programs may is still waiting for a killed one, or is an
\* error.  (The orchestrator's deadline does not interrupt a call: by the timeouts, and by
\* what a killed program takes to end, a tool can overrun it.)
OverdueIsError ==
    /\ elapsed > Budget => pc = "killing" \/ result = Error
    /\ pc = "spawn" /\ stage = 2 => elapsed <= Timeouts[tool][1]

\* An OK result has no skipped row among those the wrapper looked at, and the program that
\* printed them is the last one that was run.
OkSkipsNothing ==
    result.status = "ok" => result.rows_of = stage /\ stage \notin unparsed

\* At most so many steps are left: the minutes of this program and of one that may come
\* after it, the start of each, its end, and what the wrapper does of it.
StepsLeft ==
    LET running == IF child = "running" THEN 1 ELSE 0
        later == IF stage < Len(Timeouts[tool]) THEN Timeouts[tool][2] + 3 ELSE 0
        minutes == Timeouts[tool][stage] + MaxLinger
    IN  CASE pc = "spawn" -> later + minutes + 4
          [] pc = "running" -> later + (minutes - ran) + running + 2
          [] pc = "killing" -> (minutes - ran) + running + 1
          [] OTHER -> 0

\* Nothing starts a call over: no minute, program or fallback gives it back the time it
\* has used (run_tool's timer is set once for each program, and there are at most two:
\* volatility_pslist.py:134, plaso_log2timeline.py:105), so that it is over after StepsLeft
\* steps whichever way its programs end.
EveryStepCounts == [][StepsLeft' \in Nat /\ StepsLeft' < StepsLeft]_vars

\* The wrapper answers or raises: it never waits for a program for ever.
CallEnds == <>(pc \in Over)

\* A claim the code does not keep: base.py:38, a result is PARTIAL when "some output
\* was unparseable or evidence was incomplete".
OkMeansAllParsed == result.status = "ok" => unparsed = {} /\ ~unread
=============================================================================
