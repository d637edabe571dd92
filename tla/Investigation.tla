--------------------------- MODULE Investigation ---------------------------
(***************************************************************************)
(* The life of `sentinel run` and `sentinel demo` processes, their audit   *)
(* logs, and `sentinel verify` (src/sentinel/cli.py).                      *)
(*                                                                         *)
(* Several processes share one audit-logs directory.  A process is a       *)
(* straight line of steps: a session that appends receipts, the printed    *)
(* report, for demo a verification, and the log: the file is opened, which *)
(* empties it, its text handed to a buffered stream, whose bytes reach the *)
(* file piecemeal, at the latest when it is closed.                        *)
(* A process can be killed between any two steps, and a step can fail.     *)
(* The file's bytes are represented by its lines.                          *)
(***************************************************************************)
EXTENDS Naturals, Sequences, SequencesExt, Receipts

CONSTANTS
    Processes,
    CommandOf,     \* Processes -> {"run", "demo"}
    CaseOf,        \* Processes -> session ids (of a run, its case id)
    LogNameOf,     \* Processes -> log names (of a run, its case id; of a demo, its seed)
    SecretOf,      \* Processes -> secrets (of a run, from the environment)
    None,
    Tools, Outputs,
    MaxReceipts,   \* bound: receipts a session appends
    MaxSeconds,    \* bound: seconds the clock advances
    MaxFaults      \* bound: times the disk or an editor damages a finished log

ASSUME ProcessAssumption ==
    /\ CommandOf \in [Processes -> {"run", "demo"}]
    /\ DOMAIN CaseOf = Processes
    /\ DOMAIN LogNameOf = Processes
    /\ DOMAIN SecretOf = Processes
    /\ MaxSeconds \in Nat

VARIABLES
    pc, chain,
    path,        \* the log file's name, once chosen
    flushed,     \* lines of its log that have reached it
    files,       \* file name -> lines
    seconds,     \* int(time.time())
    faults

processVars == <<pc, chain, path, flushed>>
vars == <<processVars, files, seconds, faults>>

FileName == {LogNameOf[p] : p \in Processes} \X (0..MaxSeconds)
ASSUME NoneAssumption == None \notin FileName

Secrets == {SecretOf[p] : p \in Processes}
Live == {"start", "session", "report", "verify", "open", "write"}

Init ==
    /\ pc = [p \in Processes |-> "start"]
    /\ chain = [p \in Processes |-> << >>]
    /\ path = [p \in Processes |-> None]
    /\ flushed = [p \in Processes |-> 0]
    /\ files = << >>
    /\ seconds = 0 /\ faults = 0

Goto(p, label) == pc' = [pc EXCEPT ![p] = label]

\* The configuration is read and the session begins; or a missing secret or
\* API key, an empty case id or a cap of zero ends the process first.
Begin(p) ==
    /\ pc[p] = "start"
    /\ \/ Goto(p, "session")
       \/ CommandOf[p] = "run" /\ Goto(p, "failed")
    /\ UNCHANGED <<chain, path, flushed, files, seconds, faults>>

\* A tool is executed and its receipt appended to the chain in memory.
ExecuteTool(p) ==
    /\ pc[p] = "session" /\ Len(chain[p]) < MaxReceipts
    /\ \E tool \in Tools, output \in Outputs :
          chain' = [chain EXCEPT ![p] = Append(@,
                       NewReceipt(CaseOf[p], SecretOf[p], @, seconds, tool, None, output))]
    /\ UNCHANGED <<pc, path, flushed, files, seconds, faults>>

\* Orchestrator.run returns its result, or lets an exception through
\* (_cmd_run catches RuntimeError, prints it and returns 1).
EndSession(p) ==
    /\ pc[p] = "session"
    /\ \/ Goto(p, "report")
       \/ CommandOf[p] = "run" /\ Goto(p, "failed")
    /\ UNCHANGED <<chain, path, flushed, files, seconds, faults>>

\* The report is printed before the chain is verified, or its log saved.
PrintReport(p) ==
    /\ pc[p] = "report"
    /\ Goto(p, IF CommandOf[p] = "demo" THEN "verify" ELSE "open")
    /\ UNCHANGED <<chain, path, flushed, files, seconds, faults>>

\* Only the demo calls chain.verify().
VerifyChain(p) ==
    /\ pc[p] = "verify"
    /\ Goto(p, IF Verifies(CaseOf[p], SecretOf[p], chain[p]) THEN "open" ELSE "failed")
    /\ UNCHANGED <<chain, path, flushed, files, seconds, faults>>

LogOf(p) == ToJsonl(CaseOf[p], chain[p])

\* audit-logs/{name}-{second}.jsonl is created, or emptied if it exists; or
\* the directory or the name is refused (a case id with a slash in it).
OpenLog(p) ==
    /\ pc[p] = "open"
    /\ \/ LET name == <<LogNameOf[p], seconds>>
          IN  /\ path' = [path EXCEPT ![p] = name]
              /\ files' = [f \in DOMAIN files \cup {name} |->
                              IF f = name THEN << >> ELSE files[f]]
              /\ Goto(p, "write")
       \/ Goto(p, "failed") /\ UNCHANGED <<path, files>>
    /\ UNCHANGED <<chain, flushed, seconds, faults>>

\* The lines of a file after a line is written at position n.  Where another
\* process has emptied the file there is a hole before it.  What another process
\* wrote at n is overwritten, and, the lines' lengths being different, the next
\* line may lose its beginning or the old line's end may stay as a line of its own.
LinesAfterWrite(lines, n, line) ==
    IF n > Len(lines)
    THEN {[i \in 1..n |-> IF i <= Len(lines) THEN lines[i]
                          ELSE IF i = n THEN line ELSE TornLine]}
    ELSE LET overwritten == [lines EXCEPT ![n] = line]
         IN  {overwritten, InsertAt(overwritten, n + 1, TornLine)} \cup
             (IF n < Len(lines) THEN {[overwritten EXCEPT ![n + 1] = TornLine]} ELSE {})

WriteAt(p, line) ==
    \E lines \in LinesAfterWrite(files[path[p]], flushed[p] + 1, line) :
        files' = [files EXCEPT ![path[p]] = lines]

\* write_text hands the stream all the text at once.  When its bytes reach the file is
\* up to the buffer and the system: some now, the rest when the stream is closed, and
\* none before that if the process is stopped.
FlushLine(p) ==
    /\ pc[p] = "write" /\ flushed[p] < Len(LogOf(p))
    /\ WriteAt(p, LogOf(p)[flushed[p] + 1])
    /\ flushed' = [flushed EXCEPT ![p] = @ + 1]
    /\ UNCHANGED <<pc, chain, path, seconds, faults>>

\* Variant: the header is not counted among the lines to flush.
CloseLogEarly(p) ==
    /\ pc[p] = "write" /\ flushed[p] >= Len(chain[p])
    /\ Goto(p, "exited")
    /\ UNCHANGED <<chain, path, flushed, files, seconds, faults>>

\* The stream is closed, with everything in the file, and the process ends with status 0.
CloseLog(p) ==
    /\ pc[p] = "write" /\ flushed[p] = Len(LogOf(p))
    /\ Goto(p, "exited")
    /\ UNCHANGED <<chain, path, flushed, files, seconds, faults>>

\* The process is killed, its write fails (disk full), or the demo's last lines cannot be
\* printed.  The last line to reach the file may be cut.
Stop(p) ==
    /\ pc[p] \in Live
    /\ Goto(p, IF pc[p] = "write" THEN "failed" ELSE "killed")
    /\ \/ UNCHANGED files
       \/ pc[p] = "write" /\ flushed[p] < Len(LogOf(p)) /\ WriteAt(p, TornLine)
    /\ UNCHANGED <<chain, path, flushed, seconds, faults>>

Tick ==
    /\ seconds < MaxSeconds
    /\ seconds' = seconds + 1
    /\ UNCHANGED <<processVars, files, faults>>

\* What a damaged disk or a careless editor leaves of a log: a line lost (or
\* blank), doubled or exchanged with the next, or a receipt with another output digest.
\* Nobody but a process has the secret, so no signature is new.
Altered(line) ==
    IF line.kind = "receipt"
    THEN [line EXCEPT !.receipt.output_sha256 = Sha256("altered")] ELSE TornLine

Damages(lines) ==
    (UNION {{RemoveAt(lines, i), InsertAt(lines, i, lines[i]),
             [lines EXCEPT ![i] = Altered(@)]} : i \in DOMAIN lines})
    \cup {[lines EXCEPT ![i] = lines[i + 1], ![i + 1] = lines[i]] : i \in 1..(Len(lines) - 1)}

Damage ==
    /\ faults < MaxFaults
    /\ \A p \in Processes : pc[p] \notin Live
    /\ \E f \in DOMAIN files : \E lines \in Damages(files[f]) :
          files' = [files EXCEPT ![f] = lines]
    /\ faults' = faults + 1
    /\ UNCHANGED <<processVars, seconds>>

Step(p) ==
    \/ Begin(p) \/ ExecuteTool(p) \/ EndSession(p) \/ PrintReport(p) \/ VerifyChain(p)
    \/ OpenLog(p) \/ FlushLine(p) \/ CloseLog(p) \/ Stop(p)

Next == (\E p \in Processes : Step(p)) \/ Tick \/ Damage

Spec == Init /\ [][Next]_vars

-----------------------------------------------------------------------------
\* _cmd_verify on a file that exists: "Chain valid", status 0.
CmdVerifySucceeds(secret, lines) ==
    /\ ~LoadFails(lines)
    /\ Verifies(LoadedSession(lines), secret, LoadedChain(lines))

TypeOK ==
    /\ pc \in [Processes -> Live \cup {"exited", "failed", "killed"}]
    /\ \A p \in Processes :
          /\ path[p] \in FileName \cup {None}
          /\ flushed[p] \in 0..Len(LogOf(p))
          /\ pc[p] = "write" => path[p] \in DOMAIN files
          /\ pc[p] = "exited" => flushed[p] = Len(LogOf(p))
    /\ DOMAIN files \subseteq FileName

\* Whatever interleaving of writers, kill, full disk or damage made it: a log that
\* `sentinel verify` accepts holds receipts of one session, from its first on, none
\* missing between, none of another session.  (Its last ones may be missing.)
ValidLogIsPrefixOfSession ==
    \A f \in DOMAIN files : \A secret \in Secrets :
        CmdVerifySucceeds(secret, files[f]) =>
            \E p \in Processes : /\ SecretOf[p] = secret
                                 /\ IsPrefix(LoadedChain(files[f]), chain[p])

Undisturbed(p) ==
    faults = 0 /\ \A q \in Processes \ {p} : path[q] # path[p]

LogIsComplete(p) ==
    /\ CmdVerifySucceeds(SecretOf[p], files[path[p]])
    /\ LoadedChain(files[path[p]]) = chain[p]

\* A process that returned 0 has saved its session: its log, if nobody else used the
\* same name in the same second, verifies and holds every receipt.
ExitZeroMeansSaved ==
    \A p \in Processes : pc[p] = "exited" /\ Undisturbed(p) => LogIsComplete(p)

\* A save that stops halfway (killed, disk full: cli.py:433 and 511) leaves the
\* beginning of the session's log, or an empty file, however many receipts had been
\* handed to the stream.  `verify` refuses an empty file and one that ends in a cut
\* line; whole lines verify, as if the session had ended there.
StoppedSaveIsBeginning ==
    \A p \in Processes : pc[p] = "failed" /\ path[p] # None /\ Undisturbed(p) =>
        LET lines == files[path[p]]
        IN  \E n \in 0..Len(LogOf(p)) :
               LET beginning == SubSeq(LogOf(p), 1, n)
               IN  \/ /\ lines = beginning /\ n > 0
                      /\ CmdVerifySucceeds(SecretOf[p], lines)
                      /\ LoadedChain(lines) = SubSeq(chain[p], 1, n - 1)
                   \/ /\ lines \in {<< >>, Append(beginning, TornLine)}
                      /\ LoadFails(lines)

(* A claim of the documentation that the code does not keep. *)

\* README.md: "Every tool execution writes an HMAC-signed, hash-linked receipt".  A
\* session that ends by itself leaves a log if it executed a tool.
ExecutionsLogged ==
    \A p \in Processes : pc[p] = "failed" /\ chain[p] # << >> => path[p] # None
=============================================================================
