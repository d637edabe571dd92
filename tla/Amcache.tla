------------------------------ MODULE Amcache ------------------------------
(***************************************************************************)
(* The loop of regripper_amcache (src/sentinel/tools/regripper_amcache.py) *)
(* over the lines rip.pl printed.  A line is reduced to the AmcacheEntry   *)
(* field its key stands for and its value; the lines of an entry are       *)
(* collected until its path.                                               *)
(***************************************************************************)
EXTENDS Naturals, Sequences

CONSTANTS
    Fields,   \* fields of AmcacheEntry other than its path
    Values,   \* the texts a value may be
    Empty,    \* the empty text
    MaxLines  \* bound: lines of the output

\* "path" and "full_path" are the path; a line without a colon, or with a key that is
\* not in _KEY_MAP, stands for no field.
Path == "program_path"
Unmapped == "unmapped"

ASSUME AmcacheAssumption == Empty \in Values /\ Fields \cap {Path, Unmapped} = {}

Line == [field: Fields \cup {Path, Unmapped}, value: Values]

VARIABLES
    output,   \* the lines read so far
    current,  \* the fields collected
    entries,  \* the entries, each with the number of its last line
    skipped,  \* the lines whose entries are noted as skipped
    status    \* of the result, "none" before

vars == <<output, current, entries, skipped, status>>

NoFields == [field \in {} |-> Empty]

Init ==
    /\ output = << >> /\ current = NoFields
    /\ entries = {} /\ skipped = {}
    /\ status = "none"

\* The fields with one more, which replaces an earlier value.
With(fields, line) ==
    [field \in DOMAIN fields \cup {line.field} |->
        IF field = line.field THEN line.value ELSE fields[field]]

Read(line) ==
    /\ status = "none" /\ Len(output) < MaxLines
    /\ output' = Append(output, line)

\* A line that is not a path is collected, or passed over.
ReadField ==
    \E line \in Line :
        /\ line.field # Path
        /\ Read(line)
        /\ current' = IF line.field = Unmapped THEN current ELSE With(current, line)
        /\ UNCHANGED <<entries, skipped, status>>

\* Variant: the fields are dropped only when they have become an entry.
ReadPathKeeps ==
    \E line \in Line :
        /\ line.field = Path
        /\ Read(line)
        /\ IF line.value # Empty
           THEN /\ entries' = entries \cup {[line |-> Len(output'), fields |-> With(current, line)]}
                /\ current' = NoFields
                /\ UNCHANGED skipped
           ELSE /\ skipped' = skipped \cup {Len(output')}
                /\ current' = With(current, line)
                /\ UNCHANGED entries
        /\ UNCHANGED status

\* A path makes an entry of what was collected, unless it is empty.
ReadPath ==
    \E line \in Line :
        /\ line.field = Path
        /\ Read(line)
        /\ IF line.value # Empty
           THEN /\ entries' = entries \cup {[line |-> Len(output'), fields |-> With(current, line)]}
                /\ UNCHANGED skipped
           ELSE skipped' = skipped \cup {Len(output')} /\ UNCHANGED entries
        /\ current' = NoFields
        /\ UNCHANGED status

\* Variant: entries make a result OK.
ReturnLenient ==
    /\ status = "none"
    /\ status' = IF entries = {} THEN "partial" ELSE "ok"
    /\ UNCHANGED <<output, current, entries, skipped>>

\* The output ends.  (What was collected since the last path is lost.)
Return ==
    /\ status = "none"
    /\ status' = IF skipped # {} \/ entries = {} THEN "partial" ELSE "ok"
    /\ UNCHANGED <<output, current, entries, skipped>>

Next == ReadField \/ ReadPath \/ Return

Spec == Init /\ [][Next]_vars

-----------------------------------------------------------------------------
PathLines == {i \in DOMAIN output : output[i].field = Path}

\* The lines an entry that ends at line n is made of: those after the path before.
Block(n) == {i \in 1..n : \A p \in PathLines : p < n => p < i}

\* The last lines of a block for each field.
LastOf(block, field) ==
    {i \in block : /\ output[i].field = field
                   /\ \A j \in block : output[j].field = field => j <= i}

\* Every entry has the fields of its own lines, with their last values, and none of an
\* entry before it, be that one taken or skipped (current is reset in both cases).
\* Evidence of one program is never ascribed to another.
EntriesOfTheirLines ==
    \A entry \in entries :
        /\ DOMAIN entry.fields = {output[i].field : i \in Block(entry.line)} \ {Unmapped}
        /\ \A field \in DOMAIN entry.fields : \A i \in LastOf(Block(entry.line), field) :
              entry.fields[field] = output[i].value

\* An OK result has an entry for every path rip.pl printed, and at least one; in any
\* result each path is an entry or noted as skipped, and never both.
OkMeansEveryPath ==
    /\ {entry.line : entry \in entries} \cup skipped = PathLines
    /\ {entry.line : entry \in entries} \cap skipped = {}
    /\ status = "ok" => skipped = {} /\ PathLines # {}
=============================================================================
