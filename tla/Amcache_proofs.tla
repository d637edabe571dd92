--------------------------- MODULE Amcache_proofs ---------------------------
(* The amcache parser, for outputs of any length. *)
EXTENDS Amcache, TLAPS

(* The operators of the properties, for any output. *)
Paths(out) == {i \in DOMAIN out : out[i].field = Path}
BlockIn(out, n) == {i \in 1..n : \A p \in Paths(out) : p < n => p < i}
LastIn(out, block, field) ==
    {i \in block : /\ out[i].field = field
                   /\ \A j \in block : out[j].field = field => j <= i}

\* fields has what the lines of a block say, each field with its last value.
Spells(out, fields, block) ==
    /\ DOMAIN fields = {out[i].field : i \in block} \ {Unmapped}
    /\ \A field \in DOMAIN fields : \A i \in LastIn(out, block, field) :
          fields[field] = out[i].value

\* The lines since the last path.
Open(out) == {i \in 1..Len(out) : \A p \in Paths(out) : p < i}

IInv ==
    /\ output \in Seq(Line)
    /\ Spells(output, current, Open(output))
    /\ \A entry \in entries : /\ entry.line \in 1..Len(output)
                              /\ Spells(output, entry.fields, BlockIn(output, entry.line))
    /\ {entry.line : entry \in entries} \cup skipped = Paths(output)
    /\ {entry.line : entry \in entries} \cap skipped = {}
    /\ status = "ok" => skipped = {} /\ Paths(output) # {}

LEMMA Appended ==
    ASSUME NEW out \in Seq(Line), NEW line \in Line
    PROVE  /\ Append(out, line) \in Seq(Line) /\ Len(out) \in Nat
           /\ Len(Append(out, line)) = Len(out) + 1
           /\ DOMAIN Append(out, line) = 1..(Len(out) + 1) /\ DOMAIN out = 1..Len(out)
           /\ Append(out, line)[Len(out) + 1] = line
           /\ \A i \in 1..Len(out) : Append(out, line)[i] = out[i]
  OBVIOUS

LEMMA PathsGrow ==
    ASSUME NEW out \in Seq(Line), NEW line \in Line
    PROVE  /\ Paths(Append(out, line))
                 = Paths(out) \cup (IF line.field = Path THEN {Len(out) + 1} ELSE {})
           /\ Paths(out) \subseteq 1..Len(out)
  BY Appended DEF Paths

\* The lines of an entry stay what they are when more are read.
LEMMA BlockStable ==
    ASSUME NEW out \in Seq(Line), NEW line \in Line, NEW n \in 1..Len(out)
    PROVE  BlockIn(Append(out, line), n) = BlockIn(out, n) /\ BlockIn(out, n) \subseteq 1..Len(out)
<1> DEFINE more == Append(out, line)
<1>1. Paths(more) = Paths(out) \cup (IF line.field = Path THEN {Len(out) + 1} ELSE {})
  BY PathsGrow
<1>2. ~(Len(out) + 1 < n) /\ n \in Nat /\ Len(out) \in Nat
  OBVIOUS
<1> HIDE DEF more
<1>3. \A i \in 1..n :
         (\A p \in Paths(more) : p < n => p < i) <=> (\A p \in Paths(out) : p < n => p < i)
  BY <1>1, <1>2
<1>4. BlockIn(more, n) = BlockIn(out, n)
  BY <1>3 DEF BlockIn
<1>5. QED  BY <1>2, <1>4 DEF BlockIn, more

\* Of a block of lines read before, what is spelled stays so.
LEMMA SpellsStable ==
    ASSUME NEW out \in Seq(Line), NEW line \in Line,
           NEW block \in SUBSET (1..Len(out)), NEW fields, Spells(out, fields, block)
    PROVE  Spells(Append(out, line), fields, block)
<1> DEFINE more == Append(out, line)
<1>1. \A i \in block : more[i] = out[i]
  BY Appended
<1> HIDE DEF more
<1>2. {more[i].field : i \in block} = {out[i].field : i \in block}
  BY <1>1
<1>3. \A field : LastIn(more, block, field) = LastIn(out, block, field)
  BY <1>1 DEF LastIn
<1>4. \A field : LastIn(more, block, field) \subseteq block
  BY DEF LastIn
<1>5. Spells(more, fields, block)
  BY <1>1, <1>2, <1>3, <1>4 DEF Spells
<1>6. QED  BY <1>5 DEF more

\* A block and the line after it.
LEMMA SpellsMore ==
    ASSUME NEW out \in Seq(Line), NEW line \in Line, line.field # Unmapped,
           NEW block \in SUBSET (1..Len(out)), NEW fields, Spells(out, fields, block)
    PROVE  Spells(Append(out, line), With(fields, line), block \cup {Len(out) + 1})
<1> DEFINE n == Len(out) + 1
           out2 == Append(out, line)
           more == With(fields, line)
           longer == block \cup {n}
<1>1. /\ out2[n] = line /\ \A i \in block : out2[i] = out[i]
      /\ n \in Nat /\ \A i \in block : i \in Nat /\ i < n
  BY Appended
<1>2. DOMAIN more = DOMAIN fields \cup {line.field}
  BY DEF With
<1> HIDE DEF out2, n
<1>3. {out2[i].field : i \in longer} = {out[i].field : i \in block} \cup {line.field}
  BY <1>1
<1>4. DOMAIN more = {out2[i].field : i \in longer} \ {Unmapped}
  BY <1>2, <1>3 DEF Spells
<1>5. ASSUME NEW field \in DOMAIN more, NEW i \in LastIn(out2, longer, field)
      PROVE  more[field] = out2[i].value
  <2>1. /\ i \in longer /\ out2[i].field = field
        /\ \A j \in longer : out2[j].field = field => j <= i
    BY <1>5 DEF LastIn
  <2>2. CASE field = line.field
    <3>1. n <= i
      BY <1>1, <2>1, <2>2
    <3>2. i = n
      BY <1>1, <2>1, <3>1
    <3>3. QED  BY <1>1, <1>2, <2>2, <3>2 DEF With
  <2>3. CASE field # line.field
    <3>1. i \in block /\ i # n
      BY <1>1, <2>1, <2>3
    <3>2. i \in LastIn(out, block, field)
      BY <1>1, <2>1, <3>1 DEF LastIn
    <3>3. field \in DOMAIN fields /\ more[field] = fields[field]
      BY <1>2, <2>3 DEF With
    <3>4. QED  BY <1>1, <3>1, <3>2, <3>3 DEF Spells
  <2>4. QED  BY <2>2, <2>3
<1> HIDE DEF more, longer
<1>6. Spells(out2, more, longer)
  BY <1>4, <1>5 DEF Spells
<1>7. QED  BY <1>6 DEF more, longer, n, out2

LEMMA OpenGrows ==
    ASSUME NEW out \in Seq(Line), NEW line \in Line
    PROVE  /\ line.field # Path => Open(Append(out, line)) = Open(out) \cup {Len(out) + 1}
           /\ line.field = Path => /\ Open(Append(out, line)) = {}
                                   /\ BlockIn(Append(out, line), Len(out) + 1)
                                         = Open(out) \cup {Len(out) + 1}
           /\ Open(out) \in SUBSET (1..Len(out))
<1> DEFINE more == Append(out, line)
           n == Len(out) + 1
<1>1. Len(more) = n /\ n \in Nat /\ Len(out) = n - 1
  BY Appended
<1>2. /\ Paths(more) = Paths(out) \cup (IF line.field = Path THEN {n} ELSE {})
      /\ Paths(out) \subseteq 1..(n - 1)
  BY <1>1, PathsGrow
<1> HIDE DEF more
<1>3. Open(more) = {i \in 1..n : \A p \in Paths(more) : p < i}
  BY <1>1 DEF Open
<1>4. Open(out) = {i \in 1..(n - 1) : \A p \in Paths(out) : p < i}
  BY <1>1 DEF Open
<1> HIDE DEF n
<1>5. line.field # Path => Open(more) = Open(out) \cup {n}
  BY <1>1, <1>2, <1>3, <1>4
<1>6. line.field = Path => Open(more) = {}
  BY <1>1, <1>2, <1>3
<1>7. line.field = Path => BlockIn(more, n) = Open(out) \cup {n}
  <2> SUFFICES ASSUME line.field = Path PROVE BlockIn(more, n) = Open(out) \cup {n}
    OBVIOUS
  <2>1. \A p \in Paths(more) : (p < n) <=> (p \in Paths(out))
    BY <1>1, <1>2
  <2>2. BlockIn(more, n) = {i \in 1..n : \A p \in Paths(out) : p < i}
    BY <1>2, <2>1 DEF BlockIn
  <2>3. QED  BY <1>1, <1>2, <1>4, <2>2
<1>8. Open(out) \in SUBSET (1..Len(out))
  BY DEF Open
<1>9. QED  BY <1>5, <1>6, <1>7, <1>8 DEF more, n

-----------------------------------------------------------------------------
LEMMA IInvInit == Init => IInv
<1> SUFFICES ASSUME Init PROVE IInv
  OBVIOUS
<1>1. output = << >> /\ DOMAIN current = {} /\ entries = {} /\ skipped = {} /\ status = "none"
  BY DEF Init, NoFields
<1>2. Open(output) = {} /\ Paths(output) = {} /\ output \in Seq(Line)
  BY <1>1 DEF Open, Paths
<1>3. Spells(output, current, Open(output))
  BY <1>1, <1>2 DEF Spells
<1>4. QED  BY <1>1, <1>2, <1>3 DEF IInv

\* Reading a line keeps the entries there are.
LEMMA EntriesStable ==
    ASSUME IInv, NEW line \in Line, NEW entry \in entries
    PROVE  /\ entry.line \in 1..Len(Append(output, line))
           /\ Spells(Append(output, line), entry.fields, BlockIn(Append(output, line), entry.line))
<1>1. output \in Seq(Line) /\ entry.line \in 1..Len(output)
      /\ Spells(output, entry.fields, BlockIn(output, entry.line))
  BY DEF IInv
<1>2. /\ BlockIn(Append(output, line), entry.line) = BlockIn(output, entry.line)
      /\ BlockIn(output, entry.line) \in SUBSET (1..Len(output))
  BY <1>1, BlockStable
<1>3. Spells(Append(output, line), entry.fields, BlockIn(output, entry.line))
  BY <1>1, <1>2, SpellsStable
<1>4. QED  BY <1>1, <1>2, <1>3, Appended

LEMMA ReadFieldKeeps == IInv /\ ReadField => IInv'
<1> SUFFICES ASSUME IInv, ReadField PROVE IInv'
  OBVIOUS
<1>1. PICK line \in Line :
         /\ line.field # Path /\ Read(line)
         /\ current' = IF line.field = Unmapped THEN current ELSE With(current, line)
         /\ UNCHANGED <<entries, skipped, status>>
  BY DEF ReadField
<1> DEFINE more == Append(output, line)
<1>2. output' = more /\ status = "none" /\ output \in Seq(Line)
      /\ Spells(output, current, Open(output))
  BY <1>1 DEF Read, IInv
<1>3. /\ Open(more) = Open(output) \cup {Len(output) + 1}
      /\ Open(output) \in SUBSET (1..Len(output))
      /\ Paths(more) = Paths(output) /\ more \in Seq(Line)
  <2>1. Open(more) = Open(output) \cup {Len(output) + 1} /\ Open(output) \in SUBSET (1..Len(output))
    BY <1>1, <1>2, OpenGrows
  <2>2. Paths(more) = Paths(output)
    BY <1>1, <1>2, PathsGrow
  <2>3. more \in Seq(Line)
    BY <1>1, <1>2, Appended
  <2>4. QED  BY <2>1, <2>2, <2>3
<1>4. Spells(more, current', Open(more))
  <2>1. CASE line.field = Unmapped
    <3>1. Spells(more, current, Open(output))
      BY <1>2, <1>3, SpellsStable
    <3>2. more[Len(output) + 1] = line /\ Len(output) \in Nat
      BY <1>2, Appended
    <3> HIDE DEF more
    <3>3. {more[i].field : i \in Open(more)} \ {Unmapped}
             = {more[i].field : i \in Open(output)} \ {Unmapped}
      BY <1>3, <2>1, <3>2
    <3>4. ASSUME NEW field, field # Unmapped
          PROVE  LastIn(more, Open(more), field) = LastIn(more, Open(output), field)
      BY <1>3, <2>1, <3>2, <3>4 DEF LastIn
    <3>5. Spells(more, current, Open(more))
      BY <3>1, <3>3, <3>4 DEF Spells
    <3>6. QED  BY <1>1, <2>1, <3>5
  <2>2. CASE line.field # Unmapped
    <3>1. Spells(more, With(current, line), Open(output) \cup {Len(output) + 1})
      BY <1>2, <1>3, <2>2, SpellsMore
    <3>2. QED  BY <1>1, <1>3, <2>2, <3>1
  <2>3. QED  BY <2>1, <2>2
<1>5. \A entry \in entries : /\ entry.line \in 1..Len(more)
                             /\ Spells(more, entry.fields, BlockIn(more, entry.line))
  BY EntriesStable
<1> HIDE DEF more
<1>6. QED  BY <1>1, <1>2, <1>3, <1>4, <1>5 DEF IInv

LEMMA PathKeeps == IInv /\ ReadPath => IInv'
<1> SUFFICES ASSUME IInv, ReadPath PROVE IInv'
  OBVIOUS
<1> DEFINE n == Len(output) + 1
<1>1. PICK line \in Line :
         /\ line.field = Path /\ Read(line)
         /\ IF line.value # Empty
            THEN /\ entries' = entries \cup
                      {[line |-> Len(output'), fields |-> With(current, line)]}
                 /\ UNCHANGED skipped
            ELSE skipped' = skipped \cup {Len(output')} /\ UNCHANGED entries
         /\ current' = NoFields
         /\ UNCHANGED status
  BY DEF ReadPath
<1> DEFINE more == Append(output, line)
           new == [line |-> n, fields |-> With(current, line)]
<1>2. output' = more /\ status = "none" /\ output \in Seq(Line)
      /\ Spells(output, current, Open(output)) /\ line.field # Unmapped
  BY <1>1 DEF Read, IInv, Path, Unmapped
<1>3. /\ Open(more) = {} /\ BlockIn(more, n) = Open(output) \cup {n}
      /\ Open(output) \in SUBSET (1..Len(output))
      /\ Paths(more) = Paths(output) \cup {n} /\ Paths(output) \subseteq 1..Len(output)
      /\ more \in Seq(Line) /\ Len(more) = n /\ n \in Nat /\ n \in 1..n
      /\ ~(n \in 1..Len(output))
  BY <1>1, <1>2, OpenGrows, PathsGrow, Appended
<1>4. Spells(more, With(current, line), BlockIn(more, n))
  BY <1>2, <1>3, SpellsMore
<1>5. Spells(more, NoFields, {})
  BY DEF Spells, NoFields, LastIn
<1>6. \A entry \in entries : /\ entry.line \in 1..Len(more)
                             /\ Spells(more, entry.fields, BlockIn(more, entry.line))
  BY EntriesStable
<1> HIDE DEF more, n
<1>7. CASE line.value # Empty
  <2>1. entries' = entries \cup {new} /\ skipped' = skipped
    BY <1>1, <1>2, <1>3, <1>7
  <2>2. new.line = n /\ new.fields = With(current, line)
    OBVIOUS
  <2> HIDE DEF new
  <2>3. {entry.line : entry \in entries'} = {entry.line : entry \in entries} \cup {n}
    BY <2>1, <2>2
  <2>4. \A entry \in entries' : /\ entry.line \in 1..Len(more)
                                /\ Spells(more, entry.fields, BlockIn(more, entry.line))
    BY <1>3, <1>4, <1>6, <2>1, <2>2
  <2>5. n \notin skipped
    BY <1>3 DEF IInv
  <2>6. QED  BY <1>1, <1>2, <1>3, <1>5, <2>1, <2>3, <2>4, <2>5 DEF IInv
<1>8. CASE line.value = Empty
  <2>1. entries' = entries /\ skipped' = skipped \cup {n}
    BY <1>1, <1>2, <1>3, <1>8
  <2>2. n \notin {entry.line : entry \in entries}
    BY <1>3 DEF IInv
  <2>3. QED  BY <1>1, <1>2, <1>3, <1>5, <1>6, <2>1, <2>2 DEF IInv
<1>9. QED  BY <1>7, <1>8

LEMMA IInvStep == IInv /\ [Next]_vars => IInv'
<1> SUFFICES ASSUME IInv, [Next]_vars PROVE IInv'
  OBVIOUS
<1>1. CASE Return
  <2>1. /\ UNCHANGED <<output, current, entries, skipped>>
        /\ status' = IF skipped # {} \/ entries = {} THEN "partial" ELSE "ok"
    BY <1>1 DEF Return
  <2>2. status' = "ok" => skipped = {} /\ Paths(output) # {}
    BY <2>1 DEF IInv
  <2>3. QED  BY <2>1, <2>2 DEF IInv
<1>2. CASE UNCHANGED vars
  BY <1>2 DEF vars, IInv
<1>3. QED  BY <1>1, <1>2, ReadFieldKeeps, PathKeeps DEF Next

LEMMA ParserInvariant == Spec => []IInv
  BY IInvInit, IInvStep, PTL DEF Spec

\* An entry has the fields of the lines since the path before it, and no others,
\* whatever rip.pl prints (regripper_amcache: current, and its reset).
THEOREM EntriesCorrect == Spec => []EntriesOfTheirLines
<1>1. ASSUME IInv PROVE EntriesOfTheirLines
  <2>1. SUFFICES ASSUME NEW entry \in entries
                 PROVE  /\ DOMAIN entry.fields
                              = {output[i].field : i \in Block(entry.line)} \ {Unmapped}
                        /\ \A field \in DOMAIN entry.fields :
                              \A i \in LastOf(Block(entry.line), field) :
                                 entry.fields[field] = output[i].value
    BY DEF EntriesOfTheirLines
  <2>2. Spells(output, entry.fields, BlockIn(output, entry.line))
    BY <1>1 DEF IInv
  <2>3. BlockIn(output, entry.line) = Block(entry.line)
    BY DEF BlockIn, Block, Paths, PathLines
  <2>4. \A field : LastIn(output, Block(entry.line), field) = LastOf(Block(entry.line), field)
    BY DEF LastIn, LastOf
  <2>5. QED  BY <2>2, <2>3, <2>4 DEF Spells
<1>2. QED  BY <1>1, ParserInvariant, PTL

\* An OK result accounts for every path of the output.
THEOREM EveryPathAccounted == Spec => []OkMeansEveryPath
<1>1. IInv => OkMeansEveryPath
  BY DEF IInv, OkMeansEveryPath, Paths, PathLines
<1>2. QED  BY <1>1, ParserInvariant, PTL
=============================================================================
